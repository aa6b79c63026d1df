-------------------------- MODULE ConfigStoreProofs --------------------------
(***************************************************************************)
(* What TLAPS proves of the settings row, for every set of keys, passwords *)
(* and settings and every length of the key list.                          *)
(***************************************************************************)
EXTENDS ConfigStore, TLAPS

USE BlankAssumption, NoConfigAssumption

-----------------------------------------------------------------------------
(* The inductive invariant *)

\* Once a rotation has finished under the head key, nothing stored needs
\* another one, so that the old keys can go.
RotatedNeedsHead ==
  rotated /\ row # NoConfig =>
    row.bluewave.key = Head(keys) /\ row.mysql.key = Head(keys)

\* There is something an operator saved behind everything that is stored, being
\* rotated or kept for a blank field.
SavedBefore ==
  /\ row # NoConfig => typed # NoConfig
  /\ proc["rotate"] # Idle => typed # NoConfig
  /\ proc["web"] # Idle /\ BlankFields(proc["web"].form) # {} => typed # NoConfig

\* What a rotation holds is what the operator last saved...
RotationInStep == proc["rotate"] # Idle /\ ~overtaken => proc["rotate"].cfg = typed

\* ... and what POST /config is about to save is the form with its blank fields
\* taken from there.
SaveInStep ==
  proc["web"] # Idle =>
    \A f \in {"settings", "bluewave", "mysql"} :
      IF proc["web"].form[f] = Blank
        THEN ~overtaken => proc["web"].cfg[f] = typed[f]
        ELSE proc["web"].cfg[f] = proc["web"].form[f]

IInv == /\ TypeOK
        /\ AlwaysReadable
        /\ RotatedNeedsHead
        /\ SavedBefore
        /\ RotationInStep
        /\ SaveInStep
        /\ LastSaveHolds

-----------------------------------------------------------------------------
(* The writers and the key list *)

LEMMA ProcType ==
  ASSUME TypeOK
  PROVE  /\ proc["web"] \in Posting \cup {Idle}
         /\ proc["rotate"] \in Rotating \cup {Idle}
         /\ DOMAIN proc = Writers
         /\ \A p \in Writers : proc[p].stage # "idle" =>
              /\ proc[p] # Idle
              /\ proc[p].cfg \in Config
         /\ proc["web"] # Idle => /\ proc["web"].cfg \in Config
                                  /\ proc["web"].form \in Form
         /\ proc["rotate"] # Idle => proc["rotate"].cfg \in Config
  BY DEF TypeOK, Writers, Posting, Rotating, Idle

\* What the head key encrypts, the key list decrypts to the same settings.
LEMMA EncryptedReads ==
  ASSUME keys \in Seq(Keys), keys # <<>>, NEW cfg \in Config
  PROVE  /\ Encrypt(cfg) \in Row
         /\ Decrypts(Encrypt(cfg))
         /\ Plain(Encrypt(cfg)) = cfg
         /\ Encrypt(cfg).bluewave.key = Head(keys)
         /\ Encrypt(cfg).mysql.key = Head(keys)
<1>1. Head(keys) \in Keys /\ Head(keys) \in KeyList
  BY DEF KeyList
<1> QED
  BY <1>1 DEF Config, Row, Token, Encrypt, Decrypts, Plain

LEMMA PlainIsConfig == \A r \in Row : Plain(r) \in Config
  BY DEF Row, Token, Plain, Config

\* Filling a form from stored settings gives settings: what was typed, and
\* what was stored where nothing was.
LEMMA FillIsConfig ==
  ASSUME NEW form \in Form, NEW existing \in Config
  PROVE  /\ Fill(form, existing) \in Config
         /\ \A f \in {"settings", "bluewave", "mysql"} :
              Fill(form, existing)[f] = IF form[f] = Blank THEN existing[f] ELSE form[f]
<1>1. DOMAIN form = {"settings", "bluewave", "mysql"}
  BY DEF Form
<1> QED
  BY <1>1 DEF Form, Config, Fill

\* A first save needs both passwords typed.
LEMMA FullFormIsConfig ==
  ASSUME NEW form \in Form, BlankFields(form) = {}
  PROVE  form \in Config
<1>1. form.bluewave # Blank /\ form.mysql # Blank
  BY DEF BlankFields
<1> QED
  BY <1>1 DEF Form, Config

-----------------------------------------------------------------------------
(* The steps *)

LEMMA IInvInit == Init => IInv
<1> SUFFICES ASSUME Init PROVE IInv
  OBVIOUS
<1>1. PICK k \in Keys : keys = <<k>>
  BY DEF Init
<1>2. TypeOK
  <2>1. keys \in Seq(Keys) /\ keys # <<>>
    BY <1>1
  <2>2. Idle \notin Rotating /\ Idle \notin Posting
    BY DEF Idle, Rotating, Posting
  <2>3. proc["web"] = Idle /\ proc["rotate"] = Idle
    BY DEF Init, Writers
  <2> QED
    BY <2>1, <2>2, <2>3 DEF Init, TypeOK
<1>3. proc["web"] = Idle /\ proc["rotate"] = Idle
  BY DEF Init, Writers
<1> QED
  BY <1>2, <1>3 DEF Init, IInv, AlwaysReadable, RotatedNeedsHead, SavedBefore,
     RotationInStep, SaveInStep, LastSaveHolds

\* The steps that change no row, key or history, only where a writer stands.
LEMMA RowKept ==
  ASSUME IInv, UNCHANGED <<keys, row, rotated, typed, overtaken>>
  PROVE  AlwaysReadable' /\ RotatedNeedsHead' /\ LastSaveHolds'
  BY DEF IInv, AlwaysReadable, RotatedNeedsHead, LastSaveHolds, Decrypts, KeyList, Plain

LEMMA PostConfigStep ==
  ASSUME IInv, NEW form \in Form, PostConfig(form)
  PROVE  IInv'
<1>1. TypeOK
  BY DEF IInv
<1> DEFINE cfg == IF row = NoConfig THEN form ELSE Fill(form, Plain(row))
           new == [stage |-> "probe", cfg |-> cfg, form |-> form]
<1>2. /\ proc' = [proc EXCEPT !["web"] = new]
      /\ UNCHANGED <<keys, row, lock, rotated, typed, overtaken>>
      /\ row = NoConfig => BlankFields(form) = {}
  BY DEF PostConfig, fileVars, historyVars
<1>3. cfg \in Config
  <2>1. CASE row = NoConfig
    BY <1>2, <2>1, FullFormIsConfig
  <2>2. CASE row # NoConfig
    <3>1. Plain(row) \in Config
      BY <1>1, <2>2, PlainIsConfig DEF TypeOK
    <3> QED
      BY <2>2, <3>1, FillIsConfig
  <2> QED
    BY <2>1, <2>2
<1>4. new \in Posting /\ new # Idle /\ new \notin Rotating
  BY <1>3 DEF Posting, Idle, Rotating
<1> HIDE DEF cfg
<1>5. proc'["web"] = new /\ proc'["rotate"] = proc["rotate"] /\ new.cfg = cfg /\ new.form = form
  BY <1>1, <1>2 DEF TypeOK, Writers
<1>6. TypeOK'
  BY <1>1, <1>2, <1>4, <1>5 DEF TypeOK, Writers
<1>7. SavedBefore'
  BY <1>2, <1>5 DEF IInv, SavedBefore, BlankFields
<1>8. RotationInStep'
  BY <1>2, <1>5 DEF IInv, RotationInStep
<1>9. SaveInStep'
  <2> SUFFICES ASSUME NEW f \in {"settings", "bluewave", "mysql"}
               PROVE  IF form[f] = Blank THEN ~overtaken => cfg[f] = typed[f]
                                         ELSE cfg[f] = form[f]
    BY <1>2, <1>5 DEF SaveInStep
  <2>1. CASE row = NoConfig
    <3>1. cfg = form /\ form[f] # Blank
      BY <1>2, <2>1 DEF cfg, BlankFields, Form
    <3> QED
      BY <3>1
  <2>2. CASE row # NoConfig
    <3>1. cfg = Fill(form, Plain(row)) /\ Plain(row) \in Config
      BY <1>1, <2>2, PlainIsConfig DEF cfg, TypeOK
    <3>2. ~overtaken => Plain(row) = typed
      BY <2>2 DEF IInv, LastSaveHolds
    <3> QED
      BY <3>1, <3>2, FillIsConfig
  <2> QED
    BY <2>1, <2>2
<1> QED
  BY <1>2, <1>6, <1>7, <1>8, <1>9, RowKept DEF IInv

LEMMA RotateStep ==
  ASSUME IInv, Rotate
  PROVE  IInv'
<1>1. TypeOK
  BY DEF IInv
<1> DEFINE new == [stage |-> "save", cfg |-> Plain(row)]
<1>2. /\ proc' = [proc EXCEPT !["rotate"] = new]
      /\ UNCHANGED <<keys, row, lock, rotated, typed, overtaken>>
      /\ row # NoConfig
  BY DEF Rotate, fileVars, historyVars
<1>3. Plain(row) \in Config
  BY <1>1, <1>2, PlainIsConfig DEF TypeOK
<1>4. new \in Rotating /\ new # Idle /\ new \notin Posting
  BY <1>3 DEF Posting, Idle, Rotating
<1>5. proc'["rotate"] = new /\ proc'["web"] = proc["web"] /\ new.cfg = Plain(row)
  BY <1>1, <1>2 DEF TypeOK, Writers
<1> HIDE DEF new
<1>6. TypeOK'
  BY <1>1, <1>2, <1>4, <1>5 DEF TypeOK, Writers
<1>7. SavedBefore'
  BY <1>2, <1>5 DEF IInv, SavedBefore
<1>8. RotationInStep'
  BY <1>2, <1>5 DEF IInv, RotationInStep, LastSaveHolds
<1>9. SaveInStep'
  BY <1>2, <1>5 DEF IInv, SaveInStep
<1> QED
  BY <1>2, <1>6, <1>7, <1>8, <1>9, RowKept DEF IInv

\* A writer that goes on with the settings it has keeps the invariant.
LEMMA GoesOnStep ==
  ASSUME IInv, NEW p \in Writers, NEW to \in {"save", "deleted"},
         proc[p] # Idle, lock' \in Writers \cup {"free"},
         proc' = [proc EXCEPT ![p].stage = to],
         UNCHANGED <<keys, row, rotated, typed, overtaken>>
  PROVE  IInv'
<1>1. TypeOK
  BY DEF IInv
<1> DEFINE new == [proc[p] EXCEPT !.stage = to]
<1>2. proc'[p] = new /\ \A q \in Writers \ {p} : proc'[q] = proc[q]
  BY <1>1 DEF TypeOK
<1>3. /\ proc[p] \in Posting  => new \in Posting /\ new.form = proc[p].form
      /\ proc[p] \in Rotating => new \in Rotating
      /\ new.cfg = proc[p].cfg
      /\ new # Idle
  BY <1>1, ProcType DEF Posting, Rotating, Idle, Writers
<1>4. Posting \cap Rotating = {}
  BY DEF Posting, Rotating
<1>5. TypeOK'
  <2>1. proc' \in [Writers -> Posting \cup Rotating \cup {Idle}]
    BY <1>1, <1>3, ProcType DEF TypeOK, Writers
  <2>2. proc'["web"] \notin Rotating /\ proc'["rotate"] \notin Posting
    BY <1>1, <1>2, <1>3, <1>4, ProcType DEF TypeOK, Writers
  <2> QED
    BY <1>1, <2>1, <2>2 DEF TypeOK
<1>6. /\ proc'["web"] = Idle <=> proc["web"] = Idle
      /\ proc'["rotate"] = Idle <=> proc["rotate"] = Idle
      /\ proc["web"] # Idle => /\ proc'["web"].cfg = proc["web"].cfg
                               /\ proc'["web"].form = proc["web"].form
      /\ proc["rotate"] # Idle => proc'["rotate"].cfg = proc["rotate"].cfg
  BY <1>1, <1>2, <1>3, ProcType DEF Writers
<1>7. SavedBefore' /\ RotationInStep' /\ SaveInStep'
  BY <1>6 DEF IInv, SavedBefore, RotationInStep, SaveInStep, BlankFields
<1> QED
  BY <1>5, <1>7, RowKept DEF IInv

\* A writer that ends, alone or with its container, keeps it too.
LEMMA EndsStep ==
  ASSUME IInv, NEW gone \in SUBSET Writers, lock' \in Writers \cup {"free"},
         proc' = [p \in Writers |-> IF p \in gone THEN Idle ELSE proc[p]],
         UNCHANGED <<row, typed, overtaken>>
  PROVE  /\ (keys' \in Seq(Keys) /\ keys' # <<>> /\ rotated' \in BOOLEAN) => TypeOK'
         /\ SavedBefore' /\ RotationInStep' /\ SaveInStep'
<1>1. TypeOK
  BY DEF IInv
<1>2. Idle \notin Rotating /\ Idle \notin Posting
  BY DEF Idle, Rotating, Posting
<1>3. /\ proc'["web"] \in {Idle, proc["web"]}
      /\ proc'["rotate"] \in {Idle, proc["rotate"]}
  BY DEF Writers
<1>4. proc' \in [Writers -> Posting \cup Rotating \cup {Idle}]
  BY <1>1 DEF TypeOK
<1> QED
  BY <1>1, <1>2, <1>3, <1>4 DEF TypeOK, IInv, SavedBefore, RotationInStep, SaveInStep,
     BlankFields

LEMMA GiveUpStep ==
  ASSUME IInv, NEW p \in Writers, GiveUp(p)
  PROVE  IInv'
<1>1. TypeOK
  BY DEF IInv
<1>2. /\ proc' = [q \in Writers |-> IF q \in {p} THEN Idle ELSE proc[q]]
      /\ lock' \in Writers \cup {"free"}
      /\ UNCHANGED <<keys, row, rotated, typed, overtaken>>
  BY <1>1 DEF GiveUp, TypeOK, historyVars
<1>3. keys' \in Seq(Keys) /\ keys' # <<>> /\ rotated' \in BOOLEAN
  BY <1>1, <1>2 DEF TypeOK
<1> QED
  BY <1>2, <1>3, EndsStep, RowKept DEF IInv

\* Whatever list of keys the container restarts with, it keeps its invariant if
\* that list decrypts the row.
LEMMA RestartStep ==
  ASSUME IInv, NEW ks \in Seq(Keys), ks # <<>>, Restart(ks), rotated' \in BOOLEAN,
         AlwaysReadable', RotatedNeedsHead'
  PROVE  IInv'
<1>1. /\ proc' = [q \in Writers |-> IF q \in Writers THEN Idle ELSE proc[q]]
      /\ lock' \in Writers \cup {"free"}
      /\ keys' = ks
      /\ UNCHANGED <<row, typed, overtaken>>
  BY DEF Restart, historyVars
<1>2. LastSaveHolds'
  BY <1>1 DEF IInv, LastSaveHolds, Plain
<1> QED
  BY <1>1, <1>2, EndsStep DEF IInv

LEMMA PrependKeyStep ==
  ASSUME IInv, NEW k \in Keys, PrependKey(k)
  PROVE  IInv'
<1>1. TypeOK
  BY DEF IInv
<1> DEFINE ks == <<k>> \o keys
<1>2. ks \in Seq(Keys) /\ Len(ks) = Len(keys) + 1 /\ \A i \in 1..Len(keys) : ks[i + 1] = keys[i]
  BY <1>1 DEF TypeOK
<1>3. Restart(ks) /\ rotated' = FALSE /\ keys' = ks /\ row' = row
  BY DEF PrependKey, Restart
<1>4. KeyList \subseteq KeyList'
  <2> SUFFICES ASSUME NEW i \in 1..Len(keys)
               PROVE  \E j \in 1..Len(ks) : ks[j] = keys[i]
    BY <1>3 DEF KeyList
  <2>1. i + 1 \in 1..Len(ks) /\ ks[i + 1] = keys[i]
    BY <1>1, <1>2 DEF TypeOK
  <2> QED
    BY <2>1
<1>5. AlwaysReadable' /\ RotatedNeedsHead'
  BY <1>3, <1>4 DEF IInv, AlwaysReadable, RotatedNeedsHead, Decrypts
<1>6. ks # <<>>
  BY <1>1, <1>2 DEF TypeOK
<1> QED
  BY <1>2, <1>3, <1>5, <1>6, RestartStep

LEMMA DropOldKeysStep ==
  ASSUME IInv, DropOldKeys
  PROVE  IInv'
<1>1. TypeOK
  BY DEF IInv
<1> DEFINE ks == <<Head(keys)>>
<1>2. ks \in Seq(Keys) /\ ks # <<>> /\ Head(ks) = Head(keys) /\ ks[1] = Head(keys) /\ Len(ks) = 1
  BY <1>1 DEF TypeOK
<1>3. rotated /\ Restart(ks) /\ rotated' = rotated /\ keys' = ks /\ row' = row
  BY DEF DropOldKeys, Restart
<1>4. Head(keys) \in KeyList'
  BY <1>2, <1>3 DEF KeyList
<1>5. AlwaysReadable' /\ RotatedNeedsHead'
  BY <1>2, <1>3, <1>4 DEF IInv, AlwaysReadable, RotatedNeedsHead, Decrypts
<1>6. rotated' \in BOOLEAN
  BY <1>1, <1>3 DEF TypeOK
<1> QED
  BY <1>2, <1>3, <1>5, <1>6, RestartStep

LEMMA CrashStep ==
  ASSUME IInv, Crash
  PROVE  IInv'
<1>1. TypeOK
  BY DEF IInv
<1>2. /\ keys \in Seq(Keys) /\ keys # <<>> /\ Restart(keys)
      /\ keys' = keys /\ row' = row /\ rotated' = rotated /\ rotated' \in BOOLEAN
  BY <1>1 DEF TypeOK, Crash, Restart
<1>3. AlwaysReadable' /\ RotatedNeedsHead'
  BY <1>2 DEF IInv, AlwaysReadable, RotatedNeedsHead, Decrypts, KeyList
<1> QED
  BY <1>2, <1>3, RestartStep

\* What a commit does to the file and to the writer that made it.
LEMMA Committed ==
  ASSUME IInv, NEW p \in Writers, InsertCommit(p)
  PROVE  /\ proc[p].cfg \in Config /\ proc[p] # Idle
         /\ row' \in Row /\ row' # NoConfig
         /\ Plain(row') = proc[p].cfg
         /\ AlwaysReadable' /\ RotatedNeedsHead'
         /\ proc' = [q \in Writers |-> IF q \in {p} THEN Idle ELSE proc[q]]
         /\ (typed' \in Config /\ overtaken' \in BOOLEAN /\ rotated' \in BOOLEAN) => TypeOK'
<1>1. TypeOK
  BY DEF IInv
<1>2. proc[p].cfg \in Config /\ proc[p] # Idle
  BY <1>1, ProcType DEF InsertCommit
<1>3. row' = Encrypt(proc[p].cfg) /\ keys' = keys /\ lock' = "free"
  BY DEF InsertCommit
<1>4. keys \in Seq(Keys) /\ keys # <<>>
  BY <1>1 DEF TypeOK
<1>5. /\ row' \in Row /\ Plain(row') = proc[p].cfg /\ Decrypts(row')
      /\ row'.bluewave.key = Head(keys) /\ row'.mysql.key = Head(keys)
  BY <1>2, <1>3, <1>4, EncryptedReads
<1>6. AlwaysReadable' /\ RotatedNeedsHead'
  BY <1>3, <1>5 DEF AlwaysReadable, RotatedNeedsHead, Decrypts, KeyList
<1>7. proc' = [q \in Writers |-> IF q \in {p} THEN Idle ELSE proc[q]]
  BY <1>1 DEF InsertCommit, TypeOK
<1>8. proc' \in [Writers -> Posting \cup Rotating \cup {Idle}]
      /\ proc'["web"] \notin Rotating /\ proc'["rotate"] \notin Posting
  <2>1. Idle \notin Rotating /\ Idle \notin Posting
    BY DEF Idle, Rotating, Posting
  <2> QED
    BY <1>1, <1>7, <2>1 DEF TypeOK, Writers
<1> QED
  BY <1>2, <1>3, <1>4, <1>5, <1>6, <1>7, <1>8 DEF TypeOK

LEMMA SaveConfigStep ==
  ASSUME IInv, SaveConfig
  PROVE  IInv'
<1>1. TypeOK
  BY DEF IInv
<1> DEFINE cfg == proc["web"].cfg
           form == proc["web"].form
<1>2. InsertCommit("web") /\ "web" \in Writers
  BY DEF SaveConfig, Writers
<1>3. cfg \in Config /\ proc["web"] # Idle /\ form \in Form
  BY <1>1, <1>2, Committed, ProcType
<1>4. /\ Plain(row') = cfg /\ row' # NoConfig
      /\ AlwaysReadable' /\ RotatedNeedsHead'
  BY <1>2, Committed
<1>5. proc'["web"] = Idle /\ proc'["rotate"] = proc["rotate"]
  BY <1>2, Committed DEF Writers
<1>6. /\ typed' = [f \in {"settings", "bluewave", "mysql"} |->
                     IF form[f] = Blank THEN typed[f] ELSE form[f]]
      /\ overtaken' = (proc["rotate"] # Idle \/ (overtaken /\ BlankFields(form) # {}))
      /\ rotated' = rotated
  BY DEF SaveConfig
<1>7. typed' \in Config
  <2>1. form.settings \in Settings /\ form.settings # Blank
    BY <1>3 DEF Form
  <2>2. form.bluewave # Blank => form.bluewave \in Passwords
    BY <1>3 DEF Form
  <2>3. form.mysql # Blank => form.mysql \in Passwords
    BY <1>3 DEF Form
  <2>4. form.bluewave = Blank \/ form.mysql = Blank => typed \in Config
    BY <1>1, <1>3 DEF IInv, SavedBefore, BlankFields, TypeOK
  <2>5. typed' = [settings |-> typed'.settings, bluewave |-> typed'.bluewave,
                  mysql |-> typed'.mysql]
    BY <1>6
  <2>6. /\ typed'.settings \in Settings
        /\ typed'.bluewave \in Passwords
        /\ typed'.mysql \in Passwords
    BY <1>6, <2>1, <2>2, <2>3, <2>4 DEF Config
  <2> HIDE DEF form, cfg
  <2> QED
    BY <2>5, <2>6 DEF Config
<1>8. TypeOK'
  BY <1>1, <1>2, <1>6, <1>7, Committed DEF TypeOK
<1>9. LastSaveHolds'
  <2> SUFFICES ASSUME ~overtaken' PROVE cfg = typed'
    BY <1>4 DEF LastSaveHolds
  <2>1. \A f \in {"settings", "bluewave", "mysql"} : cfg[f] = typed'[f]
    <3> SUFFICES ASSUME NEW f \in {"settings", "bluewave", "mysql"}
                 PROVE  cfg[f] = IF form[f] = Blank THEN typed[f] ELSE form[f]
      BY <1>6
    <3>1. form[f] = Blank => BlankFields(form) # {}
      BY <1>3 DEF BlankFields, Form
    <3>2. form[f] = Blank => ~overtaken
      BY <1>6, <3>1
    <3> QED
      BY <1>3, <3>2 DEF IInv, SaveInStep
  <2> QED
    BY <1>3, <1>7, <2>1 DEF Config
<1>10. SavedBefore' /\ RotationInStep' /\ SaveInStep'
  <2>1. typed' # NoConfig
    BY <1>7
  <2>2. proc["rotate"] # Idle => overtaken'
    BY <1>6
  <2> HIDE DEF cfg, form
  <2> QED
    BY <1>5, <2>1, <2>2 DEF SavedBefore, RotationInStep, SaveInStep
<1> QED
  BY <1>4, <1>8, <1>9, <1>10 DEF IInv

LEMMA FinishRotationStep ==
  ASSUME IInv, FinishRotation
  PROVE  IInv'
<1>1. TypeOK
  BY DEF IInv
<1>2. /\ InsertCommit("rotate") /\ "rotate" \in Writers
      /\ rotated' = TRUE /\ typed' = typed /\ overtaken' = overtaken
  BY DEF FinishRotation, Writers, historyVars
<1>3. /\ proc["rotate"] # Idle
      /\ Plain(row') = proc["rotate"].cfg
      /\ AlwaysReadable' /\ RotatedNeedsHead'
  BY <1>2, Committed
<1>4. proc'["rotate"] = Idle /\ proc'["web"] = proc["web"]
  BY <1>2, Committed DEF Writers
<1>5. typed # NoConfig
  BY <1>3 DEF IInv, SavedBefore
<1>6. TypeOK'
  BY <1>1, <1>2, <1>5, Committed DEF TypeOK
<1>7. LastSaveHolds'
  BY <1>2, <1>3 DEF IInv, RotationInStep, LastSaveHolds
<1>8. SavedBefore' /\ RotationInStep' /\ SaveInStep'
  BY <1>2, <1>4, <1>5 DEF IInv, SavedBefore, RotationInStep, SaveInStep
<1> QED
  BY <1>3, <1>6, <1>7, <1>8 DEF IInv

LEMMA IInvStep == IInv /\ [Next]_vars => IInv'
<1> SUFFICES ASSUME IInv, [Next]_vars PROVE IInv'
  OBVIOUS
<1>0. TypeOK
  BY DEF IInv
<1>1. ASSUME NEW form \in Form, PostConfig(form) PROVE IInv'
  BY <1>1, PostConfigStep
<1>2. CASE ProbesPass
  <2>1. "web" \in Writers /\ proc["web"] # Idle
    BY <1>2 DEF ProbesPass, Writers, Idle
  <2>2. /\ proc' = [proc EXCEPT !["web"].stage = "save"]
        /\ lock' \in Writers \cup {"free"}
        /\ UNCHANGED <<keys, row, rotated, typed, overtaken>>
    BY <1>0, <1>2 DEF ProbesPass, fileVars, historyVars, TypeOK
  <2> QED
    BY <2>1, <2>2, GoesOnStep
<1>3. CASE Rotate
  BY <1>3, RotateStep
<1>4. ASSUME NEW p \in Writers, Delete(p) PROVE IInv'
  <2>1. proc[p] # Idle
    BY <1>4 DEF Delete, Idle
  <2>2. /\ proc' = [proc EXCEPT ![p].stage = "deleted"]
        /\ lock' \in Writers \cup {"free"}
        /\ UNCHANGED <<keys, row, rotated, typed, overtaken>>
    BY <1>4 DEF Delete, historyVars
  <2> QED
    BY <2>1, <2>2, GoesOnStep
<1>5. ASSUME NEW p \in Writers, GiveUp(p) PROVE IInv'
  BY <1>5, GiveUpStep
<1>6. CASE SaveConfig
  BY <1>6, SaveConfigStep
<1>7. CASE FinishRotation
  BY <1>7, FinishRotationStep
<1>8. CASE Crash
  BY <1>8, CrashStep
<1>9. ASSUME NEW k \in Keys, PrependKey(k) PROVE IInv'
  BY <1>9, PrependKeyStep
<1>10. CASE DropOldKeys
  BY <1>10, DropOldKeysStep
<1>11. CASE UNCHANGED vars
  BY <1>11 DEF vars, IInv, TypeOK, AlwaysReadable, RotatedNeedsHead, SavedBefore,
     RotationInStep, SaveInStep, LastSaveHolds, Decrypts, KeyList, Plain, BlankFields
<1> QED
  BY <1>1, <1>2, <1>3, <1>4, <1>5, <1>6, <1>7, <1>8, <1>9, <1>10, <1>11 DEF Next

-----------------------------------------------------------------------------
(* The theorems *)

\* Everything below follows from this invariant of saves, rotations and deploys.
THEOREM Invariance == Spec => []IInv
BY IInvInit, IInvStep, PTL DEF Spec

\* The row, the writers and the key list keep their types, in particular no
\* blank field is ever stored (post_config).
THEOREM TypeCorrect == Spec => []TypeOK
<1>1. IInv => TypeOK
  BY DEF IInv
<1> QED
  BY Invariance, <1>1, PTL

\* The documented key rotation never leaves a row that the container's keys
\* cannot decrypt, for any number of keys and any order of saves, kills and
\* deploys (ConfigStore.save, rotate_config).
THEOREM AlwaysReadableAlways == Spec => []AlwaysReadable
<1>1. IInv => AlwaysReadable
  BY DEF IInv
<1> QED
  BY Invariance, <1>1, PTL

\* The stored settings are those last saved by the operator, unless a rotation
\* overtook the save (post_config, reencrypt_all).
THEOREM LastSaveHoldsAlways == Spec => []LastSaveHolds
<1>1. IInv => LastSaveHolds
  BY DEF IInv
<1> QED
  BY Invariance, <1>1, PTL

\* A stored configuration never disappears (the transaction of save).
THEOREM StaysConfiguredAlways == Spec => StaysConfigured
<1>1. ASSUME IInv, [Next]_vars
      PROVE  [row # NoConfig => row' # NoConfig]_vars
  <2>1. ASSUME NEW p \in Writers, InsertCommit(p) PROVE row' # NoConfig
    BY <1>1, <2>1, Committed
  <2>2. SaveConfig \/ FinishRotation => row' # NoConfig
    BY <2>1 DEF SaveConfig, FinishRotation, Writers
  <2>3. ~(SaveConfig \/ FinishRotation) => row' = row
    BY <1>1 DEF Next, PostConfig, ProbesPass, Rotate, Delete, GiveUp, Crash, PrependKey,
       DropOldKeys, Restart, fileVars, vars
  <2> QED
    BY <2>2, <2>3
<1> QED
  BY Invariance, <1>1, PTL DEF Spec, StaysConfigured

\* What a rotation has loaded is what is stored.
LoadedIsStored ==
  proc["rotate"] # Idle => row # NoConfig /\ proc["rotate"].cfg = Plain(row)

\* It stays so but for a save, and is then what the rotation stores again.
OnlySavesOvertake ==
  /\ LoadedIsStored /\ ~SaveConfig => LoadedIsStored'
  /\ LoadedIsStored /\ FinishRotation => Plain(row') = Plain(row)

(* Only a save can make a rotation stale: no kill, deploy, other rotation  *)
(* or failed save between its load and its commit does, and a rotation     *)
(* that is not stale changes no setting.  So a save that lands meanwhile   *)
(* is the one way to RotationChangesNothing's counterexample (config.py,   *)
(* reencrypt_all).                                                         *)
THEOREM OnlySavesOvertakeAlways == Spec => [][OnlySavesOvertake]_vars
<1>1. ASSUME IInv, [Next]_vars, LoadedIsStored
      PROVE  /\ ~SaveConfig => LoadedIsStored'
             /\ FinishRotation => Plain(row') = Plain(row)
  <2>1. CASE FinishRotation
    <3>1. /\ keys \in Seq(Keys) /\ keys # <<>>
          /\ proc["rotate"].stage = "deleted" /\ row' = Encrypt(proc["rotate"].cfg)
          /\ proc'["rotate"] = Idle
      BY <1>1, <2>1, ProcType DEF IInv, TypeOK, FinishRotation, InsertCommit, Writers
    <3>2. proc["rotate"] # Idle /\ proc["rotate"].cfg \in Config
      BY <1>1, <3>1, ProcType DEF IInv, Writers
    <3> QED BY <1>1, <3>1, <3>2, EncryptedReads DEF LoadedIsStored
  <2>2. CASE ~FinishRotation /\ ~SaveConfig
    <3>1. row' = row
      BY <1>1, <2>2 DEF Next, PostConfig, ProbesPass, Rotate, Delete, GiveUp, Crash,
         PrependKey, DropOldKeys, Restart, fileVars, vars
    <3>2. CASE Rotate
      BY <1>1, <3>1, <3>2, ProcType DEF Rotate, LoadedIsStored, IInv, Writers
    <3>3. CASE ~Rotate
      <4>1. \/ proc'["rotate"] = Idle
            \/ proc["rotate"] # Idle /\ proc'["rotate"].cfg = proc["rotate"].cfg
        <5>1. CASE ProbesPass
          BY <1>1, <5>1, ProcType DEF ProbesPass, IInv, Writers
        <5>2. ASSUME NEW form \in Form, PostConfig(form)
              PROVE  proc'["rotate"] = proc["rotate"]
          BY <1>1, <5>2, ProcType DEF PostConfig, IInv, Writers
        <5>3. ASSUME NEW p \in Writers, Delete(p)
              PROVE  \/ proc'["rotate"] = proc["rotate"]
                     \/ proc["rotate"] # Idle /\ proc'["rotate"].cfg = proc["rotate"].cfg
          BY <1>1, <5>3, ProcType DEF Delete, IInv, Writers, Rotating
        <5>4. ASSUME NEW p \in Writers, GiveUp(p)
              PROVE  proc'["rotate"] = Idle \/ proc'["rotate"] = proc["rotate"]
          BY <1>1, <5>4, ProcType DEF GiveUp, IInv, Writers
        <5>5. ASSUME NEW ks, Restart(ks) PROVE proc'["rotate"] = Idle
          BY <5>5 DEF Restart, Writers
        <5>6. CASE UNCHANGED vars
          BY <5>6 DEF vars
        <5> QED BY <1>1, <2>2, <3>3, <5>1, <5>2, <5>3, <5>4, <5>5, <5>6
                DEF Next, Crash, PrependKey, DropOldKeys
      <4> QED BY <1>1, <3>1, <4>1 DEF LoadedIsStored
    <3> QED BY <3>2, <3>3
  <2> QED BY <2>1, <2>2
<1>2. IInv /\ [Next]_vars => OnlySavesOvertake
  BY <1>1 DEF OnlySavesOvertake
<1> QED BY <1>2, Invariance, PTL DEF Spec
=============================================================================
