----------------------------- MODULE ConfigStore -----------------------------
(***************************************************************************)
(* The encrypted one-row settings table of src/bluewave/config.py and its  *)
(* two writers: POST /config (routes.py), whose calls the event loop       *)
(* serves one at a time, and `python -m bluewave.rotate_config', a process *)
(* of its own inside the same container.  The operator deploys key lists   *)
(* by the documented procedure: a new key at the head, then a rotation,    *)
(* then the old keys dropped.                                              *)
(*                                                                         *)
(* A save is two steps: DELETE, which takes SQLite's write lock, and       *)
(* INSERT with COMMIT.  Other connections see the row only at the commit.  *)
(***************************************************************************)
EXTENDS Integers, Sequences

CONSTANTS Keys,       \* Fernet keys
          Passwords,  \* what an operator may type into a password field
          Settings,   \* everything else in the form, as one value
          Blank,      \* the empty password field: keep the stored one
          NoConfig    \* no row

ASSUME BlankAssumption == Blank \notin Passwords \cup Settings

VARIABLES
  keys,      \* CONFIG_ENC_KEYS of the running container, head first
  row,       \* the committed row, or NoConfig
  lock,      \* the process that holds SQLite's write lock
  proc,      \* the two writers
  rotated,   \* whether a rotation has finished with the present head key
  typed,     \* history: the settings as the operator last saved them
  overtaken  \* history: a save landed while a rotation held an older row, and
             \* not everything has been typed anew since

fileVars == <<row, lock>>
historyVars == <<typed, overtaken>>
vars == <<keys, row, lock, proc, rotated, typed, overtaken>>

Token == [key : Keys, value : Passwords]
Row == [settings : Settings, bluewave : Token, mysql : Token]
Config == [settings : Settings, bluewave : Passwords, mysql : Passwords]
Form == [settings : Settings, bluewave : Passwords \cup {Blank},
         mysql : Passwords \cup {Blank}]

ASSUME NoConfigAssumption == NoConfig \notin Row \cup Config

Writers == {"web", "rotate"}

\* "probe": in triple_probe; "save": about to save cfg; "deleted": holds the
\* lock, the row deleted in its own transaction.
Idle == [stage |-> "idle"]
Posting == [stage : {"probe", "save", "deleted"}, cfg : Config, form : Form]
Rotating == [stage : {"save", "deleted"}, cfg : Config]

TypeOK == /\ keys \in Seq(Keys) /\ keys # <<>>
          /\ row \in Row \cup {NoConfig}
          /\ lock \in Writers \cup {"free"}
          /\ proc \in [Writers -> Posting \cup Rotating \cup {Idle}]
          /\ proc["web"] \notin Rotating /\ proc["rotate"] \notin Posting
          /\ rotated \in BOOLEAN
          /\ typed \in Config \cup {NoConfig}
          /\ overtaken \in BOOLEAN

KeyList == {keys[i] : i \in 1..Len(keys)}

Init == /\ \E k \in Keys : keys = <<k>>
        /\ row = NoConfig
        /\ lock = "free"
        /\ proc = [p \in Writers |-> Idle]
        /\ rotated = FALSE
        /\ typed = NoConfig
        /\ overtaken = FALSE

-----------------------------------------------------------------------------
(* Encryption *)

\* Faulty variant: the last key of the list encrypts.
EncryptWithLast(cfg) ==
  LET token(v) == [key |-> keys[Len(keys)], value |-> v]
  IN  [settings |-> cfg.settings, bluewave |-> token(cfg.bluewave),
       mysql |-> token(cfg.mysql)]

\* The head key encrypts...
Encrypt(cfg) ==
  LET token(v) == [key |-> Head(keys), value |-> v]
  IN  [settings |-> cfg.settings, bluewave |-> token(cfg.bluewave),
       mysql |-> token(cfg.mysql)]

\* ... and every key of the list is tried to decrypt.
Decrypts(r) == r.bluewave.key \in KeyList /\ r.mysql.key \in KeyList

Plain(r) == [settings |-> r.settings, bluewave |-> r.bluewave.value,
             mysql |-> r.mysql.value]

-----------------------------------------------------------------------------
(* The writers *)

BlankFields(form) == {f \in {"bluewave", "mysql"} : form[f] = Blank}

\* Faulty variants: the stored password is not put in; one blank field keeps
\* both passwords.
FillNothing(form, existing) == form

FillBoth(form, existing) ==
  IF BlankFields(form) = {} THEN form
  ELSE [existing EXCEPT !.settings = form.settings]

\* An empty password field keeps the stored one.
Fill(form, existing) ==
  [f \in DOMAIN form |-> IF form[f] = Blank THEN existing[f] ELSE form[f]]

\* POST /config loads the stored row, fills the form from it and starts probing.
\* A row that does not decrypt and a blank field of a first save end the call.
PostConfig(form) ==
  /\ proc["web"] = Idle
  /\ IF row = NoConfig THEN BlankFields(form) = {} ELSE Decrypts(row)
  /\ proc' = [proc EXCEPT !["web"] =
                [stage |-> "probe",
                 cfg   |-> IF row = NoConfig THEN form ELSE Fill(form, Plain(row)),
                 form  |-> form]]
  /\ UNCHANGED <<keys, fileVars, rotated, historyVars>>

\* All three probes passed.
ProbesPass ==
  /\ proc["web"].stage = "probe"
  /\ proc' = [proc EXCEPT !["web"].stage = "save"]
  /\ UNCHANGED <<keys, fileVars, rotated, historyVars>>

\* rotate_config loads what is stored; without a row, or with one it cannot
\* decrypt, it exits.
Rotate ==
  /\ proc["rotate"] = Idle
  /\ row # NoConfig
  /\ Decrypts(row)
  /\ proc' = [proc EXCEPT !["rotate"] =
                [stage |-> "save", cfg |-> Plain(row)]]
  /\ UNCHANGED <<keys, fileVars, rotated, historyVars>>

\* Faulty variant: without BEGIN the DELETE commits by itself.
DeleteCommitted(p) ==
  /\ proc[p].stage = "save"
  /\ lock = "free"
  /\ lock' = p
  /\ row' = NoConfig
  /\ proc' = [proc EXCEPT ![p].stage = "deleted"]
  /\ UNCHANGED <<keys, rotated, historyVars>>

\* BEGIN; DELETE FROM config.
Delete(p) ==
  /\ proc[p].stage = "save"
  /\ lock = "free"
  /\ lock' = p
  /\ proc' = [proc EXCEPT ![p].stage = "deleted"]
  /\ UNCHANGED <<keys, row, rotated, historyVars>>

\* INSERT INTO config; COMMIT.
InsertCommit(p) ==
  /\ proc[p].stage = "deleted"
  /\ row' = Encrypt(proc[p].cfg)
  /\ lock' = "free"
  /\ proc' = [proc EXCEPT ![p] = Idle]
  /\ UNCHANGED keys

\* The save of POST /config; what the operator typed replaces what was typed
\* before, field by field.
SaveConfig ==
  /\ InsertCommit("web")
  /\ typed' = [f \in {"settings", "bluewave", "mysql"} |->
                 IF proc["web"].form[f] = Blank THEN typed[f] ELSE proc["web"].form[f]]
  /\ overtaken' = \/ proc["rotate"] # Idle
                  \/ overtaken /\ BlankFields(proc["web"].form) # {}
  /\ UNCHANGED rotated

FinishRotation ==
  /\ InsertCommit("rotate")
  /\ rotated' = TRUE
  /\ UNCHANGED historyVars

\* A probe says no, SQLite stays locked for 5 s or fails, or the command is
\* killed: closing the connection rolls back.
GiveUp(p) ==
  /\ proc[p] # Idle
  /\ proc' = [proc EXCEPT ![p] = Idle]
  /\ lock' = IF lock = p THEN "free" ELSE lock
  /\ UNCHANGED <<keys, row, rotated, historyVars>>

-----------------------------------------------------------------------------
(* Deploys *)

\* The container and every process in it end; SQLite rolls an open transaction
\* back.  The new one gets the key list ks.
Restart(ks) ==
  /\ keys' = ks
  /\ lock' = "free"
  /\ proc' = [p \in Writers |-> Idle]
  /\ UNCHANGED <<row, historyVars>>

Crash == Restart(keys) /\ UNCHANGED rotated

PrependKey(k) ==
  /\ k \notin KeyList
  /\ Restart(<<k>> \o keys)
  /\ rotated' = FALSE

\* Once rotate_config has said ok, the old keys go.
DropOldKeys ==
  /\ rotated
  /\ Len(keys) > 1
  /\ Restart(<<Head(keys)>>)
  /\ UNCHANGED rotated

Next ==
  \/ \E form \in Form : PostConfig(form)
  \/ ProbesPass
  \/ Rotate
  \/ \E p \in Writers : Delete(p) \/ GiveUp(p)
  \/ SaveConfig
  \/ FinishRotation
  \/ Crash
  \/ \E k \in Keys : PrependKey(k)
  \/ DropOldKeys

Spec == Init /\ [][Next]_vars

-----------------------------------------------------------------------------
(* Properties *)

\* The key-rotation procedure never locks the operator out: whatever saves,
\* rotations, kills and deploys come together, the container's keys decrypt the
\* stored row (ConfigStore.save, reencrypt_all, rotate_config).
AlwaysReadable == row # NoConfig => Decrypts(row)

\* A save replaces the row at once: a configured worker is never seen, or left
\* by a kill, without a configuration.
StaysConfigured == [][row # NoConfig => row' # NoConfig]_vars

\* What is stored is what the operator last saved, blank fields keeping what was
\* there, unless a rotation overtook that save.
LastSaveHolds == row # NoConfig /\ ~overtaken => Plain(row) = typed

\* config.py: "the worker only has one writer"; the specification: rotation
\* re-encrypts "in a single transaction".  So it changes no setting.
RotationChangesNothing ==
  [][FinishRotation => Plain(row') = Plain(row)]_vars
=============================================================================
