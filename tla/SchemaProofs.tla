---------------------------- MODULE SchemaProofs ----------------------------
(***************************************************************************)
(* Proofs about Schema.  VerdictTells is not inductive: it needs what a    *)
(* check has established by each of its stages, in particular that the     *)
(* comparison of types finds no difference in a table that has the DDL's   *)
(* own columns, on every server.                                           *)
(***************************************************************************)
EXTENDS Schema, TLAPS

\* What a check that has come to a stage knows, while nobody interferes.
Established ==
  /\ check.stage # "charset" => ~check.diffs
  /\ check.stage \in {"runs", "columns", "charset"} => table # Absent
  /\ check.stage \in {"columns", "charset"} => ledger
  /\ check.stage = "charset" /\ ~touched => (check.diffs <=> table.columns # "expected")

IInv == TypeOK /\ Established /\ VerdictTells

-----------------------------------------------------------------------------

\* A server's own way to show a type of the DDL is never a difference.
LEMMA OnlyRealDifferences ==
  ASSUME engine \in Engines
  PROVE  ColumnsDiffer <=> table.columns # "expected"
<1>1. \A type \in {"bigint unsigned", "json", "varchar(64)"} : TypesMatch(type, Shown(type))
  <2>1. TypesMatch("bigint unsigned", Shown("bigint unsigned"))
    BY DEF TypesMatch, Shown
  <2>2. TypesMatch("json", Shown("json"))
    BY DEF TypesMatch, Shown
  <2>3. TypesMatch("varchar(64)", Shown("varchar(64)"))
    BY DEF TypesMatch, Shown
  <2> QED BY <2>1, <2>2, <2>3
<1> QED BY <1>1 DEF ColumnsDiffer

LEMMA InitInvariant == Init => IInv
<1> SUFFICES ASSUME Init PROVE IInv
  OBVIOUS
<1>1. check \in Check /\ check.stage = "idle" /\ check.diffs = FALSE
  BY DEF Init, Check, NoCheck
<1> QED BY <1>1 DEF Init, IInv, TypeOK, Established, VerdictTells, Verdicts

LEMMA CheckStepKeeps == IInv /\ (BeginCheck \/ CheckStep) => IInv'
<1> SUFFICES ASSUME IInv, BeginCheck \/ CheckStep PROVE IInv'
  OBVIOUS
<1> USE DEF IInv, TypeOK, Established, VerdictTells, Check, NoCheck, Verdicts, EndCheck
<1>1. CASE BeginCheck
  BY <1>1 DEF BeginCheck
<1>2. CASE CreateAudit
  <2>1. table' \in Table /\ table' # Absent
    BY <1>2 DEF CreateAudit, OwnTable, Table, Absent
  <2> QED BY <1>2, <2>1 DEF CreateAudit
<1>3. CASE CreateRuns
  BY <1>3 DEF CreateRuns
<1>4. CASE CreateDenied
  BY <1>4 DEF CreateDenied
<1>5. CASE CreateFails
  BY <1>5 DEF CreateFails
<1>6. CASE FetchColumns
  <2>1. ColumnsDiffer <=> table.columns # "expected"
    BY OnlyRealDifferences
  <2>2. ColumnsDiffer \in BOOLEAN
    BY DEF ColumnsDiffer
  <2> QED BY <1>6, <2>1, <2>2 DEF FetchColumns
<1>7. CASE FetchCharset
  BY <1>7 DEF FetchCharset
<1>8. CASE FetchFails
  BY <1>8 DEF FetchFails
<1> QED BY <1>1, <1>2, <1>3, <1>4, <1>5, <1>6, <1>7, <1>8 DEF CheckStep

LEMMA OutsideKeeps ==
  IInv /\ (ChangeGrant \/ Restart \/ (\E shape \in Table : AlterTable(shape)) \/ UNCHANGED vars)
    => IInv'
<1> SUFFICES ASSUME IInv,
                    ChangeGrant \/ Restart \/ (\E shape \in Table : AlterTable(shape))
                      \/ UNCHANGED vars
             PROVE  IInv'
  OBVIOUS
<1> USE DEF IInv, TypeOK, Established, VerdictTells, Check, NoCheck, Verdicts
<1>1. ASSUME NEW shape \in Table, AlterTable(shape) PROVE IInv'
  <2>1. table' \in Table /\ table' # Absent
    BY <1>1 DEF AlterTable, Table, Absent
  <2> QED BY <1>1, <2>1 DEF AlterTable
<1>2. CASE ChangeGrant
  BY <1>2 DEF ChangeGrant
<1>3. CASE Restart
  BY <1>3 DEF Restart
<1>4. CASE UNCHANGED vars
  BY <1>4 DEF vars
<1> QED BY <1>1, <1>2, <1>3, <1>4

LEMMA NextInvariant == IInv /\ [Next]_vars => IInv'
BY CheckStepKeeps, OutsideKeeps DEF Next

-----------------------------------------------------------------------------

(* Every variable keeps its type.                                          *)
THEOREM TypeCorrect == Spec => []TypeOK
<1>1. IInv => TypeOK
  BY DEF IInv
<1> QED BY <1>1, InitInvariant, NextInvariant, PTL DEF Spec

(* The verdict of a check that nobody disturbed is true: of the tables, of *)
(* the columns' types on each server, and of the missing privilege.        *)
THEOREM VerdictTellsAlways == Spec => []VerdictTells
<1>1. IInv => VerdictTells
  BY DEF IInv
<1> QED BY <1>1, InitInvariant, NextInvariant, PTL DEF Spec
=============================================================================
