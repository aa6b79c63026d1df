------------------------------- MODULE Schema -------------------------------
(***************************************************************************)
(* The two MySQL tables as objects: bootstrap_and_validate of              *)
(* src/bluewave/schema.py, called at boot (scheduler.py) and after a save  *)
(* (routes.py), one call at a time, beside a DBA who may have made the     *)
(* shared audit table first, changes it, and grants or revokes CREATE.     *)
(*                                                                         *)
(* A step is one statement.  DDL commits by itself, so a process that dies *)
(* between two statements leaves the first.                                *)
(***************************************************************************)
EXTENDS Integers

VARIABLES
  engine,     \* the server: how it shows the types of the DDL
  table,      \* the audit table, or Absent
  ledger,     \* whether the runs table exists
  mayCreate,  \* the worker's CREATE privilege
  check,      \* the call of bootstrap_and_validate
  verdict,    \* the last outcome that this process has logged or returned
  touched     \* history: since the last check began the DBA has done something,
              \* or a query of it failed

vars == <<engine, table, ledger, mayCreate, check, verdict, touched>>

Engines == {"mysql8", "mysql57", "mariadb"}

\* The columns as in the DDL; with other types, nullability, charset or more
\* columns, so that the worker's INSERT still fits; without a column it names.
Table == [columns : {"expected", "different", "misnamed"},
          charset : {"utf8mb4", "utf8"}, unique : BOOLEAN]
Absent == [columns |-> "none", charset |-> "none", unique |-> FALSE]

\* CREATE TABLE of DDL_AUDIT_LOGS
OwnTable == [columns |-> "expected", charset |-> "utf8mb4", unique |-> TRUE]

Verdicts == {"ok", "mysql_privilege", "mysql_error", "schema_drift"}

\* The next statement; at "charset", whether the columns had differences.
Check == [stage : {"idle", "audit", "runs", "columns", "charset"}, diffs : BOOLEAN]
NoCheck == [stage |-> "idle", diffs |-> FALSE]

TypeOK == /\ engine \in Engines
          /\ table \in Table \cup {Absent}
          /\ ledger \in BOOLEAN
          /\ mayCreate \in BOOLEAN
          /\ check \in Check
          /\ verdict \in Verdicts \cup {"none"}
          /\ touched \in BOOLEAN

Init == /\ engine \in Engines
        /\ table \in Table \cup {Absent}
        /\ ledger \in BOOLEAN
        /\ mayCreate \in BOOLEAN
        /\ check = NoCheck
        /\ verdict = "none"
        /\ touched = FALSE

-----------------------------------------------------------------------------
(* The types of the columns *)

\* information_schema's COLUMN_TYPE of a column made with that type.
Shown(type) ==
  CASE type = "bigint unsigned" /\ engine # "mysql8" -> "bigint(20) unsigned"
    [] type = "json" /\ engine = "mariadb" -> "longtext"
    [] OTHER -> type

\* Faulty variant: types are compared as they are shown.
TypesMatchExactly(expected, actual) == actual = expected

\* _types_match: display widths of integers do not count, and MariaDB's longtext
\* is as good as json.
TypesMatch(expected, actual) ==
  \/ actual = expected
  \/ expected = "bigint unsigned" /\ actual = "bigint(20) unsigned"
  \/ expected = "json" /\ actual = "longtext"

\* validate_columns
ColumnsDiffer ==
  \/ table.columns # "expected"
  \/ \E type \in {"bigint unsigned", "json", "varchar(64)"} : ~TypesMatch(type, Shown(type))

-----------------------------------------------------------------------------
(* bootstrap_and_validate *)

BeginCheck ==
  /\ check.stage = "idle"
  /\ check' = [stage |-> "audit", diffs |-> FALSE]
  /\ touched' = FALSE
  /\ UNCHANGED <<engine, table, ledger, mayCreate, verdict>>

EndCheck(outcome) == check' = NoCheck /\ verdict' = outcome

\* CREATE TABLE IF NOT EXISTS needs the privilege even if the table exists.
CreateAudit ==
  /\ check.stage = "audit"
  /\ mayCreate
  /\ table' = IF table = Absent THEN OwnTable ELSE table
  /\ check' = [check EXCEPT !.stage = "runs"]
  /\ UNCHANGED <<engine, ledger, mayCreate, verdict, touched>>

CreateRuns ==
  /\ check.stage = "runs"
  /\ mayCreate
  /\ ledger' = TRUE
  /\ check' = [check EXCEPT !.stage = "columns"]
  /\ UNCHANGED <<engine, table, mayCreate, verdict, touched>>

CreateDenied ==
  /\ check.stage \in {"audit", "runs"}
  /\ ~mayCreate
  /\ EndCheck("mysql_privilege")
  /\ UNCHANGED <<engine, table, ledger, mayCreate, touched>>

CreateFails ==
  /\ check.stage \in {"audit", "runs"}
  /\ EndCheck("mysql_error")
  /\ UNCHANGED <<engine, table, ledger, mayCreate, touched>>

FetchColumns ==
  /\ check.stage = "columns"
  /\ check' = [stage |-> "charset", diffs |-> ColumnsDiffer]
  /\ UNCHANGED <<engine, table, ledger, mayCreate, verdict, touched>>

\* validate_table_charset, and the verdict.
FetchCharset ==
  /\ check.stage = "charset"
  /\ EndCheck(IF table.charset = "utf8mb4" /\ ~check.diffs THEN "ok" ELSE "schema_drift")
  /\ UNCHANGED <<engine, table, ledger, mayCreate, touched>>

\* A query that fails counts as drift too.
FetchFails ==
  /\ check.stage \in {"columns", "charset"}
  /\ EndCheck("schema_drift")
  /\ touched' = TRUE
  /\ UNCHANGED <<engine, table, ledger, mayCreate>>

CheckStep == CreateAudit \/ CreateRuns \/ CreateDenied \/ CreateFails
             \/ FetchColumns \/ FetchCharset \/ FetchFails

-----------------------------------------------------------------------------
(* The DBA *)

\* Makes, changes or drops-and-remakes the audit table.
AlterTable(shape) ==
  /\ table' = shape
  /\ touched' = TRUE
  /\ UNCHANGED <<engine, ledger, mayCreate, check, verdict>>

\* CREATE is granted, or revoked once the tables are there.
ChangeGrant ==
  /\ mayCreate' = ~mayCreate
  /\ touched' = TRUE
  /\ UNCHANGED <<engine, table, ledger, check, verdict>>

-----------------------------------------------------------------------------
(* The process *)

\* The process dies, between two statements too, and starts again.
Restart ==
  /\ check' = NoCheck
  /\ verdict' = "none"
  /\ UNCHANGED <<engine, table, ledger, mayCreate, touched>>

Next == \/ BeginCheck
        \/ CheckStep
        \/ \E shape \in Table : AlterTable(shape)
        \/ ChangeGrant
        \/ Restart

Spec == Init /\ [][Next]_vars

-----------------------------------------------------------------------------
(* Properties *)

(* What a finished check said is so, unless the DBA or a failed query came *)
(* in between: ok means that both tables are there and every column the    *)
(* worker names fits, on each server the worker supports; drift means a    *)
(* real difference, not a server's own way of showing a type; a missing    *)
(* privilege is really missing (bootstrap_and_validate).                   *)
VerdictTells ==
  check = NoCheck /\ ~touched =>
    /\ verdict = "ok" => /\ table.columns = "expected"
                         /\ table.charset = "utf8mb4"
                         /\ ledger
    /\ verdict = "schema_drift" => \/ table.columns # "expected"
                                   \/ table.charset # "utf8mb4"
    /\ verdict = "mysql_privilege" => ~mayCreate
=============================================================================
