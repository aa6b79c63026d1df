------------------------------ MODULE DateQueue ------------------------------
(***************************************************************************)
(* What the run queue of the BlueWaving worker promises, without threads,  *)
(* locks or callers: report dates wait in arrival order, a date waits or   *)
(* runs at most once, and one date runs at a time.  The Orchestrator       *)
(* module is shown to implement this one.                                  *)
(***************************************************************************)
EXTENDS Integers, Sequences

CONSTANTS Dates,      \* the report dates, numbered by day
          NoDate,     \* "no run in flight"
          CapDays     \* most dates one call may add (the catch-up cap)

VARIABLES pending,    \* the dates waiting, oldest arrival first
          active      \* the date being run, or NoDate

vars == <<pending, active>>

Pending == {pending[i] : i \in 1..Len(pending)}

Distinct(s) == \A i, j \in 1..Len(s) : s[i] = s[j] => i = j

Init == /\ pending = <<>>
        /\ active = NoDate

\* A call adds dates behind those waiting, none of them waiting or running.
Accept == \E n \in 1..CapDays : \E ds \in [1..n -> Dates] :
            /\ Distinct(ds)
            /\ \A i \in 1..n : ds[i] \notin Pending \cup {active}
            /\ pending' = pending \o ds
            /\ UNCHANGED active

Start == /\ active = NoDate
         /\ pending # <<>>
         /\ active' = Head(pending)
         /\ pending' = Tail(pending)

Finish == /\ active # NoDate
          /\ active' = NoDate
          /\ UNCHANGED pending

\* The process dies: the queue is not persisted.
Lose == /\ pending' = <<>>
        /\ active' = NoDate

Next == Accept \/ Start \/ Finish \/ Lose

Spec == Init /\ [][Next]_vars
=============================================================================
