---------------------------- MODULE MCAuditTable ----------------------------
(***************************************************************************)
(* An instance of AuditTable: the host's clocks fall back at 10 UTC, from  *)
(* 6 to 5 o'clock; a wrong zone springs forward over 7 o'clock.            *)
(***************************************************************************)
EXTENDS AuditTable

MCHostZone == [at |-> 10, before |-> -4, after |-> -5]

MCZones == {MCHostZone, [at |-> 12, before |-> -5, after |-> -4]}

MCChars == {"a", "b", "c", "d", "o", Sep, Blank}

MCEvent(utc, employee, person, card, facility) ==
  [utc |-> utc, door |-> <<"d">>, description |-> <<"o">>, employee |-> employee,
   person |-> person, card |-> card, facility |-> facility]

\* The same badge in both passes of the repeated hour.
Pass(utc) == MCEvent(utc, <<"a">>, <<>>, <<Blank, "c">>, <<>>)

\* Lines that differ only in where their texts stand, and one written twice.
SplitBefore == MCEvent(12, <<"a">>, <<"b">>, <<>>, <<>>)
SplitAfter == MCEvent(12, <<"a", "b">>, <<>>, <<>>, <<>>)
Padded == MCEvent(12, <<"a">>, <<"b", Blank>>, <<>>, <<Blank>>)
Card == MCEvent(8, <<"a">>, <<>>, <<"c">>, <<>>)
Facility == MCEvent(8, <<"a">>, <<>>, <<>>, <<"c">>)

\* Lines that differ, and have one hash.
PipeBefore == MCEvent(12, <<"a", Sep>>, <<"b">>, <<>>, <<>>)
PipeAfter == MCEvent(12, <<"a">>, <<Sep, "b">>, <<>>, <<>>)

NoDoor == [Card EXCEPT !.door = <<Blank>>]

Well(events) == [wellFormed |-> TRUE, events |-> events]

MCReports == {Well(<<>>), Well(<<Pass(9), Pass(10), Card, Facility>>),
              Well(<<Card, Padded>>), Well(<<SplitBefore, SplitAfter, SplitBefore>>),
              Well(<<PipeBefore, PipeAfter>>), Well(<<Padded, NoDoor>>),
              [wellFormed |-> FALSE, events |-> <<Card>>]}
=============================================================================
