----------------------------- MODULE LocalTime ------------------------------
(***************************************************************************)
(* _localize_to_utc of src/bluewave/transform.py: the naive local times of *)
(* the CSV to UTC, around a change of the zone's offset.  Times are whole  *)
(* numbers of one unit; a zone has one change of offset, at a UTC instant. *)
(* `Offset' and `FoldZero' are what the zoneinfo library does.             *)
(***************************************************************************)
EXTENDS Integers

CONSTANT Malformed  \* MalformedCsvError

ASSUME MalformedAssumption == Malformed \notin Int

Zone == [at : Int, before : Int, after : Int]

Offset(z, u) == IF u < z.at THEN z.before ELSE z.after

\* utc.astimezone(tz).replace(tzinfo=None)
Local(z, u) == u + Offset(z, u)

\* utcoffset of naive.replace(tzinfo=tz, fold=0): of the two readings of an
\* ambiguous or skipped time, the offset from before the change.
FoldZero(z, n) ==
  IF n < z.at + (IF z.before > z.after THEN z.before ELSE z.after)
  THEN z.before ELSE z.after

\* Faulty variant: the later reading of an ambiguous time is taken.
LocalizeLater(z, n) ==
  IF Local(z, n - z.after) = n THEN n - z.after
  ELSE IF Local(z, n - z.before) = n THEN n - z.before ELSE Malformed

\* The round trip fails exactly for a time that the zone skips.
Localize(z, n) ==
  LET utc == n - FoldZero(z, n)
  IN  IF Local(z, utc) = n THEN utc ELSE Malformed

\* A time the clocks of the zone never show, and one they show twice.
Skipped(z, n) == z.at + z.before <= n /\ n < z.at + z.after

Ambiguous(z, n) == z.at + z.after <= n /\ n < z.at + z.before
=============================================================================
