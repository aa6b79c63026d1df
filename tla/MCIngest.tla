------------------------------ MODULE MCIngest ------------------------------
(***************************************************************************)
(* Ingest with two configs to save that differ in everything: a save moves *)
(* the daily fire, the operator's clock and the window.                    *)
(***************************************************************************)
EXTENDS Ingest

MCConfigs == {[time |-> 0, zone |-> 0, cap |-> 2],
              [time |-> 1, zone |-> 1, cap |-> 1]}
=============================================================================
