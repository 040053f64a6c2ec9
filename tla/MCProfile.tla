----------------------------- MODULE MCProfile -----------------------------
(* Counters that wrap in a phase, or while a result is dropped.            *)
EXTENDS PhaseProfile

SomeStarts == {[requested |-> 0, released |-> 13],
               [requested |-> 14, released |-> 12]}
=============================================================================
