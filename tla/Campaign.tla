------------------------------ MODULE Campaign ------------------------------
(***************************************************************************)
(* What a run of the fuzzer promises whoever started it: every case is     *)
(* judged once, a hard finding stops the run unless it was told to keep    *)
(* going, and the exit code tells whether there was one.                   *)
(***************************************************************************)
EXTENDS Naturals

CONSTANT Count    \* the cases asked for

VARIABLES
  keepGoing,
  judged,     \* how many cases passed, are telemetry, or are hard findings
  outcome     \* "running", "success", "failure" or "crashed"

campaignVars == <<keepGoing, judged, outcome>>

Init ==
  /\ keepGoing \in BOOLEAN
  /\ judged = [pass |-> 0, telemetry |-> 0, hard |-> 0]
  /\ outcome = "running"

Total == judged.pass + judged.telemetry + judged.hard
Over == Total = Count \/ (judged.hard > 0 /\ ~ keepGoing)

Judge(verdict) ==
  /\ outcome = "running" /\ ~ Over
  /\ judged' = [judged EXCEPT ![verdict] = @ + 1]
  /\ UNCHANGED <<keepGoing, outcome>>

Exit ==
  /\ outcome = "running" /\ Over
  /\ outcome' = IF judged.hard > 0 THEN "failure" ELSE "success"
  /\ UNCHANGED <<keepGoing, judged>>

(* A run may crash over a case it has just counted.                        *)
Crash ==
  /\ outcome = "running"
  /\ outcome' = "crashed"
  /\ \/ UNCHANGED judged
     \/ ~ Over /\ \E verdict \in DOMAIN judged : judged' = [judged EXCEPT ![verdict] = @ + 1]
  /\ UNCHANGED keepGoing

Next == (\E verdict \in DOMAIN judged : Judge(verdict)) \/ Exit \/ Crash

Safety == Init /\ [][Next]_campaignVars

(* However the cases turn out, the run ends.                               *)
Spec == Safety /\ <>(outcome # "running")

=============================================================================
