---------------------------- MODULE Publication ----------------------------
(***************************************************************************)
(* What publishing a report promises, to writers that share a destination: *)
(* the first document published stays, a writer is told whether it was its *)
(* own, and only one that crashed leaves a temporary file behind, or one   *)
(* whose file the system would not remove.                                 *)
(***************************************************************************)
CONSTANT Writers

VARIABLES
  document,   \* the writer whose whole report is at the destination
  outcome,    \* what each writer was told
  litter,     \* finished writers with a file left
  refused     \* writers whose file could not be removed

publicationVars == <<document, outcome, litter, refused>>

Nobody == "nobody"

Init ==
  /\ document = Nobody
  /\ outcome = [w \in Writers |-> "running"]
  /\ litter = {} /\ refused = {}

Publish(w) ==
  /\ outcome[w] = "running" /\ document = Nobody
  /\ document' = w
  /\ UNCHANGED <<outcome, litter, refused>>

(* A writer that ends leaves nothing, or what it could not remove.         *)
CleanUp(w) ==
  \/ UNCHANGED <<litter, refused>>
  \/ litter' = litter \cup {w} /\ refused' = refused \cup {w}

Succeed(w) ==
  /\ outcome[w] = "running" /\ document = w
  /\ outcome' = [outcome EXCEPT ![w] = "published"]
  /\ CleanUp(w)
  /\ UNCHANGED document

Fail(w) ==
  /\ outcome[w] = "running" /\ document # w
  /\ outcome' = [outcome EXCEPT ![w] = "failed"]
  /\ CleanUp(w)
  /\ UNCHANGED document

Crash(w) ==
  /\ outcome[w] = "running"
  /\ outcome' = [outcome EXCEPT ![w] = "crashed"]
  /\ litter' \in {litter, litter \cup {w}}
  /\ UNCHANGED <<document, refused>>

Next == \E w \in Writers : Publish(w) \/ Succeed(w) \/ Fail(w) \/ Crash(w)

Spec == Init /\ [][Next]_publicationVars

=============================================================================
