------------------------- MODULE ReportPublication -------------------------
(***************************************************************************)
(* Publishing benchmark reports without clobbering (benchmark/report.rs):  *)
(* each writer tries out the destination before the measurement, and after *)
(* it writes a temporary file of its own and links it to the destination.  *)
(* The writers are processes: they interleave at every file operation,     *)
(* every operation may fail, the removal of a file too, and they may be    *)
(* killed.                                                                 *)
(***************************************************************************)
EXTENDS Naturals

CONSTANT Writers

ASSUME WritersAreSomebody == "nobody" \notin Writers

VARIABLES
  dest,    \* the file at the destination
  temps,   \* the temporary file of each writer
  pub,     \* how far each writer is
  refused  \* history: the writers whose file the system would not remove

pubVars == <<dest, temps, pub, refused>>

(* A file by its content: whose report, and how much of it.                *)
Amounts == {"empty", "partial", "whole"}
File(w, amount) == [by |-> w, amount |-> amount]
NoFile == [by |-> "nobody", amount |-> "none"]

PubInit ==
  /\ dest = NoFile
  /\ temps = [w \in Writers |-> NoFile]
  /\ pub = [w \in Writers |-> "idle"]
  /\ refused = {}

To(w, at) == pub' = [pub EXCEPT ![w] = at]
At(w, at) == pub[w] = at
SetTemp(w, file) == temps' = [temps EXCEPT ![w] = file]

(* remove_file, of the temporary file: done, or refused.                   *)
Removed(w) == SetTemp(w, NoFile) /\ UNCHANGED refused
NotRemoved(w) == refused' = refused \cup {w} /\ UNCHANGED temps

(* path.exists(), of the destination.                                      *)
CheckDestination(w, next) ==
  /\ To(w, IF dest = NoFile THEN next ELSE "failed")
  /\ UNCHANGED <<dest, temps, refused>>

(* create_new on a name made of the process and the time.                  *)
CreateTemporary(w, next) ==
  /\ \/ SetTemp(w, File(w, "empty")) /\ To(w, next)
     \/ To(w, "failed") /\ UNCHANGED temps
  /\ UNCHANGED <<dest, refused>>

-----------------------------------------------------------------------------
(* preflight_destination. *)

Preflight(w) == At(w, "idle") /\ CheckDestination(w, "probing")
Probe(w) == At(w, "probing") /\ CreateTemporary(w, "probed")
RemoveProbe(w) ==
  /\ At(w, "probed")
  /\ (Removed(w) /\ To(w, "ready")) \/ (NotRemoved(w) /\ To(w, "failed"))
  /\ UNCHANGED dest

(* What goes wrong between the two, or in the document, ends the writer.   *)
Abandon(w) == At(w, "ready") /\ To(w, "failed") /\ UNCHANGED <<dest, temps, refused>>

-----------------------------------------------------------------------------
(* publish_with.  A failure drops the TemporaryFile.                       *)

StartPublishing(w) == At(w, "ready") /\ CheckDestination(w, "creating")
Create(w) == At(w, "creating") /\ CreateTemporary(w, "writing")

WriteReport(w) ==
  /\ At(w, "writing")
  /\ \/ SetTemp(w, File(w, "whole")) /\ To(w, "syncing")
     \/ SetTemp(w, File(w, "partial")) /\ To(w, "dropping")
  /\ UNCHANGED <<dest, refused>>

Sync(w) ==
  /\ At(w, "syncing")
  /\ To(w, "linking") \/ To(w, "dropping")
  /\ UNCHANGED <<dest, temps, refused>>

(* Mutant of Link: a rename, which replaces what is there.                 *)
LinkRenaming(w) ==
  /\ At(w, "linking")
  /\ dest' = temps[w] /\ To(w, "linked")
  /\ UNCHANGED <<temps, refused>>

(* hard_link fails when the destination exists.                            *)
Link(w) ==
  /\ At(w, "linking")
  /\ \/ dest = NoFile /\ dest' = temps[w] /\ To(w, "linked")
     \/ To(w, "dropping") /\ UNCHANGED dest
  /\ UNCHANGED <<temps, refused>>

(* The outcome does not depend on the removal, whose error is dropped.     *)
(* After a publication remove_after_publication and the Drop both try it.  *)
RemoveTemporary(w) ==
  /\ pub[w] \in {"linked", "dropping"}
  /\ Removed(w) \/ NotRemoved(w)
  /\ To(w, IF At(w, "linked") THEN "published" ELSE "failed")
  /\ UNCHANGED dest

Over(w) == pub[w] \in {"published", "failed", "crashed"}

Killed(w) == ~ Over(w) /\ To(w, "crashed") /\ UNCHANGED <<dest, temps, refused>>

PublishStep(w) ==
  \/ StartPublishing(w) \/ Create(w) \/ WriteReport(w) \/ Sync(w) \/ Link(w)
  \/ RemoveTemporary(w)

PubNext ==
  \E w \in Writers :
    \/ Preflight(w) \/ Probe(w) \/ RemoveProbe(w) \/ Abandon(w)
    \/ PublishStep(w) \/ Killed(w)

PubSpec == PubInit /\ [][PubNext]_pubVars

-----------------------------------------------------------------------------
(* Properties. *)

(* The destination is written once, with one whole report, and never       *)
(* again; a writer that reports success finds its own there and one that   *)
(* reports failure does not; a temporary file outlives its writer only     *)
(* after a crash, or where the system would not remove it                  *)
(* (preflight_destination, publish_with, TemporaryFile).                   *)
Outcome(at) == IF at \in {"published", "failed", "crashed"} THEN at ELSE "running"
Document == IF dest.amount \in {"none", "whole"} THEN dest.by ELSE "a part of a report"
Promise == INSTANCE Publication
  WITH document <- Document,
       outcome <- [w \in Writers |-> Outcome(pub[w])],
       litter <- {w \in Writers : Over(w) /\ temps[w] # NoFile}
PublishedOnce == Promise!Spec

-----------------------------------------------------------------------------
(* The inductive invariant. *)

PubTypeOK ==
  /\ dest \in {NoFile} \cup {File(w, "whole") : w \in Writers}
  /\ temps \in [Writers -> {NoFile} \cup {File(w, a) : w \in Writers, a \in Amounts}]
  /\ pub \in [Writers -> {"idle", "probing", "probed", "ready", "creating", "writing",
                          "syncing", "linking", "linked", "dropping", "published",
                          "failed", "crashed"}]
  /\ refused \subseteq Writers

(* What the stage of a writer says of its temporary file...                *)
TempsMatch ==
  \A w \in Writers :
    /\ pub[w] \in {"idle", "probing", "ready", "creating"} => temps[w] = NoFile
    /\ pub[w] \in {"published", "failed"} => temps[w] = NoFile \/ w \in refused
    /\ w \in refused => pub[w] \in {"published", "failed"} /\ temps[w] # NoFile
    /\ pub[w] \in {"probed", "writing", "linked", "dropping"} => temps[w] # NoFile
    /\ pub[w] \in {"syncing", "linking"} => temps[w] = File(w, "whole")

(* ... and of the destination.                                             *)
DestMatches ==
  \A w \in Writers :
    /\ pub[w] \in {"linked", "published"} => dest = File(w, "whole")
    /\ dest = File(w, "whole") => pub[w] \in {"linked", "published", "crashed"}

PubInv == PubTypeOK /\ TempsMatch /\ DestMatches

=============================================================================
