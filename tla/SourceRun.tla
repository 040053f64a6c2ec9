----------------------------- MODULE SourceRun -----------------------------
(***************************************************************************)
(* What compiling and running a program promises, with no compiler in it:  *)
(* either the program is turned down, or it runs and prints, line by line, *)
(* exactly what the Java source means, and finishes.                       *)
(***************************************************************************)
EXTENDS JavaSource

VARIABLES prog, status, out     \* prog is any program
vars == <<prog, status, out>>

Expected == Meaning(prog).out
Done == status \in {"turnedDown", "finished"}

Init == status = "compiling" /\ out = <<>>

TurnDown ==
  /\ status = "compiling"
  /\ status' = "turnedDown"
  /\ UNCHANGED <<prog, out>>

Start ==
  /\ status = "compiling"
  /\ JavaAccepts(prog)
  /\ status' = "running"
  /\ UNCHANGED <<prog, out>>

PrintNext ==
  /\ status = "running"
  /\ Len(out) < Len(Expected)
  /\ out' = Append(out, Expected[Len(out) + 1])
  /\ UNCHANGED <<prog, status>>

Finish ==
  /\ status = "running"
  /\ out = Expected
  /\ status' = "finished"
  /\ UNCHANGED <<prog, out>>

Next == TurnDown \/ Start \/ PrintNext \/ Finish

Spec == Init /\ [][Next]_vars /\ <>Done

=============================================================================
