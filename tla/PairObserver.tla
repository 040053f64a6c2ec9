---------------------------- MODULE PairObserver ----------------------------
(***************************************************************************)
(* What ObserveWorker::observe_pair promises the fuzzer: asked about a     *)
(* reference and a candidate class it answers with an honest observation   *)
(* of each, and it does answer.                                            *)
(***************************************************************************)
EXTENDS Naturals, Sequences

CONSTANTS
  Classes,   \* the classes that can be observed
  Prints,    \* how many lines each prints
  Ending     \* "Returned", "Threw", "LoadFailed", or "Hangs"

VARIABLES
  asked,     \* the pair in question
  answer     \* the observations, <<>> while there are none

pairVars == <<asked, answer>>

Line(c, n) == <<c, n>>
Output(c, n) == [k \in 1..n |-> Line(c, k)]

(* All of the output and the true ending; or, at the deadline, a prefix.   *)
Honest(c) ==
  [status : {Ending[c]} \ {"Hangs"}, out : {Output(c, Prints[c])}]
    \cup [status : {"TimedOut"}, out : {Output(c, n) : n \in 0..Prints[c]}]

Init == asked = <<>> /\ answer = <<>>

Ask(reference, candidate) ==
  /\ asked = <<>> \/ answer # <<>>
  /\ asked' = <<reference, candidate>>
  /\ answer' = <<>>

Answer ==
  /\ asked # <<>> /\ answer = <<>>
  /\ answer' \in Honest(asked[1]) \X Honest(asked[2])
  /\ UNCHANGED asked

Next == (\E r, c \in Classes : Ask(r, c)) \/ Answer

Safety == Init /\ [][Next]_pairVars

Answers == WF_pairVars(Answer)

Spec == Safety /\ Answers

=============================================================================
