---------------------------- MODULE ObserveWorker ----------------------------
(***************************************************************************)
(* The execution observer of the fuzzer: the driver (fuzz/observe.rs), the *)
(* worker process it talks to over two pipes (tools/FuzzObserve.java) and, *)
(* inside the worker, the threads that run the observed classes.  A class  *)
(* that misses the deadline leaves its thread running; the worker reports  *)
(* and halts, and the driver starts another.  When that was the reference, *)
(* the candidate has not run yet and the driver asks again, reversed.      *)
(***************************************************************************)
EXTENDS Integers, Sequences, SequencesExt

CONSTANTS
  Classes, Prints, Ending,   \* see PairObserver
  MaxPairs,                  \* bound: pairs asked about
  MaxCrashes                 \* bound: workers killed from outside

ASSUME ClassesAssumption ==
  /\ Prints \in [Classes -> Nat]
  /\ Ending \in [Classes -> {"Returned", "Threw", "LoadFailed", "Hangs"}]
ASSUME BoundsAssumption == MaxPairs \in Nat /\ MaxCrashes \in Nat

VARIABLES
  phase,      \* where observe_pair or restart is
  asked,      \* the pair of classes
  held,       \* the timed-out reference observation, while asking reversed
  answer,     \* what observe_pair returns
  pairs,      \* pairs asked so far
  stdinOpen, request,          \* the pipe to the worker: open, frames in it
  ready, responses,            \* the pipe from it: READY sent, observations
  worker,     \* where the worker's loop is
  task,       \* the pair it is working on
  results,    \* observations made for it
  sysOut,     \* System.out: NullStream or the number of a buffer
  threads,    \* the class threads of the process
  buffers,    \* the captured output of each
  crashes

driverVars == <<phase, asked, held, answer, pairs>>
pipeVars == <<stdinOpen, request, ready, responses>>
loopVars == <<worker, task, results>>
outputVars == <<sysOut, threads, buffers>>
vars == <<driverVars, pipeVars, loopVars, outputVars, crashes>>

NullStream == 0
NotFetched == -1

Observation(status, out) == [status |-> status, out |-> out]
NotRun == Observation("NotRun", <<>>)
TimedOut(o) == o.status = "TimedOut"

Init ==
  /\ phase = "spawning" /\ asked = <<>> /\ held = <<>> /\ answer = <<>> /\ pairs = 0
  /\ stdinOpen = TRUE /\ request = <<>> /\ ready = FALSE /\ responses = <<>>
  /\ worker = "starting" /\ task = <<>> /\ results = <<>>
  /\ sysOut = NullStream /\ threads = <<>> /\ buffers = <<>>
  /\ crashes = 0

-----------------------------------------------------------------------------
(* The driver. *)

Ask(reference, candidate) ==
  /\ phase = "idle" /\ pairs < MaxPairs
  /\ pairs' = pairs + 1
  /\ asked' = <<reference, candidate>>
  /\ held' = <<>> /\ answer' = <<>>
  /\ request' = <<asked'>>
  /\ phase' = "awaiting"
  /\ UNCHANGED <<stdinOpen, ready, responses, loopVars, outputVars, crashes>>

ValidPair(p, q) ==
  /\ p.status # "NotRun"
  /\ TimedOut(p) <=> q.status = "NotRun"
  /\ q.status = "NotRun" => q.out = <<>>

(* Mutant of ReadPair: the reversed answer is put behind.                  *)
ReadPairSwapped ==
  /\ phase = "awaiting" /\ responses # <<>>
  /\ LET p == responses[1]
         q == responses[2]
     IN IF held = <<>> /\ TimedOut(p)
        THEN held' = <<p>> /\ phase' = "closing" /\ UNCHANGED answer
        ELSE /\ answer' = IF held = <<>> THEN <<p, q>> ELSE <<p, held[1]>>
             /\ phase' = IF TimedOut(p) \/ TimedOut(q) THEN "closing" ELSE "idle"
             /\ UNCHANGED held
  /\ responses' = <<>>
  /\ UNCHANGED <<asked, pairs, stdinOpen, request, ready, loopVars, outputVars, crashes>>

(* The direct answer, or the first half of the reversed one beside the     *)
(* reference observation that timed out before.                            *)
ReadPair ==
  /\ phase = "awaiting" /\ responses # <<>>
  /\ LET p == responses[1]
         q == responses[2]
         late == TimedOut(p) \/ TimedOut(q)
     IN IF ~ ValidPair(p, q)
        THEN phase' = "panicked" /\ UNCHANGED <<held, answer>>
        ELSE IF held = <<>> /\ TimedOut(p)
             THEN held' = <<p>> /\ phase' = "closing" /\ UNCHANGED answer
             ELSE /\ answer' = IF held = <<>> THEN <<p, q>> ELSE <<held[1], p>>
                  /\ phase' = IF late THEN "closing" ELSE "idle"
                  /\ UNCHANGED held
  /\ responses' = <<>>
  /\ UNCHANGED <<asked, pairs, stdinOpen, request, ready, loopVars, outputVars, crashes>>

(* Mutant of EndOfPipe: a worker that dies before READY is not noticed.    *)
EndOfPipeAwaiting ==
  /\ worker = "dead"
  /\ phase = "awaiting" /\ responses = <<>>
  /\ phase' = "panicked"
  /\ UNCHANGED <<asked, held, answer, pairs, pipeVars, loopVars, outputVars, crashes>>

(* The pipe ends where an observation or READY was expected. *)
EndOfPipe ==
  /\ worker = "dead"
  /\ \/ phase = "awaiting" /\ responses = <<>>
     \/ phase = "spawning" /\ ~ ready
  /\ phase' = "panicked"
  /\ UNCHANGED <<asked, held, answer, pairs, pipeVars, loopVars, outputVars, crashes>>

(* restart and drop close the pipe and wait for the process. *)
CloseStdin ==
  /\ \/ phase = "closing" /\ phase' = "reaping"
     \/ phase = "idle" /\ pairs = MaxPairs /\ phase' = "dropping"
  /\ stdinOpen' = FALSE
  /\ UNCHANGED <<asked, held, answer, pairs, request, ready, responses,
                 loopVars, outputVars, crashes>>

Spawn ==
  /\ phase = "reaping" /\ worker = "dead"
  /\ phase' = "spawning"
  /\ stdinOpen' = TRUE /\ request' = <<>> /\ ready' = FALSE /\ responses' = <<>>
  /\ worker' = "starting" /\ task' = <<>> /\ results' = <<>>
  /\ sysOut' = NullStream /\ threads' = <<>> /\ buffers' = <<>>
  /\ UNCHANGED <<asked, held, answer, pairs, crashes>>

(* Mutant of ReadReady: the reversed request is never made.                *)
ReadReadyNoRetry ==
  /\ phase = "spawning" /\ ready
  /\ phase' = "idle"
  /\ UNCHANGED <<asked, held, answer, pairs, stdinOpen, request, ready, responses,
                 loopVars, outputVars, crashes>>

(* spawn_process returns: to the reversed request, or out of observe_pair. *)
ReadReady ==
  /\ phase = "spawning" /\ ready
  /\ IF held # <<>> /\ answer = <<>>
     THEN request' = <<Reverse(asked)>> /\ phase' = "awaiting"
     ELSE phase' = "idle" /\ UNCHANGED request
  /\ UNCHANGED <<asked, held, answer, pairs, stdinOpen, ready, responses,
                 loopVars, outputVars, crashes>>

Reaped ==
  /\ phase = "dropping" /\ worker = "dead"
  /\ phase' = "dropped"
  /\ UNCHANGED <<asked, held, answer, pairs, pipeVars, loopVars, outputVars, crashes>>

Driver == ReadPair \/ EndOfPipe \/ CloseStdin \/ Spawn \/ ReadReady \/ Reaped

-----------------------------------------------------------------------------
(* The loop of the worker. *)

SendReady ==
  /\ worker = "starting"
  /\ ready' = TRUE /\ worker' = "reading"
  /\ UNCHANGED <<driverVars, stdinOpen, request, responses, task, results,
                 outputVars, crashes>>

ReadRequest ==
  /\ worker = "reading" /\ request # <<>>
  /\ task' = request[1] /\ request' = <<>> /\ results' = <<>>
  /\ worker' = "deciding"
  /\ UNCHANGED <<driverVars, stdinOpen, ready, responses, outputVars, crashes>>

ReadEof ==
  /\ worker = "reading" /\ request = <<>> /\ ~ stdinOpen
  /\ worker' = "dead"
  /\ UNCHANGED <<driverVars, pipeVars, task, results, outputVars, crashes>>

(* Mutants of StartClass: the candidate runs after a reference that timed  *)
(* out; System.out is set before the new buffer is made.                   *)
StartClassWith(stream) ==
  /\ worker = "deciding"
  /\ LET c == task[Len(results) + 1]
     IN threads' = Append(threads, [class |-> c, printed |-> 0,
                                    stream |-> NotFetched, running |-> TRUE])
  /\ buffers' = Append(buffers, <<>>)
  /\ sysOut' = stream
  /\ worker' = "running"
  /\ UNCHANGED <<driverVars, pipeVars, task, results, crashes>>

StartClassAlways == Len(results) < 2 /\ StartClassWith(Len(buffers) + 1)
StartClassOldBuffer ==
  /\ results = <<>> \/ (Len(results) = 1 /\ ~ TimedOut(results[1]))
  /\ StartClassWith(Len(buffers))

(* runOne up to thread.start(). *)
StartClass ==
  /\ worker = "deciding"
  /\ results = <<>> \/ (Len(results) = 1 /\ ~ TimedOut(results[1]))
  /\ LET c == task[Len(results) + 1]
     IN threads' = Append(threads, [class |-> c, printed |-> 0,
                                    stream |-> NotFetched, running |-> TRUE])
  /\ buffers' = Append(buffers, <<>>)
  /\ sysOut' = Len(buffers')
  /\ worker' = "running"
  /\ UNCHANGED <<driverVars, pipeVars, task, results, crashes>>

SkipCandidate ==
  /\ worker = "deciding" /\ Len(results) = 1 /\ TimedOut(results[1])
  /\ results' = Append(results, NotRun)
  /\ UNCHANGED <<driverVars, pipeVars, worker, task, outputVars, crashes>>

Completed ==
  /\ worker = "running" /\ ~ Last(threads).running
  /\ sysOut' = NullStream
  /\ results' = Append(results, Observation(Ending[Last(threads).class], Last(buffers)))
  /\ worker' = "deciding"
  /\ UNCHANGED <<driverVars, pipeVars, task, threads, buffers, crashes>>

Deadline ==
  /\ worker = "running" /\ Last(threads).running
  /\ sysOut' = NullStream
  /\ worker' = "snapshot"
  /\ UNCHANGED <<driverVars, pipeVars, task, results, threads, buffers, crashes>>

Snapshot ==
  /\ worker = "snapshot"
  /\ results' = Append(results, Observation("TimedOut", Last(buffers)))
  /\ worker' = "deciding"
  /\ UNCHANGED <<driverVars, pipeVars, task, outputVars, crashes>>

Reply ==
  /\ worker = "deciding" /\ Len(results) = 2
  /\ responses' = results
  /\ worker' = IF \E o \in ToSet(results) : TimedOut(o) THEN "halting" ELSE "reading"
  /\ UNCHANGED <<driverVars, stdinOpen, request, ready, task, results,
                 outputVars, crashes>>

(* Runtime.halt takes the class threads along. *)
Halt ==
  /\ worker = "halting"
  /\ worker' = "dead"
  /\ UNCHANGED <<driverVars, pipeVars, task, results, outputVars, crashes>>

Loop == \/ SendReady \/ ReadRequest \/ ReadEof \/ StartClass \/ SkipCandidate
        \/ Completed \/ Deadline \/ Snapshot \/ Reply \/ Halt

Crash ==
  /\ worker # "dead" /\ crashes < MaxCrashes
  /\ crashes' = crashes + 1
  /\ worker' = "dead"
  /\ UNCHANGED <<driverVars, pipeVars, task, results, outputVars>>

-----------------------------------------------------------------------------
(* A class thread: println takes System.out and then writes to it. *)

Alive(k) == worker # "dead" /\ threads[k].running

Fetch(k) ==
  /\ Alive(k) /\ threads[k].stream = NotFetched
  /\ threads[k].printed < Prints[threads[k].class]
  /\ threads' = [threads EXCEPT ![k].stream = sysOut]
  /\ UNCHANGED <<driverVars, pipeVars, loopVars, sysOut, buffers, crashes>>

WriteLine(k) ==
  /\ Alive(k) /\ threads[k].stream # NotFetched
  /\ LET t == threads[k]
     IN /\ buffers' = IF t.stream = NullStream THEN buffers
                      ELSE [buffers EXCEPT ![t.stream] =
                              Append(@, <<t.class, t.printed + 1>>)]
        /\ threads' = [threads EXCEPT ![k].stream = NotFetched, ![k].printed = @ + 1]
  /\ UNCHANGED <<driverVars, pipeVars, loopVars, sysOut, crashes>>

Finish(k) ==
  /\ Alive(k) /\ threads[k].printed = Prints[threads[k].class]
  /\ Ending[threads[k].class] # "Hangs"
  /\ threads' = [threads EXCEPT ![k].running = FALSE]
  /\ UNCHANGED <<driverVars, pipeVars, loopVars, sysOut, buffers, crashes>>

ClassThread(k) == Fetch(k) \/ WriteLine(k) \/ Finish(k)

Next ==
  \/ \E r, c \in Classes : Ask(r, c)
  \/ Driver
  \/ Loop
  \/ Crash
  \/ \E k \in DOMAIN threads : ClassThread(k)

(* The driver and the worker's loop keep going and the deadline passes;    *)
(* nothing is assumed of the classes.                                      *)
Fairness == WF_vars(Driver) /\ WF_vars(Loop)

Spec == Init /\ [][Next]_vars /\ Fairness

-----------------------------------------------------------------------------
(* Properties. *)

PrintedLine == Classes \X (Nat \ {0})
Observations ==
  [status : {"Returned", "Threw", "LoadFailed", "TimedOut", "NotRun"}, out : Seq(PrintedLine)]

(* The one type invariant.  The pipe to the worker holds at most one       *)
(* request, and the other no answer or both observations of a pair.        *)
TypeOK ==
  /\ phase \in {"idle", "awaiting", "closing", "reaping", "spawning", "dropping",
                "dropped", "panicked"}
  /\ asked \in {<<>>} \cup (Classes \X Classes)
  /\ held \in Seq(Observations) /\ answer \in Seq(Observations)
  /\ pairs \in 0..MaxPairs /\ crashes \in 0..MaxCrashes
  /\ stdinOpen \in BOOLEAN /\ ready \in BOOLEAN
  /\ Len(request) <= 1 /\ Len(responses) \in {0, 2}
  /\ worker \in {"starting", "reading", "deciding", "running", "snapshot", "halting", "dead"}
  /\ Len(results) <= 2
  /\ Len(threads) = Len(buffers) /\ sysOut \in 0..Len(buffers)

(* While no worker is killed, the driver never meets a broken pipe or an   *)
(* invalid pair of statuses (validate_pair, the panics of observe_pair).   *)
NoProtocolError == crashes = 0 => phase # "panicked"

(* Output never leaks: a captured buffer holds lines of the class it was   *)
(* made for, in order, also when an earlier class of the same process is   *)
(* still printing.                                                         *)
OutputIsolated ==
  \A k \in DOMAIN buffers :
    \A n \in DOMAIN buffers[k] : buffers[k][n] = <<threads[k].class, n>>

(* The driver implements PairObserver: honest answers to the question      *)
(* asked, in the order asked, and none of them NotRun, and an answer to    *)
(* every question unless a worker is killed.                               *)
Observer ==
  INSTANCE PairObserver
    WITH answer <- IF phase \in {"idle", "dropping", "dropped"} THEN answer ELSE <<>>
AnswersHonestly == Observer!Safety
AnswersInTheEnd == <>(crashes > 0) \/ Observer!Answers

(* With crashes the driver still never hangs, neither on a question nor in *)
(* restart or drop, which wait for the process: it answers, ends or panics *)
(* (read_observation, restart and Drop of ObserveWorker).                  *)
Settled == phase \in {"idle", "dropped", "panicked"}
AlwaysSettles == ~ Settled ~> Settled

-----------------------------------------------------------------------------
(* Why the properties hold: what ObserveWorkerProofs carries from step to  *)
(* step.                                                                   *)

Thread == [class : Classes, printed : Nat, stream : Int, running : BOOLEAN]
DataOK ==
  /\ threads \in Seq(Thread) /\ buffers \in Seq(Seq(PrintedLine))
  /\ results \in Seq(Observations) /\ responses \in Seq(Observations)
  /\ request \in Seq(Classes \X Classes) /\ task \in {<<>>} \cup (Classes \X Classes)

(* A thread t, the k-th of its process, writes to its own buffer b or to   *)
(* none, and once to none, never again to its own.                         *)
ThreadOK(t, b, k) ==
  /\ \A n \in DOMAIN b : b[n] = <<t.class, n>>
  /\ Len(b) <= t.printed /\ t.printed <= Prints[t.class]
  /\ t.stream \in {NotFetched, NullStream, k}
  /\ t.stream # NotFetched => t.printed < Prints[t.class]
  /\ t.stream = k => Len(b) = t.printed
  /\ ~ t.running => t.printed = Prints[t.class] /\ Ending[t.class] # "Hangs"

(* Only the last thread of a process can be running.                       *)
ThreadsOK ==
  \A k \in DOMAIN threads :
    /\ ThreadOK(threads[k], buffers[k], k)
    /\ threads[k].running => k = Len(threads)

Capturing ==
  /\ sysOut \in {NullStream, Len(threads)}
  /\ worker \notin {"running", "dead"} => sysOut = NullStream
  /\ worker = "running" =>
       /\ threads # <<>> /\ sysOut = Len(threads)
       /\ Last(threads).stream # NullStream
       /\ Len(Last(buffers)) = Last(threads).printed
  /\ worker = "snapshot" => threads # <<>>

NoneRuns == \A k \in DOMAIN threads : ~ threads[k].running
Quiet ==
  \/ worker \notin {"starting", "reading", "deciding"}
  \/ worker = "deciding" /\ \E i \in DOMAIN results : TimedOut(results[i])
  \/ NoneRuns

(* Observations of a pair, made so far or all of them.                     *)
Answers(os, pair) ==
  /\ Len(os) \in 0..2
  /\ Len(os) >= 1 => os[1] \in Observer!Honest(pair[1])
  /\ Len(os) = 2 => IF TimedOut(os[1]) THEN os[2] = NotRun
                     ELSE os[2] \in Observer!Honest(pair[2])

Working ==
  /\ worker \in {"deciding", "running", "snapshot"} =>
       task \in Classes \X Classes /\ Answers(results, task)
  /\ worker \in {"running", "snapshot"} =>
       /\ Len(results) = 0 \/ (Len(results) = 1 /\ ~ TimedOut(results[1]))
       /\ Last(threads).class = task[Len(results) + 1]

(* The conversation: where the question is, and what has come of it.       *)
DeadIfKilled == worker = "dead" => crashes > 0
Question == IF held = <<>> THEN asked ELSE Reverse(asked)
Late(os) == \E i \in DOMAIN os : TimedOut(os[i])

Sent == request = <<Question>> /\ responses = <<>> /\ worker \in {"reading", "dead"} /\ DeadIfKilled
InWork ==
  /\ request = <<>> /\ responses = <<>> /\ task = Question
  /\ worker \in {"deciding", "running", "snapshot", "dead"} /\ DeadIfKilled
Replied ==
  /\ request = <<>> /\ Len(responses) = 2 /\ Answers(responses, Question)
  /\ IF Late(responses) THEN worker \in {"halting", "dead"}
     ELSE worker \in {"reading", "dead"} /\ DeadIfKilled

Answered == Len(answer) = 2 /\ answer \in Observer!Honest(asked[1]) \X Observer!Honest(asked[2])
Held == Len(held) = 1 /\ held[1] \in Observer!Honest(asked[1])
HalfWay == asked \in Classes \X Classes /\ (Answered \/ (answer = <<>> /\ Held))

Conversation ==
  /\ phase = "awaiting" =>
       /\ asked \in Classes \X Classes /\ answer = <<>> /\ (held = <<>> \/ Held)
       /\ stdinOpen /\ (Sent \/ InWork \/ Replied)
  /\ phase = "idle" =>
       /\ request = <<>> /\ responses = <<>> /\ stdinOpen
       /\ worker \in {"reading", "dead"} /\ DeadIfKilled
       /\ asked = <<>> \/ Answered
  /\ phase = "spawning" =>
       /\ request = <<>> /\ responses = <<>> /\ stdinOpen
       /\ worker \in {"starting", "reading", "dead"} /\ DeadIfKilled
       /\ worker = "starting" => ~ ready
       /\ HalfWay \/ (asked = <<>> /\ held = <<>> /\ answer = <<>>)
  /\ phase \in {"closing", "reaping"} => HalfWay
  /\ phase \in {"dropping", "dropped"} => asked = <<>> \/ Answered
  /\ phase = "panicked" => crashes > 0

ObserverInv ==
  TypeOK /\ DataOK /\ ThreadsOK /\ Capturing /\ Quiet /\ Working /\ Conversation

=============================================================================
