------------------------ MODULE ObserveWorkerProofs ------------------------
(***************************************************************************)
(* The observer's output is isolated, its protocol never breaks unless a   *)
(* worker is killed, and its answers are those PairObserver promises.      *)
(***************************************************************************)
EXTENDS ObserveWorker, TLAPS

(* What is observed honestly is an observation, and of a class that ran.   *)
LEMMA HonestIsObservation ==
  ASSUME NEW c \in Classes, NEW o \in Observer!Honest(c)
  PROVE  o \in Observations /\ o.status # "NotRun"
<1> USE ClassesAssumption DEF Observer!Honest, Observations
<1>1. \A n \in 0..Prints[c] : Observer!Output(c, n) \in Seq(PrintedLine)
      BY DEF Observer!Output, Observer!Line, PrintedLine
<1>2. Prints[c] \in 0..Prints[c]
      OBVIOUS
<1>3. o.out \in Seq(PrintedLine)
      BY <1>1, <1>2
<1>4. o = [status |-> o.status, out |-> o.out]
      OBVIOUS
<1>5. o.status \in {"Returned", "Threw", "LoadFailed", "TimedOut"}
      OBVIOUS
<1> QED BY <1>3, <1>4, <1>5

(* The reversed question.                                                  *)
LEMMA ReversedPair ==
  ASSUME NEW pair \in Classes \X Classes
  PROVE  /\ Reverse(pair) \in Classes \X Classes
         /\ Reverse(pair)[1] = pair[2] /\ Reverse(pair)[2] = pair[1]
<1>1. PICK r \in Classes, c \in Classes : pair = <<r, c>>
      OBVIOUS
<1>2. Reverse(pair) = <<c, r>>
      BY <1>1 DEF Reverse
<1> QED BY <1>1, <1>2

(* A buffer is the output of its class so far; of a class that has         *)
(* finished and written all of it, all there is.                           *)
LEMMA CaptureIsHonest ==
  ASSUME NEW c \in Classes, NEW b \in Seq(PrintedLine),
         \A n \in DOMAIN b : b[n] = <<c, n>>, Len(b) <= Prints[c]
  PROVE  /\ Observation("TimedOut", b) \in Observer!Honest(c)
         /\ Len(b) = Prints[c] /\ Ending[c] # "Hangs" =>
              Observation(Ending[c], b) \in Observer!Honest(c)
<1>1. b = Observer!Output(c, Len(b))
      BY DEF Observer!Output, Observer!Line
<1>2. Len(b) \in 0..Prints[c]
      BY ClassesAssumption
<1> QED BY <1>1, <1>2, ClassesAssumption DEF Observer!Honest, Observation

-----------------------------------------------------------------------------
(* What the conversation does not see.                                     *)

(* The worker at work on the question, step by step.                       *)
LEMMA ConversationKept ==
  ASSUME Conversation, UNCHANGED <<driverVars, pipeVars, task, crashes>>,
         \/ worker' = worker
         \/ {worker, worker'} \subseteq {"deciding", "running", "snapshot"}
  PROVE  Conversation'
<1> USE DEF driverVars, pipeVars
<1>1. (Sent => Sent') /\ (InWork => InWork') /\ (Replied => Replied')
      BY DEF Sent, InWork, Replied, DeadIfKilled, Question
<1>2. (HalfWay <=> HalfWay') /\ (Answered <=> Answered') /\ (Held <=> Held')
      BY DEF HalfWay, Answered, Held
<1>3. worker \in {"reading", "dead"} /\ DeadIfKilled => worker' = worker /\ DeadIfKilled'
      BY DEF DeadIfKilled
<1>4. worker \in {"starting", "reading", "dead"} /\ DeadIfKilled
        => worker' = worker /\ DeadIfKilled'
      BY DEF DeadIfKilled
<1> QED BY <1>1, <1>2, <1>3, <1>4 DEF Conversation

(* The driver and its pipes, seen from the threads.                        *)
LEMMA ThreadsKept ==
  ASSUME ObserverInv, UNCHANGED <<loopVars, outputVars>>
  PROVE  ThreadsOK' /\ Capturing' /\ Quiet' /\ Working'
<1> USE DEF ObserverInv, loopVars, outputVars
<1>1. ThreadsOK'
      BY DEF ThreadsOK
<1>2. Capturing'
      BY DEF Capturing
<1>3. Quiet'
      BY DEF Quiet, NoneRuns
<1>4. Working'
      BY DEF Working, Answers
<1> QED BY <1>1, <1>2, <1>3, <1>4

(* A step of a class thread, seen from the driver and the worker's loop.   *)
LEMMA LoopKept ==
  ASSUME ObserverInv, UNCHANGED <<driverVars, pipeVars, loopVars, sysOut, crashes>>,
         Len(threads') = Len(threads), Len(buffers') = Len(buffers),
         threads # <<>> => Last(threads').class = Last(threads).class,
         NoneRuns => NoneRuns'
  PROVE  TypeOK' /\ Quiet' /\ Working' /\ Conversation'
<1> USE DEF ObserverInv, driverVars, pipeVars, loopVars
<1>1. TypeOK'
      BY DEF TypeOK
<1>2. Quiet'
      BY DEF Quiet
<1>3. Working'
      BY DEF Working, Answers, Capturing
<1>4. Conversation'
      BY ConversationKept
<1> QED BY <1>1, <1>2, <1>3, <1>4

-----------------------------------------------------------------------------
(* The class threads.                                                      *)

(* A class thread goes on and its buffer with it: nobody else notices.     *)
LEMMA ThreadMoves ==
  ASSUME ObserverInv, NEW k \in DOMAIN threads, threads[k].running, worker # "dead",
         NEW u \in Thread, NEW c \in Seq(PrintedLine),
         threads' = [threads EXCEPT ![k] = u], buffers' = [buffers EXCEPT ![k] = c],
         UNCHANGED <<driverVars, pipeVars, loopVars, sysOut, crashes>>,
         u.class = threads[k].class, ThreadOK(u, c, k),
         worker = "running" => u.stream # NullStream /\ Len(c) = u.printed
  PROVE  ObserverInv'
<1>1. /\ threads \in Seq(Thread) /\ buffers \in Seq(Seq(PrintedLine))
      /\ Len(threads) = Len(buffers) /\ k \in DOMAIN buffers
      BY DEF ObserverInv, DataOK, TypeOK
<1>2. /\ threads' \in Seq(Thread) /\ Len(threads') = Len(threads) /\ DOMAIN threads' = DOMAIN threads
      /\ threads'[k] = u /\ \A j \in DOMAIN threads \ {k} : threads'[j] = threads[j]
      BY <1>1
<1>3. /\ buffers' \in Seq(Seq(PrintedLine)) /\ Len(buffers') = Len(buffers)
      /\ DOMAIN buffers' = DOMAIN buffers
      /\ buffers'[k] = c /\ \A j \in DOMAIN buffers \ {k} : buffers'[j] = buffers[j]
      BY <1>1
<1>4. k = Len(threads) /\ k = Len(buffers) /\ k \in Nat \ {0}
      BY <1>1 DEF ObserverInv, ThreadsOK
<1>5. DOMAIN threads = DOMAIN buffers /\ DOMAIN threads = 1..k
      BY <1>1, <1>4
<1>6. DataOK'
      BY <1>2, <1>3 DEF ObserverInv, DataOK, pipeVars, loopVars
<1>7. ThreadsOK'
  <2> SUFFICES ASSUME NEW j \in DOMAIN threads
               PROVE  /\ ThreadOK(threads'[j], buffers'[j], j)
                      /\ threads'[j].running => j = Len(threads)
      BY <1>2 DEF ThreadsOK, ThreadOK
  <2>1. CASE j = k
        BY <2>1, <1>2, <1>3, <1>4
  <2>2. CASE j # k
        BY <2>2, <1>2, <1>3, <1>5 DEF ObserverInv, ThreadsOK
  <2> QED BY <2>1, <2>2
<1>8. Capturing'
      BY <1>2, <1>3, <1>4 DEF ObserverInv, Capturing, Last, loopVars
<1>9. TypeOK' /\ Quiet' /\ Working' /\ Conversation'
  <2>1. Last(threads').class = Last(threads).class
        BY <1>2, <1>4 DEF Last
  <2>2. NoneRuns => NoneRuns'
        BY DEF NoneRuns
  <2> QED BY <1>2, <1>3, <2>1, <2>2, LoopKept
<1> QED BY <1>6, <1>7, <1>8, <1>9 DEF ObserverInv

(* What is known of a thread that runs.                                    *)
LEMMA RunningThread ==
  ASSUME ObserverInv, NEW k \in DOMAIN threads, threads[k].running, worker # "dead"
  PROVE  /\ k \in Nat \ {0} /\ threads[k] \in Thread /\ buffers[k] \in Seq(PrintedLine)
         /\ buffers = [buffers EXCEPT ![k] = buffers[k]]
         /\ Prints[threads[k].class] \in Nat /\ ThreadOK(threads[k], buffers[k], k)
         /\ sysOut \in {NullStream, k}
         /\ sysOut = k => Len(buffers[k]) = threads[k].printed
         /\ worker = "running" =>
              /\ sysOut = k /\ threads[k].stream # NullStream
              /\ Len(buffers[k]) = threads[k].printed
<1>1. /\ threads \in Seq(Thread) /\ buffers \in Seq(Seq(PrintedLine))
      /\ Len(threads) = Len(buffers) /\ k \in DOMAIN buffers
      BY DEF ObserverInv, DataOK, TypeOK
<1>2. k = Len(threads) /\ k = Len(buffers) /\ k \in Nat \ {0} /\ ThreadOK(threads[k], buffers[k], k)
      BY <1>1 DEF ObserverInv, ThreadsOK
<1>3. /\ sysOut \in {NullStream, k}
      /\ sysOut = k => worker = "running"
      /\ worker = "running" =>
              /\ sysOut = k /\ threads[k].stream # NullStream
              /\ Len(buffers[k]) = threads[k].printed
      BY <1>2 DEF ObserverInv, Capturing, Last, NullStream
<1>4. threads[k] \in Thread /\ buffers[k] \in Seq(PrintedLine)
      BY <1>1
<1> QED BY <1>1, <1>2, <1>3, <1>4, ClassesAssumption DEF Thread

(* A thread takes the stream that is System.out now: its own buffer, as    *)
(* it is the last, or none.                                                *)
LEMMA FetchKeeps ==
  ASSUME ObserverInv, NEW k \in DOMAIN threads, Fetch(k)
  PROVE  ObserverInv'
<1> DEFINE u == [threads[k] EXCEPT !.stream = sysOut]
<1>1. /\ worker # "dead" /\ threads[k].running /\ threads[k].stream = NotFetched
      /\ threads[k].printed < Prints[threads[k].class]
      /\ threads' = [threads EXCEPT ![k].stream = sysOut]
      /\ UNCHANGED <<driverVars, pipeVars, loopVars, sysOut, buffers, crashes>>
      BY DEF Fetch, Alive
<1>2. /\ k \in Nat \ {0} /\ threads[k] \in Thread /\ buffers[k] \in Seq(PrintedLine)
      /\ buffers = [buffers EXCEPT ![k] = buffers[k]]
      /\ ThreadOK(threads[k], buffers[k], k) /\ sysOut \in {NullStream, k}
      /\ sysOut = k => Len(buffers[k]) = threads[k].printed
      /\ worker = "running" => sysOut = k
      BY <1>1, RunningThread
<1>3. u \in Thread /\ u.class = threads[k].class /\ u.stream = sysOut
      /\ u.printed = threads[k].printed /\ u.running = threads[k].running
      BY <1>2 DEF Thread, NullStream
<1>4. ThreadOK(u, buffers[k], k)
      BY <1>1, <1>2, <1>3 DEF ThreadOK
<1>5. threads' = [threads EXCEPT ![k] = u]
      BY <1>1
<1>6. worker = "running" => u.stream # NullStream /\ Len(buffers[k]) = u.printed
      BY <1>2, <1>3 DEF NullStream
<1> HIDE DEF u
<1> QED BY <1>1, <1>2, <1>3, <1>4, <1>5, <1>6, ThreadMoves

(* A thread writes its next line, behind those it wrote before, or loses   *)
(* it.                                                                     *)
LEMMA WriteLineKeeps ==
  ASSUME ObserverInv, NEW k \in DOMAIN threads, WriteLine(k)
  PROVE  ObserverInv'
<1> DEFINE t == threads[k]
           b == buffers[k]
           line == <<t.class, t.printed + 1>>
           u == [t EXCEPT !.stream = NotFetched, !.printed = @ + 1]
           c == IF t.stream = NullStream THEN b ELSE Append(b, line)
<1>1. /\ worker # "dead" /\ t.running /\ t.stream # NotFetched
      /\ buffers' = IF t.stream = NullStream THEN buffers
                     ELSE [buffers EXCEPT ![t.stream] = Append(@, line)]
      /\ threads' = [threads EXCEPT ![k].stream = NotFetched, ![k].printed = @ + 1]
      /\ UNCHANGED <<driverVars, pipeVars, loopVars, sysOut, crashes>>
      BY DEF WriteLine, Alive
<1>2. /\ k \in Nat \ {0} /\ t \in Thread /\ b \in Seq(PrintedLine)
      /\ buffers = [buffers EXCEPT ![k] = b]
      /\ Prints[t.class] \in Nat /\ ThreadOK(t, b, k)
      /\ worker = "running" => t.stream # NullStream /\ Len(b) = t.printed
      BY <1>1, RunningThread
<1>3. t.stream \in {NullStream, k} /\ t.printed < Prints[t.class]
      BY <1>1, <1>2 DEF ThreadOK
<1>4. /\ u \in Thread /\ u.class = t.class /\ u.stream = NotFetched
      /\ u.printed = t.printed + 1 /\ u.running = t.running
  <2>1. t.printed + 1 \in Nat /\ NotFetched \in Int
        BY <1>2 DEF Thread, NotFetched
  <2> QED BY <1>2, <2>1 DEF Thread
<1>5. line \in PrintedLine
      BY <1>2 DEF Thread, PrintedLine
<1>6. c \in Seq(PrintedLine)
      BY <1>2, <1>5
<1>7. ThreadOK(u, c, k) /\ (worker = "running" => Len(c) = u.printed)
  <2>1. CASE t.stream = NullStream
    <3>1. c = b
          BY <2>1
    <3> HIDE DEF c, u, t, b
    <3> QED BY <1>1, <1>2, <1>3, <1>4, <2>1, <3>1 DEF ThreadOK, NotFetched, Thread
  <2>2. CASE t.stream = k /\ t.stream # NullStream
    <3>1. Len(b) = t.printed /\ \A n \in DOMAIN b : b[n] = <<t.class, n>>
          BY <1>2, <2>2 DEF ThreadOK
    <3>2. /\ Len(c) = t.printed + 1 /\ DOMAIN c = DOMAIN b \cup {t.printed + 1}
          /\ \A n \in DOMAIN b : c[n] = b[n]
          /\ c[t.printed + 1] = line
          BY <1>2, <2>2, <3>1
    <3>3. \A n \in DOMAIN c : c[n] = <<u.class, n>>
          BY <1>4, <3>1, <3>2
    <3> HIDE DEF c, u, t, b
    <3> QED BY <1>1, <1>2, <1>3, <1>4, <2>2, <3>2, <3>3 DEF ThreadOK, NotFetched, Thread
  <2> QED BY <2>1, <2>2, <1>3
<1>8. threads' = [threads EXCEPT ![k] = u]
      BY <1>1
<1>9. buffers' = [buffers EXCEPT ![k] = c]
      BY <1>1, <1>2, <1>3
<1>10. u.stream # NullStream
      BY <1>4 DEF NotFetched, NullStream
<1> HIDE DEF c, u
<1> QED BY <1>1, <1>4, <1>6, <1>7, <1>8, <1>9, <1>10, ThreadMoves

(* A class comes to its end, with all of its lines printed.                *)
LEMMA FinishKeeps ==
  ASSUME ObserverInv, NEW k \in DOMAIN threads, Finish(k)
  PROVE  ObserverInv'
<1> DEFINE u == [threads[k] EXCEPT !.running = FALSE]
<1>1. /\ worker # "dead" /\ threads[k].running
      /\ threads[k].printed = Prints[threads[k].class] /\ Ending[threads[k].class] # "Hangs"
      /\ threads' = [threads EXCEPT ![k].running = FALSE]
      /\ UNCHANGED <<driverVars, pipeVars, loopVars, sysOut, buffers, crashes>>
      BY DEF Finish, Alive
<1>2. /\ threads[k] \in Thread /\ buffers[k] \in Seq(PrintedLine)
      /\ buffers = [buffers EXCEPT ![k] = buffers[k]]
      /\ ThreadOK(threads[k], buffers[k], k)
      /\ worker = "running" => threads[k].stream # NullStream
                               /\ Len(buffers[k]) = threads[k].printed
      BY <1>1, RunningThread
<1>3. u \in Thread /\ u.class = threads[k].class /\ u.stream = threads[k].stream
      /\ u.printed = threads[k].printed /\ u.running = FALSE
      BY <1>2 DEF Thread
<1>4. ThreadOK(u, buffers[k], k)
      BY <1>1, <1>2, <1>3 DEF ThreadOK
<1>5. threads' = [threads EXCEPT ![k] = u]
      BY <1>1
<1> HIDE DEF u
<1> QED BY <1>1, <1>2, <1>3, <1>4, <1>5, ThreadMoves

-----------------------------------------------------------------------------
(* The loop of the worker.                                                 *)

(* The worker says it is there; no class has been started.                 *)
LEMMA SendReadyKeeps == ObserverInv /\ SendReady => ObserverInv'
<1> SUFFICES ASSUME ObserverInv, SendReady PROVE ObserverInv'
    OBVIOUS
<1> USE DEF ObserverInv, SendReady, driverVars, outputVars
<1>1. TypeOK' /\ DataOK'
      BY DEF TypeOK, DataOK
<1>2. ThreadsOK'
      BY DEF ThreadsOK
<1>3. Capturing' /\ Quiet' /\ Working'
      BY DEF Capturing, Quiet, NoneRuns, Working
<1>4. Conversation'
      BY DEF Conversation, Sent, InWork, Replied, DeadIfKilled, HalfWay, Answered, Held
<1> QED BY <1>1, <1>2, <1>3, <1>4

(* The question leaves the pipe and is the task.                           *)
LEMMA ReadRequestKeeps == ObserverInv /\ ReadRequest => ObserverInv'
<1> SUFFICES ASSUME ObserverInv, ReadRequest PROVE ObserverInv'
    OBVIOUS
<1> USE DEF ObserverInv, ReadRequest, driverVars, outputVars
<1>1. request[1] \in Classes \X Classes
      BY DEF DataOK
<1>2. TypeOK' /\ DataOK'
      BY <1>1 DEF TypeOK, DataOK
<1>3. ThreadsOK'
      BY DEF ThreadsOK
<1>4. Capturing' /\ Quiet' /\ Working'
      BY <1>1 DEF Capturing, Quiet, NoneRuns, Working, Answers
<1>5. Conversation'
  <2>1. Sent => InWork'
        BY DEF Sent, InWork, DeadIfKilled, Question
  <2>2. ~ InWork /\ ~ Replied /\ ~ (phase \in {"idle", "spawning"})
        BY DEF InWork, Replied, Conversation
  <2> QED BY <2>1, <2>2 DEF Conversation, HalfWay, Answered, Held
<1> QED BY <1>2, <1>3, <1>4, <1>5

(* The worker ends only when the driver has closed the pipe.               *)
LEMMA ReadEofKeeps == ObserverInv /\ ReadEof => ObserverInv'
<1> SUFFICES ASSUME ObserverInv, ReadEof PROVE ObserverInv'
    OBVIOUS
<1> USE DEF ObserverInv, ReadEof, driverVars, pipeVars, outputVars
<1>1. TypeOK' /\ DataOK'
      BY DEF TypeOK, DataOK
<1>2. ThreadsOK'
      BY DEF ThreadsOK
<1>3. Capturing' /\ Quiet' /\ Working'
      BY DEF Capturing, Quiet, NoneRuns, Working
<1>4. Conversation'
      BY DEF Conversation, HalfWay, Answered, Held
<1> QED BY <1>1, <1>2, <1>3, <1>4

(* A class starts while no other runs, with an empty buffer as             *)
(* System.out.                                                             *)
LEMMA StartClassKeeps == ObserverInv /\ StartClass => ObserverInv'
<1> SUFFICES ASSUME ObserverInv, StartClass PROVE ObserverInv'
    OBVIOUS
<1> DEFINE t == [class |-> task[Len(results) + 1], printed |-> 0,
                 stream |-> NotFetched, running |-> TRUE]
<1>1. /\ worker = "deciding" /\ worker' = "running"
      /\ results = <<>> \/ (Len(results) = 1 /\ ~ TimedOut(results[1]))
      /\ threads' = Append(threads, t) /\ buffers' = Append(buffers, <<>>)
      /\ sysOut' = Len(buffers')
      /\ UNCHANGED <<driverVars, pipeVars, task, results, crashes>>
      BY DEF StartClass
<1>2. /\ threads \in Seq(Thread) /\ buffers \in Seq(Seq(PrintedLine))
      /\ Len(threads) = Len(buffers) /\ Len(threads) \in Nat
      BY DEF ObserverInv, DataOK, TypeOK
<1>3. task \in Classes \X Classes /\ Answers(results, task) /\ Len(results) \in {0, 1}
      BY <1>1 DEF ObserverInv, Working, DataOK
<1>4. /\ t \in Thread /\ t.printed = 0 /\ t.stream = NotFetched /\ t.running
      /\ Prints[t.class] \in Nat
  <2>1. task[1] \in Classes /\ task[2] \in Classes
        BY <1>3
  <2>2. Len(results) = 0 \/ Len(results) = 1
        BY <1>3
  <2>3. task[Len(results) + 1] \in Classes
        BY <2>1, <2>2
  <2> QED BY <2>3, ClassesAssumption DEF Thread, NotFetched
<1>5. /\ threads' \in Seq(Thread) /\ Len(threads') = Len(threads) + 1
      /\ DOMAIN threads' = DOMAIN threads \cup {Len(threads) + 1}
      /\ threads'[Len(threads) + 1] = t /\ \A j \in DOMAIN threads : threads'[j] = threads[j]
  <2> HIDE DEF t
  <2> QED BY <1>1, <1>2, <1>4
<1>6. /\ buffers' \in Seq(Seq(PrintedLine)) /\ Len(buffers') = Len(threads) + 1
      /\ buffers'[Len(threads) + 1] = <<>> /\ \A j \in DOMAIN threads : buffers'[j] = buffers[j]
      BY <1>1, <1>2
<1>7. NoneRuns
      BY <1>1, <1>3 DEF ObserverInv, Quiet
<1>8. TypeOK' /\ DataOK'
      BY <1>1, <1>2, <1>5, <1>6 DEF ObserverInv, TypeOK, DataOK, driverVars, pipeVars
<1>9. ThreadsOK'
  <2>1. ThreadOK(t, <<>>, Len(threads) + 1)
    <3> HIDE DEF t
    <3> QED BY <1>4 DEF ThreadOK
  <2>2. \A j \in DOMAIN threads : ThreadOK(threads[j], buffers[j], j) /\ ~ threads[j].running
        BY <1>7 DEF ObserverInv, ThreadsOK, NoneRuns
  <2> HIDE DEF t
  <2> QED BY <1>5, <1>6, <2>1, <2>2 DEF ThreadsOK
<1>10. Capturing'
      BY <1>1, <1>2, <1>5, <1>6 DEF Capturing, Last, NotFetched, NullStream
<1>11. Quiet'
      BY <1>1 DEF Quiet
<1>12. Working'
      BY <1>1, <1>2, <1>3, <1>5 DEF Working, Answers, Last
<1>13. Conversation'
      BY <1>1, ConversationKept DEF ObserverInv
<1> QED BY <1>8, <1>9, <1>10, <1>11, <1>12, <1>13 DEF ObserverInv

(* Adding to the results.                                                  *)
LEMMA OneMore ==
  ASSUME ObserverInv, NEW o \in Observations, Len(results) \in {0, 1},
         results' = Append(results, o)
  PROVE  /\ results' \in Seq(Observations) /\ Len(results') = Len(results) + 1
         /\ results'[Len(results) + 1] = o
         /\ Len(results) = 1 => results'[1] = results[1]
         /\ DOMAIN results' = 1..Len(results) + 1
BY DEF ObserverInv, DataOK

(* A candidate behind a late reference is not run.                         *)
LEMMA SkipCandidateKeeps == ObserverInv /\ SkipCandidate => ObserverInv'
<1> SUFFICES ASSUME ObserverInv, SkipCandidate PROVE ObserverInv'
    OBVIOUS
<1>1. /\ worker = "deciding" /\ Len(results) = 1 /\ TimedOut(results[1])
      /\ results' = Append(results, NotRun)
      /\ UNCHANGED <<driverVars, pipeVars, worker, task, outputVars, crashes>>
      BY DEF SkipCandidate
<1>2. NotRun \in Observations
      BY DEF NotRun, Observation, Observations
<1>3. /\ results' \in Seq(Observations) /\ Len(results') = 2 /\ DOMAIN results' = 1..2
      /\ results'[1] = results[1] /\ results'[2] = NotRun
      BY <1>1, <1>2, OneMore
<1> USE DEF ObserverInv, driverVars, pipeVars, outputVars
<1>4. TypeOK' /\ DataOK'
      BY <1>1, <1>3 DEF TypeOK, DataOK
<1>5. ThreadsOK'
      BY <1>1 DEF ThreadsOK
<1>6. Capturing' /\ Quiet'
      BY <1>1, <1>3 DEF Capturing, Quiet
<1>7. Working'
      BY <1>1, <1>3 DEF Working, Answers
<1>8. Conversation'
      BY <1>1, ConversationKept
<1> QED BY <1>4, <1>5, <1>6, <1>7, <1>8

(* An observation of the class at hand is honest, so are the results.      *)
LEMMA AnswersGrow ==
  ASSUME ObserverInv, worker \in {"running", "snapshot"},
         NEW o \in Observer!Honest(task[Len(results) + 1]), results' = Append(results, o),
         task' = task
  PROVE  /\ task \in Classes \X Classes /\ Len(results) \in {0, 1}
         /\ results' \in Seq(Observations) /\ Len(results') = Len(results) + 1
         /\ results'[Len(results) + 1] = o /\ DOMAIN results' = 1..Len(results) + 1
         /\ Answers(results', task')
<1>1. /\ task \in Classes \X Classes /\ Answers(results, task)
      /\ Len(results) = 0 \/ (Len(results) = 1 /\ ~ TimedOut(results[1]))
      BY DEF ObserverInv, Working
<1>2. task[Len(results) + 1] \in Classes
      <2>1. task[1] \in Classes /\ task[2] \in Classes
            BY <1>1
      <2>2. Len(results) + 1 \in {1, 2}
            BY <1>1
      <2> QED BY <2>1, <2>2
<1>3. o \in Observations
      BY <1>2, HonestIsObservation
<1>4. /\ results' \in Seq(Observations) /\ Len(results') = Len(results) + 1
      /\ results'[Len(results) + 1] = o
      /\ Len(results) = 1 => results'[1] = results[1]
      /\ DOMAIN results' = 1..Len(results) + 1
      BY <1>1, <1>3, OneMore
<1> QED BY <1>1, <1>4 DEF Answers

(* The class has finished with its stream in place all the time: its       *)
(* buffer is complete.                                                     *)
LEMMA CompletedKeeps == ObserverInv /\ Completed => ObserverInv'
<1> SUFFICES ASSUME ObserverInv, Completed PROVE ObserverInv'
    OBVIOUS
<1> DEFINE c == Last(threads).class
           o == Observation(Ending[c], Last(buffers))
<1>1. /\ worker = "running" /\ ~ Last(threads).running /\ worker' = "deciding"
      /\ sysOut' = NullStream /\ results' = Append(results, o)
      /\ UNCHANGED <<driverVars, pipeVars, task, threads, buffers, crashes>>
      BY DEF Completed
<1>2. /\ threads \in Seq(Thread) /\ buffers \in Seq(Seq(PrintedLine))
      /\ Len(threads) = Len(buffers) /\ Len(threads) \in Nat \ {0}
      /\ Len(threads) \in DOMAIN threads
      BY <1>1 DEF ObserverInv, DataOK, TypeOK, Capturing
<1>3. /\ ThreadOK(Last(threads), Last(buffers), Len(threads))
      /\ Last(threads) \in Thread /\ Last(buffers) \in Seq(PrintedLine)
      /\ Len(Last(buffers)) = Last(threads).printed
      /\ NoneRuns
      BY <1>1, <1>2 DEF ObserverInv, ThreadsOK, Last, Capturing, NoneRuns
<1>4. o \in Observer!Honest(c)
  <2>1. /\ c \in Classes /\ Len(Last(buffers)) = Prints[c] /\ Ending[c] # "Hangs"
        /\ \A n \in DOMAIN Last(buffers) : Last(buffers)[n] = <<c, n>>
        BY <1>1, <1>3 DEF ThreadOK, Thread
  <2>2. Len(Last(buffers)) <= Prints[c]
        BY <2>1, <1>3
  <2> HIDE DEF c
  <2> QED BY <1>3, <2>1, <2>2, CaptureIsHonest
<1>5. c = task[Len(results) + 1]
      BY <1>1 DEF ObserverInv, Working
<1>6. /\ task \in Classes \X Classes /\ Len(results) \in {0, 1}
      /\ results' \in Seq(Observations) /\ Len(results') = Len(results) + 1
      /\ Answers(results', task')
  <2> HIDE DEF o, c
  <2> QED BY <1>1, <1>4, <1>5, AnswersGrow
<1> HIDE DEF o, c
<1> USE DEF ObserverInv
<1>7. TypeOK' /\ DataOK'
  <2>1. TypeOK'
    <3>1. Len(results') <= 2
          BY <1>6 DEF Answers
    <3>2. sysOut' \in 0..Len(buffers)
          BY <1>2, <1>1 DEF NullStream
    <3> QED BY <1>1, <3>1, <3>2 DEF TypeOK, driverVars, pipeVars
  <2>2. DataOK'
        BY <1>1, <1>6 DEF DataOK, pipeVars
  <2> QED BY <2>1, <2>2
<1>8. ThreadsOK'
      BY <1>1 DEF ThreadsOK
<1>9. Capturing' /\ Quiet'
      BY <1>1, <1>3 DEF Capturing, Quiet, NoneRuns
<1>10. Working'
      BY <1>1, <1>6 DEF Working
<1>11. Conversation'
      BY <1>1, ConversationKept
<1> QED BY <1>7, <1>8, <1>9, <1>10, <1>11

(* At the deadline System.out is taken away from a class that runs.        *)
LEMMA DeadlineKeeps == ObserverInv /\ Deadline => ObserverInv'
<1> SUFFICES ASSUME ObserverInv, Deadline PROVE ObserverInv'
    OBVIOUS
<1> USE DEF ObserverInv
<1>1. /\ worker = "running" /\ worker' = "snapshot" /\ sysOut' = NullStream
      /\ UNCHANGED <<driverVars, pipeVars, task, results, threads, buffers, crashes>>
      BY DEF Deadline
<1>2. TypeOK' /\ DataOK'
      BY <1>1 DEF TypeOK, DataOK, driverVars, pipeVars, NullStream
<1>3. ThreadsOK'
      BY <1>1 DEF ThreadsOK
<1>4. Capturing' /\ Quiet' /\ Working'
      BY <1>1 DEF Capturing, Quiet, Working
<1>5. Conversation'
      BY <1>1, ConversationKept
<1> QED BY <1>2, <1>3, <1>4, <1>5

(* The snapshot of a late class is the beginning of its output.            *)
LEMMA SnapshotKeeps == ObserverInv /\ Snapshot => ObserverInv'
<1> SUFFICES ASSUME ObserverInv, Snapshot PROVE ObserverInv'
    OBVIOUS
<1> DEFINE c == Last(threads).class
           o == Observation("TimedOut", Last(buffers))
<1>1. /\ worker = "snapshot" /\ worker' = "deciding" /\ results' = Append(results, o)
      /\ UNCHANGED <<driverVars, pipeVars, task, outputVars, crashes>>
      BY DEF Snapshot
<1>2. /\ threads \in Seq(Thread) /\ buffers \in Seq(Seq(PrintedLine))
      /\ Len(threads) = Len(buffers) /\ Len(threads) \in Nat \ {0}
      /\ Len(threads) \in DOMAIN threads
      BY <1>1 DEF ObserverInv, DataOK, TypeOK, Capturing
<1>3. /\ ThreadOK(Last(threads), Last(buffers), Len(threads))
      /\ Last(threads) \in Thread /\ Last(buffers) \in Seq(PrintedLine)
      BY <1>1, <1>2 DEF ObserverInv, ThreadsOK, Last
<1>4. o \in Observer!Honest(c)
  <2>1. /\ c \in Classes /\ Last(threads).printed \in Nat /\ Prints[c] \in Nat
        /\ Len(Last(buffers)) <= Last(threads).printed /\ Last(threads).printed <= Prints[c]
        /\ \A n \in DOMAIN Last(buffers) : Last(buffers)[n] = <<c, n>>
        BY <1>1, <1>3, ClassesAssumption DEF ThreadOK, Thread
  <2>2. Len(Last(buffers)) <= Prints[c]
        BY <2>1, <1>3
  <2> HIDE DEF c
  <2> QED BY <1>3, <2>1, <2>2, CaptureIsHonest
<1>5. c = task[Len(results) + 1]
      BY <1>1 DEF ObserverInv, Working
<1>6. /\ task \in Classes \X Classes /\ Len(results) \in {0, 1}
      /\ results' \in Seq(Observations) /\ Len(results') = Len(results) + 1
      /\ Answers(results', task')
      /\ results'[Len(results) + 1] = o /\ Len(results) + 1 \in DOMAIN results'
  <2>1. /\ task \in Classes \X Classes /\ Len(results) \in {0, 1}
        /\ results' \in Seq(Observations) /\ Len(results') = Len(results) + 1
        /\ Answers(results', task') /\ results'[Len(results) + 1] = o
        /\ DOMAIN results' = 1..Len(results) + 1
    <3> HIDE DEF o, c
    <3> QED BY <1>1, <1>4, <1>5, AnswersGrow
  <2> HIDE DEF o
  <2> QED BY <2>1
<1>7. TimedOut(o)
      BY DEF TimedOut, Observation
<1> HIDE DEF o, c
<1> USE DEF ObserverInv
<1>8. TypeOK' /\ DataOK'
  <2>1. TypeOK'
    <3>1. Len(results') <= 2
          BY <1>6 DEF Answers
    <3> QED BY <1>1, <3>1 DEF TypeOK, driverVars, pipeVars, outputVars
  <2>2. DataOK'
        BY <1>1, <1>6 DEF DataOK, pipeVars, outputVars
  <2> QED BY <2>1, <2>2
<1>9. ThreadsOK'
      BY <1>1 DEF ThreadsOK, outputVars
<1>10. Capturing' /\ Quiet'
      BY <1>1, <1>6, <1>7 DEF Capturing, Quiet, outputVars
<1>11. Working'
      BY <1>1, <1>6 DEF Working
<1>12. Conversation'
      BY <1>1, ConversationKept
<1> QED BY <1>8, <1>9, <1>10, <1>11, <1>12

(* The answer leaves the worker, and the worker ends after a timeout.      *)
LEMMA ReplyKeeps == ObserverInv /\ Reply => ObserverInv'
<1> SUFFICES ASSUME ObserverInv, Reply PROVE ObserverInv'
    OBVIOUS
<1>1. /\ worker = "deciding" /\ Len(results) = 2 /\ responses' = results
      /\ worker' = IF Late(results) THEN "halting" ELSE "reading"
      /\ UNCHANGED <<driverVars, stdinOpen, request, ready, task, results, outputVars, crashes>>
      BY DEF Reply, Late, ToSet
<1>2. task \in Classes \X Classes /\ Answers(results, task)
      BY <1>1 DEF ObserverInv, Working
<1> USE DEF ObserverInv
<1>3. TypeOK' /\ DataOK'
      BY <1>1 DEF TypeOK, DataOK, driverVars, outputVars
<1>4. ThreadsOK'
      BY <1>1 DEF ThreadsOK, outputVars
<1>5. Capturing' /\ Quiet' /\ Working'
      BY <1>1 DEF Capturing, Quiet, NoneRuns, Late, Working, outputVars
<1>6. Conversation'
  <2>1. InWork => Replied'
        BY <1>1, <1>2 DEF InWork, Replied, Question, Late, Answers, DeadIfKilled, driverVars
  <2>2. ~ Sent /\ ~ Replied /\ phase \notin {"idle", "spawning"}
        BY <1>1 DEF Sent, Replied, Conversation
  <2> QED BY <1>1, <2>1, <2>2 DEF Conversation, HalfWay, Answered, Held, driverVars
<1> QED BY <1>3, <1>4, <1>5, <1>6

(* The process ends, by itself or by a kill.                               *)
LEMMA HaltKeeps == ObserverInv /\ Halt => ObserverInv'
<1> SUFFICES ASSUME ObserverInv, Halt PROVE ObserverInv'
    OBVIOUS
<1> USE DEF ObserverInv, Halt, driverVars, pipeVars, outputVars
<1>1. TypeOK' /\ DataOK'
      BY DEF TypeOK, DataOK
<1>2. ThreadsOK'
      BY DEF ThreadsOK
<1>3. Capturing' /\ Quiet' /\ Working'
      BY DEF Capturing, Quiet, Working
<1>4. Conversation'
  <2>1. ~ Sent /\ ~ InWork /\ (Replied => Replied')
        BY DEF Sent, InWork, Replied, Question, Late, Answers
  <2> QED BY <2>1 DEF Conversation, HalfWay, Answered, Held
<1> QED BY <1>1, <1>2, <1>3, <1>4

(* A worker killed from outside counts as killed, wherever it was.         *)
LEMMA CrashKeeps == ObserverInv /\ Crash => ObserverInv'
<1> SUFFICES ASSUME ObserverInv, Crash PROVE ObserverInv'
    OBVIOUS
<1> USE DEF ObserverInv, Crash, driverVars, pipeVars, outputVars
<1>1. TypeOK' /\ DataOK' /\ crashes' > 0
      BY BoundsAssumption DEF TypeOK, DataOK
<1>2. ThreadsOK'
      BY DEF ThreadsOK
<1>3. Capturing' /\ Quiet' /\ Working'
      BY DEF Capturing, Quiet, Working
<1>4. Conversation'
  <2>1. DeadIfKilled'
        BY <1>1 DEF DeadIfKilled
  <2>2. (Sent => Sent') /\ (InWork => InWork') /\ (Replied => Replied')
        BY <2>1 DEF Sent, InWork, Replied, Question, Late, Answers
  <2> QED BY <1>1, <2>1, <2>2 DEF Conversation, HalfWay, Answered, Held
<1> QED BY <1>1, <1>2, <1>3, <1>4

-----------------------------------------------------------------------------
(* The driver.                                                             *)

(* A question is put when the last one is answered, to a worker that       *)
(* reads or is dead.                                                       *)
LEMMA AskKeeps == ASSUME ObserverInv, NEW r \in Classes, NEW c \in Classes, Ask(r, c)
                  PROVE  ObserverInv'
<1>1. /\ phase = "idle" /\ phase' = "awaiting" /\ pairs < MaxPairs /\ pairs' = pairs + 1
      /\ asked' = <<r, c>> /\ held' = <<>> /\ answer' = <<>> /\ request' = <<asked'>>
      /\ UNCHANGED <<stdinOpen, ready, responses, loopVars, outputVars, crashes>>
      BY DEF Ask
<1>2. ThreadsOK' /\ Capturing' /\ Quiet' /\ Working'
      BY <1>1, ThreadsKept
<1> USE DEF ObserverInv
<1>3. TypeOK' /\ DataOK'
      BY <1>1, BoundsAssumption DEF TypeOK, DataOK, loopVars, outputVars
<1>4. Conversation'
      BY <1>1 DEF Conversation, Sent, DeadIfKilled, Question, loopVars
<1> QED BY <1>2, <1>3, <1>4

(* Two observations of the question at hand are a valid pair, and tell the *)
(* truth of the classes asked about.                                       *)
LEMMA RepliedIsValid ==
  ASSUME ObserverInv, Replied, asked \in Classes \X Classes, held = <<>> \/ Held
  PROVE  /\ ValidPair(responses[1], responses[2])
         /\ responses[1] \in Observations /\ responses[2] \in Observations
         /\ held = <<>> => responses[1] \in Observer!Honest(asked[1])
         /\ held = <<>> /\ ~ TimedOut(responses[1]) => responses[2] \in Observer!Honest(asked[2])
         /\ held # <<>> => responses[1] \in Observer!Honest(asked[2])
<1>1. /\ Question \in Classes \X Classes
      /\ held = <<>> => Question = asked
      /\ held # <<>> => Question[1] = asked[2]
      BY ReversedPair DEF Question
<1>2. /\ responses[1] \in Observer!Honest(Question[1])
      /\ IF TimedOut(responses[1]) THEN responses[2] = NotRun
         ELSE responses[2] \in Observer!Honest(Question[2])
      BY DEF Replied, Answers
<1>3. Question[1] \in Classes /\ Question[2] \in Classes
      BY <1>1
<1>4. responses[1] \in Observations /\ responses[1].status # "NotRun"
      BY <1>2, <1>3, HonestIsObservation
<1>5. ~ TimedOut(responses[1]) =>
        responses[2] \in Observations /\ responses[2].status # "NotRun"
      BY <1>2, <1>3, HonestIsObservation
<1>6. NotRun \in Observations /\ NotRun.status = "NotRun" /\ NotRun.out = <<>>
      BY DEF NotRun, Observation, Observations
<1>7. ValidPair(responses[1], responses[2])
      BY <1>2, <1>4, <1>5, <1>6 DEF ValidPair
<1> QED BY <1>1, <1>2, <1>4, <1>5, <1>6, <1>7

(* What reading the pair comes to.                                         *)
LEMMA ReadPairResult ==
  ASSUME ObserverInv, ReadPair
  PROVE  /\ phase = "awaiting" /\ Replied /\ answer = <<>> /\ (held = <<>> \/ Held)
         /\ asked \in Classes \X Classes
         /\ UNCHANGED <<asked, pairs, stdinOpen, request, ready, loopVars, outputVars, crashes>>
         /\ responses' = <<>> /\ held' \in Seq(Observations) /\ answer' \in Seq(Observations)
         /\ \/ phase' = "closing" /\ UNCHANGED answer /\ Held'
            \/ phase' \in {"closing", "idle"} /\ UNCHANGED held /\ Answered'
         /\ phase' = "idle" => ~ Late(responses) /\ Answered'
<1> DEFINE p == responses[1]
           q == responses[2]
<1>1. /\ phase = "awaiting" /\ Replied /\ answer = <<>> /\ (held = <<>> \/ Held)
      /\ asked \in Classes \X Classes /\ Len(responses) = 2
      /\ held \in Seq(Observations) /\ answer \in Seq(Observations)
      BY DEF ReadPair, ObserverInv, Conversation, Sent, InWork, Replied, TypeOK
<1>2. /\ ValidPair(p, q) /\ p \in Observations /\ q \in Observations
      /\ held = <<>> => p \in Observer!Honest(asked[1])
      /\ held = <<>> /\ ~ TimedOut(p) => q \in Observer!Honest(asked[2])
      /\ held # <<>> => p \in Observer!Honest(asked[2])
      BY <1>1, RepliedIsValid
<1>3. Late(responses) <=> TimedOut(p) \/ TimedOut(q)
  <2>1. DOMAIN responses = {1, 2}
        BY <1>1 DEF ObserverInv, DataOK
  <2> QED BY <2>1 DEF Late
<1>4. /\ UNCHANGED <<asked, pairs, stdinOpen, request, ready, loopVars, outputVars, crashes>>
      /\ responses' = <<>>
      /\ IF held = <<>> /\ TimedOut(p)
         THEN held' = <<p>> /\ phase' = "closing" /\ UNCHANGED answer
         ELSE /\ answer' = IF held = <<>> THEN <<p, q>> ELSE <<held[1], p>>
              /\ phase' = IF TimedOut(p) \/ TimedOut(q) THEN "closing" ELSE "idle"
              /\ UNCHANGED held
      BY <1>2 DEF ReadPair
<1> HIDE DEF p, q
<1>5. CASE held = <<>> /\ TimedOut(p)
  <2>0. held' = <<p>> /\ p \in Observations
        BY <1>2, <1>4, <1>5
  <2>1. held' \in Seq(Observations) /\ Len(held') = 1 /\ held'[1] = p
        BY <2>0
  <2>2. Held'
        BY <1>2, <1>4, <1>5, <2>1 DEF Held
  <2> QED BY <1>1, <1>4, <1>5, <2>1, <2>2
<1>6. CASE held = <<>> /\ ~ TimedOut(p)
  <2>1. answer' = <<p, q>>
        BY <1>4, <1>6
  <2>2. answer' \in Seq(Observations) /\ Len(answer') = 2
        BY <1>2, <2>1
  <2>3. Answered'
        BY <1>2, <1>4, <1>6, <2>1, <2>2 DEF Answered
  <2> QED BY <1>1, <1>3, <1>4, <1>6, <2>2, <2>3
<1>7. CASE held # <<>>
  <2>1. held[1] \in Observer!Honest(asked[1]) /\ held[1] \in Observations
        BY <1>1, <1>7 DEF Held
  <2>2. answer' = <<held[1], p>>
        BY <1>4, <1>7
  <2>3. answer' \in Seq(Observations) /\ Len(answer') = 2
        BY <1>2, <2>1, <2>2
  <2>4. Answered'
        BY <1>2, <1>4, <1>7, <2>1, <2>2, <2>3 DEF Answered
  <2> QED BY <1>1, <1>3, <1>4, <1>7, <2>3, <2>4
<1> QED BY <1>5, <1>6, <1>7

(* After an answer the worker is kept only if nothing was late in it.      *)
LEMMA ReadPairKeeps == ObserverInv /\ ReadPair => ObserverInv'
<1> SUFFICES ASSUME ObserverInv, ReadPair PROVE ObserverInv'
    OBVIOUS
<1>1. /\ phase = "awaiting" /\ Replied /\ asked \in Classes \X Classes /\ answer = <<>>
      /\ UNCHANGED <<asked, pairs, stdinOpen, request, ready, loopVars, outputVars, crashes>>
      /\ responses' = <<>> /\ held' \in Seq(Observations) /\ answer' \in Seq(Observations)
      /\ \/ phase' = "closing" /\ UNCHANGED answer /\ Held'
         \/ phase' \in {"closing", "idle"} /\ UNCHANGED held /\ Answered'
      /\ phase' = "idle" => ~ Late(responses) /\ Answered'
      BY ReadPairResult
<1>2. ThreadsOK' /\ Capturing' /\ Quiet' /\ Working'
      BY <1>1, ThreadsKept
<1>3. TypeOK' /\ DataOK'
      BY <1>1 DEF ObserverInv, TypeOK, DataOK, loopVars, outputVars
<1>4. Conversation'
  <2>1. CASE phase' = "closing"
        BY <1>1, <2>1 DEF Conversation, HalfWay
  <2>2. CASE phase' = "idle"
    <3>1. stdinOpen
          BY <1>1 DEF ObserverInv, Conversation
    <3>2. request = <<>> /\ worker \in {"reading", "dead"} /\ DeadIfKilled
          BY <1>1, <2>2 DEF Replied
    <3> QED BY <1>1, <2>2, <3>1, <3>2 DEF Conversation, DeadIfKilled, loopVars
  <2> QED BY <1>1, <2>1, <2>2
<1> QED BY <1>2, <1>3, <1>4 DEF ObserverInv

(* The pipe ends where something was expected: the worker has been         *)
(* killed.                                                                 *)
LEMMA EndOfPipeKeeps == ObserverInv /\ EndOfPipe => ObserverInv'
<1> SUFFICES ASSUME ObserverInv, EndOfPipe PROVE ObserverInv'
    OBVIOUS
<1>1. /\ worker = "dead" /\ phase' = "panicked"
      /\ (phase = "awaiting" /\ responses = <<>>) \/ phase = "spawning"
      /\ UNCHANGED <<asked, held, answer, pairs, pipeVars, loopVars, outputVars, crashes>>
      BY DEF EndOfPipe
<1>2. ThreadsOK' /\ Capturing' /\ Quiet' /\ Working'
      BY <1>1, ThreadsKept
<1>3. crashes > 0
      BY <1>1 DEF ObserverInv, Conversation, Sent, InWork, Replied, DeadIfKilled
<1> USE DEF ObserverInv
<1>4. TypeOK' /\ DataOK'
      BY <1>1 DEF TypeOK, DataOK, loopVars, outputVars, pipeVars
<1>5. Conversation'
      BY <1>1, <1>3 DEF Conversation
<1> QED BY <1>2, <1>4, <1>5

(* The driver closes the pipe, between questions or after a late answer.   *)
LEMMA CloseStdinKeeps == ObserverInv /\ CloseStdin => ObserverInv'
<1> SUFFICES ASSUME ObserverInv, CloseStdin PROVE ObserverInv'
    OBVIOUS
<1>1. /\ \/ phase = "closing" /\ phase' = "reaping"
         \/ phase = "idle" /\ phase' = "dropping"
      /\ stdinOpen' = FALSE
      /\ UNCHANGED <<asked, held, answer, pairs, request, ready, responses,
                     loopVars, outputVars, crashes>>
      BY DEF CloseStdin
<1>2. ThreadsOK' /\ Capturing' /\ Quiet' /\ Working'
      BY <1>1, ThreadsKept
<1> USE DEF ObserverInv
<1>3. TypeOK' /\ DataOK'
      BY <1>1 DEF TypeOK, DataOK, loopVars, outputVars
<1>4. Conversation'
      BY <1>1 DEF Conversation, HalfWay, Answered, Held
<1> QED BY <1>2, <1>3, <1>4

(* A new worker has no classes, no questions and no answers.               *)
LEMMA SpawnKeeps == ObserverInv /\ Spawn => ObserverInv'
<1> SUFFICES ASSUME ObserverInv, Spawn PROVE ObserverInv'
    OBVIOUS
<1> USE DEF ObserverInv, Spawn
<1>1. TypeOK'
  <2>1. Len(request') <= 1 /\ Len(responses') \in {0, 2} /\ Len(results') <= 2
        OBVIOUS
  <2>2. Len(threads') = Len(buffers') /\ sysOut' \in 0..Len(buffers')
        BY DEF NullStream
  <2> QED BY <2>1, <2>2 DEF TypeOK
<1>2. DataOK'
      BY DEF DataOK
<1>3. ThreadsOK' /\ Capturing' /\ Quiet' /\ Working'
      BY DEF ThreadsOK, Capturing, Quiet, NoneRuns, Working, NullStream
<1>4. Conversation'
      BY DEF Conversation, HalfWay, Answered, Held, DeadIfKilled
<1> QED BY <1>1, <1>2, <1>3, <1>4

(* With READY the reversed question is asked, or observe_pair is done.     *)
LEMMA ReadReadyKeeps == ObserverInv /\ ReadReady => ObserverInv'
<1> SUFFICES ASSUME ObserverInv, ReadReady PROVE ObserverInv'
    OBVIOUS
<1>1. /\ phase = "spawning" /\ ready
      /\ IF held # <<>> /\ answer = <<>>
         THEN request' = <<Reverse(asked)>> /\ phase' = "awaiting"
         ELSE phase' = "idle" /\ UNCHANGED request
      /\ UNCHANGED <<asked, held, answer, pairs, stdinOpen, ready, responses,
                     loopVars, outputVars, crashes>>
      BY DEF ReadReady
<1>2. ThreadsOK' /\ Capturing' /\ Quiet' /\ Working'
      BY <1>1, ThreadsKept
<1>3. /\ request = <<>> /\ responses = <<>> /\ stdinOpen
      /\ worker \in {"reading", "dead"} /\ DeadIfKilled
      /\ HalfWay \/ (asked = <<>> /\ held = <<>> /\ answer = <<>>)
      BY <1>1 DEF ObserverInv, Conversation
<1>4. CASE held # <<>> /\ answer = <<>>
  <2>1. asked \in Classes \X Classes /\ Held
        BY <1>3, <1>4 DEF HalfWay, Answered
  <2>2. Reverse(asked) \in Classes \X Classes
        BY <2>1, ReversedPair
  <2>3. TypeOK' /\ DataOK'
    <3>1. request' \in Seq(Classes \X Classes) /\ Len(request') <= 1
          BY <1>1, <1>4, <2>2
    <3> QED BY <1>1, <1>4, <3>1 DEF ObserverInv, TypeOK, DataOK, loopVars, outputVars
  <2>4. Sent'
        BY <1>1, <1>3, <1>4 DEF Sent, Question, DeadIfKilled, loopVars
  <2>5. Conversation'
        BY <1>1, <1>3, <1>4, <2>1, <2>4 DEF Conversation, Held
  <2> QED BY <1>2, <2>3, <2>5 DEF ObserverInv
<1>5. CASE ~ (held # <<>> /\ answer = <<>>)
  <2>1. TypeOK' /\ DataOK'
        BY <1>1, <1>5 DEF ObserverInv, TypeOK, DataOK, loopVars, outputVars
  <2>2. asked = <<>> \/ Answered
        BY <1>3, <1>5 DEF HalfWay, Held
  <2>3. Conversation'
        BY <1>1, <1>3, <1>5, <2>2 DEF Conversation, Answered, DeadIfKilled, loopVars
  <2> QED BY <1>2, <2>1, <2>3 DEF ObserverInv
<1> QED BY <1>4, <1>5

(* The last worker has gone, the last answer stands.                       *)
LEMMA ReapedKeeps == ObserverInv /\ Reaped => ObserverInv'
<1> SUFFICES ASSUME ObserverInv, Reaped PROVE ObserverInv'
    OBVIOUS
<1>1. /\ phase = "dropping" /\ phase' = "dropped"
      /\ UNCHANGED <<asked, held, answer, pairs, pipeVars, loopVars, outputVars, crashes>>
      BY DEF Reaped
<1>2. ThreadsOK' /\ Capturing' /\ Quiet' /\ Working'
      BY <1>1, ThreadsKept
<1> USE DEF ObserverInv
<1>3. TypeOK' /\ DataOK'
      BY <1>1 DEF TypeOK, DataOK, loopVars, outputVars, pipeVars
<1>4. Conversation'
      BY <1>1 DEF Conversation, Answered
<1> QED BY <1>2, <1>3, <1>4

-----------------------------------------------------------------------------
(* The whole.                                                              *)

(* The invariant holds of the worker just spawned.                         *)
LEMMA InitHolds == Init => ObserverInv
<1> SUFFICES ASSUME Init PROVE ObserverInv
    OBVIOUS
<1> USE DEF Init
<1>1. TypeOK
  <2>1. Len(request) <= 1 /\ Len(responses) \in {0, 2} /\ Len(results) <= 2
        OBVIOUS
  <2>2. Len(threads) = Len(buffers) /\ sysOut \in 0..Len(buffers)
        BY DEF NullStream
  <2>3. held \in Seq(Observations) /\ answer \in Seq(Observations)
        OBVIOUS
  <2>4. pairs \in 0..MaxPairs /\ crashes \in 0..MaxCrashes
        BY BoundsAssumption
  <2> QED BY <2>1, <2>2, <2>3, <2>4 DEF TypeOK
<1>2. DataOK
      BY DEF DataOK
<1>3. ThreadsOK /\ Capturing /\ Quiet /\ Working
      BY DEF ThreadsOK, Capturing, Quiet, NoneRuns, Working, NullStream
<1>4. Conversation
      BY DEF Conversation, DeadIfKilled
<1> QED BY <1>1, <1>2, <1>3, <1>4 DEF ObserverInv

(* Every step of the driver, the worker and the class threads keeps it.    *)
LEMMA StepKeeps == ObserverInv /\ [Next]_vars => ObserverInv'
<1> SUFFICES ASSUME ObserverInv, [Next]_vars PROVE ObserverInv'
    OBVIOUS
<1>1. ASSUME NEW r \in Classes, NEW c \in Classes, Ask(r, c) PROVE ObserverInv'
      BY <1>1, AskKeeps
<1>2. CASE Driver
      BY <1>2, ReadPairKeeps, EndOfPipeKeeps, CloseStdinKeeps, SpawnKeeps, ReadReadyKeeps,
         ReapedKeeps DEF Driver
<1>3. CASE Loop
      BY <1>3, SendReadyKeeps, ReadRequestKeeps, ReadEofKeeps, StartClassKeeps,
         SkipCandidateKeeps, CompletedKeeps, DeadlineKeeps, SnapshotKeeps, ReplyKeeps, HaltKeeps
         DEF Loop
<1>4. CASE Crash
      BY <1>4, CrashKeeps
<1>5. ASSUME NEW k \in DOMAIN threads, ClassThread(k) PROVE ObserverInv'
      BY <1>5, FetchKeeps, WriteLineKeeps, FinishKeeps DEF ClassThread
<1>6. CASE UNCHANGED vars
  <2>1. ThreadsOK' /\ Capturing' /\ Quiet' /\ Working'
        BY <1>6, ThreadsKept DEF vars
  <2>2. Conversation'
        BY <1>6, ConversationKept DEF ObserverInv, vars, loopVars
  <2>3. TypeOK' /\ DataOK'
        BY <1>6 DEF ObserverInv, TypeOK, DataOK, vars, driverVars, pipeVars, loopVars, outputVars
  <2> QED BY <2>1, <2>2, <2>3 DEF ObserverInv
<1> QED BY <1>1, <1>2, <1>3, <1>4, <1>5, <1>6 DEF Next

(* The observer's inductive invariant: threads and buffers, the worker's   *)
(* results, and where the question and its answer are between the two      *)
(* processes (observe.rs, FuzzObserve.java).                               *)
THEOREM ObserverInvariant == Spec => []ObserverInv
<1> QED BY InitHolds, StepKeeps, PTL DEF Spec

(* The types of the observer's state, one request and two observations at  *)
(* most in the pipes included.                                             *)
THEOREM TypeCorrect == Spec => []TypeOK
<1>1. ObserverInv => TypeOK
      BY DEF ObserverInv
<1> QED BY <1>1, ObserverInvariant, PTL

(* The driver panics over its protocol only after a kill of the worker     *)
(* (validate_pair, observe_pair).                                          *)
THEOREM ProtocolHolds == Spec => []NoProtocolError
<1>1. ObserverInv => NoProtocolError
      BY DEF ObserverInv, Conversation, NoProtocolError, TypeOK
<1> QED BY <1>1, ObserverInvariant, PTL

(* Whatever the classes print and however late they are, a buffer holds    *)
(* lines of its own class, in order (runOne).                              *)
THEOREM OutputIsIsolated == Spec => []OutputIsolated
<1>1. ObserverInv => OutputIsolated
  <2> SUFFICES ASSUME ObserverInv PROVE OutputIsolated
      OBVIOUS
  <2>1. DOMAIN buffers = DOMAIN threads
        BY DEF ObserverInv, TypeOK, DataOK
  <2> QED BY <2>1 DEF ObserverInv, ThreadsOK, ThreadOK, OutputIsolated
<1> QED BY <1>1, ObserverInvariant, PTL

-----------------------------------------------------------------------------
(* The refinement.                                                         *)

(* A step of the observer is a question, an honest answer to it, or        *)
(* nothing the fuzzer sees.                                                *)
LEMMA PairStep ==
  ObserverInv /\ ObserverInv' /\ [Next]_vars => [Observer!Next]_(Observer!pairVars)
<1> SUFFICES ASSUME ObserverInv, ObserverInv', [Next]_vars
             PROVE [Observer!Next]_(Observer!pairVars)
    OBVIOUS
<1> DEFINE Shown == IF phase \in {"idle", "dropping", "dropped"} THEN answer ELSE <<>>
<1>1. ASSUME NEW r \in Classes, NEW c \in Classes, Ask(r, c)
      PROVE Observer!Next
  <2>1. phase = "idle" /\ phase' = "awaiting" /\ asked' = <<r, c>>
        BY <1>1 DEF Ask
  <2>2. asked = <<>> \/ Shown # <<>>
        BY <2>1 DEF ObserverInv, Conversation, Answered
  <2> QED BY <2>1, <2>2 DEF Observer!Next, Observer!Ask
<1>2. ASSUME UNCHANGED <<asked, Shown>> PROVE UNCHANGED Observer!pairVars
      BY <1>2 DEF Observer!pairVars
<1>3. ASSUME asked' = asked, phase \in {"awaiting", "spawning"}, phase' = "idle",
             asked \in Classes \X Classes, Answered'
      PROVE Observer!Next
  <2>1. Shown = <<>> /\ Shown' = answer'
        BY <1>3
  <2>2. answer' \in Observer!Honest(asked[1]) \X Observer!Honest(asked[2])
        BY <1>3 DEF Answered
  <2>3. asked # <<>>
        BY <1>3
  <2> QED BY <1>3, <2>1, <2>2, <2>3 DEF Observer!Next, Observer!Answer
<1>4. CASE ReadPair
  <2>1. /\ phase = "awaiting" /\ asked' = asked /\ asked \in Classes \X Classes
        /\ phase' \in {"closing", "idle"} /\ (phase' = "idle" => Answered')
        BY <1>4, ReadPairResult
  <2> QED BY <2>1, <1>2, <1>3
<1>5. CASE ReadReady
  <2>1. /\ phase = "spawning" /\ asked' = asked /\ answer' = answer /\ held' = held
        /\ phase' \in {"awaiting", "idle"}
        /\ phase' = "idle" => ~ (held # <<>> /\ answer = <<>>)
        BY <1>5 DEF ReadReady
  <2>2. phase' = "idle" /\ asked # <<>> => Answered' /\ asked \in Classes \X Classes
        BY <2>1 DEF ObserverInv, Conversation, HalfWay, Held, Answered
  <2>3. asked = <<>> => answer = <<>>
        BY <2>1 DEF ObserverInv, Conversation, HalfWay
  <2> QED BY <2>1, <2>2, <2>3, <1>2, <1>3
<1>6. CASE EndOfPipe \/ CloseStdin \/ Spawn \/ Reaped
      BY <1>6, <1>2 DEF EndOfPipe, CloseStdin, Spawn, Reaped
<1>7. CASE Loop
      BY <1>7, <1>2 DEF Loop, SendReady, ReadRequest, ReadEof, StartClass, SkipCandidate,
         Completed, Deadline, Snapshot, Reply, Halt, driverVars
<1>8. CASE Crash
      BY <1>8, <1>2 DEF Crash, driverVars
<1>9. ASSUME NEW k \in DOMAIN threads, ClassThread(k) PROVE UNCHANGED Observer!pairVars
      BY <1>9, <1>2 DEF ClassThread, Fetch, WriteLine, Finish, driverVars
<1>10. CASE UNCHANGED vars
      BY <1>10, <1>2 DEF vars, driverVars
<1> QED BY <1>1, <1>4, <1>5, <1>6, <1>7, <1>8, <1>9, <1>10 DEF Next, Driver

(* The observer keeps the safety half of its promise: what it answers is   *)
(* what the two classes do, in the order they were asked about, through    *)
(* timeouts, the reversed question, restarts and kills (observe_pair).     *)
THEOREM AnswersAreHonest == Spec => AnswersHonestly
<1>1. Init => Observer!Init
      BY DEF Init, Observer!Init
<1> QED BY <1>1, PairStep, ObserverInvariant, PTL DEF Spec, AnswersHonestly, Observer!Safety

=============================================================================
