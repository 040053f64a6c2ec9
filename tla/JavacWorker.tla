---------------------------- MODULE JavacWorker ----------------------------
(***************************************************************************)
(* The reference compiler of the fuzzer: a JVM that compiles one batch of  *)
(* units after another (tools/FuzzJavac.java), driven in lock step over    *)
(* two pipes (fuzz/javac.rs).  It answers with the classes javac opened;   *)
(* a unit without one counts as rejected.  javac itself is external: it    *)
(* compiles the accepted units in order, and it may blow up.               *)
(***************************************************************************)
EXTENDS Integers, Sequences, SequencesExt

CONSTANT MaxFaults   \* bound: failures of javac or of its JVM

VARIABLES
  stdin,     \* the requests in the pipe to the worker
  stdout,    \* the responses in the pipe from it
  jvm,       \* "reading", "compiling", "exited" or "dead"
  todo,      \* the units javac has still to compile
  outputs,   \* MemFileManager.out: the classes opened, in order
  faults

workerVars == <<stdin, stdout, jvm, todo, outputs, faults>>

WorkerInit ==
  /\ stdin = <<>> /\ stdout = <<>>
  /\ jvm = "reading" /\ todo = <<>> /\ outputs = <<>>
  /\ faults = 0

(* The bytes of a class: those of the reference, or none yet.              *)
Opened(name) == [name |-> name, bytes |-> "empty"]

-----------------------------------------------------------------------------
(* The driver's end. *)

Request(units) ==
  /\ stdin' = Append(stdin, units)
  /\ UNCHANGED <<stdout, jvm, todo, outputs, faults>>

Receive ==
  /\ stdout # <<>>
  /\ stdout' = Tail(stdout)
  /\ UNCHANGED <<stdin, jvm, todo, outputs, faults>>

(* The map of a response: of two classes of one name the later one stays.  *)
Collected(response) ==
  [name \in {c.name : c \in ToSet(response)} |->
     LET last == CHOOSE i \in DOMAIN response :
                   /\ response[i].name = name
                   /\ \A j \in DOMAIN response : response[j].name = name => j <= i
     IN response[last].bytes]

PipeBroken == jvm = "dead" /\ stdout = <<>>

-----------------------------------------------------------------------------
(* The worker. *)

ReadUnits ==
  /\ jvm = "reading" /\ stdin # <<>>
  /\ todo' = Head(stdin)
  /\ stdin' = Tail(stdin)
  /\ outputs' = <<>>
  /\ jvm' = "compiling"
  /\ UNCHANGED <<stdout, faults>>

ReadEof ==
  /\ jvm = "reading" /\ stdin = <<>>
  /\ jvm' = "exited"
  /\ UNCHANGED <<stdin, stdout, todo, outputs, faults>>

Compiling == jvm = "compiling" /\ todo # <<>>
IsOpen == outputs # <<>> /\ Last(outputs) = Opened(Head(todo).name)

RejectUnit ==
  /\ Compiling /\ Head(todo).javac = "rejects"
  /\ todo' = Tail(todo)
  /\ UNCHANGED <<stdin, stdout, jvm, outputs, faults>>

(* getJavaFileForOutput enters the class in the map...                     *)
OpenClass ==
  /\ Compiling /\ Head(todo).javac = "accepts" /\ ~ IsOpen
  /\ outputs' = Append(outputs, Opened(Head(todo).name))
  /\ UNCHANGED <<stdin, stdout, jvm, todo, faults>>

(* ... before javac writes a byte of it.                                   *)
WriteClass ==
  /\ Compiling /\ IsOpen
  /\ outputs' = [outputs EXCEPT ![Len(outputs)].bytes = "ref"]
  /\ todo' = Tail(todo)
  /\ UNCHANGED <<stdin, stdout, jvm, faults>>

(* A RuntimeException out of the task is swallowed.                        *)
Swallow ==
  /\ Compiling /\ faults < MaxFaults
  /\ todo' = <<>>
  /\ faults' = faults + 1
  /\ UNCHANGED <<stdin, stdout, jvm, outputs>>

Respond ==
  /\ jvm = "compiling" /\ todo = <<>>
  /\ stdout' = Append(stdout, outputs)
  /\ jvm' = "reading"
  /\ UNCHANGED <<stdin, todo, outputs, faults>>

(* Any other Throwable, or a kill from outside, ends the process.          *)
Die ==
  /\ jvm \in {"reading", "compiling"} /\ faults < MaxFaults
  /\ jvm' = "dead"
  /\ faults' = faults + 1
  /\ UNCHANGED <<stdin, stdout, todo, outputs>>

Work == ReadUnits \/ RejectUnit \/ OpenClass \/ WriteClass \/ Respond

=============================================================================
