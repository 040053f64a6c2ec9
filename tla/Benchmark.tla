----------------------------- MODULE Benchmark -----------------------------
(***************************************************************************)
(* Invocations of the benchmark (benchmark/main.rs, correctness.rs,        *)
(* measurement.rs), one after another or at the same time, while sources   *)
(* are edited: recording golden classes, comparing njavac with them or     *)
(* with a live javac, and measuring both and publishing a report.  The     *)
(* compilers are external processes, run once over all fixtures; they may  *)
(* fail, or leave a class out, and so may operations on files fail.        *)
(*                                                                         *)
(* An invocation goes through a plan of tasks, each over all fixtures.     *)
(***************************************************************************)
EXTENDS ReportPublication, Sequences

CONSTANTS
  Fixtures,       \* how many there are, in the order of discover_fixtures
  Slots,          \* output directories; invocations at one time share none,
                  \* and only one of them records goldens
  Wrong,          \* the versions of a source that njavac miscompiles
  MaxEdits,       \* bound: edits of sources
  MaxFaults       \* bound: failures of compilers and files, and kills

(* discover_fixtures turns down a directory without any.                   *)
ASSUME FixturesAssumption == Fixtures \in Nat \ {0}

VARIABLES
  source,    \* the version of each fixture
  dir,       \* the classes in each directory
  inv,       \* the invocations
  edits, faults

benchVars == <<source, dir, inv, edits, faults>>
vars == <<benchVars, pubVars>>

Modes == {"record", "offline", "live", "report"}
Compilers == {"javac", "njavac"}
Dirs == {<<"golden">>} \cup (Slots \X Compilers)
Golden == <<"golden">>

NoClass == <<>>
Class(compiler, version) ==
  <<version, IF compiler = "njavac" /\ version \in Wrong THEN "wrong" ELSE "reference">>

Idle == [mode |-> "none", slot |-> "none", task |-> 0, k |-> 1, mismatch |-> FALSE,
         exit |-> "none", made |-> [c \in Compilers |-> [f \in 1..Fixtures |-> 0]]]

Init ==
  /\ source = [f \in 1..Fixtures |-> 1]
  /\ dir = [d \in Dirs |-> [f \in 1..Fixtures |-> NoClass]]
  /\ inv = [i \in Writers |-> Idle]
  /\ edits = 0 /\ faults = 0
  /\ PubInit

-----------------------------------------------------------------------------
(* The plans. *)

Remove(dirs) == [do |-> "remove", dirs |-> dirs]
Compile(compiler, into) == [do |-> "compile", compiler |-> compiler, into |-> into]
Check(d) == [do |-> "check", in |-> d]
Compare(expected, actual) == [do |-> "compare", expected |-> expected, actual |-> actual]

Measure(compiler, d) == << Remove({d}), Compile(compiler, d), Check(d) >>

Plan(mode, slot) ==
  LET javac == <<slot, "javac">>
      njavac == <<slot, "njavac">>
  IN CASE mode = "record" -> Measure("javac", Golden)
       [] mode = "offline" ->
            << Remove({njavac}), Compile("njavac", njavac), Compare(Golden, njavac) >>
       [] mode = "live" ->
            << Remove({njavac, javac}), Compile("javac", javac), Compile("njavac", njavac),
               Compare(javac, njavac) >>
       [] mode = "report" ->
            << [do |-> "preflight"] >> \o Measure("javac", javac)
              \o Measure("njavac", njavac) \o << [do |-> "publish"] >>

Running(i) == inv[i].exit = "running"
PlanOf(i) == Plan(inv[i].mode, inv[i].slot)
Task(i) == PlanOf(i)[inv[i].task]
Doing(i, what) == Running(i) /\ Task(i).do = what

Exit(i, code) == inv' = [inv EXCEPT ![i].exit = code]

(* The next fixture, or the next task, or the end of the plan.             *)
Advanced(r, plan) ==
  IF r.k < Fixtures /\ plan[r.task].do \notin {"preflight", "publish"} THEN [r EXCEPT !.k = @ + 1]
  ELSE IF r.task < Len(plan) THEN [r EXCEPT !.task = @ + 1, !.k = 1]
  ELSE [r EXCEPT !.exit = IF r.mismatch THEN "failure" ELSE "success"]
Advance(i, r) == inv' = [inv EXCEPT ![i] = Advanced(r, PlanOf(i))]

-----------------------------------------------------------------------------
(* The steps. *)

Start(i) ==
  /\ inv[i] = Idle
  /\ \E mode \in Modes, slot \in Slots :
       /\ \A j \in Writers : Running(j) =>
            inv[j].slot # slot /\ "record" \notin {mode} \cap {inv[j].mode}
       /\ inv' = [inv EXCEPT ![i].mode = mode, ![i].slot = slot, ![i].task = 1,
                             ![i].exit = "running"]
  /\ UNCHANGED <<source, dir, edits, faults, pubVars>>

(* Mutant of RemoveOne: outputs are left to be overwritten.                *)
RemoveNone(i) ==
  /\ Doing(i, "remove")
  /\ Advance(i, inv[i])
  /\ UNCHANGED <<source, dir, edits, faults, pubVars>>

(* remove_if_exists, for one fixture.                                      *)
RemoveOne(i) ==
  /\ Doing(i, "remove")
  /\ dir' = [d \in Dirs |-> IF d \in Task(i).dirs
                            THEN [dir[d] EXCEPT ![inv[i].k] = NoClass] ELSE dir[d]]
  /\ Advance(i, inv[i])
  /\ UNCHANGED <<source, edits, faults, pubVars>>

(* A compiler reads one source and writes its class...                     *)
CompileOne(i) ==
  /\ Doing(i, "compile")
  /\ LET f == inv[i].k
         t == Task(i)
     IN /\ dir' = [dir EXCEPT ![t.into][f] = Class(t.compiler, source[f])]
        /\ Advance(i, [inv[i] EXCEPT !.made[t.compiler][f] = source[f]])
  /\ UNCHANGED <<source, edits, faults, pubVars>>

(* ... or leaves it out and goes on, or fails, or cannot be started.       *)
CompilerFault(i) ==
  /\ Doing(i, "compile") /\ faults < MaxFaults
  /\ Advance(i, inv[i]) \/ Exit(i, "failure")
  /\ faults' = faults + 1
  /\ UNCHANGED <<source, dir, edits, pubVars>>

CheckOne(i) ==
  /\ Doing(i, "check")
  /\ IF dir[Task(i).in][inv[i].k] # NoClass THEN Advance(i, inv[i]) ELSE Exit(i, "failure")
  /\ UNCHANGED <<source, dir, edits, faults, pubVars>>

CompareOne(i) ==
  /\ Doing(i, "compare")
  /\ LET expected == dir[Task(i).expected][inv[i].k]
         actual == dir[Task(i).actual][inv[i].k]
     IN IF NoClass \in {expected, actual} THEN Exit(i, "failure")
        ELSE Advance(i, [inv[i] EXCEPT !.mismatch = @ \/ expected # actual])
  /\ UNCHANGED <<source, dir, edits, faults, pubVars>>

(* A class cannot be removed, or not be read although it is there.         *)
FileFault(i) ==
  /\ Running(i) /\ Task(i).do \in {"remove", "check", "compare"} /\ faults < MaxFaults
  /\ Exit(i, "failure")
  /\ faults' = faults + 1
  /\ UNCHANGED <<source, dir, edits, pubVars>>

PreflightReport(i) ==
  /\ Doing(i, "preflight")
  /\ Preflight(i) \/ Probe(i) \/ RemoveProbe(i)
  /\ CASE pub'[i] = "ready" -> Advance(i, inv[i])
       [] pub'[i] = "failed" -> Exit(i, "failure")
       [] OTHER -> UNCHANGED inv
  /\ UNCHANGED <<source, dir, edits, faults>>

PublishReport(i) ==
  /\ Doing(i, "publish")
  /\ PublishStep(i)
  /\ CASE pub'[i] = "published" -> Advance(i, inv[i])
       [] pub'[i] = "failed" -> Exit(i, "failure")
       [] OTHER -> UNCHANGED inv
  /\ UNCHANGED <<source, dir, edits, faults>>

(* An attribution or a document that is not valid.                         *)
AbandonReport(i) ==
  /\ Doing(i, "publish") /\ Abandon(i)
  /\ Exit(i, "failure")
  /\ UNCHANGED <<source, dir, edits, faults>>

Kill(i) ==
  /\ Running(i) /\ faults < MaxFaults
  /\ Exit(i, "killed")
  /\ Killed(i)
  /\ faults' = faults + 1
  /\ UNCHANGED <<source, dir, edits>>

Edit ==
  /\ edits < MaxEdits
  /\ \E f \in 1..Fixtures : source' = [source EXCEPT ![f] = @ + 1]
  /\ edits' = edits + 1
  /\ UNCHANGED <<dir, inv, faults, pubVars>>

Next ==
  \/ \E i \in Writers :
       \/ Start(i) \/ RemoveOne(i) \/ CompileOne(i) \/ CompilerFault(i) \/ CheckOne(i)
       \/ CompareOne(i) \/ FileFault(i) \/ PreflightReport(i) \/ PublishReport(i)
       \/ AbandonReport(i) \/ Kill(i)
  \/ Edit

Spec == Init /\ [][Next]_vars

-----------------------------------------------------------------------------
(* Properties. *)

(* Success is true: whatever earlier invocations left behind and whoever   *)
(* runs at the same time, a comparison that passes has compared, for every *)
(* fixture, a class njavac made just now, and it is the one javac makes of *)
(* the source njavac read; and a recording or a measurement that succeeds  *)
(* has had every fixture compiled (correctness, record_goldens,            *)
(* measure_compiler).                                                      *)
Compiled(mode) ==
  CASE mode = "record" -> {"javac"} [] mode = "offline" -> {"njavac"} [] OTHER -> Compilers
SuccessIsTrue ==
  \A i \in Writers : inv[i].exit = "success" =>
    \A f \in 1..Fixtures :
      /\ \A c \in Compiled(inv[i].mode) : inv[i].made[c][f] # 0
      /\ inv[i].mode \in {"offline", "live"} => inv[i].made["njavac"][f] \notin Wrong
      /\ inv[i].mode = "live" => inv[i].made["javac"][f] = inv[i].made["njavac"][f]

-----------------------------------------------------------------------------
(* Why success is true: what BenchmarkProofs carries from step to step.    *)

Invocation ==
  [mode : Modes \cup {"none"}, slot : Slots \cup {"none"}, task : Nat, k : Nat,
   mismatch : BOOLEAN, exit : {"none", "running", "success", "failure", "killed"},
   made : [Compilers -> [1..Fixtures -> Nat]]]

(* Invocations that have not failed are at a task of their plan.           *)
Good(r) == r.exit \in {"running", "success"}
Placed(r) ==
  /\ r.mode \in Modes /\ r.slot \in Slots
  /\ r.task \in 1..Len(Plan(r.mode, r.slot)) /\ r.k \in 1..Fixtures
  /\ r.exit = "success" => ~ r.mismatch

TypesOK ==
  /\ source \in [1..Fixtures -> Nat \ {0}]
  /\ inv \in [Writers -> Invocation]
  /\ \A i \in Writers : Good(inv[i]) => Placed(inv[i])
  /\ DOMAIN dir = Dirs /\ \A d \in Dirs : DOMAIN dir[d] = 1..Fixtures

(* Every directory has one compiler, and holds its classes only.           *)
MakerOf(d) == IF d = Golden THEN "javac" ELSE d[2]
DirsOK ==
  \A d \in Dirs, f \in 1..Fixtures :
    dir[d][f] # NoClass =>
      dir[d][f][1] \in Nat \ {0} /\ dir[d][f] = Class(MakerOf(d), dir[d][f][1])

(* Running invocations share no directory that one of them writes.         *)
Exclusive ==
  \A i, j \in Writers : Running(i) /\ Running(j) /\ i # j =>
    inv[i].slot # inv[j].slot /\ "record" \notin {inv[i].mode} \cap {inv[j].mode}

(* Where an invocation puts the classes of a compiler, and the tasks that  *)
(* remove the old ones and look at the new ones.                           *)
Output(r, c) == IF r.mode = "record" THEN Golden ELSE <<r.slot, c>>
RemoveAt(mode, c) == IF mode # "report" THEN 1 ELSE IF c = "javac" THEN 2 ELSE 5
CheckAt(mode, c) ==
  CASE mode = "live" -> 4
    [] mode = "report" -> IF c = "javac" THEN 4 ELSE 7
    [] OTHER -> 3
Past(r, n, f) == r.task > n \/ (r.task = n /\ f < r.k) \/ r.exit = "success"

(* Old classes are gone before the compilers run...                        *)
Fresh(r, c, f) ==
  LET class == dir[Output(r, c)][f]
  IN Past(r, RemoveAt(r.mode, c), f) /\ class # NoClass =>
       r.made[c][f] # 0 /\ class = Class(c, r.made[c][f])
(* ... so that a class found has been made, and of what was compiled.      *)
Found(r, c, f) == Past(r, CheckAt(r.mode, c), f) => r.made[c][f] # 0
Same(r, f) ==
  r.mode \in {"offline", "live"} /\ Past(r, CheckAt(r.mode, "njavac"), f) /\ ~ r.mismatch =>
    /\ r.made["njavac"][f] \notin Wrong
    /\ r.mode = "live" => r.made["javac"][f] = r.made["njavac"][f]

BenchInv ==
  /\ TypesOK /\ DirsOK /\ Exclusive
  /\ \A i \in Writers, f \in 1..Fixtures :
       /\ \A c \in Compiled(inv[i].mode) :
            /\ Running(i) => Fresh(inv[i], c, f)
            /\ Good(inv[i]) => Found(inv[i], c, f)
       /\ Good(inv[i]) => Same(inv[i], f)

=============================================================================
