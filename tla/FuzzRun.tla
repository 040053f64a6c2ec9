------------------------------ MODULE FuzzRun ------------------------------
(***************************************************************************)
(* A run of the fuzzer (fuzz/run.rs, oracle.rs, finding.rs): batches of    *)
(* generated programs go to the javac worker, every program is compiled by *)
(* njavac as well and judged, classes that differ are run by the observer, *)
(* of which only the promise (PairObserver) is used, and the tallies       *)
(* become an exit code.  The disk may refuse any file, and the observer    *)
(* may break, like the worker; standard output stays open.                 *)
(***************************************************************************)
EXTENDS JavacWorker, FiniteSetsExt

CONSTANTS
  Count,             \* programs asked for
  Batches,           \* the batch sizes
  Cases,             \* what javac does with a program, and njavac: an error or a class
  ScheduledCount,    \* the first programs are guaranteed coverage
  UnsupportedCap,    \* unsupported programs dumped (20)
  Classes, Prints, Ending,   \* see PairObserver
  Text,              \* what a class prints
  Structure          \* where a candidate differs from the reference

CompilerErrors == {"unsupported", "syntax", "panic"}

ASSUME RunAssumption ==
  /\ Count \in Nat /\ Batches \subseteq Nat \ {0} /\ ScheduledCount \in Nat
  /\ {"ref", "empty"} \subseteq Classes /\ CompilerErrors \cap Classes = {}
  /\ Prints \in [Classes -> Nat]
  /\ Cases \subseteq [javac : {"accepts", "rejects"},
                    njavac : CompilerErrors \cup (Classes \ {"empty"})]

VARIABLES
  cfg,           \* batch and keep_going
  phase,         \* what the loop is at
  progs,         \* the programs generated so far
  n, k,          \* programs done in earlier batches, position in this one
  classes,       \* the classes of the batch, by name
  tally,
  byteSigs, behaviorSigs,    \* by signature: count and example
  reports,       \* the sources written: directory and program
  exit,          \* Running, or the exit code
  asked, answer, \* the observer
  observer,      \* "up", or "lost" when it broke or could not be started
  unwritten,     \* history: sources the disk refused
  doubtful       \* history: cases whose class was lost, or observed late

runVars == <<cfg, phase, progs, n, k, classes, tally, byteSigs, behaviorSigs,
             reports, exit, observer, unwritten, doubtful>>
pairVars == <<asked, answer>>
vars == <<runVars, pairVars, workerVars>>

Observer == INSTANCE PairObserver

Running == -1
Panicked == 101

Tally == [f \in {"scheduled", "scheduledFailures", "exact", "byteDivergent",
                 "behaviorMatch", "generatorInvalid", "unsupported", "syntax",
                 "panic", "findings"} |-> 0]

Init ==
  /\ cfg \in [batch : Batches, keepGoing : BOOLEAN]
  /\ phase = "batching" /\ progs = <<>> /\ n = 0 /\ k = 0 /\ classes = <<>>
  /\ tally = Tally /\ byteSigs = <<>> /\ behaviorSigs = <<>> /\ reports = {}
  /\ exit = Running /\ observer = "up" /\ unwritten = {} /\ doubtful = {}
  /\ Observer!Init
  /\ WorkerInit

(* The process unwinds; what it was about to do is not done.               *)
Panic == phase' = "over" /\ exit' = Panicked

-----------------------------------------------------------------------------
(* Batches. *)

This == Min({cfg.batch, Count - n})

Prog(i, case) ==
  [name |-> i, scheduled |-> i <= ScheduledCount, javac |-> case.javac, njavac |-> case.njavac]

(* The whole batch is generated and sent before either compiler sees it.   *)
Generate ==
  /\ phase = "batching" /\ n < Count
  /\ \E cases \in [1..This -> Cases] :
       LET batch == [i \in 1..This |-> Prog(n + i, cases[i])]
       IN progs' = progs \o batch /\ Request(batch)
  /\ phase' = "awaiting"
  /\ UNCHANGED <<cfg, n, k, classes, tally, byteSigs, behaviorSigs, reports,
                 exit, observer, unwritten, doubtful, pairVars>>

(* A class of no program of the batch is an assertion.                     *)
TakeClasses ==
  /\ phase = "awaiting"
  /\ Receive
  /\ classes' = Collected(Head(stdout))
  /\ IF DOMAIN classes' \subseteq n + 1..n + This
     THEN phase' = "judging" /\ k' = 1 /\ UNCHANGED exit
     ELSE Panic /\ UNCHANGED k
  /\ UNCHANGED <<cfg, progs, n, tally, byteSigs, behaviorSigs, reports,
                 observer, unwritten, doubtful, pairVars>>

(* compile_batch panics: "javac worker protocol error".                    *)
LoseWorker ==
  /\ phase = "awaiting" /\ PipeBroken
  /\ Panic
  /\ UNCHANGED <<cfg, progs, n, k, classes, tally, byteSigs, behaviorSigs,
                 reports, observer, unwritten, doubtful, pairVars, workerVars>>

-----------------------------------------------------------------------------
(* Judging one program. *)

Case == progs[n + k]
Want == IF Case.name \in DOMAIN classes THEN classes[Case.name] ELSE "missing"

ClassifyCandidateFirst(want, got) ==   \* mutant: njavac's error dominates
  IF got \in CompilerErrors THEN got
  ELSE IF want = "missing" THEN "generatorInvalid"
  ELSE IF got = want THEN "exact" ELSE "divergent"

(* A rejection by javac dominates whatever njavac did.                     *)
Classify(want, got) ==
  IF want = "missing" THEN "generatorInvalid"
  ELSE IF got \in CompilerErrors THEN got
  ELSE IF got = want THEN "exact" ELSE "divergent"

Outcome == Classify(Want, Case.njavac)

Counted(fields) == [f \in DOMAIN tally |-> tally[f] + IF f \in fields THEN 1 ELSE 0]
Scheduled == IF Case.scheduled THEN {"scheduled"} ELSE {}
CoverageFailed == IF Case.scheduled THEN {"scheduledFailures"} ELSE {}

FilesIn(dirs) == {<<dir, Case.name>> : dir \in dirs}

(* The directory is created and the source written, or not: the errors of  *)
(* both are dropped.                                                       *)
Report(dirs) ==
  \E refused \in SUBSET dirs :
    /\ reports' = reports \cup FilesIn(dirs \ refused)
    /\ unwritten' = unwritten \cup FilesIn(refused)

Attempts == reports \cup unwritten

WithSig(sigs, sig) ==
  LET example == IF sig \in DOMAIN sigs THEN sigs[sig].example ELSE Case.name
      count == IF sig \in DOMAIN sigs THEN sigs[sig].count ELSE 0
  IN [s \in DOMAIN sigs \cup {sig} |->
        IF s = sig THEN [count |-> count + 1, example |-> example] ELSE sigs[s]]

(* The next program, or the next batch; or, after a hard finding, the end. *)
Proceed(hard) ==
  IF hard /\ ~ cfg.keepGoing THEN phase' = "stopping" /\ UNCHANGED <<n, k>>
  ELSE IF k < This THEN phase' = "judging" /\ k' = k + 1 /\ UNCHANGED n
  ELSE phase' = "batching" /\ n' = n + This /\ k' = 0

(* javac failed before the class of the program was written.               *)
ClassLost == faults > 0 /\ Case.javac = "accepts" /\ Want # "ref"

Judging(outcome) ==
  /\ phase = "judging" /\ Outcome = outcome
  /\ doubtful' = IF ClassLost THEN doubtful \cup {Case.name} ELSE doubtful
  /\ UNCHANGED <<cfg, progs, classes, exit, observer, workerVars>>

JudgeInvalid ==
  /\ Judging("generatorInvalid")
  /\ tally' = Counted({"generatorInvalid"} \cup Scheduled \cup CoverageFailed)
  /\ Report(IF Case.scheduled THEN {"scheduled-generator-invalid"} ELSE {})
  /\ Proceed(Case.scheduled)
  /\ UNCHANGED <<byteSigs, behaviorSigs, pairVars>>

(* unsupported_dumped counts the attempts.                                 *)
Dumped == {r \in Attempts : r[1] = "unsupported"}

JudgeUnsupported ==
  /\ Judging("unsupported")
  /\ tally' = Counted({"unsupported"} \cup Scheduled \cup CoverageFailed)
  /\ Report((IF Cardinality(Dumped) < UnsupportedCap THEN {"unsupported"} ELSE {})
              \cup (IF Case.scheduled THEN {"scheduled-unsupported"} ELSE {}))
  /\ Proceed(Case.scheduled)
  /\ UNCHANGED <<byteSigs, behaviorSigs, pairVars>>

JudgeCompilerFinding ==
  \E kind \in {"syntax", "panic"} :
    /\ Judging(kind)
    /\ tally' = Counted({kind} \cup Scheduled)
    /\ Report({kind})
    /\ Proceed(TRUE)
    /\ UNCHANGED <<byteSigs, behaviorSigs, pairVars>>

JudgeExact ==
  /\ Judging("exact")
  /\ tally' = Counted({"exact"} \cup Scheduled)
  /\ Proceed(FALSE)
  /\ UNCHANGED <<byteSigs, behaviorSigs, reports, unwritten, pairVars>>

(* Bytes differ: ask the observer (finding_sig, observe_pair).             *)
ObserveDivergent ==
  /\ Judging("divergent")
  /\ tally' = Counted({"byteDivergent"} \cup Scheduled)
  /\ byteSigs' = WithSig(byteSigs, Structure[Case.njavac])
  /\ Observer!Ask(Want, Case.njavac)
  /\ phase' = "observing"
  /\ UNCHANGED <<n, k, behaviorSigs, reports, unwritten>>

AnswerPair == Observer!Answer /\ UNCHANGED <<runVars, workerVars>>

(* spawn_process and observe_pair panic: the observer does not come up, or *)
(* the conversation with it breaks.                                        *)
LoseObserver ==
  /\ phase = "observing" /\ answer = <<>>
  /\ observer' = "lost" /\ Panic
  /\ UNCHANGED <<cfg, progs, n, k, classes, tally, byteSigs, behaviorSigs,
                 reports, unwritten, doubtful, pairVars, workerVars>>

(* What of an observation is compared: the ending and the text printed.    *)
Observed(o) ==
  [termination |-> o.status,
   stdout |-> [i \in DOMAIN o.out |-> <<Text[o.out[i][1]], o.out[i][2]>>]]

Fields == {"termination", "stdout"}
BehaviorSig == {f \in Fields : Observed(answer[1])[f] # Observed(answer[2])[f]}

Late == \E i \in 1..2 : answer[i].status = "TimedOut"

Observing(match) ==
  /\ phase = "observing" /\ answer # <<>>
  /\ match <=> BehaviorSig = {}
  /\ doubtful' = IF Late THEN doubtful \cup {Case.name} ELSE doubtful
  /\ UNCHANGED <<cfg, progs, classes, byteSigs, observer, pairVars, workerVars>>

JudgeMatch ==
  /\ Observing(TRUE)
  /\ tally' = Counted({"behaviorMatch"})
  /\ Proceed(FALSE)
  /\ UNCHANGED <<behaviorSigs, reports, unwritten, exit>>

CountBehavior ==
  /\ Observing(FALSE)
  /\ tally' = Counted({"findings"})
  /\ behaviorSigs' = WithSig(behaviorSigs, BehaviorSig)

NewBehavior == BehaviorSig \notin DOMAIN behaviorSigs

(* Mutant: the first finding of a byte signature is written down.           *)
JudgeBehaviorByBytes ==
  /\ CountBehavior
  /\ reports' = reports \cup
       FilesIn(IF byteSigs[Structure[Case.njavac]].count > 1 THEN {} ELSE {"behavior"})
  /\ Proceed(TRUE)
  /\ UNCHANGED <<unwritten, exit>>

(* Only the first finding of a signature is written down.                  *)
JudgeBehavior ==
  /\ CountBehavior
  /\ reports' = reports \cup FilesIn(IF NewBehavior THEN {"behavior"} ELSE {})
  /\ Proceed(TRUE)
  /\ UNCHANGED <<unwritten, exit>>

(* ... and when it cannot be, the run panics: "write finding source".      *)
LoseBehavior ==
  /\ CountBehavior /\ NewBehavior
  /\ unwritten' = unwritten \cup FilesIn({"behavior"})
  /\ Panic
  /\ UNCHANGED <<n, k, reports>>

-----------------------------------------------------------------------------
(* The end of the run. *)

HasHardFindingsNoScheduled ==   \* mutant: a failed scheduled case is none
  tally.findings > 0 \/ tally.syntax > 0 \/ tally.panic > 0
HasHardFindings ==
  \/ tally.scheduledFailures > 0 \/ tally.findings > 0
  \/ tally.syntax > 0 \/ tally.panic > 0

(* summary asserts in a debug build that every divergence was judged.      *)
ExitWith(code) ==
  /\ exit' = IF tally.byteDivergent = tally.behaviorMatch + tally.findings
             THEN code ELSE Panicked
  /\ phase' = "over"
  /\ UNCHANGED <<cfg, progs, n, k, classes, tally, byteSigs, behaviorSigs,
                 reports, observer, unwritten, doubtful, pairVars, workerVars>>

FinishAndExit == phase = "stopping" /\ ExitWith(1)

Summarize ==
  /\ phase = "batching" /\ n >= Count
  /\ ExitWith(IF HasHardFindings THEN 1 ELSE 0)

Driver ==
  \/ Generate \/ TakeClasses \/ LoseWorker
  \/ JudgeInvalid \/ JudgeUnsupported \/ JudgeCompilerFinding \/ JudgeExact
  \/ ObserveDivergent \/ JudgeMatch \/ JudgeBehavior \/ LoseBehavior
  \/ FinishAndExit \/ Summarize

(* The worker sees the end of its input when the driver is gone.           *)
Worker ==
  /\ Work \/ Swallow \/ Die \/ (exit # Running /\ ReadEof)
  /\ UNCHANGED <<runVars, pairVars>>

Next == Driver \/ AnswerPair \/ LoseObserver \/ Worker

(* The driver goes on, an observer that does not break answers             *)
(* (PairObserver's promise), and a worker that lives compiles its batch.   *)
(* Nothing makes them fail.                                                *)
Fairness ==
  /\ WF_vars(Driver)
  /\ WF_vars(AnswerPair)
  /\ WF_vars(Work /\ UNCHANGED <<runVars, pairVars>>)

Spec == Init /\ [][Next]_vars /\ Fairness

-----------------------------------------------------------------------------
(* Properties. *)

(* The run keeps the promise of Campaign: each case is judged once, the    *)
(* first hard finding stops a run that is not told to keep going, the exit *)
(* code is 1 exactly after one, and the run ends (run, has_hard_findings). *)
Judged ==
  [ pass |-> tally.exact,
    telemetry |-> tally.behaviorMatch + tally.generatorInvalid + tally.unsupported
                    - tally.scheduledFailures,
    hard |-> tally.findings + tally.syntax + tally.panic + tally.scheduledFailures ]
Ended == CASE exit = Running -> "running" [] exit = 0 -> "success"
           [] exit = 1 -> "failure" [] OTHER -> "crashed"

Promise == INSTANCE Campaign
  WITH keepGoing <- cfg.keepGoing, judged <- Judged, outcome <- Ended
Implements == Promise!Spec

(* What the programs themselves are, whatever the run made of them.        *)
BehavesLikeRef(c) ==
  /\ Prints[c] = Prints["ref"] /\ Ending[c] = Ending["ref"]
  /\ Prints[c] = 0 \/ Text[c] = Text["ref"]
HardCase(p) ==
  \/ p.scheduled /\ (p.javac = "rejects" \/ p.njavac = "unsupported")
  \/ /\ p.javac = "accepts"
     /\ \/ p.njavac \in {"syntax", "panic"}
        \/ p.njavac \in Classes /\ ~ BehavesLikeRef(p.njavac)

(* The exit code is true of the programs, not only of the tallies: success *)
(* means that all were judged and none is a miscompilation, a needless     *)
(* rejection, a panic or a failed scheduled case; failure, that one is;    *)
(* both also when findings could not be written down.  A panic (101) is    *)
(* never a verdict: the worker died, the observer was lost, or the source  *)
(* of a behavior finding was refused by the disk; neither the assertion of *)
(* summary nor the one about stray classes fires.                          *)
(* Two sorts of cases are excepted, because the code judges them wrongly   *)
(* or by chance: those whose own class was lost in a failure of javac,     *)
(* taken for rejections, and those observed up to a deadline only          *)
(* (run, classify, summary, assert_batch_classes).                         *)
Judgeable == {i \in DOMAIN progs : i \notin doubtful}
Infrastructure ==
  jvm = "dead" \/ observer = "lost" \/ \E file \in unwritten : file[1] = "behavior"
ExitHonest ==
  /\ exit = 0 => /\ Len(progs) = Count
                 /\ \A i \in Judgeable : ~ HardCase(progs[i])
  /\ exit = 1 => doubtful # {} \/ \E i \in Judgeable : HardCase(progs[i])
  /\ exit = Panicked => Infrastructure

(* What is counted as a finding is lost on disk only where the disk refuses *)
(* it: each compiler finding was written, or refused, under a name of its  *)
(* own; the example of each distinct behavior signature is on disk, or the *)
(* run panicked over it; and the signatures add up to the tallies          *)
(* (report_finding, report_compiler_finding, print_sig_breakdown).         *)
ExamplesKept ==
  \A s \in DOMAIN behaviorSigs :
    LET file == <<"behavior", behaviorSigs[s].example>>
    IN file \in reports \/ (file \in unwritten /\ exit = Panicked)

OwnDirs == {"syntax", "panic", "scheduled-generator-invalid", "scheduled-unsupported"}
OwnFiles == {r \in Attempts : r[1] \in OwnDirs}
EachWritten ==
  Cardinality(OwnFiles) = tally.syntax + tally.panic + tally.scheduledFailures

Counts(sigs) == [s \in DOMAIN sigs |-> sigs[s].count]
SumOfCounts(sigs) == SumFunction(Counts(sigs))
SumsAgree ==
  /\ SumOfCounts(behaviorSigs) = tally.findings
  /\ SumOfCounts(byteSigs) = tally.byteDivergent

FindingsKept == ExamplesKept /\ EachWritten /\ SumsAgree

-----------------------------------------------------------------------------
(* The inductive invariant behind the first three of these properties.     *)

Batch == n + 1..Len(progs)      \* the programs at hand

(* A program is with the observer, or was when that was lost.              *)
Undecided == phase = "observing" \/ observer = "lost"

(* How many programs have their verdict.                                   *)
Settled == IF phase = "judging" \/ Undecided THEN n + k - 1 ELSE n + k

Program == [name : Nat, scheduled : BOOLEAN, javac : {"accepts", "rejects"},
            njavac : CompilerErrors \cup (Classes \ {"empty"})]

TypesOK ==
  /\ cfg \in [batch : Nat \ {0}, keepGoing : BOOLEAN]
  /\ phase \in {"batching", "awaiting", "judging", "observing", "stopping", "over"}
  /\ progs \in Seq(Program)
  /\ n \in 0..Count /\ k \in Nat
  /\ tally \in [DOMAIN Tally -> Nat]
  /\ faults \in Nat
  /\ exit \in {Running, 0, 1, Panicked} /\ (exit = Running <=> phase # "over")
  /\ observer \in {"up", "lost"} /\ (observer = "lost" => phase = "over")

(* Which programs there are, by where the loop is; names are positions.    *)
PlaceOK ==
  /\ \A i \in DOMAIN progs : progs[i].name = i
  /\ phase = "batching" => Len(progs) = n /\ k = 0
  /\ phase = "awaiting" => n < Count /\ Len(progs) = n + This /\ k = 0
  /\ phase \in {"judging", "observing", "stopping"} =>
       n < Count /\ Len(progs) = n + This /\ k \in 1..This

(* Every program settled is in one tally, every divergence in a second.    *)
TalliesOK ==
  /\ Promise!Total = Settled
  /\ tally.byteDivergent = tally.behaviorMatch + tally.findings
                             + (IF Undecided THEN 1 ELSE 0)

(* The run goes on exactly as long as it may.                              *)
StopsInTime ==
  /\ phase = "stopping" => HasHardFindings /\ ~ cfg.keepGoing
  /\ HasHardFindings => phase \in {"stopping", "over"} \/ cfg.keepGoing

(* The tallies are true of the programs settled.                           *)
HonestSoFar ==
  /\ HasHardFindings => doubtful # {} \/ \E i \in Judgeable : HardCase(progs[i])
  /\ \A i \in 1..Settled :
       i \in Judgeable /\ HardCase(progs[i]) => HasHardFindings

(* A tail of the batch, as long as units.                                  *)
IsRest(units) ==
  /\ units \in Seq(ToSet(progs)) /\ Len(units) <= Len(progs) - n
  /\ \A j \in DOMAIN units : units[j] = progs[Len(progs) - Len(units) + j]

(* The classes of the programs of the batch before next, and perhaps an    *)
(* open one of next itself; after a failure, some classes of the batch.    *)
ClassesUpTo(next, out) ==
  /\ out \in Seq([name : Batch, bytes : {"ref", "empty"}])
  /\ \A x \in DOMAIN out : progs[out[x].name].javac = "accepts"
  /\ faults = 0 =>
       /\ \A x \in DOMAIN out :
            \/ out[x].name < next /\ out[x].bytes = "ref"
            \/ x = Len(out) /\ out[x] = Opened(next)
       /\ \A i \in n + 1..next - 1 :
            progs[i].javac = "accepts" => \E x \in DOMAIN out : out[x].name = i

(* The batch is in the pipe, at javac, or back; no pipe is left full.      *)
Sent ==
  /\ jvm \in {"reading", "dead"} /\ stdout = <<>>
  /\ Len(stdin) = 1 /\ stdin = <<stdin[1]>> /\ IsRest(stdin[1])
  /\ Len(stdin[1]) = Len(progs) - n
AtJavac ==
  /\ jvm \in {"compiling", "dead"} /\ stdin = <<>> /\ stdout = <<>>
  /\ IsRest(todo) /\ ClassesUpTo(Len(progs) - Len(todo) + 1, outputs)
Back ==
  /\ jvm \in {"reading", "dead"} /\ stdin = <<>>
  /\ Len(stdout) = 1 /\ stdout = <<stdout[1]>> /\ ClassesUpTo(Len(progs) + 1, stdout[1])
Conversation ==
  /\ phase = "awaiting" => Sent \/ AtJavac \/ Back
  /\ phase \in {"batching", "judging", "observing", "stopping"} =>
       jvm \in {"reading", "dead"} /\ stdin = <<>> /\ stdout = <<>>

(* What javac said of the batch is true unless it failed, and even then it *)
(* has opened no class of a program it rejects.                            *)
ClassesOK ==
  phase \in {"judging", "observing"} =>
    /\ \A i \in DOMAIN classes : classes[i] \in {"ref", "empty"}
    /\ \A i \in Batch \cap DOMAIN classes : progs[i].javac = "accepts"
    /\ faults = 0 => \A i \in Batch :
         progs[i].javac = "accepts" => i \in DOMAIN classes /\ classes[i] = "ref"

(* The observer was asked about the program at hand.                       *)
ObservationOK ==
  phase = "observing" =>
    /\ asked \in {"ref", "empty"} \X {Case.njavac} /\ Case.njavac \in Classes
    /\ Case.name \notin doubtful => asked[1] = "ref" /\ Case.javac = "accepts"
    /\ answer = <<>> \/ answer \in Observer!Honest(asked[1]) \X Observer!Honest(asked[2])

FuzzInv ==
  /\ TypesOK /\ PlaceOK /\ TalliesOK /\ StopsInTime /\ HonestSoFar
  /\ Conversation /\ ClassesOK /\ ObservationOK /\ ExitHonest

(* ... and behind the fourth: the files a finding has of its own carry the *)
(* names of programs that are settled, so the next program has none yet.   *)
ReportsOK ==
  /\ IsFiniteSet(Attempts)
  /\ \A r \in Attempts : r[2] \in 1..Settled

SigsOK(sigs) ==
  /\ IsFiniteSet(DOMAIN sigs)
  /\ \A s \in DOMAIN sigs : sigs[s].count \in Nat

FindingsInv ==
  FuzzInv /\ ReportsOK /\ SigsOK(byteSigs) /\ SigsOK(behaviorSigs) /\ FindingsKept

=============================================================================
