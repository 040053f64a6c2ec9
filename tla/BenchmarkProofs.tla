--------------------------- MODULE BenchmarkProofs ---------------------------
(***************************************************************************)
(* What the benchmark reports is true, for any number of fixtures and any  *)
(* invocations, edits, failures of compilers and files, and kills.         *)
(***************************************************************************)
EXTENDS Benchmark, TLAPS

-----------------------------------------------------------------------------
(* Publishing a report implements Publication, for any writers. *)

(* Every operation of publishing keeps the invariant.                      *)
LEMMA PubInvInductive == PubInv /\ [PubNext]_pubVars => PubInv'
<1> SUFFICES ASSUME PubInv, [PubNext]_pubVars PROVE PubInv'
    OBVIOUS
<1> USE WritersAreSomebody DEF PubInv, PubTypeOK, TempsMatch, DestMatches, File, NoFile, Amounts,
        To, At, SetTemp, Removed, NotRemoved
<1>1. CASE UNCHANGED pubVars
      BY <1>1 DEF pubVars
<1>2. CASE PubNext
  <2> SUFFICES ASSUME NEW w \in Writers,
                      \/ Preflight(w) \/ Probe(w) \/ RemoveProbe(w) \/ Abandon(w)
                      \/ PublishStep(w) \/ Killed(w)
               PROVE PubInv'
      BY <1>2 DEF PubNext
  <2>1. CASE Preflight(w) \/ StartPublishing(w)
        BY <2>1 DEF Preflight, StartPublishing, CheckDestination
  <2>2. CASE Probe(w) \/ Create(w)
        BY <2>2 DEF Probe, Create, CreateTemporary
  <2>3. CASE RemoveProbe(w)
        BY <2>3 DEF RemoveProbe
  <2>4. CASE Abandon(w)
        BY <2>4 DEF Abandon
  <2>5. CASE WriteReport(w)
        BY <2>5 DEF WriteReport
  <2>6. CASE Sync(w)
        BY <2>6 DEF Sync
  <2>7. CASE Link(w)
    <3>1. PubTypeOK'
          BY <2>7 DEF Link
    <3>2. TempsMatch'
          BY <2>7 DEF Link
    <3>3. DestMatches'
          BY <2>7 DEF Link
    <3> QED BY <3>1, <3>2, <3>3
  <2>8. CASE RemoveTemporary(w)
    <3>1. PubTypeOK'
          BY <2>8 DEF RemoveTemporary
    <3>2. TempsMatch'
          BY <2>8 DEF RemoveTemporary
    <3>3. DestMatches'
          BY <2>8 DEF RemoveTemporary
    <3> QED BY <3>1, <3>2, <3>3
  <2>9. CASE Killed(w)
        BY <2>9 DEF Killed, Over
  <2> HIDE DEF PubInv
  <2> QED BY <2>1, <2>2, <2>3, <2>4, <2>5, <2>6, <2>7, <2>8, <2>9 DEF PublishStep
<1> HIDE DEF PubInv
<1> QED BY <1>1, <1>2

(* The files always match the stages of the writers: what lies at the      *)
(* destination is whole and its writer has linked it, and only a writer    *)
(* that was killed, or could not remove its file, has one when it is over  *)
(* (preflight_destination, publish_with, TemporaryFile).                   *)
THEOREM PublicationInvariant == PubSpec => []PubInv
<1>1. PubInit => PubInv
      BY WritersAreSomebody DEF PubInit, PubInv, PubTypeOK, TempsMatch, DestMatches, File, NoFile
<1> QED BY <1>1, PubInvInductive, PTL DEF PubSpec

(* An operation of publishing is a step of Publication, or none: creating   *)
(* the link publishes, and the outcome is reported after it.               *)
LEMMA PublicationStep ==
  PubInv /\ PubInv' /\ [PubNext]_pubVars => [Promise!Next]_(Promise!publicationVars)
<1> SUFFICES ASSUME PubInv, PubInv', [PubNext]_pubVars
             PROVE [Promise!Next]_(Promise!publicationVars)
    OBVIOUS
<1> DEFINE Outcomes == [w \in Writers |-> Outcome(pub[w])]
           Litter == {w \in Writers : Over(w) /\ temps[w] # NoFile}
<1> USE WritersAreSomebody DEF PubInv, PubTypeOK, File, NoFile, To, At, SetTemp, Removed, NotRemoved
<1>1. CASE UNCHANGED pubVars
      BY <1>1 DEF pubVars, Promise!publicationVars, Document, Over
<1>2. CASE PubNext
  <2> SUFFICES ASSUME NEW w \in Writers,
                      \/ Preflight(w) \/ Probe(w) \/ RemoveProbe(w) \/ Abandon(w)
                      \/ PublishStep(w) \/ Killed(w)
               PROVE [Promise!Next]_(Promise!publicationVars)
      BY <1>2 DEF PubNext
  (* A stage that is neither the last nor left by a failure.               *)
  <2>1. ASSUME UNCHANGED <<dest, refused>>, pub[w] \notin {"published", "failed", "crashed"},
               pub'[w] \notin {"published", "failed", "crashed"},
               \A v \in Writers \ {w} : pub'[v] = pub[v] /\ temps'[v] = temps[v]
        PROVE UNCHANGED Promise!publicationVars
    <3>1. Outcomes' = Outcomes
          BY <2>1 DEF Outcome
    <3>2. Litter' = Litter
          BY <2>1 DEF Over
    <3> QED BY <2>1, <3>1, <3>2 DEF Document, Promise!publicationVars
  (* A failure with no file left, or with one that was not removed.        *)
  <2>2. ASSUME dest' = dest, pub[w] \notin {"linked", "published", "failed", "crashed"},
               pub' = [pub EXCEPT ![w] = "failed"],
               \/ temps'[w] = NoFile /\ UNCHANGED refused
               \/ temps'[w] # NoFile /\ refused' = refused \cup {w},
               \A v \in Writers \ {w} : temps'[v] = temps[v]
        PROVE Promise!Fail(w)
    <3>1. Outcomes' = [Outcomes EXCEPT ![w] = "failed"] /\ Outcomes[w] = "running"
      <4>1. \A v \in Writers : Outcome(pub'[v]) = IF v = w THEN "failed" ELSE Outcome(pub[v])
            BY <2>2 DEF Outcome
      <4>2. Outcome(pub[w]) = "running"
            BY <2>2 DEF Outcome
      <4> QED BY <4>1, <4>2
    <3>2. \/ Litter' = Litter /\ UNCHANGED refused
          \/ Litter' = Litter \cup {w} /\ refused' = refused \cup {w}
      <4>1. \A v \in Writers \ {w} : v \in Litter' <=> v \in Litter
            BY <2>2 DEF Over
      <4>2. w \notin Litter /\ (w \in Litter' <=> temps'[w] # NoFile)
            BY <2>2 DEF Over
      <4> HIDE DEF NoFile
      <4> QED BY <2>2, <4>1, <4>2
    <3>3. Document # w
      <4>1. CASE dest = NoFile
            BY <4>1 DEF Document
      <4>2. ASSUME NEW v \in Writers, dest = File(v, "whole") PROVE Document # w
            BY <4>2, <2>2 DEF Document, DestMatches
      <4> QED BY <4>1, <4>2
    <3> QED BY <2>2, <3>1, <3>2, <3>3 DEF Document, Promise!Fail, Promise!CleanUp
  <2>3. CASE Preflight(w) \/ StartPublishing(w)
        BY <2>1, <2>2, <2>3 DEF Preflight, StartPublishing, CheckDestination, TempsMatch,
             Promise!Next
  <2>4. CASE Probe(w) \/ Create(w)
        BY <2>1, <2>2, <2>4 DEF Probe, Create, CreateTemporary, TempsMatch, Promise!Next
  <2>5. CASE RemoveProbe(w)
    <3>1. CASE Removed(w) /\ To(w, "ready")
          BY <2>1, <2>5, <3>1 DEF RemoveProbe
    <3>2. CASE NotRemoved(w) /\ To(w, "failed")
          BY <2>2, <2>5, <3>2 DEF RemoveProbe, TempsMatch, Promise!Next
    <3> QED BY <2>5, <3>1, <3>2 DEF RemoveProbe
  <2>6. CASE Abandon(w)
        BY <2>2, <2>6 DEF Abandon, TempsMatch, Promise!Next
  <2>7. CASE WriteReport(w)
        BY <2>1, <2>7 DEF WriteReport
  <2>8. CASE Sync(w)
        BY <2>1, <2>8 DEF Sync
  <2>9. CASE Link(w)
    <3>1. CASE dest' = dest
          BY <2>1, <2>9, <3>1 DEF Link
    <3>2. CASE dest = NoFile /\ dest' = temps[w] /\ To(w, "linked")
      <4>1. dest' = File(w, "whole") /\ temps' = temps
            BY <2>9, <3>2 DEF Link, TempsMatch
      <4>2. Outcomes' = Outcomes /\ Outcomes[w] = "running"
            BY <2>9, <3>2 DEF Link, Outcome
      <4>3. Litter' = Litter
            BY <2>9, <3>2, <4>1 DEF Link, Over
      <4>4. Document = "nobody" /\ Document' = w
            BY <3>2, <4>1 DEF Document
      <4>5. Promise!Publish(w)
            BY <2>9, <4>2, <4>3, <4>4 DEF Link, Promise!Publish, Promise!Nobody
      <4> QED BY <4>5 DEF Promise!Next
    <3> QED BY <2>9, <3>1, <3>2 DEF Link
  <2>10. CASE RemoveTemporary(w)
    <3>1. CASE pub[w] = "dropping"
          BY <2>2, <2>10, <3>1 DEF RemoveTemporary, TempsMatch, Promise!Next
    <3>2. CASE pub[w] = "linked"
      <4>1. /\ dest' = dest /\ pub' = [pub EXCEPT ![w] = "published"]
            /\ Removed(w) \/ NotRemoved(w)
            BY <2>10, <3>2 DEF RemoveTemporary
      <4>2. \A v \in Writers : Outcome(pub'[v]) = IF v = w THEN "published" ELSE Outcome(pub[v])
            BY <4>1 DEF Outcome
      <4>3. Outcomes' = [Outcomes EXCEPT ![w] = "published"] /\ Outcomes[w] = "running"
            BY <3>2, <4>2 DEF Outcome
      <4>4. \/ Litter' = Litter /\ UNCHANGED refused
            \/ Litter' = Litter \cup {w} /\ refused' = refused \cup {w}
        <5>1. \A v \in Writers \ {w} : v \in Litter' <=> v \in Litter
              BY <4>1 DEF Over
        <5>2. w \notin Litter /\ (w \in Litter' <=> temps'[w] # NoFile)
              BY <3>2, <4>1 DEF Over
        <5>3. \/ temps'[w] = NoFile /\ UNCHANGED refused
              \/ temps'[w] # NoFile /\ refused' = refused \cup {w}
              BY <3>2, <4>1 DEF TempsMatch
        <5> HIDE DEF NoFile
        <5> QED BY <5>1, <5>2, <5>3
      <4>5. Document = w /\ Document' = Document
        <5>1. dest = File(w, "whole")
              BY <3>2 DEF DestMatches
        <5> QED BY <5>1, <4>1 DEF Document
      <4>6. Promise!Succeed(w)
            BY <4>3, <4>4, <4>5 DEF Promise!Succeed, Promise!CleanUp
      <4> QED BY <4>6 DEF Promise!Next
    <3> QED BY <2>10, <3>1, <3>2 DEF RemoveTemporary
  <2>11. CASE Killed(w)
    <3>1. pub' = [pub EXCEPT ![w] = "crashed"] /\ UNCHANGED <<dest, temps, refused>> /\ ~ Over(w)
          BY <2>11 DEF Killed
    <3>2. \A v \in Writers : Outcome(pub'[v]) = IF v = w THEN "crashed" ELSE Outcome(pub[v])
          BY <3>1 DEF Outcome
    <3>3. Outcomes' = [Outcomes EXCEPT ![w] = "crashed"] /\ Outcomes[w] = "running"
          BY <3>1, <3>2 DEF Outcome, Over
    <3>4. Litter' \in {Litter, Litter \cup {w}}
      <4>1. \A v \in Writers \ {w} : (v \in Litter') <=> (v \in Litter)
            BY <3>1 DEF Over
      <4> QED BY <4>1, <3>1 DEF Over
    <3>5. Promise!Crash(w)
          BY <3>1, <3>3, <3>4 DEF Promise!Crash, Document
    <3> QED BY <3>5 DEF Promise!Next
  <2> HIDE DEF PubInv
  <2> QED BY <2>3, <2>4, <2>5, <2>6, <2>7, <2>8, <2>9, <2>10, <2>11 DEF PublishStep
<1> QED BY <1>1, <1>2

(* Reports are published once: whoever the writers are, however they       *)
(* interleave, fail or are killed, and whatever files the system will not  *)
(* remove, the destination gets one whole report, no writer is told        *)
(* anything else, and only a kill or a refused removal leaves a temporary  *)
(* file (preflight_destination, publish_with).                             *)
THEOREM PublishedOnceHolds == PubSpec => PublishedOnce
<1>1. PubInit => Promise!Init
      BY DEF PubInit, Promise!Init, Promise!Nobody, Document, Outcome, Over, NoFile
<1> QED BY <1>1, PublicationInvariant, PublicationStep, PTL
        DEF PubSpec, PublishedOnce, Promise!Spec

-----------------------------------------------------------------------------
(* The runs of the benchmark. *)

(* A class is there, and equal classes are of the same source and right.   *)
LEMMA ClassFacts ==
  ASSUME NEW c \in Compilers, NEW v
  PROVE  /\ Class(c, v) # NoClass /\ Class(c, v)[1] = v
         /\ \A w : Class("javac", w) = Class("njavac", v) => w = v /\ v \notin Wrong
BY DEF Class, NoClass, Compilers

(* The report's plan, task by task. *)
LEMMA ReportTasks ==
  ASSUME NEW slot
  PROVE  LET plan == Plan("report", slot)
             javac == <<slot, "javac">>
             njavac == <<slot, "njavac">>
         IN /\ Len(plan) = 8
            /\ plan[1].do = "preflight" /\ plan[8].do = "publish"
            /\ plan[2] = Remove({javac}) /\ plan[5] = Remove({njavac})
            /\ plan[3] = Compile("javac", javac) /\ plan[6] = Compile("njavac", njavac)
            /\ plan[4] = Check(javac) /\ plan[7] = Check(njavac)
BY DEF Plan, Measure

(* The tasks of a plan: the classes of a compiler are removed, made and    *)
(* then looked at, all in the same directory.                              *)
LEMMA PlanTasks ==
  ASSUME NEW r \in Invocation, Placed(r), NEW c \in Compiled(r.mode)
  PROVE  LET plan == Plan(r.mode, r.slot)
             task == plan[r.task]
         IN /\ Len(plan) \in Nat /\ c \in Compilers /\ Output(r, c) \in Dirs
            /\ MakerOf(Output(r, c)) = c
            /\ RemoveAt(r.mode, c) \in Nat /\ CheckAt(r.mode, c) \in 1..Len(plan)
            /\ RemoveAt(r.mode, c) < CheckAt(r.mode, c)
            /\ r.task = RemoveAt(r.mode, c) => task.do = "remove" /\ Output(r, c) \in task.dirs
            /\ task.do = "compile" /\ task.into = Output(r, c) =>
                 task.compiler = c /\ r.task > RemoveAt(r.mode, c)
            /\ r.task = CheckAt(r.mode, c) =>
                 \/ task.do = "check" /\ task.in = Output(r, c)
                      /\ r.mode \in {"record", "report"}
                 \/ /\ task.do = "compare" /\ r.mode \in {"offline", "live"}
                    /\ task.actual = Output(r, "njavac")
                    /\ task.expected =
                         IF r.mode = "live" THEN Output(r, "javac") ELSE Golden
<1> USE DEF Invocation, Placed, Compiled, Compilers, Output, Dirs, Golden, MakerOf, RemoveAt, CheckAt
<1>1. CASE r.mode = "record"
      BY <1>1 DEF Plan, Measure, Remove, Compile, Check
<1>2. CASE r.mode = "offline"
      BY <1>2 DEF Plan, Remove, Compile, Compare
<1>3. CASE r.mode = "live"
      BY <1>3 DEF Plan, Remove, Compile, Compare
<1>4. CASE r.mode = "report"
  <2> DEFINE plan == Plan(r.mode, r.slot)
             javac == <<r.slot, "javac">>
             njavac == <<r.slot, "njavac">>
  <2>1. Len(Plan("report", r.slot)) = 8
        BY ReportTasks
  <2>2. plan = Plan("report", r.slot)
        BY <1>4
  <2>3. r.slot \in Slots /\ r.task \in 1..8
        BY <2>1, <2>2
  <2>4. /\ Len(plan) = 8
        /\ plan[1].do = "preflight" /\ plan[8].do = "publish"
        /\ plan[2] = Remove({javac}) /\ plan[5] = Remove({njavac})
        /\ plan[3] = Compile("javac", javac) /\ plan[6] = Compile("njavac", njavac)
        /\ plan[4] = Check(javac) /\ plan[7] = Check(njavac)
    <3> HIDE DEF Invocation, Placed
    <3> QED BY <2>2, ReportTasks
  <2> HIDE DEF plan, Invocation, Placed
  <2> QED BY <1>4, <2>3, <2>4 DEF plan, Remove, Compile, Check
<1> QED BY <1>1, <1>2, <1>3, <1>4 DEF Modes

(* What the plan writes to: the invocation's own directories.              *)
LEMMA PlanWrites ==
  ASSUME NEW r \in Invocation, Placed(r)
  PROVE  LET task == Plan(r.mode, r.slot)[r.task]
         IN /\ task.do = "remove" => \A d \in task.dirs : \E c \in Compiled(r.mode) : d = Output(r, c)
            /\ task.do = "compile" =>
                 /\ task.compiler \in Compiled(r.mode) /\ task.into = Output(r, task.compiler)
                 /\ r.mode \in {"offline", "live"} => r.task < CheckAt(r.mode, "njavac")
<1> USE DEF Invocation, Placed, Compiled, Compilers, Output, CheckAt
<1>1. CASE r.mode = "record"
      BY <1>1 DEF Plan, Measure, Remove, Compile, Check
<1>2. CASE r.mode = "offline"
      BY <1>2 DEF Plan, Remove, Compile, Compare
<1>3. CASE r.mode = "live"
      BY <1>3 DEF Plan, Remove, Compile, Compare
<1>4. CASE r.mode = "report"
  <2> DEFINE plan == Plan(r.mode, r.slot)
             javac == <<r.slot, "javac">>
             njavac == <<r.slot, "njavac">>
  <2>1. Len(Plan("report", r.slot)) = 8
        BY ReportTasks
  <2>2. plan = Plan("report", r.slot)
        BY <1>4
  <2>3. r.slot \in Slots /\ r.task \in 1..8
        BY <2>1, <2>2
  <2>4. /\ Len(plan) = 8
        /\ plan[1].do = "preflight" /\ plan[8].do = "publish"
        /\ plan[2] = Remove({javac}) /\ plan[5] = Remove({njavac})
        /\ plan[3] = Compile("javac", javac) /\ plan[6] = Compile("njavac", njavac)
        /\ plan[4] = Check(javac) /\ plan[7] = Check(njavac)
    <3> HIDE DEF Invocation, Placed
    <3> QED BY <2>2, ReportTasks
  <2> HIDE DEF plan, Invocation, Placed
  <2> QED BY <1>4, <2>3, <2>4 DEF plan, Remove, Compile, Check
<1> QED BY <1>1, <1>2, <1>3, <1>4 DEF Modes

(* Running invocations write to different directories.                     *)
LEMMA OutputsDisjoint ==
  ASSUME BenchInv, NEW i \in Writers, NEW j \in Writers, i # j, Running(i), Running(j),
         NEW c \in Compiled(inv[i].mode), NEW d \in Compiled(inv[j].mode)
  PROVE  Output(inv[i], c) # Output(inv[j], d)
<1>1. inv[i].slot # inv[j].slot /\ ~ (inv[i].mode = "record" /\ inv[j].mode = "record")
      BY DEF BenchInv, Exclusive
<1> QED BY <1>1 DEF Output, Golden

-----------------------------------------------------------------------------
(* One step of an invocation.                                              *)

(* The next task, from its first fixture.                                  *)
LEMMA NextTask ==
  ASSUME NEW r \in Invocation, NEW s, r.task + 1 \in Nat,
         s = [r EXCEPT !.task = r.task + 1, !.k = 1]
  PROVE  /\ s \in Invocation /\ s.mode = r.mode /\ s.slot = r.slot /\ s.made = r.made
         /\ s.mismatch = r.mismatch /\ s.exit = r.exit /\ s.task = r.task + 1 /\ s.k = 1
<1>1. s = [mode |-> r.mode, slot |-> r.slot, task |-> r.task + 1, k |-> 1,
           mismatch |-> r.mismatch, exit |-> r.exit, made |-> r.made]
      BY DEF Invocation
<1> QED BY <1>1 DEF Invocation

(* Going on with the plan: what is past after it was past before, or is    *)
(* the fixture just dealt with.                                            *)
LEMMA Advances ==
  ASSUME NEW r \in Invocation, Placed(r), r.exit = "running",
         NEW s, s = Advanced(r, Plan(r.mode, r.slot))
  PROVE  /\ s \in Invocation /\ s.mode = r.mode /\ s.slot = r.slot /\ s.made = r.made
         /\ s.mismatch = r.mismatch
         /\ s.exit # "none" /\ (Good(s) => Placed(s))
         /\ \A c \in Compiled(r.mode), f \in 1..Fixtures : Good(s) =>
              /\ Past(s, RemoveAt(r.mode, c), f) =>
                   Past(r, RemoveAt(r.mode, c), f) \/ (r.task = RemoveAt(r.mode, c) /\ f = r.k)
              /\ Past(s, CheckAt(r.mode, c), f) =>
                   Past(r, CheckAt(r.mode, c), f) \/ (r.task = CheckAt(r.mode, c) /\ f = r.k)
<1> DEFINE plan == Plan(r.mode, r.slot)
           whole == plan[r.task].do \in {"preflight", "publish"}
<1>1. /\ r.task \in 1..Len(plan) /\ r.k \in 1..Fixtures /\ Fixtures \in Nat \ {0}
      /\ Len(plan) \in Nat
  <2>1. \E c : c \in Compiled(r.mode)
        BY DEF Compiled, Compilers
  <2> QED BY <2>1, PlanTasks, FixturesAssumption DEF Placed
<1>2. \A c \in Compiled(r.mode) :
        /\ RemoveAt(r.mode, c) \in 1..Len(plan) /\ CheckAt(r.mode, c) \in 1..Len(plan)
        /\ whole => r.task # RemoveAt(r.mode, c) /\ r.task # CheckAt(r.mode, c)
  <2> SUFFICES ASSUME NEW c \in Compiled(r.mode)
               PROVE  /\ RemoveAt(r.mode, c) \in 1..Len(plan) /\ CheckAt(r.mode, c) \in 1..Len(plan)
                      /\ whole => r.task # RemoveAt(r.mode, c) /\ r.task # CheckAt(r.mode, c)
      OBVIOUS
  <2>1. /\ RemoveAt(r.mode, c) < CheckAt(r.mode, c) /\ CheckAt(r.mode, c) \in 1..Len(plan)
        /\ r.task = RemoveAt(r.mode, c) => plan[r.task].do = "remove"
        /\ r.task = CheckAt(r.mode, c) => plan[r.task].do \in {"check", "compare"}
        BY PlanTasks
  <2>2. RemoveAt(r.mode, c) \in Nat \ {0}
        BY DEF RemoveAt
  <2> QED BY <1>1, <2>1, <2>2
<1> DEFINE Later(n, f) == Past(s, n, f) => Past(r, n, f) \/ (r.task = n /\ f = r.k)
<1>3. SUFFICES /\ s \in Invocation /\ s.mode = r.mode /\ s.slot = r.slot /\ s.made = r.made
               /\ s.mismatch = r.mismatch
               /\ s.exit # "none" /\ (Good(s) => Placed(s))
               /\ \A n \in 1..Len(plan), f \in 1..Fixtures :
                    Good(s) /\ ~ (whole /\ r.task = n) => Later(n, f)
      BY <1>2
<1>4. /\ r.k < Fixtures /\ ~ whole => s = [r EXCEPT !.k = r.k + 1]
      /\ ~ (r.k < Fixtures /\ ~ whole) /\ r.task < Len(plan)
           => s = [r EXCEPT !.task = r.task + 1, !.k = 1]
      /\ ~ (r.k < Fixtures /\ ~ whole) /\ ~ r.task < Len(plan)
           => s = [r EXCEPT !.exit = IF r.mismatch THEN "failure" ELSE "success"]
  BY DEF Advanced
<1> USE DEF Good, Placed, Past, Invocation
<1>5. CASE r.k < Fixtures /\ ~ whole
  <2>1. s = [r EXCEPT !.k = r.k + 1]
        BY <1>4, <1>5
  <2>2. r.k + 1 \in 1..Fixtures /\ r.k + 1 \in Nat
        BY <1>1, <1>5
  <2>3. /\ s \in Invocation /\ s.mode = r.mode /\ s.slot = r.slot /\ s.made = r.made
        /\ s.mismatch = r.mismatch /\ s.exit = "running" /\ s.task = r.task /\ s.k = r.k + 1
    <3> HIDE DEF plan, whole
    <3> QED BY <2>1, <2>2
  <2> HIDE DEF plan, whole
  <2>4. \A n \in 1..Len(plan), f \in 1..Fixtures : Later(n, f)
        BY <1>1, <2>3
  <2> QED BY <1>1, <2>2, <2>3, <2>4
<1>6. CASE ~ (r.k < Fixtures /\ ~ whole) /\ r.task < Len(plan)
  <2>1. s = [r EXCEPT !.task = r.task + 1, !.k = 1]
        BY <1>4, <1>6
  <2>2. r.task + 1 \in 1..Len(plan) /\ r.task + 1 \in Nat /\ 1 \in 1..Fixtures
    <3> HIDE DEF plan, whole
    <3> QED BY <1>1, <1>6
  <2>3. /\ s \in Invocation /\ s.mode = r.mode /\ s.slot = r.slot /\ s.made = r.made
        /\ s.mismatch = r.mismatch /\ s.exit = "running" /\ s.task = r.task + 1 /\ s.k = 1
    <3> HIDE DEF plan, whole
    <3> QED BY <2>1, <2>2, NextTask
  <2>4. r.k = Fixtures \/ whole
    <3> HIDE DEF plan, whole
    <3> QED BY <1>1, <1>6
  <2>5. Placed(s) /\ s.exit # "none"
    <3>1. s.task \in 1..Len(Plan(s.mode, s.slot)) /\ s.k \in 1..Fixtures
          BY <2>2, <2>3
    <3> QED BY <2>3, <3>1
  <2> HIDE DEF plan, whole
  <2>6. \A n \in 1..Len(plan), f \in 1..Fixtures : ~ (whole /\ r.task = n) => Later(n, f)
        BY <1>1, <2>3, <2>4
  <2> QED BY <2>3, <2>5, <2>6
<1>7. CASE ~ (r.k < Fixtures /\ ~ whole) /\ ~ r.task < Len(plan)
  <2>1. s = [r EXCEPT !.exit = IF r.mismatch THEN "failure" ELSE "success"]
        BY <1>4, <1>7
  <2>2. /\ s \in Invocation /\ s.mode = r.mode /\ s.slot = r.slot /\ s.made = r.made
        /\ s.mismatch = r.mismatch /\ s.task = r.task /\ s.k = r.k
        /\ s.exit = IF r.mismatch THEN "failure" ELSE "success"
        BY <2>1
  <2>3. r.task = Len(plan) /\ (r.k = Fixtures \/ whole)
        BY <1>1, <1>7
  <2> HIDE DEF plan, whole
  <2>4. \A n \in 1..Len(plan), f \in 1..Fixtures : ~ (whole /\ r.task = n) => Later(n, f)
        BY <1>1, <2>2, <2>3
  <2> QED BY <1>1, <2>2, <2>4
<1> QED BY <1>5, <1>6, <1>7

(* A running invocation that does a step in its own directories.           *)
LEMMA OthersKept ==
  ASSUME BenchInv, NEW i \in Writers, Running(i), UNCHANGED source,
         inv' \in [Writers -> Invocation], \A j \in Writers \ {i} : inv'[j] = inv[j],
         inv'[i].mode = inv[i].mode, inv'[i].slot = inv[i].slot,
         Good(inv'[i]) => Placed(inv'[i]),
         DOMAIN dir' = Dirs, \A d \in Dirs : DOMAIN dir'[d] = 1..Fixtures, DirsOK',
         \A d \in Dirs :
           dir'[d] = dir[d] \/ \E c \in Compiled(inv[i].mode) : d = Output(inv[i], c),
         \A f \in 1..Fixtures, c \in Compiled(inv[i].mode) :
           /\ Running(i)' => Fresh(inv[i], c, f)'
           /\ Good(inv'[i]) => Found(inv'[i], c, f),
         \A f \in 1..Fixtures : Good(inv'[i]) => Same(inv'[i], f)
  PROVE  BenchInv'
<1>1. TypesOK'
      BY DEF BenchInv, TypesOK
<1>2. Exclusive'
      BY DEF BenchInv, Exclusive, Running
<1>3. ASSUME NEW j \in Writers, NEW f \in 1..Fixtures
      PROVE  /\ \A c \in Compiled(inv'[j].mode) :
                  /\ Running(j)' => Fresh(inv[j], c, f)'
                  /\ Good(inv'[j]) => Found(inv'[j], c, f)
             /\ Good(inv'[j]) => Same(inv'[j], f)
  <2>1. CASE j = i
        BY <2>1
  <2>2. CASE j # i
    <3>1. inv'[j] = inv[j]
          BY <2>2
    <3>2. ASSUME NEW c \in Compiled(inv[j].mode), Running(j) PROVE Fresh(inv[j], c, f)'
      <4>1. ASSUME NEW d \in Compiled(inv[i].mode) PROVE Output(inv[i], d) # Output(inv[j], c)
        <5>1. \A x \in Compiled(inv[i].mode), y \in Compiled(inv[j].mode) :
                Output(inv[i], x) # Output(inv[j], y)
              BY <2>2, <3>2, OutputsDisjoint
        <5> QED BY <3>2, <4>1, <5>1
      <4>2. inv[j] \in Invocation /\ Placed(inv[j])
            BY <3>2 DEF BenchInv, TypesOK, Good, Running
      <4>3. Output(inv[j], c) \in Dirs
            BY <4>2, PlanTasks
      <4>4. dir'[Output(inv[j], c)] = dir[Output(inv[j], c)]
            BY <4>1, <4>3
      <4> QED BY <3>1, <3>2, <4>4 DEF BenchInv, Fresh, Output
    <3> QED BY <3>1, <3>2 DEF BenchInv, Running
  <2> QED BY <2>1, <2>2
<1> QED BY <1>1, <1>2, <1>3 DEF BenchInv

(* What is known of a running invocation.                                  *)
LEMMA RunningInvocation ==
  ASSUME BenchInv, NEW i \in Writers, Running(i)
  PROVE  /\ inv[i] \in Invocation /\ Placed(inv[i]) /\ inv[i].exit = "running" /\ Good(inv[i])
         /\ inv \in [Writers -> Invocation] /\ source \in [1..Fixtures -> Nat \ {0}]
         /\ inv[i].k \in 1..Fixtures
         /\ DOMAIN dir = Dirs /\ \A d \in Dirs : DOMAIN dir[d] = 1..Fixtures
         /\ DirsOK
         /\ \A f \in 1..Fixtures :
              /\ \A c \in Compiled(inv[i].mode) : Fresh(inv[i], c, f) /\ Found(inv[i], c, f)
              /\ Same(inv[i], f)
<1>1. Good(inv[i]) /\ TypesOK /\ DirsOK
      BY DEF BenchInv, Good, Running
<1> QED BY <1>1 DEF BenchInv, TypesOK, Running, Placed

(* An invocation that ends without success promises nothing.               *)
LEMMA ExitKeeps ==
  ASSUME BenchInv, NEW i \in Writers, Running(i), NEW code \in {"failure", "killed"},
         Exit(i, code), UNCHANGED <<source, dir>>
  PROVE  BenchInv'
<1>1. /\ inv \in [Writers -> Invocation] /\ inv[i] \in Invocation
      /\ DOMAIN dir = Dirs /\ \A d \in Dirs : DOMAIN dir[d] = 1..Fixtures
      /\ DirsOK
      BY RunningInvocation
<1>2. /\ inv'[i] = [inv[i] EXCEPT !.exit = code] /\ \A j \in Writers \ {i} : inv'[j] = inv[j]
      /\ DOMAIN inv' = Writers
      BY <1>1 DEF Exit
<1>3. /\ inv'[i] \in Invocation /\ inv'[i].mode = inv[i].mode /\ inv'[i].slot = inv[i].slot
      /\ inv'[i].exit = code
      BY <1>1, <1>2 DEF Invocation
<1>4. inv' \in [Writers -> Invocation]
  <2>1. inv' = [j \in Writers |-> inv'[j]]
        BY <1>1 DEF Exit
  <2>2. \A j \in Writers : inv'[j] \in Invocation
        BY <1>1, <1>2, <1>3
  <2> QED BY <2>1, <2>2
<1>5. DirsOK'
      BY <1>1 DEF DirsOK
<1>6. ~ Good(inv'[i]) /\ ~ Running(i)'
      BY <1>3 DEF Good, Running
<1> QED BY <1>1, <1>2, <1>3, <1>4, <1>5, <1>6, OthersKept

(* An invocation goes on with its plan.                                    *)
LEMMA AdvanceTypes ==
  ASSUME BenchInv, NEW i \in Writers, Running(i), NEW r \in Invocation, Placed(r),
         r.exit = "running", r.mode = inv[i].mode, r.slot = inv[i].slot, r.task = inv[i].task,
         r.k = inv[i].k,
         Advance(i, r)
  PROVE  /\ inv' \in [Writers -> Invocation] /\ \A j \in Writers \ {i} : inv'[j] = inv[j]
         /\ inv'[i].mode = inv[i].mode /\ inv'[i].slot = inv[i].slot
         /\ inv'[i].made = r.made /\ inv'[i].mismatch = r.mismatch
         /\ Good(inv'[i]) => Placed(inv'[i])
         /\ \A c \in Compiled(inv[i].mode), f \in 1..Fixtures : Good(inv'[i]) =>
              /\ Past(inv'[i], RemoveAt(r.mode, c), f) =>
                   \/ Past(inv[i], RemoveAt(r.mode, c), f)
                   \/ inv[i].task = RemoveAt(r.mode, c) /\ f = inv[i].k
              /\ Past(inv'[i], CheckAt(r.mode, c), f) =>
                   \/ Past(inv[i], CheckAt(r.mode, c), f)
                   \/ inv[i].task = CheckAt(r.mode, c) /\ f = inv[i].k
<1>1. inv \in [Writers -> Invocation] /\ inv[i].exit = "running"
      BY RunningInvocation
<1>2. inv' = [inv EXCEPT ![i] = Advanced(r, Plan(r.mode, r.slot))]
      BY DEF Advance, PlanOf
<1>3. inv'[i] = Advanced(r, Plan(r.mode, r.slot)) /\ \A j \in Writers \ {i} : inv'[j] = inv[j]
      BY <1>1, <1>2
<1> DEFINE s == Advanced(r, Plan(r.mode, r.slot))
<1>4. /\ s \in Invocation /\ s.mode = r.mode /\ s.slot = r.slot /\ s.made = r.made
      /\ s.mismatch = r.mismatch /\ (Good(s) => Placed(s))
      /\ \A c \in Compiled(r.mode), f \in 1..Fixtures : Good(s) =>
              /\ Past(s, RemoveAt(r.mode, c), f) =>
                   Past(r, RemoveAt(r.mode, c), f) \/ (r.task = RemoveAt(r.mode, c) /\ f = r.k)
              /\ Past(s, CheckAt(r.mode, c), f) =>
                   Past(r, CheckAt(r.mode, c), f) \/ (r.task = CheckAt(r.mode, c) /\ f = r.k)
      BY Advances
<1>5. \A n, f : Past(r, n, f) <=> Past(inv[i], n, f)
      BY <1>1 DEF Past
<1>6. inv' \in [Writers -> Invocation] /\ inv'[i] = s
  <2> HIDE DEF s
  <2> QED BY <1>1, <1>2, <1>3, <1>4 DEF s
<1> HIDE DEF s
<1> QED BY <1>3, <1>4, <1>5, <1>6

(* A step that makes nothing and looks at nothing, and keeps or removes.   *)
LEMMA QuietKeeps ==
  ASSUME BenchInv, NEW i \in Writers, Running(i), Task(i).do \notin {"check", "compare"},
         Advance(i, inv[i]), UNCHANGED source,
         DOMAIN dir' = Dirs, \A d \in Dirs : DOMAIN dir'[d] = 1..Fixtures,
         \A d \in Dirs, f \in 1..Fixtures : dir'[d][f] \in {dir[d][f], NoClass},
         \A d \in Dirs :
           dir'[d] = dir[d] \/ \E c \in Compiled(inv[i].mode) : d = Output(inv[i], c),
         Task(i).do = "remove" => \A d \in Task(i).dirs \cap Dirs : dir'[d][inv[i].k] = NoClass
  PROVE  BenchInv'
<1> DEFINE r == inv[i]
<1>1. /\ r \in Invocation /\ Placed(r) /\ r.exit = "running" /\ Good(r) /\ DirsOK
      /\ \A f \in 1..Fixtures :
              /\ \A c \in Compiled(r.mode) : Fresh(r, c, f) /\ Found(r, c, f)
              /\ Same(r, f)
      BY RunningInvocation
<1>2. /\ inv' \in [Writers -> Invocation] /\ \A j \in Writers \ {i} : inv'[j] = inv[j]
      /\ r'.mode = r.mode /\ r'.slot = r.slot
      /\ r'.made = r.made /\ r'.mismatch = r.mismatch
      /\ Good(r') => Placed(r')
      /\ \A c \in Compiled(r.mode), f \in 1..Fixtures : Good(r') =>
           /\ Past(r', RemoveAt(r.mode, c), f) =>
                   \/ Past(r, RemoveAt(r.mode, c), f)
                   \/ r.task = RemoveAt(r.mode, c) /\ f = r.k
           /\ Past(r', CheckAt(r.mode, c), f) =>
                   \/ Past(r, CheckAt(r.mode, c), f)
                   \/ r.task = CheckAt(r.mode, c) /\ f = r.k
      BY <1>1, AdvanceTypes
<1>3. DirsOK'
      BY <1>1 DEF DirsOK
<1>4. ASSUME NEW c \in Compiled(r.mode)
      PROVE  /\ Output(r, c) \in Dirs /\ r.task # CheckAt(r.mode, c)
             /\ r.task = RemoveAt(r.mode, c) => Output(r, c) \in Task(i).dirs /\ Task(i).do = "remove"
      BY <1>1, <1>4, PlanTasks DEF Task, PlanOf
<1>5. ASSUME NEW c \in Compiled(r.mode), NEW f \in 1..Fixtures
      PROVE  (Running(i)' => Fresh(r, c, f)') /\ (Good(r') => Found(r', c, f))
  <2>1. Output(r', c) = Output(r, c)
        BY <1>2 DEF Output
  <2> HIDE DEF r
  <2>2. ASSUME Good(r'), Past(r', RemoveAt(r.mode, c), f), dir'[Output(r, c)][f] # NoClass
        PROVE  r.made[c][f] # 0 /\ dir'[Output(r, c)][f] = Class(c, r.made[c][f])
    <3>1. dir'[Output(r, c)][f] = dir[Output(r, c)][f]
          BY <1>4, <2>2
    <3>2. Past(r, RemoveAt(r.mode, c), f)
          BY <1>2, <1>4, <2>2 DEF r
    <3> QED BY <1>1, <2>2, <3>1, <3>2 DEF Fresh
  <2>3. Good(r') => Found(r', c, f)
        BY <1>1, <1>2, <1>4 DEF Found
  <2> QED BY <1>2, <2>1, <2>2, <2>3 DEF Fresh, Running, Good, r
<1>6. ASSUME NEW f \in 1..Fixtures, Good(r') PROVE Same(r', f)
  <2>1. CASE r.mode \in {"offline", "live"}
    <3>1. "njavac" \in Compiled(r.mode)
          BY <2>1 DEF Compiled, Compilers
    <3> HIDE DEF r
    <3> QED BY <1>1, <1>2, <1>4, <1>6, <3>1 DEF Same
  <2>2. CASE r.mode \notin {"offline", "live"}
        BY <1>2, <2>2 DEF Same
  <2> QED BY <2>1, <2>2
<1> QED BY <1>2, <1>3, <1>5, <1>6, OthersKept

-----------------------------------------------------------------------------
(* The steps.                                                              *)

(* An old class is removed, of the invocation's own.                       *)
LEMMA RemoveOneKeeps ==
  ASSUME BenchInv, NEW i \in Writers, RemoveOne(i)
  PROVE  BenchInv'
<1>1. /\ Running(i) /\ Task(i).do = "remove" /\ Advance(i, inv[i]) /\ UNCHANGED source
      /\ dir' = [d \in Dirs |-> IF d \in Task(i).dirs
                                THEN [dir[d] EXCEPT ![inv[i].k] = NoClass] ELSE dir[d]]
      BY DEF RemoveOne, Doing
<1>2. /\ inv[i] \in Invocation /\ Placed(inv[i]) /\ inv[i].k \in 1..Fixtures
      /\ DOMAIN dir = Dirs /\ \A d \in Dirs : DOMAIN dir[d] = 1..Fixtures
      BY <1>1, RunningInvocation
<1>3. \A d \in Task(i).dirs : \E c \in Compiled(inv[i].mode) : d = Output(inv[i], c)
      BY <1>1, <1>2, PlanWrites DEF Task, PlanOf
<1>4. /\ DOMAIN dir' = Dirs
      /\ \A d \in Dirs : dir'[d] = IF d \in Task(i).dirs
                                THEN [dir[d] EXCEPT ![inv[i].k] = NoClass] ELSE dir[d]
      BY <1>1
<1>5. \A d \in Dirs : DOMAIN dir'[d] = 1..Fixtures
      BY <1>2, <1>4
<1>6. \A d \in Dirs, f \in 1..Fixtures : dir'[d][f] \in {dir[d][f], NoClass}
      BY <1>2, <1>4
<1>7. \A d \in Task(i).dirs \cap Dirs : dir'[d][inv[i].k] = NoClass
      BY <1>2, <1>4
<1>8. \A d \in Dirs :
           dir'[d] = dir[d] \/ \E c \in Compiled(inv[i].mode) : d = Output(inv[i], c)
      BY <1>3, <1>4
<1>9. Task(i).do \notin {"check", "compare"}
      BY <1>1
<1> QED BY <1>1, <1>4, <1>5, <1>6, <1>7, <1>8, <1>9, QuietKeeps

(* A step that only goes on with the plan.                                 *)
LEMMA OnlyAdvanceKeeps ==
  ASSUME BenchInv, NEW i \in Writers, Running(i),
         Task(i).do \notin {"remove", "check", "compare"},
         Advance(i, inv[i]), UNCHANGED <<source, dir>>
  PROVE  BenchInv'
<1>1. DOMAIN dir = Dirs /\ \A d \in Dirs : DOMAIN dir[d] = 1..Fixtures
      BY RunningInvocation
<1> QED BY <1>1, QuietKeeps

(* A compiler that leaves a class out, or fails.                           *)
LEMMA CompilerFaultKeeps ==
  ASSUME BenchInv, NEW i \in Writers, CompilerFault(i)
  PROVE  BenchInv'
<1>1. /\ Running(i) /\ Task(i).do = "compile" /\ UNCHANGED <<source, dir>>
      /\ Advance(i, inv[i]) \/ Exit(i, "failure")
      BY DEF CompilerFault, Doing
<1>2. CASE Advance(i, inv[i])
      BY <1>1, <1>2, OnlyAdvanceKeeps
<1>3. CASE Exit(i, "failure")
      BY <1>1, <1>3, ExitKeeps
<1> QED BY <1>1, <1>2, <1>3

(* A class that cannot be removed or read ends the invocation.             *)
LEMMA FileFaultKeeps ==
  ASSUME BenchInv, NEW i \in Writers, FileFault(i)
  PROVE  BenchInv'
BY ExitKeeps DEF FileFault

(* The class that is made is of the source as it is now.                   *)
LEMMA CompileOneKeeps ==
  ASSUME BenchInv, NEW i \in Writers, CompileOne(i)
  PROVE  BenchInv'
<1> DEFINE r == inv[i]
           k == inv[i].k
           c == Task(i).compiler
           d == Task(i).into
           v == source[inv[i].k]
           made == [inv[i] EXCEPT !.made[Task(i).compiler][inv[i].k] = source[inv[i].k]]
<1>1. /\ Running(i) /\ Task(i).do = "compile" /\ UNCHANGED source
      /\ dir' = [dir EXCEPT ![d][k] = Class(c, v)]
      /\ Advance(i, made)
      BY DEF CompileOne, Doing
<1>2. /\ r \in Invocation /\ Placed(r) /\ r.exit = "running" /\ k \in 1..Fixtures
      /\ v \in Nat \ {0} /\ DirsOK
      /\ DOMAIN dir = Dirs /\ \A e \in Dirs : DOMAIN dir[e] = 1..Fixtures
      /\ \A f \in 1..Fixtures :
              /\ \A b \in Compiled(r.mode) : Fresh(r, b, f) /\ Found(r, b, f)
              /\ Same(r, f)
      BY <1>1, RunningInvocation
<1>3. /\ c \in Compiled(r.mode) /\ d = Output(r, c)
      /\ r.mode \in {"offline", "live"} => r.task < CheckAt(r.mode, "njavac")
      BY <1>1, <1>2, PlanWrites DEF Task, PlanOf
<1>4. c \in Compilers /\ d \in Dirs /\ MakerOf(d) = c
      BY <1>2, <1>3, PlanTasks
<1>5. ASSUME NEW b \in Compiled(r.mode)
      PROVE  /\ Output(r, b) \in Dirs /\ b \in Compilers
             /\ r.task # CheckAt(r.mode, b) /\ r.task # RemoveAt(r.mode, b)
             /\ Output(r, b) = d => b = c
             /\ r.task \in Nat /\ CheckAt(r.mode, b) \in Nat
  <2>1. /\ Output(r, b) \in Dirs /\ b \in Compilers /\ MakerOf(Output(r, b)) = b
        /\ CheckAt(r.mode, b) \in 1..Len(Plan(r.mode, r.slot))
        /\ Len(Plan(r.mode, r.slot)) \in Nat
        /\ r.task = RemoveAt(r.mode, b) => Task(i).do = "remove"
        /\ r.task = CheckAt(r.mode, b) => Task(i).do \in {"check", "compare"}
        BY <1>2, PlanTasks DEF Task, PlanOf
  <2>2. r.task \in Nat
        BY <1>2 DEF Invocation
  <2> HIDE DEF d, c
  <2> QED BY <1>1, <1>4, <2>1, <2>2
<1>6. /\ made \in Invocation /\ made.mode = r.mode /\ made.slot = r.slot /\ made.task = r.task
      /\ made.k = r.k /\ made.exit = r.exit /\ made.mismatch = r.mismatch /\ Placed(made)
      /\ made.made[c][k] = v
      /\ \A b \in Compilers, f \in 1..Fixtures :
           b # c \/ f # k => made.made[b][f] = r.made[b][f]
  <2>1. r.made \in [Compilers -> [1..Fixtures -> Nat]]
        BY <1>2 DEF Invocation
  <2> DEFINE all == [r.made EXCEPT ![c][k] = v]
  <2>2. all \in [Compilers -> [1..Fixtures -> Nat]] /\ all[c][k] = v
        /\ \A b \in Compilers, f \in 1..Fixtures :
             b # c \/ f # k => all[b][f] = r.made[b][f]
    <3> HIDE DEF r, c, k, v
    <3> QED BY <1>2, <1>4, <2>1
  <2>3. made = [r EXCEPT !.made = all]
        OBVIOUS
  <2> HIDE DEF all, made, r, c, k, v
  <2> QED BY <1>2, <2>2, <2>3 DEF Invocation, Placed
<1> HIDE DEF made, c, d, v, k
<1>7. /\ DOMAIN dir' = Dirs /\ \A e \in Dirs : DOMAIN dir'[e] = 1..Fixtures
      /\ \A e \in Dirs : e # d => dir'[e] = dir[e]
      /\ dir'[d][k] = Class(c, v)
      /\ \A f \in 1..Fixtures : f # k => dir'[d][f] = dir[d][f]
  <2>1. dir' = [dir EXCEPT ![d] = [dir[d] EXCEPT ![k] = Class(c, v)]]
        BY <1>1
  <2> QED BY <1>2, <1>4, <2>1
<1>8. DirsOK'
  <2>1. Class(c, v)[1] = v
        BY <1>4, ClassFacts
  <2> QED BY <1>2, <1>4, <1>7, <2>1 DEF DirsOK
<1>9. /\ inv' \in [Writers -> Invocation] /\ \A j \in Writers \ {i} : inv'[j] = inv[j]
      /\ r'.mode = r.mode /\ r'.slot = r.slot
      /\ r'.made = made.made /\ r'.mismatch = r.mismatch
      /\ Good(r') => Placed(r')
      /\ \A b \in Compiled(r.mode), f \in 1..Fixtures : Good(r') =>
           /\ Past(r', RemoveAt(r.mode, b), f) =>
                   \/ Past(r, RemoveAt(r.mode, b), f)
                   \/ r.task = RemoveAt(r.mode, b) /\ f = r.k
           /\ Past(r', CheckAt(r.mode, b), f) =>
                   \/ Past(r, CheckAt(r.mode, b), f)
                   \/ r.task = CheckAt(r.mode, b) /\ f = r.k
  <2>1. /\ made \in Invocation /\ Placed(made) /\ made.exit = "running"
        /\ made.mode = inv[i].mode /\ made.slot = inv[i].slot /\ made.task = inv[i].task
        /\ made.k = inv[i].k
        BY <1>2, <1>6
  <2>2. /\ inv' \in [Writers -> Invocation] /\ \A j \in Writers \ {i} : inv'[j] = inv[j]
        /\ inv'[i].mode = inv[i].mode /\ inv'[i].slot = inv[i].slot
        /\ inv'[i].made = made.made /\ inv'[i].mismatch = made.mismatch
        /\ Good(inv'[i]) => Placed(inv'[i])
        /\ \A b \in Compiled(inv[i].mode), f \in 1..Fixtures : Good(inv'[i]) =>
           /\ Past(inv'[i], RemoveAt(made.mode, b), f) =>
                   \/ Past(inv[i], RemoveAt(made.mode, b), f)
                   \/ inv[i].task = RemoveAt(made.mode, b) /\ f = inv[i].k
           /\ Past(inv'[i], CheckAt(made.mode, b), f) =>
                   \/ Past(inv[i], CheckAt(made.mode, b), f)
                   \/ inv[i].task = CheckAt(made.mode, b) /\ f = inv[i].k
        BY <1>1, <2>1, AdvanceTypes
  <2> QED BY <1>6, <2>1, <2>2
<1>10. ASSUME NEW b \in Compiled(r.mode), NEW f \in 1..Fixtures
      PROVE  (Running(i)' => Fresh(r, b, f)') /\ (Good(r') => Found(r', b, f))
  <2>1. Output(r', b) = Output(r, b)
        BY <1>9 DEF Output
  <2>2. made.made[b][f] = IF b = c /\ f = k THEN v ELSE r.made[b][f]
        BY <1>5, <1>6
  <2> HIDE DEF r
  <2>3. ASSUME Good(r'), Past(r', RemoveAt(r.mode, b), f), dir'[Output(r, b)][f] # NoClass
        PROVE  made.made[b][f] # 0 /\ dir'[Output(r, b)][f] = Class(b, made.made[b][f])
    <3>1. CASE b = c /\ f = k
          BY <1>2, <1>3, <1>7, <2>2, <3>1
    <3>2. CASE ~ (b = c /\ f = k)
      <4>1. dir'[Output(r, b)][f] = dir[Output(r, b)][f]
            BY <1>3, <1>5, <1>7, <3>2
      <4>2. Past(r, RemoveAt(r.mode, b), f)
            BY <1>5, <1>9, <2>3
      <4> QED BY <1>2, <2>2, <2>3, <3>2, <4>1, <4>2 DEF Fresh
    <3> QED BY <3>1, <3>2
  <2>4. Good(r') => Found(r', b, f)
        BY <1>2, <1>5, <1>9, <2>2 DEF Found
  <2> QED BY <1>9, <2>1, <2>3, <2>4 DEF Fresh, Running, Good, r
<1>11. ASSUME NEW f \in 1..Fixtures, Good(r') PROVE Same(r', f)
  <2>1. CASE r.mode \in {"offline", "live"}
    <3>1. "njavac" \in Compiled(r.mode)
          BY <2>1 DEF Compiled, Compilers
    <3> HIDE DEF r
    <3>2. ~ Past(r, CheckAt(r.mode, "njavac"), f)
          BY <1>2, <1>3, <1>5, <2>1, <3>1 DEF Past
    <3> QED BY <1>5, <1>9, <1>11, <3>1, <3>2 DEF Same
  <2>2. CASE r.mode \notin {"offline", "live"}
        BY <1>9, <2>2 DEF Same
  <2> QED BY <2>1, <2>2
<1>12. \A e \in Dirs :
         dir'[e] = dir[e] \/ \E b \in Compiled(r.mode) : e = Output(r, b)
       BY <1>3, <1>7
<1> QED BY <1>1, <1>7, <1>8, <1>9, <1>10, <1>11, <1>12, OthersKept

(* A step that looks at classes: what it finds has just been made.         *)
LEMMA LooksKeeps ==
  ASSUME BenchInv, NEW i \in Writers, Running(i), UNCHANGED <<source, dir>>,
         NEW r \in Invocation, Advance(i, r),
         Placed(r), r.exit = "running", r.mode = inv[i].mode, r.slot = inv[i].slot,
         r.task = inv[i].task, r.k = inv[i].k, r.made = inv[i].made,
         inv[i].mismatch => r.mismatch,
         \A c \in Compiled(inv[i].mode) :
           inv[i].task = CheckAt(inv[i].mode, c) => inv[i].made[c][inv[i].k] # 0,
         inv[i].mode \in {"offline", "live"}
           /\ inv[i].task = CheckAt(inv[i].mode, "njavac") /\ ~ r.mismatch =>
              /\ inv[i].made["njavac"][inv[i].k] \notin Wrong
              /\ inv[i].mode = "live" =>
                   inv[i].made["javac"][inv[i].k] = inv[i].made["njavac"][inv[i].k],
         Task(i).do # "remove"
  PROVE  BenchInv'
<1> DEFINE q == inv[i]
<1>1. /\ q \in Invocation /\ Placed(q) /\ q.exit = "running" /\ DirsOK
      /\ DOMAIN dir = Dirs /\ \A d \in Dirs : DOMAIN dir[d] = 1..Fixtures
      /\ \A f \in 1..Fixtures :
              /\ \A c \in Compiled(q.mode) : Fresh(q, c, f) /\ Found(q, c, f)
              /\ Same(q, f)
      BY RunningInvocation
<1>2. /\ inv' \in [Writers -> Invocation] /\ \A j \in Writers \ {i} : inv'[j] = inv[j]
      /\ inv'[i].mode = inv[i].mode /\ inv'[i].slot = inv[i].slot
      /\ inv'[i].made = r.made /\ inv'[i].mismatch = r.mismatch
      /\ Good(inv'[i]) => Placed(inv'[i])
      /\ \A c \in Compiled(inv[i].mode), f \in 1..Fixtures : Good(inv'[i]) =>
              /\ Past(inv'[i], RemoveAt(r.mode, c), f) =>
                   \/ Past(inv[i], RemoveAt(r.mode, c), f)
                   \/ inv[i].task = RemoveAt(r.mode, c) /\ f = inv[i].k
              /\ Past(inv'[i], CheckAt(r.mode, c), f) =>
                   \/ Past(inv[i], CheckAt(r.mode, c), f)
                   \/ inv[i].task = CheckAt(r.mode, c) /\ f = inv[i].k
      BY AdvanceTypes
<1>3. ASSUME NEW c \in Compiled(q.mode) PROVE q.task # RemoveAt(q.mode, c)
      BY <1>1, <1>3, PlanTasks DEF Task, PlanOf
<1>4. ASSUME NEW c \in Compiled(q.mode), NEW f \in 1..Fixtures
      PROVE  (Running(i)' => Fresh(q, c, f)') /\ (Good(q') => Found(q', c, f))
  <2>1. Output(q', c) = Output(q, c)
        BY <1>2 DEF Output
  <2>2. Good(q') /\ Past(q', RemoveAt(q.mode, c), f) => Past(q, RemoveAt(q.mode, c), f)
        BY <1>2, <1>3
  <2>3. Good(q') => Found(q', c, f)
        BY <1>1, <1>2 DEF Found
  <2> QED BY <1>1, <1>2, <2>1, <2>2, <2>3 DEF Fresh, Running, Good
<1>5. ASSUME NEW f \in 1..Fixtures, Good(q') PROVE Same(q', f)
  <2>1. CASE q.mode \in {"offline", "live"}
    <3>1. "njavac" \in Compiled(q.mode)
          BY <2>1 DEF Compiled, Compilers
    <3>2. Past(q', CheckAt(q.mode, "njavac"), f) =>
             Past(q, CheckAt(q.mode, "njavac"), f) \/ (q.task = CheckAt(q.mode, "njavac") /\ f = q.k)
          BY <1>2, <1>5, <3>1
    <3>3. q'.made = q.made /\ q'.mode = q.mode /\ q'.mismatch = r.mismatch
          BY <1>2
    <3> HIDE DEF q
    <3> QED BY <1>1, <2>1, <3>2, <3>3 DEF Same, q
  <2>2. CASE q.mode \notin {"offline", "live"}
        BY <1>2, <2>2 DEF Same
  <2> QED BY <2>1, <2>2
<1>6. DirsOK'
      BY <1>1 DEF DirsOK
<1> QED BY <1>1, <1>2, <1>4, <1>5, <1>6, OthersKept

(* A class looked at has been made by this invocation, of what was read.   *)
LEMMA ClassIsFresh ==
  ASSUME BenchInv, NEW i \in Writers, Running(i), NEW c \in Compiled(inv[i].mode),
         inv[i].task = CheckAt(inv[i].mode, c), dir[Output(inv[i], c)][inv[i].k] # NoClass
  PROVE  /\ inv[i].made[c][inv[i].k] # 0
         /\ dir[Output(inv[i], c)][inv[i].k] = Class(c, inv[i].made[c][inv[i].k])
<1>1. /\ inv[i] \in Invocation /\ Placed(inv[i]) /\ inv[i].k \in 1..Fixtures
      /\ Fresh(inv[i], c, inv[i].k)
      BY RunningInvocation
<1>2. RemoveAt(inv[i].mode, c) < CheckAt(inv[i].mode, c)
      BY <1>1, PlanTasks
<1>3. Past(inv[i], RemoveAt(inv[i].mode, c), inv[i].k)
      BY <1>2 DEF Past
<1> QED BY <1>1, <1>3 DEF Fresh

(* A class that is there is one made by this invocation.                   *)
LEMMA CheckOneKeeps ==
  ASSUME BenchInv, NEW i \in Writers, CheckOne(i)
  PROVE  BenchInv'
<1>1. /\ Running(i) /\ Task(i).do = "check" /\ UNCHANGED <<source, dir>>
      /\ IF dir[Task(i).in][inv[i].k] # NoClass THEN Advance(i, inv[i]) ELSE Exit(i, "failure")
      BY DEF CheckOne, Doing
<1>2. inv[i] \in Invocation /\ Placed(inv[i]) /\ inv[i].exit = "running"
      BY <1>1, RunningInvocation
<1>3. CASE dir[Task(i).in][inv[i].k] # NoClass
  <2>1. ASSUME NEW c \in Compiled(inv[i].mode), inv[i].task = CheckAt(inv[i].mode, c)
        PROVE  Task(i).in = Output(inv[i], c) /\ inv[i].mode \notin {"offline", "live"}
        BY <1>1, <1>2, <2>1, PlanTasks DEF Task, PlanOf
  <2>2. \A c \in Compiled(inv[i].mode) :
           inv[i].task = CheckAt(inv[i].mode, c) => inv[i].made[c][inv[i].k] # 0
        BY <1>1, <1>3, <2>1, ClassIsFresh
  <2>3. inv[i].mode \in {"offline", "live"} => inv[i].task # CheckAt(inv[i].mode, "njavac")
        BY <2>1 DEF Compiled, Compilers
  <2> QED BY <1>1, <1>2, <1>3, <2>2, <2>3, LooksKeeps
<1>4. CASE dir[Task(i).in][inv[i].k] = NoClass
      BY <1>1, <1>4, ExitKeeps
<1> QED BY <1>3, <1>4

(* Equal classes are those of javac and right.                             *)
LEMMA CompareOneKeeps ==
  ASSUME BenchInv, NEW i \in Writers, CompareOne(i)
  PROVE  BenchInv'
<1> DEFINE k == inv[i].k
           expected == dir[Task(i).expected][k]
           actual == dir[Task(i).actual][k]
           r == [inv[i] EXCEPT !.mismatch = @ \/ expected # actual]
<1>1. /\ Running(i) /\ Task(i).do = "compare" /\ UNCHANGED <<source, dir>>
      /\ IF NoClass \in {expected, actual} THEN Exit(i, "failure") ELSE Advance(i, r)
      BY DEF CompareOne, Doing
<1>2. /\ inv[i] \in Invocation /\ Placed(inv[i]) /\ inv[i].exit = "running" /\ k \in 1..Fixtures
      /\ DirsOK
      BY <1>1, RunningInvocation
<1>3. CASE NoClass \in {expected, actual}
      BY <1>1, <1>3, ExitKeeps
<1>4. CASE expected # NoClass /\ actual # NoClass
  <2>1. ASSUME NEW c \in Compiled(inv[i].mode), inv[i].task = CheckAt(inv[i].mode, c)
        PROVE  /\ inv[i].mode \in {"offline", "live"}
               /\ Task(i).actual = Output(inv[i], "njavac")
               /\ Task(i).expected =
                    IF inv[i].mode = "live" THEN Output(inv[i], "javac") ELSE Golden
        BY <1>1, <1>2, <2>1, PlanTasks DEF Task, PlanOf
  <2>2. ASSUME NEW c \in Compiled(inv[i].mode), inv[i].task = CheckAt(inv[i].mode, c)
        PROVE  /\ inv[i].made[c][k] # 0
               /\ dir[Output(inv[i], c)][k] = Class(c, inv[i].made[c][k])
    <3>1. Compiled(inv[i].mode) \subseteq IF inv[i].mode = "live" THEN Compilers ELSE {"njavac"}
          BY <2>1, <2>2 DEF Compiled
    <3>2. dir[Output(inv[i], c)][k] # NoClass
          BY <1>4, <2>1, <2>2, <3>1 DEF Compilers
    <3> QED BY <1>1, <2>2, <3>2, ClassIsFresh
  <2>3. ASSUME inv[i].mode \in {"offline", "live"},
               inv[i].task = CheckAt(inv[i].mode, "njavac"), expected = actual
        PROVE  /\ inv[i].made["njavac"][k] \notin Wrong
               /\ inv[i].mode = "live" => inv[i].made["javac"][k] = inv[i].made["njavac"][k]
    <3>1. "njavac" \in Compiled(inv[i].mode)
          BY <2>3 DEF Compiled, Compilers
    <3>2. actual = Class("njavac", inv[i].made["njavac"][k])
          BY <2>1, <2>2, <2>3, <3>1
    <3>3. PICK w : expected = Class("javac", w) /\ (inv[i].mode = "live" => w = inv[i].made["javac"][k])
      <4>1. CASE inv[i].mode = "live"
        <5>1. "javac" \in Compiled(inv[i].mode) /\ inv[i].task = CheckAt(inv[i].mode, "javac")
              BY <2>3, <4>1 DEF Compiled, Compilers, CheckAt
        <5> QED BY <2>1, <2>2, <4>1, <5>1
      <4>2. CASE inv[i].mode # "live"
        <5>1. Task(i).expected = Golden
              BY <2>1, <2>3, <3>1, <4>2
        <5>2. Golden \in Dirs /\ MakerOf(Golden) = "javac"
              BY DEF Dirs, Golden, MakerOf
        <5> QED BY <1>2, <1>4, <4>2, <5>1, <5>2 DEF DirsOK
      <4> QED BY <4>1, <4>2
    <3>4. "njavac" \in Compilers
          BY DEF Compilers
    <3> HIDE DEF expected, actual
    <3> QED BY <2>3, <3>2, <3>3, <3>4, ClassFacts
  <2>4. /\ r \in Invocation /\ r.mode = inv[i].mode /\ r.slot = inv[i].slot
        /\ r.task = inv[i].task /\ r.k = k /\ r.exit = "running" /\ r.made = inv[i].made
        /\ r.mismatch = (inv[i].mismatch \/ expected # actual)
    <3> HIDE DEF expected, actual
    <3>1. (inv[i].mismatch \/ expected # actual) \in BOOLEAN
          OBVIOUS
    <3> QED BY <1>2, <3>1 DEF Invocation
  <2>5. Placed(r)
    <3> HIDE DEF r
    <3> QED BY <1>2, <2>4 DEF Placed
  <2>6. Advance(i, r) /\ Task(i).do # "remove"
        BY <1>1, <1>4
  <2> HIDE DEF r, expected, actual
  <2> QED BY <1>1, <2>2, <2>3, <2>4, <2>5, <2>6, LooksKeeps
<1> QED BY <1>3, <1>4

(* What happens at the destination of the report is not looked at.         *)
LEMMA ReportKeeps ==
  ASSUME BenchInv, NEW i \in Writers,
         PreflightReport(i) \/ PublishReport(i) \/ AbandonReport(i) \/ Kill(i)
  PROVE  BenchInv'
<1>1. CASE UNCHANGED inv
  <2>1. UNCHANGED <<source, dir>>
        BY DEF PreflightReport, PublishReport, AbandonReport, Kill
  <2> QED BY <1>1, <2>1 DEF BenchInv, TypesOK, DirsOK, Exclusive, Running, Fresh
<1>2. CASE Running(i) /\ Advance(i, inv[i]) /\ Task(i).do \in {"preflight", "publish"}
  <2>1. UNCHANGED <<source, dir>>
        BY DEF PreflightReport, PublishReport, AbandonReport, Kill
  <2> QED BY <1>2, <2>1, OnlyAdvanceKeeps
<1>3. ASSUME Running(i), NEW code \in {"failure", "killed"}, Exit(i, code) PROVE BenchInv'
  <2>1. UNCHANGED <<source, dir>>
        BY DEF PreflightReport, PublishReport, AbandonReport, Kill
  <2> QED BY <1>3, <2>1, ExitKeeps
<1>4. CASE PreflightReport(i)
  <2>1. /\ Running(i) /\ Task(i).do = "preflight"
        /\ CASE pub'[i] = "ready" -> Advance(i, inv[i])
             [] pub'[i] = "failed" -> Exit(i, "failure")
             [] OTHER -> UNCHANGED inv
        BY <1>4 DEF PreflightReport, Doing
  <2> QED BY <2>1, <1>1, <1>2, <1>3
<1>5. CASE PublishReport(i)
  <2>1. /\ Running(i) /\ Task(i).do = "publish"
        /\ CASE pub'[i] = "published" -> Advance(i, inv[i])
             [] pub'[i] = "failed" -> Exit(i, "failure")
             [] OTHER -> UNCHANGED inv
        BY <1>5 DEF PublishReport, Doing
  <2> QED BY <2>1, <1>1, <1>2, <1>3
<1>6. CASE AbandonReport(i) \/ Kill(i)
      BY <1>3, <1>6 DEF AbandonReport, Kill, Doing
<1> QED BY <1>4, <1>5, <1>6

(* An invocation is given its plan.                                        *)
LEMMA StartedRecord ==
  ASSUME NEW r \in Invocation, NEW mode \in Modes \cup {"none"},
         NEW slot \in Slots \cup {"none"}, NEW s,
         s = [r EXCEPT !.mode = mode, !.slot = slot, !.task = 1, !.exit = "running"]
  PROVE  s =
         [mode |-> mode, slot |-> slot, task |-> 1, k |-> r.k, mismatch |-> r.mismatch,
          exit |-> "running", made |-> r.made]
BY DEF Invocation

(* An invocation starts in a slot of its own, before its first task.       *)
LEMMA StartKeeps ==
  ASSUME BenchInv, NEW i \in Writers, Start(i)
  PROVE  BenchInv'
<1>1. PICK mode \in Modes, slot \in Slots :
        /\ \A j \in Writers : Running(j) =>
             inv[j].slot # slot /\ "record" \notin {mode} \cap {inv[j].mode}
        /\ inv' = [inv EXCEPT ![i].mode = mode, ![i].slot = slot, ![i].task = 1,
                              ![i].exit = "running"]
      BY DEF Start
<1>2. inv[i] = Idle /\ UNCHANGED <<source, dir>>
      BY DEF Start
<1>3. /\ inv \in [Writers -> Invocation] /\ TypesOK /\ DirsOK /\ Fixtures \in Nat \ {0}
      BY FixturesAssumption DEF BenchInv, TypesOK
<1> DEFINE s == [mode |-> mode, slot |-> slot, task |-> 1, k |-> 1, mismatch |-> FALSE,
                 exit |-> "running", made |-> [c \in Compilers |-> [f \in 1..Fixtures |-> 0]]]
<1>4. s \in Invocation
      BY <1>3 DEF Invocation
<1>5. inv' = [inv EXCEPT ![i] = s]
  <2>1. inv' = [inv EXCEPT ![i] = [inv[i] EXCEPT !.mode = mode, !.slot = slot, !.task = 1,
                                                 !.exit = "running"]]
        BY <1>1, <1>3
  <2>2. [inv[i] EXCEPT !.mode = mode, !.slot = slot, !.task = 1, !.exit = "running"] = s
    <3>1. inv[i].k = 1 /\ inv[i].mismatch = FALSE
          /\ inv[i].made = [c \in Compilers |-> [f \in 1..Fixtures |-> 0]]
          BY <1>2 DEF Idle
    <3>2. inv[i] \in Invocation
          BY <1>3
    <3>3. \A q : q = [inv[i] EXCEPT !.mode = mode, !.slot = slot, !.task = 1, !.exit = "running"] =>
            q = [mode |-> mode, slot |-> slot, task |-> 1, k |-> inv[i].k,
                 mismatch |-> inv[i].mismatch, exit |-> "running", made |-> inv[i].made]
          BY <3>2, StartedRecord
    <3> QED BY <3>1, <3>3
  <2> QED BY <2>1, <2>2
<1>6. /\ inv'[i] = s /\ inv' \in [Writers -> Invocation]
      /\ \A j \in Writers \ {i} : inv'[j] = inv[j]
  <2> HIDE DEF s
  <2> QED BY <1>3, <1>4, <1>5
<1>7. s.mode = mode /\ s.slot = slot /\ s.task = 1 /\ s.k = 1 /\ s.exit = "running"
      OBVIOUS
<1> HIDE DEF s
<1>8. Placed(s)
  <2>1. 1 \in 1..Len(Plan(mode, slot))
        BY DEF Plan, Modes, Measure
  <2>2. 1 \in 1..Fixtures
        BY <1>3
  <2> QED BY <1>7, <2>1, <2>2 DEF Placed
<1>9. TypesOK'
      BY <1>2, <1>3, <1>6, <1>8 DEF TypesOK
<1>10. DirsOK'
      BY <1>2, <1>3 DEF DirsOK
<1>11. Exclusive'
      BY <1>1, <1>6, <1>7 DEF BenchInv, Exclusive, Running
<1>12. ASSUME NEW c \in Compiled(mode), NEW f \in 1..Fixtures
       PROVE  ~ Past(s, RemoveAt(mode, c), f) /\ ~ Past(s, CheckAt(mode, c), f)
  <2>1. RemoveAt(mode, c) \in Nat \ {0} /\ CheckAt(mode, c) \in Nat /\ CheckAt(mode, c) > 1
        BY DEF RemoveAt, CheckAt
  <2>2. RemoveAt(mode, c) >= 1
        BY <2>1
  <2> QED BY <1>3, <1>7, <2>1, <2>2 DEF Past
<1>13. ASSUME NEW j \in Writers, NEW f \in 1..Fixtures
       PROVE  /\ \A c \in Compiled(inv'[j].mode) :
                   /\ Running(j)' => Fresh(inv[j], c, f)'
                   /\ Good(inv'[j]) => Found(inv'[j], c, f)
              /\ Good(inv'[j]) => Same(inv'[j], f)
  <2>1. CASE j = i
    <3>1. mode \in {"offline", "live"} => "njavac" \in Compiled(mode)
          BY DEF Compiled, Compilers
    <3> QED BY <1>6, <1>7, <1>12, <2>1, <3>1 DEF Fresh, Found, Same
  <2>2. CASE j # i
    <3>1. inv'[j] = inv[j]
          BY <1>6, <2>2
    <3> QED BY <1>2, <3>1 DEF BenchInv, Fresh, Running
  <2> QED BY <2>1, <2>2
<1> QED BY <1>9, <1>10, <1>11, <1>13 DEF BenchInv

(* An edit touches a source only: classes made of it stay what they are.   *)
LEMMA EditKeeps == BenchInv /\ Edit => BenchInv'
<1> SUFFICES ASSUME BenchInv, Edit PROVE BenchInv'
    OBVIOUS
<1>1. PICK f \in 1..Fixtures : source' = [source EXCEPT ![f] = @ + 1]
      BY DEF Edit
<1>2. UNCHANGED <<dir, inv>> /\ source \in [1..Fixtures -> Nat \ {0}]
      BY DEF Edit, BenchInv, TypesOK
<1>3. source' \in [1..Fixtures -> Nat \ {0}]
      BY <1>1, <1>2
<1> QED BY <1>2, <1>3 DEF BenchInv, TypesOK, DirsOK, Exclusive, Running, Fresh

-----------------------------------------------------------------------------
(* The whole.                                                              *)

(* Nothing has been compiled, nobody runs.                                 *)
LEMMA BenchInitHolds == Init => BenchInv
<1> SUFFICES ASSUME Init PROVE BenchInv
    OBVIOUS
<1>1. \A i \in Writers : inv[i] = Idle
      BY DEF Init
<1>2. Idle \in Invocation /\ Idle.exit = "none"
      BY FixturesAssumption DEF Idle, Invocation
<1>3. \A i \in Writers : ~ Good(inv[i]) /\ ~ Running(i)
      BY <1>1, <1>2 DEF Good, Running
<1>4. \A d \in Dirs : dir[d] = [f \in 1..Fixtures |-> NoClass]
      BY DEF Init
<1>5. TypesOK
  <2>1. inv \in [Writers -> Invocation]
        BY <1>2 DEF Init
  <2>2. source \in [1..Fixtures -> Nat \ {0}]
        BY DEF Init
  <2> QED BY <1>3, <1>4, <2>1, <2>2 DEF Init, TypesOK
<1>6. DirsOK
      BY <1>4 DEF DirsOK
<1> QED BY <1>3, <1>5, <1>6 DEF BenchInv, Exclusive

(* Every step keeps the invariant.                                         *)
LEMMA BenchStep == BenchInv /\ [Next]_vars => BenchInv'
<1> SUFFICES ASSUME BenchInv, [Next]_vars PROVE BenchInv'
    OBVIOUS
<1>1. ASSUME NEW i \in Writers,
             \/ Start(i) \/ RemoveOne(i) \/ CompileOne(i) \/ CompilerFault(i) \/ CheckOne(i)
             \/ CompareOne(i) \/ FileFault(i) \/ PreflightReport(i) \/ PublishReport(i)
             \/ AbandonReport(i) \/ Kill(i)
      PROVE BenchInv'
      BY <1>1, StartKeeps, RemoveOneKeeps, CompileOneKeeps, CompilerFaultKeeps, FileFaultKeeps,
         CheckOneKeeps, CompareOneKeeps, ReportKeeps
<1>2. CASE Edit
      BY <1>2, EditKeeps
<1>3. CASE UNCHANGED vars
      BY <1>3 DEF vars, benchVars, BenchInv, TypesOK, DirsOK, Exclusive, Running, Fresh
<1> QED BY <1>1, <1>2, <1>3 DEF Next

(* The benchmark's inductive invariant: who may write where, whose classes *)
(* a directory holds, and that a class found after the removal has been    *)
(* made by the invocation that finds it (correctness, record_goldens,      *)
(* measure_compiler).                                                      *)
THEOREM BenchInvariant == Spec => []BenchInv
<1> QED BY BenchInitHolds, BenchStep, PTL DEF Spec

(* Success is true: no stale class and no edit in between makes a          *)
(* comparison pass, a recording or a measurement succeed that should not   *)
(* (correctness, record_goldens, measure_compiler).                        *)
THEOREM SuccessIsAlwaysTrue == Spec => []SuccessIsTrue
<1>1. BenchInv => SuccessIsTrue
  <2> SUFFICES ASSUME BenchInv, NEW i \in Writers, inv[i].exit = "success",
                      NEW f \in 1..Fixtures
               PROVE  /\ \A c \in Compiled(inv[i].mode) : inv[i].made[c][f] # 0
                      /\ inv[i].mode \in {"offline", "live"} =>
                           inv[i].made["njavac"][f] \notin Wrong
                      /\ inv[i].mode = "live" =>
                           inv[i].made["javac"][f] = inv[i].made["njavac"][f]
      BY DEF SuccessIsTrue
  <2>1. Good(inv[i]) /\ ~ inv[i].mismatch
        BY DEF BenchInv, TypesOK, Good, Placed
  <2> QED BY <2>1 DEF BenchInv, Found, Same, Past
<1> QED BY <1>1, BenchInvariant, PTL

(* The benchmark does to its report only what the writers of it do.        *)
LEMMA BenchmarkPublishes == Init /\ [][Next]_vars => PubSpec
<1>1. Init => PubInit
      BY DEF Init
<1>2. [Next]_vars => [PubNext]_pubVars
  <2> SUFFICES ASSUME [Next]_vars PROVE [PubNext]_pubVars
      OBVIOUS
  <2>1. ASSUME NEW i \in Writers, Start(i) \/ RemoveOne(i) \/ CompileOne(i) \/ CompilerFault(i)
                                  \/ CheckOne(i) \/ CompareOne(i) \/ FileFault(i)
        PROVE UNCHANGED pubVars
        BY <2>1 DEF Start, RemoveOne, CompileOne, CompilerFault, CheckOne, CompareOne, FileFault
  <2>2. ASSUME NEW i \in Writers, PreflightReport(i) \/ PublishReport(i) \/ AbandonReport(i)
                                  \/ Kill(i)
        PROVE PubNext
        BY <2>2 DEF PreflightReport, PublishReport, AbandonReport, Kill, PubNext
  <2>3. CASE Edit \/ UNCHANGED vars
        BY <2>3 DEF Edit, vars
  <2> QED BY <2>1, <2>2, <2>3 DEF Next
<1> QED BY <1>1, <1>2, PTL DEF PubSpec

(* Publication is kept in the whole benchmark too, where writers come to   *)
(* it from a measurement that may fail or be killed (main.rs, report.rs).  *)
THEOREM BenchmarkPublishesOnce == Spec => PublishedOnce
<1> QED BY BenchmarkPublishes, PublishedOnceHolds, PTL DEF Spec

=============================================================================
