---------------------------- MODULE PhaseProfile ----------------------------
(***************************************************************************)
(* The attribution of time and of memory to the phases of a compilation:   *)
(* compile_observed (lib.rs) tells an observer when each phase starts and  *)
(* ends, a validator checks the order (benchmark/phase.rs), a timing       *)
(* observer (benchmark/measurement.rs) or, in a process of its own, an     *)
(* allocation observer over a counting allocator (benchmark_alloc.rs)      *)
(* attributes what happens in between, and a profile is accepted or not.   *)
(***************************************************************************)
EXTENDS Integers, Sequences, FiniteSetsExt

CONSTANTS
  Compiles,       \* rounds times fixtures
  CounterSpace,   \* the counters wrap here (2^64)
  Sizes,          \* of the blocks allocated
  Starts,         \* bytes requested and released before the profile
  MaxOps,         \* bound: allocator calls in one compilation
  MaxTicks        \* bound: clock ticks

(* No single compilation requests or releases what the counters can count, *)
(* 16 EiB, and no profile takes that many nanoseconds, 584 years.          *)
ASSUME ProfileAssumption ==
  /\ Compiles \in Nat \ {0} /\ MaxOps \in Nat /\ CounterSpace \in Nat \ {0}
  /\ MaxTicks \in 0..CounterSpace - 1
  /\ Sizes \subseteq 1..CounterSpace - 1
  /\ \E s \in 0..CounterSpace : Sizes \subseteq 1..s /\ MaxOps * s < CounterSpace
  /\ \A s \in Starts : {s.released, s.requested} \subseteq 0..CounterSpace - 1

Compiler == <<"lex", "parse", "sema", "codegen", "emit", "cleanup">>
Fallible == {"lex", "parse", "sema", "codegen"}
Named == {Compiler[k] : k \in DOMAIN Compiler} \cup {"drop"}

VARIABLES
  job,        \* "timing" or "allocation"
  stage,      \* "compiling", "completing", "dropping", "reporting" or "over"
  done,       \* compilations finished
  at,         \* the phase at hand
  inPhase,
  ops,
  owned,      \* live bytes of this process
  result,     \* ... of which the class file
  counter,    \* the counters of the allocator, and the clock
  starts,     \* readings taken when a phase started
  values,     \* what was attributed to each phase
  sequence,   \* SequenceValidator
  failed,     \* AllocationObserver.error
  baseline,   \* the reading before the first compilation
  verdict,    \* "none", "error" or "accepted"
  truth,      \* history: what each phase really used
  highest     \* history: the most bytes that were live

vars == <<job, stage, done, at, inPhase, ops, owned, result, counter, starts, values,
          sequence, failed, baseline, verdict, truth, highest>>

Fields == {"calls", "requested", "released", "clock"}
Nothing == [f \in Fields |-> 0]
NewSequence == [next |-> 1, active |-> "none", error |-> FALSE]

Init ==
  /\ job \in {"timing", "allocation"}
  /\ stage = "compiling" /\ done = 0 /\ at = 1 /\ inPhase = FALSE /\ ops = 0
  /\ \E s \in Starts :
       /\ owned = (s.requested - s.released) % CounterSpace
       /\ counter = [calls |-> 0, requested |-> s.requested, released |-> s.released,
                     clock |-> 0, live |-> owned, peak |-> owned]
  /\ result = 0
  /\ starts = [p \in Named |-> Nothing]
  /\ values = [p \in Named |-> Nothing]
  /\ sequence = NewSequence /\ failed = FALSE
  /\ baseline = counter
  /\ verdict = "none"
  /\ truth = [p \in Named |-> Nothing] /\ highest = owned

-----------------------------------------------------------------------------
(* The validator: the phases come once each, in order, one at a time.      *)

Started(s, phase) ==
  IF s.error THEN s
  ELSE IF s.active = "none" /\ s.next \in DOMAIN Compiler /\ Compiler[s.next] = phase
  THEN [s EXCEPT !.active = phase]
  ELSE [s EXCEPT !.error = TRUE]

Finished(s, phase) ==
  IF s.error THEN s
  ELSE IF s.active = phase THEN [s EXCEPT !.active = "none", !.next = @ + 1]
  ELSE [s EXCEPT !.error = TRUE]

CompleteSuccess(s) == ~ s.error /\ s.active = "none" /\ s.next = Len(Compiler) + 1

(* Mutant of SequenceReset: the next phase expected stays.                 *)
SequenceResetKept(s) == [s EXCEPT !.active = "none", !.error = FALSE]
SequenceReset(s) == NewSequence

-----------------------------------------------------------------------------
(* The counting allocator. *)

Wrap(n) == n % CounterSpace

RecordAllocation(c, n) ==
  [c EXCEPT !.calls = Wrap(@ + 1), !.requested = Wrap(@ + n),
            !.live = Wrap(@ + n), !.peak = Max({@, Wrap(c.live + n)})]

(* A release of more than is live is an error that run() finds; it cannot  *)
(* happen while the memory is smaller than the counters.                   *)
RecordDeallocation(c, n) ==
  [c EXCEPT !.released = Wrap(@ + n), !.live = IF n <= @ THEN @ - n ELSE @]

(* Mutant of RecordReallocation: only the difference of the sizes counts.   *)
RecordReallocationDelta(c, old, new) ==
  IF new > old THEN RecordAllocation(c, new - old)
  ELSE [RecordDeallocation(c, old - new) EXCEPT !.calls = Wrap(@ + 1)]

(* A release of the old block and a request for the new one.               *)
RecordReallocation(c, old, new) == RecordAllocation(RecordDeallocation(c, old), new)

Used(phase, calls, requested, released) ==
  truth' = [truth EXCEPT ![phase].calls = @ + calls, ![phase].requested = @ + requested,
                         ![phase].released = @ + released]

Working == stage = "compiling" /\ inPhase /\ job = "allocation" /\ ops < MaxOps

Holding(bytes) ==
  /\ bytes < CounterSpace
  /\ owned' = bytes
  /\ highest' = Max({highest, bytes})

Operated ==
  /\ ops' = ops + 1
  /\ UNCHANGED <<job, stage, done, at, inPhase, starts, values, sequence, failed,
                 baseline, verdict>>

(* The class file is one of the blocks serialization allocates.            *)
Alloc ==
  /\ Working
  /\ \E n \in Sizes :
       /\ counter' = RecordAllocation(counter, n)
       /\ Holding(owned + n)
       /\ Used(Compiler[at], 1, n, 0)
       /\ result' \in {result} \cup
                      IF Compiler[at] = "emit" /\ result = 0 THEN {n} ELSE {}
  /\ Operated

Dealloc ==
  /\ Working
  /\ \E n \in Sizes :
       /\ n <= owned - result
       /\ counter' = RecordDeallocation(counter, n)
       /\ Holding(owned - n)
       /\ Used(Compiler[at], 0, 0, n)
  /\ Operated /\ UNCHANGED result

Realloc ==
  /\ Working
  /\ \E old, new \in Sizes :
       /\ old <= owned - result
       /\ counter' = RecordReallocation(counter, old, new)
       /\ Holding(owned - old + new)
       /\ Used(Compiler[at], 1, new, old)
  /\ Operated /\ UNCHANGED result

(* Time goes on, in a phase or between two.                                *)
Tick ==
  /\ job = "timing" /\ stage \in {"compiling", "completing", "dropping"}
  /\ counter.clock < MaxTicks
  /\ counter' = [counter EXCEPT !.clock = @ + 1]
  /\ truth' = IF stage = "compiling" /\ inPhase
              THEN [truth EXCEPT ![Compiler[at]].clock = @ + 1] ELSE truth
  /\ UNCHANGED <<job, stage, done, at, inPhase, ops, owned, result, starts, values,
                 sequence, failed, baseline, verdict, highest>>

-----------------------------------------------------------------------------
(* The observers. *)

Snapshot(c) == [f \in Fields |-> c[f]]

(* A counter that moved backwards leaves the phase out of the profile; the *)
(* error is looked at when the next compilation is complete.               *)
Backwards(start, end) == \E f \in Fields : end[f] < start[f]
Added(value, start, end) ==
  [f \in Fields |-> Min({value[f] + end[f] - start[f], CounterSpace - 1})]

AddDelta(phase, start, end) ==
  IF Backwards(start, end) THEN failed' = TRUE /\ UNCHANGED values
  ELSE /\ values' = [values EXCEPT ![phase] = Added(@, start, end)]
       /\ UNCHANGED failed

PhaseStarted ==
  /\ stage = "compiling" /\ ~ inPhase
  /\ inPhase' = TRUE
  /\ sequence' = Started(sequence, Compiler[at])
  /\ starts' = [starts EXCEPT ![Compiler[at]] = Snapshot(counter)]
  /\ UNCHANGED <<job, stage, done, at, ops, owned, result, counter, values, failed,
                 baseline, verdict, truth, highest>>

Fail == stage' = "over" /\ verdict' = "error"

(* The end of a phase is told even when the phase failed; an error in the  *)
(* source ends the profile.                                                *)
PhaseFinished ==
  /\ stage = "compiling" /\ inPhase
  /\ inPhase' = FALSE
  /\ sequence' = Finished(sequence, Compiler[at])
  /\ AddDelta(Compiler[at], starts[Compiler[at]], Snapshot(counter))
  /\ \/ Compiler[at] \in Fallible /\ Fail /\ UNCHANGED at
     \/ at < Len(Compiler) /\ at' = at + 1 /\ UNCHANGED <<stage, verdict>>
     \/ at = Len(Compiler) /\ stage' = "completing" /\ UNCHANGED <<at, verdict>>
  /\ UNCHANGED <<job, done, ops, owned, result, counter, starts, baseline, truth, highest>>

CompleteCompile ==
  /\ stage = "completing"
  /\ IF failed \/ ~ CompleteSuccess(sequence)
     THEN Fail ELSE stage' = "dropping" /\ UNCHANGED verdict
  /\ sequence' = SequenceReset(sequence) /\ failed' = FALSE
  /\ UNCHANGED <<job, done, at, inPhase, ops, owned, result, counter, starts, values,
                 baseline, truth, highest>>

DropResult ==
  /\ stage = "dropping"
  /\ counter' = RecordDeallocation(counter, result)
  /\ Holding(owned - result) /\ result' = 0
  /\ Used("drop", 0, 0, result)
  /\ AddDelta("drop", Snapshot(counter), Snapshot(counter'))
  /\ done' = done + 1
  /\ stage' = IF done' = Compiles THEN "reporting" ELSE "compiling"
  /\ at' = 1 /\ ops' = 0
  /\ UNCHANGED <<job, inPhase, starts, sequence, baseline, verdict>>

-----------------------------------------------------------------------------
(* The profile. *)

Total(f) == counter[f] - baseline[f]
InAll(metrics, f) == SumFunction([p \in Named |-> metrics[p][f]])
Attributed(f) == InAll(values, f)

(* run() of the helper, and parse_allocation_profile on what it prints.    *)
AllocationAccepted ==
  /\ counter.live = baseline.live
  /\ Total("requested") >= 0 /\ Total("released") >= 0
  /\ Total("requested") = Total("released")
  /\ Attributed("requested") = Total("requested")
  /\ Attributed("released") = Total("released")

TimingAccepted == Attributed("clock") <= Total("clock")

Report ==
  /\ stage = "reporting"
  /\ IF IF job = "timing" THEN TimingAccepted ELSE AllocationAccepted
     THEN stage' = "over" /\ verdict' = "accepted" ELSE Fail
  /\ UNCHANGED <<job, done, at, inPhase, ops, owned, result, counter, starts, values,
                 sequence, failed, baseline, truth, highest>>

Next ==
  \/ Alloc \/ Dealloc \/ Realloc \/ Tick
  \/ PhaseStarted \/ PhaseFinished \/ CompleteCompile \/ DropResult \/ Report

Spec == Init /\ [][Next]_vars

-----------------------------------------------------------------------------
(* Properties. *)

Really(f) == InAll(truth, f)

(* An accepted profile is true: each phase is charged what it really used, *)
(* nothing leaked, and the peak is the most that was live, though the      *)
(* counters may wrap on the way and though an error found while the result *)
(* is dropped is looked at one compilation later, or never (add_delta,     *)
(* complete_compile, drop_result, run, parse_allocation_profile).          *)
Truthful ==
  verdict = "accepted" =>
    /\ values = truth
    /\ owned = baseline.live /\ counter.peak = highest

(* And it is accepted when nothing is wrong: no compilation failed, all    *)
(* memory was returned, and no counter passed its end (the validator is    *)
(* ready for the next compilation, and each byte falls in some phase).     *)
SourceFailed == done < Compiles /\ Compiler[at] \in Fallible
Overflowed == \E f \in {"requested", "released"} : baseline[f] + Really(f) >= CounterSpace
CleanAccepted ==
  stage = "over" /\ verdict = "error" =>
    SourceFailed \/ owned # baseline.live \/ Overflowed

-----------------------------------------------------------------------------
(* The inductive invariant behind both. *)

Counted == {"calls", "requested", "released"}
Metrics == [Named -> [Fields -> Nat]]
InSpace == 0..CounterSpace - 1
Counters == [calls : InSpace, requested : InSpace, released : InSpace,
             clock : InSpace, live : InSpace, peak : InSpace]

ProfileTypeOK ==
  /\ job \in {"timing", "allocation"}
  /\ stage \in {"compiling", "completing", "dropping", "reporting", "over"}
  /\ done \in 0..Compiles /\ at \in 1..Len(Compiler) /\ inPhase \in BOOLEAN
  /\ ops \in 0..MaxOps /\ owned \in InSpace /\ highest \in InSpace
  /\ result \in InSpace
  /\ counter \in Counters
  /\ baseline \in Counters /\ baseline.calls = 0 /\ baseline.clock = 0
  /\ starts \in Metrics /\ values \in Metrics /\ truth \in Metrics
  /\ failed \in BOOLEAN /\ verdict \in {"none", "error", "accepted"}

(* The validator knows where the compilation is.                           *)
StageOK ==
  /\ stage \in {"compiling", "completing", "dropping"} => done < Compiles
  /\ stage = "reporting" => done = Compiles
  /\ stage = "over" <=> verdict # "none"
  /\ inPhase => stage = "compiling"
  /\ stage = "completing" => at = Len(Compiler)
  /\ CASE stage = "compiling" ->
            sequence = [next |-> at, active |-> IF inPhase THEN Compiler[at] ELSE "none",
                        error |-> FALSE]
       [] stage = "completing" ->
            sequence = [next |-> Len(Compiler) + 1, active |-> "none", error |-> FALSE]
       [] stage \in {"dropping", "reporting"} -> sequence = NewSequence
       [] OTHER -> TRUE

(* The counter of live bytes never wraps, and what is live was requested   *)
(* and not released.  A timing profile allocates nothing here.             *)
MemoryOK ==
  /\ counter.live = owned /\ counter.peak = highest /\ owned <= highest
  /\ result <= owned
  /\ owned = baseline.live + Really("requested") - Really("released")
  /\ Really("calls") <= Really("requested")
  /\ job = "timing" => ops = 0 /\ result = 0 /\ \A f \in Counted : Really(f) = 0

ClockOK == Really("clock") <= counter.clock /\ counter.clock <= MaxTicks

(* What the phase at hand has used since it started, where the compiler is *)
(* in one.                                                                 *)
Since(f) == truth[Compiler[at]][f] - values[Compiler[at]][f]

(* Unless an error is recorded, every phase but the one at hand has been   *)
(* charged what it used, and no counter has wrapped but in that phase.     *)
ExactOutside ==
  stage # "over" /\ ~ failed /\ ~ inPhase =>
    /\ values = truth
    /\ \A f \in Counted : counter[f] = baseline[f] + Really(f)
ExactInside ==
  ~ failed /\ inPhase =>
    LET start == starts[Compiler[at]]
    IN /\ \A p \in Named : p # Compiler[at] => values[p] = truth[p]
       /\ \A f \in Fields : Since(f) >= 0
       /\ \A f \in Counted :
            /\ start[f] \in InSpace /\ start[f] + Since(f) = baseline[f] + Really(f)
            /\ counter[f] = Wrap(start[f] + Since(f))
       /\ \E s \in 0..CounterSpace :
            /\ Sizes \subseteq 1..s /\ MaxOps * s < CounterSpace
            /\ \A f \in Counted : Since(f) <= ops * s
       /\ start["clock"] + Since("clock") = counter.clock

(* A recorded error is one of a counter that wrapped.  It is looked at in  *)
(* time, except the one of the last drop: then the totals disagree.        *)
FailedOK ==
  failed /\ stage # "over" =>
    /\ Overflowed /\ stage # "dropping"
    /\ stage = "reporting" => Attributed("released") # Total("released")

ProfileInv ==
  /\ ProfileTypeOK /\ StageOK /\ MemoryOK /\ ClockOK /\ ExactOutside /\ ExactInside
  /\ FailedOK /\ Truthful /\ CleanAccepted

=============================================================================
