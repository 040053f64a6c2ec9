------------------------- MODULE PhaseProfileProofs -------------------------
(***************************************************************************)
(* The profiles that are accepted are true, for any number of compilations *)
(* and of allocator calls, any sizes of blocks and counters of any width.  *)
(***************************************************************************)
EXTENDS PhaseProfile, FiniteFolds, FiniteSetTheorems, TLAPS

(* The phases of a compilation, and the one after it.                      *)
LEMMA PhaseFacts ==
  /\ Len(Compiler) = 6 /\ DOMAIN Compiler = 1..6
  /\ \A k \in 1..6 : Compiler[k] \in Named /\ Compiler[k] # "drop" /\ Compiler[k] # "none"
  /\ "drop" \in Named /\ Compiler[6] \notin Fallible
  /\ IsFiniteSet(Named)
<1>1. /\ Len(Compiler) = 6 /\ DOMAIN Compiler = 1..6
      /\ Compiler[1] = "lex" /\ Compiler[2] = "parse" /\ Compiler[3] = "sema"
      /\ Compiler[4] = "codegen" /\ Compiler[5] = "emit" /\ Compiler[6] = "cleanup"
      BY DEF Compiler
<1>2. \A k \in 1..6 : k = 1 \/ k = 2 \/ k = 3 \/ k = 4 \/ k = 5 \/ k = 6
      OBVIOUS
<1>3. \A k \in 1..6 : Compiler[k] \in Named /\ Compiler[k] # "drop" /\ Compiler[k] # "none"
      BY <1>1, <1>2 DEF Named
<1>4. Named \subseteq ((((({"lex"} \cup {"parse"}) \cup {"sema"}) \cup {"codegen"}) \cup {"emit"})
                         \cup {"cleanup"}) \cup {"drop"}
      BY <1>1, <1>2 DEF Named
<1>5. IsFiniteSet({"lex"})
      BY FS_Singleton
<1>6. IsFiniteSet(((({"lex"} \cup {"parse"}) \cup {"sema"}) \cup {"codegen"}) \cup {"emit"})
      BY <1>5, FS_AddElement
<1>7. IsFiniteSet((((({"lex"} \cup {"parse"}) \cup {"sema"}) \cup {"codegen"}) \cup {"emit"})
                         \cup {"cleanup"})
      BY <1>6, FS_AddElement
<1>8. IsFiniteSet(Named)
      <2> DEFINE T == ((((({"lex"} \cup {"parse"}) \cup {"sema"}) \cup {"codegen"}) \cup {"emit"})
                         \cup {"cleanup"})
      <2>1. IsFiniteSet(T) /\ Named \subseteq T \cup {"drop"}
            BY <1>4, <1>7
      <2> HIDE DEF T
      <2>2. IsFiniteSet(T \cup {"drop"})
            BY <2>1, FS_AddElement
      <2> QED BY <2>1, <2>2, FS_Subset
<1> QED BY <1>1, <1>3, <1>8 DEF Named, Fallible

(* Of two numbers, the greater and the smaller.                            *)
LEMMA Extremes ==
  ASSUME NEW a \in Int, NEW b \in Int
  PROVE  /\ Max({a, b}) = IF a >= b THEN a ELSE b
         /\ Min({a, b}) = IF a <= b THEN a ELSE b
BY DEF Max, Min

(* A counter that is passed at most once wraps at most once.               *)
LEMMA WrapFacts ==
  ASSUME NEW a \in InSpace, NEW b \in InSpace
  PROVE  /\ Wrap(a + b) \in InSpace
         /\ Wrap(a + b) = IF a + b < CounterSpace THEN a + b ELSE a + b - CounterSpace
<1>1. /\ CounterSpace \in Nat \ {0}
      /\ a \in 0..CounterSpace - 1 /\ b \in 0..CounterSpace - 1
      BY ProfileAssumption DEF InSpace
<1>2. CASE a + b < CounterSpace
      BY <1>1, <1>2 DEF Wrap, InSpace
<1>3. CASE ~ a + b < CounterSpace
      <2>1. a + b - CounterSpace \in 0..CounterSpace - 1
            BY <1>1, <1>3
      <2>2. a + b = CounterSpace * 1 + (a + b - CounterSpace)
            BY <1>1
      <2>3. (a + b) % CounterSpace = a + b - CounterSpace
            BY <1>1, <2>1, <2>2, SMTT(30)
      <2> QED BY <1>3, <2>1, <2>3 DEF Wrap, InSpace
<1> QED BY <1>2, <1>3

(* What a phase used counts once in the sum over the phases.               *)
LEMMA InAllFacts ==
  ASSUME NEW m \in Metrics, NEW f \in Fields, NEW p \in Named
  PROVE  /\ InAll(m, f) \in Nat /\ m[p][f] <= InAll(m, f)
         /\ \A l \in Metrics, used \in Nat :
              /\ \A q \in Named : q # p => l[q][f] = m[q][f]
              /\ l[p][f] = m[p][f] + used
              => InAll(l, f) = InAll(m, f) + used
<1> DEFINE c == [q \in Named |-> m[q][f]]
<1>1. IsFiniteSet(Named) /\ DOMAIN c = Named
      BY PhaseFacts
<1>2. \A q \in Named : c[q] \in Nat /\ c[q] = m[q][f]
      BY DEF Metrics
<1>3. InAll(m, f) = SumOver(c, Named)
      BY DEF InAll, SumOver, SumFunction
<1>4. SumOver(c, Named) \in Nat /\ c[p] <= SumOver(c, Named)
      <2> HIDE DEF c
      <2> QED BY <1>1, <1>2, SumType, SumBounds
<1>5. ASSUME NEW l \in Metrics, NEW used \in Nat,
             \A q \in Named : q # p => l[q][f] = m[q][f],
             l[p][f] = m[p][f] + used
      PROVE  InAll(l, f) = InAll(m, f) + used
      <2> DEFINE d == [q \in Named |-> l[q][f]]
      <2>1. InAll(l, f) = SumOver(d, Named)
            BY DEF InAll, SumOver, SumFunction
      <2>2. /\ \A q \in Named : c[q] \in Nat
            /\ \A q \in Named : q # p => d[q] = c[q]
            /\ d[p] = used + IF p \in Named THEN c[p] ELSE 0
            BY <1>2, <1>5
      <2>3. Named \cup {p} = Named
            OBVIOUS
      <2> HIDE DEF c, d
      <2>4. \A x, u : /\ u \in Nat
                      /\ \A y \in Named : y # x => d[y] = c[y]
                      /\ d[x] = u + IF x \in Named THEN c[x] ELSE 0
                      => SumOver(d, Named \cup {x}) = SumOver(c, Named) + u
            <3>1. IsFiniteSet(Named) /\ \A y \in Named : c[y] \in Nat
                  BY <1>1, <2>2
            <3>2. ASSUME NEW S, IsFiniteSet(S), \A y \in S : c[y] \in Nat,
                         NEW x, NEW u \in Nat, \A y \in S : y # x => d[y] = c[y],
                         d[x] = u + IF x \in S THEN c[x] ELSE 0
                  PROVE  SumOver(d, S \cup {x}) = SumOver(c, S) + u
                  BY <3>2, SumGrows
            <3> QED BY <3>1, <3>2
      <2>5. SumOver(d, Named \cup {p}) = SumOver(c, Named) + used
            BY <1>5, <2>2, <2>4
      <2> QED BY <1>3, <2>1, <2>3, <2>5
<1> QED BY <1>2, <1>3, <1>4, <1>5

(* A counter wrapped twice has wrapped once.                               *)
LEMMA WrapAgain ==
  ASSUME NEW a \in InSpace, NEW b \in Nat, NEW u \in Nat, b + u \in InSpace
  PROVE  Wrap(Wrap(a + b) + u) = Wrap(a + (b + u))
<1>1. /\ CounterSpace \in Nat \ {0} /\ a \in 0..CounterSpace - 1
      /\ b + u \in 0..CounterSpace - 1
      BY ProfileAssumption DEF InSpace
<1>2. b \in InSpace /\ u \in InSpace
      BY <1>1 DEF InSpace
<1>3. /\ Wrap(a + b) = IF a + b < CounterSpace THEN a + b ELSE a + b - CounterSpace
      /\ Wrap(a + (b + u)) = IF a + (b + u) < CounterSpace THEN a + (b + u)
                             ELSE a + (b + u) - CounterSpace
      /\ Wrap(a + b) \in InSpace
      BY <1>2, WrapFacts
<1>4. Wrap(Wrap(a + b) + u) = IF Wrap(a + b) + u < CounterSpace THEN Wrap(a + b) + u
                              ELSE Wrap(a + b) + u - CounterSpace
      BY <1>2, <1>3, WrapFacts
<1>5. CASE a + b < CounterSpace
      <2>1. Wrap(a + b) = a + b
            BY <1>3, <1>5
      <2> QED BY <1>1, <1>3, <1>4, <2>1
<1>6. CASE ~ a + b < CounterSpace
      <2>1. Wrap(a + b) = a + b - CounterSpace
            BY <1>3, <1>6
      <2>2. a + b - CounterSpace + u < CounterSpace
            BY <1>1
      <2> QED BY <1>1, <1>3, <1>4, <1>6, <2>1, <2>2
<1> QED BY <1>5, <1>6

(* What a phase really uses, it is charged with in the history.            *)
LEMMA UsedFacts ==
  ASSUME truth \in Metrics, NEW p \in Named, NEW calls \in Nat, NEW requested \in Nat,
         NEW released \in Nat, Used(p, calls, requested, released), UNCHANGED baseline
  PROVE  /\ truth' \in Metrics /\ \A q \in Named : q # p => truth'[q] = truth[q]
         /\ truth'[p]["calls"] = truth[p]["calls"] + calls
         /\ truth'[p]["requested"] = truth[p]["requested"] + requested
         /\ truth'[p]["released"] = truth[p]["released"] + released
         /\ truth'[p]["clock"] = truth[p]["clock"]
         /\ \A f \in Fields : Really(f) \in Nat /\ Really(f)' \in Nat
         /\ Really("calls")' = Really("calls") + calls
         /\ Really("requested")' = Really("requested") + requested
         /\ Really("released")' = Really("released") + released
         /\ Really("clock")' = Really("clock")
<1>1. truth[p] \in [Fields -> Nat]
      BY DEF Metrics
<1>2. /\ truth'[p] = [truth[p] EXCEPT !.calls = @ + calls, !.requested = @ + requested,
                                      !.released = @ + released]
      /\ \A q \in Named : q # p => truth'[q] = truth[q]
      /\ DOMAIN truth' = Named
      BY DEF Used, Metrics
<1>3. /\ truth'[p] \in [Fields -> Nat]
      /\ truth'[p]["calls"] = truth[p]["calls"] + calls
      /\ truth'[p]["requested"] = truth[p]["requested"] + requested
      /\ truth'[p]["released"] = truth[p]["released"] + released
      /\ truth'[p]["clock"] = truth[p]["clock"]
      <2>1. /\ DOMAIN truth[p] = Fields /\ {"calls", "requested", "released", "clock"} = Fields
            /\ \A f \in Fields : truth[p][f] \in Nat
            BY <1>1 DEF Fields
      <2>2. /\ DOMAIN truth'[p] = Fields
            /\ \A f \in Fields : truth'[p][f] = CASE f = "calls" -> truth[p][f] + calls
                                                [] f = "requested" -> truth[p][f] + requested
                                                [] f = "released" -> truth[p][f] + released
                                                [] f = "clock" -> truth[p][f]
            BY <1>2, <2>1
      <2>3. \A f \in Fields : truth'[p][f] \in Nat
            BY <2>1, <2>2
      <2>4. truth'[p] = [f \in Fields |-> truth'[p][f]]
            BY <1>2, <2>1
      <2>5. truth'[p] \in [Fields -> Nat]
            BY <2>3, <2>4
      <2> QED BY <2>1, <2>2, <2>5
<1>4. truth' \in Metrics
      <2>1. \A q \in Named : truth'[q] \in [Fields -> Nat]
            BY <1>2, <1>3 DEF Metrics
      <2>2. truth' = [q \in Named |-> truth'[q]]
            BY <1>2 DEF Used, Metrics
      <2> QED BY <2>1, <2>2 DEF Metrics
<1>5. \A f \in Fields : Really(f) \in Nat /\ Really(f)' \in Nat
      BY <1>4, InAllFacts DEF Really
<1>6. {"calls", "requested", "released", "clock"} \subseteq Fields
      BY DEF Fields
<1>7. ASSUME NEW f \in Fields, NEW used \in Nat, truth'[p][f] = truth[p][f] + used
      PROVE  InAll(truth', f) = InAll(truth, f) + used
      <2>1. \A q \in Named : q # p => truth'[q][f] = truth[q][f]
            BY <1>2
      <2> QED BY <1>4, <1>7, <2>1, InAllFacts
<1>8. truth[p]["clock"] = truth[p]["clock"] + 0 /\ Really("clock") = Really("clock") + 0
      BY <1>1, <1>5 DEF Fields
<1> QED BY <1>2, <1>3, <1>4, <1>5, <1>6, <1>7, <1>8 DEF Really

-----------------------------------------------------------------------------
(* The allocator. *)

(* Whatever calls are counted, the memory was requested and released.      *)
LEMMA OperationKeeps ==
  ASSUME ProfileInv, Working, Operated,
         NEW calls \in Nat, NEW requested \in Sizes \cup {0}, NEW released \in Sizes \cup {0},
         calls <= requested, Used(Compiler[at], calls, requested, released),
         owned' = owned - released + requested, owned' \in InSpace,
         result' \in InSpace, result' <= owned',
         highest' \in InSpace, owned' <= highest',
         counter' \in Counters,
         counter'.calls = Wrap(counter.calls + calls),
         counter'.requested = Wrap(counter.requested + requested),
         counter'.released = Wrap(counter.released + released),
         counter'.clock = counter.clock, counter'.live = owned', counter'.peak = highest'
  PROVE  ProfileInv'
<1> DEFINE p == Compiler[at]
<1>1. /\ stage = "compiling" /\ inPhase /\ job = "allocation" /\ ops < MaxOps /\ ops' = ops + 1
      /\ UNCHANGED <<job, stage, done, at, inPhase, starts, values, sequence, failed,
                     baseline, verdict>>
      BY DEF Working, Operated
<1>2. /\ CounterSpace \in Nat \ {0} /\ MaxOps \in Nat /\ Sizes \subseteq 1..CounterSpace - 1
      /\ requested \in Nat /\ released \in Nat
      BY ProfileAssumption
<1>3. ProfileTypeOK /\ StageOK /\ MemoryOK /\ ClockOK /\ ExactInside /\ FailedOK
      BY DEF ProfileInv
<1>4. p \in Named /\ truth \in Metrics /\ values \in Metrics /\ starts \in Metrics
      BY <1>3, PhaseFacts DEF ProfileTypeOK
<1> HIDE DEF p
<1>5. /\ truth' \in Metrics /\ \A q \in Named : q # p => truth'[q] = truth[q]
      /\ truth'[p]["calls"] = truth[p]["calls"] + calls
      /\ truth'[p]["requested"] = truth[p]["requested"] + requested
      /\ truth'[p]["released"] = truth[p]["released"] + released
      /\ truth'[p]["clock"] = truth[p]["clock"]
      /\ \A f \in Fields : Really(f) \in Nat /\ Really(f)' \in Nat
      /\ Really("calls")' = Really("calls") + calls
      /\ Really("requested")' = Really("requested") + requested
      /\ Really("released")' = Really("released") + released
      /\ Really("clock")' = Really("clock")
      <2>1. Used(p, calls, requested, released)
            BY DEF p
      <2> QED BY <1>1, <1>2, <1>4, <2>1, UsedFacts
<1>6. ProfileTypeOK'
      BY <1>1, <1>2, <1>3, <1>5 DEF ProfileTypeOK
<1>7. StageOK' /\ ClockOK' /\ ExactOutside'
      BY <1>1, <1>3, <1>5 DEF StageOK, ClockOK, ExactOutside
<1>8. MemoryOK'
      <2>1. owned \in Int /\ baseline.live \in Int
            BY <1>3 DEF ProfileTypeOK, Counters, InSpace
      <2>2. /\ owned = baseline.live + Really("requested") - Really("released")
            /\ Really("calls") <= Really("requested")
            BY <1>3 DEF MemoryOK
      <2>3. Really("requested") \in Nat /\ Really("released") \in Nat /\ Really("calls") \in Nat
            BY <1>5 DEF Fields
      <2>4. /\ owned' = baseline'.live + Really("requested")' - Really("released")'
            /\ Really("calls")' <= Really("requested")'
            BY <1>1, <1>2, <1>5, <2>1, <2>2, <2>3
      <2> QED BY <1>1, <2>4 DEF MemoryOK
<1>9. Overflowed => Overflowed'
      <2>1. \A f \in {"requested", "released"} :
              baseline[f] \in Int /\ baseline'[f] = baseline[f]
              /\ Really(f) \in Nat /\ Really(f)' \in Nat /\ Really(f)' >= Really(f)
            <3>1. baseline.requested \in Int /\ baseline.released \in Int
                  BY <1>3 DEF ProfileTypeOK, Counters, InSpace
            <3>2. \A f \in {"requested", "released"} : Really(f) \in Nat /\ Really(f)' \in Nat
                  BY <1>5 DEF Fields
            <3>3. \A f \in {"requested", "released"} : Really(f)' >= Really(f)
                  BY <1>2, <1>5, <3>2
            <3> QED BY <1>1, <3>1, <3>2, <3>3
      <2> QED BY <1>2, <2>1 DEF Overflowed
<1>10. FailedOK' /\ Truthful' /\ CleanAccepted'
      BY <1>1, <1>3, <1>9 DEF FailedOK, StageOK, Truthful, CleanAccepted
<1>11. ASSUME ~ failed PROVE ExactInside'
      <2> DEFINE used(f) == CASE f = "calls" -> calls [] f = "requested" -> requested
                              [] f = "released" -> released
                 start == starts[p]
      <2>1. PICK s \in 0..CounterSpace :
              /\ Sizes \subseteq 1..s /\ MaxOps * s < CounterSpace
              /\ \A f \in Counted : Since(f) <= ops * s
            BY <1>1, <1>3, <1>11 DEF ExactInside
      <2>2. /\ \A q \in Named : q # p => values[q] = truth[q]
            /\ \A f \in Fields : Since(f) >= 0
            /\ \A f \in Counted :
                 /\ start[f] \in InSpace /\ start[f] + Since(f) = baseline[f] + Really(f)
                 /\ counter[f] = Wrap(start[f] + Since(f))
            /\ start["clock"] + Since("clock") = counter.clock
            BY <1>1, <1>3, <1>11 DEF ExactInside, p
      <2>3. \A f \in Fields : Since(f) \in Int /\ truth[p][f] \in Nat /\ values[p][f] \in Nat
            BY <1>4 DEF Since, Metrics, p
      <2>4. \A f \in Counted : used(f) \in Nat /\ used(f) <= s /\ f \in Fields
            BY <1>2, <2>1 DEF Counted, Fields
      <2>5. /\ \A f \in Counted : Since(f)' = Since(f) + used(f)
            /\ Since("clock")' = Since("clock")
            <3>1. \A f \in Counted : truth'[p][f] = truth[p][f] + used(f)
                  BY <1>5 DEF Counted
            <3>2. \A f \in Fields : Since(f)' = truth'[p][f] - values[p][f]
                                     /\ Since(f) = truth[p][f] - values[p][f]
                  BY <1>1 DEF Since, p
            <3> HIDE DEF used
            <3>3. \A f \in Counted : Since(f)' = Since(f) + used(f)
                  BY <2>3, <2>4, <3>1, <3>2
            <3> QED BY <1>5, <3>2, <3>3 DEF Fields
      <2>6. \A f \in Counted : counter'[f] = Wrap(counter[f] + used(f))
            BY DEF Counted
      <2>7. \A f \in Counted : Really(f)' = Really(f) + used(f)
            BY <1>5 DEF Counted
      <2>8. \A f \in Counted : baseline[f] \in Int
            <3>1. baseline.calls \in Int /\ baseline.requested \in Int /\ baseline.released \in Int
                  BY <1>3 DEF ProfileTypeOK, Counters, InSpace
            <3> QED BY <3>1 DEF Counted
      <2> HIDE DEF used, start
      <2>9. ASSUME NEW f \in Counted
            PROVE  /\ Since(f)' <= ops' * s
                   /\ start[f] + Since(f)' = baseline[f] + Really(f)'
                   /\ counter'[f] = Wrap(start[f] + Since(f)')
            <3>1. /\ ops \in Nat /\ s \in Nat /\ f \in Fields /\ used(f) \in Nat /\ used(f) <= s
                  /\ Since(f) \in Nat /\ Since(f) <= ops * s /\ Since(f)' = Since(f) + used(f)
                  BY <1>3, <2>1, <2>2, <2>3, <2>4, <2>5 DEF ProfileTypeOK
            <3>2. ops * s + s <= MaxOps * s /\ (ops + 1) * s = ops * s + s /\ ops * s \in Nat
                  BY <1>1, <1>2, <3>1
            <3>3. MaxOps * s \in Nat
                  BY <1>2, <3>1
            <3>4. Since(f)' <= ops' * s /\ Since(f) + used(f) <= MaxOps * s
                  BY <1>1, <3>1, <3>2, <3>3
            <3>5. Since(f) + used(f) \in InSpace
                  BY <1>2, <2>1, <3>1, <3>3, <3>4 DEF InSpace
            <3>6. start[f] \in InSpace /\ counter[f] = Wrap(start[f] + Since(f))
                  BY <2>2
            <3>7. counter'[f] = Wrap(start[f] + Since(f)')
                  <4>1. Wrap(Wrap(start[f] + Since(f)) + used(f)) = Wrap(start[f] + (Since(f) + used(f)))
                        BY <3>1, <3>5, <3>6, WrapAgain
                  <4> QED BY <2>6, <3>1, <3>6, <4>1
            <3>8. start[f] \in Int /\ baseline[f] \in Int /\ Really(f) \in Int
                  BY <1>5, <2>8, <3>1, <3>6 DEF InSpace
            <3>9. start[f] + Since(f)' = baseline[f] + Really(f)'
                  BY <2>2, <2>7, <3>1, <3>8
            <3> QED BY <3>4, <3>7, <3>9
      <2>10. \A f \in Fields : Since(f)' >= 0
            <3>1. \A f \in Fields : f \in Counted \/ f = "clock"
                  BY DEF Fields, Counted
            <3>2. \A f \in Counted : Since(f)' >= 0
                  BY <2>2, <2>3, <2>4, <2>5
            <3>3. Since("clock")' >= 0
                  BY <2>2, <2>5 DEF Fields
            <3> QED BY <3>1, <3>2, <3>3
      <2>11. start["clock"] + Since("clock")' = counter'.clock
            BY <2>2, <2>5
      <2>12. \E t \in 0..CounterSpace :
               /\ Sizes \subseteq 1..t /\ MaxOps * t < CounterSpace
               /\ \A f \in Counted : Since(f)' <= ops' * t
            BY <2>1, <2>9
      <2>13. starts' = starts /\ baseline' = baseline /\ values' = values /\ at' = at
            BY <1>1
      <2> QED BY <1>5, <2>2, <2>9, <2>10, <2>11, <2>12, <2>13 DEF ExactInside, p, start
<1>12. ExactInside'
      <2>1. failed => ExactInside'
            BY <1>1 DEF ExactInside
      <2> QED BY <1>11, <2>1
<1> QED BY <1>6, <1>7, <1>8, <1>10, <1>12 DEF ProfileInv

(* The counters after a block was allocated, if it is in the memory...     *)
LEMMA AllocatedFacts ==
  ASSUME NEW c \in Counters, NEW size \in 1..CounterSpace - 1, c.live + size \in InSpace
  PROVE  LET d == RecordAllocation(c, size)
         IN /\ d \in Counters
            /\ d.calls = Wrap(c.calls + 1) /\ d.requested = Wrap(c.requested + size)
            /\ d.released = c.released /\ d.clock = c.clock
            /\ d.live = c.live + size /\ d.peak = Max({c.peak, c.live + size})
<1> DEFINE d == RecordAllocation(c, size)
<1>1. /\ c.calls \in InSpace /\ c.requested \in InSpace /\ c.released \in InSpace
      /\ c.clock \in InSpace /\ c.live \in InSpace /\ c.peak \in InSpace
      /\ size \in InSpace /\ 1 \in InSpace
      BY ProfileAssumption DEF Counters, InSpace
<1>2. /\ Wrap(c.calls + 1) \in InSpace /\ Wrap(c.requested + size) \in InSpace
      /\ Wrap(c.live + size) = c.live + size
      <2>1. /\ Wrap(c.calls + 1) \in InSpace /\ Wrap(c.requested + size) \in InSpace
            /\ Wrap(c.live + size) = IF c.live + size < CounterSpace THEN c.live + size
                                     ELSE c.live + size - CounterSpace
            BY <1>1, WrapFacts
      <2>2. c.live + size < CounterSpace
            BY ProfileAssumption DEF InSpace
      <2> QED BY <2>1, <2>2
<1>3. Max({c.peak, c.live + size}) \in InSpace
      <2>1. c.peak \in Int /\ c.live + size \in Int
            BY <1>1 DEF InSpace
      <2> QED BY <1>1, <2>1, Extremes
<1>4. d = [c EXCEPT !.calls = Wrap(c.calls + 1), !.requested = Wrap(c.requested + size),
                    !.live = c.live + size, !.peak = Max({c.peak, c.live + size})]
      BY <1>2 DEF RecordAllocation
<1>5. /\ d.calls = Wrap(c.calls + 1) /\ d.requested = Wrap(c.requested + size)
      /\ d.released = c.released /\ d.clock = c.clock
      /\ d.live = c.live + size /\ d.peak = Max({c.peak, c.live + size})
      BY <1>4 DEF Counters
<1>6. d \in Counters
      BY <1>1, <1>2, <1>3, <1>4 DEF Counters
<1> QED BY <1>5, <1>6

(* ... and after one was released.                                         *)
LEMMA ReleasedFacts ==
  ASSUME NEW c \in Counters, NEW size \in InSpace, size <= c.live
  PROVE  LET d == RecordDeallocation(c, size)
         IN /\ d \in Counters
            /\ d.calls = c.calls /\ d.requested = c.requested
            /\ d.released = Wrap(c.released + size) /\ d.clock = c.clock
            /\ d.live = c.live - size /\ d.peak = c.peak
<1> DEFINE d == RecordDeallocation(c, size)
<1>1. /\ c.calls \in InSpace /\ c.requested \in InSpace /\ c.released \in InSpace
      /\ c.clock \in InSpace /\ c.live \in InSpace /\ c.peak \in InSpace
      BY DEF Counters
<1>2. Wrap(c.released + size) \in InSpace
      BY <1>1, WrapFacts
<1>3. c.live - size \in InSpace
      BY <1>1, ProfileAssumption DEF InSpace
<1>4. d = [c EXCEPT !.released = Wrap(c.released + size), !.live = c.live - size]
      BY DEF RecordDeallocation
<1>5. /\ d.calls = c.calls /\ d.requested = c.requested
      /\ d.released = Wrap(c.released + size) /\ d.clock = c.clock
      /\ d.live = c.live - size /\ d.peak = c.peak
      BY <1>4 DEF Counters
<1>6. d \in Counters
      BY <1>1, <1>2, <1>3, <1>4 DEF Counters
<1> QED BY <1>5, <1>6

(* Each call of the allocator is counted as what it does to the memory.    *)
LEMMA AllocatorKeeps ==
  ASSUME ProfileInv, Alloc \/ Dealloc \/ Realloc
  PROVE  ProfileInv'
<1>1. /\ CounterSpace \in Nat \ {0} /\ Sizes \subseteq 1..CounterSpace - 1
      /\ owned \in InSpace /\ highest \in InSpace /\ result \in InSpace
      /\ counter \in Counters /\ counter.live = owned /\ counter.peak = highest
      /\ owned <= highest /\ result <= owned
      BY ProfileAssumption DEF ProfileInv, ProfileTypeOK, MemoryOK
<1>2. owned \in Nat /\ highest \in Nat /\ result \in Nat
      BY <1>1 DEF InSpace
<1>3. /\ counter.calls \in InSpace /\ counter.requested \in InSpace
      /\ counter.released \in InSpace
      BY <1>1 DEF Counters
<1>4. \A a \in InSpace : Wrap(a) = a /\ Wrap(a + 0) = a
      BY <1>1 DEF Wrap, InSpace
<1>5. ASSUME NEW bytes \in Int, bytes >= 0, Holding(bytes)
      PROVE  /\ owned' = bytes /\ bytes \in InSpace
             /\ highest' \in InSpace /\ highest' = Max({highest, bytes})
             /\ highest <= highest' /\ bytes <= highest'
      <2>1. bytes < CounterSpace /\ owned' = bytes /\ highest' = Max({highest, bytes})
            BY <1>5 DEF Holding
      <2>2. highest' = IF highest >= bytes THEN highest ELSE bytes
            BY <1>2, <2>1, Extremes
      <2> QED BY <1>1, <1>2, <1>5, <2>1, <2>2 DEF InSpace
<1>6. CASE Alloc
      <2>1. PICK size \in Sizes :
              /\ Working /\ Operated /\ counter' = RecordAllocation(counter, size)
              /\ Holding(owned + size) /\ Used(Compiler[at], 1, size, 0)
              /\ result' \in {result} \cup
                             IF Compiler[at] = "emit" /\ result = 0 THEN {size} ELSE {}
            BY <1>6 DEF Alloc
      <2>2. size \in 1..CounterSpace - 1 /\ owned + size \in Int /\ owned + size >= 0
            BY <1>1, <1>2
      <2>3. /\ owned' = owned + size /\ owned + size \in InSpace
            /\ highest' \in InSpace /\ highest' = Max({highest, owned + size})
            /\ owned + size <= highest'
            BY <1>5, <2>1, <2>2
      <2>4. /\ counter' \in Counters
            /\ counter'.calls = Wrap(counter.calls + 1)
            /\ counter'.requested = Wrap(counter.requested + size)
            /\ counter'.released = counter.released /\ counter'.clock = counter.clock
            /\ counter'.live = owned' /\ counter'.peak = highest'
            BY <1>1, <2>1, <2>2, <2>3, AllocatedFacts
      <2>5. result' \in InSpace /\ result' <= owned'
            BY <1>1, <1>2, <2>1, <2>2, <2>3 DEF InSpace
      <2>6. /\ 1 \in Nat /\ size \in Sizes \cup {0} /\ 0 \in Sizes \cup {0} /\ 1 <= size
            /\ owned' = owned - 0 + size /\ owned' \in InSpace /\ owned' <= highest'
            /\ counter'.released = Wrap(counter.released + 0)
            BY <1>2, <1>3, <1>4, <2>2, <2>3, <2>4
      <2> QED BY <2>1, <2>3, <2>4, <2>5, <2>6, OperationKeeps
<1>7. CASE Dealloc
      <2>1. PICK size \in Sizes :
              /\ Working /\ Operated /\ result' = result /\ size <= owned - result
              /\ counter' = RecordDeallocation(counter, size)
              /\ Holding(owned - size) /\ Used(Compiler[at], 0, 0, size)
            BY <1>7 DEF Dealloc
      <2>2. size \in 1..CounterSpace - 1 /\ owned - size \in Int /\ owned - size >= result
            BY <1>1, <1>2, <2>1
      <2>3. /\ owned' = owned - size /\ owned - size \in InSpace
            /\ highest' \in InSpace /\ highest' = Max({highest, owned - size})
            /\ owned - size <= highest'
            BY <1>2, <1>5, <2>1, <2>2
      <2>4. highest' = highest
            BY <1>1, <1>2, <2>2, <2>3, Extremes
      <2>5. /\ counter' \in Counters
            /\ counter'.calls = counter.calls /\ counter'.requested = counter.requested
            /\ counter'.released = Wrap(counter.released + size) /\ counter'.clock = counter.clock
            /\ counter'.live = owned' /\ counter'.peak = highest'
            <3>1. size \in InSpace /\ size <= counter.live
                  BY <1>1, <1>2, <2>1, <2>2 DEF InSpace
            <3> QED BY <1>1, <2>1, <2>3, <2>4, <3>1, ReleasedFacts
      <2>6. /\ 0 \in Nat /\ size \in Sizes \cup {0} /\ 0 \in Sizes \cup {0} /\ 0 <= 0
            /\ owned' = owned - size + 0 /\ owned' \in InSpace /\ owned' <= highest'
            /\ result' \in InSpace /\ result' <= owned'
            /\ counter'.calls = Wrap(counter.calls + 0)
            /\ counter'.requested = Wrap(counter.requested + 0)
            <3>1. counter'.calls = Wrap(counter.calls + 0)
                  BY <1>3, <1>4, <2>5
            <3>2. counter'.requested = Wrap(counter.requested + 0)
                  BY <1>3, <1>4, <2>5
            <3>3. owned' = owned - size + 0 /\ result' \in InSpace /\ result' <= owned'
                  BY <1>1, <1>2, <2>1, <2>2, <2>3
            <3> QED BY <2>3, <3>1, <3>2, <3>3
      <2> QED BY <2>1, <2>3, <2>5, <2>6, OperationKeeps
<1>8. CASE Realloc
      <2>1. PICK old \in Sizes, new \in Sizes :
              /\ Working /\ Operated /\ result' = result /\ old <= owned - result
              /\ counter' = RecordReallocation(counter, old, new)
              /\ Holding(owned - old + new) /\ Used(Compiler[at], 1, new, old)
            BY <1>8 DEF Realloc
      <2>2. /\ old \in 1..CounterSpace - 1 /\ new \in 1..CounterSpace - 1
            /\ owned - old + new \in Int /\ owned - old >= result
            /\ owned - old + new >= 0 /\ result <= owned - old + new
            BY <1>1, <1>2, <2>1
      <2>3. /\ owned' = owned - old + new /\ owned - old + new \in InSpace
            /\ highest' \in InSpace /\ highest' = Max({highest, owned - old + new})
            /\ owned - old + new <= highest'
            BY <1>5, <2>1, <2>2
      <2> DEFINE freed == RecordDeallocation(counter, old)
      <2>4. /\ freed \in Counters
            /\ freed.calls = counter.calls /\ freed.requested = counter.requested
            /\ freed.released = Wrap(counter.released + old) /\ freed.clock = counter.clock
            /\ freed.live = owned - old /\ freed.peak = highest
            <3>1. old \in InSpace /\ old <= counter.live
                  BY <1>1, <1>2, <2>1, <2>2 DEF InSpace
            <3> QED BY <1>1, <3>1, ReleasedFacts
      <2>5. counter' = RecordAllocation(freed, new)
            BY <2>1 DEF RecordReallocation
      <2> HIDE DEF freed
      <2>6. /\ counter' \in Counters
            /\ counter'.calls = Wrap(counter.calls + 1)
            /\ counter'.requested = Wrap(counter.requested + new)
            /\ counter'.released = Wrap(counter.released + old) /\ counter'.clock = counter.clock
            /\ counter'.live = owned' /\ counter'.peak = highest'
            BY <2>2, <2>3, <2>4, <2>5, AllocatedFacts
      <2>7. /\ 1 \in Nat /\ new \in Sizes \cup {0} /\ old \in Sizes \cup {0} /\ 1 <= new
            /\ owned' \in InSpace /\ owned' <= highest'
            /\ result' \in InSpace /\ result' <= owned'
            BY <1>1, <1>2, <2>1, <2>2, <2>3
      <2> QED BY <2>1, <2>3, <2>6, <2>7, OperationKeeps
<1> QED BY <1>6, <1>7, <1>8

-----------------------------------------------------------------------------
(* Clocks and phases. *)

(* What holds as long as neither memory nor the tallies are touched.       *)
LEMMA QuietFacts ==
  ASSUME ProfileInv, UNCHANGED <<job, ops, owned, result, counter, baseline, truth, highest>>
  PROVE  /\ \A f : Really(f)' = Really(f)
         /\ MemoryOK' /\ ClockOK' /\ (Overflowed' <=> Overflowed)
<1>1. \A f : Really(f)' = Really(f)
      BY DEF Really
<1>2. MemoryOK /\ ClockOK
      BY DEF ProfileInv
<1>3. MemoryOK'
      BY <1>1, <1>2 DEF MemoryOK
<1>4. ClockOK'
      BY <1>1, <1>2 DEF ClockOK
<1>5. Overflowed' <=> Overflowed
      BY <1>1 DEF Overflowed
<1> QED BY <1>1, <1>3, <1>4, <1>5

(* A tick in a phase is charged to it, one between two phases to none.     *)
LEMMA TickKeeps ==
  ASSUME ProfileInv, Tick
  PROVE  ProfileInv'
<1> DEFINE p == Compiler[at]
<1>1. /\ job = "timing" /\ stage \in {"compiling", "completing", "dropping"}
      /\ counter.clock < MaxTicks /\ counter' = [counter EXCEPT !.clock = @ + 1]
      /\ truth' = IF stage = "compiling" /\ inPhase
                  THEN [truth EXCEPT ![p].clock = @ + 1] ELSE truth
      /\ UNCHANGED <<job, stage, done, at, inPhase, ops, owned, result, starts, values,
                     sequence, failed, baseline, verdict, highest>>
      BY DEF Tick
<1>2. /\ ProfileTypeOK /\ StageOK /\ MemoryOK /\ ClockOK /\ ExactInside /\ ExactOutside /\ FailedOK
      /\ counter \in Counters /\ truth \in Metrics /\ values \in Metrics /\ starts \in Metrics
      BY DEF ProfileInv, ProfileTypeOK
<1>3. p \in Named
      BY <1>2, PhaseFacts DEF ProfileTypeOK
<1>4. CounterSpace \in Nat /\ MaxTicks \in 0..CounterSpace - 1
      BY ProfileAssumption
<1>5. counter.clock \in Nat
      BY <1>2 DEF Counters, InSpace
<1>6. /\ counter'.clock = counter.clock + 1 /\ counter' \in Counters
      /\ counter'.live = counter.live /\ counter'.peak = counter.peak
      /\ counter'.calls = counter.calls /\ counter'.requested = counter.requested
      /\ counter'.released = counter.released
      BY <1>1, <1>2, <1>4, <1>5 DEF Counters, InSpace
<1>7. \A f \in Counted : counter'[f] = counter[f]
      BY <1>6 DEF Counted
<1> HIDE DEF p
<1>8. PICK ticks \in {0, 1} :
        /\ truth' \in Metrics /\ \A q \in Named : q # p => truth'[q] = truth[q]
        /\ \A f \in Counted : truth'[p][f] = truth[p][f]
        /\ truth'[p]["clock"] = truth[p]["clock"] + ticks
        /\ inPhase => ticks = 1
        /\ ~ inPhase => truth' = truth
      <2>1. CASE inPhase
            <3>1. stage = "compiling"
                  BY <1>2, <2>1 DEF StageOK
            <3>2. truth' = [truth EXCEPT ![p].clock = @ + 1]
                  BY <1>1, <2>1, <3>1
            <3>3. truth[p] \in [Fields -> Nat] /\ "clock" \in Fields
                  BY <1>2, <1>3 DEF Metrics, Fields
            <3>4. /\ truth'[p] = [truth[p] EXCEPT !.clock = @ + 1]
                  /\ \A q \in Named : q # p => truth'[q] = truth[q]
                  BY <1>2, <1>3, <3>2 DEF Metrics
            <3>5. /\ truth'[p] \in [Fields -> Nat]
                  /\ truth'[p]["clock"] = truth[p]["clock"] + 1
                  /\ \A f \in Fields : f # "clock" => truth'[p][f] = truth[p][f]
                  BY <3>3, <3>4
            <3>6. truth' \in Metrics
                  <4>1. \A q \in Named : truth'[q] \in [Fields -> Nat]
                        BY <1>2, <3>4, <3>5 DEF Metrics
                  <4>2. truth' = [q \in Named |-> truth'[q]]
                        BY <1>2, <3>2 DEF Metrics
                  <4> QED BY <4>1, <4>2 DEF Metrics
            <3>7. \A f \in Counted : f \in Fields /\ f # "clock"
                  BY DEF Counted, Fields
            <3> QED BY <2>1, <3>4, <3>5, <3>6, <3>7
      <2>2. CASE ~ inPhase
            <3>1. truth' = truth
                  BY <1>1, <2>2
            <3>2. truth[p]["clock"] \in Nat
                  BY <1>2, <1>3 DEF Metrics, Fields
            <3> QED BY <1>2, <2>2, <3>1, <3>2
      <2> QED BY <2>1, <2>2
<1>9. /\ \A f \in Counted : Really(f)' = Really(f)
      /\ Really("clock")' = Really("clock") + ticks /\ Really("clock") \in Nat
      <2>1. "clock" \in Fields /\ \A f \in Counted : f \in Fields
            BY DEF Counted, Fields
      <2>2. ASSUME NEW f \in Fields, NEW used \in Nat, truth'[p][f] = truth[p][f] + used
            PROVE  InAll(truth', f) = InAll(truth, f) + used /\ InAll(truth, f) \in Nat
            <3>1. \A q \in Named : q # p => truth'[q][f] = truth[q][f]
                  BY <1>8
            <3> QED BY <1>2, <1>3, <1>8, <2>2, <3>1, InAllFacts
      <2>3. ASSUME NEW f \in Counted PROVE InAll(truth', f) = InAll(truth, f)
            <3>1. truth'[p][f] = truth[p][f] + 0
                  BY <1>2, <1>3, <1>8, <2>1 DEF Metrics
            <3>2. InAll(truth', f) = InAll(truth, f) + 0 /\ InAll(truth, f) \in Nat
                  BY <2>1, <2>2, <3>1
            <3> QED BY <3>2
      <2>4. InAll(truth', "clock") = InAll(truth, "clock") + ticks /\ InAll(truth, "clock") \in Nat
            BY <1>8, <2>1, <2>2
      <2> QED BY <2>3, <2>4 DEF Really
<1>10. ProfileTypeOK' /\ StageOK'
      BY <1>1, <1>2, <1>6, <1>8 DEF ProfileTypeOK, StageOK
<1>11. MemoryOK' /\ Overflowed' = Overflowed
      <2>1. /\ Really("calls")' = Really("calls") /\ Really("requested")' = Really("requested")
            /\ Really("released")' = Really("released")
            BY <1>9 DEF Counted
      <2>2. MemoryOK'
            BY <1>1, <1>2, <1>6, <1>9, <2>1 DEF MemoryOK
      <2>3. \A f \in {"requested", "released"} : Really(f)' = Really(f) /\ baseline'[f] = baseline[f]
            BY <1>1, <2>1
      <2> QED BY <2>2, <2>3 DEF Overflowed
<1>12. ClockOK'
      BY <1>2, <1>4, <1>5, <1>1, <1>6, <1>8, <1>9 DEF ClockOK
<1>13. ExactOutside'
      <2> SUFFICES ASSUME ~ failed, ~ inPhase
                   PROVE  values = truth' /\ \A f \in Counted : counter'[f] = baseline[f] + Really(f)'
          BY <1>1 DEF ExactOutside
      <2> QED BY <1>1, <1>2, <1>7, <1>8, <1>9 DEF ExactOutside
<1>14. ExactInside'
      <2> SUFFICES ASSUME ~ failed, inPhase PROVE ExactInside'
          BY <1>1 DEF ExactInside
      <2> DEFINE start == starts[p]
      <2>1. /\ \A q \in Named : q # p => values[q] = truth[q]
            /\ \A f \in Fields : Since(f) >= 0
            /\ \A f \in Counted :
                 /\ start[f] \in InSpace /\ start[f] + Since(f) = baseline[f] + Really(f)
                 /\ counter[f] = Wrap(start[f] + Since(f))
            /\ \E s \in 0..CounterSpace :
                 /\ Sizes \subseteq 1..s /\ MaxOps * s < CounterSpace
                 /\ \A f \in Counted : Since(f) <= ops * s
            /\ start["clock"] + Since("clock") = counter.clock
            BY <1>2 DEF ExactInside, p
      <2>2. \A f \in Counted : Since(f)' = Since(f) /\ f \in Fields
            BY <1>1, <1>8 DEF Since, p, Counted, Fields
      <2>3. Since("clock")' = Since("clock") + 1 /\ Since("clock") \in Int /\ start["clock"] \in Int
            <3>1. /\ truth[p]["clock"] \in Nat /\ values[p]["clock"] \in Nat
                  /\ start["clock"] \in Nat
                  BY <1>2, <1>3 DEF Metrics, Fields
            <3> QED BY <1>1, <1>8, <3>1 DEF Since, p
      <2>4. \A f \in Fields : f \in Counted \/ f = "clock"
            BY DEF Fields, Counted
      <2>5. \A f \in Fields : Since(f)' >= 0
            <3>1. "clock" \in Fields
                  BY DEF Fields
            <3> QED BY <2>1, <2>2, <2>3, <2>4, <3>1
      <2>6. start["clock"] + Since("clock")' = counter'.clock
            BY <1>5, <1>6, <2>1, <2>3
      <2>7. \A f \in Counted :
              /\ start[f] \in InSpace /\ start[f] + Since(f)' = baseline[f] + Really(f)'
              /\ counter'[f] = Wrap(start[f] + Since(f)')
            BY <1>7, <1>9, <2>1, <2>2
      <2>8. \A q \in Named : q # p => values[q] = truth'[q]
            BY <1>8, <2>1
      <2> QED BY <1>1, <2>1, <2>2, <2>5, <2>6, <2>7, <2>8 DEF ExactInside, p
<1>15. FailedOK' /\ Truthful' /\ CleanAccepted'
      <2>1. verdict = "none" /\ stage # "over" /\ stage # "reporting"
            BY <1>1, <1>2 DEF StageOK
      <2> QED BY <1>1, <1>2, <1>11, <2>1 DEF FailedOK, Truthful, CleanAccepted
<1> QED BY <1>10, <1>11, <1>12, <1>13, <1>14, <1>15 DEF ProfileInv

(* When a phase starts the readings are those of now, and nothing has been *)
(* used since.                                                             *)
LEMMA StartKeeps ==
  ASSUME ProfileInv, PhaseStarted
  PROVE  ProfileInv'
<1> DEFINE p == Compiler[at]
<1>1. /\ stage = "compiling" /\ ~ inPhase /\ inPhase' = TRUE
      /\ sequence' = Started(sequence, p)
      /\ starts' = [starts EXCEPT ![p] = Snapshot(counter)]
      /\ UNCHANGED <<job, stage, done, at, ops, owned, result, counter, values, failed,
                     baseline, verdict, truth, highest>>
      BY DEF PhaseStarted
<1>2. /\ ProfileTypeOK /\ StageOK /\ ExactOutside /\ FailedOK
      /\ counter \in Counters /\ truth \in Metrics /\ values \in Metrics /\ starts \in Metrics
      /\ at \in 1..6 /\ ops \in Nat
      BY PhaseFacts DEF ProfileInv, ProfileTypeOK
<1>3. p \in Named /\ p # "none"
      BY <1>2, PhaseFacts
<1>4. /\ \A f : Really(f)' = Really(f)
      /\ MemoryOK' /\ ClockOK' /\ (Overflowed' <=> Overflowed)
      BY <1>1, QuietFacts
<1>5. sequence = [next |-> at, active |-> "none", error |-> FALSE]
      BY <1>1, <1>2 DEF StageOK
<1>6. StageOK'
      <2>1. at \in DOMAIN Compiler
            BY <1>2, PhaseFacts
      <2>2. sequence' = [next |-> at, active |-> p, error |-> FALSE]
            BY <1>1, <1>5, <2>1 DEF Started
      <2>3. done < Compiles /\ verdict = "none"
            BY <1>1, <1>2 DEF StageOK
      <2> QED BY <1>1, <2>2, <2>3 DEF StageOK
<1> HIDE DEF p
<1>7. /\ \A f \in Fields : Snapshot(counter)[f] = counter[f]
      /\ Snapshot(counter) \in [Fields -> Nat]
      /\ \A f \in Fields : counter[f] \in InSpace
      <2>1. \A f \in Fields : counter[f] \in InSpace
            BY <1>2 DEF Counters, Fields
      <2>2. \A x \in InSpace : x \in Nat
            BY DEF InSpace
      <2> QED BY <2>1, <2>2 DEF Snapshot
<1>8. starts' \in Metrics /\ starts'[p] = Snapshot(counter)
      BY <1>1, <1>2, <1>3, <1>7 DEF Metrics
<1>9. ProfileTypeOK'
      BY <1>1, <1>2, <1>8 DEF ProfileTypeOK
<1>10. ExactOutside' /\ FailedOK' /\ Truthful' /\ CleanAccepted'
      <2>1. stage' # "over" /\ stage' # "reporting" /\ stage' # "dropping" /\ verdict' = "none"
            BY <1>1, <1>2 DEF StageOK
      <2>2. failed' => Overflowed'
            BY <1>1, <1>2, <1>4 DEF FailedOK
      <2> QED BY <1>1, <2>1, <2>2 DEF ExactOutside, FailedOK, Truthful, CleanAccepted
<1>11. ExactInside'
      <2> SUFFICES ASSUME ~ failed PROVE ExactInside'
          BY <1>1 DEF ExactInside
      <2>1. values = truth /\ \A f \in Counted : counter[f] = baseline[f] + Really(f)
            BY <1>1, <1>2 DEF ExactOutside
      <2>2. \A f \in Fields : Since(f)' = 0
            BY <1>1, <1>2, <1>3, <2>1 DEF Since, p, Metrics
      <2>3. \A f \in Counted : f \in Fields /\ "clock" \in Fields
            BY DEF Counted, Fields
      <2>4. \A a \in InSpace : a + 0 = a /\ Wrap(a + 0) = a
            BY ProfileAssumption DEF Wrap, InSpace
      <2>5. \A f \in Counted :
              /\ starts'[p][f] \in InSpace /\ starts'[p][f] + Since(f)' = baseline'[f] + Really(f)'
              /\ counter'[f] = Wrap(starts'[p][f] + Since(f)')
            BY <1>1, <1>4, <1>7, <1>8, <2>1, <2>2, <2>3, <2>4
      <2>6. starts'[p]["clock"] + Since("clock")' = counter'.clock
            BY <1>1, <1>7, <1>8, <2>2, <2>4 DEF Fields
      <2>7. PICK s \in 0..CounterSpace : Sizes \subseteq 1..s /\ MaxOps * s < CounterSpace
            BY ProfileAssumption
      <2>8. ops' * s \in Nat
            BY <1>1, <1>2, <2>7, ProfileAssumption
      <2>9. \A f \in Counted : Since(f)' <= ops' * s
            BY <2>2, <2>3, <2>8
      <2>10. \A f \in Fields : Since(f)' >= 0
            BY <2>2
      <2>11. p' = p
            BY <1>1 DEF p
      <2> QED BY <1>1, <2>1, <2>5, <2>6, <2>7, <2>9, <2>10, <2>11 DEF ExactInside, p
<1> QED BY <1>4, <1>6, <1>9, <1>10, <1>11 DEF ProfileInv

(* What is charged when the counters have moved on: the difference.        *)
LEMMA ChargedFacts ==
  ASSUME values \in Metrics, NEW p \in Named, NEW start \in [Fields -> InSpace],
         NEW end \in [Fields -> InSpace], ~ Backwards(start, end),
         AddDelta(p, start, end),
         \A f \in Fields : values[p][f] + end[f] - start[f] <= CounterSpace - 1
  PROVE  /\ values' \in Metrics /\ failed' = failed
         /\ \A q \in Named : q # p => values'[q] = values[q]
         /\ \A f \in Fields : values'[p][f] = values[p][f] + end[f] - start[f]
<1>1. values' = [values EXCEPT ![p] = Added(values[p], start, end)] /\ failed' = failed
      BY DEF AddDelta
<1>2. ASSUME NEW f \in Fields
      PROVE  /\ Added(values[p], start, end)[f] = values[p][f] + end[f] - start[f]
             /\ values[p][f] + end[f] - start[f] \in Nat
      <2>1. /\ values[p][f] \in Nat /\ end[f] \in Nat /\ start[f] \in Nat /\ start[f] <= end[f]
            /\ CounterSpace \in Nat
            BY ProfileAssumption DEF Metrics, InSpace, Backwards
      <2>2. Added(values[p], start, end)[f] =
              Min({values[p][f] + end[f] - start[f], CounterSpace - 1})
            BY DEF Added
      <2> DEFINE sum == values[p][f] + end[f] - start[f]
      <2>3. sum \in Nat /\ sum <= CounterSpace - 1 /\ CounterSpace - 1 \in Int
            BY <2>1
      <2> HIDE DEF sum
      <2>4. Min({sum, CounterSpace - 1}) = sum
            BY <2>3, Extremes
      <2> QED BY <2>2, <2>3, <2>4 DEF sum
<1>3. Added(values[p], start, end) = [f \in Fields |-> values[p][f] + end[f] - start[f]]
      <2>1. Added(values[p], start, end) = [f \in Fields |-> Added(values[p], start, end)[f]]
            BY DEF Added
      <2> QED BY <1>2, <2>1
<1>4. Added(values[p], start, end) \in [Fields -> Nat]
      BY <1>2, <1>3
<1> QED BY <1>1, <1>2, <1>4 DEF Metrics

(* Whatever the readings, what is charged is a number and an error stays.  *)
LEMMA DeltaFacts ==
  ASSUME values \in Metrics, failed \in BOOLEAN, NEW p \in Named, NEW start \in [Fields -> Nat],
         NEW end \in [Fields -> Nat], AddDelta(p, start, end)
  PROVE  values' \in Metrics /\ failed' = (failed \/ Backwards(start, end))
<1>1. CASE Backwards(start, end)
      BY <1>1 DEF AddDelta
<1>2. CASE ~ Backwards(start, end)
      <2>1. values' = [values EXCEPT ![p] = Added(values[p], start, end)] /\ failed' = failed
            BY <1>2 DEF AddDelta
      <2>2. ASSUME NEW f \in Fields PROVE Added(values[p], start, end)[f] \in Nat
            <3>1. /\ values[p][f] \in Nat /\ end[f] \in Nat /\ start[f] \in Nat /\ start[f] <= end[f]
                  /\ CounterSpace \in Nat \ {0}
                  BY <1>2, ProfileAssumption DEF Metrics, Backwards
            <3> DEFINE sum == values[p][f] + end[f] - start[f]
            <3>2. Added(values[p], start, end)[f] = Min({sum, CounterSpace - 1})
                  BY DEF Added
            <3>3. sum \in Int /\ CounterSpace - 1 \in Int /\ sum >= 0 /\ CounterSpace - 1 >= 0
                  BY <3>1
            <3> HIDE DEF sum
            <3>4. Min({sum, CounterSpace - 1}) = IF sum <= CounterSpace - 1 THEN sum
                                                 ELSE CounterSpace - 1
                  BY <3>3, Extremes
            <3> QED BY <3>2, <3>3, <3>4
      <2>3. Added(values[p], start, end) = [f \in Fields |-> Added(values[p], start, end)[f]]
            BY DEF Added
      <2>4. Added(values[p], start, end) \in [Fields -> Nat]
            BY <2>2, <2>3
      <2> QED BY <1>2, <2>1, <2>4 DEF Metrics
<1> QED BY <1>1, <1>2

(* The readings of the counters are numbers that fit into them.            *)
LEMMA SnapshotFacts ==
  ASSUME NEW c \in Counters
  PROVE  /\ Snapshot(c) \in [Fields -> InSpace] /\ Snapshot(c) \in [Fields -> Nat]
         /\ \A f \in Fields : Snapshot(c)[f] = c[f] /\ c[f] \in InSpace
<1>1. \A f \in Fields : c[f] \in InSpace
      BY DEF Counters, Fields
<1>2. \A x \in InSpace : x \in Nat
      BY DEF InSpace
<1> QED BY <1>1, <1>2 DEF Snapshot

(* The readings of a phase go backwards only if a counter passed its end;  *)
(* otherwise they differ by what the phase used.                           *)
LEMMA PhaseReadings ==
  ASSUME ProfileInv, inPhase, ~ failed
  PROVE  LET p == Compiler[at]
             start == starts[p]
             end == Snapshot(counter)
         IN /\ start \in [Fields -> InSpace]
            /\ Backwards(start, end) => Overflowed
            /\ ~ Backwards(start, end) =>
                 /\ \A f \in Fields : /\ values[p][f] + end[f] - start[f] = truth[p][f]
                                      /\ truth[p][f] <= CounterSpace - 1
                 /\ \A f \in Counted : counter[f] = baseline[f] + Really(f)
<1> DEFINE p == Compiler[at]
           start == starts[p]
           end == Snapshot(counter)
<1>1. /\ ProfileTypeOK /\ StageOK /\ MemoryOK /\ ClockOK /\ ExactInside
      /\ counter \in Counters /\ baseline \in Counters /\ baseline.calls = 0
      /\ truth \in Metrics /\ values \in Metrics /\ starts \in Metrics
      /\ at \in 1..6 /\ ops \in 0..MaxOps
      BY PhaseFacts DEF ProfileInv, ProfileTypeOK
<1>2. p \in Named
      BY <1>1, PhaseFacts
<1>3. CounterSpace \in Nat \ {0} /\ MaxOps \in Nat /\ MaxTicks \in 0..CounterSpace - 1
      BY ProfileAssumption
<1>4. /\ \A f \in Fields : Since(f) >= 0
      /\ \A f \in Counted :
           /\ start[f] \in InSpace /\ start[f] + Since(f) = baseline[f] + Really(f)
           /\ counter[f] = Wrap(start[f] + Since(f))
      /\ start["clock"] + Since("clock") = counter.clock
      BY <1>1 DEF ExactInside
<1>5. PICK s \in 0..CounterSpace :
        /\ Sizes \subseteq 1..s /\ MaxOps * s < CounterSpace
        /\ \A f \in Counted : Since(f) <= ops * s
      BY <1>1 DEF ExactInside
<1>6. \A f \in Fields : Since(f) = truth[p][f] - values[p][f]
      BY DEF Since
<1> HIDE DEF p
<1>7. \A f \in Fields : /\ truth[p][f] \in Nat /\ values[p][f] \in Nat /\ start[f] \in Nat
                        /\ Really(f) \in Nat /\ truth[p][f] <= Really(f)
      BY <1>1, <1>2, InAllFacts DEF Metrics, Really
<1> HIDE DEF start
<1>8. /\ \A f \in Fields : f \in Counted \/ f = "clock"
      /\ \A f \in Counted : f \in Fields
      /\ "clock" \in Fields /\ "calls" \in Counted /\ "requested" \in Counted
      BY DEF Fields, Counted
<1>9. \A f \in Fields : end[f] = counter[f] /\ counter[f] \in InSpace
      BY <1>1, SnapshotFacts
<1>10. \A f \in Fields : baseline[f] \in Nat
      BY <1>1 DEF Counters, Fields, InSpace
<1>11. ASSUME NEW f \in Counted
       PROVE  /\ Since(f) \in InSpace
              /\ counter[f] < start[f] <=> start[f] + Since(f) >= CounterSpace
              /\ start[f] + Since(f) < CounterSpace => counter[f] = start[f] + Since(f)
      <2>1. Since(f) \in Nat /\ Since(f) <= ops * s
            BY <1>4, <1>5, <1>6, <1>7, <1>8
      <2>2. ops * s <= MaxOps * s /\ ops * s \in Nat /\ MaxOps * s \in Nat
            BY <1>1, <1>3, <1>5
      <2>3. Since(f) \in InSpace
            BY <1>3, <1>5, <2>1, <2>2 DEF InSpace
      <2>4. start[f] \in InSpace /\ start[f] \in Nat /\ counter[f] = Wrap(start[f] + Since(f))
            BY <1>4, <1>7, <1>8
      <2>5. counter[f] = IF start[f] + Since(f) < CounterSpace THEN start[f] + Since(f)
                         ELSE start[f] + Since(f) - CounterSpace
            BY <2>3, <2>4, WrapFacts
      <2>6. Since(f) < CounterSpace
            BY <1>3, <2>3 DEF InSpace
      <2> QED BY <1>3, <2>1, <2>3, <2>4, <2>5, <2>6
<1>12. start["clock"] <= counter.clock /\ counter.clock \in InSpace
      BY <1>4, <1>6, <1>7, <1>8, <1>9
<1>13. start \in [Fields -> InSpace]
      <2>1. start["clock"] \in InSpace
            BY <1>3, <1>7, <1>8, <1>12 DEF InSpace
      <2>2. \A f \in Fields : start[f] \in InSpace
            BY <1>4, <1>8, <2>1
      <2>3. start \in [Fields -> Nat]
            BY <1>1, <1>2 DEF start, Metrics
      <2> QED BY <2>2, <2>3
<1>14. ASSUME Backwards(start, end) PROVE Overflowed
      <2>1. PICK f \in Fields : end[f] < start[f]
            BY <1>14 DEF Backwards
      <2>2. f # "clock"
            <3>1. ~ end["clock"] < start["clock"]
                  BY <1>7, <1>8, <1>9, <1>12, <1>3 DEF InSpace
            <3> QED BY <2>1, <3>1
      <2>3. f \in Counted /\ counter[f] < start[f]
            BY <1>8, <1>9, <2>1, <2>2
      <2>4. baseline[f] + Really(f) >= CounterSpace
            BY <1>4, <1>11, <2>3
      <2>5. CASE f = "calls"
            <3>1. Really("calls") >= CounterSpace
                  BY <1>1, <1>7, <1>8, <2>4, <2>5
            <3>2. Really("calls") <= Really("requested")
                  BY <1>1 DEF MemoryOK
            <3>3. baseline["requested"] + Really("requested") >= CounterSpace
                  BY <1>3, <1>7, <1>8, <1>10, <3>1, <3>2
            <3> QED BY <3>3 DEF Overflowed
      <2>6. CASE f # "calls"
            BY <2>3, <2>4, <2>6 DEF Overflowed, Counted
      <2> QED BY <2>5, <2>6
<1>15. ASSUME ~ Backwards(start, end)
       PROVE  /\ \A f \in Fields : /\ values[p][f] + end[f] - start[f] = truth[p][f]
                                   /\ truth[p][f] <= CounterSpace - 1
              /\ \A f \in Counted : counter[f] = baseline[f] + Really(f)
      <2>1. \A f \in Fields : ~ counter[f] < start[f]
            BY <1>9, <1>15 DEF Backwards
      <2>2. ASSUME NEW f \in Counted
            PROVE  /\ counter[f] = start[f] + Since(f) /\ counter[f] = baseline[f] + Really(f)
                   /\ truth[p][f] <= CounterSpace - 1
            <3>1. /\ f \in Fields /\ Since(f) \in Int /\ start[f] \in Nat /\ baseline[f] \in Nat
                  /\ Really(f) \in Nat /\ truth[p][f] \in Nat /\ truth[p][f] <= Really(f)
                  BY <1>6, <1>7, <1>8, <1>10
            <3>2. start[f] + Since(f) < CounterSpace
                  BY <1>3, <1>11, <2>1, <3>1
            <3>3. counter[f] = start[f] + Since(f) /\ start[f] + Since(f) = baseline[f] + Really(f)
                  BY <1>4, <1>11, <3>2
            <3> QED BY <1>3, <3>1, <3>2, <3>3
      <2>3. truth[p]["clock"] <= CounterSpace - 1
            <3>1. /\ truth[p]["clock"] \in Nat /\ Really("clock") \in Nat
                  /\ truth[p]["clock"] <= Really("clock") /\ counter.clock \in Nat
                  BY <1>7, <1>8, <1>12 DEF InSpace
            <3>2. Really("clock") <= counter.clock /\ counter.clock <= MaxTicks
                  BY <1>1 DEF ClockOK
            <3> QED BY <1>3, <3>1, <3>2
      <2>4. \A f \in Fields : counter[f] = start[f] + Since(f)
            <3>1. counter["clock"] = start["clock"] + Since("clock")
                  BY <1>4
            <3> QED BY <1>8, <2>2, <3>1
      <2>5. ASSUME NEW f \in Fields PROVE values[p][f] + end[f] - start[f] = truth[p][f]
            <3>1. Since(f) = truth[p][f] - values[p][f] /\ counter[f] = start[f] + Since(f)
                  BY <1>6, <2>4
            <3> QED BY <1>7, <1>9, <3>1
      <2>6. \A f \in Fields : truth[p][f] <= CounterSpace - 1
            BY <1>8, <2>2, <2>3
      <2> QED BY <2>2, <2>5, <2>6
<1> QED BY <1>13, <1>14, <1>15 DEF p, start

(* When it ends, the phase is charged what it used, or an error recorded.  *)
LEMMA FinishKeeps ==
  ASSUME ProfileInv, PhaseFinished
  PROVE  ProfileInv'
<1> DEFINE p == Compiler[at]
           start == starts[p]
           end == Snapshot(counter)
<1>1. /\ stage = "compiling" /\ inPhase /\ inPhase' = FALSE
      /\ sequence' = Finished(sequence, p) /\ AddDelta(p, start, end)
      /\ UNCHANGED <<job, done, ops, owned, result, counter, starts, baseline, truth, highest>>
      BY DEF PhaseFinished
<1>2. \/ p \in Fallible /\ stage' = "over" /\ verdict' = "error" /\ at' = at
      \/ at < 6 /\ at' = at + 1 /\ stage' = "compiling" /\ verdict' = verdict
      \/ at = 6 /\ at' = at /\ stage' = "completing" /\ verdict' = verdict
      BY <1>1, PhaseFacts DEF PhaseFinished, Fail
<1>3. /\ ProfileTypeOK /\ StageOK /\ FailedOK
      /\ counter \in Counters /\ truth \in Metrics /\ values \in Metrics /\ starts \in Metrics
      /\ at \in 1..6 /\ failed \in BOOLEAN
      BY PhaseFacts DEF ProfileInv, ProfileTypeOK
<1>4. p \in Named /\ p # "none"
      BY <1>3, PhaseFacts
<1>5. done < Compiles /\ verdict = "none"
      BY <1>1, <1>3 DEF StageOK
<1>6. /\ \A f : Really(f)' = Really(f)
      /\ MemoryOK' /\ ClockOK' /\ (Overflowed' <=> Overflowed)
      BY <1>1, QuietFacts
<1>7. StageOK'
      <2>1. sequence = [next |-> at, active |-> p, error |-> FALSE]
            BY <1>1, <1>3 DEF StageOK
      <2>2. sequence' = [next |-> at + 1, active |-> "none", error |-> FALSE]
            BY <1>1, <2>1 DEF Finished
      <2>3. Len(Compiler) = 6
            BY PhaseFacts
      <2>4. CASE stage' = "over"
            BY <1>1, <1>2, <2>4 DEF StageOK
      <2>5. CASE stage' = "compiling"
            BY <1>1, <1>2, <1>5, <2>2, <2>5 DEF StageOK
      <2>6. CASE stage' = "completing"
            BY <1>1, <1>2, <1>5, <2>2, <2>3, <2>6 DEF StageOK
      <2> QED BY <1>2, <2>4, <2>5, <2>6
<1> HIDE DEF p, start, end
<1>8. /\ start \in [Fields -> Nat] /\ end \in [Fields -> InSpace] /\ end \in [Fields -> Nat]
      BY <1>3, <1>4, SnapshotFacts DEF Metrics, start, end
<1>9. values' \in Metrics /\ failed' = (failed \/ Backwards(start, end))
      BY <1>1, <1>3, <1>4, <1>8, DeltaFacts
<1>10. at' \in 1..Len(Compiler)
      <2>1. at' \in 1..6
            BY <1>2, <1>3
      <2> QED BY <2>1, PhaseFacts
<1>11. ProfileTypeOK'
      <2>1. failed' \in BOOLEAN
            BY <1>3, <1>9
      <2>2. stage' \in {"compiling", "completing", "over"} /\ verdict' \in {"none", "error"}
            BY <1>2, <1>5
      <2> QED BY <1>1, <1>3, <1>9, <1>10, <2>1, <2>2 DEF ProfileTypeOK
<1>12. ASSUME ~ failed
       PROVE  /\ failed' => Overflowed
              /\ ~ failed' => values' = truth /\ \A f \in Counted : counter[f] = baseline[f] + Really(f)
      <2>1. /\ start \in [Fields -> InSpace]
            /\ Backwards(start, end) => Overflowed
            /\ ~ Backwards(start, end) =>
                 /\ \A f \in Fields : /\ values[p][f] + end[f] - start[f] = truth[p][f]
                                      /\ truth[p][f] <= CounterSpace - 1
                 /\ \A f \in Counted : counter[f] = baseline[f] + Really(f)
            BY <1>1, <1>12, PhaseReadings DEF p, start, end
      <2>2. ASSUME ~ failed' PROVE values' = truth
            <3>1. ~ Backwards(start, end)
                  BY <1>9, <2>2
            <3>2. \A f \in Fields : values[p][f] + end[f] - start[f] <= CounterSpace - 1
                  BY <2>1, <3>1
            <3>3. /\ \A q \in Named : q # p => values'[q] = values[q]
                  /\ \A f \in Fields : values'[p][f] = values[p][f] + end[f] - start[f]
                  BY <1>1, <1>3, <1>4, <1>8, <2>1, <3>1, <3>2, ChargedFacts
            <3>4. \A f \in Fields : values'[p][f] = truth[p][f]
                  BY <2>1, <3>1, <3>3
            <3>5. values'[p] \in [Fields -> Nat] /\ truth[p] \in [Fields -> Nat]
                  BY <1>3, <1>4, <1>9 DEF Metrics
            <3>6. values'[p] = truth[p]
                  BY <3>4, <3>5
            <3>7. \A q \in Named : q # p => values[q] = truth[q]
                  BY <1>1, <1>12 DEF ProfileInv, ExactInside, p
            <3>8. \A q \in Named : values'[q] = truth[q]
                  BY <3>3, <3>6, <3>7
            <3> QED BY <1>3, <1>9, <3>8 DEF Metrics
      <2>3. failed' <=> Backwards(start, end)
            BY <1>9, <1>12
      <2>4. failed' => Overflowed
            BY <2>1, <2>3
      <2>5. ~ failed' => \A f \in Counted : counter[f] = baseline[f] + Really(f)
            BY <2>1, <2>3
      <2> QED BY <2>2, <2>4, <2>5
<1>13. ExactOutside'
      <2>1. ~ failed' => ~ failed
            BY <1>9
      <2> QED BY <1>1, <1>6, <1>12, <2>1 DEF ExactOutside
<1>14. ExactInside'
      BY <1>1 DEF ExactInside
<1>15. FailedOK'
      <2>1. failed /\ stage # "over" => Overflowed
            BY <1>3 DEF FailedOK
      <2>2. stage' # "dropping" /\ stage' # "reporting"
            BY <1>2
      <2> QED BY <1>1, <1>3, <1>6, <1>12, <2>1, <2>2 DEF FailedOK
<1>16. Truthful' /\ CleanAccepted'
      <2>1. verdict' # "accepted"
            BY <1>2, <1>5
      <2>2. stage' = "over" => SourceFailed'
            BY <1>1, <1>2, <1>5 DEF SourceFailed, p
      <2> QED BY <2>1, <2>2 DEF Truthful, CleanAccepted
<1> QED BY <1>6, <1>7, <1>11, <1>13, <1>14, <1>15, <1>16 DEF ProfileInv

(* A compilation that is complete without an error has its phases behind   *)
(* it; the validator is ready for the next.                                *)
LEMMA CompleteKeeps ==
  ASSUME ProfileInv, CompleteCompile
  PROVE  ProfileInv'
<1>1. /\ stage = "completing" /\ sequence' = NewSequence /\ failed' = FALSE
      /\ UNCHANGED <<job, done, at, inPhase, ops, owned, result, counter, starts, values,
                     baseline, truth, highest>>
      BY DEF CompleteCompile, SequenceReset
<1>2. /\ ProfileTypeOK /\ StageOK /\ FailedOK /\ ExactOutside /\ failed \in BOOLEAN
      BY DEF ProfileInv, ProfileTypeOK
<1>3. /\ ~ inPhase /\ done < Compiles /\ verdict = "none"
      /\ sequence = [next |-> Len(Compiler) + 1, active |-> "none", error |-> FALSE]
      BY <1>1, <1>2 DEF StageOK
<1>4. CompleteSuccess(sequence)
      BY <1>3 DEF CompleteSuccess
<1>5. IF failed THEN stage' = "over" /\ verdict' = "error"
      ELSE stage' = "dropping" /\ verdict' = verdict
      BY <1>4 DEF CompleteCompile, Fail
<1>6. /\ \A f : Really(f)' = Really(f)
      /\ MemoryOK' /\ ClockOK' /\ (Overflowed' <=> Overflowed)
      BY <1>1, QuietFacts
<1>7. ProfileTypeOK'
      BY <1>1, <1>2, <1>3, <1>5 DEF ProfileTypeOK
<1>8. StageOK'
      BY <1>1, <1>3, <1>5 DEF StageOK
<1>9. ExactInside' /\ FailedOK'
      BY <1>1, <1>3 DEF ExactInside, FailedOK
<1>10. ExactOutside'
      <2> SUFFICES ASSUME ~ failed
                   PROVE  values = truth /\ \A f \in Counted : counter[f] = baseline[f] + Really(f)'
          BY <1>1, <1>5 DEF ExactOutside
      <2> QED BY <1>1, <1>2, <1>3, <1>6 DEF ExactOutside
<1>11. Truthful' /\ CleanAccepted'
      <2>1. failed => Overflowed
            BY <1>1, <1>2 DEF FailedOK
      <2> QED BY <1>3, <1>5, <1>6, <2>1 DEF Truthful, CleanAccepted
<1> QED BY <1>6, <1>7, <1>8, <1>9, <1>10, <1>11 DEF ProfileInv

(* The class file is released between two readings.  If the counter passes *)
(* its end there, what was released is missing from the sum of the phases, *)
(* and the total is short of all of the counter.                           *)
LEMMA DropKeeps ==
  ASSUME ProfileInv, DropResult
  PROVE  ProfileInv'
<1> DEFINE start == Snapshot(counter)
           end == Snapshot(counter')
<1>1. /\ stage = "dropping"
      /\ counter' = RecordDeallocation(counter, result)
      /\ Holding(owned - result) /\ result' = 0
      /\ Used("drop", 0, 0, result)
      /\ AddDelta("drop", start, end)
      /\ done' = done + 1
      /\ stage' = (IF done' = Compiles THEN "reporting" ELSE "compiling")
      /\ at' = 1 /\ ops' = 0
      /\ UNCHANGED <<job, inPhase, starts, sequence, baseline, verdict>>
      BY DEF DropResult
<1>2. /\ ProfileTypeOK /\ StageOK /\ MemoryOK /\ ClockOK /\ ExactOutside /\ FailedOK
      /\ counter \in Counters /\ baseline \in Counters
      /\ truth \in Metrics /\ values \in Metrics /\ starts \in Metrics
      /\ owned \in InSpace /\ highest \in InSpace /\ result \in InSpace
      /\ counter.live = owned /\ counter.peak = highest /\ owned <= highest /\ result <= owned
      /\ done \in 0..Compiles /\ failed \in BOOLEAN
      BY DEF ProfileInv, ProfileTypeOK, MemoryOK
<1>3. CounterSpace \in Nat \ {0} /\ Compiles \in Nat \ {0} /\ MaxOps \in Nat
      BY ProfileAssumption
<1>4. ~ inPhase /\ done < Compiles /\ verdict = "none" /\ sequence = NewSequence /\ ~ failed
      BY <1>1, <1>2 DEF StageOK, FailedOK
<1>5. values = truth /\ \A f \in Counted : counter[f] = baseline[f] + Really(f)
      BY <1>1, <1>2, <1>4 DEF ExactOutside
<1>6. "drop" \in Named /\ Len(Compiler) = 6
      BY PhaseFacts
<1> HIDE DEF start, end
<1>7. owned \in Nat /\ highest \in Nat /\ result \in Nat
      BY <1>2 DEF InSpace
<1>8. owned' = owned - result /\ highest' = highest
      <2>1. owned' = owned - result /\ highest' = Max({highest, owned - result})
            BY <1>1 DEF Holding
      <2>2. highest' = IF highest >= owned - result THEN highest ELSE owned - result
            BY <1>7, <2>1, Extremes
      <2> QED BY <1>2, <1>7, <2>1, <2>2
<1>9. /\ counter' \in Counters
      /\ counter'.calls = counter.calls /\ counter'.requested = counter.requested
      /\ counter'.released = Wrap(counter.released + result) /\ counter'.clock = counter.clock
      /\ counter'.live = owned' /\ counter'.peak = highest'
      BY <1>1, <1>2, <1>8, ReleasedFacts
<1>10. /\ truth' \in Metrics /\ \A q \in Named : q # "drop" => truth'[q] = truth[q]
       /\ truth'["drop"]["calls"] = truth["drop"]["calls"]
       /\ truth'["drop"]["requested"] = truth["drop"]["requested"]
       /\ truth'["drop"]["released"] = truth["drop"]["released"] + result
       /\ truth'["drop"]["clock"] = truth["drop"]["clock"]
       /\ \A f \in Fields : Really(f) \in Nat /\ Really(f)' \in Nat
       /\ Really("calls")' = Really("calls") /\ Really("requested")' = Really("requested")
       /\ Really("released")' = Really("released") + result
       /\ Really("clock")' = Really("clock")
      <2>1. /\ truth' \in Metrics /\ \A q \in Named : q # "drop" => truth'[q] = truth[q]
            /\ truth'["drop"]["calls"] = truth["drop"]["calls"] + 0
            /\ truth'["drop"]["requested"] = truth["drop"]["requested"] + 0
            /\ truth'["drop"]["released"] = truth["drop"]["released"] + result
            /\ truth'["drop"]["clock"] = truth["drop"]["clock"]
            /\ \A f \in Fields : Really(f) \in Nat /\ Really(f)' \in Nat
            /\ Really("calls")' = Really("calls") + 0
            /\ Really("requested")' = Really("requested") + 0
            /\ Really("released")' = Really("released") + result
            /\ Really("clock")' = Really("clock")
            BY <1>1, <1>2, <1>6, <1>7, UsedFacts
      <2>2. \A f \in Fields : truth["drop"][f] \in Nat
            BY <1>2, <1>6 DEF Metrics
      <2>3. \A m \in Nat : m + 0 = m
            OBVIOUS
      <2>4. "calls" \in Fields /\ "requested" \in Fields
            BY DEF Fields
      <2> QED BY <2>1, <2>2, <2>3, <2>4
<1>11. /\ start \in [Fields -> InSpace] /\ start \in [Fields -> Nat]
       /\ end \in [Fields -> InSpace] /\ end \in [Fields -> Nat]
       /\ \A f \in Fields : start[f] = counter[f] /\ end[f] = counter'[f]
       /\ \A f \in Fields : counter[f] \in InSpace
      BY <1>2, <1>9, SnapshotFacts DEF start, end
<1>12. \A f \in Fields : f = "calls" \/ f = "requested" \/ f = "released" \/ f = "clock"
      BY DEF Fields
<1>13. {"calls", "requested", "released", "clock"} \subseteq Fields /\ Counted \subseteq Fields
      BY DEF Fields, Counted
<1>14. values' \in Metrics /\ (failed' <=> Backwards(start, end)) /\ failed' \in BOOLEAN
      <2>1. values' \in Metrics /\ failed' = (failed \/ Backwards(start, end))
            BY <1>1, <1>2, <1>6, <1>11, DeltaFacts
      <2> QED BY <1>4, <2>1
<1>15. /\ counter.released \in Nat /\ counter.released < CounterSpace /\ result < CounterSpace
       /\ counter'.released = IF counter.released + result < CounterSpace
                              THEN counter.released + result
                              ELSE counter.released + result - CounterSpace
      <2>1. counter.released \in InSpace
            BY <1>11, <1>13
      <2> QED BY <1>2, <1>3, <1>9, <2>1, WrapFacts DEF InSpace
<1>16. Backwards(start, end) <=> counter.released + result >= CounterSpace
      <2>1. \A f \in Fields : f # "released" => ~ end[f] < start[f]
            <3>1. \A f \in Fields : counter[f] \in Int /\ ~ counter[f] < counter[f]
                  BY <1>11, <1>3 DEF InSpace
            <3>2. \A f \in Fields : f # "released" => end[f] = counter[f] /\ start[f] = counter[f]
                  BY <1>9, <1>11, <1>12
            <3> QED BY <3>1, <3>2
      <2>2. end["released"] < start["released"] <=> counter.released + result >= CounterSpace
            BY <1>3, <1>7, <1>11, <1>13, <1>15
      <2> QED BY <1>13, <2>1, <2>2 DEF Backwards
<1>17. /\ baseline.released \in Nat /\ baseline.requested \in Nat /\ baseline.live \in Nat
       /\ counter.released = baseline.released + Really("released")
      BY <1>2, <1>5 DEF Counters, InSpace, Counted
<1>18. MemoryOK'
      <2>1. /\ owned = baseline.live + Really("requested") - Really("released")
            /\ Really("calls") <= Really("requested")
            /\ job = "timing" => result = 0 /\ \A f \in Counted : Really(f) = 0
            BY <1>2 DEF MemoryOK
      <2>2. owned' = baseline'.live + Really("requested")' - Really("released")'
            BY <1>1, <1>7, <1>8, <1>10, <1>13, <1>17, <2>1
      <2>3. result' <= owned'
            BY <1>1, <1>2, <1>7, <1>8
      <2>4. job' = "timing" => ops' = 0 /\ result' = 0 /\ \A f \in Counted : Really(f)' = 0
            <3>1. SUFFICES ASSUME job = "timing" PROVE \A f \in Counted : Really(f)' = 0
                  BY <1>1
            <3>2. Really("released")' = 0 /\ Really("calls")' = 0 /\ Really("requested")' = 0
                  BY <1>10, <2>1, <3>1 DEF Counted
            <3> QED BY <3>2 DEF Counted
      <2>5. owned' <= highest'
            BY <1>2, <1>7, <1>8
      <2> QED BY <1>9, <1>10, <2>1, <2>2, <2>3, <2>4, <2>5 DEF MemoryOK
<1>19. ClockOK'
      BY <1>2, <1>9, <1>10 DEF ClockOK
<1>20. ProfileTypeOK'
      <2>1. owned' \in InSpace /\ highest' \in InSpace /\ result' \in InSpace /\ ops' \in 0..MaxOps
            BY <1>1, <1>2, <1>3, <1>7, <1>8 DEF InSpace
      <2>2. done' \in 0..Compiles /\ at' \in 1..Len(Compiler)
            /\ stage' \in {"compiling", "reporting"}
            BY <1>1, <1>2, <1>3, <1>4, <1>6
      <2> QED BY <1>1, <1>2, <1>9, <1>10, <1>14, <2>1, <2>2 DEF ProfileTypeOK
<1>21. StageOK'
      <2>1. sequence' = [next |-> 1, active |-> "none", error |-> FALSE]
            BY <1>1, <1>4 DEF NewSequence
      <2>2. done' \in 0..Compiles /\ (stage' = "compiling" => done' < Compiles)
            BY <1>1, <1>2, <1>3, <1>4
      <2>3. CASE done' = Compiles
            BY <1>1, <1>4, <2>2, <2>3 DEF StageOK
      <2>4. CASE done' # Compiles
            BY <1>1, <1>4, <2>1, <2>2, <2>4 DEF StageOK
      <2> QED BY <2>3, <2>4
<1>22. ASSUME ~ failed'
       PROVE  /\ values' = truth'
              /\ \A f \in Counted : counter'[f] = baseline'[f] + Really(f)'
      <2>1. ~ Backwards(start, end) /\ counter'.released = counter.released + result
            BY <1>3, <1>7, <1>14, <1>15, <1>16, <1>22
      <2>2. ASSUME NEW f \in Fields
            PROVE  values["drop"][f] + end[f] - start[f] = truth'["drop"][f]
            <3>1. truth["drop"][f] \in Nat /\ counter[f] \in Nat /\ counter'[f] \in Nat
                  BY <1>2, <1>6, <1>9, <1>11 DEF Metrics, InSpace
            <3>2. CASE f = "released"
                  BY <1>5, <1>7, <1>10, <1>11, <2>1, <3>1, <3>2
            <3>3. CASE f # "released"
                  <4>1. counter'[f] = counter[f] /\ truth'["drop"][f] = truth["drop"][f]
                        BY <1>9, <1>10, <1>12, <3>3
                  <4> QED BY <1>5, <1>11, <3>1, <4>1
            <3> QED BY <3>2, <3>3
      <2>3. \A f \in Counted : counter'[f] = baseline'[f] + Really(f)'
            <3>1. /\ counter.calls = baseline.calls + Really("calls")
                  /\ counter.requested = baseline.requested + Really("requested")
                  BY <1>5 DEF Counted
            <3>2. counter'.released = baseline.released + Really("released")'
                  BY <1>7, <1>10, <1>13, <1>17, <2>1
            <3> QED BY <1>1, <1>9, <1>10, <3>1, <3>2 DEF Counted
      <2>4. ASSUME NEW f \in Fields PROVE truth'["drop"][f] <= CounterSpace - 1
            <3>1. truth'["drop"][f] \in Nat /\ truth'["drop"][f] <= Really(f)' /\ Really(f)' \in Nat
                  BY <1>6, <1>10, InAllFacts DEF Metrics, Really
            <3>2. \A g \in Fields : baseline[g] \in Nat /\ counter'[g] \in 0..CounterSpace - 1
                  BY <1>2, <1>9, SnapshotFacts DEF InSpace
            <3>3. Really(f)' <= counter'[f]
                  <4>1. CASE f = "clock"
                        BY <1>19, <4>1 DEF ClockOK
                  <4>2. CASE f # "clock"
                        <5>1. f \in Counted
                              BY <1>12, <4>2 DEF Counted
                        <5>2. counter'[f] = baseline[f] + Really(f)'
                              BY <1>1, <2>3, <5>1
                        <5> QED BY <3>1, <3>2, <5>2
                  <4> QED BY <4>1, <4>2
            <3> QED BY <1>3, <3>1, <3>2, <3>3
      <2>5. /\ \A q \in Named : q # "drop" => values'[q] = values[q]
            /\ \A f \in Fields : values'["drop"][f] = values["drop"][f] + end[f] - start[f]
            <3>1. \A f \in Fields : values["drop"][f] + end[f] - start[f] <= CounterSpace - 1
                  BY <2>2, <2>4
            <3> QED BY <1>1, <1>2, <1>6, <1>11, <2>1, <3>1, ChargedFacts
      <2>6. values'["drop"] = truth'["drop"]
            <3>1. values'["drop"] \in [Fields -> Nat] /\ truth'["drop"] \in [Fields -> Nat]
                  BY <1>6, <1>10, <1>14 DEF Metrics
            <3> QED BY <2>2, <2>5, <3>1
      <2>7. \A q \in Named : values'[q] = truth'[q]
            BY <1>5, <1>10, <2>5, <2>6
      <2>8. values' = truth'
            BY <1>10, <1>14, <2>7 DEF Metrics
      <2> QED BY <2>3, <2>8
<1>23. ExactOutside'
      BY <1>22 DEF ExactOutside
<1>24. ExactInside'
      BY <1>1, <1>4 DEF ExactInside
<1>25. FailedOK'
      <2> SUFFICES ASSUME failed'
                   PROVE  Overflowed' /\ Attributed("released")' # Total("released")'
          BY <1>1 DEF FailedOK
      <2>1. Backwards(start, end) /\ counter.released + result >= CounterSpace
            BY <1>14, <1>16
      <2>2. values' = values
            BY <1>1, <2>1 DEF AddDelta
      <2>3. baseline'.released + Really("released")' >= CounterSpace
            BY <1>1, <1>3, <1>7, <1>10, <1>13, <1>17, <2>1
      <2>4. Attributed("released")' = Really("released")
            BY <1>5, <2>2 DEF Attributed, Really
      <2>5. Total("released")' = counter.released + result - CounterSpace - baseline.released
            <3>1. counter'.released = counter.released + result - CounterSpace
                  BY <1>3, <1>7, <1>15, <2>1
            <3>2. Total("released")' = counter'.released - baseline'.released
                  BY DEF Total
            <3>3. baseline'.released = baseline.released
                  BY <1>1
            <3> QED BY <1>3, <1>7, <1>15, <1>17, <3>1, <3>2, <3>3
      <2>6. Total("released")' = Really("released") + (result - CounterSpace)
            BY <1>3, <1>7, <1>10, <1>13, <1>17, <2>5
      <2>7. Attributed("released")' # Total("released")'
            BY <1>3, <1>7, <1>10, <1>13, <1>15, <2>4, <2>6
      <2> QED BY <2>3, <2>7 DEF Overflowed
<1>26. Truthful' /\ CleanAccepted'
      BY <1>1, <1>4 DEF Truthful, CleanAccepted
<1> QED BY <1>18, <1>19, <1>20, <1>21, <1>23, <1>24, <1>25, <1>26 DEF ProfileInv

-----------------------------------------------------------------------------
(* The end. *)

(* A profile with an error recorded does not add up; one without is exact, *)
(* and rejected only if memory was kept or a counter passed its end.       *)
LEMMA ReportKeeps ==
  ASSUME ProfileInv, Report
  PROVE  ProfileInv'
<1> DEFINE ok == IF job = "timing" THEN TimingAccepted ELSE AllocationAccepted
<1>1. /\ stage = "reporting"
      /\ UNCHANGED <<job, done, at, inPhase, ops, owned, result, counter, starts, values,
                     sequence, failed, baseline, truth, highest>>
      BY DEF Report
<1>2. /\ stage' = "over"
      /\ verdict' = IF ok THEN "accepted" ELSE "error"
      BY DEF Report, Fail
<1>3. /\ ProfileTypeOK /\ StageOK /\ FailedOK /\ ExactOutside /\ MemoryOK /\ ClockOK
      /\ counter \in Counters /\ baseline \in Counters /\ baseline.clock = 0
      /\ truth \in Metrics /\ values \in Metrics
      /\ job \in {"timing", "allocation"} /\ failed \in BOOLEAN
      BY DEF ProfileInv, ProfileTypeOK
<1>4. ~ inPhase
      BY <1>1, <1>3 DEF StageOK
<1>5. /\ \A f : Really(f)' = Really(f)
      /\ MemoryOK' /\ ClockOK' /\ (Overflowed' <=> Overflowed)
      BY <1>1, QuietFacts
<1>6. CounterSpace \in Nat \ {0}
      BY ProfileAssumption
<1>7. \A f \in Fields : Really(f) \in Nat
      BY <1>3, PhaseFacts, InAllFacts DEF Really
<1>8. \A f \in Fields : baseline[f] \in 0..CounterSpace - 1 /\ counter[f] \in Nat
      BY <1>3, SnapshotFacts DEF InSpace
<1>9. {"requested", "released"} \subseteq Counted /\ Counted \subseteq Fields /\ "clock" \in Fields
      BY DEF Counted, Fields
<1>10. ~ failed => values = truth /\ \A f \in Counted : counter[f] = baseline[f] + Really(f)
      BY <1>1, <1>3, <1>4 DEF ExactOutside
<1>11. failed => Overflowed /\ Attributed("released") # Total("released")
      BY <1>1, <1>3 DEF FailedOK
<1>12. job = "timing" => ~ Overflowed
      <2> SUFFICES ASSUME job = "timing" PROVE ~ Overflowed
          OBVIOUS
      <2>1. Really("requested") = 0 /\ Really("released") = 0
            BY <1>3, <1>9 DEF MemoryOK
      <2>2. \A f \in {"requested", "released"} : ~ baseline[f] + Really(f) >= CounterSpace
            BY <1>6, <1>8, <1>9, <2>1
      <2> QED BY <2>2 DEF Overflowed
<1>13. ok => ~ failed
      <2>1. CASE job = "timing"
            BY <1>11, <1>12, <2>1
      <2>2. CASE job = "allocation"
            BY <1>11, <2>2 DEF AllocationAccepted
      <2> QED BY <1>3, <2>1, <2>2
<1>14. ok => owned = baseline.live
      <2>1. CASE job = "timing"
            <3>1. owned = baseline.live + Really("requested") - Really("released")
                  /\ Really("requested") = 0 /\ Really("released") = 0
                  BY <1>3, <1>9, <2>1 DEF MemoryOK
            <3>2. baseline.live \in Int
                  BY <1>3 DEF Counters, InSpace
            <3> QED BY <3>1, <3>2
      <2>2. CASE job = "allocation"
            BY <1>3, <2>2 DEF AllocationAccepted, MemoryOK
      <2> QED BY <1>3, <2>1, <2>2
<1>15. Truthful'
      <2>1. counter.peak = highest
            BY <1>3 DEF MemoryOK
      <2> QED BY <1>1, <1>2, <1>10, <1>13, <1>14, <2>1 DEF Truthful
<1>16. ~ failed => \A f : Attributed(f) = Really(f)
      BY <1>10 DEF Attributed, Really
<1>17. ASSUME ~ Overflowed, owned = baseline.live PROVE ok
      <2>1. ~ failed
            BY <1>11, <1>17
      <2>2. CASE job = "timing"
            <3>1. Attributed("clock") = Really("clock") /\ Really("clock") <= counter.clock
                  BY <1>3, <1>16, <2>1 DEF ClockOK
            <3>2. Total("clock") = counter.clock
                  <4>1. Total("clock") = counter.clock - 0
                        BY <1>3 DEF Total
                  <4> QED BY <1>8, <1>9, <4>1
            <3> QED BY <2>2, <3>1, <3>2 DEF TimingAccepted
      <2>3. CASE job = "allocation"
            <3>1. \A f \in {"requested", "released"} : Total(f) = Really(f) /\ Really(f) \in Nat
                  <4>1. \A f \in {"requested", "released"} :
                          counter[f] = baseline[f] + Really(f)
                          /\ Really(f) \in Nat /\ baseline[f] \in Int
                        BY <1>7, <1>8, <1>9, <1>10, <2>1
                  <4>2. \A f : Total(f) = counter[f] - baseline[f]
                        BY DEF Total
                  <4> QED BY <4>1, <4>2
            <3>2. owned = baseline.live + Really("requested") - Really("released")
                  /\ counter.live = owned
                  BY <1>3 DEF MemoryOK
            <3>3. baseline.live \in Int
                  BY <1>3 DEF Counters, InSpace
            <3>4. Really("requested") = Really("released")
                  BY <1>17, <3>1, <3>2, <3>3
            <3>5. Total("requested") >= 0 /\ Total("released") >= 0
                  BY <3>1
            <3> QED BY <1>16, <1>17, <2>1, <2>3, <3>1, <3>2, <3>4, <3>5 DEF AllocationAccepted
      <2> QED BY <1>3, <2>2, <2>3
<1>18. CleanAccepted'
      <2>1. verdict' = "error" => ~ ok
            BY <1>2
      <2>2. verdict' = "error" => Overflowed \/ owned # baseline.live
            BY <1>17, <2>1
      <2> QED BY <1>1, <1>5, <2>2 DEF CleanAccepted
<1>19. ProfileTypeOK'
      BY <1>1, <1>2, <1>3 DEF ProfileTypeOK
<1>20. StageOK' /\ ExactOutside' /\ ExactInside' /\ FailedOK'
      BY <1>1, <1>2, <1>4 DEF StageOK, ExactOutside, ExactInside, FailedOK
<1> QED BY <1>5, <1>15, <1>18, <1>19, <1>20 DEF ProfileInv

(* Nothing has been used or charged when a profile begins.                 *)
LEMMA InitKeeps == Init => ProfileInv
<1> SUFFICES ASSUME Init PROVE ProfileInv
    OBVIOUS
<1>1. /\ job \in {"timing", "allocation"}
      /\ stage = "compiling" /\ done = 0 /\ at = 1 /\ inPhase = FALSE /\ ops = 0
      /\ result = 0 /\ starts = [p \in Named |-> Nothing] /\ values = [p \in Named |-> Nothing]
      /\ sequence = NewSequence /\ failed = FALSE /\ baseline = counter /\ verdict = "none"
      /\ truth = [p \in Named |-> Nothing] /\ highest = owned
      BY DEF Init
<1>2. PICK s \in Starts :
        /\ owned = (s.requested - s.released) % CounterSpace
        /\ counter = [calls |-> 0, requested |-> s.requested, released |-> s.released,
                      clock |-> 0, live |-> owned, peak |-> owned]
      BY DEF Init
<1>3. CounterSpace \in Nat \ {0} /\ Compiles \in Nat \ {0} /\ MaxOps \in Nat /\ MaxTicks \in Nat
      BY ProfileAssumption
<1>4. s.requested \in InSpace /\ s.released \in InSpace
      BY ProfileAssumption DEF InSpace
<1>5. owned \in InSpace
      <2>1. s.requested - s.released \in Int
            BY <1>4 DEF InSpace
      <2>2. \A x \in Int : x % CounterSpace \in 0..CounterSpace - 1
            BY <1>3
      <2> QED BY <1>2, <2>1, <2>2 DEF InSpace
<1>6. counter \in Counters /\ counter.calls = 0 /\ counter.clock = 0 /\ 0 \in InSpace
      /\ counter.live = owned /\ counter.peak = owned
      BY <1>2, <1>3, <1>4, <1>5 DEF Counters, InSpace
<1>7. truth \in Metrics /\ values \in Metrics /\ starts \in Metrics
      BY <1>1 DEF Metrics, Nothing
<1>8. \A f \in Fields : Really(f) = 0
      <2> SUFFICES ASSUME NEW f \in Fields PROVE Really(f) = 0
          OBVIOUS
      <2> DEFINE c == [p \in Named |-> truth[p][f]]
      <2>1. \A p \in Named : c[p] = 0
            BY <1>1 DEF Nothing
      <2>2. Really(f) = SumOver(c, Named)
            BY DEF Really, InAll, SumOver, SumFunction
      <2> HIDE DEF c
      <2>3. SumOver(c, Named) = 0
            BY <2>1, PhaseFacts, SumOfZeros
      <2> QED BY <2>2, <2>3
<1>9. ProfileTypeOK
      <2>1. at \in 1..Len(Compiler)
            BY <1>1, PhaseFacts
      <2>2. done \in 0..Compiles /\ ops \in 0..MaxOps
            BY <1>1, <1>3
      <2>3. result \in InSpace /\ highest \in InSpace
            BY <1>1, <1>5, <1>6
      <2>4. baseline \in Counters /\ baseline.calls = 0 /\ baseline.clock = 0
            BY <1>1, <1>6
      <2>5. /\ job \in {"timing", "allocation"}
            /\ stage \in {"compiling", "completing", "dropping", "reporting", "over"}
            /\ inPhase \in BOOLEAN /\ failed \in BOOLEAN
            /\ verdict \in {"none", "error", "accepted"}
            BY <1>1
      <2> QED BY <1>5, <1>6, <1>7, <2>1, <2>2, <2>3, <2>4, <2>5 DEF ProfileTypeOK
<1>10. StageOK
      BY <1>1, <1>3 DEF StageOK, NewSequence
<1>11. {"calls", "requested", "released", "clock"} \subseteq Fields /\ Counted \subseteq Fields
      BY DEF Fields, Counted
<1>12. MemoryOK
      <2>1. owned \in Nat
            BY <1>5 DEF InSpace
      <2> QED BY <1>1, <1>6, <1>8, <1>11, <2>1 DEF MemoryOK
<1>13. ClockOK
      BY <1>3, <1>6, <1>8, <1>11 DEF ClockOK
<1>14. ExactOutside
      <2>1. \A f \in Counted : counter[f] = baseline[f] + Really(f)
            <3>1. \A f \in Fields : counter[f] \in Nat
                  BY <1>6, SnapshotFacts DEF InSpace
            <3> QED BY <1>1, <1>8, <1>11, <3>1
      <2> QED BY <1>1, <2>1 DEF ExactOutside
<1>15. ExactInside /\ FailedOK /\ Truthful /\ CleanAccepted
      BY <1>1 DEF ExactInside, FailedOK, Truthful, CleanAccepted
<1> QED BY <1>9, <1>10, <1>12, <1>13, <1>14, <1>15 DEF ProfileInv

(* Every step keeps the books.                                             *)
LEMMA StepKeeps == ProfileInv /\ [Next]_vars => ProfileInv'
<1> SUFFICES ASSUME ProfileInv, [Next]_vars PROVE ProfileInv'
    OBVIOUS
<1>1. CASE UNCHANGED vars
      <2>1. UNCHANGED <<job, stage, done, at, inPhase, ops, owned, result, counter, starts, values,
                        sequence, failed, baseline, verdict, truth, highest>>
            BY <1>1 DEF vars
      <2>2. /\ \A f : Really(f)' = Really(f)
            /\ MemoryOK' /\ ClockOK' /\ (Overflowed' <=> Overflowed)
            BY <2>1, QuietFacts
      <2>3. ProfileTypeOK' /\ StageOK'
            BY <2>1 DEF ProfileInv, ProfileTypeOK, StageOK
      <2>4. ExactOutside'
            BY <2>1, <2>2 DEF ProfileInv, ExactOutside
      <2>5. ExactInside'
            BY <2>1, <2>2 DEF ProfileInv, ExactInside, Since
      <2>6. FailedOK'
            BY <2>1, <2>2 DEF ProfileInv, FailedOK, Attributed, Total
      <2>7. Truthful' /\ CleanAccepted'
            BY <2>1, <2>2 DEF ProfileInv, Truthful, CleanAccepted, SourceFailed
      <2> QED BY <2>2, <2>3, <2>4, <2>5, <2>6, <2>7 DEF ProfileInv
<1> QED BY <1>1, AllocatorKeeps, TickKeeps, StartKeeps, FinishKeeps, CompleteKeeps, DropKeeps,
           ReportKeeps DEF Next

(* The books of a profile are in order in every state of it.               *)
THEOREM ProfileInvariant == Spec => []ProfileInv
BY InitKeeps, StepKeeps, PTL DEF Spec

(* An accepted profile is true: each phase is charged what it really used, *)
(* nothing leaked and the peak is the most that was live (add_delta, run,  *)
(* parse_allocation_profile).                                              *)
THEOREM AcceptedIsTrue == Spec => []Truthful
<1>1. ProfileInv => Truthful
      BY DEF ProfileInv
<1> QED BY <1>1, ProfileInvariant, PTL

(* A profile is rejected only if a source failed, memory was kept or a     *)
(* counter passed its end (complete_success, run).                         *)
THEOREM CleanIsAccepted == Spec => []CleanAccepted
<1>1. ProfileInv => CleanAccepted
      BY DEF ProfileInv
<1> QED BY <1>1, ProfileInvariant, PTL

=============================================================================
