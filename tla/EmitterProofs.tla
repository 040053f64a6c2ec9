--------------------------- MODULE EmitterProofs ---------------------------
(***************************************************************************)
(* Proofs about Emitter: type correctness, the accounted stack, the order  *)
(* of line events and of the line table made of them, that only gotos are  *)
(* ever deleted, that every branch the finalization meets is placed, that  *)
(* compaction keeps the control flow of the recorded stream, and that the  *)
(* branches of the encoded method land on instructions with a frame.       *)
(***************************************************************************)
EXTENDS Emitter, FiniteFolds, TLAPS

-----------------------------------------------------------------------------
(* What the recording operators do to an emitter. *)

(* Every instruction pops and pushes a number of words. *)
LEMMA StackEffect ==
  ASSUME NEW i \in Instruction
  PROVE  PopWords(i) \in Nat /\ PushWords(i) \in Nat
BY DEF PopWords, PushWords, Instruction, Ops, BranchOps, CondBranches, ZeroBranches,
       CompareBranches, SlotOps, ConstOps, BoolOps

(* Emit appends one live instruction, keeps the emitter typed and covers   *)
(* the new depth.                                                          *)
LEMMA EmitTyped ==
  ASSUME NEW e, Typed(e), NEW i \in Instruction, e.cur <= e.maxStack
  PROVE  /\ Typed(Emit(e, i))
         /\ Emit(e, i).cur <= Emit(e, i).maxStack
         /\ Emit(e, i).instructions = Append(e.instructions, [ins |-> i, live |-> TRUE])
         /\ Emit(e, i).labels = e.labels
<1>1. DOMAIN e = DOMAIN NewEmitter
  BY DEF Typed
<1>2. /\ Emit(e, i).instructions = Append(e.instructions, [ins |-> i, live |-> TRUE])
      /\ Emit(e, i).labels = e.labels
      /\ DOMAIN Emit(e, i) = DOMAIN e
      /\ Emit(e, i).pendingLine = 0
      /\ Emit(e, i).atControlEntry = FALSE
  BY <1>1 DEF Emit, NewEmitter, NoLine
<1>3. Emit(e, i).instructions \in Seq(Entry)
  BY <1>2 DEF Typed, Entry
<1>4. Emit(e, i).lineEvents \in Seq(Event)
  <2>1. [at |-> End(e), line |-> e.pendingLine] \in Event
    BY DEF Typed, Event, Position, End, Count
  <2>2. \/ Emit(e, i).lineEvents = e.lineEvents
        \/ Emit(e, i).lineEvents = Append(e.lineEvents, [at |-> End(e), line |-> e.pendingLine])
    BY <1>1 DEF Emit, NewEmitter
  <2>3. e.lineEvents \in Seq(Event)
    BY DEF Typed
  <2>4. Append(e.lineEvents, [at |-> End(e), line |-> e.pendingLine]) \in Seq(Event)
    BY <2>1, <2>3
  <2> QED
    BY <2>2, <2>3, <2>4
<1>5. /\ Emit(e, i).cur \in Nat /\ Emit(e, i).maxStack \in Nat
      /\ Emit(e, i).cur <= Emit(e, i).maxStack
  <2>1. PopWords(i) \in Nat /\ PushWords(i) \in Nat
    BY StackEffect
  <2>2. DEFINE cur == (IF e.cur < PopWords(i) THEN 0 ELSE e.cur - PopWords(i)) + PushWords(i)
  <2>3. /\ Emit(e, i).cur = cur
        /\ Emit(e, i).maxStack = IF cur > e.maxStack THEN cur ELSE e.maxStack
    BY <1>1 DEF Emit, NewEmitter
  <2>4. cur \in Nat
    BY <2>1 DEF Typed
  <2> QED
    BY <2>3, <2>4 DEF Typed
<1>6. Typed(Emit(e, i))
  <2>1. DOMAIN Emit(e, i) = DOMAIN NewEmitter /\ Emit(e, i).pendingLine \in Nat
    BY <1>1, <1>2
  <2>2. Emit(e, i).atControlEntry \in BOOLEAN
    BY <1>2, Zenon
  <2> QED
    BY <1>3, <1>4, <1>5, <2>1, <2>2 DEF Typed
<1> QED
  BY <1>2, <1>5, <1>6

(* Emit keeps the line events ordered: the new one is at the end of the    *)
(* stream and differs from the last.                                       *)
LEMMA EmitOrdered ==
  ASSUME NEW e, Typed(e), NEW i \in Instruction, e.cur <= e.maxStack, Ordered(e)
  PROVE  Ordered(Emit(e, i))
<1> DEFINE old == e.lineEvents
           new == Emit(e, i).lineEvents
           event == [at |-> End(e), line |-> e.pendingLine]
<1>1. DOMAIN e = DOMAIN NewEmitter /\ old \in Seq(Event) /\ e.instructions \in Seq(Entry)
  BY DEF Typed
<1>2. Len(Emit(e, i).instructions) = Len(e.instructions) + 1
  <2>1. Emit(e, i).instructions = Append(e.instructions, [ins |-> i, live |-> TRUE])
    BY EmitTyped
  <2>2. [ins |-> i, live |-> TRUE] \in Entry
    BY DEF Entry
  <2> QED
    BY <1>1, <2>1, <2>2
<1>3. /\ DOMAIN old = 1..Len(old) /\ Len(old) \in Nat /\ Len(e.instructions) \in Nat
      /\ \A k \in DOMAIN old : old[k].at \in Nat /\ old[k].at <= Len(e.instructions)
  <2>1. \A k \in DOMAIN old : old[k] \in Event
    BY <1>1
  <2> QED
    BY <1>1, <2>1 DEF Ordered, Event, Position
<1>4. CASE new = old
  <2>1. \A k \in DOMAIN new : new[k].at <= Len(Emit(e, i).instructions)
    <3> SUFFICES ASSUME NEW k \in DOMAIN old PROVE old[k].at <= Len(e.instructions) + 1
      BY <1>2, <1>4
    <3>1. old[k].at \in Nat /\ old[k].at <= Len(e.instructions) /\ Len(e.instructions) \in Nat
      BY <1>3
    <3> QED
      BY <3>1
  <2>2. /\ \A j, k \in DOMAIN new : j < k => new[j].at < new[k].at
        /\ \A j, k \in DOMAIN new : k = j + 1 => new[j].line # new[k].line
    BY <1>4 DEF Ordered
  <2> QED
    BY <2>1, <2>2 DEF Ordered
<1>6. CASE new = Append(old, event) /\ (old = <<>> \/ Last(old).line # e.pendingLine)
  <2>1. /\ DOMAIN new = 1..(Len(old) + 1)
        /\ \A k \in 1..Len(old) : new[k] = old[k]
        /\ new[Len(old) + 1] = event
    BY <1>1, <1>6
  <2>2. event.at = Len(e.instructions) + 1 /\ event.line = e.pendingLine
    BY DEF End, Count
  <2>4. \A k \in DOMAIN new : new[k].at <= Len(Emit(e, i).instructions)
    <3> SUFFICES ASSUME NEW k \in DOMAIN new PROVE new[k].at <= Len(e.instructions) + 1
      BY <1>2
    <3>1. CASE k \in 1..Len(old)
      <4>1. new[k] = old[k] /\ k \in DOMAIN old
        BY <3>1, <2>1, <1>3
      <4>2. old[k].at \in Nat /\ old[k].at <= Len(e.instructions) /\ Len(e.instructions) \in Nat
        BY <4>1, <1>3
      <4> QED
        BY <4>1, <4>2
    <3>2. CASE k = Len(old) + 1
      BY <3>2, <2>1, <2>2, <1>3
    <3> QED
      BY <2>1, <3>1, <3>2, <1>3
  <2>5. \A j, k \in DOMAIN new : j < k => new[j].at < new[k].at
    <3> SUFFICES ASSUME NEW j \in DOMAIN new, NEW k \in DOMAIN new, j < k
                 PROVE  new[j].at < new[k].at
      OBVIOUS
    <3>1. j \in 1..Len(old)
      BY <2>1, <1>3
    <3>2. CASE k \in 1..Len(old)
      BY <3>1, <3>2, <2>1, <1>3 DEF Ordered
    <3>3. CASE k = Len(old) + 1
      BY <3>1, <3>3, <2>1, <2>2, <1>3
    <3> QED
      BY <2>1, <3>2, <3>3, <1>3
  <2>6. \A j, k \in DOMAIN new : k = j + 1 => new[j].line # new[k].line
    <3> SUFFICES ASSUME NEW j \in DOMAIN new, NEW k \in DOMAIN new, k = j + 1
                 PROVE  new[j].line # new[k].line
      OBVIOUS
    <3>1. j \in 1..Len(old)
      BY <2>1, <1>3
    <3>2. CASE k \in 1..Len(old)
      BY <3>1, <3>2, <2>1, <1>3 DEF Ordered
    <3>3. CASE k = Len(old) + 1
      <4>1. j = Len(old) /\ old # <<>>
        BY <3>1, <3>3, <1>3
      <4> QED
        BY <4>1, <3>1, <3>3, <2>1, <2>2, <1>6 DEF Last
    <3> QED
      BY <2>1, <3>2, <3>3, <1>3
  <2> QED
    BY <2>4, <2>5, <2>6 DEF Ordered
<1>5. \/ new = old
      \/ new = Append(old, event) /\ (old = <<>> \/ Last(old).line # e.pendingLine)
  BY <1>1 DEF Emit, NewEmitter
<1> QED
  BY <1>4, <1>5, <1>6

-----------------------------------------------------------------------------
(* The inductive invariant.  Good holds of the emitter all the time,       *)
(* Chains while the stream is recorded: labels are unplaced or at a        *)
(* position of the stream, and branches go to labels that exist.           *)

Good(e) ==
  Typed(e) /\ e.cur <= e.maxStack /\ Ordered(e) /\ NoLoss(e.instructions)

Chains(e) ==
  /\ e.labels \in Seq(Nat)
  /\ \A l \in 1..Len(e.labels) : e.labels[l] <= End(e)
  /\ \A p \in 1..Len(e.instructions) :
       IsBranch(e.instructions[p].ins) => e.instructions[p].ins.arg \in 1..Len(e.labels)

IInv ==
  /\ TypeOK
  /\ Good(em)
  /\ NoLoss(original.instructions)
  /\ stage = "recording" => Chains(em)
  /\ stage # "recording" => Len(original.instructions) = Len(em.instructions)

(* A step that leaves the line events alone, rewrites instructions in       *)
(* place and loses none stays good.                                        *)
LEMMA RewriteGood ==
  ASSUME NEW e, NEW f, Good(e),
         DOMAIN f = DOMAIN e, f.lineEvents = e.lineEvents,
         f.instructions \in Seq(Entry), NoLoss(f.instructions),
         Len(f.instructions) = Len(e.instructions),
         f.pendingLine \in Nat, f.cur \in Nat, f.maxStack \in Nat,
         f.atControlEntry \in BOOLEAN, f.cur <= f.maxStack
  PROVE  Good(f)
<1>1. Ordered(f)
  BY DEF Good, Ordered
<1>2. Typed(f)
  BY DEF Good, Typed
<1> QED
  BY <1>1, <1>2 DEF Good

(* What a good emitter is made of, for the steps below. *)
LEMMA GoodFacts ==
  ASSUME NEW e, Good(e)
  PROVE  /\ DOMAIN e = DOMAIN NewEmitter
         /\ e.instructions \in Seq(Entry) /\ e.lineEvents \in Seq(Event)
         /\ e.pendingLine \in Nat /\ e.cur \in Nat /\ e.maxStack \in Nat
         /\ e.cur <= e.maxStack
         /\ Len(e.instructions) \in Nat
<1>1. Typed(e) /\ e.cur <= e.maxStack
  BY DEF Good
<1>2. Len(e.instructions) \in Nat
  BY <1>1 DEF Typed
<1> QED
  BY <1>1, <1>2 DEF Typed

(* A step that leaves the whole stream alone stays good. *)
LEMMA QuietGood ==
  ASSUME NEW e, NEW f, Good(e),
         DOMAIN f = DOMAIN e, f.lineEvents = e.lineEvents,
         f.instructions = e.instructions,
         f.pendingLine \in Nat, f.cur \in Nat, f.maxStack \in Nat,
         f.atControlEntry \in BOOLEAN, f.cur <= f.maxStack
  PROVE  Good(f)
<1>1. NoLoss(e.instructions)
  BY DEF Good
<1> QED
  BY <1>1, GoodFacts, RewriteGood

(* Emit keeps the emitter good: what it appends is live. *)
LEMMA EmitGood ==
  ASSUME NEW e, Good(e), NEW i \in Instruction
  PROVE  Good(Emit(e, i))
<1>1. Typed(e) /\ e.cur <= e.maxStack /\ Ordered(e) /\ NoLoss(e.instructions)
  BY DEF Good
<1>2. /\ Typed(Emit(e, i)) /\ Emit(e, i).cur <= Emit(e, i).maxStack
      /\ Emit(e, i).instructions = Append(e.instructions, [ins |-> i, live |-> TRUE])
  BY <1>1, EmitTyped
<1>3. Ordered(Emit(e, i))
  BY <1>1, EmitOrdered
<1>4. NoLoss(Emit(e, i).instructions)
  <2> DEFINE new == Emit(e, i).instructions
  <2>1. /\ Len(new) = Len(e.instructions) + 1 /\ Len(e.instructions) \in Nat
        /\ \A p \in 1..Len(e.instructions) : new[p] = e.instructions[p]
        /\ new[Len(new)] = [ins |-> i, live |-> TRUE]
    BY <1>1, <1>2 DEF Typed
  <2>2. new[Len(new)].live
    BY <2>1
  <2>3. ASSUME NEW p \in 1..Len(new)
        PROVE  new[p].live \/ IsGoto(new[p].ins)
    <3>1. CASE p \in 1..Len(e.instructions)
      BY <3>1, <2>1, <1>1 DEF NoLoss
    <3>2. CASE p = Len(new)
      BY <3>2, <2>2
    <3> QED
      BY <2>1, <3>1, <3>2
  <2> QED
    BY <2>3 DEF NoLoss
<1> QED
  BY <1>2, <1>3, <1>4 DEF Good

(* Emit keeps the chains; a branch must name a label that exists. *)
LEMMA EmitChains ==
  ASSUME NEW e, Good(e), Chains(e), NEW i \in Instruction,
         IsBranch(i) => i.arg \in 1..Len(e.labels)
  PROVE  Chains(Emit(e, i))
<1>1. Typed(e) /\ e.cur <= e.maxStack
  BY DEF Good
<1>2. /\ Emit(e, i).instructions = Append(e.instructions, [ins |-> i, live |-> TRUE])
      /\ Emit(e, i).labels = e.labels
  BY <1>1, EmitTyped
<1> DEFINE new == Emit(e, i).instructions
<1>3. /\ Len(new) = Len(e.instructions) + 1 /\ Len(e.instructions) \in Nat
      /\ \A p \in 1..Len(e.instructions) : new[p] = e.instructions[p]
      /\ new[Len(new)] = [ins |-> i, live |-> TRUE]
  BY <1>1, <1>2 DEF Typed
<1>4. ASSUME NEW p \in 1..Len(new), IsBranch(new[p].ins)
      PROVE  new[p].ins.arg \in 1..Len(e.labels)
  <2>1. CASE p \in 1..Len(e.instructions)
    BY <2>1, <1>3, <1>4 DEF Chains
  <2>2. CASE p = Len(new)
    <3>1. new[p].ins = i
      BY <2>2, <1>3
    <3> QED
      BY <3>1, <1>4
  <2> QED
    BY <1>3, <2>1, <2>2
<1>5. \A l \in 1..Len(e.labels) : e.labels[l] <= End(Emit(e, i))
  BY <1>3 DEF Chains, End, Count
<1> QED
  BY <1>2, <1>4, <1>5 DEF Chains

-----------------------------------------------------------------------------
(* The other recording operators. *)

(* Chains depends on the stream and the labels only. *)
LEMMA QuietChains ==
  ASSUME NEW e, NEW f, Chains(e),
         f.instructions = e.instructions, f.labels = e.labels
  PROVE  Chains(f)
BY DEF Chains, End, Count

(* A new label keeps a recording good.                                     *)
LEMMA AddLabelGood ==
  ASSUME NEW e, Good(e), Chains(e)
  PROVE  /\ Good(AddLabel(e)) /\ Chains(AddLabel(e))
         /\ NewLabel(e) \in 1..Len(AddLabel(e).labels)
         /\ NewLabel(e) \in Nat
<1> DEFINE f == AddLabel(e)
<1>1. /\ DOMAIN f = DOMAIN e /\ f.instructions = e.instructions
      /\ f.lineEvents = e.lineEvents /\ f.labels = Append(e.labels, Unplaced)
      /\ f.pendingLine = e.pendingLine /\ f.cur = e.cur /\ f.maxStack = e.maxStack
      /\ f.atControlEntry = e.atControlEntry
  BY GoodFacts DEF AddLabel, NewEmitter
<1>2. Good(f)
  <2>1. e.atControlEntry \in BOOLEAN
    BY DEF Good, Typed
  <2>2. f.atControlEntry \in BOOLEAN
    BY <1>1, <2>1
  <2> QED
    BY <1>1, <2>2, GoodFacts, QuietGood
<1>3. /\ e.labels \in Seq(Nat) /\ Len(e.labels) \in Nat
      /\ f.labels \in Seq(Nat) /\ Len(f.labels) = Len(e.labels) + 1
      /\ \A l \in 1..Len(e.labels) : f.labels[l] = e.labels[l]
      /\ f.labels[Len(e.labels) + 1] = 0
  BY <1>1 DEF Chains, Unplaced
<1>4. \A l \in 1..Len(f.labels) : f.labels[l] <= End(f)
  <2>1. End(f) = End(e) /\ End(f) \in Nat
    BY <1>1, GoodFacts DEF End, Count
  <2> TAKE l \in 1..Len(f.labels)
  <2>2. CASE l \in 1..Len(e.labels)
    BY <2>1, <2>2, <1>3 DEF Chains
  <2>3. CASE l = Len(e.labels) + 1
    <3>1. f.labels[l] = 0
      BY <2>3, <1>3
    <3> QED
      BY <2>1, <3>1
  <2> QED
    BY <1>3, <2>2, <2>3
<1>5. Chains(f)
  <2>1. \A p \in 1..Len(f.instructions) :
          IsBranch(f.instructions[p].ins) => f.instructions[p].ins.arg \in 1..Len(e.labels)
    BY <1>1 DEF Chains
  <2>2. 1..Len(e.labels) \subseteq 1..Len(f.labels)
    BY <1>3
  <2> QED
    BY <1>3, <1>4, <2>1, <2>2 DEF Chains
<1> QED
  BY <1>2, <1>3, <1>5 DEF NewLabel

(* Placing a chain at the end of the stream and asking for a frame there. *)
LEMMA PlaceGood ==
  ASSUME NEW e, Good(e), Chains(e), NEW label \in 1..Len(e.labels),
         NEW locals, NEW stack,
         NEW f, f = RequestFrame(PlaceLabel(e, label), locals, stack)
  PROVE  Good(f) /\ Chains(f)
<1>1. /\ DOMAIN f = DOMAIN e /\ f.instructions = e.instructions
      /\ f.lineEvents = e.lineEvents
      /\ f.labels = [e.labels EXCEPT ![label] = End(e)]
      /\ f.pendingLine = e.pendingLine /\ f.cur = e.cur /\ f.maxStack = e.maxStack
      /\ f.atControlEntry = TRUE
  BY GoodFacts DEF PlaceLabel, RequestFrame, NewEmitter
<1>2. Good(f)
  <2>1. f.atControlEntry \in BOOLEAN
    BY <1>1, Zenon
  <2> QED
    BY <1>1, <2>1, GoodFacts, QuietGood
<1>3. /\ End(f) = End(e) /\ End(e) \in Nat
      /\ e.labels \in Seq(Nat) /\ Len(e.labels) \in Nat
      /\ f.labels \in Seq(Nat) /\ Len(f.labels) = Len(e.labels)
      /\ \A l \in 1..Len(e.labels) :
           f.labels[l] = IF l = label THEN End(e) ELSE e.labels[l]
  <2>1. End(f) = End(e) /\ End(e) \in Nat
    BY <1>1, GoodFacts DEF End, Count
  <2>2. e.labels \in Seq(Nat)
    BY DEF Chains
  <2> QED
    BY <1>1, <2>1, <2>2
<1>4. Chains(f)
  BY <1>1, <1>3 DEF Chains
<1> QED
  BY <1>2, <1>4

(* reset_stack and mark_line touch one field each. *)
LEMMA ResetGood ==
  ASSUME NEW e, Good(e), Chains(e)
  PROVE  Good(ResetStack(e)) /\ Chains(ResetStack(e))
<1> DEFINE f == ResetStack(e)
<1>1. /\ DOMAIN f = DOMAIN e /\ f.instructions = e.instructions
      /\ f.lineEvents = e.lineEvents /\ f.labels = e.labels
      /\ f.pendingLine = e.pendingLine /\ f.cur = 0 /\ f.maxStack = e.maxStack
      /\ f.atControlEntry = e.atControlEntry
  BY GoodFacts DEF ResetStack, NewEmitter
<1>2. f.atControlEntry \in BOOLEAN
  <2>1. e.atControlEntry \in BOOLEAN
    BY DEF Good, Typed
  <2> QED
    BY <1>1, <2>1
<1>3. Good(f)
  BY <1>1, <1>2, GoodFacts, QuietGood
<1> QED
  BY <1>1, <1>3, QuietChains

(* So does a pending line.                                                 *)
LEMMA LineGood ==
  ASSUME NEW e, Good(e), Chains(e), NEW line \in Nat
  PROVE  Good(SetPendingLine(e, line)) /\ Chains(SetPendingLine(e, line))
<1> DEFINE f == SetPendingLine(e, line)
<1>1. /\ DOMAIN f = DOMAIN e /\ f.instructions = e.instructions
      /\ f.lineEvents = e.lineEvents /\ f.labels = e.labels
      /\ f.pendingLine = line /\ f.cur = e.cur /\ f.maxStack = e.maxStack
      /\ f.atControlEntry = e.atControlEntry
  BY GoodFacts DEF SetPendingLine, NewEmitter
<1>2. f.atControlEntry \in BOOLEAN
  <2>1. e.atControlEntry \in BOOLEAN
    BY DEF Good, Typed
  <2> QED
    BY <1>1, <2>1
<1>3. Good(f)
  BY <1>1, <1>2, GoodFacts, QuietGood
<1> QED
  BY <1>1, <1>3, QuietChains

(* A branch is an instruction like another; the fat-mode frame request     *)
(* beside it is no part of the stream.                                     *)
LEMMA EmitBranchGood ==
  ASSUME NEW e, Good(e), Chains(e), NEW op \in BranchOps, NEW locals,
         NEW label \in Nat, label \in 1..Len(e.labels)
  PROVE  Good(EmitBranch(e, op, label, locals)) /\ Chains(EmitBranch(e, op, label, locals))
<1> DEFINE i == Instr(op, label)
           next == Emit(e, i)
           f == EmitBranch(e, op, label, locals)
<1>1. i \in Instruction /\ i.arg = label
  BY DEF Instr, Instruction, Ops
<1>2. Good(next) /\ Chains(next)
  BY <1>1, EmitGood, EmitChains
<1>3. CASE op = "goto"
  BY <1>2, <1>3 DEF EmitBranch
<1>4. CASE op # "goto"
  <2>1. /\ DOMAIN f = DOMAIN next /\ f.instructions = next.instructions
        /\ f.lineEvents = next.lineEvents /\ f.labels = next.labels
        /\ f.pendingLine = next.pendingLine /\ f.cur = next.cur
        /\ f.maxStack = next.maxStack
        /\ f.atControlEntry = next.atControlEntry
    <3>1. DOMAIN next = DOMAIN NewEmitter
      BY <1>2, GoodFacts
    <3>2. f = [next EXCEPT !.fatFrames = Append(@, Request(End(e) + 1, locals, <<>>)),
                           !.asserts = FlagIf(@, next.cur # 0,
                                "conditional branch leaves a non-empty stack")]
      BY <1>4 DEF EmitBranch, RequestFallthrough
    <3> QED
      BY <3>1, <3>2 DEF NewEmitter
  <2>2. f.atControlEntry \in BOOLEAN
    <3>1. next.atControlEntry \in BOOLEAN
      BY <1>2 DEF Good, Typed
    <3> QED
      BY <2>1, <3>1
  <2>3. Good(f)
    BY <1>2, <2>1, <2>2, GoodFacts, QuietGood
  <2> QED
    BY <1>2, <2>1, <2>3, QuietChains
<1> QED
  BY <1>3, <1>4

(* A function on 1..n is a sequence of length n. *)
LEMMA Sequence ==
  ASSUME NEW S, NEW n \in Nat, NEW s \in [1..n -> S]
  PROVE  s \in Seq(S) /\ Len(s) = n
OBVIOUS

(* retarget_branches rewrites the label of some branches and nothing else. *)
LEMMA RetargetGood ==
  ASSUME NEW e, Good(e), Chains(e),
         NEW from \in 1..Len(e.labels), NEW to \in 1..Len(e.labels)
  PROVE  Good(RetargetBranches(e, from, to)) /\ Chains(RetargetBranches(e, from, to))
<1> DEFINE f == RetargetBranches(e, from, to)
           n == Len(e.instructions)
           old == e.instructions
           new == f.instructions
<1>1. /\ old \in Seq(Entry) /\ n \in Nat /\ e.labels \in Seq(Nat) /\ Len(e.labels) \in Nat
      /\ DOMAIN e = DOMAIN NewEmitter
  BY GoodFacts DEF Chains
<1>2. /\ DOMAIN f = DOMAIN e /\ f.lineEvents = e.lineEvents /\ f.labels = e.labels
      /\ f.pendingLine = e.pendingLine /\ f.cur = e.cur /\ f.maxStack = e.maxStack
      /\ f.atControlEntry = e.atControlEntry
      /\ new = [p \in 1..n |->
                  IF IsBranch(old[p].ins) /\ old[p].ins.arg = from
                  THEN [old[p] EXCEPT !.ins.arg = to] ELSE old[p]]
  BY <1>1 DEF RetargetBranches, NewEmitter, Count
<1>3. ASSUME NEW p \in 1..n
      PROVE  /\ new[p] \in Entry
             /\ new[p].live = old[p].live /\ new[p].ins.op = old[p].ins.op
             /\ new[p].ins.arg = to \/ new[p].ins = old[p].ins
  <2>1. old[p] \in Entry
    BY <1>1
  <2>2. to \in Nat
    BY <1>1
  <2>3. CASE IsBranch(old[p].ins) /\ old[p].ins.arg = from
    <3>1. new[p] = [old[p] EXCEPT !.ins.arg = to]
      BY <1>2, <2>3
    <3> QED
      BY <2>1, <2>2, <3>1 DEF Entry, Instruction
  <2>4. CASE ~ (IsBranch(old[p].ins) /\ old[p].ins.arg = from)
    <3>1. new[p] = old[p]
      BY <1>2, <2>4
    <3> QED
      BY <2>1, <3>1
  <2> QED
    BY <2>3, <2>4
<1>4. new \in Seq(Entry) /\ Len(new) = n
  <2>1. new \in [1..n -> Entry]
    BY <1>2, <1>3
  <2> HIDE DEF new, n
  <2> QED
    BY <1>1, <2>1, Sequence
<1>5. NoLoss(new)
  <2>1. NoLoss(old)
    BY DEF Good
  <2> QED
    BY <1>3, <1>4, <2>1 DEF NoLoss, IsGoto
<1>6. Good(f)
  <2>1. f.atControlEntry \in BOOLEAN
    <3>1. e.atControlEntry \in BOOLEAN
      BY DEF Good, Typed
    <3> QED
      BY <1>2, <3>1
  <2> QED
    BY <1>2, <1>4, <1>5, <2>1, GoodFacts, RewriteGood
<1>7. Chains(f)
  <2>1. ASSUME NEW p \in 1..n, IsBranch(new[p].ins)
        PROVE  new[p].ins.arg \in 1..Len(e.labels)
    <3>1. IsBranch(old[p].ins)
      BY <1>3, <2>1 DEF IsBranch
    <3>2. old[p].ins.arg \in 1..Len(e.labels)
      BY <3>1 DEF Chains
    <3> QED
      BY <1>3, <3>2
  <2> QED
    BY <1>2, <1>4, <2>1 DEF Chains, End, Count
<1> QED
  BY <1>6, <1>7

-----------------------------------------------------------------------------
(* The finalization. *)

(* The assertions about frames do not change the emitter. *)
LEMMA CheckGood ==
  ASSUME NEW e, Good(e)
  PROVE  /\ Good(CheckPreconditions(e))
         /\ CheckPreconditions(e).instructions = e.instructions
         /\ CheckPreconditions(e).labels = e.labels
<1> DEFINE f == CheckPreconditions(e)
<1>1. /\ DOMAIN f = DOMAIN e /\ f.instructions = e.instructions
      /\ f.lineEvents = e.lineEvents /\ f.labels = e.labels
      /\ f.pendingLine = e.pendingLine /\ f.cur = e.cur /\ f.maxStack = e.maxStack
      /\ f.atControlEntry = e.atControlEntry
  BY GoodFacts DEF CheckPreconditions, NewEmitter
<1>2. f.atControlEntry \in BOOLEAN
  <2>1. e.atControlEntry \in BOOLEAN
    BY DEF Good, Typed
  <2> QED
    BY <1>1, <2>1
<1> QED
  BY <1>1, <1>2, GoodFacts, QuietGood

(* A round only clears the live flag of gotos. *)
LEMMA TombstoneGood ==
  ASSUME NEW e, Good(e), NEW dead, dead \subseteq LiveGotos(e)
  PROVE  /\ Good(Tombstone(e, dead))
         /\ Len(Tombstone(e, dead).instructions) = Len(e.instructions)
<1> DEFINE f == Tombstone(e, dead)
           n == Len(e.instructions)
           old == e.instructions
           new == f.instructions
<1>1. DOMAIN e = DOMAIN NewEmitter /\ old \in Seq(Entry) /\ n \in Nat
  BY GoodFacts
<1>2. /\ DOMAIN f = DOMAIN e /\ f.lineEvents = e.lineEvents
      /\ f.pendingLine = e.pendingLine /\ f.cur = e.cur /\ f.maxStack = e.maxStack
      /\ f.atControlEntry = e.atControlEntry
      /\ new = [p \in 1..n |-> IF p \in dead THEN [old[p] EXCEPT !.live = FALSE] ELSE old[p]]
  BY <1>1 DEF Tombstone, NewEmitter, Count
<1>3. ASSUME NEW p \in 1..n
      PROVE  new[p] \in Entry /\ (new[p].live \/ IsGoto(new[p].ins))
  <2>1. old[p] \in Entry
    BY <1>1
  <2>2. CASE p \in dead
    <3>1. IsGoto(old[p].ins)
      BY <2>2 DEF LiveGotos, At
    <3>2. new[p] = [old[p] EXCEPT !.live = FALSE]
      BY <1>2, <2>2
    <3>3. new[p] = [ins |-> old[p].ins, live |-> FALSE]
      BY <2>1, <3>2 DEF Entry
    <3>4. new[p] \in Entry
      BY <2>1, <3>3 DEF Entry
    <3> QED
      BY <3>1, <3>3, <3>4
  <2>3. CASE p \notin dead
    BY <1>2, <2>1, <2>3 DEF Good, NoLoss
  <2> QED
    BY <2>2, <2>3
<1>4. new \in Seq(Entry) /\ Len(new) = n
  <2>1. new \in [1..n -> Entry]
    BY <1>2, <1>3
  <2> HIDE DEF new, n
  <2> QED
    BY <1>1, <2>1, Sequence
<1>5. NoLoss(new)
  BY <1>3, <1>4 DEF NoLoss
<1>6. f.atControlEntry \in BOOLEAN
  <2>1. e.atControlEntry \in BOOLEAN
    BY DEF Good, Typed
  <2> QED
    BY <1>2, <2>1
<1> QED
  BY <1>2, <1>4, <1>5, <1>6, GoodFacts, RewriteGood

-----------------------------------------------------------------------------
(* The steps of the specification. *)

(* The empty recording is a good one.                                      *)
LEMMA InitInvariant == Init => IInv
<1> SUFFICES ASSUME Init PROVE IInv
  OBVIOUS
<1>1. /\ em = NewEmitter /\ stage = "recording" /\ mode = "narrow"
      /\ original.instructions = <<>>
  BY DEF Init
<1>2. /\ em.instructions = <<>> /\ em.labels = <<>> /\ em.lineEvents = <<>>
      /\ em.pendingLine = 0 /\ em.cur = 0 /\ em.maxStack = 0
      /\ em.atControlEntry = FALSE
  BY <1>1 DEF NewEmitter, NoLine
<1>3. Typed(em)
  <2>1. em.atControlEntry \in BOOLEAN
    BY <1>2, Zenon
  <2> QED
    BY <1>1, <1>2, <2>1 DEF Typed
<1>4. Good(em)
  BY <1>2, <1>3 DEF Good, Ordered, NoLoss
<1>5. Chains(em)
  BY <1>2 DEF Chains
<1>6. TypeOK
  BY <1>1, <1>3 DEF TypeOK
<1>7. NoLoss(original.instructions)
  BY <1>1 DEF NoLoss
<1> QED
  BY <1>1, <1>4, <1>5, <1>6, <1>7 DEF IInv

(* A step of the client keeps the invariant when it keeps the emitter good *)
(* and its chains sound.                                                   *)
LEMMA ClientStep ==
  ASSUME IInv, NEW e, Recording(e), Good(e), Chains(e)
  PROVE  IInv'
<1>1. em' = e /\ UNCHANGED <<stage, mode, original>> /\ stage = "recording"
  BY DEF Recording
<1>2. Good(em') /\ Chains(em') /\ Typed(em')
  BY <1>1 DEF Good
<1>3. TypeOK'
  BY <1>1, <1>2 DEF IInv, TypeOK
<1>4. NoLoss(original'.instructions)
  BY <1>1 DEF IInv
<1> QED
  BY <1>1, <1>2, <1>3, <1>4 DEF IInv

(* Every call of the code generator keeps the invariant.                   *)
LEMMA ClientInvariant ==
  ASSUME IInv, Client
  PROVE  IInv'
<1> DEFINE positions == 1..Len(em.labels)
<1>1. stage = "recording" /\ Good(em) /\ Chains(em)
  <2>1. stage = "recording"
    BY DEF Client, Record, BranchToNew, MergeChains, ResolveChain, ResolveMerge,
           MarkLine, StartStatement, Recording
  <2> QED
    BY <2>1 DEF IInv
<1>2. Pending(em) \subseteq positions
  BY DEF Pending
<1>3. ASSUME NEW i \in Straight, Record(i)
      PROVE  IInv'
  <2>1. i \in Instruction /\ ~ IsBranch(i)
    BY StraightAssumption
  <2>2. Good(Emit(em, i)) /\ Chains(Emit(em, i))
    BY <1>1, <2>1, EmitGood, EmitChains
  <2>3. Recording(Emit(em, i))
    BY <1>3 DEF Record
  <2> QED
    BY <2>2, <2>3, ClientStep
<1>4. ASSUME NEW op \in BranchOps, NEW locals \in LocalStates, BranchToNew(op, locals)
      PROVE  IInv'
  <2> DEFINE e == AddLabel(em)
             label == NewLabel(em)
  <2>1. Good(e) /\ Chains(e) /\ label \in 1..Len(e.labels) /\ label \in Nat
    BY <1>1, AddLabelGood
  <2>2. Good(EmitBranch(e, op, label, locals)) /\ Chains(EmitBranch(e, op, label, locals))
    <3> HIDE DEF e, label
    <3> QED
      BY <2>1, EmitBranchGood
  <2>3. Recording(EmitBranch(e, op, label, locals))
    BY <1>4 DEF BranchToNew
  <2> QED
    BY <2>2, <2>3, ClientStep
<1>5. ASSUME NEW to \in Pending(em), NEW from \in Pending(em), MergeChains(to, from)
      PROVE  IInv'
  <2>1. Good(RetargetBranches(em, from, to)) /\ Chains(RetargetBranches(em, from, to))
    BY <1>1, <1>2, RetargetGood
  <2>2. Recording(RetargetBranches(em, from, to))
    BY <1>5 DEF MergeChains
  <2> QED
    BY <2>1, <2>2, ClientStep
<1>6. ASSUME NEW l \in Pending(em), NEW locals \in LocalStates, NEW reset \in BOOLEAN,
             ResolveChain(l, locals, reset)
      PROVE  IInv'
  <2> DEFINE e == RequestFrame(PlaceLabel(em, l), locals, <<>>)
             f == IF reset THEN ResetStack(e) ELSE e
  <2>1. Good(e) /\ Chains(e)
    BY <1>1, <1>2, PlaceGood
  <2>2. Good(ResetStack(e)) /\ Chains(ResetStack(e))
    <3> HIDE DEF e
    <3> QED
      BY <2>1, ResetGood
  <2>3. Good(f) /\ Chains(f)
    BY <2>1, <2>2
  <2>4. Recording(f)
    BY <1>6 DEF ResolveChain
  <2> QED
    BY <2>3, <2>4, ClientStep
<1>7. ASSUME NEW l \in Pending(em), NEW locals \in LocalStates, ResolveMerge(l, locals)
      PROVE  IInv'
  <2> DEFINE e == RequestFrame(PlaceLabel(em, l), locals, <<"Integer">>)
  <2>1. Good(e) /\ Chains(e)
    BY <1>1, <1>2, PlaceGood
  <2>2. Recording(e)
    BY <1>7 DEF ResolveMerge
  <2> QED
    BY <2>1, <2>2, ClientStep
<1>8. ASSUME NEW line \in Lines, MarkLine(line)
      PROVE  IInv'
  <2>1. line \in Nat
    BY LinesAssumption
  <2>2. Good(SetPendingLine(em, line)) /\ Chains(SetPendingLine(em, line))
    BY <1>1, <2>1, LineGood
  <2>3. Recording(SetPendingLine(em, line))
    BY <1>8 DEF MarkLine
  <2> QED
    BY <2>2, <2>3, ClientStep
<1>9. CASE StartStatement
  <2>1. Good(ResetStack(em)) /\ Chains(ResetStack(em))
    BY <1>1, ResetGood
  <2>2. Recording(ResetStack(em))
    BY <1>9 DEF StartStatement
  <2> QED
    BY <2>1, <2>2, ClientStep
<1> QED
  BY <1>3, <1>4, <1>5, <1>6, <1>7, <1>8, <1>9 DEF Client

(* finish is called with every chain resolved: the labels that branches    *)
(* use are placed, and the return emitted last is behind all of them.      *)
LEMMA FinishInvariant ==
  ASSUME IInv, Finish
  PROVE  IInv'
<1> DEFINE ret == Simple("return")
           e == Emit(em, ret)
           old == em.instructions
           n == Len(old)
<1>1. Good(em) /\ Chains(em) /\ TypeOK
  BY DEF IInv, Finish
<1>2. /\ em' = CheckPreconditions(e) /\ Pending(em) = {}
      /\ original'.instructions = e.instructions
      /\ original'.labels = e.labels
      /\ stage' = "narrowing" /\ mode' = mode
  BY DEF Finish
<1>3. ret \in Instruction /\ ~ IsBranch(ret)
  BY DEF Simple, Instr, Instruction, Ops, IsBranch, BranchOps, CondBranches,
         ZeroBranches, CompareBranches
<1>4. Good(e) /\ Chains(e)
  BY <1>1, <1>3, EmitGood, EmitChains
<1>5. Good(em') /\ em'.instructions = e.instructions
  BY <1>2, <1>4, CheckGood
<1>6. e.instructions = Append(old, [ins |-> ret, live |-> TRUE]) /\ e.labels = em.labels
  BY <1>1, <1>3, EmitTyped DEF Good
<1>7. /\ n \in Nat /\ Len(e.instructions) = n + 1
      /\ \A p \in 1..n : e.instructions[p] = old[p]
      /\ e.instructions[n + 1].ins = ret
  <2>1. old \in Seq(Entry)
    BY <1>1, GoodFacts
  <2> QED
    BY <1>6, <2>1
<1>9. TypeOK'
  <2>1. Typed(em') /\ Typed(e)
    BY <1>4, <1>5 DEF Good
  <2>2. original'.instructions \in Seq(Entry)
    BY <1>2, <2>1 DEF Typed
  <2> QED
    BY <1>1, <1>2, <2>1, <2>2 DEF TypeOK
<1>10. NoLoss(original'.instructions)
  BY <1>2, <1>4 DEF Good
<1> QED
  BY <1>2, <1>5, <1>9, <1>10 DEF IInv

(* So does a round of compaction.                                          *)
LEMMA RoundInvariant ==
  ASSUME IInv, Round
  PROVE  IInv'
<1> DEFINE narrow == stage = "narrowing"
           e == CompactRound(em, narrow)
<1>1. em' = e /\ UNCHANGED <<stage, mode, original>> /\ stage # "recording"
  BY DEF Round, Compacting
<1>2. Good(em) /\ Len(original.instructions) = Len(em.instructions)
  BY <1>1 DEF IInv
<1>3. Good(em') /\ Len(em'.instructions) = Len(em.instructions)
  <2>1. DeadGotos(em, narrow) \subseteq LiveGotos(em)
    BY DEF DeadGotos
  <2>2. e = Tombstone(em, DeadGotos(em, narrow))
    BY DEF CompactRound
  <2> QED
    BY <1>1, <1>2, <2>1, <2>2, TombstoneGood
<1>4. TypeOK'
  BY <1>1, <1>3 DEF IInv, TypeOK, Good
<1>5. NoLoss(original'.instructions)
  BY <1>1 DEF IInv
<1> QED
  BY <1>1, <1>2, <1>3, <1>4, <1>5 DEF IInv

(* So does starting over with wide gotos.                                  *)
LEMMA RetryInvariant ==
  ASSUME IInv, RetryFat
  PROVE  IInv'
<1> DEFINE f == [em EXCEPT !.instructions = original.instructions,
                           !.labels = original.labels]
<1>1. /\ em' = CheckPreconditions(f) /\ UNCHANGED original
      /\ stage = "narrowing" /\ stage' = "fattening" /\ mode' = "fat"
  BY DEF RetryFat
<1>2. /\ Good(em) /\ original.instructions \in Seq(Entry)
      /\ NoLoss(original.instructions)
      /\ Len(original.instructions) = Len(em.instructions)
  BY <1>1 DEF IInv, TypeOK
<1>3. Good(f) /\ f.instructions = original.instructions
  <2>1. /\ DOMAIN f = DOMAIN em /\ f.instructions = original.instructions
        /\ f.lineEvents = em.lineEvents /\ f.pendingLine = em.pendingLine
        /\ f.cur = em.cur /\ f.maxStack = em.maxStack
        /\ f.atControlEntry = em.atControlEntry
    BY <1>2, GoodFacts DEF NewEmitter
  <2>2. f.atControlEntry \in BOOLEAN
    <3>1. em.atControlEntry \in BOOLEAN
      BY <1>2 DEF Good, Typed
    <3> QED
      BY <2>1, <3>1
  <2> HIDE DEF f
  <2>3. /\ f.pendingLine \in Nat /\ f.cur \in Nat /\ f.maxStack \in Nat
        /\ f.cur <= f.maxStack
        /\ f.instructions \in Seq(Entry) /\ NoLoss(f.instructions)
        /\ Len(f.instructions) = Len(em.instructions)
    BY <1>2, <2>1, GoodFacts
  <2> QED
    BY <1>2, <2>1, <2>2, <2>3, RewriteGood
<1>4. Good(em') /\ em'.instructions = original.instructions
  <2> HIDE DEF f
  <2>1. Good(CheckPreconditions(f)) /\ CheckPreconditions(f).instructions = f.instructions
    BY <1>3, CheckGood
  <2> QED
    BY <1>1, <1>3, <2>1
<1>5. TypeOK'
  BY <1>1, <1>2, <1>4 DEF TypeOK, Good
<1>6. NoLoss(original'.instructions)
  BY <1>1 DEF IInv
<1> QED
  BY <1>1, <1>4, <1>5, <1>6 DEF IInv

(* So does every step.                                                     *)
LEMMA NextInvariant == IInv /\ [Next]_vars => IInv'
<1> SUFFICES ASSUME IInv, [Next]_vars PROVE IInv'
  OBVIOUS
<1>1. CASE Client
  BY <1>1, ClientInvariant
<1>2. CASE Finish
  BY <1>2, FinishInvariant
<1>3. CASE Round
  BY <1>3, RoundInvariant
<1>4. CASE RetryFat
  BY <1>4, RetryInvariant
<1>5. ASSUME UNCHANGED <<em, mode, original>>,
             stage' = stage \/ (stage # "recording" /\ stage' = "selected")
      PROVE  IInv'
  <2>1. TypeOK'
    BY <1>5 DEF IInv, TypeOK
  <2> QED
    BY <1>5, <2>1 DEF IInv
<1>6. CASE SelectNarrow
  BY <1>5, <1>6 DEF SelectNarrow
<1>7. CASE SelectFat
  BY <1>5, <1>7 DEF SelectFat
<1>8. CASE UNCHANGED vars
  BY <1>5, <1>8 DEF vars
<1> QED
  BY <1>1, <1>2, <1>3, <1>4, <1>6, <1>7, <1>8 DEF Next, Finalize

-----------------------------------------------------------------------------
(* The resolved line table. *)

(* What layout adds to the pc for an instruction. *)
Size(e, m, p) == IF Live(e, p) THEN EncodedLen(At(e, p), m) ELSE 0

(* An instruction that is kept has bytes.                                  *)
LEMMA SizeType ==
  ASSUME NEW e, e.instructions \in Seq(Entry), NEW m, NEW p \in 1..Count(e)
  PROVE  Size(e, m, p) \in Nat /\ (e.instructions[p].live => Size(e, m, p) > 0)
<1>1. e.instructions[p] \in Entry /\ Count(e) \in Nat
  BY DEF Count
<1>2. EncodedLen(At(e, p), m) \in {1, 2, 3, 5, 8}
  BY DEF EncodedLen, NarrowLen
<1> QED
  BY <1>1, <1>2 DEF Size, Live

IsLayout(h, e, m) ==
  h = [p \in Positions(e) |-> IF p = 1 THEN 0 ELSE h[p - 1] + Size(e, m, p - 1)]

(* The recursive function of layout.                                       *)
LEMMA LayoutUnfolds ==
  \A e, m : Layout(e, m) = [p \in Positions(e) |-> (CHOOSE h : IsLayout(h, e, m))[p]]
BY DEF Layout, IsLayout, Size

(* The pcs of a method: from 0 each instruction is as far from the one     *)
(* before as its size.                                                     *)
LEMMA LayoutSteps ==
  ASSUME NEW e, e.instructions \in Seq(Entry), NEW m
  PROVE  /\ Layout(e, m)[1] = 0
         /\ \A p \in 1..Count(e) :
              /\ Layout(e, m)[p] \in Nat
              /\ Layout(e, m)[p + 1] = Layout(e, m)[p] + Size(e, m, p)
<1> DEFINE n == Count(e)
           F == [p \in 1..n |-> [pc \in Nat |-> pc + Size(e, m, p)]]
<1>1. n \in Nat /\ Positions(e) = 1..(n + 1)
  BY DEF Count, Positions, End
<1>2. \A p \in 1..n : Size(e, m, p) \in Nat
  BY SizeType
<1>3. F \in [1..n -> [Nat -> Nat]] /\ \A p \in 1..n : \A pc \in Nat : F[p][pc] = pc + Size(e, m, p)
  <2> HIDE DEF n
  <2> QED
    BY <1>2
<1>4. PICK g : /\ \A s \in SUBSET (1..n) : g[s] \in Nat
               /\ g[{}] = 0 /\ \A k \in 1..n : g[1..k] = F[k][g[1..(k - 1)]]
  <2> HIDE DEF n, F
  <2> QED
    <3>1. F \in Steps(n, Nat) /\ n \in Nat /\ 0 \in Nat
      BY <1>1, <1>3 DEF Steps
    <3>2. \E g : IsLeftFold(g, F, 0, n, Nat)
      BY <3>1, LeftFold
    <3> QED
      BY <3>2 DEF IsLeftFold
<1> DEFINE h == [p \in 1..(n + 1) |-> g[1..(p - 1)]]
<1>5. /\ h[1] = 0
      /\ \A p \in 1..n : h[p] \in Nat /\ h[p + 1] = h[p] + Size(e, m, p)
  <2>1. h[1] = 0
    <3>1. 1..0 = {} /\ h[1] = g[1..0]
      BY <1>1
    <3> QED
      BY <1>4, <3>1
  <2>2. ASSUME NEW p \in 1..n
        PROVE  h[p] \in Nat /\ h[p + 1] = h[p] + Size(e, m, p)
    <3> HIDE DEF n, F
    <3>1. /\ p \in 1..(n + 1) /\ p + 1 \in 1..(n + 1)
          /\ 1..(p - 1) \in SUBSET (1..n) /\ (p + 1) - 1 = p
      BY <1>1
    <3>2. h[p] = g[1..(p - 1)] /\ h[p + 1] = g[1..p]
      BY <3>1
    <3> HIDE DEF h
    <3> QED
      BY <1>3, <1>4, <3>1, <3>2
  <2> QED
    BY <2>1, <2>2
<1>6. IsLayout(h, e, m)
  <2>1. \A p \in 1..(n + 1) : h[p] = IF p = 1 THEN 0 ELSE h[p - 1] + Size(e, m, p - 1)
    <3> HIDE DEF h, n
    <3> SUFFICES ASSUME NEW p \in 1..(n + 1), p # 1
                 PROVE  h[p] = h[p - 1] + Size(e, m, p - 1)
      BY <1>5
    <3>1. p - 1 \in 1..n /\ (p - 1) + 1 = p
      BY <1>1
    <3> QED
      BY <1>5, <3>1
  <2>2. h = [p \in 1..(n + 1) |-> h[p]]
    OBVIOUS
  <2> HIDE DEF h, n
  <2>3. h = [p \in 1..(n + 1) |-> IF p = 1 THEN 0 ELSE h[p - 1] + Size(e, m, p - 1)]
    BY <2>1, <2>2
  <2> QED
    BY <2>3, <1>1 DEF IsLayout
<1> DEFINE pc == CHOOSE f : IsLayout(f, e, m)
<1>7. IsLayout(pc, e, m)
  <2> HIDE DEF h
  <2> QED
    BY <1>6
<1>8. \A p \in 1..(n + 1) : Layout(e, m)[p] = pc[p]
  BY <1>1, LayoutUnfolds
<1>9. \A p \in 1..(n + 1) : pc[p] = IF p = 1 THEN 0 ELSE pc[p - 1] + Size(e, m, p - 1)
  <2> HIDE DEF pc, n
  <2> QED
    BY <1>1, <1>7 DEF IsLayout
<1>10. \A p \in 1..n : pc[p + 1] = pc[p] + Size(e, m, p)
  <2> HIDE DEF pc, n
  <2> TAKE p \in 1..n
  <2>1. p + 1 \in 1..(n + 1) /\ p + 1 # 1 /\ (p + 1) - 1 = p
    BY <1>1
  <2> QED
    BY <1>9, <2>1
<1> DEFINE G == {k \in Nat : k + 1 \in 1..(n + 1) => pc[k + 1] \in Nat}
<1>11. \A k \in 0..n : k \in G
  <2> HIDE DEF pc, n
  <2>1. 0 \in G
    BY <1>1, <1>9
  <2>2. ASSUME NEW k \in 1..n, k - 1 \in G
        PROVE  k \in G
    <3>1. pc[k] \in Nat
      BY <1>1, <2>2
    <3>2. pc[k + 1] \in Nat
      BY <1>2, <1>10, <3>1 DEF n
    <3> QED
      BY <3>2
  <2> HIDE DEF G
  <2> QED
    BY <1>1, <2>1, <2>2, IndexInduction
<1>12. \A p \in 1..n : pc[p] \in Nat
  <2> HIDE DEF pc, n
  <2> TAKE p \in 1..n
  <2>1. p - 1 \in 0..n /\ (p - 1) + 1 = p /\ p \in 1..(n + 1)
    BY <1>1
  <2> QED
    BY <1>11, <2>1
<1> QED
  <2> HIDE DEF pc
  <2>1. 1 \in 1..(n + 1) /\ \A p \in 1..n : p \in 1..(n + 1) /\ p + 1 \in 1..(n + 1)
    BY <1>1
  <2> HIDE DEF n
  <2> QED
    BY <1>8, <1>9, <1>10, <1>12, <2>1 DEF n

(* So a live instruction lies before everything that follows it.           *)
LEMMA LayoutGrows ==
  ASSUME NEW e, e.instructions \in Seq(Entry), NEW m,
         NEW p \in 1..Count(e), NEW q \in 1..Count(e), p < q, e.instructions[p].live
  PROVE  Layout(e, m)[p] < Layout(e, m)[q]
<1> DEFINE pcs == Layout(e, m)
           n == Count(e)
           G == {k \in Nat : p + 1 + k <= n => pcs[p] < pcs[p + 1 + k]}
<1>1. n \in Nat
  BY DEF Count
<1>2. \A i \in 1..n : /\ pcs[i] \in Nat /\ Size(e, m, i) \in Nat
                      /\ pcs[i + 1] = pcs[i] + Size(e, m, i)
  BY LayoutSteps, SizeType
<1>3. 0 \in G
  <2>1. Size(e, m, p) > 0
    BY SizeType
  <2> HIDE DEF pcs, n
  <2>2. pcs[p + 1] = pcs[p] + Size(e, m, p) /\ pcs[p] \in Nat /\ Size(e, m, p) \in Nat
    BY <1>2 DEF n
  <2>3. p \in Nat /\ p + 1 + 0 = p + 1
    BY <1>1 DEF n
  <2> QED
    BY <2>1, <2>2, <2>3
<1>4. ASSUME NEW k \in 1..n, k - 1 \in G
      PROVE  k \in G
  <2> HIDE DEF pcs, n
  <2> SUFFICES ASSUME p + 1 + k <= n
               PROVE  pcs[p] < pcs[p + 1 + k]
    BY <1>1
  <2>1. p \in 1..n /\ k \in Nat /\ p + k \in 1..n
        /\ p + 1 + (k - 1) = p + k /\ p + 1 + k = p + k + 1
    BY <1>1 DEF n
  <2>2. pcs[p] < pcs[p + k]
    BY <1>4, <2>1
  <2>3. /\ pcs[p] \in Nat /\ pcs[p + k] \in Nat /\ Size(e, m, p + k) \in Nat
        /\ pcs[p + k + 1] = pcs[p + k] + Size(e, m, p + k)
    BY <1>2, <2>1
  <2> QED
    BY <2>1, <2>2, <2>3
<1>5. q - p - 1 \in 0..n /\ p + 1 + (q - p - 1) = q
  BY <1>1
<1>6. q - p - 1 \in G
  <2> HIDE DEF G, n
  <2> QED
    BY <1>1, <1>3, <1>4, <1>5, IndexInduction
<1> QED
  BY <1>5, <1>6

(* One line event at a time, resolve_lines adds at most a row.             *)
RowStep(e, pcs, out, event) ==
  IF ~ Live(e, event.at) \/ (out # <<>> /\ Last(out)[2] = event.line)
  THEN out ELSE Append(out, <<pcs[event.at], event.line>>)

IsRows(h, e, pcs) ==
  h = [s \in SUBSET DOMAIN e.lineEvents |->
         IF s = {} THEN <<>>
         ELSE RowStep(e, pcs, h[s \ {Max(s)}], e.lineEvents[Max(s)])]

(* The fold of resolve_lines goes by subsets of the events.                *)
LEMMA RowsUnfold ==
  \A e, pcs : ResolveLines(e, pcs) = (CHOOSE h : IsRows(h, e, pcs))[DOMAIN e.lineEvents]
BY DEF ResolveLines, FoldLeft, MapThenFoldSet, IsRows, RowStep

Rows == Seq(Nat \X Nat)

(* Every event lies at an instruction, so the rows are pairs of naturals.  *)
LEMMA RowStepType ==
  ASSUME NEW e, Typed(e), Ordered(e), NEW m, NEW k \in DOMAIN e.lineEvents, NEW out \in Rows
  PROVE  /\ RowStep(e, Layout(e, m), out, e.lineEvents[k]) \in Rows
         /\ e.lineEvents[k] \in Event /\ e.lineEvents[k].at \in 1..Count(e)
<1>1. /\ e.instructions \in Seq(Entry) /\ e.lineEvents \in Seq(Event)
      /\ e.lineEvents[k] \in Event
  BY DEF Typed
<1>2. e.lineEvents[k].at \in 1..Count(e) /\ e.lineEvents[k].line \in Nat
  BY <1>1 DEF Ordered, Event, Position, Count
<1>3. Layout(e, m)[e.lineEvents[k].at] \in Nat
  BY <1>1, <1>2, LayoutSteps
<1> QED
  BY <1>1, <1>2, <1>3 DEF RowStep, Rows

(* The table after the first k events. *)
GrowsTo(r, e, m) ==
  /\ r[0] = <<>> /\ \A k \in 0..Len(e.lineEvents) : r[k] \in Rows
  /\ \A k \in 1..Len(e.lineEvents) :
       r[k] = RowStep(e, Layout(e, m), r[k - 1], e.lineEvents[k])
  /\ r[Len(e.lineEvents)] = ResolveLines(e, Layout(e, m))

(* resolve_lines goes from the first event to the last.                    *)
LEMMA RowsGrow ==
  ASSUME NEW e, Typed(e), Ordered(e), NEW m
  PROVE  \E r : GrowsTo(r, e, m)
<1> DEFINE pcs == Layout(e, m)
           ev == e.lineEvents
           n == Len(ev)
           F == [k \in 1..n |-> [out \in Rows |-> RowStep(e, pcs, out, ev[k])]]
<1>1. n \in Nat /\ DOMAIN ev = 1..n
  BY DEF Typed
<1>2. /\ F \in Steps(n, Rows)
      /\ \A k \in 1..n : \A out \in Rows : F[k][out] = RowStep(e, pcs, out, ev[k])
  <2>1. \A k \in 1..n : \A out \in Rows : RowStep(e, pcs, out, ev[k]) \in Rows
    BY <1>1, RowStepType
  <2> HIDE DEF n, ev, pcs
  <2> QED
    BY <2>1 DEF Steps
<1>3. <<>> \in Rows
  BY DEF Rows
<1>4. PICK g : IsLeftFold(g, F, <<>>, n, Rows)
  <2> HIDE DEF n, F
  <2> QED
    BY <1>1, <1>2, <1>3, LeftFold
<1>5. IsRows(g, e, pcs)
  <2> HIDE DEF n, ev, pcs, F
  <2>1. IndexSet(1..n)
    BY <1>1, FS_Interval DEF IndexSet
  <2>2. ASSUME NEW s \in SUBSET (1..n), s # {}
        PROVE  Max(s) \in 1..n
    <3> DEFINE N == 1..n
    <3>1. s \in SUBSET N /\ IndexSet(N)
      BY <2>1
    <3> HIDE DEF N
    <3>2. Max(s) \in N
      BY <2>2, <3>1, GreatestIndex
    <3> QED
      BY <3>2 DEF N
  <2>3. g = [s \in SUBSET (1..n) |-> IF s = {} THEN <<>> ELSE F[Max(s)][g[s \ {Max(s)}]]]
    BY <1>4 DEF IsLeftFold, IsFold
  <2>4. ASSUME NEW s \in SUBSET (1..n), s # {}
        PROVE  F[Max(s)][g[s \ {Max(s)}]] = RowStep(e, pcs, g[s \ {Max(s)}], ev[Max(s)])
    <3>1. g[s \ {Max(s)}] \in Rows
      BY <1>4 DEF IsLeftFold
    <3> QED
      BY <1>2, <2>2, <2>4, <3>1
  <2>5. g = [s \in SUBSET (1..n) |->
               IF s = {} THEN <<>> ELSE RowStep(e, pcs, g[s \ {Max(s)}], ev[Max(s)])]
    BY <2>3, <2>4
  <2> QED
    BY <1>1, <2>5 DEF IsRows, ev
<1> DEFINE h == CHOOSE f : IsRows(f, e, pcs)
<1>6. IsRows(h, e, pcs)
  BY <1>5
<1>7. ResolveLines(e, pcs) = h[1..n]
  BY <1>1, RowsUnfold
<1> HIDE DEF h, n, F, pcs
<1>8. \A s \in SUBSET (1..n) :
        h[s] = IF s = {} THEN <<>> ELSE RowStep(e, pcs, h[s \ {Max(s)}], ev[Max(s)])
  BY <1>1, <1>6 DEF IsRows
<1> DEFINE r == [k \in 0..n |-> h[1..k]]
<1>9. r[0] = <<>>
  <2>1. 1..0 = {} /\ r[0] = h[1..0]
    BY <1>1
  <2> QED
    BY <1>8, <2>1
<1>10. ASSUME NEW k \in 1..n
       PROVE  r[k] = RowStep(e, pcs, r[k - 1], ev[k])
  <2>1. /\ 1..k \in SUBSET (1..n) /\ 1..k # {}
        /\ Max(1..k) = k /\ (1..k) \ {Max(1..k)} = 1..(k - 1)
    BY <1>1, IndexPrefixes
  <2>2. h[1..k] = RowStep(e, pcs, h[1..(k - 1)], ev[k])
    BY <1>8, <2>1
  <2> QED
    BY <1>1, <2>2
<1> DEFINE G == {k \in Nat : k \in 0..n => r[k] \in Rows}
<1>11. \A k \in 0..n : k \in G
  <2>1. 0 \in G
    BY <1>3, <1>9
  <2>2. ASSUME NEW k \in 1..n, k - 1 \in G
        PROVE  k \in G
    <3>1. r[k - 1] \in Rows
      BY <1>1, <2>2
    <3>2. r[k] \in Rows
      <4> HIDE DEF r
      <4> QED
        BY <1>1, <1>10, <3>1, RowStepType DEF pcs
    <3> QED
      BY <3>2
  <2> HIDE DEF G
  <2> QED
    BY <1>1, <2>1, <2>2, IndexInduction
<1>12. r[n] = ResolveLines(e, pcs)
  BY <1>1, <1>7
<1> QED
  <2>1. \A k \in 0..n : r[k] \in Rows
    BY <1>11
  <2> HIDE DEF r
  <2> QED
    BY <1>9, <1>10, <1>12, <2>1 DEF n, pcs, GrowsTo

(* The rows are one after the other and neighbours differ.                 *)
Increasing(rows) ==
  \A k \in 2..Len(rows) : rows[k - 1][1] < rows[k][1] /\ rows[k - 1][2] # rows[k][2]

(* A row for an event that lies behind the last one keeps them so.         *)
LEMMA RowAppended ==
  ASSUME NEW rows \in Rows, Increasing(rows), NEW pc \in Nat, NEW line \in Nat,
         rows # <<>> => Last(rows)[1] < pc /\ Last(rows)[2] # line
  PROVE  Increasing(Append(rows, <<pc, line>>)) /\ Last(Append(rows, <<pc, line>>)) = <<pc, line>>
<1> DEFINE new == Append(rows, <<pc, line>>)
           n == Len(rows)
<1>1. /\ n \in Nat /\ Len(new) = n + 1 /\ new[n + 1] = <<pc, line>>
      /\ \A k \in 1..n : new[k] = rows[k]
  BY DEF Rows
<1>2. n # 0 => rows # <<>> /\ Last(rows) = rows[n]
  BY DEF Rows, Last
<1>3. ASSUME NEW k \in 2..Len(new)
      PROVE  new[k - 1][1] < new[k][1] /\ new[k - 1][2] # new[k][2]
  <2> HIDE DEF new, n
  <2>1. CASE k = n + 1
    <3>1. k - 1 = n /\ n # 0 /\ n \in 1..n
      BY <1>1, <2>1
    <3>2. new[k - 1] = Last(rows) /\ rows # <<>>
      BY <1>1, <1>2, <3>1
    <3> QED
      BY <1>1, <2>1, <3>2
  <2>2. CASE k # n + 1
    <3>1. k \in 2..n /\ k \in 1..n /\ k - 1 \in 1..n
      BY <1>1, <2>2
    <3> QED
      BY <1>1, <3>1 DEF Increasing, n
  <2> QED
    BY <2>1, <2>2
<1>4. Last(new) = <<pc, line>>
  <2> HIDE DEF new
  <2> QED
    BY <1>1 DEF Last
<1> QED
  BY <1>3, <1>4 DEF Increasing

(* The line table of a typed stream whose events are in order.             *)
LEMMA LineTable ==
  ASSUME NEW e, Typed(e), Ordered(e), NEW m
  PROVE  Increasing(ResolveLines(e, Layout(e, m)))
<1> DEFINE pcs == Layout(e, m)
           ev == e.lineEvents
           n == Len(ev)
<1>1. \E r : GrowsTo(r, e, m)
  BY RowsGrow
<1>2. PICK r : /\ r[0] = <<>> /\ \A k \in 0..n : r[k] \in Rows
               /\ \A k \in 1..n : r[k] = RowStep(e, pcs, r[k - 1], ev[k])
               /\ r[n] = ResolveLines(e, pcs)
  BY <1>1 DEF GrowsTo
<1>3. /\ n \in Nat /\ DOMAIN ev = 1..n /\ e.instructions \in Seq(Entry)
      /\ \A k \in 1..n : /\ ev[k].at \in 1..Count(e) /\ ev[k].line \in Nat
                          /\ pcs[ev[k].at] \in Nat
  <2>1. ev \in Seq(Event) /\ e.instructions \in Seq(Entry)
    BY DEF Typed
  <2>2. n \in Nat /\ DOMAIN ev = 1..n
    BY <2>1
  <2>3. \A k \in 1..n : ev[k].at \in 1..Count(e) /\ ev[k].line \in Nat
    <3> TAKE k \in 1..n
    <3>1. ev[k] \in Event /\ k \in DOMAIN ev
      BY <2>1, <2>2
    <3>2. ev[k].at \in Nat \ {0} /\ ev[k].line \in Nat /\ ev[k].at <= Len(e.instructions)
      BY <3>1 DEF Ordered, Event, Position
    <3> QED
      BY <3>2 DEF Count
  <2> QED
    BY <2>1, <2>2, <2>3, LayoutSteps
<1> DEFINE Up(k) == /\ Increasing(r[k])
                    /\ r[k] # <<>> =>
                         \E i \in 1..k : Live(e, ev[i].at) /\ Last(r[k])[1] = pcs[ev[i].at]
           G == {k \in Nat : k \in 0..n => Up(k)}
<1>4. 0 \in G
  <2>1. Len(<<>>) = 0 /\ 2..0 = {}
    OBVIOUS
  <2>2. Increasing(<<>>)
    BY <2>1 DEF Increasing
  <2> QED
    BY <1>2, <2>2
<1>5. ASSUME NEW k \in 1..n, k - 1 \in G
      PROVE  k \in G
  <2> HIDE DEF pcs, ev, n
  <2>1. Up(k - 1) /\ r[k - 1] \in Rows /\ r[k] = RowStep(e, pcs, r[k - 1], ev[k])
        /\ k \in Nat /\ k \in 1..k /\ 1..(k - 1) \subseteq 1..k
    BY <1>2, <1>3, <1>5
  <2>2. CASE ~ Live(e, ev[k].at) \/ (r[k - 1] # <<>> /\ Last(r[k - 1])[2] = ev[k].line)
    <3>1. r[k] = r[k - 1]
      BY <2>1, <2>2 DEF RowStep
    <3> QED
      BY <2>1, <3>1
  <2>3. CASE ~ (~ Live(e, ev[k].at) \/ (r[k - 1] # <<>> /\ Last(r[k - 1])[2] = ev[k].line))
    <3>1. r[k] = Append(r[k - 1], <<pcs[ev[k].at], ev[k].line>>)
      BY <2>1, <2>3 DEF RowStep
    <3>2. pcs[ev[k].at] \in Nat /\ ev[k].line \in Nat
      BY <1>3
    <3>3. ASSUME r[k - 1] # <<>>
          PROVE  Last(r[k - 1])[1] < pcs[ev[k].at] /\ Last(r[k - 1])[2] # ev[k].line
      <4>1. PICK i \in 1..(k - 1) : Live(e, ev[i].at) /\ Last(r[k - 1])[1] = pcs[ev[i].at]
        BY <2>1, <3>3
      <4>2. i \in 1..n /\ i < k
        BY <1>3
      <4>3. ev[i].at < ev[k].at
        BY <1>3, <4>2 DEF Ordered, ev
      <4>4. pcs[ev[i].at] < pcs[ev[k].at]
        <5> DEFINE p == ev[i].at
                   q == ev[k].at
        <5>1. p \in 1..Count(e) /\ q \in 1..Count(e) /\ p < q /\ e.instructions[p].live
          BY <1>3, <4>1, <4>2, <4>3 DEF Live
        <5> HIDE DEF p, q
        <5>2. Layout(e, m)[p] < Layout(e, m)[q]
          BY <1>3, <5>1, LayoutGrows
        <5> QED
          BY <5>2 DEF p, q, pcs
      <4> QED
        BY <2>3, <3>3, <4>1, <4>4
    <3>4. Increasing(r[k]) /\ Last(r[k]) = <<pcs[ev[k].at], ev[k].line>>
      BY <2>1, <3>1, <3>2, <3>3, RowAppended
    <3> QED
      BY <2>1, <2>3, <3>4
  <2> QED
    BY <2>2, <2>3
<1>6. n \in G
  <2> HIDE DEF G, n
  <2>1. n \in 0..n
    BY <1>3
  <2> QED
    BY <1>3, <1>4, <1>5, <2>1, IndexInduction
<1>7. n \in 0..n
  BY <1>3
<1> QED
  BY <1>2, <1>6, <1>7

-----------------------------------------------------------------------------
(* Goto threading. *)

(* What next_live stops at: the end, or the first live instruction from p. *)
IsNext(e, p, q) ==
  /\ q \in p..End(e)
  /\ q = End(e) \/ Live(e, q)
  /\ \A r \in p..(q - 1) : ~ Live(e, r)

(* A stream has a position behind every instruction.                       *)
LEMMA EndType ==
  ASSUME NEW e, e.instructions \in Seq(Entry)
  PROVE  Count(e) \in Nat /\ End(e) = Count(e) + 1 /\ End(e) \in Nat
         /\ Positions(e) = 1..End(e)
BY DEF Count, End, Positions

(* There is one such position.                                             *)
LEMMA NextIs ==
  ASSUME NEW e, e.instructions \in Seq(Entry), NEW p \in Positions(e)
  PROVE  /\ IsNext(e, p, NextLive(e, p))
         /\ \A q : IsNext(e, p, q) => NextLive(e, p) = q
<1> DEFINE n == End(e)
           G == {k \in Nat : n - k \in 1..n => \E q : IsNext(e, n - k, q)}
<1>1. n \in Nat /\ p \in 1..n
  BY EndType
<1>2. 0 \in G
  <2>1. n - 0 = n /\ n \in n..n /\ n..(n - 1) = {}
    BY <1>1
  <2>2. IsNext(e, n, n)
    BY <2>1 DEF IsNext
  <2> HIDE DEF n
  <2> QED
    BY <2>1, <2>2
<1>3. ASSUME NEW k \in 1..n, k - 1 \in G
      PROVE  k \in G
  <2> SUFFICES ASSUME n - k \in 1..n
               PROVE  \E q : IsNext(e, n - k, q)
    OBVIOUS
  <2> DEFINE i == n - k
  <2>0. n - (k - 1) = i + 1 /\ i \in 1..n /\ i + 1 \in 1..n /\ i \in Nat /\ i < n
    BY <1>1
  <2>1. PICK q : IsNext(e, i + 1, q)
    <3> HIDE DEF i, n
    <3> QED
      BY <1>3, <2>0
  <2>2. CASE Live(e, i)
    <3>1. i \in i..n /\ i..(i - 1) = {}
      BY <2>0
    <3>2. IsNext(e, i, i)
      BY <2>2, <3>1 DEF IsNext
    <3> QED
      BY <3>2
  <2>3. CASE ~ Live(e, i)
    <3> HIDE DEF i
    <3>1. q \in (i + 1)..n /\ (q = n \/ Live(e, q)) /\ \A r \in (i + 1)..(q - 1) : ~ Live(e, r)
      BY <2>1 DEF IsNext
    <3>2. q \in i..n /\ \A r \in i..(q - 1) : r = i \/ r \in (i + 1)..(q - 1)
      <4> HIDE DEF n
      <4> QED
        BY <2>0, <3>1
    <3>3. IsNext(e, i, q)
      BY <2>3, <3>1, <3>2 DEF IsNext
    <3> QED
      BY <3>3 DEF i
  <2> QED
    BY <2>2, <2>3
<1>4. n - p \in 0..n /\ n - (n - p) = p
  <2> HIDE DEF n
  <2> QED
    BY <1>1
<1>5. n - p \in G
  <2> HIDE DEF G, n
  <2> QED
    BY <1>1, <1>2, <1>3, <1>4, IndexInduction
<1>6. \E q : IsNext(e, p, q)
  <2> HIDE DEF n
  <2> QED
    BY <1>1, <1>4, <1>5
<1>7. NextLive(e, p) = CHOOSE q \in p..n : IsNext(e, p, q)
  <2>1. \A q \in p..n : IsNext(e, p, q) <=>
          (q = n \/ Live(e, q)) /\ \A r \in p..(q - 1) : ~ Live(e, r)
    BY DEF IsNext
  <2> QED
    BY <2>1, Zenon DEF NextLive
<1>8. IsNext(e, p, NextLive(e, p))
  <2>1. \E q \in p..n : IsNext(e, p, q)
    BY <1>6 DEF IsNext
  <2> QED
    BY <1>7, <2>1
<1>9. ASSUME NEW q, NEW s, IsNext(e, p, q), IsNext(e, p, s)
      PROVE  q = s
  <2> HIDE DEF n
  <2>1. /\ q \in p..n /\ s \in p..n
        /\ q = n \/ Live(e, q)
        /\ s = n \/ Live(e, s)
        /\ \A r \in p..(q - 1) : ~ Live(e, r)
        /\ \A r \in p..(s - 1) : ~ Live(e, r)
    BY <1>9 DEF IsNext, n
  <2>2. ~ (q < s)
    BY <1>1, <2>1
  <2>3. ~ (s < q)
    BY <1>1, <2>1
  <2> QED
    BY <1>1, <2>1, <2>2, <2>3
<1> QED
  BY <1>8, <1>9

(* The label position of a branch.                                         *)
Target(e, p) == e.labels[At(e, p).arg]

(* Branches go forward, and never to the end of the method.                *)
Forward(e) == \A p \in Branches(e) : Target(e, p) \in (p + 1)..Count(e)

(* Where a hop from a goto leads, and where there is none.                 *)
Jump(e, p) == NextLive(e, Target(e, p))
Stops(e, p) == ~ Live(e, p) \/ ~ IsGoto(At(e, p)) \/ Jump(e, p) = p

(* The hops of thread_from, as a function of how many are left.            *)
IsHop(h, e) ==
  h = [left \in 0..End(e) |->
         [p \in Positions(e) |->
            IF left = 0 \/ ~ Live(e, p) \/ ~ IsGoto(At(e, p)) \/ Jump(e, p) = p
            THEN p ELSE h[left - 1][Jump(e, p)]]]

(* The recursive function of thread_from.                                  *)
LEMMA HopUnfolds ==
  \A e, s : ThreadFrom(e, s) = (CHOOSE h : IsHop(h, e))[End(e)][NextLive(e, s)]
BY DEF ThreadFrom, IsHop, Jump, Target, LabelPosition

(* A goto leads forward to an instruction.                                 *)
LEMMA GotoJumps ==
  ASSUME NEW e, e.instructions \in Seq(Entry), Forward(e),
         NEW p \in Positions(e), Live(e, p), IsGoto(At(e, p))
  PROVE  /\ p \in Branches(e) /\ Target(e, p) \in Positions(e) /\ Target(e, p) > p
         /\ Jump(e, p) \in Positions(e) /\ Jump(e, p) > p
         /\ Stops(e, p) = FALSE
<1>1. Count(e) \in Nat /\ End(e) = Count(e) + 1 /\ Positions(e) = 1..End(e)
  BY EndType
<1>2. p \in Branches(e)
  BY <1>1 DEF Branches, Live, IsGoto, IsBranch, BranchOps
<1>3. Target(e, p) \in (p + 1)..Count(e)
  BY <1>2 DEF Forward
<1>4. Target(e, p) \in Positions(e) /\ Target(e, p) > p
  <2> HIDE DEF Target
  <2> QED
    BY <1>1, <1>3
<1>5. Jump(e, p) \in Target(e, p)..End(e)
  BY <1>4, NextIs DEF Jump, IsNext
<1>6. Jump(e, p) \in Positions(e) /\ Jump(e, p) > p /\ Jump(e, p) # p
  BY <1>1, <1>4, <1>5
<1> QED
  BY <1>2, <1>4, <1>6, Zenon DEF Stops

(* One hop: what is left of them decreases, and so does what is ahead.     *)
LEMMA HopSteps ==
  ASSUME NEW e, e.instructions \in Seq(Entry), Forward(e)
  PROVE  \E h : /\ \A s : ThreadFrom(e, s) = h[End(e)][NextLive(e, s)]
                /\ \A k \in 0..End(e), p \in Positions(e) :
                     h[k][p] = IF k = 0 \/ Stops(e, p) THEN p ELSE h[k - 1][Jump(e, p)]
<1> DEFINE n == End(e)
           P == Positions(e)
           A == [P -> P]
           F == [k \in 1..n |-> [g \in A |->
                   [p \in P |-> IF Stops(e, p) THEN p ELSE g[Jump(e, p)]]]]
           base == [p \in P |-> p]
<1>1. n \in Nat /\ P = 1..n
  BY EndType
<1>2. \A p \in P : ~ Stops(e, p) => Jump(e, p) \in P
  BY GotoJumps DEF Stops
<1>3. base \in A
  OBVIOUS
<1>4. /\ F \in [1..n -> [A -> A]]
      /\ \A k \in 1..n : \A g \in A : \A p \in P :
           F[k][g][p] = IF Stops(e, p) THEN p ELSE g[Jump(e, p)]
  <2> DEFINE H(g) == [p \in P |-> IF Stops(e, p) THEN p ELSE g[Jump(e, p)]]
  <2>1. ASSUME NEW g \in A
        PROVE  H(g) \in A
    <3> HIDE DEF P
    <3> QED
      BY <1>2
  <2>2. F = [k \in 1..n |-> [g \in A |-> H(g)]]
    OBVIOUS
  <2>3. F \in [1..n -> [A -> A]] /\ \A k \in 1..n : \A g \in A : F[k][g] = H(g)
    <3> HIDE DEF H, A, n, F
    <3> QED
      BY <2>1, <2>2
  <2>4. \A g \in A : \A p \in P : H(g)[p] = IF Stops(e, p) THEN p ELSE g[Jump(e, p)]
    OBVIOUS
  <2> HIDE DEF H, A, n, P, F
  <2> QED
    BY <2>3, <2>4
<1>5. PICK g : IsLeftFold(g, F, base, n, A)
  <2> HIDE DEF n, F, A, base
  <2>1. F \in Steps(n, A)
    BY <1>4 DEF Steps
  <2> QED
    BY <1>1, <1>3, <2>1, LeftFold
<1> DEFINE h == [k \in 0..n |-> g[1..k]]
<1>6. /\ \A k \in 0..n : h[k] \in A
      /\ h[0] = base /\ \A k \in 1..n : h[k] = F[k][h[k - 1]]
  <2> HIDE DEF n, F, A, base
  <2>1. 1..0 = {} /\ \A k \in 0..n : 1..k \in SUBSET (1..n)
    BY <1>1
  <2>2. /\ \A k \in 0..n : g[1..k] \in A
        /\ g[1..0] = base /\ \A k \in 1..n : g[1..k] = F[k][g[1..(k - 1)]]
    BY <1>5, <2>1 DEF IsLeftFold
  <2>3. 0 \in 0..n /\ \A k \in 1..n : k \in 0..n /\ k - 1 \in 0..n
    BY <1>1
  <2> HIDE DEF h
  <2>4. \A k \in 0..n : h[k] = g[1..k]
    BY DEF h
  <2> QED
    BY <2>2, <2>3, <2>4
<1>7. ASSUME NEW k \in 0..n, NEW p \in P
      PROVE  h[k][p] = IF k = 0 \/ Stops(e, p) THEN p ELSE h[k - 1][Jump(e, p)]
  <2>1. CASE k = 0
    <3> HIDE DEF h
    <3>1. h[k][p] = base[p] /\ base[p] = p
      BY <1>6, <2>1
    <3> QED
      BY <2>1, <3>1
  <2>2. CASE k # 0
    <3> HIDE DEF h, n, F, A, base, P
    <3>1. k \in 1..n /\ k - 1 \in 0..n
      BY <1>1, <2>2
    <3> QED
      BY <1>4, <1>6, <2>2, <3>1
  <2> QED
    BY <2>1, <2>2
<1>8. IsHop(h, e)
  <2> DEFINE f == [k \in 0..n |-> [p \in P |->
               IF k = 0 \/ Stops(e, p) THEN p ELSE h[k - 1][Jump(e, p)]]]
  <2>1. ASSUME NEW k \in 0..n
        PROVE  h[k] = [p \in P |-> IF k = 0 \/ Stops(e, p) THEN p
                                   ELSE h[k - 1][Jump(e, p)]]
    <3>1. h[k] \in [P -> P]
      BY <1>6
    <3> HIDE DEF h, n, P
    <3> QED
      BY <1>7, <3>1
  <2>2. h = [k \in 0..n |-> h[k]]
    OBVIOUS
  <2>3. h = f
    <3> HIDE DEF h, n, P
    <3> QED
      BY <2>1, <2>2
  <2> HIDE DEF h
  <2> QED
    BY <2>3 DEF IsHop, Stops
<1> DEFINE hop == CHOOSE f : IsHop(f, e)
<1>9. IsHop(hop, e)
  <2> HIDE DEF h
  <2> QED
    BY <1>8
<1>10. ASSUME NEW k \in 0..n, NEW p \in P
       PROVE  hop[k][p] = IF k = 0 \/ Stops(e, p) THEN p ELSE hop[k - 1][Jump(e, p)]
  <2> DEFINE step == [i \in P |-> IF k = 0 \/ Stops(e, i) THEN i ELSE hop[k - 1][Jump(e, i)]]
  <2>1. hop = [j \in 0..n |-> [i \in P |->
                IF j = 0 \/ Stops(e, i) THEN i ELSE hop[j - 1][Jump(e, i)]]]
    <3> HIDE DEF hop
    <3> QED
      BY <1>9 DEF IsHop, Stops
  <2>2. hop[k] = step
    <3> HIDE DEF hop, n, P
    <3> QED
      BY <2>1
  <2>3. step[p] = IF k = 0 \/ Stops(e, p) THEN p ELSE hop[k - 1][Jump(e, p)]
    <3> HIDE DEF hop, n, P
    <3> QED
      OBVIOUS
  <2> QED
    BY <2>2, <2>3
<1>11. \A s : ThreadFrom(e, s) = hop[n][NextLive(e, s)]
  BY HopUnfolds
<1> QED
  <2> HIDE DEF hop
  <2> QED
    BY <1>10, <1>11

(* Where threading comes to rest: at an instruction that is no goto, or at *)
(* the end.                                                                *)
Rests(e, q) == q = End(e) \/ (Live(e, q) /\ ~ IsGoto(At(e, q)))

(* Threading skips what is dead and every goto, and comes to rest: as each *)
(* hop goes forward, there are enough of them.                             *)
LEMMA Threads ==
  ASSUME NEW e, e.instructions \in Seq(Entry), Forward(e), NEW s \in Positions(e)
  PROVE  /\ ThreadFrom(e, s) \in s..End(e) /\ Rests(e, ThreadFrom(e, s))
         /\ Rests(e, NextLive(e, s)) => ThreadFrom(e, s) = NextLive(e, s)
         /\ ~ Rests(e, NextLive(e, s)) =>
              ThreadFrom(e, s) = ThreadFrom(e, Target(e, NextLive(e, s)))
<1> DEFINE n == End(e)
           P == Positions(e)
<1>1. PICK h : /\ \A t : ThreadFrom(e, t) = h[n][NextLive(e, t)]
               /\ \A k \in 0..n, p \in P :
                     h[k][p] = IF k = 0 \/ Stops(e, p) THEN p ELSE h[k - 1][Jump(e, p)]
  BY HopSteps
<1>2. n \in Nat /\ P = 1..n
  BY EndType
<1>3. ASSUME NEW p \in P
      PROVE  /\ Rests(e, p) => Stops(e, p)
             /\ Live(e, p) /\ ~ Rests(e, p) =>
                  /\ ~ Stops(e, p) /\ Jump(e, p) \in P /\ Jump(e, p) > p
                  /\ Target(e, p) \in P
  <2>1. Rests(e, p) => Stops(e, p)
    BY <1>2 DEF Rests, Stops, Live, End, Count
  <2>2. Live(e, p) /\ ~ Rests(e, p) => IsGoto(At(e, p))
    BY DEF Rests
  <2> QED
    BY <2>1, <2>2, GotoJumps
<1> DEFINE OnWay(p) == Live(e, p) \/ p = n
           Done(k, p) == /\ h[k][p] \in p..n /\ Rests(e, h[k][p])
                         /\ k + 1 <= n => h[k + 1][p] = h[k][p]
           G == {k \in Nat : k <= n => \A p \in P : OnWay(p) /\ k >= n - p => Done(k, p)}
<1>4. \A p \in P : OnWay(p) /\ ~ Rests(e, p) => Live(e, p)
  BY DEF Rests
<1>5. \A p \in P : ~ Stops(e, p) => OnWay(Jump(e, p))
  <2> SUFFICES ASSUME NEW p \in P, ~ Stops(e, p) PROVE OnWay(Jump(e, p))
    OBVIOUS
  <2>1. Target(e, p) \in P
    BY GotoJumps DEF Stops
  <2>2. IsNext(e, Target(e, p), Jump(e, p))
    BY <2>1, NextIs DEF Jump
  <2> QED
    BY <2>2 DEF IsNext
<1>6. 0 \in G
  <2> SUFFICES ASSUME NEW p \in P, 0 >= n - p PROVE Done(0, p)
    OBVIOUS
  <2> HIDE DEF n
  <2>1. p = n
    BY <1>2
  <2>2. Rests(e, p) /\ Stops(e, p)
    <3>1. Rests(e, p)
      BY <2>1 DEF Rests, n
    <3> QED
      BY <3>1, <1>3
  <2> HIDE DEF P
  <2>3. h[0][p] = p /\ (0 + 1 <= n => h[0 + 1][p] = p)
    BY <1>1, <1>2, <2>2
  <2> QED
    BY <1>2, <2>1, <2>2, <2>3
<1>7. ASSUME NEW k \in 1..n, k - 1 \in G
      PROVE  k \in G
  <2> HIDE DEF n, P
  <2> SUFFICES ASSUME NEW p \in P, OnWay(p), k >= n - p
               PROVE  Done(k, p)
    BY <1>2
  <2>1. p \in Nat /\ p <= n /\ k \in Nat /\ k \in 0..n /\ k - 1 \in 0..n /\ k <= n
    BY <1>2
  <2>2. CASE Rests(e, p)
    <3>1. Stops(e, p)
      BY <1>3, <2>2
    <3>2. h[k][p] = p /\ (k + 1 <= n => h[k + 1][p] = p)
      BY <1>1, <1>2, <2>1, <3>1
    <3> QED
      BY <2>1, <2>2, <3>2
  <2>3. CASE ~ Rests(e, p)
    <3> DEFINE j == Jump(e, p)
    <3>1. ~ Stops(e, p) /\ j \in P /\ j > p /\ OnWay(j)
      <4> HIDE DEF OnWay
      <4> QED
        BY <1>3, <1>4, <1>5, <2>3
    <3> HIDE DEF j
    <3>2. h[k][p] = h[k - 1][j]
      BY <1>1, <2>1, <3>1 DEF j
    <3>3. k + 1 <= n => h[k + 1][p] = h[k][j]
      <4> SUFFICES ASSUME k + 1 <= n PROVE h[k + 1][p] = h[k][j]
        OBVIOUS
      <4>1. k + 1 \in 0..n /\ k + 1 # 0 /\ (k + 1) - 1 = k
        BY <1>2, <2>1
      <4> QED
        BY <1>1, <3>1, <4>1 DEF j
    <3>4. j \in Nat /\ k - 1 >= n - j /\ k - 1 <= n /\ (k - 1) + 1 = k
      BY <1>2, <2>1, <3>1
    <3>5. h[k - 1][j] \in j..n /\ Rests(e, h[k - 1][j]) /\ h[k][j] = h[k - 1][j]
      <4> HIDE DEF OnWay
      <4>1. Done(k - 1, j)
        <5> HIDE DEF Done
        <5> QED
          BY <1>7, <3>1, <3>4
      <4> QED
        BY <2>1, <3>4, <4>1
    <3>6. \A x : x \in j..n => x \in p..n
      BY <1>2, <2>1, <3>1
    <3> HIDE DEF OnWay
    <3> QED
      BY <3>2, <3>3, <3>5, <3>6
  <2> QED
    BY <2>2, <2>3
<1>8. \A k \in 0..n, p \in P : OnWay(p) /\ k >= n - p => Done(k, p)
  <2> HIDE DEF n, P
  <2>1. \A k \in 0..n : k \in G
    <3> HIDE DEF G
    <3> QED
      BY <1>2, <1>6, <1>7, IndexInduction
  <2> HIDE DEF OnWay, Done
  <2>2. \A k \in 0..n : k <= n
    BY <1>2
  <2> QED
    BY <2>1, <2>2
<1> DEFINE q == NextLive(e, s)
<1>9. q \in s..n /\ q \in P /\ OnWay(q) /\ s \in Nat /\ s >= 1
  <2>1. IsNext(e, s, q)
    BY NextIs
  <2> HIDE DEF q
  <2> QED
    BY <1>2, <2>1 DEF IsNext
<1>10. /\ ThreadFrom(e, s) = h[n][q] /\ h[n][q] \in q..n /\ Rests(e, h[n][q])
  <2>1. Done(n, q)
    <3> HIDE DEF q, n, P, OnWay, Done
    <3>1. n \in 0..n /\ n >= n - q
      BY <1>2, <1>9
    <3> QED
      BY <1>8, <1>9, <3>1
  <2> HIDE DEF q
  <2> QED
    BY <1>1, <2>1 DEF q
<1>11. CASE Rests(e, q)
  <2>1. Stops(e, q)
    BY <1>3, <1>9, <1>11
  <2>2. h[n][q] = q
    <3> HIDE DEF q, n, P
    <3>1. n \in 0..n
      BY <1>2
    <3> QED
      BY <1>1, <1>9, <2>1, <3>1
  <2> QED
    <3> HIDE DEF q, n, P
    <3>1. ThreadFrom(e, s) \in s..n
      BY <1>2, <1>9, <1>10
    <3> QED
      BY <1>10, <1>11, <2>2, <3>1 DEF q, n
<1>12. CASE ~ Rests(e, q)
  <2> DEFINE t == Target(e, q)
             j == Jump(e, q)
  <2>1. ~ Stops(e, q) /\ j \in P /\ j > q /\ t \in P /\ OnWay(j) /\ j = NextLive(e, t)
    <3>1. Live(e, q)
      BY <1>4, <1>9, <1>12
    <3> HIDE DEF q, OnWay
    <3>2. ~ Stops(e, q) /\ j \in P /\ j > q /\ t \in P
      BY <1>3, <1>9, <1>12, <3>1
    <3> QED
      BY <1>5, <1>9, <3>2 DEF Jump
  <2>2. ThreadFrom(e, t) = h[n][j]
    BY <1>1, <2>1
  <2>3. n \in 0..n /\ n # 0 /\ n - 1 \in 0..n /\ (n - 1) + 1 = n /\ n - 1 >= n - j
    <3> HIDE DEF n, P, j
    <3> QED
      BY <1>2, <2>1
  <2>4. h[n][q] = h[n - 1][j]
    <3> HIDE DEF n, P
    <3> QED
      BY <1>1, <1>9, <2>1, <2>3
  <2>5. Done(n - 1, j)
    <3> HIDE DEF n, P, OnWay, Done, j
    <3> QED
      BY <1>8, <2>1, <2>3
  <2>6. h[n][j] = h[n - 1][j]
    <3> HIDE DEF n, P, OnWay, j
    <3>1. (n - 1) + 1 <= n
      BY <1>2, <2>3
    <3> QED
      BY <2>3, <2>5, <3>1
  <2>7. ThreadFrom(e, s) = ThreadFrom(e, t)
    BY <1>10, <2>2, <2>4, <2>6
  <2>8. ThreadFrom(e, s) \in s..n
    <3> HIDE DEF q, n, P
    <3> QED
      BY <1>2, <1>9, <1>10
  <2> QED
    BY <1>10, <1>12, <2>7, <2>8
<1> QED
  BY <1>11, <1>12

(* Threading stays where it rests, and skips what is dead before it.       *)
LEMMA Resting ==
  ASSUME NEW e, e.instructions \in Seq(Entry), Forward(e), NEW s \in Positions(e)
  PROVE  /\ Live(e, s) => NextLive(e, s) = s
         /\ Rests(e, s) => NextLive(e, s) = s /\ ThreadFrom(e, s) = s
         /\ ThreadFrom(e, NextLive(e, s)) = ThreadFrom(e, s)
<1>1. End(e) \in Nat /\ Positions(e) = 1..End(e)
  BY EndType
<1>2. ASSUME NEW q \in Positions(e), Live(e, q) \/ q = End(e)
      PROVE  NextLive(e, q) = q
  <2>1. q \in q..End(e) /\ q..(q - 1) = {}
    BY <1>1
  <2>2. IsNext(e, q, q)
    BY <1>2, <2>1 DEF IsNext
  <2> QED
    BY <2>2, NextIs
<1>3. Rests(e, s) => NextLive(e, s) = s /\ ThreadFrom(e, s) = s
  <2>1. Rests(e, s) => Live(e, s) \/ s = End(e)
    BY DEF Rests
  <2> QED
    BY <1>2, <2>1, Threads
<1>4. ThreadFrom(e, NextLive(e, s)) = ThreadFrom(e, s)
  <2>1. IsNext(e, s, NextLive(e, s))
    BY NextIs
  <2>2. NextLive(e, s) \in Positions(e) /\ (Live(e, NextLive(e, s)) \/ NextLive(e, s) = End(e))
    BY <1>1, <2>1 DEF IsNext
  <2>3. NextLive(e, NextLive(e, s)) = NextLive(e, s)
    BY <1>2, <2>2
  <2>4. CASE Rests(e, NextLive(e, s))
    BY <2>2, <2>3, <2>4, Threads
  <2>5. CASE ~ Rests(e, NextLive(e, s))
    <3>1. ThreadFrom(e, s) = ThreadFrom(e, Target(e, NextLive(e, s)))
      BY <2>5, Threads
    <3>2. ThreadFrom(e, NextLive(e, s)) = ThreadFrom(e, Target(e, NextLive(e, s)))
      BY <2>2, <2>3, <2>5, Threads
    <3> QED
      BY <3>1, <3>2
  <2> QED
    BY <2>4, <2>5
<1> QED
  BY <1>2, <1>3, <1>4

-----------------------------------------------------------------------------
(* What finish works on. *)

(* What frames are requested with.                                         *)
Requested == [position : Nat, locals : LocalStates, stack : {<<>>, <<"Integer">>}]

(* A stack-map frame is requested at x; one would be in fat mode.          *)
Asked(requests, x) == \E k \in DOMAIN requests : requests[k].position = x
Framed(e, x) == Asked(e.frames, x)
FatFramed(e, x) == Asked(e.fatFrames, x)

(* A fat conditional branch would fall through to where it asked for one.  *)
Frames(e) ==
  /\ e.frames \in Seq(Requested) /\ e.fatFrames \in Seq(Requested)
  /\ \A p \in 1..Count(e) : IsCondBranch(At(e, p)) => FatFramed(e, p + 1)

(* A stream that ends with the return, of which only gotos are dead, and   *)
(* whose branches go forward to live instructions with a frame.            *)
Woven(e) ==
  /\ e.instructions \in Seq(Entry) /\ NoLoss(e.instructions) /\ Len(e.labels) \in Nat
  /\ Frames(e)
  /\ Count(e) >= 1 /\ IsReturn(At(e, Count(e)))
  /\ \A p \in Branches(e) :
       /\ At(e, p).arg \in 1..Len(e.labels)
       /\ Target(e, p) \in (p + 1)..Count(e)
       /\ Live(e, Target(e, p)) /\ Framed(e, Target(e, p))

(* Such a stream branches forward and ends with a live instruction.        *)
LEMMA WovenForward ==
  ASSUME NEW e, Woven(e)
  PROVE  /\ e.instructions \in Seq(Entry) /\ Forward(e) /\ Count(e) \in Nat \ {0}
         /\ End(e) = Count(e) + 1 /\ Positions(e) = 1..(Count(e) + 1)
         /\ \A p \in 1..Count(e) : At(e, p) \in Instruction /\ (Live(e, p) \/ IsGoto(At(e, p)))
         /\ Live(e, Count(e)) /\ ~ IsGoto(At(e, Count(e)))
<1>1. e.instructions \in Seq(Entry) /\ Forward(e) /\ Count(e) \in Nat \ {0}
  <2>1. e.instructions \in Seq(Entry) /\ Count(e) >= 1
    BY DEF Woven
  <2>2. Forward(e)
    BY DEF Woven, Forward
  <2> QED
    BY <2>1, <2>2, EndType
<1>2. End(e) = Count(e) + 1 /\ Positions(e) = 1..(Count(e) + 1)
  BY <1>1, EndType
<1>3. ASSUME NEW p \in 1..Count(e)
      PROVE  At(e, p) \in Instruction /\ (Live(e, p) \/ IsGoto(At(e, p)))
  <2>1. e.instructions[p] \in Entry
    BY <1>1 DEF Count
  <2>2. e.instructions[p].live \/ IsGoto(e.instructions[p].ins)
    BY DEF Woven, NoLoss, Count
  <2>3. p <= Count(e)
    BY <1>1
  <2> QED
    BY <2>1, <2>2, <2>3 DEF Live, At, Entry
<1>4. ~ IsGoto(At(e, Count(e))) /\ Live(e, Count(e))
  <2>1. ~ IsGoto(At(e, Count(e)))
    BY DEF Woven, IsReturn, IsGoto
  <2>2. Count(e) \in 1..Count(e)
    BY <1>1
  <2> QED
    BY <1>3, <2>1, <2>2
<1> QED
  BY <1>1, <1>2, <1>3, <1>4

(* Threading a target leads to a target that is no goto.                   *)
LEMMA ThreadsToTarget ==
  ASSUME NEW e, Woven(e), NEW b \in Branches(e)
  PROVE  /\ \E c \in Branches(e) : ThreadFrom(e, Target(e, b)) = Target(e, c)
         /\ ThreadFrom(e, Target(e, b)) \in (b + 1)..Count(e)
         /\ Live(e, ThreadFrom(e, Target(e, b)))
         /\ ~ IsGoto(At(e, ThreadFrom(e, Target(e, b))))
<1> DEFINE n == Count(e)
           Ends(x) == \E c \in Branches(e) : ThreadFrom(e, x) = Target(e, c)
           G == {k \in Nat : \A c \in Branches(e) : Target(e, c) > n - k => Ends(Target(e, c))}
<1>1. /\ e.instructions \in Seq(Entry) /\ Forward(e) /\ n \in Nat \ {0}
      /\ End(e) = n + 1 /\ Positions(e) = 1..(n + 1)
  BY WovenForward
<1>2. ASSUME NEW c \in Branches(e)
      PROVE  /\ Target(e, c) \in (c + 1)..n /\ Live(e, Target(e, c))
             /\ c \in 1..n /\ Target(e, c) \in 1..n /\ Target(e, c) \in Positions(e)
  <2>1. Target(e, c) \in (c + 1)..n /\ Live(e, Target(e, c)) /\ c \in 1..n
    BY DEF Woven, Branches
  <2> HIDE DEF n
  <2> QED
    BY <1>1, <2>1
<1>3. 0 \in G
  <2> HIDE DEF Ends, n
  <2>1. \A c \in Branches(e) : ~ (Target(e, c) > n - 0)
    BY <1>1, <1>2
  <2> QED
    BY <2>1
<1>4. ASSUME NEW k \in 1..n, k - 1 \in G
      PROVE  k \in G
  <2> SUFFICES ASSUME NEW c \in Branches(e), Target(e, c) > n - k
               PROVE  Ends(Target(e, c))
    BY <1>1
  <2> DEFINE x == Target(e, c)
  <2>1. x \in 1..n /\ Live(e, x) /\ x \in Positions(e) /\ NextLive(e, x) = x
    BY <1>1, <1>2, Resting
  <2>2. CASE Rests(e, x)
    <3>1. ThreadFrom(e, x) = x
      BY <1>1, <2>1, <2>2, Resting
    <3> QED
      BY <3>1
  <2>3. CASE ~ Rests(e, x)
    <3>1. IsGoto(At(e, x))
      BY <2>1, <2>3 DEF Rests
    <3>2. x \in Branches(e) /\ Target(e, x) > x
      BY <1>1, <2>1, <3>1, GotoJumps
    <3>3. ThreadFrom(e, x) = ThreadFrom(e, Target(e, x))
      BY <1>1, <2>1, <2>3, Threads
    <3> HIDE DEF x
    <3>4. Target(e, x) > n - (k - 1)
      <4> HIDE DEF n
      <4>1. Target(e, x) \in 1..n /\ x \in 1..n /\ x > n - k
        BY <1>2, <2>1, <3>2 DEF x
      <4> QED
        BY <1>1, <3>2, <4>1
    <3>5. Ends(Target(e, x))
      <4> HIDE DEF Ends, n
      <4> QED
        BY <1>4, <3>2, <3>4
    <3> QED
      BY <3>3, <3>5 DEF x
  <2> QED
    BY <2>2, <2>3
<1>5. n \in G
  <2> HIDE DEF G, n
  <2>1. n \in 0..n
    BY <1>1
  <2> QED
    BY <1>1, <1>3, <1>4, <2>1, IndexInduction
<1> DEFINE y == ThreadFrom(e, Target(e, b))
<1>6. PICK c \in Branches(e) : y = Target(e, c)
  <2> HIDE DEF n, y
  <2>1. Target(e, b) > n - n
    BY <1>1, <1>2
  <2> QED
    BY <1>5, <2>1 DEF y
<1>7. y \in Target(e, b)..(n + 1) /\ Rests(e, y)
  BY <1>1, <1>2, Threads
<1>8. y \in 1..n /\ y \in (b + 1)..n
  <2> HIDE DEF y, n
  <2> QED
    BY <1>1, <1>2, <1>6, <1>7
<1>9. Live(e, y) /\ ~ IsGoto(At(e, y))
  <2> HIDE DEF y
  <2>1. y # End(e)
    BY <1>1, <1>8
  <2> QED
    BY <1>7, <2>1 DEF Rests
<1> QED
  BY <1>6, <1>8, <1>9

(* The same instructions, some of them dead.                               *)
Kin(d, e) == Count(e) = Count(d) /\ \A p \in 1..Count(d) : At(e, p) = At(d, p)

(* Deleting gotos moves each label to where threading it had come to rest. *)
LEMMA TombstoneMoves ==
  ASSUME NEW d, Woven(d), Good(d), NEW dead, dead \subseteq LiveGotos(d),
         NEW e, e = Tombstone(d, dead)
  PROVE  /\ Kin(d, e) /\ Woven(e)
         /\ \A p \in 1..Count(d) : Live(e, p) <=> Live(d, p) /\ p \notin dead
         /\ \A b \in Branches(d) : Target(e, b) = ThreadFrom(d, Target(d, b))
         /\ e.frames = d.frames /\ e.fatFrames = d.fatFrames
<1> DEFINE n == Len(d.instructions)
           old == d.instructions
           new == e.instructions
           Threaded(l) == IF d.labels[l] = Unplaced THEN Unplaced
                          ELSE ThreadFrom(d, d.labels[l])
           pruned == [d EXCEPT !.instructions =
             [p \in 1..n |-> IF p \in dead THEN [old[p] EXCEPT !.live = FALSE] ELSE old[p]]]
           Moved(l) == IF Threaded(l) = Unplaced THEN Unplaced
                       ELSE NextLive(pruned, Threaded(l))
<1>1. /\ old \in Seq(Entry) /\ Forward(d) /\ n \in Nat \ {0} /\ Count(d) = n
      /\ End(d) = n + 1 /\ Positions(d) = 1..(n + 1)
      /\ \A p \in 1..n : At(d, p) \in Instruction /\ (Live(d, p) \/ IsGoto(At(d, p)))
  BY WovenForward DEF Count
<1>2. DOMAIN d = DOMAIN NewEmitter
  BY GoodFacts
<1>3. /\ e.frames = d.frames /\ e.fatFrames = d.fatFrames
      /\ new = [p \in 1..n |-> IF p \in dead THEN [old[p] EXCEPT !.live = FALSE] ELSE old[p]]
      /\ pruned.instructions = new
  BY <1>2 DEF Tombstone, NewEmitter, Count
<1>4. Good(e) /\ Len(new) = n
  BY TombstoneGood
<1>5. Count(e) = n /\ End(e) = n + 1 /\ Positions(e) = 1..(n + 1) /\ new \in Seq(Entry)
  <2>1. new \in Seq(Entry)
    BY <1>4, GoodFacts
  <2> QED
    BY <1>4, <2>1, EndType DEF Count
<1>6. ASSUME NEW p \in 1..n
      PROVE  /\ At(e, p) = At(d, p)
             /\ Live(e, p) <=> Live(d, p) /\ p \notin dead
  <2>0. old[p] \in Entry /\ p <= n
    BY <1>1
  <2>1. CASE p \in dead
    <3>1. new[p] = [old[p] EXCEPT !.live = FALSE]
      BY <1>3, <2>1
    <3>2. new[p] = [ins |-> old[p].ins, live |-> FALSE]
      BY <2>0, <3>1 DEF Entry
    <3> QED
      BY <2>1, <3>2 DEF At, Live
  <2>2. CASE p \notin dead
    <3>1. new[p] = old[p]
      BY <1>3, <2>2
    <3>2. At(e, p) = At(d, p)
      BY <3>1 DEF At
    <3>3. Live(e, p) <=> p <= n /\ new[p].live
      BY <1>5 DEF Live
    <3>4. Live(d, p) <=> p <= n /\ old[p].live
      BY <1>1 DEF Live
    <3> QED
      BY <2>2, <3>1, <3>2, <3>3, <3>4
  <2> QED
    BY <2>1, <2>2
<1>7. Kin(d, e) /\ Branches(e) = Branches(d)
  BY <1>1, <1>5, <1>6 DEF Kin, Branches
<1>8. e.labels = [l \in 1..Len(d.labels) |-> Moved(l)]
  BY <1>2 DEF Tombstone, NewEmitter, Count
<1>9. \A q : NextLive(pruned, q) = NextLive(e, q)
  BY <1>3 DEF NextLive, End, Count, Live
<1>10. ASSUME NEW b \in Branches(d)
       PROVE  /\ Target(e, b) = ThreadFrom(d, Target(d, b))
              /\ At(e, b) = At(d, b) /\ At(d, b).arg \in 1..Len(d.labels)
              /\ Target(e, b) \in (b + 1)..n
              /\ Live(e, Target(e, b)) /\ Framed(e, Target(e, b))
  <2> DEFINE l == At(d, b).arg
             x == ThreadFrom(d, Target(d, b))
  <2>1. b \in 1..n /\ At(e, b) = At(d, b)
    BY <1>1, <1>6 DEF Branches
  <2>2. l \in 1..Len(d.labels) /\ Target(d, b) = d.labels[l] /\ Target(d, b) \in (b + 1)..n
    BY <1>1 DEF Woven, Target
  <2>3. x \in (b + 1)..n /\ Live(d, x) /\ ~ IsGoto(At(d, x))
    BY <1>1, ThreadsToTarget
  <2>4. Framed(e, x)
    <3>1. PICK c \in Branches(d) : x = Target(d, c)
      BY ThreadsToTarget
    <3>2. Framed(d, x)
      BY <3>1 DEF Woven
    <3> QED
      BY <1>3, <3>2 DEF Framed
  <2>5. x \in 1..n /\ x \in 1..(n + 1) /\ Live(e, x)
    <3> HIDE DEF x, n
    <3>1. x \in 1..n /\ x \in 1..(n + 1)
      BY <1>1, <2>1, <2>3
    <3>2. x \notin dead
      BY <2>3 DEF LiveGotos
    <3> QED
      BY <1>6, <2>3, <3>1, <3>2
  <2>7. NextLive(e, x) = x
    <3> HIDE DEF x, n
    <3>1. IsNext(e, x, x)
      <4>1. x \in x..End(e) /\ x..(x - 1) = {}
        BY <1>1, <1>5, <2>5
      <4> QED
        BY <2>5, <4>1 DEF IsNext
    <3> QED
      BY <1>5, <2>5, <3>1, NextIs
  <2>8. Target(e, b) = x
    <3>1. Target(e, b) = e.labels[l]
      BY <2>1 DEF Target
    <3>2. e.labels[l] = Moved(l)
      <4> HIDE DEF l, Moved
      <4> QED
        BY <1>8, <2>2
    <3>3. d.labels[l] # Unplaced /\ x # Unplaced
      <4> HIDE DEF l, x, n
      <4> QED
        BY <1>1, <2>1, <2>2, <2>5 DEF Unplaced
    <3>4. Threaded(l) = x
      BY <2>2, <3>3
    <3>5. Moved(l) = NextLive(e, x)
      <4> HIDE DEF x, l, Threaded, pruned
      <4> QED
        BY <1>9, <3>3, <3>4
    <3> QED
      BY <2>7, <3>1, <3>2, <3>5
  <2> HIDE DEF x, l, n
  <2> QED
    BY <2>1, <2>2, <2>3, <2>4, <2>5, <2>8 DEF l, x
<1>11. Len(e.labels) = Len(d.labels) /\ Len(d.labels) \in Nat
  <2> DEFINE m == Len(d.labels)
             S == {Moved(l) : l \in 1..m}
  <2>1. m \in Nat
    BY DEF Woven
  <2> HIDE DEF Moved
  <2>2. e.labels \in [1..m -> S]
    BY <1>8
  <2> HIDE DEF S, m
  <2>3. Len(e.labels) = m
    BY <2>1, <2>2, Sequence
  <2> QED
    BY <2>1, <2>3 DEF m
<1>12. Woven(e)
  <2>1. Frames(e)
    <3>1. \A p \in 1..Count(e) : At(e, p) = At(d, p)
      BY <1>5, <1>6
    <3> QED
      BY <1>1, <1>3, <1>5, <3>1 DEF Woven, Frames, FatFramed
  <2>2. Count(e) >= 1 /\ IsReturn(At(e, Count(e)))
    <3>1. n \in 1..n
      BY <1>1
    <3> QED
      BY <1>1, <1>5, <1>6, <3>1 DEF Woven
  <2>3. NoLoss(new)
    BY <1>4 DEF Good
  <2> QED
    BY <1>5, <1>7, <1>10, <1>11, <2>1, <2>2, <2>3 DEF Woven
<1> QED
  BY <1>1, <1>3, <1>6, <1>7, <1>10, <1>12

(* A live instruction is followed by positions of the stream.              *)
LEMMA SuccessorsIn ==
  ASSUME NEW e, Woven(e), NEW p \in Positions(e), Live(e, p)
  PROVE  Successors(e, p) \subseteq Positions(e)
<1> DEFINE n == Count(e)
<1>1. /\ e.instructions \in Seq(Entry) /\ Forward(e) /\ n \in Nat \ {0}
      /\ End(e) = n + 1 /\ Positions(e) = 1..(n + 1)
  BY WovenForward
<1>2. p \in 1..n
  BY <1>1 DEF Live
<1>3. p + 1 \in Positions(e)
  <2> HIDE DEF n
  <2> QED
    BY <1>1, <1>2
<1>4. NextLive(e, p + 1) \in Positions(e)
  <2>1. NextLive(e, p + 1) \in (p + 1)..End(e)
    BY <1>1, <1>3, NextIs DEF IsNext
  <2> HIDE DEF n
  <2> QED
    BY <1>1, <1>2, <2>1
<1>5. ASSUME p \in Branches(e)
      PROVE  ThreadTarget(e, At(e, p).arg) \in Positions(e)
  <2>1. ThreadFrom(e, Target(e, p)) \in (p + 1)..n
    BY <1>5, ThreadsToTarget
  <2> HIDE DEF n
  <2>2. ThreadFrom(e, Target(e, p)) \in Positions(e)
    BY <1>1, <1>2, <2>1
  <2> QED
    BY <2>2 DEF ThreadTarget, LabelPosition, Target
<1>6. IsGoto(At(e, p)) \/ IsCondBranch(At(e, p)) => p \in Branches(e)
  BY <1>2 DEF Branches, IsBranch, IsGoto, IsCondBranch, BranchOps
<1> QED
  BY <1>4, <1>5, <1>6 DEF Successors

(* A step of the search for what control can reach.                        *)
Grown(e, S) == S \cup UNION {Successors(e, p) : p \in {q \in S : Live(e, q)}}

IsGrow(h, e) ==
  h = [S \in SUBSET Positions(e) |-> IF Grown(e, S) = S THEN S ELSE h[Grown(e, S)]]

(* The recursive function of the search.                                   *)
LEMMA ReachUnfolds ==
  \A e : Reachable(e) =
           {p \in (CHOOSE h : IsGrow(h, e))[{NextLive(e, 1)}] : Live(e, p)}
BY DEF Reachable, IsGrow, Grown

(* The search ends with a set that holds where control enters the method   *)
(* and, with each live instruction, all that may follow it.                *)
LEMMA ReachCloses ==
  ASSUME NEW e, Woven(e)
  PROVE  \E R \in SUBSET Positions(e) :
           /\ Reachable(e) = {p \in R : Live(e, p)}
           /\ NextLive(e, 1) \in R
           /\ \A p \in R : Live(e, p) => Successors(e, p) \subseteq R
<1> DEFINE P == Positions(e)
           More(S) == Grown(e, S)
           Over(S) == {C \in SUBSET P : S \subseteq C /\ More(C) = C}
           h == [S \in SUBSET P |-> {p \in P : \A C \in Over(S) : p \in C}]
<1>1. /\ e.instructions \in Seq(Entry) /\ Count(e) \in Nat \ {0}
      /\ P = 1..(Count(e) + 1) /\ End(e) = Count(e) + 1
  BY WovenForward
<1>2. ASSUME NEW S \in SUBSET P
      PROVE  /\ More(S) \in SUBSET P /\ S \subseteq More(S)
             /\ \A C : S \subseteq C /\ More(C) = C => More(S) \subseteq C
  <2>1. \A p \in S : Live(e, p) => Successors(e, p) \subseteq P
    BY SuccessorsIn
  <2> QED
    BY <2>1 DEF Grown
<1>3. ASSUME NEW S \in SUBSET P
      PROVE  h[S] = IF More(S) = S THEN S ELSE h[More(S)]
  <2> HIDE DEF P, More
  <2>1. More(S) = S => h[S] = S
    <3> SUFFICES ASSUME More(S) = S PROVE h[S] = S
      OBVIOUS
    <3>1. S \in Over(S)
      OBVIOUS
    <3>2. \A C \in Over(S) : S \subseteq C
      OBVIOUS
    <3>3. h[S] = {p \in P : \A C \in Over(S) : p \in C}
      <4> HIDE DEF Over
      <4> QED
        OBVIOUS
    <3> HIDE DEF Over, h
    <3>4. S \subseteq P
      OBVIOUS
    <3> QED
      BY <3>1, <3>2, <3>3, <3>4
  <2>2. Over(More(S)) = Over(S) /\ More(S) \in SUBSET P
    BY <1>2
  <2> HIDE DEF Over
  <2> QED
    BY <2>1, <2>2
<1>4. IsGrow(h, e)
  <2>1. h = [S \in SUBSET P |-> h[S]]
    OBVIOUS
  <2> HIDE DEF h
  <2>2. h = [S \in SUBSET P |-> IF More(S) = S THEN S ELSE h[More(S)]]
    BY <1>3, <2>1
  <2> QED
    BY <2>2 DEF IsGrow
<1> DEFINE g == CHOOSE f : IsGrow(f, e)
<1>5. \A S \in SUBSET P : g[S] = IF More(S) = S THEN S ELSE g[More(S)]
  <2>1. IsGrow(g, e)
    <3> HIDE DEF h
    <3> QED
      BY <1>4
  <2> HIDE DEF g
  <2> QED
    BY <2>1 DEF IsGrow
<1> HIDE DEF h, g
<1> DEFINE Fine(S) == g[S] \in SUBSET P /\ S \subseteq g[S] /\ More(g[S]) = g[S]
           B == {P \ S : S \in {T \in SUBSET P : ~ Fine(T)}}
<1>6. B = {}
  <2> SUFFICES ASSUME B # {} PROVE FALSE
    OBVIOUS
  <2>1. IsFiniteSet(P)
    BY <1>1, FS_Interval
  <2>2. B \subseteq SUBSET P
    <3> HIDE DEF Fine, P
    <3> QED
      OBVIOUS
  <2>3. PICK m \in B : \A t \in B : t \subseteq m => t = m
    <3> HIDE DEF B, P
    <3> QED
      BY <2>1, <2>2, MinimalSet
  <2> HIDE DEF P, More
  <2>4. PICK S \in SUBSET P : ~ Fine(S) /\ m = P \ S
    <3> HIDE DEF Fine
    <3> QED
      OBVIOUS
  <2>5. More(S) # S /\ More(S) \in SUBSET P /\ S \subseteq More(S)
    <3>1. More(S) = S => Fine(S)
      BY <1>5
    <3> QED
      BY <1>2, <2>4, <3>1
  <2>6. g[S] = g[More(S)]
    BY <1>5, <2>5
  <2>7. Fine(More(S)) => Fine(S)
    BY <2>5, <2>6
  <2> HIDE DEF Fine
  <2>8. P \ More(S) \in B
    BY <2>4, <2>5, <2>7
  <2>9. P \ More(S) \subseteq m /\ P \ More(S) # m
    BY <2>4, <2>5
  <2> QED
    BY <2>3, <2>8, <2>9
<1> DEFINE start == {NextLive(e, 1)}
           R == g[start]
<1>7. start \in SUBSET P
  <2>1. 1 \in P
    BY <1>1
  <2>2. NextLive(e, 1) \in 1..End(e)
    BY <1>1, <2>1, NextIs DEF IsNext
  <2> QED
    BY <1>1, <2>2
<1>8. Fine(start)
  <2> HIDE DEF Fine, start, P
  <2> QED
    BY <1>6, <1>7
<1>9. Reachable(e) = {p \in R : Live(e, p)}
  BY ReachUnfolds DEF g
<1>10. \A p \in R : Live(e, p) => Successors(e, p) \subseteq R
  <2>1. More(R) = R
    BY <1>8
  <2> HIDE DEF R
  <2> QED
    BY <2>1 DEF Grown
<1> QED
  <2> HIDE DEF R
  <2>1. R \in SUBSET P /\ NextLive(e, 1) \in R
    BY <1>8 DEF R
  <2> QED
    BY <1>9, <1>10, <2>1

(* Every instruction that is no goto is where control enters or follows    *)
(* another one: nothing recorded is dead code.                             *)
Reached(e) ==
  \A p \in 1..Count(e) :
    ~ IsGoto(At(e, p)) =>
      \/ p = ThreadFrom(e, 1)
      \/ \E q \in 1..(p - 1) : ~ IsGoto(At(e, q)) /\ p \in Flow(e, q)

(* Flow, with threading from the next instruction instead of the next one  *)
(* that is live.                                                           *)
LEMMA FlowIs ==
  ASSUME NEW e, Woven(e), NEW p \in 1..Count(e)
  PROVE  /\ p + 1 \in Positions(e)
         /\ Flow(e, p) = CASE IsCondBranch(At(e, p)) ->
                                {ThreadFrom(e, Target(e, p)), ThreadFrom(e, p + 1)}
                           [] IsReturn(At(e, p)) -> {}
                           [] OTHER -> {ThreadFrom(e, p + 1)}
<1>1. /\ e.instructions \in Seq(Entry) /\ Forward(e) /\ Count(e) \in Nat \ {0}
      /\ End(e) = Count(e) + 1 /\ Positions(e) = 1..(Count(e) + 1)
  BY WovenForward
<1>2. p + 1 \in Positions(e)
  BY <1>1
<1>3. ThreadFrom(e, NextLive(e, p + 1)) = ThreadFrom(e, p + 1)
  BY <1>1, <1>2, Resting
<1> QED
  BY <1>2, <1>3, Zenon DEF Flow, ThreadTarget, LabelPosition, Target

(* So the search finds all of them, and where control falls through to.    *)
LEMMA AllReachable ==
  ASSUME NEW e, Woven(e), Reached(e)
  PROVE  /\ Live(e, NextLive(e, 1)) => NextLive(e, 1) \in Reachable(e)
         /\ \A p \in 1..Count(e) :
              ~ IsGoto(At(e, p)) /\ ~ IsReturn(At(e, p)) /\ Live(e, NextLive(e, p + 1)) =>
                NextLive(e, p + 1) \in Reachable(e)
<1> DEFINE n == Count(e)
           P == Positions(e)
<1>1. /\ e.instructions \in Seq(Entry) /\ Forward(e) /\ n \in Nat \ {0}
      /\ End(e) = n + 1 /\ P = 1..(n + 1)
      /\ \A p \in 1..n : Live(e, p) \/ IsGoto(At(e, p))
  BY WovenForward
<1>2. PICK R \in SUBSET P :
        /\ Reachable(e) = {p \in R : Live(e, p)}
        /\ NextLive(e, 1) \in R
        /\ \A p \in R : Live(e, p) => Successors(e, p) \subseteq R
  BY ReachCloses
<1>3. ASSUME NEW s \in P, NextLive(e, s) \in R
      PROVE  ThreadFrom(e, s) \in R
  <2> DEFINE q == NextLive(e, s)
  <2>1. CASE Rests(e, q)
    <3>1. ThreadFrom(e, s) = q
      BY <1>1, <2>1, Threads
    <3> QED
      BY <1>3, <3>1
  <2>2. CASE ~ Rests(e, q)
    <3>1. q \in s..End(e) /\ (q = End(e) \/ Live(e, q))
      BY <1>1, NextIs DEF IsNext
    <3>2. Live(e, q) /\ IsGoto(At(e, q))
      BY <2>2, <3>1 DEF Rests
    <3>3. ThreadTarget(e, At(e, q).arg) \in Successors(e, q)
      <4>1. Successors(e, q) = {ThreadTarget(e, At(e, q).arg)}
        BY <3>2 DEF Successors, IsGoto, IsCondBranch, IsReturn, CondBranches,
                    ZeroBranches, CompareBranches
      <4> QED
        BY <4>1
    <3>4. ThreadFrom(e, s) = ThreadTarget(e, At(e, q).arg)
      BY <1>1, <2>2, Threads DEF ThreadTarget, LabelPosition, Target
    <3> QED
      BY <1>2, <1>3, <3>2, <3>3, <3>4
  <2> QED
    BY <2>1, <2>2
<1>4. ASSUME NEW p \in 1..n, p \in R, ~ IsGoto(At(e, p))
      PROVE  /\ Flow(e, p) \subseteq R
             /\ ~ IsReturn(At(e, p)) => NextLive(e, p + 1) \in R
  <2>1. Live(e, p) /\ Successors(e, p) \subseteq R /\ p + 1 \in P
    BY <1>1, <1>2, <1>4, FlowIs
  <2>2. Flow(e, p) = CASE IsCondBranch(At(e, p)) ->
                                {ThreadFrom(e, Target(e, p)), ThreadFrom(e, p + 1)}
                       [] IsReturn(At(e, p)) -> {}
                       [] OTHER -> {ThreadFrom(e, p + 1)}
    BY FlowIs
  <2>3. CASE IsReturn(At(e, p))
    <3>1. ~ IsCondBranch(At(e, p))
      BY <2>3 DEF IsReturn, IsCondBranch, CondBranches, ZeroBranches, CompareBranches
    <3> QED
      BY <2>2, <2>3, <3>1
  <2>4. CASE ~ IsReturn(At(e, p))
    <3>1. NextLive(e, p + 1) \in Successors(e, p)
      BY <1>4, <2>4 DEF Successors
    <3>2. ThreadFrom(e, p + 1) \in R
      BY <1>3, <2>1, <3>1
    <3>3. IsCondBranch(At(e, p)) => ThreadFrom(e, Target(e, p)) \in Successors(e, p)
      <4> SUFFICES ASSUME IsCondBranch(At(e, p))
                   PROVE  ThreadFrom(e, Target(e, p)) \in Successors(e, p)
        OBVIOUS
      <4>1. Successors(e, p) = {ThreadTarget(e, At(e, p).arg), NextLive(e, p + 1)}
        BY <1>4 DEF Successors, IsGoto, IsCondBranch, IsReturn, CondBranches,
                    ZeroBranches, CompareBranches
      <4> QED
        BY <4>1 DEF ThreadTarget, LabelPosition, Target
    <3> QED
      BY <2>1, <2>2, <2>4, <3>1, <3>2, <3>3
  <2> QED
    BY <2>3, <2>4
<1> DEFINE G == {k \in Nat : \A p \in 1..n : p <= k /\ ~ IsGoto(At(e, p)) => p \in R}
<1>5. \A k \in 0..n : k \in G
  <2> HIDE DEF n
  <2>1. 0 \in G
    BY <1>1
  <2>2. ASSUME NEW k \in 1..n, k - 1 \in G
        PROVE  k \in G
    <3> SUFFICES ASSUME NEW p \in 1..n, p <= k, ~ IsGoto(At(e, p))
                 PROVE  p \in R
      BY <1>1
    <3>1. CASE p = ThreadFrom(e, 1)
      <4>1. 1 \in P
        BY <1>1
      <4> QED
        BY <1>2, <1>3, <3>1, <4>1
    <3>2. ASSUME NEW q \in 1..(p - 1), ~ IsGoto(At(e, q)), p \in Flow(e, q)
          PROVE  p \in R
      <4>1. q \in 1..n /\ q <= k - 1
        BY <1>1
      <4>2. q \in R
        BY <2>2, <3>2, <4>1
      <4> QED
        BY <1>4, <3>2, <4>1, <4>2
    <3> QED
      BY <3>1, <3>2 DEF Reached, n
  <2> HIDE DEF G
  <2> QED
    BY <1>1, <2>1, <2>2, IndexInduction
<1>6. \A p \in 1..n : ~ IsGoto(At(e, p)) => p \in R
  <2> HIDE DEF n
  <2>1. n \in 0..n /\ \A p \in 1..n : p <= n
    BY <1>1
  <2> QED
    BY <1>5, <2>1
<1> QED
  BY <1>2, <1>4, <1>6

(* A round leaves threading where it was, from where control gets to: a    *)
(* deleted goto there went to the next live instruction.                   *)
LEMMA ThreadingKept ==
  ASSUME NEW d, Woven(d), Good(d), NEW narrow,
         NEW e, e = CompactRound(d, narrow), NEW s \in Positions(d),
         Live(d, NextLive(d, s)) => NextLive(d, s) \in Reachable(d)
  PROVE  ThreadFrom(e, s) = ThreadFrom(d, s)
<1> DEFINE n == Count(d)
           dead == DeadGotos(d, narrow)
           g == NextLive(d, s)
           y == ThreadFrom(d, Target(d, g))
<1>1. /\ d.instructions \in Seq(Entry) /\ Forward(d) /\ n \in Nat \ {0}
      /\ End(d) = n + 1 /\ Positions(d) = 1..(n + 1)
  BY WovenForward
<1>2. dead \subseteq LiveGotos(d) /\ e = Tombstone(d, dead)
  BY DEF DeadGotos, CompactRound
<1>3. /\ Kin(d, e) /\ Woven(e)
      /\ \A p \in 1..n : Live(e, p) <=> Live(d, p) /\ p \notin dead
      /\ \A b \in Branches(d) : Target(e, b) = ThreadFrom(d, Target(d, b))
  <2> HIDE DEF dead
  <2> QED
    BY <1>2, TombstoneMoves
<1>4. /\ e.instructions \in Seq(Entry) /\ Forward(e)
      /\ End(e) = n + 1 /\ Positions(e) = 1..(n + 1)
      /\ \A p \in 1..n : At(e, p) = At(d, p)
  BY <1>3, WovenForward DEF Kin
<1>5. /\ g \in s..(n + 1) /\ (g = n + 1 \/ Live(d, g))
      /\ \A r \in s..(g - 1) : ~ Live(d, r)
  BY <1>1, NextIs DEF IsNext
<1>6. ASSUME NEW q \in s..(n + 1), q = n + 1 \/ Live(e, q),
             \A r \in s..(q - 1) : ~ Live(e, r)
      PROVE  NextLive(e, s) = q
  <2> HIDE DEF n
  <2>1. IsNext(e, s, q)
    BY <1>4, <1>6 DEF IsNext
  <2> QED
    BY <1>1, <1>4, <2>1, NextIs
<1>7. \A r \in s..(g - 1) : ~ Live(e, r)
  <2> HIDE DEF n, g, dead
  <2>1. \A r \in s..(g - 1) : r \in 1..n
    BY <1>1, <1>5
  <2> QED
    BY <1>3, <1>5, <2>1
<1>8. g \in 1..(n + 1) /\ (g # n + 1 => g \in 1..n)
  <2> HIDE DEF n, g
  <2> QED
    BY <1>1, <1>5
<1>9. \A q \in 1..n : Live(d, q) /\ ~ IsGoto(At(d, q)) => Live(e, q) /\ Rests(e, q)
  <2> HIDE DEF n, dead
  <2>1. \A q \in dead : IsGoto(At(d, q))
    BY <1>2 DEF LiveGotos
  <2> QED
    BY <1>3, <1>4, <2>1 DEF Rests
<1>10. CASE Rests(d, g)
  <2>1. ThreadFrom(d, s) = g
    BY <1>1, <1>10, Threads
  <2>2. Rests(e, g) /\ (g = n + 1 \/ Live(e, g))
    <3>1. CASE g = n + 1
      BY <1>4, <3>1 DEF Rests
    <3>2. CASE g # n + 1
      <4>1. Live(d, g) /\ ~ IsGoto(At(d, g)) /\ g \in 1..n
        BY <1>1, <1>8, <1>10, <3>2 DEF Rests
      <4> HIDE DEF g, n
      <4> QED
        BY <1>9, <4>1
    <3> QED
      BY <3>1, <3>2
  <2>3. NextLive(e, s) = g
    <3> HIDE DEF g, n
    <3> QED
      BY <1>5, <1>6, <1>7, <2>2
  <2>4. ThreadFrom(e, s) = g
    <3> HIDE DEF g, n
    <3> QED
      BY <1>1, <1>4, <2>2, <2>3, Threads
  <2> QED
    BY <2>1, <2>4
<1>11. CASE ~ Rests(d, g)
  <2>1. Live(d, g) /\ IsGoto(At(d, g)) /\ g \in 1..n /\ g \in Positions(d)
    BY <1>1, <1>5, <1>8, <1>11 DEF Rests
  <2>2. g \in Branches(d) /\ ThreadFrom(d, s) = y
    <3>1. g \in Branches(d)
      BY <1>1, <2>1, GotoJumps
    <3> QED
      BY <1>1, <1>11, <3>1, Threads
  <2>3. y \in (g + 1)..n /\ Live(d, y) /\ ~ IsGoto(At(d, y))
    BY <2>2, ThreadsToTarget
  <2>4. y \in 1..n /\ y \in s..(n + 1) /\ y \in Positions(e)
    <3> HIDE DEF g, y, n
    <3> QED
      BY <1>1, <1>4, <1>5, <2>1, <2>3
  <2>5. Live(e, y) /\ Rests(e, y)
    <3> HIDE DEF y, n
    <3> QED
      BY <1>9, <2>3, <2>4
  <2>6. ThreadFrom(e, y) = y
    <3> HIDE DEF y, n
    <3> QED
      BY <1>4, <2>4, <2>5, Resting
  <2>7. CASE g \notin dead
    <3>1. Live(e, g) /\ IsGoto(At(e, g)) /\ g # End(e)
      <4> HIDE DEF g, n, dead
      <4> QED
        BY <1>1, <1>3, <1>4, <2>1, <2>7
    <3>2. NextLive(e, s) = g
      <4> HIDE DEF g, n
      <4> QED
        BY <1>5, <1>6, <1>7, <3>1
    <3>3. ThreadFrom(e, s) = ThreadFrom(e, Target(e, g))
      <4>1. ~ Rests(e, g)
        BY <3>1 DEF Rests
      <4> HIDE DEF g
      <4> QED
        BY <1>1, <1>4, <3>2, <4>1, Threads
    <3>4. Target(e, g) = y
      <4> HIDE DEF g, dead
      <4> QED
        BY <1>3, <2>2 DEF y
    <3> QED
      BY <2>2, <2>6, <3>3, <3>4
  <2>8. CASE g \in dead
    <3>1. g \in Reachable(d)
      BY <2>1
    <3>2. ThreadTarget(d, At(d, g).arg) = NextLive(d, g + 1)
      <4> HIDE DEF g
      <4> QED
        BY <2>8, <3>1 DEF dead, DeadGotos
    <3>3. y = NextLive(d, g + 1)
      BY <3>2 DEF ThreadTarget, LabelPosition, Target
    <3>4. \A r \in (g + 1)..(y - 1) : ~ Live(d, r)
      <4>1. g + 1 \in Positions(d)
        <5> HIDE DEF g, n
        <5> QED
          BY <1>1, <2>1
      <4> HIDE DEF g, y
      <4>2. IsNext(d, g + 1, y)
        BY <1>1, <3>3, <4>1, NextIs
      <4> QED
        BY <4>2 DEF IsNext
    <3>5. \A r \in s..(y - 1) : ~ Live(e, r)
      <4> HIDE DEF g, y, n, dead
      <4> TAKE r \in s..(y - 1)
      <4>1. r \in s..(g - 1) \/ r = g \/ r \in (g + 1)..(y - 1)
        BY <1>1, <1>5, <2>1, <2>3
      <4>2. r \in 1..n
        BY <1>1, <1>5, <2>4
      <4> QED
        BY <1>3, <1>7, <2>8, <3>4, <4>1, <4>2
    <3>6. NextLive(e, s) = y
      <4> HIDE DEF y, n
      <4> QED
        BY <1>6, <2>4, <2>5, <3>5
    <3>7. ThreadFrom(e, s) = y
      <4> HIDE DEF y, n
      <4> QED
        BY <1>1, <1>4, <2>5, <3>6, Threads
    <3> QED
      BY <2>2, <3>7
  <2> QED
    BY <2>7, <2>8
<1> QED
  BY <1>10, <1>11

(* So a round keeps the flow of control.                                   *)
LEMMA RoundKeepsFlow ==
  ASSUME NEW d, Woven(d), Good(d), Reached(d), NEW narrow,
         NEW e, e = CompactRound(d, narrow)
  PROVE  /\ Kin(d, e) /\ Woven(e) /\ SameFlow(d, e)
         /\ e.frames = d.frames /\ e.fatFrames = d.fatFrames
<1> DEFINE n == Count(d)
           dead == DeadGotos(d, narrow)
<1>1. /\ d.instructions \in Seq(Entry) /\ Forward(d) /\ n \in Nat \ {0}
      /\ End(d) = n + 1 /\ Positions(d) = 1..(n + 1)
  BY WovenForward
<1>2. dead \subseteq LiveGotos(d) /\ e = Tombstone(d, dead)
  BY DEF DeadGotos, CompactRound
<1>3. /\ Kin(d, e) /\ Woven(e) /\ e.frames = d.frames /\ e.fatFrames = d.fatFrames
      /\ \A p \in 1..n : Live(e, p) <=> Live(d, p) /\ p \notin dead
      /\ \A b \in Branches(d) : Target(e, b) = ThreadFrom(d, Target(d, b))
  <2> HIDE DEF dead
  <2> QED
    BY <1>2, TombstoneMoves
<1>4. /\ e.instructions \in Seq(Entry) /\ Forward(e) /\ Count(e) = n
      /\ End(e) = n + 1 /\ Positions(e) = 1..(n + 1)
      /\ \A p \in 1..n : At(e, p) = At(d, p)
  BY <1>3, WovenForward DEF Kin
<1>5. /\ Live(d, NextLive(d, 1)) => NextLive(d, 1) \in Reachable(d)
      /\ \A p \in 1..n :
           ~ IsGoto(At(d, p)) /\ ~ IsReturn(At(d, p)) /\ Live(d, NextLive(d, p + 1)) =>
              NextLive(d, p + 1) \in Reachable(d)
  BY AllReachable
<1>6. ThreadFrom(e, 1) = ThreadFrom(d, 1)
  <2>1. 1 \in Positions(d)
    BY <1>1
  <2> QED
    BY <1>5, <2>1, ThreadingKept
<1>7. ASSUME NEW b \in Branches(d)
      PROVE  ThreadFrom(e, Target(e, b)) = ThreadFrom(d, Target(d, b))
  <2> DEFINE y == ThreadFrom(d, Target(d, b))
  <2>1. Target(e, b) = y
    <3> HIDE DEF dead
    <3> QED
      BY <1>3
  <2>2. y \in (b + 1)..n /\ Live(d, y) /\ ~ IsGoto(At(d, y)) /\ b \in 1..n
    BY ThreadsToTarget DEF Branches
  <2>3. y \in 1..n /\ y \in Positions(e)
    <3> HIDE DEF y, n
    <3> QED
      BY <1>1, <1>4, <2>2
  <2>4. y \notin dead
    <3> HIDE DEF y, dead
    <3> QED
      BY <1>2, <2>2 DEF LiveGotos
  <2>5. Rests(e, y)
    <3> HIDE DEF y, dead, n
    <3> QED
      BY <1>3, <1>4, <2>2, <2>3, <2>4 DEF Rests
  <2>6. ThreadFrom(e, y) = y
    <3> HIDE DEF y
    <3> QED
      BY <1>4, <2>3, <2>5, Resting
  <2> QED
    BY <2>1, <2>6
<1>8. ASSUME NEW p \in 1..n, ~ IsGoto(At(d, p))
      PROVE  Flow(d, p) = Flow(e, p)
  <2>1. At(e, p) = At(d, p) /\ p \in 1..Count(e)
    BY <1>4
  <2>2. /\ p + 1 \in Positions(d)
        /\ Flow(d, p) = CASE IsCondBranch(At(d, p)) ->
                                {ThreadFrom(d, Target(d, p)), ThreadFrom(d, p + 1)}
                          [] IsReturn(At(d, p)) -> {}
                          [] OTHER -> {ThreadFrom(d, p + 1)}
    BY FlowIs
  <2>3. Flow(e, p) = CASE IsCondBranch(At(d, p)) ->
                                {ThreadFrom(e, Target(e, p)), ThreadFrom(e, p + 1)}
                       [] IsReturn(At(d, p)) -> {}
                       [] OTHER -> {ThreadFrom(e, p + 1)}
    <3>1. Flow(e, p) = CASE IsCondBranch(At(e, p)) ->
                                {ThreadFrom(e, Target(e, p)), ThreadFrom(e, p + 1)}
                       [] IsReturn(At(e, p)) -> {}
                       [] OTHER -> {ThreadFrom(e, p + 1)}
      BY <1>3, <2>1, FlowIs
    <3> QED
      BY <2>1, <3>1
  <2>4. ~ IsReturn(At(d, p)) => ThreadFrom(e, p + 1) = ThreadFrom(d, p + 1)
    BY <1>5, <1>8, <2>2, ThreadingKept
  <2>5. IsCondBranch(At(d, p)) =>
          /\ ThreadFrom(e, Target(e, p)) = ThreadFrom(d, Target(d, p))
          /\ ~ IsReturn(At(d, p))
    <3> SUFFICES ASSUME IsCondBranch(At(d, p))
                 PROVE  /\ ThreadFrom(e, Target(e, p)) = ThreadFrom(d, Target(d, p))
                        /\ ~ IsReturn(At(d, p))
      OBVIOUS
    <3>1. p \in Branches(d)
      BY DEF Branches, IsBranch, IsCondBranch, BranchOps
    <3>2. ~ IsReturn(At(d, p))
      BY DEF IsReturn, IsCondBranch, CondBranches, ZeroBranches, CompareBranches
    <3> QED
      BY <1>7, <3>1, <3>2
  <2> QED
    BY <2>2, <2>3, <2>4, <2>5
<1> QED
  BY <1>3, <1>6, <1>8 DEF SameFlow

(* Threading and flow depend on the stream and the labels only, and what   *)
(* is woven on the frames besides.                                         *)
LEMMA SameStream ==
  ASSUME NEW d, NEW e, d.instructions = e.instructions, d.labels = e.labels
  PROVE  /\ \A s : ThreadFrom(d, s) = ThreadFrom(e, s)
         /\ \A p : At(d, p) = At(e, p) /\ Flow(d, p) = Flow(e, p)
         /\ Count(d) = Count(e)
         /\ Reached(d) => Reached(e)
         /\ \A f : (SameFlow(d, f) => SameFlow(e, f)) /\ (Kin(d, f) => Kin(e, f))
         /\ d.frames = e.frames /\ d.fatFrames = e.fatFrames /\ Woven(d) => Woven(e)
<1>1. /\ Count(d) = Count(e) /\ End(d) = End(e) /\ Positions(d) = Positions(e)
      /\ \A p : At(d, p) = At(e, p) /\ Target(d, p) = Target(e, p)
      /\ \A p : Live(d, p) <=> Live(e, p)
  BY DEF Count, End, Positions, At, Target, Live
<1>2. \A p : NextLive(d, p) = NextLive(e, p)
  <2> TAKE p
  <2> DEFINE Is(f, q) == /\ q = End(f) \/ Live(f, q)
                         /\ \A r \in p..(q - 1) : ~ Live(f, r)
  <2>1. \A q : Is(d, q) <=> Is(e, q)
    BY <1>1
  <2>2. NextLive(d, p) = CHOOSE q \in p..End(d) : Is(d, q)
    BY DEF NextLive
  <2>3. NextLive(e, p) = CHOOSE q \in p..End(d) : Is(e, q)
    BY <1>1 DEF NextLive
  <2> HIDE DEF Is
  <2> QED
    BY <2>1, <2>2, <2>3, Zenon
<1>3. \A p : Jump(d, p) = Jump(e, p)
  BY <1>1, <1>2 DEF Jump
<1>4. \A h : IsHop(h, d) <=> IsHop(h, e)
  BY <1>1, <1>3 DEF IsHop
<1>5. \A s : ThreadFrom(d, s) = ThreadFrom(e, s)
  <2>1. (CHOOSE h : IsHop(h, d)) = (CHOOSE h : IsHop(h, e))
    BY <1>4, Zenon
  <2> QED
    BY <1>1, <1>2, <2>1, HopUnfolds
<1>6. \A p : Flow(d, p) = Flow(e, p)
  BY <1>1, <1>2, <1>5, Zenon DEF Flow, ThreadTarget, LabelPosition, Target
<1>7. Reached(d) => Reached(e)
  BY <1>1, <1>5, <1>6 DEF Reached
<1>8. \A f : (SameFlow(d, f) => SameFlow(e, f)) /\ (Kin(d, f) => Kin(e, f))
  BY <1>1, <1>5, <1>6 DEF SameFlow, Kin
<1>9. d.frames = e.frames /\ d.fatFrames = e.fatFrames /\ Woven(d) => Woven(e)
  <2>1. Branches(d) = Branches(e)
    BY <1>1 DEF Branches
  <2> QED
    BY <1>1, <2>1 DEF Woven, Frames, FatFramed, Framed
<1> QED
  BY <1>1, <1>5, <1>6, <1>7, <1>8, <1>9

(* Keeping the flow goes on from round to round, and so does being reached. *)
LEMMA FlowCarries ==
  ASSUME NEW d, NEW e, Count(d) \in Nat, Kin(d, e), SameFlow(d, e)
  PROVE  /\ Reached(d) => Reached(e)
         /\ \A f : Kin(e, f) /\ SameFlow(e, f) => Kin(d, f) /\ SameFlow(d, f)
<1>1. /\ Count(e) = Count(d) /\ \A p \in 1..Count(d) : At(e, p) = At(d, p)
      /\ ThreadFrom(d, 1) = ThreadFrom(e, 1)
      /\ \A p \in 1..Count(d) : ~ IsGoto(At(d, p)) => Flow(d, p) = Flow(e, p)
  BY DEF Kin, SameFlow
<1>2. Reached(d) => Reached(e)
  <2> SUFFICES ASSUME Reached(d), NEW p \in 1..Count(d), ~ IsGoto(At(d, p)),
                      p # ThreadFrom(d, 1)
               PROVE  \E q \in 1..(p - 1) : ~ IsGoto(At(e, q)) /\ p \in Flow(e, q)
    BY <1>1 DEF Reached
  <2>1. PICK q \in 1..(p - 1) : ~ IsGoto(At(d, q)) /\ p \in Flow(d, q)
    BY DEF Reached
  <2>2. q \in 1..Count(d)
    OBVIOUS
  <2> QED
    BY <1>1, <2>1, <2>2
<1>3. \A f : Kin(e, f) /\ SameFlow(e, f) => Kin(d, f) /\ SameFlow(d, f)
  BY <1>1 DEF Kin, SameFlow
<1> QED
  BY <1>2, <1>3

(* Everything recorded is live, and there is a way into it: at the start,  *)
(* from an instruction that falls through, or by a branch.                 *)
Entered(e, x) ==
  \/ x = 1
  \/ ~ IsGoto(At(e, x - 1)) /\ ~ IsReturn(At(e, x - 1))
  \/ \E p \in Branches(e) : Target(e, p) = x

AllEntered(e) == \A p \in 1..Count(e) : e.instructions[p].live /\ Entered(e, p)

(* So it is reached: a goto that leads to it was entered before it.        *)
LEMMA EnteredIsReached ==
  ASSUME NEW e, Woven(e), AllEntered(e)
  PROVE  Reached(e)
<1> DEFINE n == Count(e)
           Comes(x) == \/ ThreadFrom(e, x) = ThreadFrom(e, 1)
                       \/ \E q \in 1..(x - 1) :
                            ~ IsGoto(At(e, q)) /\ ThreadFrom(e, x) \in Flow(e, q)
           G == {k \in Nat : \A x \in 1..n : x <= k => Comes(x)}
<1>1. /\ e.instructions \in Seq(Entry) /\ Forward(e) /\ n \in Nat \ {0}
      /\ End(e) = n + 1 /\ Positions(e) = 1..(n + 1)
  BY WovenForward
<1>2. \A p \in 1..n : Live(e, p)
  <2>1. \A p \in 1..n : p <= n
    BY <1>1
  <2> QED
    BY <2>1 DEF AllEntered, Live
<1>3. 0 \in G
  <2> HIDE DEF Comes, n
  <2> QED
    BY <1>1
<1>4. ASSUME NEW k \in 1..n, k - 1 \in G
      PROVE  k \in G
  <2> SUFFICES ASSUME NEW x \in 1..n, x <= k PROVE Comes(x)
    BY <1>1
  <2>1. CASE x = 1
    BY <2>1
  <2>2. CASE x # 1 /\ ~ IsGoto(At(e, x - 1)) /\ ~ IsReturn(At(e, x - 1))
    <3>1. x - 1 \in 1..n /\ x - 1 \in 1..(x - 1) /\ (x - 1) + 1 = x
      BY <1>1, <2>2
    <3>2. ThreadFrom(e, x) \in Flow(e, x - 1)
      <4>1. Flow(e, x - 1) = CASE IsCondBranch(At(e, x - 1)) ->
                       {ThreadFrom(e, Target(e, x - 1)), ThreadFrom(e, (x - 1) + 1)}
                  [] IsReturn(At(e, x - 1)) -> {}
                  [] OTHER -> {ThreadFrom(e, (x - 1) + 1)}
        BY <3>1, FlowIs
      <4> QED
        BY <2>2, <3>1, <4>1
    <3> QED
      BY <2>2, <3>1, <3>2
  <2>3. ASSUME NEW p \in Branches(e), Target(e, p) = x
        PROVE  Comes(x)
    <3>1. p \in 1..n /\ p < x /\ p \in 1..(x - 1) /\ p \in Positions(e)
      <4>1. p \in 1..n /\ Target(e, p) \in (p + 1)..n
        BY DEF Woven, Branches
      <4> HIDE DEF n
      <4> QED
        BY <1>1, <2>3, <4>1
    <3>2. CASE IsGoto(At(e, p))
      <4>1. NextLive(e, p) = p /\ ~ Rests(e, p)
        <5>1. p # End(e)
          BY <1>1, <3>1
        <5> QED
          BY <1>1, <1>2, <3>1, <3>2, <5>1, Resting DEF Rests
      <4>2. ThreadFrom(e, p) = ThreadFrom(e, x)
        BY <1>1, <2>3, <3>1, <4>1, Threads
      <4>3. Comes(p)
        <5> HIDE DEF Comes, n
        <5>1. p <= k - 1
          BY <1>1, <3>1
        <5> QED
          BY <1>4, <3>1, <5>1
      <4>4. \A q \in 1..(p - 1) : q \in 1..(x - 1)
        BY <1>1, <3>1
      <4> QED
        BY <4>2, <4>3, <4>4
    <3>3. CASE ~ IsGoto(At(e, p))
      <4>1. IsCondBranch(At(e, p))
        BY <3>3 DEF Branches, IsBranch, IsGoto, IsCondBranch, BranchOps
      <4>2. ~ IsReturn(At(e, p))
        BY <4>1 DEF IsReturn, IsCondBranch, CondBranches, ZeroBranches, CompareBranches
      <4>3. Flow(e, p) = CASE IsCondBranch(At(e, p)) ->
                       {ThreadFrom(e, Target(e, p)), ThreadFrom(e, p + 1)}
                  [] IsReturn(At(e, p)) -> {}
                  [] OTHER -> {ThreadFrom(e, p + 1)}
        BY <3>1, FlowIs
      <4>4. ThreadFrom(e, x) \in Flow(e, p)
        BY <2>3, <4>1, <4>2, <4>3
      <4> QED
        BY <3>1, <3>3, <4>4
    <3> QED
      BY <3>2, <3>3
  <2> QED
    <3>1. Entered(e, x)
      BY DEF AllEntered
    <3> QED
      BY <2>1, <2>2, <2>3, <3>1 DEF Entered
<1>5. \A x \in 1..n : Comes(x)
  <2> HIDE DEF G, n
  <2>1. n \in 0..n /\ \A x \in 1..n : x <= n
    BY <1>1
  <2>2. n \in G
    BY <1>1, <1>3, <1>4, <2>1, IndexInduction
  <2> HIDE DEF Comes
  <2> QED
    BY <2>1, <2>2 DEF G
<1> SUFFICES ASSUME NEW p \in 1..n, ~ IsGoto(At(e, p)), p # ThreadFrom(e, 1)
             PROVE  \E q \in 1..(p - 1) : ~ IsGoto(At(e, q)) /\ p \in Flow(e, q)
  BY DEF Reached
<1>6. ThreadFrom(e, p) = p
  <2>1. Rests(e, p) /\ p \in Positions(e)
    BY <1>1, <1>2 DEF Rests
  <2> QED
    BY <1>1, <2>1, Resting
<1> QED
  BY <1>5, <1>6

-----------------------------------------------------------------------------
(* What is recorded. *)

(* Everything is entered; placed labels are ahead of their branches, have  *)
(* a frame, and have branches.                                             *)
Weaving(e) ==
  /\ AllEntered(e)
  /\ \A p \in Branches(e) : Target(e, p) # Unplaced => Target(e, p) > p
  /\ \A l \in 1..Len(e.labels) : e.labels[l] # Unplaced =>
       Framed(e, e.labels[l]) /\ \E p \in Branches(e) : At(e, p).arg = l

NoReturns(e) == \A p \in 1..Count(e) : ~ IsReturn(At(e, p))

Building(e) == Weaving(e) /\ Frames(e) /\ NoReturns(e)

(* Another instruction is entered too, unless a goto before it led away    *)
(* and no chain was resolved behind that.                                  *)
LEMMA EmitWeaves ==
  ASSUME NEW e, Good(e), Chains(e), Weaving(e), NoReturns(e), ~ Dangling(e),
         NEW i \in Instruction,
         IsBranch(i) => i.arg \in 1..Len(e.labels) /\ e.labels[i.arg] = Unplaced,
         NEW f, f = Emit(e, i)
  PROVE  /\ Weaving(f)
         /\ IsReturn(i) \/ NoReturns(f)
         /\ f.frames = e.frames /\ f.fatFrames = e.fatFrames
         /\ Count(f) = Count(e) + 1 /\ At(f, Count(f)) = i
         /\ \A p \in 1..Count(e) : At(f, p) = At(e, p)
<1> DEFINE n == Count(e)
           old == e.instructions
           new == f.instructions
<1>1. old \in Seq(Entry) /\ n \in Nat /\ DOMAIN e = DOMAIN NewEmitter /\ End(e) = n + 1
  BY GoodFacts, EndType
<1>2. new = Append(old, [ins |-> i, live |-> TRUE]) /\ f.labels = e.labels
  BY EmitTyped DEF Good
<1>3. f.frames = e.frames /\ f.fatFrames = e.fatFrames
  BY <1>1 DEF Emit, NewEmitter
<1>4. /\ Len(new) = n + 1
      /\ \A p \in 1..n : new[p] = old[p]
      /\ new[n + 1] = [ins |-> i, live |-> TRUE]
  BY <1>1, <1>2 DEF Count
<1>5. /\ Count(f) = n + 1 /\ At(f, n + 1) = i /\ new[n + 1].live
      /\ \A p \in 1..n : At(f, p) = At(e, p) /\ Target(f, p) = Target(e, p)
  BY <1>2, <1>4 DEF Count, At, Target
<1>6. /\ Branches(e) \subseteq Branches(f)
      /\ \A p \in Branches(f) : p \in Branches(e) \/ (p = n + 1 /\ IsBranch(i))
      /\ Branches(e) \subseteq 1..n
  <2> HIDE DEF n
  <2>1. 1..n \subseteq 1..(n + 1) /\ \A p \in 1..(n + 1) : p \in 1..n \/ p = n + 1
    BY <1>1
  <2>2. Branches(e) = {p \in 1..n : IsBranch(At(e, p))}
    BY DEF Branches, n
  <2>3. Branches(f) = {p \in 1..(n + 1) : IsBranch(At(f, p))}
    BY <1>5 DEF Branches
  <2> QED
    BY <1>5, <2>1, <2>2, <2>3
<1>7. ASSUME NEW p \in 1..n
      PROVE  Entered(f, p)
  <2>1. Entered(e, p)
    BY DEF Weaving, AllEntered
  <2>2. p # 1 => p - 1 \in 1..n
    <3> HIDE DEF n
    <3> QED
      BY <1>1
  <2> QED
    BY <1>5, <1>6, <2>1, <2>2 DEF Entered
<1>8. Entered(f, n + 1)
  <2>1. CASE old = <<>>
    <3>1. n = 0
      BY <2>1 DEF Count
    <3> QED
      BY <3>1 DEF Entered
  <2>2. CASE old # <<>> /\ ~ IsGoto(Last(old).ins)
    <3>1. n \in 1..n /\ Last(old).ins = At(e, n) /\ (n + 1) - 1 = n
      BY <1>1, <2>2 DEF Last, At, Count
    <3>2. ~ IsGoto(At(f, n)) /\ ~ IsReturn(At(f, n))
      <4> HIDE DEF n
      <4>1. ~ IsReturn(At(e, n))
        BY <3>1 DEF NoReturns, n
      <4> QED
        BY <1>5, <2>2, <3>1, <4>1
    <3> QED
      BY <3>1, <3>2 DEF Entered
  <2>3. ASSUME NEW l \in 1..Len(e.labels), e.labels[l] = End(e)
        PROVE  Entered(f, n + 1)
    <3>1. e.labels[l] # Unplaced
      BY <1>1, <2>3 DEF Unplaced
    <3>2. PICK p \in Branches(e) : At(e, p).arg = l
      BY <3>1 DEF Weaving
    <3>3. Target(e, p) = n + 1
      BY <1>1, <2>3, <3>2 DEF Target
    <3>4. p \in Branches(f) /\ Target(f, p) = n + 1
      <4> HIDE DEF n
      <4> QED
        BY <1>5, <1>6, <3>3
    <3> QED
      BY <3>4 DEF Entered
  <2> QED
    BY <2>1, <2>2, <2>3 DEF Dangling
<1>9. AllEntered(f)
  <2> HIDE DEF n
  <2>1. \A p \in 1..n : new[p].live
    BY <1>4 DEF Weaving, AllEntered, n
  <2>2. \A p \in 1..(n + 1) : p \in 1..n \/ p = n + 1
    BY <1>1
  <2> QED
    BY <1>5, <1>7, <1>8, <2>1, <2>2 DEF AllEntered
<1>10. ASSUME NEW p \in Branches(f), Target(f, p) # Unplaced
       PROVE  Target(f, p) > p
  <2>1. CASE p \in Branches(e)
    <3> HIDE DEF n
    <3> QED
      BY <1>5, <1>6, <1>10, <2>1 DEF Weaving
  <2>2. CASE p = n + 1 /\ IsBranch(i)
    <3>1. Target(f, p) = e.labels[i.arg]
      BY <1>2, <1>5, <2>2 DEF Target
    <3> QED
      BY <1>10, <2>2, <3>1
  <2> QED
    BY <1>6, <2>1, <2>2
<1>11. ASSUME NEW l \in 1..Len(f.labels), f.labels[l] # Unplaced
       PROVE  Framed(f, f.labels[l]) /\ \E p \in Branches(f) : At(f, p).arg = l
  <2>1. Framed(e, e.labels[l]) /\ \E p \in Branches(e) : At(e, p).arg = l
    BY <1>2, <1>11 DEF Weaving
  <2> HIDE DEF n
  <2> QED
    BY <1>2, <1>3, <1>5, <1>6, <2>1 DEF Framed
<1>12. IsReturn(i) \/ NoReturns(f)
  <2> SUFFICES ASSUME ~ IsReturn(i), NEW p \in 1..(n + 1)
               PROVE  ~ IsReturn(At(f, p))
    BY <1>5 DEF NoReturns
  <2>1. CASE p \in 1..n
    BY <1>5, <2>1 DEF NoReturns
  <2>2. CASE p = n + 1
    BY <1>5, <2>2
  <2> QED
    BY <1>1, <2>1, <2>2
<1> QED
  <2> HIDE DEF n
  <2>1. Weaving(f)
    BY <1>9, <1>10, <1>11 DEF Weaving
  <2> QED
    BY <1>3, <1>5, <1>12, <2>1 DEF n

(* An instruction that is no test asks for no frame of fat mode.           *)
LEMMA EmitFrames ==
  ASSUME NEW e, Frames(e), NEW f, Count(e) \in Nat,
         f.frames = e.frames, f.fatFrames = e.fatFrames,
         Count(f) = Count(e) + 1, ~ IsCondBranch(At(f, Count(f))),
         \A p \in 1..Count(e) : At(f, p) = At(e, p)
  PROVE  Frames(f)
<1>1. \A p \in 1..Count(f) : p \in 1..Count(e) \/ p = Count(f)
  OBVIOUS
<1> QED
  BY <1>1 DEF Frames, FatFramed

(* Nothing is woven by a step that leaves the stream, its labels and its   *)
(* frames alone.                                                           *)
LEMMA QuietBuilding ==
  ASSUME NEW e, NEW f, Building(e), f.instructions = e.instructions, f.labels = e.labels,
         f.frames = e.frames, f.fatFrames = e.fatFrames
  PROVE  Building(f)
<1>1. /\ Count(f) = Count(e) /\ Branches(f) = Branches(e)
      /\ \A p : At(f, p) = At(e, p) /\ Target(f, p) = Target(e, p)
  BY DEF Count, At, Branches, Target
<1>2. \A x : (Entered(e, x) => Entered(f, x)) /\ (Framed(e, x) => Framed(f, x))
             /\ (FatFramed(e, x) => FatFramed(f, x))
  BY <1>1 DEF Entered, Framed, FatFramed
<1>3. AllEntered(f)
  BY <1>1, <1>2 DEF Building, Weaving, AllEntered
<1>4. Weaving(f)
  BY <1>1, <1>2, <1>3 DEF Building, Weaving
<1>5. Frames(f) /\ NoReturns(f)
  BY <1>1, <1>2 DEF Building, Frames, NoReturns
<1> QED
  BY <1>4, <1>5 DEF Building

(* A new chain is unplaced.                                                *)
LEMMA AddLabelBuilds ==
  ASSUME NEW e, Good(e), Chains(e), Building(e), NEW f, f = AddLabel(e)
  PROVE  /\ Building(f) /\ (~ Dangling(e) => ~ Dangling(f))
         /\ f.labels[NewLabel(e)] = Unplaced
<1> DEFINE m == Len(e.labels)
<1>1. /\ f.instructions = e.instructions /\ f.labels = Append(e.labels, Unplaced)
      /\ f.frames = e.frames /\ f.fatFrames = e.fatFrames
  BY GoodFacts DEF AddLabel, NewEmitter
<1>2. /\ e.labels \in Seq(Nat) /\ m \in Nat /\ Len(f.labels) = m + 1
      /\ \A l \in 1..m : f.labels[l] = e.labels[l]
      /\ f.labels[m + 1] = 0
  BY <1>1 DEF Chains, Unplaced
<1>3. /\ Count(f) = Count(e) /\ End(f) = End(e) /\ Branches(f) = Branches(e)
      /\ \A p : At(f, p) = At(e, p)
  BY <1>1 DEF Count, End, At, Branches
<1>4. \A p \in Branches(e) : Target(f, p) = Target(e, p)
  <2> TAKE p \in Branches(e)
  <2>1. At(e, p).arg \in 1..m
    BY DEF Branches, Chains, At, Count
  <2> HIDE DEF m
  <2> QED
    BY <1>2, <1>3, <2>1 DEF Target
<1>5. \A x : Entered(e, x) => Entered(f, x)
  BY <1>3, <1>4 DEF Entered
<1>6. AllEntered(f)
  BY <1>1, <1>3, <1>5 DEF Building, Weaving, AllEntered
<1>7. Weaving(f)
  <2>1. \A l \in 1..(m + 1) : f.labels[l] # Unplaced => l \in 1..m
    <3> HIDE DEF m
    <3> QED
      BY <1>2 DEF Unplaced
  <2>2. \A l \in 1..m : f.labels[l] # Unplaced =>
          Framed(f, f.labels[l]) /\ \E p \in Branches(f) : At(f, p).arg = l
    <3> TAKE l \in 1..m
    <3>1. e.labels[l] # Unplaced =>
            Framed(e, e.labels[l]) /\ \E p \in Branches(e) : At(e, p).arg = l
      BY DEF Building, Weaving
    <3>2. Framed(e, e.labels[l]) => Framed(f, e.labels[l])
      BY <1>1 DEF Framed
    <3> HIDE DEF m
    <3> QED
      BY <1>2, <1>3, <3>1, <3>2
  <2> HIDE DEF m
  <2>3. \A l \in 1..Len(f.labels) : f.labels[l] # Unplaced =>
          Framed(f, f.labels[l]) /\ \E p \in Branches(f) : At(f, p).arg = l
    BY <1>2, <2>1, <2>2
  <2>4. \A p \in Branches(f) : Target(f, p) # Unplaced => Target(f, p) > p
    BY <1>3, <1>4 DEF Building, Weaving
  <2> QED
    BY <1>6, <2>3, <2>4 DEF Weaving
<1>8. Frames(f) /\ NoReturns(f)
  BY <1>1, <1>3 DEF Building, Frames, FatFramed, NoReturns
<1>9. ~ Dangling(e) => ~ Dangling(f)
  <2> HIDE DEF m
  <2>1. \A l \in 1..m : l \in 1..(m + 1)
    BY <1>2
  <2> QED
    BY <1>1, <1>2, <1>3, <2>1 DEF Dangling, m
<1> QED
  BY <1>2, <1>7, <1>8, <1>9 DEF Building, NewLabel, Unplaced

(* A request is found among the others.                                    *)
LEMMA AppendFrames ==
  ASSUME NEW s \in Seq(Requested), NEW r \in Requested, NEW t, t = Append(s, r)
  PROVE  /\ t \in Seq(Requested)
         /\ \A x : Asked(s, x) => Asked(t, x)
         /\ Asked(t, r.position)
<1>1. /\ t \in Seq(Requested) /\ Len(s) \in Nat /\ Len(t) = Len(s) + 1
      /\ \A k \in 1..Len(s) : t[k] = s[k]
      /\ t[Len(s) + 1] = r
  OBVIOUS
<1>2. DOMAIN s = 1..Len(s) /\ DOMAIN t = 1..(Len(s) + 1)
  BY <1>1
<1>3. 1..Len(s) \subseteq 1..(Len(s) + 1) /\ Len(s) + 1 \in 1..(Len(s) + 1)
  BY <1>1
<1> QED
  BY <1>1, <1>2, <1>3 DEF Asked

(* A branch to an unplaced chain; a test also asks for the frame behind it *)
(* that fat mode needs.                                                    *)
LEMMA EmitBranchBuilds ==
  ASSUME NEW e, Good(e), Chains(e), Building(e), ~ Dangling(e),
         NEW op \in BranchOps, NEW locals \in LocalStates,
         NEW label \in Nat, label \in 1..Len(e.labels), e.labels[label] = Unplaced,
         NEW f, f = EmitBranch(e, op, label, locals)
  PROVE  Building(f)
<1> DEFINE i == Instr(op, label)
           g == Emit(e, i)
           n == Count(e)
<1>1. i \in Instruction /\ i.arg = label /\ i.op = op
  BY DEF Instr, Instruction, Ops
<1>2. ~ IsReturn(i)
  BY <1>1 DEF IsReturn, BranchOps, CondBranches, ZeroBranches, CompareBranches
<1>3. /\ Weaving(g) /\ NoReturns(g)
      /\ g.frames = e.frames /\ g.fatFrames = e.fatFrames
      /\ Count(g) = n + 1 /\ At(g, Count(g)) = i
      /\ \A p \in 1..n : At(g, p) = At(e, p)
  <2> HIDE DEF i, g, n
  <2> QED
    BY <1>1, <1>2, EmitWeaves DEF Building, g, n
<1>4. n \in Nat /\ End(e) = n + 1 /\ Good(g) /\ Frames(e)
  <2>1. e.instructions \in Seq(Entry)
    BY GoodFacts
  <2>2. Good(g)
    BY <1>1, EmitGood
  <2> QED
    BY <2>1, <2>2, EndType DEF Building
<1>5. CASE op = "goto"
  <2>1. f = g
    BY <1>5 DEF EmitBranch
  <2>2. ~ IsCondBranch(i)
    BY <1>1, <1>5 DEF IsCondBranch, CondBranches, ZeroBranches, CompareBranches
  <2> HIDE DEF i, g, n
  <2>3. Frames(g)
    BY <1>3, <1>4, <2>2, EmitFrames DEF n
  <2> QED
    BY <1>3, <2>1, <2>3 DEF Building
<1>6. CASE op # "goto"
  <2> DEFINE r == Request(End(e) + 1, locals, <<>>)
  <2>1. DOMAIN g = DOMAIN NewEmitter
    BY <1>4, GoodFacts
  <2>2. f = [g EXCEPT !.fatFrames = Append(@, r),
                      !.asserts = FlagIf(@, g.cur # 0,
                           "conditional branch leaves a non-empty stack")]
    BY <1>6 DEF EmitBranch, RequestFallthrough
  <2>3. /\ f.instructions = g.instructions /\ f.labels = g.labels
        /\ f.frames = g.frames /\ f.fatFrames = Append(g.fatFrames, r)
    <3> HIDE DEF g, r
    <3> QED
      BY <2>1, <2>2 DEF NewEmitter
  <2>4. r \in Requested /\ r.position = n + 2
    <3>1. End(e) + 1 = n + 2 /\ n + 2 \in Nat
      <4> HIDE DEF n
      <4> QED
        BY <1>4
    <3> HIDE DEF n
    <3> QED
      BY <3>1 DEF Request, Requested
  <2> HIDE DEF r, g, i
  <2>5. g.fatFrames \in Seq(Requested) /\ g.frames \in Seq(Requested)
    BY <1>3, <1>4 DEF Frames
  <2>6. /\ f.fatFrames \in Seq(Requested)
        /\ \A x : FatFramed(g, x) => FatFramed(f, x)
        /\ FatFramed(f, n + 2)
    <3> HIDE DEF n
    <3> QED
      BY <2>3, <2>4, <2>5, AppendFrames DEF FatFramed
  <2>7. /\ Count(f) = n + 1 /\ Branches(f) = Branches(g)
        /\ \A p : At(f, p) = At(g, p) /\ Target(f, p) = Target(g, p)
    BY <1>3, <2>3 DEF Count, At, Branches, Target
  <2>8. Weaving(f)
    <3>1. \A x : (Entered(g, x) => Entered(f, x)) /\ (Framed(g, x) => Framed(f, x))
      BY <2>3, <2>7 DEF Entered, Framed
    <3>2. AllEntered(f)
      <4> HIDE DEF n
      <4> QED
        BY <1>3, <2>3, <2>7, <3>1 DEF Weaving, AllEntered
    <3> QED
      BY <1>3, <2>3, <2>7, <3>1, <3>2 DEF Weaving
  <2>9. Frames(f)
    <3> SUFFICES ASSUME NEW p \in 1..(n + 1), IsCondBranch(At(f, p))
                 PROVE  FatFramed(f, p + 1)
      BY <2>3, <2>5, <2>6, <2>7 DEF Frames
    <3>1. CASE p \in 1..n
      <4>1. FatFramed(e, p + 1)
        BY <1>3, <1>4, <2>7, <3>1 DEF Frames
      <4>2. FatFramed(g, p + 1)
        BY <1>3, <4>1 DEF FatFramed
      <4> QED
        BY <2>6, <4>2
    <3>2. CASE p = n + 1
      <4>1. p + 1 = n + 2
        BY <1>4, <3>2
      <4> QED
        BY <2>6, <4>1
    <3> HIDE DEF n
    <3> QED
      BY <1>4, <3>1, <3>2
  <2>10. NoReturns(f)
    BY <1>3, <2>7 DEF NoReturns
  <2> QED
    BY <2>8, <2>9, <2>10 DEF Building
<1> QED
  BY <1>5, <1>6

(* Merging moves branches from one unplaced chain to another.              *)
LEMMA RetargetBuilds ==
  ASSUME NEW e, Good(e), Chains(e), Building(e),
         NEW from \in Pending(e), NEW to \in Pending(e),
         NEW f, f = RetargetBranches(e, from, to)
  PROVE  Building(f)
<1> DEFINE n == Count(e)
           old == e.instructions
           new == f.instructions
<1>1. old \in Seq(Entry) /\ n \in Nat /\ DOMAIN e = DOMAIN NewEmitter /\ n = Len(old)
  BY GoodFacts DEF Count
<1>2. /\ f.labels = e.labels /\ f.frames = e.frames /\ f.fatFrames = e.fatFrames
      /\ new = [p \in 1..n |->
                  IF IsBranch(old[p].ins) /\ old[p].ins.arg = from
                  THEN [old[p] EXCEPT !.ins.arg = to] ELSE old[p]]
  BY <1>1 DEF RetargetBranches, NewEmitter, Count
<1>3. /\ from \in 1..Len(e.labels) /\ to \in 1..Len(e.labels) /\ to \in Nat
      /\ e.labels[from] = Unplaced /\ e.labels[to] = Unplaced
  BY DEF Pending, Chains
<1>4. ASSUME NEW p \in 1..n
      PROVE  /\ new[p].live = old[p].live /\ new[p].ins.op = old[p].ins.op
             /\ IF IsBranch(old[p].ins) /\ old[p].ins.arg = from
                THEN new[p].ins.arg = to ELSE new[p].ins = old[p].ins
  <2>1. old[p] \in Entry
    BY <1>1
  <2>2. CASE IsBranch(old[p].ins) /\ old[p].ins.arg = from
    <3>1. new[p] = [old[p] EXCEPT !.ins.arg = to]
      BY <1>2, <2>2
    <3>2. /\ new[p].live = old[p].live /\ new[p].ins.op = old[p].ins.op
          /\ new[p].ins.arg = to
      BY <1>3, <2>1, <3>1 DEF Entry, Instruction
    <3> QED
      BY <2>2, <3>2
  <2>3. CASE ~ (IsBranch(old[p].ins) /\ old[p].ins.arg = from)
    <3>1. new[p] = old[p]
      BY <1>2, <2>3
    <3> QED
      BY <2>3, <3>1
  <2> QED
    BY <2>2, <2>3
<1>5. Count(f) = n
  <2>1. Len(new) = n
    <3> HIDE DEF old, n
    <3>1. new = [p \in 1..n |-> new[p]]
      BY <1>2
    <3> DEFINE S == {new[p] : p \in 1..n}
    <3>2. new \in [1..n -> S]
      BY <3>1
    <3> HIDE DEF S, new
    <3> QED
      BY <1>1, <3>2, Sequence
  <2> QED
    BY <2>1 DEF Count
<1>6. ASSUME NEW p \in 1..n
      PROVE  /\ IsBranch(At(f, p)) <=> IsBranch(At(e, p))
             /\ IsGoto(At(f, p)) <=> IsGoto(At(e, p))
             /\ IsReturn(At(f, p)) <=> IsReturn(At(e, p))
             /\ IsCondBranch(At(f, p)) <=> IsCondBranch(At(e, p))
             /\ new[p].live = old[p].live
  BY <1>4 DEF At, IsBranch, IsGoto, IsReturn, IsCondBranch
<1>7. Branches(f) = Branches(e) /\ Branches(e) \subseteq 1..n
  BY <1>5, <1>6 DEF Branches
<1>8. ASSUME NEW p \in Branches(e)
      PROVE  /\ Target(f, p) = Target(e, p)
             /\ Target(e, p) # Unplaced => At(f, p).arg = At(e, p).arg
  <2>1. p \in 1..n /\ IsBranch(old[p].ins)
    BY <1>7 DEF Branches, At
  <2>2. CASE old[p].ins.arg = from
    <3>1. new[p].ins.arg = to
      BY <1>4, <2>1, <2>2
    <3> QED
      BY <1>2, <1>3, <2>2, <3>1 DEF Target, At
  <2>3. CASE old[p].ins.arg # from
    <3>1. new[p].ins = old[p].ins
      BY <1>4, <2>1, <2>3
    <3> QED
      BY <1>2, <3>1 DEF Target, At
  <2> QED
    BY <2>2, <2>3
<1>9. AllEntered(f)
  <2> SUFFICES ASSUME NEW p \in 1..n
               PROVE  new[p].live /\ Entered(f, p)
    BY <1>5 DEF AllEntered
  <2>1. old[p].live /\ Entered(e, p)
    BY DEF Building, Weaving, AllEntered
  <2>2. p # 1 => p - 1 \in 1..n
    <3> HIDE DEF n
    <3> QED
      BY <1>1
  <2> HIDE DEF n, old, new
  <2> QED
    BY <1>6, <1>7, <1>8, <2>1, <2>2 DEF Entered
<1>10. \A p \in Branches(f) : Target(f, p) # Unplaced => Target(f, p) > p
  BY <1>7, <1>8 DEF Building, Weaving
<1>11. ASSUME NEW l \in 1..Len(f.labels), f.labels[l] # Unplaced
       PROVE  Framed(f, f.labels[l]) /\ \E p \in Branches(f) : At(f, p).arg = l
  <2>1. Framed(e, e.labels[l])
    BY <1>2, <1>11 DEF Building, Weaving
  <2>2. PICK p \in Branches(e) : At(e, p).arg = l
    BY <1>2, <1>11 DEF Building, Weaving
  <2>3. Target(e, p) # Unplaced
    BY <1>2, <1>11, <2>2 DEF Target
  <2>4. At(f, p).arg = l
    BY <1>8, <2>2, <2>3
  <2> QED
    BY <1>2, <1>7, <2>1, <2>4 DEF Framed
<1>12. Frames(f) /\ NoReturns(f)
  BY <1>2, <1>5, <1>6 DEF Building, Frames, FatFramed, NoReturns
<1>13. Weaving(f)
  BY <1>9, <1>10, <1>11 DEF Weaving
<1> QED
  BY <1>12, <1>13 DEF Building

(* A chain resolved at the end of the stream is ahead of its branches and  *)
(* has its frame.                                                          *)
LEMMA PlaceBuilds ==
  ASSUME NEW e, Good(e), Chains(e), Building(e), NEW label \in Pending(e),
         NEW locals \in LocalStates, NEW stack \in {<<>>, <<"Integer">>},
         NEW f, f = RequestFrame(PlaceLabel(e, label), locals, stack)
  PROVE  Building(f)
<1> DEFINE n == Count(e)
           r == Request(End(e), locals, stack)
<1>1. e.instructions \in Seq(Entry) /\ n \in Nat /\ End(e) = n + 1
  BY GoodFacts, EndType
<1>2. /\ f.instructions = e.instructions /\ f.labels = [e.labels EXCEPT ![label] = End(e)]
      /\ f.fatFrames = e.fatFrames /\ f.frames = Append(e.frames, r)
  <2>1. DOMAIN e = DOMAIN NewEmitter
    BY GoodFacts
  <2>2. End(PlaceLabel(e, label)) = End(e)
    BY <2>1 DEF PlaceLabel, End, Count, NewEmitter
  <2>3. f = [PlaceLabel(e, label) EXCEPT !.atControlEntry = TRUE, !.frames = Append(@, r)]
    BY <2>2 DEF RequestFrame
  <2>4. /\ DOMAIN PlaceLabel(e, label) = DOMAIN NewEmitter
        /\ PlaceLabel(e, label).instructions = e.instructions
        /\ PlaceLabel(e, label).labels = [e.labels EXCEPT ![label] = End(e)]
        /\ PlaceLabel(e, label).fatFrames = e.fatFrames
        /\ PlaceLabel(e, label).frames = e.frames
    BY <2>1 DEF PlaceLabel, NewEmitter
  <2> HIDE DEF r
  <2> QED
    BY <2>3, <2>4 DEF NewEmitter
<1>3. /\ e.labels \in Seq(Nat) /\ label \in 1..Len(e.labels)
      /\ e.labels[label] = Unplaced /\ Len(f.labels) = Len(e.labels)
      /\ \A l \in 1..Len(e.labels) :
           f.labels[l] = IF l = label THEN End(e) ELSE e.labels[l]
  <2>1. e.labels \in Seq(Nat) /\ label \in 1..Len(e.labels) /\ e.labels[label] = Unplaced
    BY DEF Chains, Pending
  <2>2. End(e) \in Nat
    BY <1>1
  <2> QED
    BY <1>2, <2>1, <2>2
<1>4. /\ Count(f) = n /\ Branches(f) = Branches(e)
      /\ \A p : At(f, p) = At(e, p)
  BY <1>2 DEF Count, At, Branches
<1>5. ASSUME NEW p \in Branches(e)
      PROVE  Target(f, p) = IF At(e, p).arg = label THEN End(e) ELSE Target(e, p)
  <2>1. At(e, p).arg \in 1..Len(e.labels)
    BY DEF Branches, Chains, At, Count
  <2> QED
    BY <1>3, <1>4, <2>1 DEF Target
<1>6. ASSUME NEW p \in Branches(e)
      PROVE  /\ Target(f, p) # Unplaced => Target(f, p) > p
             /\ Target(e, p) # Unplaced => Target(f, p) = Target(e, p)
  <2>1. Target(e, p) # Unplaced => Target(e, p) > p
    BY DEF Building, Weaving
  <2>2. p \in 1..n
    BY DEF Branches
  <2>3. End(e) > p
    <3> HIDE DEF n
    <3> QED
      BY <1>1, <2>2
  <2>4. At(e, p).arg = label => Target(e, p) = Unplaced
    BY <1>3 DEF Target
  <2> QED
    BY <1>5, <2>1, <2>3, <2>4
<1>7. AllEntered(f)
  <2> SUFFICES ASSUME NEW p \in 1..n PROVE Entered(f, p)
    BY <1>2, <1>4 DEF Building, Weaving, AllEntered
  <2>1. Entered(e, p)
    BY DEF Building, Weaving, AllEntered
  <2>2. p # Unplaced
    <3> HIDE DEF n
    <3> QED
      BY <1>1 DEF Unplaced
  <2> QED
    BY <1>4, <1>6, <2>1, <2>2 DEF Entered
<1>8. r \in Requested /\ r.position = End(e)
  <2>1. End(e) \in Nat
    BY <1>1
  <2> QED
    BY <2>1 DEF Request, Requested
<1>9. /\ f.frames \in Seq(Requested) /\ Framed(f, End(e))
      /\ \A x : Framed(e, x) => Framed(f, x)
  <2>1. e.frames \in Seq(Requested)
    BY DEF Building, Frames
  <2> HIDE DEF r
  <2>2. f.frames = Append(e.frames, r)
    BY <1>2
  <2>3. /\ f.frames \in Seq(Requested) /\ Asked(f.frames, r.position)
        /\ \A x : Asked(e.frames, x) => Asked(f.frames, x)
    BY <1>8, <2>1, <2>2, AppendFrames
  <2> QED
    BY <1>8, <2>3 DEF Framed
<1>10. ASSUME NEW l \in 1..Len(f.labels), f.labels[l] # Unplaced
       PROVE  Framed(f, f.labels[l]) /\ \E p \in Branches(f) : At(f, p).arg = l
  <2>1. CASE l = label
    <3>1. \E p \in Branches(e) : At(e, p).arg = l
      BY <2>1 DEF Pending
    <3> QED
      BY <1>3, <1>4, <1>9, <2>1, <3>1
  <2>2. CASE l # label
    <3>1. Framed(e, e.labels[l]) /\ \E p \in Branches(e) : At(e, p).arg = l
      BY <1>3, <1>10, <2>2 DEF Building, Weaving
    <3> QED
      BY <1>3, <1>4, <1>9, <2>2, <3>1
  <2> QED
    BY <2>1, <2>2
<1>11. Weaving(f)
  BY <1>4, <1>6, <1>7, <1>10 DEF Weaving
<1>12. Frames(f) /\ NoReturns(f)
  BY <1>2, <1>4, <1>9 DEF Building, Frames, FatFramed, NoReturns
<1> QED
  BY <1>11, <1>12 DEF Building

-----------------------------------------------------------------------------
(* The second invariant: what is recorded, and afterwards that each        *)
(* attempt works on a woven stream with the flow of the recorded one.      *)
FlowInv ==
  /\ stage = "recording" => Building(em)
  /\ stage # "recording" =>
       /\ Woven(em) /\ Woven(Recorded) /\ Reached(Recorded)
       /\ Kin(Recorded, em) /\ SameFlow(Recorded, em)
  /\ stage = "fattening" => mode = "fat"
  /\ Selected /\ mode = "narrow" => ~ Overflow

(* Nothing is recorded at first.                                           *)
LEMMA InitFlow == Init => FlowInv
<1> SUFFICES ASSUME Init PROVE FlowInv
  OBVIOUS
<1>1. em = NewEmitter /\ stage = "recording"
  BY DEF Init
<1>2. em.instructions = <<>> /\ em.labels = <<>> /\ em.frames = <<>> /\ em.fatFrames = <<>>
  BY <1>1 DEF NewEmitter
<1>3. Count(em) = 0 /\ Len(em.labels) = 0 /\ Branches(em) = {}
  BY <1>2 DEF Count, Branches
<1>4. Weaving(em)
  BY <1>3 DEF Weaving, AllEntered
<1>5. Frames(em) /\ NoReturns(em)
  BY <1>2, <1>3 DEF Frames, NoReturns
<1> QED
  BY <1>1, <1>4, <1>5 DEF FlowInv, Building, Selected

(* Every call of the code generator keeps what is recorded in order.       *)
LEMMA ClientFlow ==
  ASSUME IInv, FlowInv, Client
  PROVE  FlowInv'
<1>1. stage = "recording" /\ Good(em) /\ Chains(em) /\ Building(em)
  <2>1. stage = "recording"
    BY DEF Client, Record, BranchToNew, MergeChains, ResolveChain, ResolveMerge,
           MarkLine, StartStatement, Recording
  <2> QED
    BY <2>1 DEF IInv, FlowInv
<1>2. Pending(em) \subseteq 1..Len(em.labels)
  BY DEF Pending
<1>3. ASSUME NEW e, Recording(e), Building(e)
      PROVE  FlowInv'
  BY <1>3 DEF Recording, FlowInv, Selected
<1>4. \A e : Good(e) => DOMAIN e = DOMAIN NewEmitter
  BY GoodFacts
<1>5. ASSUME NEW e, Good(e), Building(e)
      PROVE  Building(ResetStack(e))
  <2>1. DOMAIN e = DOMAIN NewEmitter
    BY <1>4, <1>5
  <2>2. /\ ResetStack(e).instructions = e.instructions
        /\ ResetStack(e).labels = e.labels
        /\ ResetStack(e).frames = e.frames /\ ResetStack(e).fatFrames = e.fatFrames
    BY <2>1 DEF ResetStack, NewEmitter
  <2> QED
    BY <1>5, <2>2, QuietBuilding
<1>6. ASSUME NEW i \in Straight, Record(i)
      PROVE  FlowInv'
  <2> DEFINE f == Emit(em, i)
  <2>1. i \in Instruction /\ ~ IsBranch(i) /\ ~ IsReturn(i) /\ ~ IsCondBranch(i)
    BY StraightAssumption DEF IsBranch, IsCondBranch, BranchOps
  <2>2. ~ Dangling(em) /\ Recording(f)
    BY <1>6 DEF Record, Room
  <2>3. /\ Weaving(f) /\ NoReturns(f)
        /\ f.frames = em.frames /\ f.fatFrames = em.fatFrames
        /\ Count(f) = Count(em) + 1 /\ At(f, Count(f)) = i
        /\ \A p \in 1..Count(em) : At(f, p) = At(em, p)
    <3> HIDE DEF f
    <3> QED
      BY <1>1, <2>1, <2>2, EmitWeaves DEF Building, f
  <2>4. Frames(f)
    <3>1. Count(em) \in Nat
      BY <1>1, GoodFacts DEF Count
    <3> HIDE DEF f
    <3> QED
      BY <1>1, <2>1, <2>3, <3>1, EmitFrames DEF Building
  <2> HIDE DEF f
  <2> QED
    BY <1>3, <2>2, <2>3, <2>4 DEF Building
<1>7. ASSUME NEW op \in BranchOps, NEW locals \in LocalStates, BranchToNew(op, locals)
      PROVE  FlowInv'
  <2> DEFINE e == AddLabel(em)
             label == NewLabel(em)
             f == EmitBranch(e, op, label, locals)
  <2>1. Good(e) /\ Chains(e) /\ label \in 1..Len(e.labels) /\ label \in Nat
    BY <1>1, AddLabelGood
  <2>2. Building(e) /\ ~ Dangling(e) /\ e.labels[label] = Unplaced
    <3>1. ~ Dangling(em)
      BY <1>7 DEF BranchToNew, Room
    <3> QED
      BY <1>1, <3>1, AddLabelBuilds
  <2>3. Building(f)
    <3> HIDE DEF e, label
    <3> QED
      BY <2>1, <2>2, EmitBranchBuilds
  <2>4. Recording(f)
    BY <1>7 DEF BranchToNew
  <2> HIDE DEF f
  <2> QED
    BY <1>3, <2>3, <2>4
<1>8. ASSUME NEW to \in Pending(em), NEW from \in Pending(em), MergeChains(to, from)
      PROVE  FlowInv'
  <2>1. Building(RetargetBranches(em, from, to))
    BY <1>1, RetargetBuilds
  <2>2. Recording(RetargetBranches(em, from, to))
    BY <1>8 DEF MergeChains
  <2> QED
    BY <1>3, <2>1, <2>2
<1>9. ASSUME NEW l \in Pending(em), NEW locals \in LocalStates, NEW reset \in BOOLEAN,
             ResolveChain(l, locals, reset)
      PROVE  FlowInv'
  <2> DEFINE e == RequestFrame(PlaceLabel(em, l), locals, <<>>)
             f == IF reset THEN ResetStack(e) ELSE e
  <2>1. Building(e)
    BY <1>1, PlaceBuilds
  <2>2. Good(e)
    BY <1>1, <1>2, PlaceGood
  <2>3. Building(ResetStack(e))
    <3> HIDE DEF e
    <3> QED
      BY <1>5, <2>1, <2>2
  <2>4. Building(f) /\ Recording(f)
    <3>1. Recording(f)
      BY <1>9 DEF ResolveChain
    <3> HIDE DEF e
    <3> QED
      BY <2>1, <2>3, <3>1
  <2> HIDE DEF f
  <2> QED
    BY <1>3, <2>4
<1>10. ASSUME NEW l \in Pending(em), NEW locals \in LocalStates, ResolveMerge(l, locals)
       PROVE  FlowInv'
  <2> DEFINE e == RequestFrame(PlaceLabel(em, l), locals, <<"Integer">>)
  <2>1. Building(e)
    BY <1>1, PlaceBuilds
  <2>2. Recording(e)
    BY <1>10 DEF ResolveMerge
  <2> HIDE DEF e
  <2> QED
    BY <1>3, <2>1, <2>2
<1>11. ASSUME NEW line \in Lines, MarkLine(line)
       PROVE  FlowInv'
  <2> DEFINE f == SetPendingLine(em, line)
  <2>1. /\ f.instructions = em.instructions /\ f.labels = em.labels
        /\ f.frames = em.frames /\ f.fatFrames = em.fatFrames
    BY <1>1, <1>4 DEF SetPendingLine, NewEmitter
  <2>2. Recording(f)
    BY <1>11 DEF MarkLine
  <2> HIDE DEF f
  <2>3. Building(f)
    BY <1>1, <2>1, QuietBuilding
  <2> QED
    BY <1>3, <2>2, <2>3
<1>12. CASE StartStatement
  <2>1. Recording(ResetStack(em))
    BY <1>12 DEF StartStatement
  <2> QED
    BY <1>1, <1>3, <1>5, <2>1
<1> QED
  BY <1>6, <1>7, <1>8, <1>9, <1>10, <1>11, <1>12 DEF Client

(* What finish starts from is woven: no chain is pending, so every branch  *)
(* is placed ahead, and the return is behind all targets.                  *)
LEMMA FinishWeaves ==
  ASSUME NEW e, Good(e), Chains(e), Building(e), Pending(e) = {}, ~ Dangling(e),
         NEW f, f = Emit(e, Simple("return"))
  PROVE  Woven(f) /\ AllEntered(f)
<1> DEFINE n == Count(e)
           i == Simple("return")
<1>1. i \in Instruction /\ ~ IsBranch(i) /\ ~ IsCondBranch(i) /\ IsReturn(i)
  BY DEF Simple, Instr, Instruction, Ops, IsBranch, IsCondBranch, BranchOps, CondBranches,
         ZeroBranches, CompareBranches, IsReturn
<1>2. n \in Nat /\ End(e) = n + 1
  <2>1. e.instructions \in Seq(Entry)
    BY GoodFacts
  <2> QED
    BY <2>1, EndType
<1>3. /\ Weaving(f)
      /\ f.frames = e.frames /\ f.fatFrames = e.fatFrames
      /\ Count(f) = n + 1 /\ At(f, n + 1) = i
      /\ \A p \in 1..n : At(f, p) = At(e, p)
  <2> HIDE DEF i
  <2>1. /\ Weaving(f)
        /\ f.frames = e.frames /\ f.fatFrames = e.fatFrames
        /\ Count(f) = n + 1 /\ At(f, Count(f)) = i
        /\ \A p \in 1..n : At(f, p) = At(e, p)
    BY <1>1, EmitWeaves DEF Building, i
  <2> QED
    BY <2>1
<1>4. Good(f) /\ Chains(f) /\ f.labels = e.labels
  <2> HIDE DEF i
  <2>1. Good(f) /\ Chains(f)
    BY <1>1, EmitGood, EmitChains DEF i
  <2>2. f.labels = e.labels
    BY <1>1, EmitTyped DEF Good, i
  <2> QED
    BY <2>1, <2>2
<1>5. Frames(f)
  <2> HIDE DEF i
  <2> QED
    BY <1>1, <1>2, <1>3, EmitFrames DEF Building
<1>6. AllEntered(f)
  BY <1>3 DEF Weaving
<1>7. ASSUME NEW p \in Branches(f)
      PROVE  /\ At(f, p).arg \in 1..Len(f.labels)
             /\ Target(f, p) \in (p + 1)..Count(f)
             /\ Live(f, Target(f, p)) /\ Framed(f, Target(f, p))
  <2> DEFINE l == At(f, p).arg
             x == Target(f, p)
  <2>1. p \in 1..(n + 1) /\ IsBranch(At(f, p))
    BY <1>3 DEF Branches
  <2>2. p \in 1..n
    <3>1. p # n + 1
      BY <1>1, <1>3, <2>1
    <3> HIDE DEF n
    <3> QED
      BY <1>2, <2>1, <3>1
  <2>3. l \in 1..Len(f.labels) /\ x = f.labels[l] /\ x \in Nat /\ x <= n + 1
    <3>1. l \in 1..Len(f.labels) /\ f.labels \in Seq(Nat)
      BY <1>4, <2>1, <1>3 DEF Chains, At, Count
    <3>2. l \in 1..Len(e.labels) /\ e.labels[l] <= End(e)
      BY <1>4, <3>1 DEF Chains
    <3> HIDE DEF l, n
    <3>3. x = f.labels[l]
      BY DEF Target, l
    <3> HIDE DEF x
    <3> QED
      BY <1>2, <1>4, <3>1, <3>2, <3>3
  <2>4. x # Unplaced
    <3>1. p \in Branches(e) /\ At(e, p).arg = l
      BY <1>3, <2>1, <2>2 DEF Branches
    <3> HIDE DEF l
    <3>2. e.labels[l] # Unplaced
      BY <1>4, <2>3, <3>1 DEF Pending
    <3> QED
      BY <1>4, <2>3, <3>2
  <2>5. x > p /\ Framed(f, x)
    <3> HIDE DEF l
    <3> QED
      BY <1>3, <2>3, <2>4 DEF Weaving
  <2>6. x \in (p + 1)..(n + 1) /\ x \in 1..(n + 1)
    <3> HIDE DEF l, x, n
    <3> QED
      BY <1>2, <2>2, <2>3, <2>5
  <2>7. Live(f, x)
    <3> HIDE DEF l, x, n
    <3>1. x <= Count(f) /\ f.instructions[x].live
      BY <1>3, <1>6, <2>3, <2>6 DEF AllEntered
    <3> QED
      BY <3>1 DEF Live
  <2> HIDE DEF l, x, n
  <2> QED
    BY <1>3, <2>3, <2>5, <2>6, <2>7 DEF l, x
<1>8. Woven(f)
  <2>1. f.instructions \in Seq(Entry) /\ NoLoss(f.instructions)
    BY <1>4, GoodFacts DEF Good
  <2>2. Len(f.labels) \in Nat
    BY <1>4 DEF Chains
  <2>3. Count(f) >= 1 /\ IsReturn(At(f, Count(f)))
    BY <1>1, <1>2, <1>3
  <2> QED
    BY <1>5, <1>7, <2>1, <2>2, <2>3 DEF Woven
<1> QED
  BY <1>6, <1>8

(* The same stream has the same flow.                                      *)
LEMMA StreamKin ==
  ASSUME NEW d, NEW e, d.instructions = e.instructions, d.labels = e.labels
  PROVE  Kin(d, e) /\ SameFlow(d, e)
<1>1. /\ \A s : ThreadFrom(d, s) = ThreadFrom(e, s)
      /\ \A p : At(d, p) = At(e, p) /\ Flow(d, p) = Flow(e, p)
      /\ Count(d) = Count(e)
  BY SameStream
<1> QED
  BY <1>1 DEF Kin, SameFlow

(* The recorded stream, in the emitter at hand.                            *)
LEMMA RecordedIs ==
  ASSUME Good(em)
  PROVE  /\ Recorded.instructions = original.instructions
         /\ Recorded.labels = original.labels
         /\ Recorded.frames = em.frames /\ Recorded.fatFrames = em.fatFrames
<1>1. DOMAIN em = DOMAIN NewEmitter
  BY GoodFacts
<1> QED
  BY <1>1 DEF Recorded, NewEmitter

(* finish starts from the recorded stream.                                 *)
LEMMA FinishFlow ==
  ASSUME IInv, FlowInv, IInv', Finish
  PROVE  FlowInv'
<1> DEFINE e == Emit(em, Simple("return"))
<1>1. /\ Good(em) /\ Chains(em) /\ Building(em) /\ Pending(em) = {} /\ ~ Dangling(em)
      /\ em' = CheckPreconditions(e)
      /\ original' = [instructions |-> e.instructions, labels |-> e.labels]
      /\ stage' = "narrowing"
  BY DEF Finish, IInv, FlowInv
<1>2. Woven(e) /\ Reached(e)
  <2>1. Woven(e) /\ AllEntered(e)
    BY <1>1, FinishWeaves
  <2> HIDE DEF e
  <2> QED
    BY <2>1, EnteredIsReached
<1>3. Good(e)
  <2>1. Simple("return") \in Instruction
    BY DEF Simple, Instr, Instruction, Ops
  <2> QED
    BY <1>1, <2>1, EmitGood
<1>4. /\ em'.instructions = e.instructions /\ em'.labels = e.labels
      /\ em'.frames = e.frames /\ em'.fatFrames = e.fatFrames
  <2>1. DOMAIN e = DOMAIN NewEmitter
    BY <1>3, GoodFacts
  <2> HIDE DEF e
  <2> QED
    BY <1>1, <2>1 DEF CheckPreconditions, NewEmitter
<1>5. PICK r : r = Recorded'
  OBVIOUS
<1>6. PICK f : f = em'
  OBVIOUS
<1>7. /\ r.instructions = e.instructions /\ r.labels = e.labels
      /\ r.frames = e.frames /\ r.fatFrames = e.fatFrames
  <2>1. Good(em)'
    BY DEF IInv
  <2>2. DOMAIN em' = DOMAIN NewEmitter
    BY <2>1, GoodFacts
  <2>3. r = [em' EXCEPT !.instructions = e.instructions, !.labels = e.labels]
    BY <1>1, <1>5 DEF Recorded
  <2> HIDE DEF e
  <2> QED
    BY <1>4, <2>2, <2>3 DEF NewEmitter
<1> HIDE DEF e
<1>8. Woven(f)
  BY <1>2, <1>4, <1>6, SameStream
<1>9. Woven(r) /\ Reached(r)
  BY <1>2, <1>7, SameStream
<1>10. Kin(r, f) /\ SameFlow(r, f)
  <2>1. r.instructions = f.instructions /\ r.labels = f.labels
    BY <1>4, <1>6, <1>7
  <2> QED
    BY <2>1, StreamKin
<1> QED
  BY <1>1, <1>5, <1>6, <1>8, <1>9, <1>10 DEF FlowInv, Selected

(* A round keeps the flow of the stream at hand, hence of the recorded one. *)
LEMMA RoundFlow ==
  ASSUME IInv, FlowInv, Round
  PROVE  FlowInv'
<1> DEFINE narrow == stage = "narrowing"
<1>1. /\ em' = CompactRound(em, narrow) /\ UNCHANGED <<stage, mode, original>>
      /\ stage \in {"narrowing", "fattening"}
  BY DEF Round, Compacting
<1>2. /\ Good(em) /\ Woven(em) /\ Woven(Recorded) /\ Reached(Recorded)
      /\ Kin(Recorded, em) /\ SameFlow(Recorded, em)
  BY <1>1 DEF IInv, FlowInv
<1>3. PICK c : c = Recorded
  OBVIOUS
<1>4. PICK d : d = em
  OBVIOUS
<1>5. PICK e : e = em'
  OBVIOUS
<1>6. PICK r : r = Recorded'
  OBVIOUS
<1>7. Reached(d)
  <2>1. Count(c) \in Nat
    BY <1>2, <1>3, WovenForward
  <2> QED
    BY <1>2, <1>3, <1>4, <2>1, FlowCarries
<1>8. /\ Kin(d, e) /\ Woven(e) /\ SameFlow(d, e)
      /\ e.frames = d.frames /\ e.fatFrames = d.fatFrames
  <2> HIDE DEF narrow
  <2> QED
    BY <1>1, <1>2, <1>4, <1>5, <1>7, RoundKeepsFlow
<1>9. Kin(c, e) /\ SameFlow(c, e)
  <2>1. Count(c) \in Nat
    BY <1>2, <1>3, WovenForward
  <2> QED
    BY <1>2, <1>3, <1>4, <1>8, <2>1, FlowCarries
<1>10. /\ r.instructions = c.instructions /\ r.labels = c.labels
       /\ r.frames = c.frames /\ r.fatFrames = c.fatFrames
  <2>1. /\ c.instructions = original.instructions /\ c.labels = original.labels
        /\ c.frames = d.frames /\ c.fatFrames = d.fatFrames
    BY <1>2, <1>3, <1>4, RecordedIs
  <2>2. r = [e EXCEPT !.instructions = original.instructions, !.labels = original.labels]
    BY <1>1, <1>5, <1>6 DEF Recorded
  <2>3. DOMAIN e = DOMAIN NewEmitter
    <3>1. DeadGotos(d, narrow) \subseteq LiveGotos(d)
      BY DEF DeadGotos
    <3>2. e = Tombstone(d, DeadGotos(d, narrow))
      BY <1>1, <1>4, <1>5 DEF CompactRound
    <3> HIDE DEF narrow
    <3>3. Good(e)
      BY <1>2, <1>4, <3>1, <3>2, TombstoneGood
    <3> QED
      BY <3>3, GoodFacts
  <2>4. /\ r.instructions = original.instructions /\ r.labels = original.labels
        /\ r.frames = e.frames /\ r.fatFrames = e.fatFrames
    BY <2>2, <2>3 DEF NewEmitter
  <2> QED
    BY <1>8, <2>1, <2>4
<1>11. Woven(r) /\ Reached(r) /\ Kin(r, e) /\ SameFlow(r, e)
  BY <1>2, <1>3, <1>9, <1>10, SameStream
<1> QED
  BY <1>1, <1>2, <1>5, <1>6, <1>8, <1>11 DEF FlowInv, Selected

(* The fat attempt starts over from the recorded stream.                   *)
LEMMA RetryFlow ==
  ASSUME IInv, FlowInv, RetryFat
  PROVE  FlowInv'
<1>1. /\ em' = CheckPreconditions(Recorded) /\ UNCHANGED original
      /\ stage = "narrowing" /\ stage' = "fattening" /\ mode' = "fat"
  BY DEF RetryFat, Recorded
<1>2. Good(em) /\ Woven(Recorded) /\ Reached(Recorded)
  BY <1>1 DEF IInv, FlowInv
<1>3. PICK c : c = Recorded
  OBVIOUS
<1>4. PICK e : e = em'
  OBVIOUS
<1>5. PICK r : r = Recorded'
  OBVIOUS
<1>6. DOMAIN c = DOMAIN NewEmitter /\ DOMAIN e = DOMAIN NewEmitter
  <2>1. DOMAIN em = DOMAIN NewEmitter
    BY <1>2, GoodFacts
  <2>2. DOMAIN c = DOMAIN NewEmitter
    BY <1>3, <2>1 DEF Recorded
  <2> QED
    BY <1>1, <1>3, <1>4, <2>2 DEF CheckPreconditions
<1>7. /\ e.instructions = c.instructions /\ e.labels = c.labels
      /\ e.frames = c.frames /\ e.fatFrames = c.fatFrames
  BY <1>1, <1>3, <1>4, <1>6 DEF CheckPreconditions, NewEmitter
<1>8. /\ r.instructions = c.instructions /\ r.labels = c.labels
      /\ r.frames = c.frames /\ r.fatFrames = c.fatFrames
  <2>1. c.instructions = original.instructions /\ c.labels = original.labels
    BY <1>2, <1>3, RecordedIs
  <2>2. r = [e EXCEPT !.instructions = original.instructions, !.labels = original.labels]
    BY <1>1, <1>4, <1>5 DEF Recorded
  <2> QED
    BY <1>6, <1>7, <2>1, <2>2 DEF NewEmitter
<1>9. Woven(e) /\ Woven(r) /\ Reached(r)
  BY <1>2, <1>3, <1>7, <1>8, SameStream
<1>10. Kin(r, e) /\ SameFlow(r, e)
  <2>1. r.instructions = e.instructions /\ r.labels = e.labels
    BY <1>7, <1>8
  <2> QED
    BY <2>1, StreamKin
<1> QED
  BY <1>1, <1>4, <1>5, <1>9, <1>10 DEF FlowInv, Selected

(* So every step keeps the flow.                                           *)
LEMMA NextFlow ==
  ASSUME IInv, FlowInv, [Next]_vars
  PROVE  FlowInv'
<1>1. CASE Client
  BY <1>1, ClientFlow
<1>2. CASE Finish
  <2>1. IInv'
    BY NextInvariant
  <2> QED
    BY <1>2, <2>1, FinishFlow
<1>3. CASE Round
  BY <1>3, RoundFlow
<1>4. CASE RetryFat
  BY <1>4, RetryFlow
<1>5. ASSUME UNCHANGED <<em, mode, original>>
      PROVE  Recorded' = Recorded /\ Overflow' = Overflow
  BY <1>5 DEF Recorded, Overflow
<1>6. CASE SelectNarrow
  BY <1>5, <1>6 DEF SelectNarrow, FlowInv, Selected
<1>7. CASE SelectFat
  BY <1>5, <1>7 DEF SelectFat, FlowInv, Selected
<1>8. CASE UNCHANGED vars
  <2>1. UNCHANGED <<em, mode, original, stage>>
    BY <1>8 DEF vars
  <2> QED
    BY <1>5, <2>1 DEF FlowInv, Selected
<1> QED
  BY <1>1, <1>2, <1>3, <1>4, <1>6, <1>7, <1>8 DEF Next, Finalize

(* Both invariants hold of every run.                                      *)
LEMMA BothHold == Spec => [](IInv /\ FlowInv)
<1>1. Init => IInv /\ FlowInv
  BY InitInvariant, InitFlow
<1>2. IInv /\ FlowInv /\ [Next]_vars => (IInv /\ FlowInv)'
  BY NextInvariant, NextFlow
<1> QED
  BY <1>1, <1>2, PTL DEF Spec

-----------------------------------------------------------------------------
(* The encoded method. *)

Modes == {"narrow", "fat"}

(* Wherever a branch of the selected stream is encoded to go, there is a   *)
(* live instruction with a frame.                                          *)
LEMMA EncodedTargets ==
  ASSUME NEW e, Woven(e), NEW m \in Modes, NEW b \in Branches(e)
  PROVE  LET t == BranchTarget(e, At(e, b).arg, m)
         IN t \in 1..Count(e) /\ Live(e, t) /\ Framed(e, t)
<1> DEFINE t == BranchTarget(e, At(e, b).arg, m)
<1>1. t = Target(e, b) \/ t = ThreadFrom(e, Target(e, b))
  BY DEF BranchTarget, ThreadTarget, LabelPosition, Target
<1>2. PICK c \in Branches(e) : t = Target(e, c)
  BY <1>1, ThreadsToTarget
<1>3. c \in 1..Count(e) /\ Count(e) \in Nat
  BY WovenForward DEF Branches
<1>4. t \in (c + 1)..Count(e) /\ Live(e, t) /\ Framed(e, t)
  <2> HIDE DEF t
  <2> QED
    BY <1>2 DEF Woven
<1>5. t \in 1..Count(e)
  <2> HIDE DEF t
  <2> QED
    BY <1>3, <1>4
<1> QED
  BY <1>4, <1>5

(* What is deleted has no bytes.                                           *)
LEMMA DeadHasNoBytes ==
  ASSUME NEW e, e.instructions \in Seq(Entry), NEW m,
         NEW p \in Positions(e), NEW q \in p..End(e), \A r \in p..(q - 1) : ~ Live(e, r)
  PROVE  Layout(e, m)[p] = Layout(e, m)[q]
<1> DEFINE pcs == Layout(e, m)
           n == Count(e)
           G == {k \in Nat : p + k <= q => pcs[p] = pcs[p + k]}
<1>1. n \in Nat /\ End(e) = n + 1 /\ p \in 1..(n + 1) /\ q \in p..(n + 1)
  BY EndType
<1>2. \A i \in 1..n : pcs[i] \in Nat /\ pcs[i + 1] = pcs[i] + Size(e, m, i)
  BY LayoutSteps
<1>3. 0 \in G
  <2>1. p + 0 = p
    BY <1>1
  <2> QED
    BY <2>1
<1>4. ASSUME NEW k \in 1..(n + 1), k - 1 \in G
      PROVE  k \in G
  <2> HIDE DEF pcs, n
  <2> SUFFICES ASSUME p + k <= q
               PROVE  pcs[p] = pcs[p + k]
    BY <1>1
  <2> DEFINE r == p + (k - 1)
  <2>1. r \in p..(q - 1) /\ r \in 1..n /\ r + 1 = p + k /\ p + (k - 1) <= q
    BY <1>1
  <2>2. pcs[p] = pcs[r]
    BY <1>4, <2>1
  <2> HIDE DEF r
  <2>3. Size(e, m, r) = 0
    BY <2>1 DEF Size
  <2>4. pcs[r + 1] = pcs[r] + 0 /\ pcs[r] \in Nat
    BY <1>2, <2>1, <2>3
  <2> QED
    BY <2>1, <2>2, <2>4
<1>5. q - p \in 0..(n + 1) /\ p + (q - p) = q
  BY <1>1
<1>6. q - p \in G
  <2> HIDE DEF G, n
  <2>1. n + 1 \in Nat
    BY <1>1
  <2> QED
    BY <2>1, <1>3, <1>4, <1>5, IndexInduction
<1> QED
  BY <1>5, <1>6

(* So what follows an instruction in memory is the next one that is live.  *)
LEMMA NextPc ==
  ASSUME NEW e, Woven(e), NEW m, NEW p \in 1..Count(e)
  PROVE  \/ p = Count(e) /\ Layout(e, m)[p + 1] = Layout(e, m)[End(e)]
         \/ \E q \in 1..Count(e) : Live(e, q) /\ Layout(e, m)[p + 1] = Layout(e, m)[q]
<1> DEFINE n == Count(e)
           q == NextLive(e, p + 1)
<1>1. /\ e.instructions \in Seq(Entry) /\ n \in Nat \ {0} /\ End(e) = n + 1
      /\ Positions(e) = 1..(n + 1) /\ Live(e, n)
  BY WovenForward
<1>2. p \in 1..n /\ p + 1 \in Positions(e)
  BY <1>1
<1>3. IsNext(e, p + 1, q)
  BY <1>1, <1>2, NextIs
<1>4. Layout(e, m)[p + 1] = Layout(e, m)[q]
  <2> HIDE DEF n, q
  <2> QED
    BY <1>1, <1>2, <1>3, DeadHasNoBytes DEF IsNext
<1>5. CASE p # n
  <2> HIDE DEF n, q
  <2>1. q # n + 1
    <3> SUFFICES ASSUME q = n + 1 PROVE FALSE
      OBVIOUS
    <3>1. n \in (p + 1)..(q - 1)
      BY <1>1, <1>2, <1>5
    <3> QED
      BY <1>1, <1>3, <3>1 DEF IsNext
  <2>2. q \in 1..n /\ Live(e, q)
    BY <1>1, <1>2, <1>3, <2>1 DEF IsNext
  <2> QED
    BY <1>4, <2>2 DEF n
<1>6. CASE p = n
  BY <1>1, <1>6
<1> QED
  BY <1>5, <1>6

(* A branch that the fat form writes as an inverted test over a goto_w.    *)
Widened(e, m, p) == m = "fat" /\ IsCondBranch(At(e, p))

(* What encode writes for a live instruction.                              *)
Piece(e, m, p) == EncodeOne(e, Layout(e, m), m, p)

(* It depends on the kind of instruction.                                  *)
LEMMA PieceIs ==
  ASSUME NEW e, Woven(e), NEW m \in Modes, NEW p \in 1..Count(e)
  PROVE  LET pcs == Layout(e, m)
             i == At(e, p)
             target == pcs[BranchTarget(e, i.arg, m)]
         IN /\ ~ IsBranch(i) =>
                 /\ ~ Widened(e, m, p)
                 /\ Piece(e, m, p) = { <<pcs[p], Physical(i.op, i.arg, pcs[p + 1])>> }
            /\ IsBranch(i) /\ ~ Widened(e, m, p) =>
                 Piece(e, m, p) = { <<pcs[p], Physical(i.op, target, pcs[p + 1])>> }
            /\ Widened(e, m, p) =>
                 Piece(e, m, p) =
                   { <<pcs[p], Physical(NegateConditional[i.op], pcs[p] + 8, pcs[p] + 3)>>,
                     <<pcs[p] + 3, Physical("goto", target, pcs[p + 1])>> }
<1> DEFINE pcs == Layout(e, m)
           i == At(e, p)
           target == pcs[BranchTarget(e, i.arg, m)]
           pc == pcs[p]
           next == pcs[p + 1]
           piece == Piece(e, m, p)
<1>1. i \in Instruction
  BY WovenForward
<1>2. /\ IsCondBranch(i) => IsBranch(i) /\ ~ IsGoto(i)
      /\ IsBranch(i) /\ ~ IsCondBranch(i) => IsGoto(i)
  BY <1>1 DEF BranchOps, CondBranches, ZeroBranches, CompareBranches,
              IsCondBranch, IsBranch, IsGoto
<1>3. m = "narrow" \/ m = "fat"
  BY DEF Modes
<1>4. piece = IF ~ IsBranch(i) THEN { <<pc, Physical(i.op, i.arg, next)>> }
              ELSE IF m = "narrow" \/ IsGoto(i)
                   THEN { <<pc, Physical(i.op, target, next)>> }
                   ELSE { <<pc, Physical(NegateConditional[i.op], pc + 8, pc + 3)>>,
                          <<pc + 3, Physical("goto", target, next)>> }
  BY DEF Piece, EncodeOne
<1>5. Widened(e, m, p) <=> m = "fat" /\ IsCondBranch(i)
  BY DEF Widened
<1> HIDE DEF piece, i, pc, next, target, pcs
<1>6. CASE ~ IsBranch(i)
  BY <1>2, <1>4, <1>5, <1>6 DEF piece, i, pc, next, target, pcs
<1>7. CASE IsBranch(i) /\ ~ Widened(e, m, p)
  BY <1>2, <1>3, <1>4, <1>5, <1>7 DEF piece, i, pc, next, target, pcs
<1>8. CASE Widened(e, m, p)
  <2>1. m # "narrow" /\ IsBranch(i) /\ ~ IsGoto(i)
    BY <1>2, <1>5, <1>8
  <2>2. piece = { <<pc, Physical(NegateConditional[i.op], pc + 8, pc + 3)>>,
                  <<pc + 3, Physical("goto", target, next)>> }
    BY <1>4, <2>1
  <2> QED
    BY <1>8, <2>1, <2>2 DEF piece, i, pc, next, target, pcs
<1> QED
  BY <1>6, <1>7, <1>8

(* Each pc of the code was written for a live instruction, and the pcs of  *)
(* the live ones are among them.                                           *)
LEMMA WrittenBy ==
  ASSUME NEW e, Woven(e), NEW m \in Modes
  PROVE  LET code == Encode(e, Layout(e, m), m)
         IN /\ \A pc \in DOMAIN code : \E p \in 1..Count(e) :
                 Live(e, p) /\ <<pc, code[pc]>> \in Piece(e, m, p)
            /\ \A p \in 1..Count(e) : Live(e, p) =>
                 /\ Layout(e, m)[p] \in DOMAIN code
                 /\ Widened(e, m, p) => Layout(e, m)[p] + 3 \in DOMAIN code
<1> DEFINE pcs == Layout(e, m)
           n == Count(e)
           kept == {p \in 1..n : Live(e, p)}
           written == UNION {Piece(e, m, p) : p \in kept}
           code == Encode(e, pcs, m)
<1>1. code = [pc \in {w[1] : w \in written} |-> (CHOOSE w \in written : w[1] = pc)[2]]
  BY DEF Encode, Piece
<1>2. \A w \in written : \E p \in kept : w \in Piece(e, m, p)
  OBVIOUS
<1>3. ASSUME NEW p \in kept
      PROVE  /\ \A w \in Piece(e, m, p) : w = <<w[1], w[2]>>
             /\ Piece(e, m, p) \subseteq written
             /\ \E w \in Piece(e, m, p) : w[1] = pcs[p]
             /\ Widened(e, m, p) => \E w \in Piece(e, m, p) : w[1] = pcs[p] + 3
  <2> DEFINE i == At(e, p)
             target == pcs[BranchTarget(e, i.arg, m)]
             piece == Piece(e, m, p)
  <2>1. piece \subseteq written
    OBVIOUS
  <2>2. \/ ~ Widened(e, m, p) /\ \E x : piece = { <<pcs[p], x>> }
        \/ \E x, y : piece = { <<pcs[p], x>>, <<pcs[p] + 3, y>> }
    <3> DEFINE x == Physical(i.op, i.arg, pcs[p + 1])
               y == Physical(i.op, target, pcs[p + 1])
               test == Physical(NegateConditional[i.op], pcs[p] + 8, pcs[p] + 3)
               jump == Physical("goto", target, pcs[p + 1])
    <3>1. p \in 1..Count(e)
      OBVIOUS
    <3>2. /\ ~ IsBranch(i) => ~ Widened(e, m, p) /\ piece = { <<pcs[p], x>> }
          /\ IsBranch(i) /\ ~ Widened(e, m, p) => piece = { <<pcs[p], y>> }
          /\ Widened(e, m, p) => piece = { <<pcs[p], test>>, <<pcs[p] + 3, jump>> }
      BY <3>1, PieceIs
    <3> HIDE DEF i, target, piece, pcs, x, y, test, jump
    <3> QED
      BY <3>2
  <2> HIDE DEF piece, pcs, written
  <2>3. CASE ~ Widened(e, m, p) /\ \E x : piece = { <<pcs[p], x>> }
    <3>1. PICK x : piece = { <<pcs[p], x>> }
      BY <2>3
    <3> QED
      BY <2>1, <2>3, <3>1 DEF piece
  <2>4. CASE \E x, y : piece = { <<pcs[p], x>>, <<pcs[p] + 3, y>> }
    <3>1. PICK x, y : piece = { <<pcs[p], x>>, <<pcs[p] + 3, y>> }
      BY <2>4
    <3> QED
      BY <2>1, <3>1 DEF piece
  <2> QED
    BY <2>2, <2>3, <2>4
<1> HIDE DEF kept, written, code, pcs
<1>4. ASSUME NEW pc \in DOMAIN code
      PROVE  \E p \in 1..n : Live(e, p) /\ <<pc, code[pc]>> \in Piece(e, m, p)
  <2> DEFINE v == CHOOSE w \in written : w[1] = pc
  <2>1. \E w \in written : w[1] = pc
    BY <1>1
  <2>2. v \in written /\ v[1] = pc
    BY <2>1
  <2>3. code[pc] = v[2]
    BY <1>1
  <2> HIDE DEF v
  <2>4. PICK p \in kept : v \in Piece(e, m, p)
    BY <1>2, <2>2
  <2>5. <<pc, code[pc]>> \in Piece(e, m, p)
    BY <1>3, <2>2, <2>3, <2>4
  <2> QED
    BY <2>4, <2>5 DEF kept
<1>5. ASSUME NEW p \in 1..n, Live(e, p)
      PROVE  /\ pcs[p] \in DOMAIN code
             /\ Widened(e, m, p) => pcs[p] + 3 \in DOMAIN code
  <2>1. p \in kept
    BY <1>5 DEF kept
  <2>2. DOMAIN code = {w[1] : w \in written}
    BY <1>1
  <2> QED
    BY <1>3, <2>1, <2>2
<1> QED
  BY <1>4, <1>5 DEF code, pcs

(* Both sequences are in their concatenation.                              *)
LEMMA Concatenated ==
  ASSUME NEW S, NEW s \in Seq(S), NEW t \in Seq(S)
  PROVE  /\ \A k \in DOMAIN s : k \in DOMAIN (s \o t) /\ (s \o t)[k] = s[k]
         /\ \A k \in DOMAIN t :
              Len(s) + k \in DOMAIN (s \o t) /\ (s \o t)[Len(s) + k] = t[k]
<1>1. /\ DOMAIN s = 1..Len(s) /\ DOMAIN t = 1..Len(t) /\ Len(s) \in Nat /\ Len(t) \in Nat
      /\ DOMAIN (s \o t) = 1..(Len(s) + Len(t))
  OBVIOUS
<1>2. \A k \in 1..(Len(s) + Len(t)) :
        (s \o t)[k] = IF k <= Len(s) THEN s[k] ELSE t[k - Len(s)]
  OBVIOUS
<1> QED
  BY <1>1, <1>2

(* A frame is resolved wherever a branch lands, and behind a widened test. *)
LEMMA TargetsFramed ==
  ASSUME NEW e, Woven(e), NEW m \in Modes
  PROVE  LiveTargetPcs(e, Layout(e, m), m) \subseteq DOMAIN ResolveFrames(e, Layout(e, m), m)
<1> DEFINE pcs == Layout(e, m)
           asked == Requests(e, m)
           Resolved(pc) == \E f \in ToSet(asked) : pcs[f.position] = pc
           live == LiveTargetPcs(e, pcs, m)
<1>1. \A pc \in live : Resolved(pc) => pc \in DOMAIN ResolveFrames(e, pcs, m)
  BY DEF ResolveFrames
<1>2. /\ e.frames \in Seq(Requested) /\ e.fatFrames \in Seq(Requested)
      /\ \A p \in 1..Count(e) : IsCondBranch(At(e, p)) => FatFramed(e, p + 1)
  BY DEF Woven, Frames
<1>3. /\ \A k \in DOMAIN e.frames : /\ k \in DOMAIN (e.frames \o e.fatFrames)
                                      /\ (e.frames \o e.fatFrames)[k] = e.frames[k]
      /\ \A k \in DOMAIN e.fatFrames :
           /\ Len(e.frames) + k \in DOMAIN (e.frames \o e.fatFrames)
           /\ (e.frames \o e.fatFrames)[Len(e.frames) + k] = e.fatFrames[k]
  <2> DEFINE s == e.frames
             t == e.fatFrames
  <2>1. s \in Seq(Requested) /\ t \in Seq(Requested)
    BY <1>2
  <2> HIDE DEF s, t
  <2>2. /\ \A k \in DOMAIN s : k \in DOMAIN (s \o t) /\ (s \o t)[k] = s[k]
        /\ \A k \in DOMAIN t :
             Len(s) + k \in DOMAIN (s \o t) /\ (s \o t)[Len(s) + k] = t[k]
    BY <2>1, Concatenated
  <2> QED
    BY <2>2 DEF s, t
<1>4. ASSUME NEW x, Framed(e, x)
      PROVE  Resolved(pcs[x])
  <2>1. PICK k \in DOMAIN e.frames : e.frames[k].position = x
    BY <1>4 DEF Framed, Asked
  <2>2. k \in DOMAIN asked /\ asked[k] = e.frames[k]
    <3>1. asked = e.frames \/ asked = e.frames \o e.fatFrames
      BY DEF Requests
    <3> HIDE DEF asked
    <3> QED
      BY <1>3, <2>1, <3>1
  <2>3. asked[k] \in ToSet(asked)
    <3> HIDE DEF asked
    <3> QED
      BY <2>2 DEF ToSet
  <2> HIDE DEF pcs, asked
  <2> QED
    BY <2>1, <2>2, <2>3
<1>5. ASSUME NEW x, FatFramed(e, x), m = "fat"
      PROVE  Resolved(pcs[x])
  <2>1. PICK k \in DOMAIN e.fatFrames : e.fatFrames[k].position = x
    BY <1>5 DEF FatFramed, Asked
  <2>2. asked = e.frames \o e.fatFrames
    BY <1>5 DEF Requests
  <2> HIDE DEF asked
  <2>3. Len(e.frames) + k \in DOMAIN asked /\ asked[Len(e.frames) + k] = e.fatFrames[k]
    BY <1>3, <2>1, <2>2
  <2>4. asked[Len(e.frames) + k] \in ToSet(asked)
    BY <2>3 DEF ToSet
  <2> HIDE DEF pcs
  <2> QED
    BY <2>1, <2>3, <2>4
<1>6. ASSUME NEW pc \in live
      PROVE  Resolved(pc)
  <2>1. \/ \E p \in LiveBranches(e) : pc = pcs[BranchTarget(e, At(e, p).arg, m)]
        \/ \E p \in LiveBranches(e) : pc = pcs[p + 1] /\ m = "fat" /\ IsCondBranch(At(e, p))
    <3> HIDE DEF pcs
    <3> QED
      BY <1>6 DEF live, LiveTargetPcs
  <2> HIDE DEF pcs, Resolved, live
  <2>2. CASE \E p \in LiveBranches(e) : pc = pcs[BranchTarget(e, At(e, p).arg, m)]
    <3>1. PICK p \in LiveBranches(e) : pc = pcs[BranchTarget(e, At(e, p).arg, m)]
      BY <2>2
    <3>2. p \in Branches(e)
      BY <3>1 DEF LiveBranches, Branches
    <3>3. Framed(e, BranchTarget(e, At(e, p).arg, m))
      BY <3>2, EncodedTargets
    <3> QED
      BY <1>4, <3>1, <3>3
  <2>3. CASE \E p \in LiveBranches(e) :
               pc = pcs[p + 1] /\ m = "fat" /\ IsCondBranch(At(e, p))
    <3>1. PICK p \in LiveBranches(e) : pc = pcs[p + 1] /\ m = "fat" /\ IsCondBranch(At(e, p))
      BY <2>3
    <3>2. FatFramed(e, p + 1)
      BY <1>2, <3>1 DEF LiveBranches
    <3> QED
      BY <1>5, <3>1, <3>2
  <2> QED
    BY <2>1, <2>2, <2>3
<1> QED
  <2> HIDE DEF pcs, Resolved, live
  <2>1. live \subseteq DOMAIN ResolveFrames(e, pcs, m)
    BY <1>1, <1>6
  <2> QED
    BY <2>1 DEF live, pcs

(* What JumpsLand says of an encoded method.                               *)
Lands(e, m) ==
  LET pcs == Layout(e, m)
      code == Encode(e, pcs, m)
  IN /\ LiveTargetPcs(e, pcs, m) \subseteq DOMAIN ResolveFrames(e, pcs, m)
     /\ \A pc \in DOMAIN code :
          /\ code[pc].next \in DOMAIN code \cup {pcs[End(e)]}
          /\ code[pc].op \in BranchOps =>
               /\ code[pc].arg \in DOMAIN code
               /\ m = "narrow" => code[pc].arg - pc \in -(MaxOffset + 1)..MaxOffset

(* The selected method lands: what a branch leads to is live, so it is     *)
(* encoded; a widened test is eight bytes long and never the last.         *)
LEMMA EncodedLands ==
  ASSUME NEW e, Woven(e), NEW m \in Modes,
         m = "narrow" => ~ NarrowBranchOverflows(e, Layout(e, "narrow"))
  PROVE  Lands(e, m)
<1> DEFINE pcs == Layout(e, m)
           code == Encode(e, pcs, m)
           n == Count(e)
           to(p) == BranchTarget(e, At(e, p).arg, m)
<1>1. /\ e.instructions \in Seq(Entry) /\ n \in Nat \ {0}
      /\ \A p \in 1..n : At(e, p) \in Instruction
      /\ IsReturn(At(e, n))
  BY WovenForward DEF Woven
<1>2. \A p \in 1..n : pcs[p] \in Nat /\ pcs[p + 1] = pcs[p] + Size(e, m, p)
  BY <1>1, LayoutSteps
<1>3. /\ \A pc \in DOMAIN code : \E p \in 1..n :
           Live(e, p) /\ <<pc, code[pc]>> \in Piece(e, m, p)
      /\ \A p \in 1..n : Live(e, p) =>
           /\ pcs[p] \in DOMAIN code
           /\ Widened(e, m, p) => pcs[p] + 3 \in DOMAIN code
  BY WrittenBy
<1>4. ASSUME NEW p \in 1..n
      PROVE  /\ pcs[p + 1] \in DOMAIN code \cup {pcs[End(e)]}
             /\ p # n => pcs[p + 1] \in DOMAIN code
  <2>1. \/ p = n /\ pcs[p + 1] = pcs[End(e)]
        \/ \E q \in 1..n : Live(e, q) /\ pcs[p + 1] = pcs[q]
    BY NextPc
  <2> HIDE DEF code, pcs, n
  <2> QED
    BY <1>3, <2>1
<1>5. ASSUME NEW p \in 1..n, Live(e, p), IsBranch(At(e, p))
      PROVE  /\ pcs[to(p)] \in DOMAIN code
             /\ m = "narrow" => pcs[to(p)] - pcs[p] \in -(MaxOffset + 1)..MaxOffset
  <2>1. p \in Branches(e) /\ p \in LiveBranches(e)
    BY <1>5 DEF Branches, LiveBranches
  <2>2. to(p) \in 1..n /\ Live(e, to(p))
    BY <2>1, EncodedTargets
  <2>3. pcs[to(p)] \in DOMAIN code
    <3> HIDE DEF code, pcs, n, to
    <3> QED
      BY <1>3, <2>2
  <2>4. ASSUME m = "narrow"
        PROVE  pcs[to(p)] - pcs[p] \in -(MaxOffset + 1)..MaxOffset
    <3> DEFINE offset == pcs[to(p)] - pcs[p]
    <3>1. ~ (offset > MaxOffset \/ offset < -(MaxOffset + 1))
      BY <2>1, <2>4 DEF NarrowBranchOverflows
    <3>2. pcs[to(p)] \in Nat /\ pcs[p] \in Nat
      <4> HIDE DEF pcs, n, to
      <4> QED
        BY <1>2, <2>2
    <3>3. offset \in Int /\ MaxOffset \in Nat
      <4> HIDE DEF pcs, to
      <4> QED
        BY <3>2, LimitsAssumption
    <3> HIDE DEF offset
    <3>4. offset \in -(MaxOffset + 1)..MaxOffset
      BY <3>1, <3>3
    <3> QED
      BY <3>4 DEF offset
  <2> QED
    BY <2>3, <2>4
<1>6. ASSUME NEW p \in 1..n, Live(e, p), Widened(e, m, p)
      PROVE  pcs[p] + 8 \in DOMAIN code /\ pcs[p] + 3 \in DOMAIN code /\ m = "fat"
             /\ IsBranch(At(e, p))
  <2>1. /\ m = "fat" /\ IsCondBranch(At(e, p)) /\ ~ IsGoto(At(e, p)) /\ IsBranch(At(e, p))
        /\ ~ IsReturn(At(e, p))
    BY <1>6 DEF Widened, IsCondBranch, IsGoto, IsBranch, IsReturn, BranchOps, CondBranches,
                ZeroBranches, CompareBranches
  <2>2. Size(e, m, p) = 8
    BY <1>6, <2>1 DEF Size, EncodedLen
  <2>3. p # n
    BY <1>1, <2>1
  <2> HIDE DEF code, pcs, n
  <2>4. pcs[p] + 8 = pcs[p + 1]
    BY <1>2, <2>2
  <2> QED
    BY <1>3, <1>4, <1>6, <2>1, <2>3, <2>4
<1>7. ASSUME NEW pc \in DOMAIN code
      PROVE  /\ code[pc].next \in DOMAIN code \cup {pcs[End(e)]}
             /\ code[pc].op \in BranchOps =>
                  /\ code[pc].arg \in DOMAIN code
                  /\ m = "narrow" => code[pc].arg - pc \in -(MaxOffset + 1)..MaxOffset
  <2>1. PICK p \in 1..n :
          Live(e, p) /\ <<pc, code[pc]>> \in Piece(e, m, p)
    BY <1>3, <1>7
  <2> DEFINE i == At(e, p)
  <2>2. /\ ~ IsBranch(i) =>
             /\ ~ Widened(e, m, p)
             /\ Piece(e, m, p) = { <<pcs[p], Physical(i.op, i.arg, pcs[p + 1])>> }
        /\ IsBranch(i) /\ ~ Widened(e, m, p) =>
             Piece(e, m, p) = { <<pcs[p], Physical(i.op, pcs[to(p)], pcs[p + 1])>> }
        /\ Widened(e, m, p) =>
             Piece(e, m, p) =
               { <<pcs[p], Physical(NegateConditional[i.op], pcs[p] + 8, pcs[p] + 3)>>,
                 <<pcs[p] + 3, Physical("goto", pcs[to(p)], pcs[p + 1])>> }
    BY PieceIs
  <2>3. pcs[p + 1] \in DOMAIN code \cup {pcs[End(e)]}
    BY <1>4
  <2>4. \A op, arg, next :
          /\ Physical(op, arg, next).op = op /\ Physical(op, arg, next).arg = arg
          /\ Physical(op, arg, next).next = next
    BY DEF Physical
  <2> HIDE DEF code, pcs, n, to, i
  <2>5. CASE ~ IsBranch(i)
    <3>1. code[pc] = Physical(i.op, i.arg, pcs[p + 1])
      BY <2>1, <2>2, <2>5
    <3>2. i.op \notin BranchOps
      BY <2>5 DEF IsBranch
    <3> QED
      BY <2>3, <2>4, <3>1, <3>2
  <2>6. CASE IsBranch(i) /\ ~ Widened(e, m, p)
    <3>1. pc = pcs[p] /\ code[pc] = Physical(i.op, pcs[to(p)], pcs[p + 1])
      BY <2>1, <2>2, <2>6
    <3>2. /\ pcs[to(p)] \in DOMAIN code
          /\ m = "narrow" => pcs[to(p)] - pcs[p] \in -(MaxOffset + 1)..MaxOffset
      BY <1>5, <2>1, <2>6 DEF i
    <3> QED
      BY <2>3, <2>4, <3>1, <3>2
  <2>7. CASE Widened(e, m, p)
    <3>1. pcs[p] + 8 \in DOMAIN code /\ pcs[p] + 3 \in DOMAIN code /\ m = "fat" /\ IsBranch(i)
      BY <1>6, <2>1, <2>7 DEF i
    <3>2. m # "narrow"
      BY <3>1
    <3>3. pcs[to(p)] \in DOMAIN code
      BY <1>5, <2>1, <3>1 DEF i
    <3>4. \/ code[pc] = Physical(NegateConditional[i.op], pcs[p] + 8, pcs[p] + 3)
          \/ code[pc] = Physical("goto", pcs[to(p)], pcs[p + 1])
      BY <2>1, <2>2, <2>7
    <3> QED
      BY <2>3, <2>4, <3>1, <3>2, <3>3, <3>4
  <2> QED
    BY <2>5, <2>6, <2>7
<1>8. LiveTargetPcs(e, pcs, m) \subseteq DOMAIN ResolveFrames(e, pcs, m)
  BY TargetsFramed
<1> QED
  BY <1>7, <1>8 DEF Lands

-----------------------------------------------------------------------------
(* The theorems. *)

(* The invariant of the emitter holds throughout.                          *)
LEMMA Invariant == Spec => []IInv
BY InitInvariant, NextInvariant, PTL DEF Spec

(* The emitter keeps its shape through recording, compaction and retry.    *)
THEOREM TypeCorrect == Spec => []TypeOK
<1>1. IInv => TypeOK
  BY DEF IInv
<1> QED
  BY <1>1, Invariant, PTL

(* max_stack, which becomes the max_stack of the Code attribute, is never  *)
(* below the depth emit accounts for, for every order of recording.        *)
THEOREM StackIsCovered == Spec => []StackCovered
<1>1. IInv => StackCovered
  BY DEF IInv, Good, StackCovered
<1> QED
  BY <1>1, Invariant, PTL

(* The line events emit leaves behind are strictly increasing in position  *)
(* and change line each time, in every state including after compaction.   *)
THEOREM LinesAreOrdered == Spec => []LineEventsOrdered
<1>1. IInv => LineEventsOrdered
  BY DEF IInv, Good, LineEventsOrdered
<1> QED
  BY <1>1, Invariant, PTL

(* compact_gotos tombstones gotos only, in either mode, whatever the       *)
(* labels and however many rounds it takes.                                *)
THEOREM GotosOnly == Spec => []OnlyGotosDeleted
<1>1. IInv => OnlyGotosDeleted
  BY DEF IInv, Good, OnlyGotosDeleted
<1> QED
  BY <1>1, Invariant, PTL

(* After every round of either attempt the label of each live branch is    *)
(* ahead of it, at a live instruction with a frame, although rounds move   *)
(* labels and leave the frame requests where they are (compact_gotos,      *)
(* label_position).                                                        *)
THEOREM BranchesArePlaced == Spec => []BranchesPlaced
<1>1. FlowInv => BranchesPlaced
  <2> SUFFICES ASSUME FlowInv, stage # "recording", NEW p \in LiveBranches(em)
               PROVE  /\ At(em, p).arg \in 1..Len(em.labels)
                      /\ LET target == LabelPosition(em, At(em, p).arg)
                         IN /\ target \in (p + 1)..Count(em) /\ Live(em, target)
                            /\ \E f \in ToSet(em.frames) : f.position = target
    BY DEF BranchesPlaced
  <2>1. Woven(em) /\ p \in Branches(em)
    BY DEF FlowInv, LiveBranches, Branches
  <2>2. /\ At(em, p).arg \in 1..Len(em.labels)
        /\ Target(em, p) \in (p + 1)..Count(em)
        /\ Live(em, Target(em, p)) /\ Framed(em, Target(em, p))
    BY <2>1 DEF Woven
  <2>3. \E f \in ToSet(em.frames) : f.position = Target(em, p)
    BY <2>2 DEF Framed, Asked, ToSet
  <2> QED
    BY <2>2, <2>3 DEF LabelPosition, Target
<1> QED
  BY <1>1, BothHold, PTL

(* The rows the finished method writes go forward through its code, no two *)
(* at one pc and no two neighbours of one line, whatever compaction has    *)
(* deleted and in either branch mode (resolve_lines).                      *)
THEOREM RowsAreOrdered == Spec => []RowsOrdered
<1>1. IInv => RowsOrdered
  BY LineTable DEF IInv, Good, RowsOrdered, Increasing
<1> QED
  BY <1>1, Invariant, PTL

(* Goto compaction, round by round and again in fat mode, changes no       *)
(* control flow: after it each instruction is followed by the same ones as *)
(* in the recorded stream (compact_gotos, thread_from_position).           *)
THEOREM FlowIsKept == Spec => []ControlKept
<1>1. FlowInv => ControlKept
  BY DEF FlowInv, ControlKept, Selected
<1> QED
  BY <1>1, BothHold, PTL

(* Every branch of a finished method lands on the first byte of an         *)
(* instruction that has a frame, within its reach, and the code is one run *)
(* of instructions, in either branch form.                                 *)
THEOREM BranchesLand == Spec => []JumpsLand
<1>1. IInv /\ FlowInv => JumpsLand
  <2> SUFFICES ASSUME IInv, FlowInv, Selected
               PROVE  Lands(em, mode)
    BY DEF JumpsLand, Lands
  <2>1. Woven(em) /\ (mode = "narrow" => ~ NarrowBranchOverflows(em, Layout(em, "narrow")))
    BY DEF FlowInv, Selected, Overflow
  <2>2. mode \in Modes
    BY DEF IInv, TypeOK, Modes
  <2> QED
    BY <2>1, <2>2, EncodedLands
<1> QED
  BY <1>1, BothHold, PTL

=============================================================================
