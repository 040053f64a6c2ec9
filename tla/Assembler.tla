----------------------------- MODULE Assembler -----------------------------
(***************************************************************************)
(* codegen/instruction.rs and codegen/assembler.rs: the instructions       *)
(* lowering emits for the modelled part of Java, the symbolic method under *)
(* construction, and the finalization that turns it into code bytes, line  *)
(* numbers and stack frames.                                               *)
(*                                                                         *)
(* An instruction is a record [op, arg]; arg is the label of a branch, the *)
(* local slot of a load or store, the argument words of an invocation and  *)
(* 0 elsewhere.  An emitter is a record; every operator returns the new    *)
(* one.                                                                    *)
(*                                                                         *)
(* Positions are instruction boundaries: position p is the boundary before *)
(* instruction p, so Len(instructions) + 1 is the end of the method.       *)
(* A failed assert of the code (it panics in every build) is recorded in   *)
(* the field panics, a failed debug_assert (compiled out of the release    *)
(* build) in the field asserts.                                            *)
(***************************************************************************)
EXTENDS Integers, Sequences, SequencesExt

CONSTANTS
  MaxOffset,   \* the largest narrow branch offset (32767 for an i16)
  CodeLimit    \* the largest code length of a method (65535)

ASSUME LimitsAssumption == MaxOffset \in Nat /\ CodeLimit \in Nat

-----------------------------------------------------------------------------
(* Instructions: how many stack words each pops and pushes, how many bytes *)
(* it occupies and where it branches.                                      *)

ZeroBranches == {"ifeq", "ifne"}
CompareBranches == {"if_icmpeq", "if_icmpne"}
CondBranches == ZeroBranches \cup CompareBranches
BranchOps == CondBranches \cup {"goto"}

SlotOps == {"iload", "istore", "lstore", "aload"}

ConstOps == {"iconst_0", "iconst_1", "lconst_0"}
BoolOps == {"iand", "ior", "ixor"}

Ops == BranchOps \cup SlotOps \cup ConstOps \cup BoolOps
         \cup {"ldc", "getstatic", "invokevirtual", "return"}

Instr(op, arg) == [op |-> op, arg |-> arg]
Simple(op) == Instr(op, 0)

Instruction == [op : Ops, arg : Nat]

IsGoto(i) == i.op = "goto"
IsCondBranch(i) == i.op \in CondBranches
IsBranch(i) == i.op \in BranchOps
IsReturn(i) == i.op = "return"

-----------------------------------------------------------------------------
(* Operand-stack effect in words; long values count as two. *)

(* Mutant of PopWords: a comparing branch pops one word, like a zero test. *)
PopWordsOneOperand(i) ==
  CASE i.op \in BoolOps \cup {"lstore"} -> 2
    [] i.op \in CondBranches \cup {"istore"} -> 1
    [] i.op = "invokevirtual" -> 1 + i.arg
    [] OTHER -> 0

PopWords(i) ==
  CASE i.op \in CompareBranches \cup BoolOps \cup {"lstore"} -> 2
    [] i.op \in ZeroBranches \cup {"istore"} -> 1
    [] i.op = "invokevirtual" -> 1 + i.arg
    [] OTHER -> 0

PushWords(i) ==
  CASE i.op = "lconst_0" -> 2
    [] i.op \in {"iconst_0", "iconst_1", "ldc", "iload", "aload", "getstatic"} \cup BoolOps -> 1
    [] OTHER -> 0

-----------------------------------------------------------------------------
(* Encoded length: local accesses are short through slot 3; the global fat *)
(* mode writes goto_w for goto and an inverted test over goto_w for a      *)
(* conditional branch.                                                     *)

NarrowLen(i) ==
  CASE i.op \in SlotOps -> IF i.arg <= 3 THEN 1 ELSE 2
    [] i.op = "ldc" -> 2
    [] i.op \in BranchOps \cup {"getstatic", "invokevirtual"} -> 3
    [] OTHER -> 1

EncodedLen(i, mode) ==
  CASE mode = "fat" /\ IsGoto(i) -> 5
    [] mode = "fat" /\ IsCondBranch(i) -> 8
    [] OTHER -> NarrowLen(i)

NegateConditional ==
  [ifeq |-> "ifne", ifne |-> "ifeq",
   if_icmpeq |-> "if_icmpne", if_icmpne |-> "if_icmpeq"]

-----------------------------------------------------------------------------
(* Emitters. *)

NoLine == 0      \* pending_line = None
Unplaced == 0    \* LabelBinding.position = None

NewEmitter ==
  [ instructions |-> <<>>, labels |-> <<>>, lineEvents |-> <<>>,
    frames |-> <<>>, fatFrames |-> <<>>, pendingLine |-> NoLine,
    atControlEntry |-> FALSE, maxStack |-> 0, cur |-> 0,
    panics |-> {}, asserts |-> {} ]

Count(em) == Len(em.instructions)
End(em) == Count(em) + 1
Positions(em) == 1..End(em)
Live(em, p) == p <= Count(em) /\ em.instructions[p].live
At(em, p) == em.instructions[p].ins

FlagIf(flags, failed, name) == IF failed THEN flags \cup {name} ELSE flags

-----------------------------------------------------------------------------
(* Recording.  emit is the single chokepoint: it consumes the pending line *)
(* and accounts for the operand stack.                                     *)

(* Mutants of Emit: a line equal to the last one gets an event too; the    *)
(* event lies one early.                                                   *)
EmitWith(em, i, repeat, anchor) ==
  LET event == em.pendingLine # NoLine
               /\ (em.lineEvents = <<>> \/ repeat \/ Last(em.lineEvents).line # em.pendingLine)
      cur == em.cur - PopWords(i) + PushWords(i)
  IN [em EXCEPT
        !.instructions = Append(@, [ins |-> i, live |-> TRUE]),
        !.lineEvents = IF event THEN Append(@, [at |-> anchor, line |-> em.pendingLine]) ELSE @,
        !.pendingLine = NoLine, !.atControlEntry = FALSE, !.cur = cur,
        !.maxStack = IF cur > @ THEN cur ELSE @]

EmitRepeatedLine(em, i) == EmitWith(em, i, TRUE, End(em))
EmitEarlyLine(em, i) == EmitWith(em, i, FALSE, Count(em))

Emit(em, i) ==
  LET event == /\ em.pendingLine # NoLine
               /\ \/ em.lineEvents = <<>>
                  \/ Last(em.lineEvents).line # em.pendingLine
      under == em.cur < PopWords(i)
      cur == (IF under THEN 0 ELSE em.cur - PopWords(i)) + PushWords(i)
  IN [em EXCEPT
        !.instructions = Append(@, [ins |-> i, live |-> TRUE]),
        !.lineEvents = IF event
                       THEN Append(@, [at |-> End(em), line |-> em.pendingLine])
                       ELSE @,
        !.pendingLine = NoLine,
        !.atControlEntry = FALSE,
        !.cur = cur,
        !.maxStack = IF cur > @ THEN cur ELSE @,
        !.panics = FlagIf(@, under, "operand-stack underflow")]

Request(position, locals, stack) ==
  [position |-> position, locals |-> locals, stack |-> stack]

(* A conditional branch also records the frame its fallthrough would need  *)
(* if the method ends up in fat mode.                                      *)
RequestFallthrough(em, position, locals) ==
  [em EXCEPT !.fatFrames = Append(@, Request(position, locals, <<>>)),
             !.asserts = FlagIf(@, em.cur # 0, "conditional branch leaves a non-empty stack")]

EmitBranch(em, op, label, locals) ==
  IF op = "goto" THEN Emit(em, Instr(op, label))
  ELSE RequestFallthrough(Emit(em, Instr(op, label)), End(em) + 1, locals)

NewLabel(em) == Len(em.labels) + 1
AddLabel(em) == [em EXCEPT !.labels = Append(@, Unplaced)]

PlaceLabel(em, label) ==
  [em EXCEPT !.labels[label] = End(em),
             !.asserts = FlagIf(@, em.labels[label] # Unplaced,
                                "branch label placed twice")]

RequestFrame(em, locals, stack) ==
  [em EXCEPT !.atControlEntry = TRUE,
             !.frames = Append(@, Request(End(em), locals, stack))]

RetargetBranches(em, from, to) ==
  LET retarget(entry) ==
        IF IsBranch(entry.ins) /\ entry.ins.arg = from
        THEN [entry EXCEPT !.ins.arg = to] ELSE entry
  IN [em EXCEPT !.instructions =
        [p \in 1..Count(em) |-> retarget(em.instructions[p])]]

ResetStack(em) == [em EXCEPT !.cur = 0]
(* Mutant of SetPendingLine: nothing is marked where control joins.        *)
SetPendingLineStraight(em, line) ==
  IF em.atControlEntry THEN em ELSE [em EXCEPT !.pendingLine = line]

SetPendingLine(em, line) == [em EXCEPT !.pendingLine = line]

-----------------------------------------------------------------------------
(* Goto threading. *)

NextLive(em, p) ==
  CHOOSE q \in p..End(em) :
    /\ q = End(em) \/ Live(em, q)
    /\ \A r \in p..(q - 1) : ~ Live(em, r)

LabelPosition(em, label) == em.labels[label]

(* At most one hop more than there are instructions, and none from a goto  *)
(* to itself.                                                              *)
ThreadFrom(em, start) ==
  LET jump(p) == NextLive(em, LabelPosition(em, At(em, p).arg))
      hop[left \in 0..End(em)] ==
        [p \in Positions(em) |->
           IF left = 0 \/ ~ Live(em, p) \/ ~ IsGoto(At(em, p)) \/ jump(p) = p
           THEN p
           ELSE hop[left - 1][jump(p)]]
  IN hop[End(em)][NextLive(em, start)]

ThreadTarget(em, label) == ThreadFrom(em, LabelPosition(em, label))

-----------------------------------------------------------------------------
(* Goto compaction: one round of the fixpoint loop. *)

Successors(em, p) ==
  LET i == At(em, p)
      after == NextLive(em, p + 1)
  IN CASE IsGoto(i) -> {ThreadTarget(em, i.arg)}
       [] IsCondBranch(i) -> {ThreadTarget(em, i.arg), after}
       [] IsReturn(i) -> {}
       [] OTHER -> {after}

Reachable(em) ==
  LET grow[S \in SUBSET Positions(em)] ==
        LET T == S \cup UNION {Successors(em, p) : p \in {q \in S : Live(em, q)}}
        IN IF T = S THEN S ELSE grow[T]
  IN {p \in grow[{NextLive(em, 1)}] : Live(em, p)}

LiveGotos(em) == {p \in 1..Count(em) : Live(em, p) /\ IsGoto(At(em, p))}

(* Mutants of DeadGotos: a conditional branch to the next instruction goes *)
(* too; gotos that were deleted before are found again.                    *)
DeadBranches(em, removeRedundant) ==
  {p \in 1..Count(em) :
     /\ Live(em, p) /\ IsBranch(At(em, p))
     /\ \/ p \notin Reachable(em)
        \/ removeRedundant /\ ThreadTarget(em, At(em, p).arg) = NextLive(em, p + 1)}

DeadGotosAgain(em, removeRedundant) ==
  {p \in 1..Count(em) :
     /\ IsGoto(At(em, p))
     /\ \/ p \notin Reachable(em)
        \/ removeRedundant /\ ThreadTarget(em, At(em, p).arg) = NextLive(em, p + 1)}

DeadGotos(em, removeRedundant) ==
  LET reachable == Reachable(em)
  IN {p \in LiveGotos(em) :
        \/ p \notin reachable
        \/ /\ removeRedundant
           /\ ThreadTarget(em, At(em, p).arg) = NextLive(em, p + 1)}

(* Mutant of Tombstone: labels are moved without being threaded first.     *)
TombstoneUnthreaded(em, dead) ==
  LET pruned == [em EXCEPT !.instructions =
                   [p \in 1..Count(em) |->
                      IF p \in dead THEN [@[p] EXCEPT !.live = FALSE] ELSE @[p]]]
  IN [pruned EXCEPT !.labels =
        [l \in 1..Len(em.labels) |-> IF em.labels[l] = Unplaced THEN Unplaced
                                     ELSE NextLive(pruned, em.labels[l])]]

(* Mutant of Tombstone: labels stay where the instruction was.             *)
TombstoneStaleLabels(em, dead) ==
  [em EXCEPT !.instructions =
     [p \in 1..Count(em) |-> IF p \in dead THEN [@[p] EXCEPT !.live = FALSE] ELSE @[p]]]

(* Labels are threaded through the stream as it was before the round and   *)
(* then moved to the next instruction that is still live.                  *)
Tombstone(em, dead) ==
  LET threaded == [l \in 1..Len(em.labels) |->
                     IF em.labels[l] = Unplaced THEN Unplaced
                     ELSE ThreadFrom(em, em.labels[l])]
      pruned == [em EXCEPT !.instructions =
                   [p \in 1..Count(em) |->
                      IF p \in dead THEN [@[p] EXCEPT !.live = FALSE] ELSE @[p]]]
      framed == \E f \in ToSet(em.frames) : f.position \in dead
  IN [pruned EXCEPT
        !.labels = [l \in 1..Len(em.labels) |->
                      IF threaded[l] = Unplaced THEN Unplaced
                      ELSE NextLive(pruned, threaded[l])],
        !.asserts = FlagIf(@, framed, "frame at a deleted goto")]

CheckPreconditions(em) ==
  [em EXCEPT !.asserts = FlagIf(@,
     \E f \in ToSet(em.frames) : f.position <= Count(em) /\ IsGoto(At(em, f.position)),
     "frame requested at a goto")]

CompactRound(em, removeRedundant) == Tombstone(em, DeadGotos(em, removeRedundant))

(* Every round that is not the last deletes a goto.                        *)
CompactGotos(em, removeRedundant) ==
  LET round(e, k) == LET dead == DeadGotos(e, removeRedundant)
                     IN IF dead = {} THEN e ELSE Tombstone(e, dead)
  IN IF LiveGotos(em) = {} THEN em
     ELSE FoldLeft(round, CheckPreconditions(em),
                   [k \in 1..Cardinality(LiveGotos(em)) |-> k])

-----------------------------------------------------------------------------
(* Layout, branch-mode selection and metadata. *)

Layout(em, mode) ==
  LET pc[p \in Positions(em)] ==
        IF p = 1 THEN 0
        ELSE pc[p - 1] + (IF Live(em, p - 1)
                          THEN EncodedLen(At(em, p - 1), mode) ELSE 0)
  IN [p \in Positions(em) |-> pc[p]]

BranchTarget(em, label, mode) ==
  IF mode = "narrow" THEN ThreadTarget(em, label) ELSE LabelPosition(em, label)

LiveBranches(em) == {p \in 1..Count(em) : Live(em, p) /\ IsBranch(At(em, p))}

NarrowBranchOverflows(em, pcs) ==
  \E p \in LiveBranches(em) :
    LET offset == pcs[BranchTarget(em, At(em, p).arg, "narrow")] - pcs[p]
    IN offset > MaxOffset \/ offset < -(MaxOffset + 1)

(* Mutant of ResolveLines: a repeated line gets a row.                     *)
ResolveLinesRepeated(em, pcs) ==
  LET row(out, event) == IF ~ Live(em, event.at) THEN out
                         ELSE Append(out, <<pcs[event.at], event.line>>)
  IN FoldLeft(row, <<>>, em.lineEvents)

(* The line table as a sequence of <<pc, line>>: dead anchors are dropped  *)
(* and a line equal to the previous row's adds no row.                     *)
ResolveLines(em, pcs) ==
  LET row(out, event) ==
        IF \/ ~ Live(em, event.at)
           \/ out # <<>> /\ Last(out)[2] = event.line
        THEN out
        ELSE Append(out, <<pcs[event.at], event.line>>)
  IN FoldLeft(row, <<>>, em.lineEvents)

LiveTargetPcs(em, pcs, mode) ==
  {pcs[BranchTarget(em, At(em, p).arg, mode)] : p \in LiveBranches(em)}
    \cup {pcs[p + 1] : p \in {q \in LiveBranches(em) :
                                 mode = "fat" /\ IsCondBranch(At(em, q))}}

(* Mutant of Requests: the fallthrough frames of fat mode are left out.    *)
RequestsNarrow(em, mode) == em.frames

(* The stack-map frames as a function from offset to state.  The code      *)
(* sorts the requests by pc with a stable sort, drops those no live branch *)
(* targets and keeps the first of several at one pc.                       *)
Requests(em, mode) ==
  IF mode = "fat" THEN em.frames \o em.fatFrames ELSE em.frames

RequestsAt(requests, pcs, offset) ==
  {k \in DOMAIN requests : pcs[requests[k].position] = offset}

FrameState(f) == [locals |-> f.locals, stack |-> f.stack]

ResolveFrames(em, pcs, mode) ==
  LET requests == Requests(em, mode)
      offsets == {pcs[f.position] : f \in ToSet(requests)}
                   \cap LiveTargetPcs(em, pcs, mode)
      first(o) == CHOOSE k \in RequestsAt(requests, pcs, o) :
                    \A j \in RequestsAt(requests, pcs, o) : k <= j
  IN [o \in offsets |-> FrameState(requests[first(o)])]

ConflictingFrames(em, pcs, mode) ==
  LET requests == Requests(em, mode)
  IN \E o \in LiveTargetPcs(em, pcs, mode) :
       \E j, k \in RequestsAt(requests, pcs, o) :
         FrameState(requests[j]) # FrameState(requests[k])

(* The encoded method: a function from the pc of each physical instruction *)
(* to its operation, its operand (for a branch the target pc) and the pc   *)
(* that follows it.  EncodeOne returns pairs of a pc and what is there.    *)
Physical(op, arg, next) == [op |-> op, arg |-> arg, next |-> next]

(* Mutant of EncodeOne: the test of a fat branch is not inverted.          *)
EncodeOneNotInverted(em, pcs, mode, p) ==
  LET i == At(em, p)
      target == pcs[BranchTarget(em, i.arg, mode)]
      pc == pcs[p]
  IN IF ~ IsBranch(i) THEN { <<pc, Physical(i.op, i.arg, pcs[p + 1])>> }
     ELSE IF mode = "narrow" \/ IsGoto(i)
          THEN { <<pc, Physical(i.op, target, pcs[p + 1])>> }
          ELSE { <<pc, Physical(i.op, pc + 8, pc + 3)>>,
                 <<pc + 3, Physical("goto", target, pcs[p + 1])>> }

EncodeOne(em, pcs, mode, p) ==
  LET i == At(em, p)
      target == pcs[BranchTarget(em, i.arg, mode)]
      pc == pcs[p]
  IN IF ~ IsBranch(i) THEN { <<pc, Physical(i.op, i.arg, pcs[p + 1])>> }
     ELSE IF mode = "narrow" \/ IsGoto(i)
          THEN { <<pc, Physical(i.op, target, pcs[p + 1])>> }
          ELSE { <<pc, Physical(NegateConditional[i.op], pc + 8, pc + 3)>>,
                 <<pc + 3, Physical("goto", target, pcs[p + 1])>> }

(* Live instructions have bytes, so no two are written at one pc.          *)
Encode(em, pcs, mode) ==
  LET kept == {p \in 1..Count(em) : Live(em, p)}
      written == UNION {EncodeOne(em, pcs, mode, p) : p \in kept}
  IN [pc \in {w[1] : w \in written} |-> (CHOOSE w \in written : w[1] = pc)[2]]

=============================================================================
