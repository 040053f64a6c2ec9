------------------------------ MODULE Emitter ------------------------------
(***************************************************************************)
(* The life of one Emitter (codegen/assembler.rs) under any client that    *)
(* keeps to the discipline of lowering/condition.rs and lowering/body.rs:  *)
(* instructions are recorded, branches go to chains that are resolved      *)
(* later, and finish compacts the stream round by round, first for the     *)
(* narrow branch form and, if a branch does not fit, once more from the    *)
(* saved stream for the fat form.                                          *)
(***************************************************************************)
EXTENDS Assembler

CONSTANTS
  Straight,          \* the non-branch instructions a client emits
  Lines,             \* source lines
  LocalStates,       \* verifier-local vectors
  MaxInstructions,   \* bound: instructions before the return
  MaxLabels          \* bound: chains

ASSUME StraightAssumption ==
  Straight \subseteq {i \in Instruction : ~ IsBranch(i) /\ ~ IsReturn(i)}
ASSUME LinesAssumption == Lines \subseteq Nat \ {NoLine}
ASSUME BoundsAssumption == MaxInstructions \in Nat /\ MaxLabels \in Nat

VARIABLES
  em,         \* the emitter
  stage,      \* "recording", "narrowing", "fattening" or "selected"
  mode,       \* the branch mode, once selected
  original    \* original_instructions and original_labels

vars == <<em, stage, mode, original>>

Init ==
  /\ em = NewEmitter
  /\ stage = "recording"
  /\ mode = "narrow"
  /\ original = [instructions |-> <<>>, labels |-> <<>>]

-----------------------------------------------------------------------------
(* The client. *)

Branches(e) == {p \in 1..Count(e) : IsBranch(At(e, p))}

(* A chain with a pending jump site. *)
Pending(e) ==
  {l \in 1..Len(e.labels) :
     e.labels[l] = Unplaced /\ \E p \in Branches(e) : At(e, p).arg = l}

(* A goto is always followed by the resolution of a chain. *)
Dangling(e) ==
  /\ e.instructions # <<>>
  /\ IsGoto(Last(e.instructions).ins)
  /\ \A l \in 1..Len(e.labels) : e.labels[l] # End(e)

Recording(e) == stage = "recording" /\ UNCHANGED <<stage, mode, original>> /\ em' = e

Room == Count(em) < MaxInstructions /\ ~ Dangling(em)

Record(i) ==
  /\ Room
  /\ PopWords(i) <= em.cur
  /\ Recording(Emit(em, i))

BranchToNew(op, locals) ==
  /\ Room
  /\ Len(em.labels) < MaxLabels
  /\ IF op = "goto" THEN em.cur \in {0, 1} ELSE em.cur = PopWords(Instr(op, 0))
  /\ Recording(EmitBranch(AddLabel(em), op, NewLabel(em), locals))

MergeChains(to, from) ==
  /\ to # from
  /\ Recording(RetargetBranches(em, from, to))

(* Resolving the false chain of a diamond leaves the constant of the other *)
(* path on the accounted stack; the client resets it, and the merge of the *)
(* diamond has one integer on the stack.                                   *)
ResolveChain(label, locals, reset) ==
  /\ reset => Dangling(em)
  /\ em.cur = 0 \/ reset
  /\ LET e == RequestFrame(PlaceLabel(em, label), locals, <<>>)
     IN Recording(IF reset THEN ResetStack(e) ELSE e)

ResolveMerge(label, locals) ==
  /\ em.cur = 1 /\ ~ Dangling(em)
  /\ Recording(RequestFrame(PlaceLabel(em, label), locals, <<"Integer">>))

MarkLine(line) == em.pendingLine # line /\ Recording(SetPendingLine(em, line))

StartStatement == em.cur # 0 /\ ~ Dangling(em) /\ Recording(ResetStack(em))

-----------------------------------------------------------------------------
(* finish. *)

Finish ==
  /\ stage = "recording"
  /\ Pending(em) = {} /\ ~ Dangling(em)
  /\ LET e == Emit(em, Simple("return"))
     IN /\ em' = CheckPreconditions(e)
        /\ original' = [instructions |-> e.instructions, labels |-> e.labels]
  /\ stage' = "narrowing"
  /\ UNCHANGED mode

Compacting == stage \in {"narrowing", "fattening"}
Dead == DeadGotos(em, stage = "narrowing")

Round ==
  /\ Compacting
  /\ Dead # {}
  /\ em' = CompactRound(em, stage = "narrowing")
  /\ UNCHANGED <<stage, mode, original>>

Overflow == NarrowBranchOverflows(em, Layout(em, "narrow"))

SelectNarrow ==
  /\ stage = "narrowing"
  /\ Dead = {} /\ ~ Overflow
  /\ stage' = "selected"
  /\ UNCHANGED <<em, mode, original>>

RetryFat ==
  /\ stage = "narrowing"
  /\ Dead = {} /\ Overflow
  /\ em' = CheckPreconditions([em EXCEPT !.instructions = original.instructions,
                                         !.labels = original.labels])
  /\ stage' = "fattening"
  /\ mode' = "fat"
  /\ UNCHANGED original

SelectFat ==
  /\ stage = "fattening"
  /\ Dead = {}
  /\ stage' = "selected"
  /\ UNCHANGED <<em, mode, original>>

Client ==
  \/ \E i \in Straight : Record(i)
  \/ \E op \in BranchOps, locals \in LocalStates : BranchToNew(op, locals)
  \/ \E to, from \in Pending(em) : MergeChains(to, from)
  \/ \E l \in Pending(em), locals \in LocalStates, reset \in BOOLEAN :
       ResolveChain(l, locals, reset)
  \/ \E l \in Pending(em), locals \in LocalStates : ResolveMerge(l, locals)
  \/ \E line \in Lines : MarkLine(line)
  \/ StartStatement

Finalize == Finish \/ Round \/ SelectNarrow \/ RetryFat \/ SelectFat

Next == Client \/ Finalize

(* finish is a loop of one thread: once started it goes on. *)
Fairness == WF_vars(Round \/ SelectNarrow \/ RetryFat \/ SelectFat)

Spec == Init /\ [][Next]_vars /\ Fairness

-----------------------------------------------------------------------------
(* Properties. *)

Position == Nat \ {0}
Entry == [ins : Instruction, live : BOOLEAN]
Event == [at : Position, line : Nat]

Typed(e) ==
  /\ DOMAIN e = DOMAIN NewEmitter
  /\ e.instructions \in Seq(Entry)
  /\ e.lineEvents \in Seq(Event)
  /\ e.pendingLine \in Nat /\ e.cur \in Nat /\ e.maxStack \in Nat
  /\ e.atControlEntry \in BOOLEAN

(* The one type invariant.  The labels are left out of it: those that      *)
(* matter are bounded by what BranchesPlaced says of them.                 *)
TypeOK ==
  /\ Typed(em)
  /\ stage \in {"recording", "narrowing", "fattening", "selected"}
  /\ mode \in {"narrow", "fat"}
  /\ original.instructions \in Seq(Entry)

(* max_stack covers the depth after every instruction, so the method never *)
(* declares less operand stack than it uses (Emitter::emit).               *)
StackCovered == em.cur <= em.maxStack

(* Line events go forward through the stream and no two neighbours carry   *)
(* the same line: a table the debugger can search (Emitter::emit,          *)
(* resolve_lines).                                                         *)
Ordered(e) ==
  /\ \A k \in DOMAIN e.lineEvents : e.lineEvents[k].at <= Len(e.instructions)
  /\ \A j, k \in DOMAIN e.lineEvents : j < k => e.lineEvents[j].at < e.lineEvents[k].at
  /\ \A j, k \in DOMAIN e.lineEvents :
       k = j + 1 => e.lineEvents[j].line # e.lineEvents[k].line

LineEventsOrdered == Ordered(em)

(* Only gotos are ever tombstoned: no round, and no retry in fat mode,     *)
(* loses an instruction that does something (compact_gotos).               *)
NoLoss(instructions) ==
  \A p \in 1..Len(instructions) : instructions[p].live \/ IsGoto(instructions[p].ins)

OnlyGotosDeleted == NoLoss(em.instructions)

(* Labels follow compaction.  A round threads labels and moves them off    *)
(* what it deletes, and never moves a frame request; even so, from finish  *)
(* on and after every round of either attempt, the label of a live branch  *)
(* is ahead of it, at a live instruction for which a frame was requested.  *)
(* So label_position finds it placed, threading ends, and fat mode, which  *)
(* goes to the label as it is, lands (compact_gotos, label_position,       *)
(* branch_target).                                                         *)
BranchesPlaced ==
  stage # "recording" =>
    \A p \in LiveBranches(em) :
      /\ At(em, p).arg \in 1..Len(em.labels)
      /\ LET target == LabelPosition(em, At(em, p).arg)
         IN /\ target \in (p + 1)..Count(em) /\ Live(em, target)
            /\ \E f \in ToSet(em.frames) : f.position = target

(* The emitted rows: pcs increase and neighbours carry different lines     *)
(* (resolve_lines, after tombstoning).                                     *)
Selected == stage = "selected"
RowsOrdered ==
  Selected =>
    LET pcs == Layout(em, mode)
        rows == ResolveLines(em, pcs)
    IN \A k \in 2..Len(rows) :
         rows[k - 1][1] < rows[k][1] /\ rows[k - 1][2] # rows[k][2]

(* The encoded method is one run of instructions, every branch lands on    *)
(* the first byte of one that has a frame (in fat mode the fallthrough of  *)
(* a widened test has one too), and a narrow branch is within reach of its *)
(* two-byte offset (encode with the offsets of layout, resolve_frames,     *)
(* narrow_branch_overflows).                                               *)
JumpsLand ==
  Selected =>
    LET pcs == Layout(em, mode)
        code == Encode(em, pcs, mode)
    IN /\ LiveTargetPcs(em, pcs, mode) \subseteq DOMAIN ResolveFrames(em, pcs, mode)
       /\ \A pc \in DOMAIN code :
            /\ code[pc].next \in DOMAIN code \cup {pcs[End(em)]}
            /\ code[pc].op \in BranchOps =>
                 /\ code[pc].arg \in DOMAIN code
                 /\ mode = "narrow" => code[pc].arg - pc \in -(MaxOffset + 1)..MaxOffset

(* Where control goes after a live instruction that is not a goto: gotos   *)
(* in between do not count.                                                *)
Flow(e, p) ==
  LET i == At(e, p)
      next == ThreadFrom(e, NextLive(e, p + 1))
  IN CASE IsCondBranch(i) -> {ThreadTarget(e, i.arg), next}
       [] IsReturn(i) -> {}
       [] OTHER -> {next}

SameFlow(d, e) ==
  /\ ThreadFrom(d, 1) = ThreadFrom(e, 1)
  /\ \A p \in 1..Count(d) : ~ IsGoto(At(d, p)) => Flow(d, p) = Flow(e, p)

(* Compaction changes no control flow: at the end of either attempt each   *)
(* instruction is followed by the same ones as in the recorded stream.     *)
Recorded == [em EXCEPT !.instructions = original.instructions, !.labels = original.labels]
ControlKept == Selected => SameFlow(Recorded, em)

(* Finalization ends: the fixpoint loop runs out of gotos to delete.       *)
FinishTerminates == Compacting ~> Selected

=============================================================================
