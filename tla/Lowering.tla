------------------------------ MODULE Lowering ------------------------------
(***************************************************************************)
(* codegen/preflight.rs, codegen/condition.rs, codegen/constant.rs and     *)
(* codegen/lowering/: the check that refuses what the emitter cannot       *)
(* express, the conditional items, and the lowering of statements and      *)
(* boolean expressions into the symbolic stream of Assembler.              *)
(*                                                                         *)
(* A generator is a record [em, locals]: the emitter and the selected      *)
(* sema snapshot.  info is the analyzer Sema returns for the method.       *)
(***************************************************************************)
EXTENDS Assembler, Sema

-----------------------------------------------------------------------------
(* Constant folding of boolean trees.  Strict folding (lowering_const)     *)
(* needs both operands of && and ||; the other stops at a deciding left.   *)

NotConst == 2

RECURSIVE FoldImpl(_, _)
FoldImpl(e, strict) ==
  CASE e.k = "lit" -> Bit(e.val)
    [] e.k = "long" -> 0
    [] e.k = "not" -> LET v == FoldImpl(e.e, strict)
                      IN IF v = NotConst THEN v ELSE 1 - v
    [] e.k \in {"paren", "cast"} -> FoldImpl(e.e, strict)
    [] e.k \in {"and", "or"} ->
         LET l == FoldImpl(e.l, strict)
             r == FoldImpl(e.r, strict)
             decides == l = Bit(e.k = "or")
         IN IF l = NotConst \/ (decides /\ (~ strict \/ r # NotConst)) THEN l ELSE r
    [] e.k \in {"binary", "compare"} ->
         LET l == FoldImpl(e.l, strict)
             r == FoldImpl(e.r, strict)
         IN IF NotConst \in {l, r} THEN NotConst ELSE BitOp(e.op, l, r)
    [] OTHER -> NotConst

FoldConst(e) == FoldImpl(e, FALSE)
LoweringConst(e) == FoldImpl(e, TRUE)

-----------------------------------------------------------------------------
(* Preflight: refuse a branch-valued boolean above a live operand stack.   *)

RECURSIVE RefusesValue(_, _), RefusesCond(_, _)

RefusesMaterialization(e, baseLive) == baseLive \/ RefusesCond(e, FALSE)

(* Mutant of RefusesValue: constants are not looked at.                    *)
RefusesConstants(e, baseLive) ==
  CASE e.k \in {"str", "lit", "long", "name"} -> FALSE
    [] e.k \in {"paren", "cast"} -> RefusesValue(e.e, baseLive)
    [] e.k = "binary" -> RefusesValue(e.l, baseLive) \/ RefusesValue(e.r, TRUE)
    [] OTHER -> RefusesMaterialization(e, baseLive)

RefusesValue(e, baseLive) ==
  /\ e.k \notin {"str", "name"} /\ FoldConst(e) = NotConst
  /\ CASE e.k \in {"paren", "cast"} -> RefusesValue(e.e, baseLive)
       [] e.k = "binary" -> RefusesValue(e.l, baseLive) \/ RefusesValue(e.r, TRUE)
       [] e.k \in {"compare", "not", "and", "or"} -> RefusesMaterialization(e, baseLive)

LeftDecides(e) == FoldConst(e.l) = Bit(e.k = "or")

RefusesCond(e, baseLive) ==
  /\ LoweringConst(e) = NotConst
  /\ CASE e.k \in {"not", "paren"} -> RefusesCond(e.e, baseLive)
       [] e.k = "cast" -> RefusesMaterialization(e.e, baseLive)
       [] e.k = "compare" -> RefusesValue(e.l, baseLive) \/ RefusesValue(e.r, TRUE)
       [] e.k \in {"and", "or"} ->
            RefusesCond(e.l, baseLive) \/ (~ LeftDecides(e) /\ RefusesCond(e.r, baseLive))
       [] OTHER -> RefusesValue(e, baseLive)

(* A boolean initializer or assigned value is materialized on an empty     *)
(* stack; a println argument is evaluated above the stream it prints to.   *)
RefusesStmt(st, info) ==
  LET stored(x, e) == IF info.type[x] = "Integer" THEN RefusesMaterialization(e, FALSE)
                      ELSE RefusesValue(e, FALSE)
  IN CASE st.k = "decl" -> st.init # <<>> /\ stored(st.var, st.init[1])
       [] st.k = "assign" -> stored(st.var, st.value)
       [] st.k = "println" -> RefusesValue(st.value, TRUE)
       [] st.k = "if" -> RefusesCond(st.cond, FALSE)

RECURSIVE PreflightRefuses(_, _)
PreflightRefuses(stmts, info) ==
  \E st \in ToSet(stmts) :
    \/ RefusesStmt(st, info)
    \/ /\ st.k = "if"
       /\ \/ PreflightRefuses(st.then, info)
          \/ PreflightRefuses(ArmOf(st.else), info)

-----------------------------------------------------------------------------
(* Conditional items.  op is "goto" (statically true), "dontgoto"          *)
(* (statically false) or the branch opcode taken when the condition holds; *)
(* a chain is a label or NoChain.                                          *)

NoChain == 0

PositionRank == [none |-> 0, awaitingNegation |-> 1, preserveFalseIf |-> 2,
                 preserveThroughLeft |-> 3]
StrongerPosition(p, q) == IF PositionRank[p] >= PositionRank[q] THEN p ELSE q

CondItem(op, stackReuse) ==
  [ op |-> op, trueChain |-> NoChain, falseChain |-> NoChain,
    stackReuse |-> stackReuse, origin |-> "ordinary",
    diamond |-> FALSE, position |-> "none" ]

CondStatic(b) == CondItem(IF b THEN "goto" ELSE "dontgoto", FALSE)
CondStackTest == CondItem("ifne", TRUE)

IsTrue(c) == c.op = "goto" /\ c.falseChain = NoChain
IsFalse(c) == c.op = "dontgoto" /\ c.trueChain = NoChain
IsTest(c) == c.op \in CondBranches

NegateOp == NegateConditional @@ [goto |-> "dontgoto", dontgoto |-> "goto"]

Negate(c) ==
  LET origin == IF c.origin = "ordinary" THEN "ordinary" ELSE "negatedShortcut"
      position ==
        CASE c.position = "preserveThroughLeft" -> c.position
          [] c.position = "none" /\ origin = "ordinary" -> "none"
          [] OTHER -> "preserveFalseIf"
  IN [c EXCEPT !.op = NegateOp[@], !.trueChain = c.falseChain, !.falseChain = c.trueChain,
               !.stackReuse = FALSE, !.origin = origin, !.position = position]

Parenthesize(c) ==
  [c EXCEPT !.diamond = @ \/ c.origin = "negatedShortcut",
            !.position = IF @ = "preserveFalseIf" THEN "preserveThroughLeft" ELSE @]

AsLogicalLeft(c) ==
  [c EXCEPT !.position = IF @ = "preserveFalseIf" THEN "awaitingNegation" ELSE @]

MarkShortcut(c) == [c EXCEPT !.origin = "shortcut"]

CarryPrefix(c, prefix, crossedJoin) ==
  LET codeFree == /\ c.op \in {"goto", "dontgoto"}
                  /\ c.trueChain = NoChain /\ c.falseChain = NoChain
      own == IF prefix.origin = "shortcut" /\ codeFree
             THEN StrongerPosition(c.position, "awaitingNegation") ELSE c.position
  IN [c EXCEPT !.diamond = @ \/ prefix.diamond \/ crossedJoin,
               !.position = StrongerPosition(own, prefix.position)]

-----------------------------------------------------------------------------
(* Emission through the generator. *)

With(g, em) == [g EXCEPT !.em = em]
EmitOp(g, op, arg) == With(g, Emit(g.em, Instr(op, arg)))
MarkLine(g, line) == With(g, SetPendingLine(g.em, line))
AssertGen(g, failed, name) == With(g, [g.em EXCEPT !.asserts = FlagIf(@, failed, name)])
PanicGen(g, failed, name) == With(g, [g.em EXCEPT !.panics = FlagIf(@, failed, name)])

InstallEntry(g, info, at) == [g EXCEPT !.locals = info.stmts[at].entry]
InstallExit(g, info, at) == [g EXCEPT !.locals = info.stmts[at].exit]

NewChain(g) == NewLabel(g.em)
BranchToNew(g, op) ==
  With(g, EmitBranch(AddLabel(g.em), op, NewLabel(g.em), g.locals))

AddFrame(g, stack) == With(g, RequestFrame(g.em, g.locals, stack))

PlaceChain(g, chain) == AddFrame(With(g, PlaceLabel(g.em, chain)), <<>>)

CheckEmpty(g) ==
  AssertGen(g, g.em.cur # 0, "chain resolved with non-empty operand stack")

ResolveChain(g, chain) ==
  IF chain = NoChain THEN CheckEmpty(g) ELSE PlaceChain(CheckEmpty(g), chain)

MergedChain(a, b) == IF a = NoChain THEN b ELSE a
MergeChains(g, a, b) ==
  IF NoChain \in {a, b} THEN g ELSE With(g, RetargetBranches(g.em, b, a))

(* Route the false (or true) outcome of an item to a chain; the result is  *)
(* [g, chain].                                                             *)
Routed(g, chain) == [g |-> g, chain |-> chain]

RouteTo(g, op, chain) ==
  Routed(MergeChains(BranchToNew(g, op), chain, NewChain(g)), MergedChain(chain, NewChain(g)))

(* A jump of an item that is no test leaves from an empty stack.           *)
CheckJump(g, c, name) == AssertGen(g, ~ IsTest(c) /\ g.em.cur # 0, name)

(* Mutant of JumpFalse: a jump is emitted with the opcode of the item.     *)
JumpFalseOwnOp(g, c) ==
  IF IsTrue(c) THEN Routed(g, NoChain)
  ELSE IF IsFalse(c) \/ c.op = "goto" THEN Routed(g, c.falseChain)
  ELSE RouteTo(g, c.op, c.falseChain)

JumpFalse(g, c) ==
  IF IsTrue(c) THEN Routed(g, NoChain)
  ELSE IF IsFalse(c) \/ c.op = "goto" THEN Routed(g, c.falseChain)
  ELSE RouteTo(CheckJump(g, c, "jump_false goto with non-empty stack"),
               NegateOp[c.op], c.falseChain)

JumpTrue(g, c) ==
  IF IsFalse(c) THEN Routed(g, NoChain)
  ELSE IF IsTrue(c) \/ c.op = "dontgoto" THEN Routed(g, c.trueChain)
  ELSE RouteTo(CheckJump(g, c, "jump_true goto with non-empty stack"), c.op, c.trueChain)

-----------------------------------------------------------------------------
(* Expressions.  GenCond returns [g, c]; the others return the generator.  *)

LoadConst(g, e) ==
  EmitOp(g, IF e.k = "long" THEN "lconst_0"
            ELSE IF FoldConst(e) = 1 THEN "iconst_1" ELSE "iconst_0", 0)

BareReusable(c) ==
  /\ c.stackReuse /\ IsTest(c)
  /\ c.trueChain = NoChain /\ c.falseChain = NoChain
  /\ c.origin = "ordinary" /\ ~ c.diamond

LoadTrue(g) == EmitOp(g, "iconst_1", 0)
LoadFalse(g) == EmitOp(g, "iconst_0", 0)
Restart(g) == With(g, ResetStack(g.em))

(* The diamond that turns an outcome into a value:                         *)
(* iconst_1; goto end; iconst_0; end.                                      *)
JoinValue(g, end) == AddFrame(With(g, PlaceLabel(g.em, end)), <<"Integer">>)
Diamond(thenG, falseChain) ==
  JoinValue(LoadFalse(Restart(ResolveChain(BranchToNew(thenG, "goto"), falseChain))),
            NewChain(thenG))

(* The value of an item whose false outcome was routed: the constant after *)
(* a residual branch, or the diamond.                                      *)
MaterializeRouted(false, c) ==
  CASE IsFalse(c) -> LoadFalse(ResolveChain(false.g, false.chain))
    [] IsTrue(c) -> LoadTrue(ResolveChain(false.g, c.trueChain))
    [] OTHER -> Diamond(LoadTrue(ResolveChain(false.g, c.trueChain)), false.chain)

Materialize(g, c) == IF BareReusable(c) THEN g ELSE MaterializeRouted(JumpFalse(g, c), c)
MaterializeItem(item) == Materialize(item.g, item.c)

CompareOp == [eq |-> [zero |-> "ifeq", int |-> "if_icmpeq"],
              ne |-> [zero |-> "ifne", int |-> "if_icmpne"]]

RECURSIVE GenCond(_, _, _), GenValue(_, _, _), GenNonconst(_, _, _)

GenBoolValue(g, info, e) ==
  MaterializeItem(GenCond(PanicGen(g, g.em.cur # 0,
                                   "materialized boolean with non-empty operand stack"),
                          info, e))

GenValue(g, info, e) ==
  CASE e.k = "paren" -> GenValue(g, info, e.e)
    [] e.k = "str" -> EmitOp(g, "ldc", e.id)
    [] e.k # "paren" /\ e.k # "str" /\ FoldConst(e) # NotConst -> LoadConst(g, e)
    [] OTHER -> GenNonconst(g, info, e)

GenPromoted(g, info, e) ==
  IF FoldConst(e) # NotConst THEN LoadConst(g, e) ELSE GenNonconst(g, info, e)

GenNonconst(g, info, e) ==
  CASE e.k = "name" -> EmitOp(g, "iload", info.slot[e.var])
    [] e.k \in {"paren", "cast"} -> GenValue(g, info, e.e)
    [] e.k = "binary" ->
         EmitOp(GenValue(GenValue(g, info, e.l), info, e.r), e.op, 0)
    [] OTHER -> GenBoolValue(g, info, e)

ItemAt(g, c) == [g |-> g, c |-> c]

GenCompare(g, info, e) ==
  IF FoldConst(e.r) = 0
  THEN ItemAt(GenPromoted(g, info, e.l), CondItem(CompareOp[e.op].zero, FALSE))
  ELSE ItemAt(GenPromoted(GenPromoted(g, info, e.l), info, e.r),
              CondItem(CompareOp[e.op].int, FALSE))

(* l && r leaves on the left's false chain and falls through its true      *)
(* chain into r; l || r is the mirror image.  A left that decides drops    *)
(* the right operand.                                                      *)
Decided(and, c) == IF and THEN IsFalse(c) ELSE IsTrue(c)
ThroughChain(and, c) == IF and THEN c.trueChain ELSE c.falseChain
LeaveOn(and, g, c) == IF and THEN JumpFalse(g, c) ELSE JumpTrue(g, c)

(* left is the item of the left operand, out where its exit was routed,    *)
(* right the item and generator after the right operand.                   *)
JoinOperands(and, left, out, right) ==
  LET pending == IF and THEN right.c.falseChain ELSE right.c.trueChain
      chain == MergedChain(out.chain, pending)
      item == IF and THEN [right.c EXCEPT !.falseChain = chain]
              ELSE [right.c EXCEPT !.trueChain = chain]
  IN [g |-> MergeChains(right.g, out.chain, pending),
      c |-> CarryPrefix(item, left, ThroughChain(and, left) # NoChain)]

GenRight(and, left, out, info, e) ==
  JoinOperands(and, left, out,
               GenCond(ResolveChain(out.g, ThroughChain(and, left)), info, e))

GenAfterLeft(and, g, left, info, e) ==
  IF Decided(and, left) THEN ItemAt(g, MarkShortcut(left))
  ELSE GenRight(and, left, LeaveOn(and, g, left), info, e)

GenOperands(and, item, info, e) ==
  GenAfterLeft(and, item.g, AsLogicalLeft(item.c), info, e)

GenLogical(g, info, e) == GenOperands(e.k = "and", GenCond(g, info, e.l), info, e.r)

ChangeItem(item, k) ==
  [item EXCEPT !.c = IF k = "not" THEN Negate(@) ELSE Parenthesize(@)]

GenCond(g, info, e) ==
  IF LoweringConst(e) # NotConst THEN ItemAt(g, CondStatic(LoweringConst(e) = 1))
  ELSE CASE e.k \in {"not", "paren"} -> ChangeItem(GenCond(g, info, e.e), e.k)
         [] e.k = "cast" -> ItemAt(GenBoolValue(g, info, e.e), CondStackTest)
         [] e.k = "compare" -> GenCompare(g, info, e)
         [] e.k \in {"and", "or"} -> GenLogical(g, info, e)
         [] OTHER -> ItemAt(GenValue(g, info, e), CondStackTest)

-----------------------------------------------------------------------------
(* Statements. *)

StoreTo(g, info, x, e) ==
  IF info.type[x] = "Integer" THEN EmitOp(GenBoolValue(g, info, e), "istore", info.slot[x])
  ELSE EmitOp(GenPromoted(g, info, e), "lstore", info.slot[x])

GenPrintln(g, info, e) ==
  EmitOp(GenValue(EmitOp(g, "getstatic", 0), info, e), "invokevirtual", 1)

RECURSIVE GenStmts(_, _, _)

(* A condition that emitted no code is a static verdict: only the taken    *)
(* arm is generated, and the condition's line survives only for a          *)
(* preserved false verdict entered by falling through.                     *)
GenCodeFreeIf(g, info, st, c, previousLine, enteredByBranch) ==
  LET preserved == /\ ~ IsTrue(c)
                   /\ c.position \in {"preserveFalseIf", "preserveThroughLeft"}
                   /\ ~ enteredByBranch
      checked == PanicGen(g, ~ IsTrue(c) /\ ~ IsFalse(c),
                          "code-free condition without a static verdict")
  IN GenStmts(IF preserved THEN checked ELSE MarkLine(checked, previousLine), info,
              IF IsTrue(c) THEN st.then ELSE ArmOf(st.else))

GenArm(g, info, st, chain, stmts) ==
  GenStmts(ResolveChain(InstallEntry(g, info, st.at), chain), info, stmts)

(* The end of an if whose false outcome is on chain: end is the join after *)
(* a then arm that was generated, and NoChain when it was not.             *)
JoinIf(g, info, st, end) == ResolveChain(InstallExit(g, info, st.at), end)
ElseEnd(g, info, st, end) == IF end = NoChain THEN g ELSE JoinIf(g, info, st, end)

GenElse(g, info, st, chain, end) ==
  IF st.else # <<>> /\ (chain # NoChain \/ end = NoChain)
  THEN ElseEnd(GenArm(g, info, st, chain, ArmOf(st.else)), info, st, end)
  ELSE JoinIf(JoinIf(g, info, st, chain), info, st, end)

SkipElse(thenG, info, st, chain) ==
  GenElse(BranchToNew(thenG, "goto"), info, st, chain, NewChain(thenG))

GenArms(out, info, st, c) ==
  IF IsFalse(c) THEN GenElse(out.g, info, st, out.chain, NoChain)
  ELSE SkipElse(GenArm(out.g, info, st, c.trueChain, st.then), info, st, out.chain)

GenTested(item, g, info, st) ==
  IF Count(item.g.em) = Count(g.em)
  THEN GenCodeFreeIf(item.g, info, st, item.c, g.em.pendingLine, g.em.atControlEntry)
  ELSE GenArms(JumpFalse(item.g, item.c), info, st, item.c)

GenIf(g, info, st) ==
  GenTested(GenCond(MarkLine(g, Line(st.at)), info, st.cond), g, info, st)

Stores(st) == st.k = "assign" \/ (st.k = "decl" /\ st.init # <<>>)

GenLeaf(g, info, st) ==
  CASE Stores(st) -> StoreTo(g, info, st.var, IF st.k = "decl" THEN st.init[1] ELSE st.value)
    [] st.k = "println" -> GenPrintln(g, info, st.value)
    [] OTHER -> g

GenBody(g, info, st) ==
  IF st.k = "if" THEN GenIf(g, info, st) ELSE GenLeaf(MarkLine(g, Line(st.at)), info, st)

GenStmt(g, info, st) ==
  InstallExit(GenBody(InstallEntry(Restart(g), info, st.at), info, st), info, st.at)

GenStmts(g, info, stmts) ==
  IF stmts = <<>> THEN g
  ELSE GenStmts(GenStmt(g, info, Head(stmts)), info, Tail(stmts))

(* The whole method: its body and the return at the closing brace.         *)
NewGen == [em |-> NewEmitter, locals |-> EntryAnalyzer.cur]
GenMethod(prog, info, closeLine) ==
  EmitOp(MarkLine(GenStmts(NewGen, info, prog), closeLine), "return", 0).em

=============================================================================
