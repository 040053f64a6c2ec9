-------------------------------- MODULE Sema --------------------------------
(***************************************************************************)
(* sema/analyzer.rs with sema/constants.rs: slot allocation, definite      *)
(* assignment and the verifier-local snapshot of every statement.          *)
(*                                                                         *)
(* The analyzer is a record.  cur is the snapshot selected by              *)
(* current_frame_locals: it is replaced only where the code refreshes or   *)
(* restores it.  The method's String[] parameter is the local "args".      *)
(***************************************************************************)
EXTENDS JavaSource, FiniteSetsExt

-----------------------------------------------------------------------------
(* boolean_flow: which outcomes of a condition sema considers possible. *)

FlowBoth == [whenTrue |-> TRUE, whenFalse |-> TRUE]
FlowExact(b) == [whenTrue |-> b, whenFalse |-> ~ b]
FlowNegate(f) == [whenTrue |-> f.whenFalse, whenFalse |-> f.whenTrue]

RECURSIVE EvalBooleanConstant(_)
EvalBooleanConstant(e) ==     \* <<>> or <<value>>
  CASE e.k = "lit" -> <<e.val>>
    [] e.k = "not" -> LET v == EvalBooleanConstant(e.e)
                      IN IF v = <<>> THEN v ELSE <<~ v[1]>>
    [] e.k \in {"paren", "cast"} -> EvalBooleanConstant(e.e)
    [] e.k \in {"binary", "compare", "and", "or"} ->
         LET v == EvalBooleanConstant(e.l)
             w == EvalBooleanConstant(e.r)
             apply(x, y) ==
               CASE e.k = "and" -> x /\ y
                 [] e.k = "or" -> x \/ y
                 [] OTHER -> BitOp(e.op, Bit(x), Bit(y)) = 1
         IN IF <<>> \in {v, w} THEN <<>> ELSE <<apply(v[1], w[1])>>
    [] OTHER -> <<>>

RECURSIVE BooleanFlow(_)
BooleanFlow(e) ==
  CASE e.k = "lit" -> FlowExact(e.val)
    [] e.k = "not" -> FlowNegate(BooleanFlow(e.e))
    [] e.k \in {"paren", "cast"} -> BooleanFlow(e.e)
    [] e.k \in {"and", "or"} ->
         LET l == BooleanFlow(e.l)
             r == BooleanFlow(e.r)
         IN IF e.k = "and"
            THEN [whenTrue |-> l.whenTrue /\ r.whenTrue,
                  whenFalse |-> l.whenFalse \/ (l.whenTrue /\ r.whenFalse)]
            ELSE [whenTrue |-> l.whenTrue \/ (l.whenFalse /\ r.whenTrue),
                  whenFalse |-> l.whenFalse /\ r.whenFalse]
    [] e.k \in {"binary", "compare"} ->
         LET v == EvalBooleanConstant(e)
         IN IF v = <<>> THEN FlowBoth ELSE FlowExact(v[1])
    [] OTHER -> FlowBoth

-----------------------------------------------------------------------------
(* Locals, slots and frame snapshots. *)

Width(ty) == IF ty = "Long" THEN 2 ELSE 1

NewAnalyzer ==
  [ slot |-> <<>>, type |-> <<>>, assigned |-> {}, reachable |-> TRUE,
    cur |-> <<>>, stmts |-> <<>>, nextSlot |-> 0, maxLocals |-> 0, ok |-> TRUE ]

Fail(a) == [a EXCEPT !.ok = FALSE]

(* Mutant of BuildFrameLocals: the second slot of a long is a Top.         *)
BuildFrameLocalsLongTop(a) ==
  LET starts(s) == {x \in a.assigned : a.slot[x] = s}
      entry(s) == IF starts(s) # {} THEN a.type[CHOOSE x \in starts(s) : TRUE] ELSE "Top"
      last == Max({0} \cup {a.slot[x] + Width(a.type[x]) : x \in a.assigned})
  IN [s \in 1..last |-> entry(s - 1)]

(* A Top for every slot below the highest assigned one that holds no       *)
(* assigned local; the second slot of a long has no entry.                 *)
BuildFrameLocals(a) ==
  LET starts(s) == {x \in a.assigned : a.slot[x] = s}
      second(s) == \E x \in a.assigned : a.type[x] = "Long" /\ a.slot[x] + 1 = s
      entry(s) == IF starts(s) # {} THEN a.type[CHOOSE x \in starts(s) : TRUE]
                  ELSE IF second(s) THEN "skip" ELSE "Top"
      last == Max({0} \cup {a.slot[x] + Width(a.type[x]) : x \in a.assigned})
      present(t) == t # "skip"
  IN SelectSeq([s \in 1..last |-> entry(s - 1)], present)

RefreshFrameLocals(a) == [a EXCEPT !.cur = BuildFrameLocals(a)]

Declare(a, x, ty) ==
  IF x \in DOMAIN a.slot THEN Fail(a)
  ELSE LET next == a.nextSlot + Width(ty)
       IN [a EXCEPT !.slot = (x :> a.nextSlot) @@ @,
                    !.type = (x :> ty) @@ @,
                    !.nextSlot = next,
                    !.maxLocals = IF next > @ THEN next ELSE @]

MarkAssigned(a, x) ==
  IF x \in a.assigned THEN a
  ELSE RefreshFrameLocals([a EXCEPT !.assigned = @ \cup {x}])

ReadLocal(a, x) ==
  IF x \in DOMAIN a.slot /\ (a.reachable => x \in a.assigned) THEN a ELSE Fail(a)

(* The right operand of && and || is read on the paths the left leaves     *)
(* open; nothing else an expression does changes the flow.                 *)
RECURSIVE ValidateExpr(_, _)
ValidateExpr(a, e) ==
  CASE e.k = "name" -> ReadLocal(a, e.var)
    [] e.k \in {"not", "paren", "cast"} -> ValidateExpr(a, e.e)
    [] e.k \in {"and", "or"} ->
         LET open == BooleanFlow(e.l)[IF e.k = "and" THEN "whenTrue" ELSE "whenFalse"]
             left == [ValidateExpr(a, e.l) EXCEPT !.reachable = @ /\ open]
         IN [ValidateExpr(left, e.r) EXCEPT !.reachable = a.reachable]
    [] e.k \in {"binary", "compare"} -> ValidateExpr(ValidateExpr(a, e.l), e.r)
    [] OTHER -> a

-----------------------------------------------------------------------------
(* Statements. *)

RestoreFlow(a, flow) ==
  [a EXCEPT !.assigned = flow.assigned, !.reachable = flow.reachable, !.cur = flow.cur]

(* Mutant of MergeFlows: a local assigned on one path counts as assigned.  *)
MergeFlowsUnion(a, incoming, thenFlow, elseFlow) ==
  RefreshFrameLocals([a EXCEPT !.reachable = thenFlow.reachable \/ elseFlow.reachable,
                               !.assigned = thenFlow.assigned \cup elseFlow.assigned])

(* The join after an if: an arm that cannot complete does not count, and   *)
(* the snapshot of an arm that already has the joint state is reused.      *)
MergeFlows(a, incoming, thenFlow, elseFlow) ==
  CASE thenFlow.reachable /\ ~ elseFlow.reachable -> RestoreFlow(a, thenFlow)
    [] ~ thenFlow.reachable /\ elseFlow.reachable -> RestoreFlow(a, elseFlow)
    [] ~ thenFlow.reachable /\ ~ elseFlow.reachable -> RestoreFlow(a, incoming)
    [] OTHER ->
         LET joint == [a EXCEPT !.reachable = TRUE,
                                !.assigned = thenFlow.assigned \cap elseFlow.assigned]
         IN IF joint.assigned = thenFlow.assigned THEN [joint EXCEPT !.cur = thenFlow.cur]
            ELSE IF joint.assigned = elseFlow.assigned THEN [joint EXCEPT !.cur = elseFlow.cur]
            ELSE RefreshFrameLocals(joint)

RECURSIVE ValidateStmts(_, _, _)

(* The arms of an if, whose condition left the flow incoming: both start   *)
(* from it, the else arm after the then arm is forgotten.                  *)
ValidateArms(incoming, st) ==
  LET flow == BooleanFlow(st.cond)
      arm(a, open, stmts) ==
        ValidateStmts([a EXCEPT !.reachable = @ /\ open], stmts, TRUE)
      join(thenA, elseA) == MergeFlows(elseA, incoming, thenA, elseA)
      afterThen(thenA) ==
        join(thenA, arm(RestoreFlow(thenA, incoming), flow.whenFalse, ArmOf(st.else)))
  IN afterThen(arm(incoming, flow.whenTrue, st.then))

Store(a, x, e) == MarkAssigned(ValidateExpr(a, e), x)

ValidateDecl(a, st, inBranch) ==
  LET initialize(b) == IF st.init = <<>> \/ ~ b.ok THEN b ELSE Store(b, st.var, st.init[1])
  IN IF inBranch THEN Fail(a) ELSE initialize(Declare(a, st.var, st.ty))

ValidateStmt(a, st, inBranch) ==
  LET record(after) ==
        [after EXCEPT !.stmts = (st.at :> [entry |-> a.cur, exit |-> after.cur]) @@ @]
  IN record(
       CASE st.k = "decl" -> ValidateDecl(a, st, inBranch)
         [] st.k = "assign" -> IF st.var \in DOMAIN a.slot THEN Store(a, st.var, st.value)
                               ELSE Fail(a)
         [] st.k = "println" -> ValidateExpr(a, st.value)
         [] st.k = "if" -> ValidateArms(ValidateExpr(a, st.cond), st))

ValidateStmts(a, stmts, inBranch) ==
  LET step(b, st) == IF b.ok THEN ValidateStmt(b, st, inBranch) ELSE b
  IN FoldLeft(step, a, stmts)

EntryAnalyzer == MarkAssigned(Declare(NewAnalyzer, "args", "Object"), "args")

(* The result: the analyzer after the body, with the method's entry        *)
(* snapshot.                                                               *)
AnalyzeMethod(prog) == ValidateStmts(EntryAnalyzer, prog, FALSE)

=============================================================================
