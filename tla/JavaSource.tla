----------------------------- MODULE JavaSource -----------------------------
(***************************************************************************)
(* The modelled part of the source language (ast.rs, after parsing) and    *)
(* what the Java Language Specification says of it: what a program prints  *)
(* and which programs read only definitely assigned locals.  This is the   *)
(* reference the compiler modules are checked against, not a model of      *)
(* njavac.                                                                 *)
(*                                                                         *)
(* Programs declare boolean and long locals, assign, print and branch.     *)
(* Booleans are 0 and 1, as on the JVM; Undefined is the value of a local  *)
(* nothing was assigned to.  "at" is the source position of a statement,   *)
(* line and column as one number: it identifies the statement (its span)   *)
(* and gives its line.                                                     *)
(***************************************************************************)
EXTENDS Integers, Sequences, SequencesExt

Lit(b) == [k |-> "lit", val |-> b]
Str(n) == [k |-> "str", id |-> n]        \* a string literal, printed as n
LongZero == [k |-> "long"]               \* 0L
Name(x) == [k |-> "name", var |-> x]
Not(e) == [k |-> "not", e |-> e]
Paren(e) == [k |-> "paren", e |-> e]
Cast(e) == [k |-> "cast", e |-> e]       \* (boolean) e
And(l, r) == [k |-> "and", l |-> l, r |-> r]
Or(l, r) == [k |-> "or", l |-> l, r |-> r]
Binary(op, l, r) == [k |-> "binary", op |-> op, l |-> l, r |-> r]
Compare(op, l, r) == [k |-> "compare", op |-> op, l |-> l, r |-> r]

Decl(at, x, ty, init) == [k |-> "decl", at |-> at, var |-> x, ty |-> ty, init |-> init]
Assign(at, x, e) == [k |-> "assign", at |-> at, var |-> x, value |-> e]
Println(at, e) == [k |-> "println", at |-> at, value |-> e]
If(at, c, thenB, elseB) ==
  [k |-> "if", at |-> at, cond |-> c, then |-> thenB, else |-> elseB]
NoElse == <<>>                           \* the else arm is <<>> or <<stmts>>

ArmOf(opt) == IF opt = <<>> THEN <<>> ELSE opt[1]

Line(at) == at \div 10

Undefined == -1
Bit(b) == IF b THEN 1 ELSE 0

-----------------------------------------------------------------------------
(* JLS 15: the value of an expression in an environment. *)

BitOp(op, x, y) ==
  CASE op = "iand" -> x * y
    [] op = "ior" -> IF x + y = 0 THEN 0 ELSE 1
    [] op = "ixor" -> (x + y) % 2
    [] op = "eq" -> Bit(x = y)
    [] op = "ne" -> Bit(x # y)

RECURSIVE Eval(_, _)
Eval(env, e) ==
  CASE e.k = "lit" -> Bit(e.val)
    [] e.k = "str" -> e.id
    [] e.k = "long" -> 0
    [] e.k = "name" -> env[e.var]
    [] e.k \in {"paren", "cast"} -> Eval(env, e.e)
    [] e.k = "not" -> LET v == Eval(env, e.e)
                      IN IF v = Undefined THEN v ELSE 1 - v
    [] e.k \in {"and", "or"} ->
         LET v == Eval(env, e.l)
         IN IF v = Undefined \/ v = Bit(e.k = "or") THEN v ELSE Eval(env, e.r)
    [] e.k \in {"binary", "compare"} ->
         LET v == Eval(env, e.l)
             w == Eval(env, e.r)
         IN IF Undefined \in {v, w} THEN Undefined ELSE BitOp(e.op, v, w)

(* JLS 14: executing statements.  out is what was printed and lines where; *)
(* stuck is set when an unassigned local is read.                          *)
RECURSIVE Exec(_, _)
Exec(s, stmts) ==
  IF stmts = <<>> \/ s.stuck THEN s
  ELSE
  LET st == Head(stmts)
      store(x, e) == LET v == Eval(s.env, e)
                     IN [s EXCEPT !.env[x] = v, !.stuck = (v = Undefined)]
      next ==
        CASE st.k = "decl" -> IF st.init = <<>> THEN s ELSE store(st.var, st.init[1])
          [] st.k = "assign" -> store(st.var, st.value)
          [] st.k = "println" ->
               LET v == Eval(s.env, st.value)
               IN IF v = Undefined THEN [s EXCEPT !.stuck = TRUE]
                  ELSE [s EXCEPT !.out = Append(@, v), !.lines = Append(@, Line(st.at))]
          [] st.k = "if" ->
               LET v == Eval(s.env, st.cond)
               IN CASE v = Undefined -> [s EXCEPT !.stuck = TRUE]
                    [] v = 1 -> Exec(s, st.then)
                    [] v = 0 -> Exec(s, ArmOf(st.else))
  IN Exec(next, Tail(stmts))

RECURSIVE Declared(_)
Declared(stmts) ==
  UNION {IF s.k = "decl" THEN {s.var}
         ELSE IF s.k = "if" THEN Declared(s.then) \cup Declared(ArmOf(s.else))
         ELSE {} : s \in ToSet(stmts)}

Meaning(prog) ==
  Exec([env |-> [x \in Declared(prog) |-> Undefined],
        out |-> <<>>, lines |-> <<>>, stuck |-> FALSE],
       prog)

-----------------------------------------------------------------------------
(* JLS 15.29 and 16: constant expressions and definite assignment.  A set  *)
(* of locals stands for "definitely assigned"; a vacuous case is all of    *)
(* them.                                                                   *)

RECURSIVE IsConstant(_)
IsConstant(e) ==
  CASE e.k \in {"lit", "str", "long"} -> TRUE
    [] e.k = "name" -> FALSE
    [] e.k \in {"not", "paren", "cast"} -> IsConstant(e.e)
    [] OTHER -> IsConstant(e.l) /\ IsConstant(e.r)

ConstantIs(e, b) == IsConstant(e) /\ Eval(<<>>, e) = Bit(b)

RECURSIVE AssignedWhen(_, _, _, _)
AssignedWhen(vars, before, e, b) ==
  LET when(x, c, A) == AssignedWhen(vars, A, x, c)
      decides == e.k = "or"
  IN IF IsConstant(e) THEN IF ConstantIs(e, b) THEN before ELSE vars
     ELSE CASE e.k = "paren" -> when(e.e, b, before)
            [] e.k = "not" -> when(e.e, ~ b, before)
            [] e.k \in {"and", "or"} ->
                 IF b = decides
                 THEN when(e.l, b, before) \cap when(e.r, b, when(e.l, ~ b, before))
                 ELSE when(e.r, b, when(e.l, b, before))
            [] OTHER -> before

RECURSIVE ReadsAssigned(_, _, _)
ReadsAssigned(vars, before, e) ==
  CASE e.k \in {"lit", "str", "long"} -> TRUE
    [] e.k = "name" -> e.var \in before
    [] e.k \in {"not", "paren", "cast"} -> ReadsAssigned(vars, before, e.e)
    [] e.k \in {"and", "or"} ->
         /\ ReadsAssigned(vars, before, e.l)
         /\ ReadsAssigned(vars, AssignedWhen(vars, before, e.l, e.k = "and"), e.r)
    [] OTHER -> ReadsAssigned(vars, before, e.l) /\ ReadsAssigned(vars, before, e.r)

RECURSIVE AssignedAfter(_, _, _)
AssignedAfter(vars, before, stmts) ==
  IF stmts = <<>> THEN before
  ELSE LET st == Head(stmts)
           after ==
             CASE st.k = "decl" -> IF st.init = <<>> THEN before \ {st.var}
                                   ELSE before \cup {st.var}
               [] st.k = "assign" -> before \cup {st.var}
               [] st.k = "println" -> before
               [] st.k = "if" ->
                    LET arm(b, body) ==
                          AssignedAfter(vars, AssignedWhen(vars, before, st.cond, b), body)
                    IN arm(TRUE, st.then) \cap arm(FALSE, ArmOf(st.else))
       IN AssignedAfter(vars, after, Tail(stmts))

RECURSIVE DefinitelyAssigned(_, _, _)
DefinitelyAssigned(vars, before, stmts) ==
  IF stmts = <<>> THEN TRUE
  ELSE LET st == Head(stmts)
           arm(b, body) ==
             DefinitelyAssigned(vars, AssignedWhen(vars, before, st.cond, b), body)
       IN /\ CASE st.k = "decl" ->
                    st.init = <<>> \/ ReadsAssigned(vars, before \ {st.var}, st.init[1])
               [] st.k \in {"assign", "println"} -> ReadsAssigned(vars, before, st.value)
               [] st.k = "if" -> /\ ReadsAssigned(vars, before, st.cond)
                                 /\ arm(TRUE, st.then)
                                 /\ arm(FALSE, ArmOf(st.else))
          /\ DefinitelyAssigned(vars, AssignedAfter(vars, before, <<st>>), Tail(stmts))

JavaAccepts(prog) == DefinitelyAssigned(Declared(prog), {}, prog)

=============================================================================
