------------------------------- MODULE Parser -------------------------------
(***************************************************************************)
(* The recursive-descent parser (parser.rs, parser/expression.rs,          *)
(* parser/statement.rs): from tokens to a tree.  A parse from a position   *)
(* gives a tree and the position after it, or Fail; the positions of       *)
(* nodes are left out, the lines of statements and closing braces kept.    *)
(***************************************************************************)
EXTENDS Naturals, Sequences

Fail == [tree |-> "none", at |-> 0]
Ok(tree, p) == [tree |-> tree, at |-> p]
Bind(r, F(_, _)) == IF r.at = 0 THEN Fail ELSE F(r.tree, r.at)
When(condition, r) == IF condition THEN r ELSE Fail

P(s) == [punct |-> s]
K(s) == [keyword |-> s]
Ps(S) == {P(s) : s \in S}
IsIdent(kind) == DOMAIN kind = {"ident"}

(* peek_kind stops at the last token, Eof.                                 *)
Kind(toks, p) == toks[IF p < Len(toks) THEN p ELSE Len(toks)].kind
Follow(toks, p, kinds) == \A i \in DOMAIN kinds : Kind(toks, p + i - 1) = kinds[i]

PrimitiveTypes == {"int", "long", "float", "double", "boolean", "char", "byte", "short"}
PrimitiveKinds == {K(t) : t \in PrimitiveTypes}
IsPrimitiveType(kind) == kind \in PrimitiveKinds

-----------------------------------------------------------------------------
(* Trees. *)

Literal(kind) == [k |-> "literal", is |-> kind]
Name(n) == [k |-> "name", name |-> n]
Unary(op, e) == [k |-> "unary", op |-> op, e |-> e]
Cast(ty, e) == [k |-> "cast", ty |-> ty, e |-> e]
Paren(e) == [k |-> "paren", e |-> e]
Infix(op, l, r) == [k |-> "infix", op |-> op, l |-> l, r |-> r]
Call(target, args) == [k |-> "call", target |-> target, args |-> args]

LocalDecl(line, ty, n, init) ==
  [k |-> "decl", line |-> line, ty |-> ty, name |-> n, init |-> init]
Assign(line, n, value) == [k |-> "assign", line |-> line, name |-> n, value |-> value]
CompoundAssign(line, n, op, value) ==
  [k |-> "compound", line |-> line, name |-> n, op |-> op, value |-> value]
ExprStmt(line, e) == [k |-> "expr", line |-> line, value |-> e]
If(line, cond, then, else) ==
  [k |-> "if", line |-> line, cond |-> cond, then |-> then, else |-> else]
Branch(braced, stmts) == [braced |-> braced, stmts |-> stmts]

-----------------------------------------------------------------------------
(* Expressions. *)

Levels ==
  << {"||"}, {"&&"}, {"|"}, {"^"}, {"&"}, {"==", "!="}, {"<", "<=", ">", ">="},
     {"<<", ">>", ">>>"}, {"+", "-"}, {"*", "/", "%"} >>
InfixKinds == Ps(UNION {Levels[i] : i \in DOMAIN Levels})
IsInfix(kind) == kind \in InfixKinds
LeftBp(op) == CHOOSE i \in DOMAIN Levels : op \in Levels[i]

RightBp(op) == LeftBp(op) + 1

UnaryKinds == Ps({"-", "~", "!"})
IsCast(toks, p) == IsPrimitiveType(Kind(toks, p + 1)) /\ Kind(toks, p + 2) = P(")")
IsLiteral(kind) ==
  \/ DOMAIN kind \cap {"int", "long", "float", "double", "char", "string"} # {}
  \/ kind \in {K("true"), K("false")}

RECURSIVE ExpressionBp(_, _, _), Climb(_, _, _, _), UnaryAt(_, _), Selected(_, _, _), Args(_, _, _)

ExpressionBp(toks, p, min) ==
  Bind(UnaryAt(toks, p), LAMBDA left, q : Climb(toks, q, left, min))

Climb(toks, p, left, min) ==
  LET kind == Kind(toks, p)
  IN IF ~ IsInfix(kind) \/ LeftBp(kind.punct) < min THEN Ok(left, p)
     ELSE Bind(ExpressionBp(toks, p + 1, RightBp(kind.punct)),
               LAMBDA right, q : Climb(toks, q, Infix(kind.punct, left, right), min))

Expression(toks, p) == ExpressionBp(toks, p, 0)

(* Arguments after the ones read, and the closing parenthesis.             *)
Args(toks, p, read) ==
  Bind(Expression(toks, p),
       LAMBDA e, q : CASE Kind(toks, q) = P(",") -> Args(toks, q + 1, Append(read, e))
                       [] Kind(toks, q) = P(")") -> Ok(Append(read, e), q + 1)
                       [] OTHER -> Fail)

(* name_or_call: names are the ones read, joined by dots.                  *)
Selected(toks, p, names) ==
  CASE Kind(toks, p) = P(".") ->
         When(IsIdent(Kind(toks, p + 1)),
              Selected(toks, p + 2, Append(names, Kind(toks, p + 1).ident)))
    [] Kind(toks, p) = P("(") ->
         Bind(IF Kind(toks, p + 1) = P(")") THEN Ok(<<>>, p + 2) ELSE Args(toks, p + 1, <<>>),
              LAMBDA args, q : Ok(Call(names, args), q))
    [] OTHER -> When(Len(names) = 1, Ok(Name(names[1]), p))

Primary(toks, p) ==
  LET kind == Kind(toks, p)
  IN CASE IsLiteral(kind) -> Ok(Literal(kind), p + 1)
       [] kind = P("(") ->
            Bind(Expression(toks, p + 1),
                 LAMBDA e, q : When(Kind(toks, q) = P(")"), Ok(Paren(e), q + 1)))
       [] IsIdent(kind) -> Selected(toks, p + 1, <<kind.ident>>)
       [] OTHER -> Fail

UnaryAt(toks, p) ==
  LET kind == Kind(toks, p)
  IN CASE kind \in UnaryKinds ->
            Bind(UnaryAt(toks, p + 1), LAMBDA e, q : Ok(Unary(kind.punct, e), q))
       [] kind = P("(") /\ IsCast(toks, p) ->
            Bind(UnaryAt(toks, p + 3),
                 LAMBDA e, q : Ok(Cast(Kind(toks, p + 1).keyword, e), q))
       [] OTHER -> Primary(toks, p)

-----------------------------------------------------------------------------
(* Statements. *)

One == Literal([int |-> 1])
Compounds == Ps({"+=", "-=", "*=", "/=", "%=", "&=", "|=", "^=", "<<=", ">>=", ">>>="})
CompoundOp(kind) ==
  IF kind \in Compounds THEN SubSeq(kind.punct, 1, Len(kind.punct) - 1) ELSE "none"
StepOp(kind) == IF kind = P("++") THEN "+" ELSE "-"
Steps == Ps({"++", "--"})
UnsupportedStatements ==
  {"while", "for", "do", "switch", "return", "throw", "try", "synchronized", "assert",
   "break", "continue"}

(* An expression, a semicolon and the statement it ends.                   *)
EndingIn(toks, p, Stmt(_)) ==
  Bind(Expression(toks, p), LAMBDA e, q : When(Kind(toks, q) = P(";"), Ok(Stmt(e), q + 1)))

LocalDeclaration(toks, p) ==
  LET decl(init) == LocalDecl(toks[p].line, Kind(toks, p).keyword, Kind(toks, p + 1).ident, init)
  IN When(IsIdent(Kind(toks, p + 1)),
          IF Kind(toks, p + 2) = P("=") THEN EndingIn(toks, p + 3, LAMBDA e : decl(<<e>>))
          ELSE When(Kind(toks, p + 2) = P(";"), Ok(decl(<<>>), p + 3)))

PrefixStep(toks, p) ==
  When(IsIdent(Kind(toks, p + 1)) /\ Kind(toks, p + 2) = P(";"),
       Ok(CompoundAssign(toks[p].line, Kind(toks, p + 1).ident, StepOp(Kind(toks, p)), One), p + 3))

IdentStatement(toks, p) ==
  LET line == toks[p].line
      n == Kind(toks, p).ident
      next == Kind(toks, p + 1)
  IN IF n \in UnsupportedStatements THEN Fail
     ELSE CASE next = P("=") -> EndingIn(toks, p + 2, LAMBDA e : Assign(line, n, e))
            [] CompoundOp(next) # "none" ->
                 EndingIn(toks, p + 2, LAMBDA e : CompoundAssign(line, n, CompoundOp(next), e))
            [] next \in Steps -> When(Kind(toks, p + 2) = P(";"),
                                      Ok(CompoundAssign(line, n, StepOp(next), One), p + 3))
            [] OTHER -> EndingIn(toks, p, LAMBDA e : ExprStmt(line, e))

RECURSIVE Statement(_, _), Statements(_, _, _)

(* Statements after the ones read, and the closing brace.                  *)
Statements(toks, p, read) ==
  IF Kind(toks, p) = P("}") THEN Ok(read, p + 1)
  ELSE Bind(Statement(toks, p), LAMBDA s, q : Statements(toks, q, Append(read, s)))

BlockOrStatement(toks, p) ==
  IF Kind(toks, p) = P("{")
  THEN Bind(Statements(toks, p + 1, <<>>), LAMBDA stmts, q : Ok(Branch(TRUE, stmts), q))
  ELSE Bind(Statement(toks, p),
            LAMBDA s, q : When(s.k # "decl", Ok(Branch(FALSE, <<s>>), q)))

IfStatement(toks, p) ==
  LET made(cond, then, else) == If(toks[p].line, cond, then, else)
      afterCond(cond, q) ==
        Bind(BlockOrStatement(toks, q + 1),
             LAMBDA then, r :
               IF Kind(toks, r) # K("else") THEN Ok(made(cond, then, <<>>), r)
               ELSE Bind(BlockOrStatement(toks, r + 1),
                         LAMBDA else, s : Ok(made(cond, then, <<else>>), s)))
  IN When(Kind(toks, p + 1) = P("("),
          Bind(Expression(toks, p + 2),
               LAMBDA cond, q : When(Kind(toks, q) = P(")"), afterCond(cond, q))))

Statement(toks, p) ==
  LET kind == Kind(toks, p)
  IN CASE kind = K("if") -> IfStatement(toks, p)
       [] IsPrimitiveType(kind) -> LocalDeclaration(toks, p)
       [] kind \in Steps -> PrefixStep(toks, p)
       [] IsIdent(kind) -> IdentStatement(toks, p)
       [] OTHER -> Fail

-----------------------------------------------------------------------------
(* The class. *)

RECURSIVE Params(_, _, _), Methods(_, _, _)

(* One parameter, and the ones after it.                                   *)
Params(toks, p, read) ==
  LET array == Follow(toks, p, <<[ident |-> "String"], P("["), P("]")>>)
      at == IF array THEN p + 3 ELSE p + 1
      ty == IF array THEN "String[]" ELSE Kind(toks, p).keyword
      param == [ty |-> ty, name |-> Kind(toks, at).ident]
  IN When((array \/ IsPrimitiveType(Kind(toks, p))) /\ IsIdent(Kind(toks, at)),
          IF Kind(toks, at + 1) = P(",") THEN Params(toks, at + 2, Append(read, param))
          ELSE Ok(Append(read, param), at + 1))

MethodAt(toks, p) ==
  LET afterParams(params, q) ==
        When(Follow(toks, q, <<P(")"), P("{")>>),
             Bind(Statements(toks, q + 2, <<>>),
                  LAMBDA body, r :
                    Ok([name |-> Kind(toks, p + 3).ident, params |-> params, body |-> body,
                        closeLine |-> toks[r - 1].line], r)))
  IN When(/\ Follow(toks, p, <<K("public"), K("static"), K("void")>>)
          /\ IsIdent(Kind(toks, p + 3)) /\ Kind(toks, p + 4) = P("("),
          Bind(IF Kind(toks, p + 5) = P(")") THEN Ok(<<>>, p + 5) ELSE Params(toks, p + 5, <<>>),
               afterParams))

Methods(toks, p, read) ==
  IF Kind(toks, p) = P("}") THEN Ok(read, p + 1)
  ELSE Bind(MethodAt(toks, p), LAMBDA m, q : Methods(toks, q, Append(read, m)))

(* compilation_unit and class. *)
Parse(toks) ==
  When(/\ Follow(toks, 1, <<K("public"), K("class")>>)
       /\ IsIdent(Kind(toks, 3)) /\ Kind(toks, 4) = P("{"),
       Bind(Methods(toks, 5, <<>>),
            LAMBDA methods, q :
              When(q = Len(toks),
                   Ok([name |-> Kind(toks, 3).ident, line |-> toks[1].line,
                       methods |-> methods, closeLine |-> toks[q - 1].line], q))))

=============================================================================
