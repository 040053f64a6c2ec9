------------------------------ MODULE FrontEnd ------------------------------
(***************************************************************************)
(* The lexer and the parser over texts: some written at random, some       *)
(* rendered by the fuzzer from its programs.                               *)
(***************************************************************************)
EXTENDS Lexer, Parser, Renderer

CONSTANTS Texts, Programs

VARIABLES
  prog,    \* the program text was rendered from, if any
  unit     \* the compilation unit, once parsed

vars == <<lexerVars, prog, unit>>

Init ==
  /\ unit = <<>>
  /\ \/ prog = <<>> /\ \E source \in Texts : LexInit(source)
     \/ \E program \in Programs : prog = <<program>> /\ LexInit(Render(program))

ParseUnit ==
  /\ status = "lexed"
  /\ LET r == Parse(tokens)
     IN IF r.at = 0 THEN status' = "refused" /\ UNCHANGED unit
        ELSE status' = "parsed" /\ unit' = <<r.tree>>
  /\ UNCHANGED <<text, pos, line, tokens, prog>>

Next == (Lex /\ UNCHANGED <<prog, unit>>) \/ ParseUnit

Spec == Init /\ [][Next]_vars

-----------------------------------------------------------------------------
(* java_line_count (fuzz/run.rs): the lines of a text, for the statistics. *)

RECURSIVE Terminators(_, _)
Terminators(s, i) ==
  CASE i > Len(s) -> 0
    [] SubSeq(s, i, i) = "\r" ->
         1 + Terminators(s, IF i < Len(s) /\ SubSeq(s, i + 1, i + 1) = "\n" THEN i + 2 ELSE i + 1)
    [] SubSeq(s, i, i) = "\n" -> 1 + Terminators(s, i + 1)
    [] OTHER -> Terminators(s, i + 1)
EndsOpen(s) == s # "" /\ SubSeq(s, Len(s), Len(s)) \notin {"\r", "\n"}
JavaLineCount(s) == Terminators(s, 1) + (IF EndsOpen(s) THEN 1 ELSE 0)

-----------------------------------------------------------------------------
(* Properties. *)

(* A text that Java can read is read as Java reads it: every token the     *)
(* longest there is, literals by their value, nothing but white space and  *)
(* comments left out; and each token is on the line the fuzzer's line      *)
(* count gives for the text up to its first character (run, number,        *)
(* decode_escape, punct, bump, java_line_count).                           *)
Java == INSTANCE JavaLexis
JavaTokens(elements) ==
  LET spelled(e) == SubSeq(text, e.first, e.end - 1)
      kept == SelectSeq(elements, LAMBDA e : Java!IsToken(spelled(e)))
  IN [i \in DOMAIN kept |->
        [kind |-> Java!TokenKind(spelled(kept[i])),
         line |-> JavaLineCount(SubSeq(text, 1, kept[i].first)),
         first |-> kept[i].first, end |-> kept[i].end]]
LexesAsJava ==
  prog = <<>> /\ status \in {"lexed", "parsed", "refused"} =>
    LET elements == Java!Elements(text, 1)
    IN elements # Java!Unreadable =>
         /\ tokens # <<>> /\ tokens[Len(tokens)].kind = Eof
         /\ SubSeq(tokens, 1, Len(tokens) - 1) = JavaTokens(elements)

(* What the parser has to make of a program.  Added tells whether a tree   *)
(* may have parentheses the program has not.                               *)
DecimalText(x) == LET s == IF Has(x, ".") THEN x ELSE x \o ".0"
                  IN [i \in 1..Len(s) |-> SubSeq(s, i, i)]
ValTree(v) ==
  LET sign == IF DOMAIN v \subseteq {"int", "long"}
              THEN v[CHOOSE f \in DOMAIN v : TRUE] < 0
              ELSE DOMAIN v \subseteq {"float", "double"}
                     /\ SubSeq(v[CHOOSE f \in DOMAIN v : TRUE], 1, 1) = "-"
      magnitude(x) == IF sign THEN SubSeq(x, 2, Len(x)) ELSE x
      number(kind) == IF sign THEN Unary("-", Literal(kind)) ELSE Literal(kind)
      single == DOMAIN v = {"float"}
      float(x) == IF single THEN [float |-> DecimalText(x)] ELSE [double |-> DecimalText(x)]
      special(x) ==
        Paren(Infix("/", CASE x = "NaN" -> Literal(float("0.0"))
                           [] x = "inf" -> Literal(float("1.0"))
                           [] x = "-inf" -> Unary("-", Literal(float("1.0"))),
                    Literal(float("0.0"))))
      floating(x) == IF x \in {"NaN", "inf", "-inf"} THEN special(x)
                     ELSE number(float(magnitude(x)))
  IN CASE DOMAIN v = {"int"} ->
            number([int |-> Signed(IF sign THEN - v.int ELSE v.int, IntBits)])
       [] DOMAIN v = {"long"} ->
            number([long |-> Signed(IF sign THEN - v.long ELSE v.long, LongBits)])
       [] DOMAIN v = {"float"} -> floating(v.float)
       [] DOMAIN v = {"double"} -> floating(v.double)
       [] DOMAIN v = {"bool"} -> Literal(K(IF v.bool THEN "true" ELSE "false"))
       [] DOMAIN v = {"char"} -> Literal(v)

RECURSIVE Reads(_, _), ReadsAll(_, _, _), LineCount(_)
Reads(t, e) ==
  \/ t.k = "paren" /\ e.k \in {"infix", "unary", "cast"} /\ Reads(t.e, e)
  \/ e.k = "val" /\ t = ValTree(e.v)
  \/ e.k = "local" /\ t = Name(Var(e.i))
  \/ /\ t.k = e.k
     /\ CASE e.k = "paren" -> Reads(t.e, e.e)
          [] e.k = "unary" -> t.op = e.op /\ Reads(t.e, e.e)
          [] e.k = "cast" -> t.ty = e.ty /\ Reads(t.e, e.e)
          [] e.k = "infix" -> t.op = e.op /\ Reads(t.l, e.l) /\ Reads(t.r, e.r)
          [] OTHER -> FALSE

LineCount(stmts) ==
  IF stmts = <<>> THEN 0
  ELSE LET s == Head(stmts)
       IN LineCount(Tail(stmts)) +
          IF s.k # "if" THEN 1
          ELSE 2 + LineCount(s.then) + IF s.else = <<>> THEN 0 ELSE 1 + LineCount(s.else[1])

PrintlnOf(e) == Call(<<"System", "out", "println">>, <<e>>)
ReadsStmt(t, s, at) ==
  /\ t.line = at
  /\ CASE s.k = "decl" ->
            /\ t = LocalDecl(at, s.ty, Var(s.local), t.init) /\ Len(t.init) = Len(s.init)
            /\ \A i \in DOMAIN s.init : Reads(t.init[i], s.init[i])
       [] s.k = "assign" -> t = Assign(at, Var(s.local), t.value) /\ Reads(t.value, s.value)
       [] s.k = "compound" ->
            t = CompoundAssign(at, Var(s.local), s.op, t.value) /\ Reads(t.value, s.value)
       [] s.k = "incdec" -> t = CompoundAssign(at, Var(s.local), s.op, One)
       [] s.k = "printstr" ->
            t = ExprStmt(at, PrintlnOf(Literal([string |->
                  [i \in 1..Len(s.s) |-> CodePoint(SubSeq(s.s, i, i))]])))
       [] s.k = "print" ->
            /\ t.k = "expr" /\ t.value.k = "call" /\ Len(t.value.args) = 1
            /\ t.value = PrintlnOf(t.value.args[1]) /\ Reads(t.value.args[1], s.value)
       [] s.k = "if" ->
            /\ t.k = "if" /\ Reads(t.cond, s.cond)
            /\ t.then.braced /\ ReadsAll(t.then.stmts, s.then, at + 1)
            /\ Len(t.else) = Len(s.else)
            /\ \A i \in DOMAIN s.else :
                 ReadsAll(t.else[i].stmts, s.else[i], at + 2 + LineCount(s.then))
ReadsAll(ts, stmts, at) ==
  /\ Len(ts) = Len(stmts)
  /\ \A i \in DOMAIN stmts : ReadsStmt(ts[i], stmts[i], at + LineCount(SubSeq(stmts, 1, i - 1)))

MixedLines == <<4, 6, 8, 9>>
ReadsUnit(u, p) ==
  LET closing == IF p.mixed THEN 10 ELSE 3 + LineCount(p.body)
      body == u.methods[1].body
  IN /\ u.name = p.class /\ u.line = IF p.mixed THEN 2 ELSE 1
     /\ Len(u.methods) = 1 /\ u.closeLine = closing + 1
     /\ u.methods[1] = [name |-> "main", params |-> << [ty |-> "String[]", name |-> "args"] >>,
                        body |-> body, closeLine |-> closing]
     /\ IF p.mixed THEN \A i \in 1..4 : ReadsStmt(body[i], p.body[i], MixedLines[i])
        ELSE ReadsAll(body, p.body, 3)

(* Parentheses that could be dropped: the text would still be read as the  *)
(* same program.                                                           *)
RECURSIVE Closing(_, _)
Closing(p, depth) ==
  CASE tokens[p].kind = P("(") -> Closing(p + 1, depth + 1)
    [] tokens[p].kind = P(")") -> IF depth = 1 THEN p ELSE Closing(p + 1, depth - 1)
    [] OTHER -> Closing(p + 1, depth)
Without(p) ==
  LET q == Closing(p, 0)
  IN SubSeq(tokens, 1, p - 1) \o SubSeq(tokens, p + 1, q - 1) \o SubSeq(tokens, q + 1, Len(tokens))
Redundant(p) ==
  LET r == Parse(Without(p)) IN r.at # 0 /\ ReadsUnit(r.tree, prog[1])

(* What the fuzzer generates is what njavac compiles: the text rendered    *)
(* from a program is accepted, every operator has the operands it had in   *)
(* the program, every statement is on the line it was written on, grouping *)
(* in the program is kept, and parentheses are added only where the        *)
(* program would change without them (render_expr_at, expression_bp,       *)
(* unary, statement).                                                      *)
RoundTrip ==
  prog # <<>> /\ status \in {"parsed", "refused"} =>
    /\ unit # <<>> /\ ReadsUnit(unit[1], prog[1])
    /\ \A p \in DOMAIN tokens : tokens[p].kind = P("(") => ~ Redundant(p)

=============================================================================
