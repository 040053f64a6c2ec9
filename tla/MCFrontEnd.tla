----------------------------- MODULE MCFrontEnd -----------------------------
(***************************************************************************)
(* The texts and programs of the front run.                                *)
(***************************************************************************)
EXTENDS FrontEnd, FiniteSetsExt

RECURSIVE Strings(_, _)
Strings(S, n) == IF n = 0 THEN {""} ELSE {s \o c : s \in Strings(S, n - 1), c \in S}
UpToLength(S, n) == UNION {Strings(S, m) : m \in 0..n}

(* Operators, comments and line terminators; numbers; characters.          *)
OperatorTexts == UpToLength(CharsOf(">=/*+") \cup {"\r", "\n", "a"}, 4)
                   \cup UpToLength(CharsOf("<>=&-"), 4)
                   \cup {"/*/*/a", "/***/a", "/*\r\n*/a\n\r/"}
NumberTexts == UpToLength(CharsOf("0178_.xbeLf"), 4) \cup {"1e+1", "1.5e-1f", "0x1_7L", "0177"}
QuotedTexts ==
  {"\"" \o s \o "\"" :
     s \in UpToLength(CharsOf("\\047u\""), 4) \cup {"n", "\\n", "\\u0047", "\\uu004a"}}
    \cup {"'" \o s \o "'" : s \in UpToLength(CharsOf("\\047u'"), 4) \cup {"\\u0047", "\\uu004A"}}

AllTexts == OperatorTexts \cup NumberTexts \cup QuotedTexts

-----------------------------------------------------------------------------
(* Every operator of every level beside and inside every other, and values *)
(* of every type at the ends of their ranges.                              *)

Ops ==
  {"||", "&&", "|", "^", "&", "==", "!=", "<", "<=", ">", ">=", "<<", ">>", ">>>", "+", "-",
   "*", "/", "%"}
Smallest == I(-128)
Unaries(S) == {Unary(op, e) : op \in {"-", "!", "~"}, e \in S} \cup {Cast("byte", e) : e \in S}
Small == {Infix(op, Local(0), Smallest) : op \in Ops} \cup Unaries({Local(0), Smallest})
Beside(op, e) == {Infix(op, e, Local(1)), Infix(op, Local(0), e)}

Values ==
  {I(0), I(127), Smallest, L(-512), L(511), F("1"), F("-0"), F("NaN"), D("-1.5"), D("inf"),
   D("-inf"), Bool(TRUE), Bool(FALSE), C(10), C(0), C(39), C(92), C(97), C(233), C(65535)}

Body(stmts) == Prog(FALSE, "Fuzz0", stmts)
Printing(es) == Body(FoldSet(LAMBDA e, stmts : Append(stmts, PrintExpr(e)), <<>>, es))

Grouped ==
  {Paren(Infix("+", Local(0), Local(1))), Infix("*", Paren(Infix("*", Local(0), Local(1))), I(1)),
   Infix("-", Local(0), Paren(Unary("-", I(-1)))), Cast("int", Paren(Local(0)))}

Statements1 ==
  << Decl("int", 0, <<>>), Set(0, I(-1)),
     IfElse(Infix("<", Local(0), I(1)), <<Compound(0, ">>>", I(1)), IncDec(0, TRUE, "-")>>,
            << <<IfElse(Bool(TRUE), <<>>, <<>>), IncDec(0, FALSE, "+")>> >>),
     PrintStr("a b") >>
MixedBody ==
  << Decl("int", 0, <<I(1)>>), Decl("int", 1, <<I(2)>>), Decl("int", 2, <<I(3)>>),
     PrintExpr(Infix("+", Local(0), Local(1))) >>

AllPrograms ==
  {Printing(Beside(op, e)) : op \in Ops, e \in Small}
    \cup {Printing(Unaries(Small)), Printing(Values), Printing(Grouped)}
    \cup {Body(Statements1), Prog(TRUE, "Fuzz3", MixedBody)}

=============================================================================
