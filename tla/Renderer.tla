------------------------------ MODULE Renderer ------------------------------
(***************************************************************************)
(* The fuzzer's programs (fuzz/model.rs) and their text (fuzz/render.rs).  *)
(* Expressions are the parser's, except that locals are numbers and        *)
(* literals are values: possibly negative, NaN or infinite.                *)
(***************************************************************************)
EXTENDS Ascii, Integers, TLC

Val(v) == [k |-> "val", v |-> v]
I(n) == Val([int |-> n])
L(n) == Val([long |-> n])
F(x) == Val([float |-> x])       \* Rust's decimal text of a finite x, "NaN" or "inf"
D(x) == Val([double |-> x])
Bool(b) == Val([bool |-> b])
C(c) == Val([char |-> c])
Local(i) == [k |-> "local", i |-> i]

Decl(ty, i, init) == [k |-> "decl", ty |-> ty, local |-> i, init |-> init]
Set(i, value) == [k |-> "assign", local |-> i, value |-> value]
Compound(i, op, value) == [k |-> "compound", local |-> i, op |-> op, value |-> value]
IncDec(i, prefix, op) == [k |-> "incdec", local |-> i, prefix |-> prefix, op |-> op]
PrintStr(s) == [k |-> "printstr", s |-> s]
PrintExpr(e) == [k |-> "print", value |-> e]
IfElse(cond, then, else) == [k |-> "if", cond |-> cond, then |-> then, else |-> else]

-----------------------------------------------------------------------------
(* Values. *)

IntStr(n) == IF n < 0 THEN "-" \o ToString(-n) ELSE ToString(n)

Has(s, c) == \E i \in 1..Len(s) : SubSeq(s, i, i) = c
FloatStr(x, suffix) ==
  CASE x = "NaN" -> "(0.0" \o suffix \o " / 0.0" \o suffix \o ")"
    [] x = "inf" -> "(1.0" \o suffix \o " / 0.0" \o suffix \o ")"
    [] x = "-inf" -> "(-1.0" \o suffix \o " / 0.0" \o suffix \o ")"
    [] OTHER -> x \o (IF Has(x, ".") THEN "" ELSE ".0") \o suffix

Named == 10 :> "n" @@ 13 :> "r" @@ 9 :> "t" @@ 8 :> "b" @@ 12 :> "f" @@ 0 :> "0"
HexDigit(n) == SubSeq("0123456789abcdef", n + 1, n + 1)
CharStr(c) ==
  LET body ==
        CASE c \in DOMAIN Named -> "\\" \o Named[c]
          [] c \in {39, 92} -> "\\" \o Glyph(c)
          [] c \in (32..126) \ {39, 92} -> Glyph(c)
          [] OTHER -> "\\u" \o HexDigit(c \div 4096) \o HexDigit((c \div 256) % 16)
                            \o HexDigit((c \div 16) % 16) \o HexDigit(c % 16)
  IN "'" \o body \o "'"

RenderVal(v) ==
  CASE DOMAIN v = {"int"} -> IntStr(v.int)
    [] DOMAIN v = {"long"} -> IntStr(v.long) \o "L"
    [] DOMAIN v = {"float"} -> FloatStr(v.float, "f")
    [] DOMAIN v = {"double"} -> FloatStr(v.double, "")
    [] DOMAIN v = {"bool"} -> IF v.bool THEN "true" ELSE "false"
    [] DOMAIN v = {"char"} -> CharStr(v.char)

-----------------------------------------------------------------------------
(* Expressions, with the parentheses the grammar requires. *)

InfixPrec(op) ==
  CASE op = "||" -> 1
    [] op = "&&" -> 2
    [] op = "|" -> 3
    [] op = "^" -> 4
    [] op = "&" -> 5
    [] op \in {"==", "!="} -> 6
    [] op \in {"<", "<=", ">", ">="} -> 7
    [] op \in {"<<", ">>", ">>>"} -> 8
    [] op \in {"+", "-"} -> 9
    [] op \in {"*", "/", "%"} -> 10
ExprPrec(e) ==
  CASE e.k = "infix" -> InfixPrec(e.op)
    [] e.k \in {"unary", "cast"} -> 11
    [] OTHER -> 12

(* Mutant of Parenthesized: none around a right operand of the same level. *)
ParenthesizedLower(prec, parent, right) == prec < parent

Parenthesized(prec, parent, right) == prec < parent \/ (right /\ prec = parent)

RECURSIVE RenderExprAt(_, _, _)
RenderExprAt(e, parent, right) ==
  LET prec == ExprPrec(e)
      operand(x) == RenderExprAt(x, prec, FALSE)
      body ==
        CASE e.k = "val" -> RenderVal(e.v)
          [] e.k = "local" -> "v" \o ToString(e.i)
          [] e.k = "unary" -> (IF e.op = "-" THEN "- " ELSE e.op) \o operand(e.e)
          [] e.k = "paren" -> "(" \o RenderExprAt(e.e, 0, FALSE) \o ")"
          [] e.k = "cast" -> "(" \o e.ty \o ") " \o operand(e.e)
          [] e.k = "infix" ->
               operand(e.l) \o " " \o e.op \o " " \o RenderExprAt(e.r, prec, TRUE)
  IN IF e.k # "paren" /\ Parenthesized(prec, parent, right) THEN "(" \o body \o ")" ELSE body

RenderExpr(e) == RenderExprAt(e, 0, FALSE)

-----------------------------------------------------------------------------
(* Statements and programs; an indentation level is four spaces.           *)

Pad(indent) == SubSeq("                        ", 1, 4 * indent)
Var(i) == "v" \o ToString(i)

RECURSIVE RenderStmt(_, _), RenderStmts(_, _)
RenderStmts(stmts, indent) ==
  IF stmts = <<>> THEN "" ELSE RenderStmt(Head(stmts), indent) \o RenderStmts(Tail(stmts), indent)

RenderStmt(s, indent) ==
  Pad(indent) \o
  CASE s.k = "decl" ->
         s.ty \o " " \o Var(s.local)
           \o (IF s.init = <<>> THEN "" ELSE " = " \o RenderExpr(s.init[1])) \o ";\n"
    [] s.k = "assign" -> Var(s.local) \o " = " \o RenderExpr(s.value) \o ";\n"
    [] s.k = "compound" ->
         Var(s.local) \o " " \o s.op \o "= " \o RenderExpr(s.value) \o ";\n"
    [] s.k = "incdec" ->
         (IF s.prefix THEN s.op \o s.op \o Var(s.local) ELSE Var(s.local) \o s.op \o s.op)
           \o ";\n"
    [] s.k = "printstr" -> "System.out.println(\"" \o s.s \o "\");\n"
    [] s.k = "print" -> "System.out.println(" \o RenderExpr(s.value) \o ");\n"
    [] s.k = "if" ->
         "if (" \o RenderExpr(s.cond) \o ") {\n" \o RenderStmts(s.then, indent + 1)
           \o Pad(indent) \o "}"
           \o (IF s.else = <<>> THEN "\n"
               ELSE " else {\n" \o RenderStmts(s.else[1], indent + 1) \o Pad(indent) \o "}\n")

MainLine == "    public static void main(String[] args) {"
ClassLine(class) == "public class " \o class \o " {"

(* render_stmt_with_ending; the last character is the line feed.           *)
WithEnding(s, ending) ==
  LET line == RenderStmt(s, 2) IN SubSeq(line, 1, Len(line) - 1) \o ending

RenderMixed(class, body) ==
  "// Scheduled: LF, bare CR, and CRLF each count once.\n"
    \o ClassLine(class) \o "\r" \o MainLine \o "\r\n"
    \o WithEnding(body[1], "\r") \o "        // A bare CR must end this comment.\r"
    \o WithEnding(body[2], "\n") \o "        // CRLF must end this comment once.\r\n"
    \o WithEnding(body[3], "\r\n") \o WithEnding(body[4], "\n")
    \o "    }\r\n}\n"

Prog(mixed, class, body) == [mixed |-> mixed, class |-> class, body |-> body]
Render(prog) ==
  IF prog.mixed THEN RenderMixed(prog.class, prog.body)
  ELSE ClassLine(prog.class) \o "\n" \o MainLine \o "\n"
         \o RenderStmts(prog.body, 2) \o "    }\n}\n"

=============================================================================
