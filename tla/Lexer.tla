------------------------------- MODULE Lexer -------------------------------
(***************************************************************************)
(* The lexer (lexer.rs, lexer/literal.rs, lexer/punctuator.rs), one token  *)
(* or one piece of trivia a step.  The text is a string of ASCII           *)
(* characters; a position is that of the next character, from 1.           *)
(***************************************************************************)
EXTENDS Ascii, Integers

CONSTANTS IntBits, LongBits    \* the widths of int and long literals

VARIABLES
  text,     \* the source
  pos, line,
  tokens,   \* each with its line and the positions [first, end)
  status    \* "lexing", "lexed", "parsed" or "refused"

lexerVars == <<text, pos, line, tokens, status>>

Char(p) == IF p \in 1..Len(text) THEN SubSeq(text, p, p) ELSE ""     \* peek
Chars(p, q) == [i \in 1..(q - p) |-> Char(p + i - 1)]

Decimal == CharsOf("0123456789")
Octal == CharsOf("01234567")
Hexadecimal == CharsOf("0123456789abcdefABCDEF")
IdentStart == CharsOf("abcdefghijklmnopqrstuvwxyzABCDEFGHIJKLMNOPQRSTUVWXYZ_$")
IdentContinue == IdentStart \cup Decimal
Blank == {" ", "\t", "\r", "\n"}

(* The end of the run of members of S from p, and the first one after it.  *)
While(p, S) ==
  CHOOSE q \in p..(Len(text) + 1) : Char(q) \notin S /\ \A i \in p..(q - 1) : Char(i) \in S
Until(p, S) ==
  CHOOSE q \in p..(Len(text) + 1) :
    Char(q) \in S \cup {""} /\ \A i \in p..(q - 1) : Char(i) \notin S

(* What bump adds to the line over [p, q).                                 *)
EndsLine(i) == Char(i) = "\r" \/ (Char(i) = "\n" /\ Char(i - 1) # "\r")

LinesIn(p, q) == Len(SelectSeq([i \in 1..(q - p) |-> p + i - 1], EndsLine))

-----------------------------------------------------------------------------
(* Scanners: the kind of token from p, and its end; no end when refused.   *)

Scanned(kind, end) == [kind |-> kind, end |-> end]
Refused == Scanned("none", 0)

Keywords ==
  {"public", "class", "static", "void", "int", "long", "float", "double", "boolean",
   "char", "byte", "short", "true", "false", "if", "else"}

Word(p) ==
  LET q == While(p, IdentContinue)
      s == SubSeq(text, p, q - 1)
  IN Scanned(IF s \in Keywords THEN [keyword |-> s] ELSE [ident |-> s], q)

Singles == CharsOf("{}()[];,.~")
BeforeEq == CharsOf("!=*/%^")
Doubled == CharsOf("+-&|")
PunctEnd(p) ==
  LET Then(q, S) == IF Char(q) \in S THEN q + 1 ELSE q
      c == Char(p)
  IN CASE c \in Singles -> p + 1
       [] c \in BeforeEq -> Then(p + 1, {"="})
       [] c \in Doubled -> Then(p + 1, {c, "="})
       [] c = "<" -> Then(Then(p + 1, {"<"}), {"="})
       [] c = ">" -> IF Char(p + 1) # ">" THEN Then(p + 1, {"="})
                     ELSE Then(Then(p + 2, {">"}), {"="})
       [] OTHER -> 0

(* Mutant of Punct: >>>= is read as >>> and =.                             *)
PunctAtMostThree(p) ==
  LET q == IF PunctEnd(p) > p + 3 THEN p + 3 ELSE PunctEnd(p)
  IN Scanned([punct |-> SubSeq(text, p, q - 1)], q)

Punct(p) == Scanned([punct |-> SubSeq(text, p, PunctEnd(p) - 1)], PunctEnd(p))

(* The value of a digit, and of digits as a pattern of w bits.             *)
Digit(c) ==
  (CHOOSE i \in 1..22 : SubSeq("0123456789abcdefABCDEF", i, i) = c)
    - (IF c \in CharsOf("ABCDEF") THEN 7 ELSE 1)
Signed(v, w) == IF v >= 2^(w - 1) THEN v - 2^w ELSE v
FromStrRadix(digits, radix, w, K(_), end) ==
  LET value[i \in 0..Len(digits)] ==
        IF i = 0 THEN 0 ELSE value[i - 1] * radix + Digit(digits[i])
  IN IF \/ digits = <<>>
        \/ \E i \in DOMAIN digits : digits[i] \notin Hexadecimal \/ Digit(digits[i]) >= radix
        \/ value[Len(digits)] >= 2^w
     THEN Refused
     ELSE Scanned(K(Signed(value[Len(digits)], w)), end)

IntLit(n) == [int |-> n]
LongLit(n) == [long |-> n]
Integer(digits, radix, q) ==
  IF Char(q) \in {"L", "l"}
  THEN FromStrRadix(digits, radix, LongBits, LongLit, q + 1)
  ELSE FromStrRadix(digits, radix, IntBits, IntLit, q)

Stripped(p, q) == SelectSeq(Chars(p, q), LAMBDA c : c # "_")

(* Digits with a fraction and an exponent; str::parse takes their text     *)
(* unless the exponent has no digits.                                      *)
Floating(p, q) ==
  LET t == [i \in 1..Len(Stripped(p, q)) |->
              IF Stripped(p, q)[i] = "E" THEN "e" ELSE Stripped(p, q)[i]]
      single == Char(q) \in {"f", "F"}
  IN IF t[Len(t)] \in {"e", "+", "-"} THEN Refused
     ELSE Scanned(IF single THEN [float |-> t] ELSE [double |-> t],
                  IF single \/ Char(q) \in {"d", "D"} THEN q + 1 ELSE q)

Number(p) ==
  LET prefixed == Char(p) = "0" /\ Char(p + 1) \in CharsOf("xXbB")
      radix == IF Char(p + 1) \in {"x", "X"} THEN 16 ELSE 2
      digitsEnd == While(p + 2, {"_"} \cup IF radix = 16 THEN Hexadecimal ELSE {"0", "1"})
      run(q) == While(q, Decimal \cup {"_"})
      whole == run(p)
      fraction == IF Char(whole) = "." THEN run(whole + 1) ELSE whole
      exponent == IF Char(fraction) \notin {"e", "E"} THEN fraction
                  ELSE IF Char(fraction + 1) \in {"+", "-"} THEN run(fraction + 2)
                  ELSE run(fraction + 1)
      digits == Stripped(p, exponent)
      octal == Len(digits) > 1 /\ digits[1] = "0"
  IN CASE prefixed -> Integer(Stripped(p + 2, digitsEnd), radix, digitsEnd)
       [] ~ prefixed /\ \/ Char(exponent) \in CharsOf("fFdD")
                        \/ exponent > whole /\ Char(exponent) \notin {"L", "l"} ->
            Floating(p, exponent)
       [] OTHER -> Integer(digits, IF octal THEN 8 ELSE 10, exponent)

-----------------------------------------------------------------------------
(* Character and string literals. *)

Escapes == [t |-> 9, n |-> 10, r |-> 13, b |-> 8, f |-> 12, s |-> 32]
Quoted == {"\"", "'", "\\"}

(* decode_escape: the code point of the escape from p, after its backslash. *)
DecodeEscape(p) ==
  LET c == Char(p)
      most == IF c \in CharsOf("0123") THEN p + 3 ELSE p + 2
      octalEnd == CHOOSE q \in (p + 1)..most :
                    /\ \A i \in p..(q - 1) : Char(i) \in Octal
                    /\ q = most \/ Char(q) \notin Octal
      hex == While(p, {"u"})
      at(q, radix, n) == Digit(Char(q)) * radix^n
  IN CASE c \in Octal ->
            Scanned(LET n == octalEnd - p
                    IN at(octalEnd - 1, 8, 0) + (IF n > 1 THEN at(octalEnd - 2, 8, 1) ELSE 0)
                         + (IF n > 2 THEN at(p, 8, 2) ELSE 0), octalEnd)
       [] c \in DOMAIN Escapes -> Scanned(Escapes[c], p + 1)
       [] c \in Quoted -> Scanned(CodePoint(c), p + 1)
       [] c = "u" /\ \A i \in hex..(hex + 3) : Char(i) \in Hexadecimal ->
            Scanned(at(hex, 16, 3) + at(hex + 1, 16, 2) + at(hex + 2, 16, 1) + at(hex + 3, 16, 0),
                    hex + 4)
       [] OTHER -> Refused

(* One character of a literal, escaped or not.                             *)
Unit(p) ==
  IF Char(p) = "\\" THEN DecodeEscape(p + 1) ELSE Scanned(CodePoint(Char(p)), p + 1)

CharLiteral(p) ==
  IF Char(p + 1) \in {"", "'"} \/ Unit(p + 1).end = 0 \/ Char(Unit(p + 1).end) # "'"
  THEN Refused
  ELSE Scanned([char |-> Unit(p + 1).kind], Unit(p + 1).end + 1)

(* A String cannot hold half of a surrogate pair.                          *)
Scalar(cp) == IF cp \in 55296..57343 THEN 65533 ELSE cp

RECURSIVE StringRest(_, _)
StringRest(p, read) ==
  CASE Char(p) \in {"", "\r", "\n"} -> Refused
    [] Char(p) = "\"" -> Scanned([string |-> read], p + 1)
    [] OTHER -> IF Unit(p).end = 0 THEN Refused
                ELSE StringRest(Unit(p).end, Append(read, Scalar(Unit(p).kind)))
StringLiteral(p) == StringRest(p + 1, <<>>)

-----------------------------------------------------------------------------
(* The loop of run. *)

LexInit(source) ==
  /\ text = source
  /\ pos = 1 /\ line = 1
  /\ tokens = <<>>
  /\ status = "lexing"

Starts(a, b) == Char(pos) = a /\ Char(pos + 1) = b
AtComment == Starts("/", "/") \/ Starts("/", "*")
AtToken == status = "lexing" /\ Char(pos) \notin Blank /\ ~ AtComment

Move(q) == pos' = q /\ line' = line + LinesIn(pos, q)
Refuse == status' = "refused" /\ UNCHANGED <<text, pos, line, tokens>>

SkipBlanks ==
  /\ status = "lexing" /\ Char(pos) \in Blank
  /\ Move(While(pos, Blank))
  /\ UNCHANGED <<text, tokens, status>>

SkipLineComment ==
  /\ status = "lexing" /\ Starts("/", "/")
  /\ Move(Until(pos, {"\r", "\n"}))
  /\ UNCHANGED <<text, tokens, status>>

SkipBlockComment ==
  /\ status = "lexing" /\ Starts("/", "*")
  /\ LET closed(q) == Char(q) = "*" /\ Char(q + 1) = "/"
         closes == {q \in (pos + 2)..Len(text) : closed(q)}
     IN IF closes = {} THEN Refuse
        ELSE /\ Move((CHOOSE q \in closes : \A r \in closes : q <= r) + 2)
             /\ UNCHANGED <<text, tokens, status>>

Push(scan) ==
  IF scan.end = 0 THEN Refuse
  ELSE /\ tokens' = Append(tokens, [kind |-> scan.kind, line |-> line,
                                    first |-> pos, end |-> scan.end])
       /\ Move(scan.end)
       /\ UNCHANGED <<text, status>>

AtNumber ==
  Char(pos) \in Decimal \/ (Char(pos) = "." /\ Char(pos + 1) \in Decimal)

LexString == AtToken /\ Char(pos) = "\"" /\ Push(StringLiteral(pos))
LexChar == AtToken /\ Char(pos) = "'" /\ Push(CharLiteral(pos))
LexNumber == AtToken /\ AtNumber /\ Push(Number(pos))
LexWord == AtToken /\ Char(pos) \in IdentStart /\ Push(Word(pos))
LexPunct ==
  /\ AtToken /\ ~ AtNumber /\ Char(pos) \notin {"", "\"", "'"} \cup IdentStart
  /\ Push(Punct(pos))

Eof == [eof |-> TRUE]
EndOfSource ==
  /\ status = "lexing" /\ Char(pos) = ""
  /\ tokens' = Append(tokens, [kind |-> Eof, line |-> line, first |-> pos, end |-> pos])
  /\ status' = "lexed"
  /\ UNCHANGED <<text, pos, line>>

Lex ==
  \/ SkipBlanks \/ SkipLineComment \/ SkipBlockComment
  \/ LexString \/ LexChar \/ LexNumber \/ LexWord \/ LexPunct \/ EndOfSource

=============================================================================
