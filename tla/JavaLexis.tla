----------------------------- MODULE JavaLexis -----------------------------
(***************************************************************************)
(* What JLS 3 says of the subset's texts: a text is the longest possible   *)
(* input elements, one after the other.  This is the reference the lexer   *)
(* is checked against, not a model of njavac.                              *)
(***************************************************************************)
EXTENDS Ascii, Integers, FiniteSets, FiniteSetsExt

CONSTANTS IntBits, LongBits

Punctuators ==
  {"{", "}", "(", ")", "[", "]", ";", ",", ".", "~", "!", "!=", "=", "==", "+", "++", "+=",
   "-", "--", "-=", "*", "*=", "/", "/=", "%", "%=", "&", "&&", "&=", "|", "||", "|=", "^",
   "^=", "<", "<=", "<<", "<<=", ">", ">=", ">>", ">>=", ">>>", ">>>="}
Keywords ==
  {"public", "class", "static", "void", "int", "long", "float", "double", "boolean",
   "char", "byte", "short", "true", "false", "if", "else"}

Letters == CharsOf("abcdefghijklmnopqrstuvwxyzABCDEFGHIJKLMNOPQRSTUVWXYZ_$")
OctDigits == CharsOf("01234567")
DecDigits == CharsOf("0123456789")
HexDigits == DecDigits \cup CharsOf("abcdefABCDEF")

At(s, i) == SubSeq(s, i, i)
From(s, i) == SubSeq(s, i, Len(s))
Upto(s, n) == SubSeq(s, 1, n)
Last(s) == At(s, Len(s))
All(s, S) == \A i \in 1..Len(s) : At(s, i) \in S

-----------------------------------------------------------------------------
(* JLS 3.6, 3.7: white space and comments.  Terminators: CR, LF and CRLF.  *)

IsBlank(s) == s \in {" ", "\t", "\r", "\n"}
IsComment(s) ==
  /\ Len(s) >= 2
  /\ \/ Upto(s, 2) = "//" /\ \A i \in 1..Len(s) : At(s, i) \notin {"\r", "\n"}
     \/ /\ Upto(s, 2) = "/*" /\ Len(s) >= 4
        /\ {i \in 3..(Len(s) - 1) : SubSeq(s, i, i + 1) = "*/"} = {Len(s) - 1}

IsWord(s) == s # "" /\ At(s, 1) \in Letters /\ All(s, Letters \cup DecDigits)

-----------------------------------------------------------------------------
(* JLS 3.10.1, 3.10.2: digits may have underscores between them. *)

IsDigits(s, S) == s # "" /\ At(s, 1) \in S /\ Last(s) \in S /\ All(s, S \cup {"_"})
Optional(s, S) == s = "" \/ IsDigits(s, S)

ValueOf(c) ==
  CHOOSE n \in 0..15 : c \in {At("0123456789abcdef", n + 1), At("0123456789ABCDEF", n + 1)}
Places(s) == {i \in 1..Len(s) : At(s, i) # "_"}
Sum(s, radix) ==
  MapThenSumSet(LAMBDA i : ValueOf(At(s, i)) * radix^Cardinality({j \in Places(s) : j > i}),
                Places(s))
Pattern(n, w) == IF n >= 2^(w - 1) THEN n - 2^w ELSE n

Radix(s) ==
  CASE Len(s) > 2 /\ Upto(s, 2) \in {"0x", "0X"} /\ IsDigits(From(s, 3), HexDigits) -> 16
    [] Len(s) > 2 /\ Upto(s, 2) \in {"0b", "0B"} /\ IsDigits(From(s, 3), {"0", "1"}) -> 2
    [] Len(s) > 1 /\ At(s, 1) = "0" /\ Last(s) \in OctDigits /\ All(s, OctDigits \cup {"_"}) -> 8
    [] IsDigits(s, DecDigits) /\ (Len(s) = 1 \/ At(s, 1) # "0") -> 10
    [] OTHER -> 0
IsLong(s) == Last(s) \in {"L", "l"}
Numeral(s) == IF IsLong(s) THEN Upto(s, Len(s) - 1) ELSE s
Magnitude(s) ==
  LET n == Numeral(s)
  IN Sum(IF Radix(n) \in {2, 16} THEN From(n, 3) ELSE n, Radix(n))
IsInteger(s) ==
  /\ s # "" /\ Numeral(s) # "" /\ Radix(Numeral(s)) # 0
  /\ LET w == IF IsLong(s) THEN LongBits ELSE IntBits
     IN IF Radix(Numeral(s)) = 10 THEN Magnitude(s) <= 2^(w - 1) ELSE Magnitude(s) < 2^w

IsExponent(s) ==
  /\ s # "" /\ At(s, 1) \in {"e", "E"}
  /\ IsDigits(IF Len(s) > 1 /\ At(s, 2) \in {"+", "-"} THEN From(s, 3) ELSE From(s, 2), DecDigits)
FloatSuffixes == CharsOf("fFdD")
Unsuffixed(s) == IF Last(s) \in FloatSuffixes THEN Upto(s, Len(s) - 1) ELSE s
IsFloating(s) ==
  /\ s # "" /\ Unsuffixed(s) # ""
  /\ LET n == Unsuffixed(s)
     IN \E i, j \in 0..Len(n) :
          /\ i <= j
          /\ LET whole == Upto(n, i)
                 fraction == SubSeq(n, i + 1, j)
                 exponent == From(n, j + 1)
             IN /\ Optional(whole, DecDigits)
                /\ fraction # "" => At(fraction, 1) = "." /\ Optional(From(fraction, 2), DecDigits)
                /\ exponent # "" => IsExponent(exponent)
                /\ whole # "" \/ Len(fraction) > 1
                /\ fraction # "" \/ exponent # "" \/ n # s

-----------------------------------------------------------------------------
(* JLS 3.10.4 to 3.10.7.  An escape of a code unit that would have been    *)
(* a terminator, a quote or a backslash before lexing is left out, and so  *)
(* are surrogates.                                                         *)

Simple == [b |-> 8, s |-> 32, t |-> 9, n |-> 10, f |-> 12, r |-> 13]
Quoted == {"\"", "'", "\\"}
IsUnicode(s) ==
  /\ Len(s) >= 6 /\ At(s, 2) = "u" /\ All(SubSeq(s, 2, Len(s) - 4), {"u"})
  /\ All(From(s, Len(s) - 3), HexDigits)
  /\ Sum(From(s, Len(s) - 3), 16) \notin {10, 13, 34, 39, 92} \cup 55296..57343
IsOctal(s) ==
  /\ Len(s) \in 2..4 /\ All(From(s, 2), OctDigits)
  /\ Len(s) = 4 => At(s, 2) \in CharsOf("0123")
IsSimple(s) == Len(s) = 2 /\ At(s, 2) \in DOMAIN Simple \cup Quoted
IsEscape(s) == Len(s) >= 2 /\ At(s, 1) = "\\" /\ (IsSimple(s) \/ IsOctal(s) \/ IsUnicode(s))
Unescaped(s) ==
  CASE IsOctal(s) -> Sum(From(s, 2), 8)
    [] IsUnicode(s) -> Sum(From(s, Len(s) - 3), 16)
    [] At(s, 2) \in Quoted -> CodePoint(At(s, 2))
    [] OTHER -> Simple[At(s, 2)]

IsCharacter(s) == \/ Len(s) = 1 /\ s \notin {"\\", "\r", "\n"}
                  \/ IsEscape(s)
CharacterValue(s) == IF Len(s) = 1 THEN CodePoint(s) ELSE Unescaped(s)
IsCharLiteral(s) ==
  /\ Len(s) >= 3 /\ At(s, 1) = "'" /\ Last(s) = "'"
  /\ IsCharacter(SubSeq(s, 2, Len(s) - 1)) /\ SubSeq(s, 2, Len(s) - 1) # "'"

(* The code points of a string's inside, each character the longest.       *)
NotAString == << -1 >>
RECURSIVE Inside(_)
Inside(s) ==
  IF s = "" THEN <<>>
  ELSE LET starts == {n \in 1..Len(s) : IsCharacter(Upto(s, n)) /\ Upto(s, n) # "\""}
           rest == Inside(From(s, Max(starts) + 1))
       IN IF starts = {} \/ rest = NotAString THEN NotAString
          ELSE <<CharacterValue(Upto(s, Max(starts)))>> \o rest
IsString(s) ==
  /\ Len(s) >= 2 /\ At(s, 1) = "\"" /\ Last(s) = "\""
  /\ Inside(SubSeq(s, 2, Len(s) - 1)) # NotAString

-----------------------------------------------------------------------------
(* Input elements. *)

IsLiteral(s) == IsInteger(s) \/ IsFloating(s) \/ IsCharLiteral(s) \/ IsString(s)
IsToken(s) == s \in Punctuators \/ IsWord(s) \/ IsLiteral(s)
IsElement(s) == IsBlank(s) \/ IsComment(s) \/ IsToken(s)

FloatText(s) ==
  [i \in 1..Cardinality(Places(s)) |->
     LET c == At(s, CHOOSE p \in Places(s) : Cardinality({q \in Places(s) : q <= p}) = i)
     IN IF c = "E" THEN "e" ELSE c]
TokenKind(s) ==
  CASE s \in Punctuators -> [punct |-> s]
    [] s \in Keywords -> [keyword |-> s]
    [] IsWord(s) /\ s \notin Keywords -> [ident |-> s]
    [] IsInteger(s) -> IF IsLong(s) THEN [long |-> Pattern(Magnitude(s), LongBits)]
                       ELSE [int |-> Pattern(Magnitude(s), IntBits)]
    [] IsFloating(s) /\ ~ IsInteger(s) ->
         IF Last(s) \in {"f", "F"} THEN [float |-> FloatText(Unsuffixed(s))]
         ELSE [double |-> FloatText(Unsuffixed(s))]
    [] IsCharLiteral(s) -> [char |-> CharacterValue(SubSeq(s, 2, Len(s) - 1))]
    [] IsString(s) -> [string |-> Inside(SubSeq(s, 2, Len(s) - 1))]

Wordlike(s) == IsWord(s) \/ IsInteger(s) \/ IsFloating(s)

(* The input elements of a text, as [first, end); Unreadable when there is *)
(* none somewhere, when a comment is not closed, or when a word or number  *)
(* touches the one before it.                                              *)
Unreadable == << [first |-> 0, end |-> 0] >>
RECURSIVE Elements(_, _)
Elements(s, p) ==
  IF p > Len(s) THEN <<>>
  ELSE LET ends == {q \in (p + 1)..(Len(s) + 1) : IsElement(SubSeq(s, p, q - 1))}
           rest == Elements(s, Max(ends))
           unclosed == SubSeq(s, p, Max(ends) - 1) = "/" /\ Upto(From(s, Max(ends)) \o " ", 1) = "*"
       IN IF \/ ends = {} \/ unclosed \/ rest = Unreadable
             \/ /\ rest # <<>>
                /\ Wordlike(SubSeq(s, p, Max(ends) - 1))
                /\ Wordlike(SubSeq(s, rest[1].first, rest[1].end - 1))
          THEN Unreadable
          ELSE << [first |-> p, end |-> Max(ends)] >> \o rest

=============================================================================
