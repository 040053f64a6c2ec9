------------------------------- MODULE Ascii -------------------------------
(* Printable characters and their code points.                             *)
EXTENDS Naturals, Sequences

Printable ==    \* from 32; a tab stands in for the backquote
  " !\"#$%&'()*+,-./0123456789:;<=>?@ABCDEFGHIJKLMNOPQRSTUVWXYZ[\\]^_\tabcdefghijklmnopqrstuvwxyz{|}~"
Glyph(cp) == SubSeq(Printable, cp - 31, cp - 31)
CodePoint(c) == 31 + CHOOSE i \in 1..Len(Printable) : SubSeq(Printable, i, i) = c

CharsOf(s) == {SubSeq(s, i, i) : i \in 1..Len(s)}

=============================================================================
