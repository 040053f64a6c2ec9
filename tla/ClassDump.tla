----------------------------- MODULE ClassDump ------------------------------
(***************************************************************************)
(* The class-file reader of njavac-classdump/src/reader.rs, written apart  *)
(* from the writer.  The fields it lists in file order are kept here as    *)
(* the tree their paths spell.                                             *)
(***************************************************************************)
EXTENDS Integers, Sequences, SequencesExt, Ascii

(* What a reader returns: a tree and the position after it, 0 for an       *)
(* error.  b is the file, p a position in it.                              *)
Read(tree, p) == [at |-> p, tree |-> tree]
Failed == Read(<<>>, 0)
Then(r, Go(_, _)) == IF r.at = 0 THEN Failed ELSE Go(r.tree, r.at)

(* A reader is a function of the position it starts at.  n items, one      *)
(* after the other.                                                        *)
Positions(b) == 1..(Len(b) + 1)
Items(n, item, p) ==
  LET read[i \in 0..n] ==
        IF i = 0 THEN Read(<<>>, p)
        ELSE Then(read[i - 1],
                  LAMBDA items, q : Then(item[q], LAMBDA t, s : Read(Append(items, t), s)))
  IN read[n]

Has(b, p, n) == n >= 0 /\ p + n - 1 <= Len(b)
Bytes(b, p, n) == IF Has(b, p, n) THEN Read(SubSeq(b, p, p + n - 1), p + n) ELSE Failed
Byte(b, p) == IF Has(b, p, 1) THEN Read(b[p], p + 1) ELSE Failed
Short(b, p) == IF Has(b, p, 2) THEN Read(b[p] * 256 + b[p + 1], p + 2) ELSE Failed

(* Taken as signed, so that a length no file has is negative.              *)
Word(b, p) ==
  IF Has(b, p, 4)
  THEN Read((IF b[p] > 127 THEN b[p] - 256 ELSE b[p]) * 16777216
              + b[p + 1] * 65536 + b[p + 2] * 256 + b[p + 3], p + 4)
  ELSE Failed

ShortReader(b) == [p \in Positions(b) |-> Short(b, p)]
WordReader(b) == [p \in Positions(b) |-> Word(b, p)]
Shorts(b, p, n) == Items(n, ShortReader(b), p)
Words(b, p, n) == Items(n, WordReader(b), p)
CountedBy(b, p, item) == Then(Short(b, p), LAMBDA n, q : Items(n, item, q))

-----------------------------------------------------------------------------
(* The constant pool. *)

Utf8Tag == 1
NumberTags == {3, 4}
WideTags == {5, 6}
OneIndexTags == {7, 8, 16, 19, 20}
TwoIndexTags == {9, 10, 11, 12, 17, 18}
MethodHandleTag == 15

ConstantPayload(b, tag, q) ==
  CASE tag = Utf8Tag -> Then(Short(b, q), LAMBDA n, s : Bytes(b, s, n))
    [] tag \in NumberTags -> Words(b, q, 1)
    [] tag \in WideTags -> Words(b, q, 2)
    [] tag \in OneIndexTags -> Shorts(b, q, 1)
    [] tag \in TwoIndexTags -> Shorts(b, q, 2)
    [] tag = MethodHandleTag -> Then(Byte(b, q), LAMBDA kind, s : Shorts(b, s, 1))
    [] OTHER -> Failed
Constant(b, p) ==
  Then(Byte(b, p), LAMBDA tag, q :
    Then(ConstantPayload(b, tag, q), LAMBDA of, s : Read([tag |-> tag, of |-> of], s)))

(* pool maps an index to its constant; a long or double takes two: none is *)
(* read for the index after it.                                            *)
Phantom(pool, i) == i - 1 \in DOMAIN pool /\ pool[i - 1].tag \in WideTags
NextConstant(b, pool, i, p) ==
  IF Phantom(pool, i) THEN Read(pool, p)
  ELSE Then(Constant(b, p), LAMBDA c, q :
         Read([j \in DOMAIN pool \cup {i} |-> IF j = i THEN c ELSE pool[j]], q))
Constants(b, p, count) ==
  LET below[i \in 1..count] ==
        IF i = 1 THEN Read(<<>>, p)
        ELSE Then(below[i - 1], LAMBDA pool, q : NextConstant(b, pool, i - 1, q))
  IN IF count = 0 THEN Read(<<>>, p) ELSE below[count]
ConstantPoolAt(b, p) == Then(Short(b, p), LAMBDA count, q : Constants(b, q, count))

Utf8At(pool, i) ==
  IF i \in DOMAIN pool THEN (IF pool[i].tag = Utf8Tag THEN pool[i].of ELSE <<>>) ELSE <<>>

-----------------------------------------------------------------------------
(* Attributes. *)

Spelled(s) == [k \in 1..Len(s) |-> CodePoint(SubSeq(s, k, k))]
CodeName == Spelled("Code")
LineNumberTableName == Spelled("LineNumberTable")
StackMapTableName == Spelled("StackMapTable")
SourceFileName == Spelled("SourceFile")

LineReader(b) == [p \in Positions(b) |-> Shorts(b, p, 2)]
LineNumbers(b, p) == CountedBy(b, p, LineReader(b))

VerificationTypeAt(b, p) ==
  Then(Byte(b, p), LAMBDA tag, q :
    IF tag \in {7, 8} THEN Then(Short(b, q), LAMBDA i, s : Read([tag |-> tag, index |-> i], s))
    ELSE Read([tag |-> tag, index |-> 0], q))

TypeReader(b) == [p \in Positions(b) |-> VerificationTypeAt(b, p)]

(* Up to 127 the tag carries the delta.                                    *)
SameTags == 0..63
SameLocalsTags == 64..127
ReservedTags == 128..246
SameLocalsExtendedTag == 247
NoTypesTags == 248..251
AppendTags == 252..254
FrameRead(tag, delta, locals, stack, q) ==
  Read([tag |-> tag, delta |-> delta, locals |-> locals, stack |-> stack], q)
ExtendedFrame(b, tag, delta, q) ==
  CASE tag = SameLocalsExtendedTag ->
         Then(Items(1, TypeReader(b), q), LAMBDA st, s : FrameRead(tag, delta, <<>>, st, s))
    [] tag \in NoTypesTags -> FrameRead(tag, delta, <<>>, <<>>, q)
    [] tag \in AppendTags ->
         Then(Items(tag - 251, TypeReader(b), q),
              LAMBDA ls, s : FrameRead(tag, delta, ls, <<>>, s))
    [] OTHER ->
         Then(CountedBy(b, q, TypeReader(b)), LAMBDA ls, s :
           Then(CountedBy(b, s, TypeReader(b)), LAMBDA st, t :
             FrameRead(tag, delta, ls, st, t)))
TaggedFrame(b, tag, q) ==
  CASE tag \in SameTags -> FrameRead(tag, 0, <<>>, <<>>, q)
    [] tag \in SameLocalsTags ->
         Then(Items(1, TypeReader(b), q), LAMBDA st, s : FrameRead(tag, 0, <<>>, st, s))
    [] tag \in ReservedTags -> Failed
    [] OTHER -> Then(Short(b, q), LAMBDA delta, s : ExtendedFrame(b, tag, delta, s))
FrameAt(b, p) == Then(Byte(b, p), LAMBDA tag, q : TaggedFrame(b, tag, q))
FrameReader(b) == [p \in Positions(b) |-> FrameAt(b, p)]
StackMapFrames(b, p) == CountedBy(b, p, FrameReader(b))

(* nested reads one of the attributes of the Code attribute.               *)
HandlerReader(b) == [p \in Positions(b) |-> Shorts(b, p, 4)]
Code(b, p, nested) ==
  Then(Shorts(b, p, 2), LAMBDA max, q :
    Then(Word(b, q), LAMBDA n, r :
      Then(Bytes(b, r, n), LAMBDA code, s :
        Then(CountedBy(b, s, HandlerReader(b)), LAMBDA handlers, t :
          Then(CountedBy(b, t, nested), LAMBDA attributes, u :
            Read([maxStack |-> max[1], maxLocals |-> max[2], code |-> code,
                  handlers |-> handlers, attributes |-> attributes], u))))))

AttributeBody(b, name, n, p, nested) ==
  CASE name = CodeName -> Code(b, p, nested)
    [] name = LineNumberTableName -> LineNumbers(b, p)
    [] name = StackMapTableName -> StackMapFrames(b, p)
    [] name = SourceFileName -> Short(b, p)
    [] OTHER -> Bytes(b, p, n)

(* A body that is shorter than declared leaves a tail, a longer one is an  *)
(* error.                                                                  *)
Attribute(b, p, pool, nested) ==
  Then(Short(b, p), LAMBDA i, q :
    Then(Word(b, q), LAMBDA n, r :
      Then(AttributeBody(b, Utf8At(pool, i), n, r, nested), LAMBDA body, s :
        Then(Bytes(b, s, r + n - s), LAMBDA tail, end :
          Read([name |-> Utf8At(pool, i), body |-> body, tail |-> tail], end)))))

(* No file has room for attributes nested as deep as it is long.           *)
AttributeReader(b, pool) ==
  LET attribute[depth \in 0..Len(b)] ==
        [p \in Positions(b) |->
           IF depth = 0 THEN Failed ELSE Attribute(b, p, pool, attribute[depth - 1])]
  IN attribute[Len(b)]
Attributes(b, p, pool) == CountedBy(b, p, AttributeReader(b, pool))

-----------------------------------------------------------------------------
(* The file. *)

Magic == <<202, 254, 186, 190>>

MemberAt(b, p, pool) ==
  Then(Shorts(b, p, 3), LAMBDA head, q :
    Then(Attributes(b, q, pool), LAMBDA attributes, r :
      Read([access |-> head[1], name |-> head[2], descriptor |-> head[3],
            attributes |-> attributes], r)))
MemberReader(b, pool) == [p \in Positions(b) |-> MemberAt(b, p, pool)]
MembersAt(b, p, pool) == CountedBy(b, p, MemberReader(b, pool))

Body(b, p, version, pool) ==
  Then(Shorts(b, p, 3), LAMBDA head, q :
    Then(CountedBy(b, q, ShortReader(b)), LAMBDA interfaces, r :
      Then(MembersAt(b, r, pool), LAMBDA fields, s :
        Then(MembersAt(b, s, pool), LAMBDA methods, t :
          Then(Attributes(b, t, pool), LAMBDA attributes, u :
            Read([version |-> version, pool |-> pool, access |-> head[1], this |-> head[2],
                  super |-> head[3], interfaces |-> interfaces, fields |-> fields,
                  methods |-> methods, attributes |-> attributes], u))))))

(* at is the position of the trailing bytes, if any.                       *)
Dump(b) ==
  Then(Bytes(b, 1, 4), LAMBDA magic, p :
    IF magic # Magic THEN Failed
    ELSE Then(Shorts(b, p, 2), LAMBDA version, q :
           Then(ConstantPoolAt(b, q), LAMBDA pool, r : Body(b, r, version, pool))))

=============================================================================
