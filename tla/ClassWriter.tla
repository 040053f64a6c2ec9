----------------------------- MODULE ClassWriter -----------------------------
(***************************************************************************)
(* From the constants lowering interns to a written class file             *)
(* (ClassFile::to_bytes in classfile/writer.rs): lowering interns operands *)
(* in code order, to_bytes interns what the structure of the file needs,   *)
(* and then writes the pool and the attributes, byte by byte, with lookups *)
(* that must not miss.  Last, ClassDump reads the file.                    *)
(*                                                                         *)
(* A plan is [access, this, super, source, methods], a method is [access,  *)
(* name, descriptor, maxStack, maxLocals, code, lines, entryLocals,        *)
(* frames].                                                                *)
(***************************************************************************)
EXTENDS ConstantPool, StackMap, ClassDump

CONSTANTS
  Plans,       \* the class files to write
  Operands,    \* the member references, and
  Literals,    \* the strings, lowering may intern
  Units,       \* the UTF-16 code units of each text
  MaxOperands  \* bound: operands lowering interns

VARIABLES
  plan,      \* the ClassFile
  stage,     \* "lowering", "interning" or "written"
  step,      \* position in the list of structural constants
  file       \* its bytes, once written

writerVars == <<vars, plan, stage, step, file>>

WriterInit ==
  /\ Init
  /\ plan \in Plans
  /\ stage = "lowering" /\ step = 0
  /\ file = <<>>

-----------------------------------------------------------------------------
(* Bytes: the big-endian buffer of classfile/buffer.rs and the strings of  *)
(* classfile/modified_utf8.rs.                                             *)

U1(v) == <<v % 256>>
U2(v) == <<(v \div 256) % 256, v % 256>>

(* Numbers here have 32 bits, so the upper half of a long is its sign.     *)
U4(v) == U2(v \div 65536) \o U2(v)
U8(v) == U4(IF v < 0 THEN -1 ELSE 0) \o U4(v)

(* A body behind the length that is patched in once the body is written.   *)
Measured(body) == U4(Len(body)) \o body

(* NUL takes two bytes and each surrogate three.                           *)
EncodeUnit(u) ==
  CASE u \in 1..127 -> <<u>>
    [] u = 0 \/ u \in 128..2047 -> <<192 + u \div 64, 128 + (u % 64)>>
    [] OTHER -> <<224 + u \div 4096, 128 + ((u \div 64) % 64), 128 + (u % 64)>>
Encoded(s) == FlattenSeq([k \in DOMAIN Units[s] |-> EncodeUnit(Units[s][k])])
ModifiedUtf8(s) == U2(Len(Encoded(s))) \o Encoded(s)

-----------------------------------------------------------------------------
(* What there is to write: the structures of classfile/model.rs, whose     *)
(* numbers are u16 and whose lists are counted by a u16.                   *)

U16 == {v \in Nat : v <= 65535}
Counted(S) == {s \in Seq(S) : Len(s) <= 65535}

VerificationTypes == PrimitiveTypes \cup Texts
StackFrames ==
  [offset : U16, locals : Counted(VerificationTypes), stack : Counted(VerificationTypes)]
Methods ==
  [access : U16, name : Texts, descriptor : Texts, maxStack : U16, maxLocals : U16,
   code : Counted(0..255), lines : Counted(U16 \X U16),
   entryLocals : Seq(VerificationTypes), frames : Counted(StackFrames)]
ClassFiles ==
  [access : U16, this : Texts, super : Texts, source : Texts, methods : Counted(Methods)]

(* The assembler sorts the frames of a method and keeps one at an offset.  *)
Ordered(frames) ==
  \A k \in 2..Len(frames) : frames[k - 1].offset < frames[k].offset

(* The length of an attribute is cast to a u32, and read as signed.        *)
TypesIn(frames) ==
  FlattenSeq([k \in DOMAIN frames |-> frames[k].locals \o frames[k].stack])
MapFits(frames) == 7 * Len(frames) + 3 * Len(TypesIn(frames)) <= 1000000000

ASSUME PlansAssumption ==
  /\ Plans \subseteq ClassFiles
  /\ \A p \in Plans : \A k \in DOMAIN p.methods :
       Ordered(p.methods[k].frames) /\ MapFits(p.methods[k].frames)

(* A text of more than 65535 bytes is a panic.  The attribute names are    *)
(* spelled as the reader knows them, and differently.                      *)
ASSUME TextsAssumption ==
  /\ Units \in [Texts -> Seq(U16)]
  /\ \A s, t \in Texts : Units[s] = Units[t] => s = t
  /\ \A s \in Texts : Len(Encoded(s)) <= 65535
  /\ {"Code", "LineNumberTable", "StackMapTable", "SourceFile"} \subseteq Texts
  /\ Encoded("Code") = CodeName /\ Encoded("LineNumberTable") = LineNumberTableName
  /\ Encoded("StackMapTable") = StackMapTableName /\ Encoded("SourceFile") = SourceFileName
  /\ CodeName \notin {LineNumberTableName, StackMapTableName, SourceFileName}
  /\ LineNumberTableName \notin {StackMapTableName, SourceFileName}
  /\ StackMapTableName # SourceFileName

ASSUME OperandsAssumption ==
  /\ Operands \subseteq [kind : MemberKinds, owner : Texts, name : Texts, descriptor : Texts]
  /\ Literals \subseteq Texts

(* Indices are u16; a number is one of 32 bits that is not negative.       *)
U31 == {v \in Nat : v <= 2147483647}
ASSUME WidthAssumption == IndexSpace <= 65536 /\ Numbers \subseteq U31

-----------------------------------------------------------------------------
(* Lookups. *)

(* A pool lookup that misses is a panic; 0 is no index. *)
NoIndex == 0
EntryIndex(e) == IF e \in DOMAIN index THEN index[e] ELSE NoIndex
NamedIndex(kind, s) ==
  IF s \in ToSet(texts) THEN EntryIndex([kind |-> kind, of |-> <<TextId(texts, s)>>])
  ELSE NoIndex
Utf8Index(s) == NamedIndex("Utf8", s)
ClassIndex(s) == NamedIndex("Class", s)

-----------------------------------------------------------------------------
(* The constants the structure of the file needs, in the order of to_bytes *)
(* and intern_attributes.                                                  *)

Need(kind, s) == [kind |-> kind, text |-> s]
NeedUtf8(s) == Need("Utf8", s)

NeededByMethod(m) ==
  LET classes == FrameObjectClasses(m.frames, m.entryLocals)
  IN << NeedUtf8(m.name), NeedUtf8(m.descriptor),
        NeedUtf8("Code"), NeedUtf8("LineNumberTable") >>
     \o IF m.frames = <<>> THEN <<>>
        ELSE << NeedUtf8("StackMapTable") >>
               \o [k \in DOMAIN classes |-> Need("Class", classes[k])]

Needed(p) ==
  << Need("Class", p.this), Need("Class", p.super) >>
    \o FlattenSeq([k \in DOMAIN p.methods |-> NeededByMethod(p.methods[k])])
    \o << NeedUtf8("SourceFile"), NeedUtf8(p.source) >>

-----------------------------------------------------------------------------
(* Writing. *)

Tag(kind) ==
  CASE kind = "Utf8" -> 1
    [] kind = "Integer" -> 3
    [] kind = "Float" -> 4
    [] kind = "Long" -> 5
    [] kind = "Double" -> 6
    [] kind = "Class" -> 7
    [] kind = "String" -> 8
    [] kind = "Fieldref" -> 9
    [] kind = "Methodref" -> 10
    [] kind = "NameAndType" -> 12

Payload(e) ==
  CASE e.kind = "Utf8" -> ModifiedUtf8(texts[e.of[1] + 1])
    [] e.kind \in {"Integer", "Float"} -> U4(e.of[1])
    [] e.kind \in WideKinds -> U8(e.of[1])
    [] OTHER -> FlattenSeq([k \in DOMAIN Children(e) |-> U2(EntryIndex(Children(e)[k]))])

Serialize ==
  U2(nextIndex)
    \o FlattenSeq([k \in DOMAIN entries |-> U1(Tag(entries[k].kind)) \o Payload(entries[k])])

TypeTag(vt) ==
  CASE vt = "Top" -> 0
    [] vt = "Integer" -> 1
    [] vt = "Float" -> 2
    [] vt = "Double" -> 3
    [] vt = "Long" -> 4
    [] OTHER -> 7
WriteType(vt) == U1(TypeTag(vt)) \o IF IsObject(vt) THEN U2(ClassIndex(vt)) ELSE <<>>
WriteTypes(types) == FlattenSeq([k \in DOMAIN types |-> WriteType(types[k])])

(* A full frame counts its types, the others imply their number.           *)
FrameBytes(p) ==
  LET types(ts) == (IF p.tag = 255 THEN U2(Len(ts)) ELSE <<>>) \o WriteTypes(ts)
  IN U1(p.tag) \o (IF p.tag > 127 THEN U2(p.delta) ELSE <<>>) \o types(p.locals) \o types(p.stack)

WriteAttribute(name, body) == U2(Utf8Index(name)) \o Measured(body)

LineNumberTable(m) ==
  U2(Len(m.lines))
    \o FlattenSeq([k \in DOMAIN m.lines |-> U2(m.lines[k][1]) \o U2(m.lines[k][2])])

StackMapTable(m) ==
  LET body == WriteStackMapBody(m.frames, m.entryLocals)
  IN U2(Len(body)) \o FlattenSeq([k \in DOMAIN body |-> FrameBytes(body[k])])

NoHandlers == U2(0)
CodeBody(m) ==
  U2(m.maxStack) \o U2(m.maxLocals) \o Measured(m.code) \o NoHandlers
    \o U2(IF m.frames = <<>> THEN 1 ELSE 2)
    \o WriteAttribute("LineNumberTable", LineNumberTable(m))
    \o IF m.frames = <<>> THEN <<>> ELSE WriteAttribute("StackMapTable", StackMapTable(m))

WriteMethod(m) ==
  U2(m.access) \o U2(Utf8Index(m.name)) \o U2(Utf8Index(m.descriptor))
    \o U2(1) \o WriteAttribute("Code", CodeBody(m))

Java25 == 69
NoInterfaces == U2(0)
NoFields == U2(0)

ToBytes ==
  <<202, 254, 186, 190>> \o U2(0) \o U2(Java25) \o Serialize
    \o U2(plan.access) \o U2(ClassIndex(plan.this)) \o U2(ClassIndex(plan.super))
    \o NoInterfaces \o NoFields
    \o U2(Len(plan.methods))
    \o FlattenSeq([k \in DOMAIN plan.methods |-> WriteMethod(plan.methods[k])])
    \o U2(1) \o WriteAttribute("SourceFile", U2(Utf8Index(plan.source)))

Lowering ==
  /\ stage = "lowering" /\ Len(entries) < MaxOperands
  /\ \/ \E m \in Operands : InternMember(m.kind, m.owner, m.name, m.descriptor)
     \/ \E s \in Literals : InternString(s)
     \/ \E kind \in NumberKinds, v \in Numbers : InternNumber(kind, v)
  /\ UNCHANGED <<plan, stage, step, file>>

InternLoop ==
  /\ VisitEntry \/ VisitChild
  /\ UNCHANGED <<plan, stage, step, file>>

StartWriting ==
  /\ stage = "lowering" /\ ~ Busy
  /\ stage' = "interning" /\ step' = 1
  /\ UNCHANGED <<vars, plan, file>>

InternNeeded ==
  /\ stage = "interning" /\ step <= Len(Needed(plan))
  /\ LET need == Needed(plan)[step] IN InternNamed(need.kind, need.text)
  /\ step' = step + 1
  /\ UNCHANGED <<plan, stage, file>>

Write ==
  /\ stage = "interning" /\ ~ Busy /\ step > Len(Needed(plan))
  /\ file' = ToBytes
  /\ stage' = "written"
  /\ UNCHANGED <<vars, plan, step>>

Next == Lowering \/ InternLoop \/ StartWriting \/ InternNeeded \/ Write

Spec == WriterInit /\ [][Next]_writerVars

-----------------------------------------------------------------------------
(* What the JVM makes of the file ClassDump took apart. *)

UnitAt(b, p) ==
  CASE b[p] < 128 -> Read(b[p], p + 1)
    [] b[p] \in 192..223 -> Read((b[p] % 32) * 64 + (b[p + 1] % 64), p + 2)
    [] OTHER ->
         Read((b[p] % 16) * 4096 + (b[p + 1] % 64) * 64 + (b[p + 2] % 64), p + 3)
DecodeUtf8(b) ==
  LET read[i \in 0..Len(b)] ==
        IF i = 0 THEN Read(<<>>, 1)
        ELSE Then(read[i - 1], LAMBDA units, p :
               IF p > Len(b) THEN Read(units, p)
               ELSE Then(UnitAt(b, p), LAMBDA u, q : Read(Append(units, u), q)))
  IN read[Len(b)].tree

(* No byte of a Utf8 is 0 or above 239.                                    *)
IsText(pool, i, s) ==
  /\ i \in DOMAIN pool /\ pool[i].tag = Tag("Utf8")
  /\ ToSet(pool[i].of) \subseteq 1..239 /\ DecodeUtf8(pool[i].of) = Units[s]

(* The constant at i is what e stands for: its text, the constants that    *)
(* its parts have in the pool, or its number.                              *)
Stands(pool, i, e) ==
  /\ i \in DOMAIN pool /\ pool[i].tag = Tag(e.kind)
  /\ CASE e.kind = "Utf8" -> IsText(pool, i, texts[e.of[1] + 1])
       [] Children(e) # <<>> ->
            /\ Len(pool[i].of) = Len(Children(e))
            /\ \A k \in DOMAIN Children(e) :
                 Children(e)[k] \in DOMAIN index /\ pool[i].of[k] = index[Children(e)[k]]
       [] OTHER -> Last(pool[i].of) = e.of[1] /\ Len(pool[i].of) = Width(e)

IsClass(pool, i, s) ==
  i \in DOMAIN pool /\ pool[i].tag = Tag("Class") /\ IsText(pool, pool[i].of[1], s)

Unknown == "?"
TypeRead(pool, t) ==
  LET ofTag == {vt \in PrimitiveTypes : TypeTag(vt) = t.tag}
      ofClass == {s \in Texts : t.tag = 7 /\ IsClass(pool, t.index, s)}
  IN IF Cardinality(ofTag \cup ofClass) = 1 THEN CHOOSE vt \in ofTag \cup ofClass : TRUE
     ELSE Unknown
TypesRead(pool, types) == [k \in DOMAIN types |-> TypeRead(pool, types[k])]

FramesRead(pool, frames, entryLocals) ==
  ReadStackMap([k \in DOMAIN frames |->
                  [frames[k] EXCEPT !.locals = TypesRead(pool, @),
                                    !.stack = TypesRead(pool, @)]],
               entryLocals)

-----------------------------------------------------------------------------
(* Properties. *)

Written == stage = "written"

Named(attributes, names) ==
  /\ Len(attributes) = Len(names)
  /\ \A k \in DOMAIN names : attributes[k].name = names[k] /\ attributes[k].tail = <<>>

MethodReadsBack(pool, read, m) ==
  /\ read.access = m.access
  /\ IsText(pool, read.name, m.name) /\ IsText(pool, read.descriptor, m.descriptor)
  /\ Named(read.attributes, <<CodeName>>)
  /\ LET code == read.attributes[1].body
         tables == code.attributes
     IN /\ code.maxStack = m.maxStack /\ code.maxLocals = m.maxLocals
        /\ code.code = m.code /\ code.handlers = <<>>
        /\ Named(tables, <<LineNumberTableName>>
                           \o IF m.frames = <<>> THEN <<>> ELSE <<StackMapTableName>>)
        /\ tables[1].body = m.lines
        /\ m.frames # <<>> => FramesRead(pool, tables[2].body, m.entryLocals) = m.frames

(* The independent reader takes the whole file apart, without an error, an *)
(* unparsed tail or trailing bytes; whatever lowering interned is found    *)
(* under the index the code was given; every name, attribute and table is  *)
(* the one that was planned; and from the relative frames the verifier     *)
(* reconstructs exactly the absolute snapshots of the assembler, with      *)
(* every object type resolved (the lookups of write_verification_type      *)
(* agree with frame_object_classes).  Holds unless the u16 counter of the  *)
(* pool overflowed.                                                        *)
ReadsBack ==
  Written /\ ~ overflowed =>
    LET dump == Dump(file)
        f == dump.tree
    IN /\ dump.at = Len(file) + 1
       /\ f.version = <<0, Java25>>
       /\ \A e \in DOMAIN index : Stands(f.pool, index[e], e)
       /\ f.access = plan.access
       /\ IsClass(f.pool, f.this, plan.this) /\ IsClass(f.pool, f.super, plan.super)
       /\ f.interfaces = <<>> /\ f.fields = <<>>
       /\ Len(f.methods) = Len(plan.methods)
       /\ \A k \in DOMAIN plan.methods : MethodReadsBack(f.pool, f.methods[k], plan.methods[k])
       /\ Named(f.attributes, <<SourceFileName>>)
       /\ IsText(f.pool, f.attributes[1].body, plan.source)

(* No other form of a frame that reads back the same takes fewer bytes:    *)
(* javac's choice, "the smallest frame form that expresses the change".    *)
FormsOf(f, delta, prev) ==
  LET rest(n) == SubSeq(f.locals, Len(f.locals) - n + 1, Len(f.locals))
  IN {Physical(255, delta, f.locals, f.stack)}
       \cup {Physical(tag, delta, <<>>, <<>>) : tag \in {251, 250, 249, 248}}
       \cup {Physical(247, delta, <<>>, f.stack)}
       \cup {Physical(251 + n, delta, rest(n), <<>>) : n \in (1..3) \cap (1..Len(f.locals))}
       \cup (IF delta <= 63 THEN {Physical(delta, delta, <<>>, <<>>),
                                  Physical(64 + delta, delta, <<>>, f.stack)} ELSE {})

Expresses(p, f, delta, prev) ==
  /\ p.tag \in 248..250 => 251 - p.tag <= Len(prev)
  /\ p.tag \in 64..127 \cup {247} => Len(p.stack) = 1
  /\ ReadDelta(p) = delta
  /\ ReadLocals(p, prev) = f.locals /\ ReadStack(p) = f.stack

SmallestForms ==
  Written =>
    \A n \in DOMAIN plan.methods :
      LET m == plan.methods[n]
      IN \A k \in DOMAIN m.frames :
           LET f == m.frames[k]
               delta == Delta(m.frames, k)
               prev == PrevLocals(m.frames, m.entryLocals, k)
           IN \A p \in FormsOf(f, delta, prev) :
                Expresses(p, f, delta, prev) =>
                  Len(FrameBytes(WriteFrame(f, delta, prev))) <= Len(FrameBytes(p))

=============================================================================
