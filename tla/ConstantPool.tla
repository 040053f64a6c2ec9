---------------------------- MODULE ConstantPool ----------------------------
(***************************************************************************)
(* classfile/pool.rs: the constant pool.  Interning an entry allocates it  *)
(* and, breadth-first, those of its children that are missing; an entry    *)
(* keeps its index for good, long and double entries take two indices, and *)
(* the file lists the entries in allocation order without their indices.   *)
(*                                                                         *)
(* An entry is a record [kind, of]: of holds the text ids an entry is made *)
(* of, or the bit pattern of a number.                                     *)
(***************************************************************************)
EXTENDS Integers, Sequences, SequencesExt

CONSTANTS
  Texts,         \* the strings a class file can mention
  Numbers,       \* bit patterns of numeric constants
  NaNs,          \* those of them that are a NaN
  CanonicalNaN,  \* the pattern javac writes for any NaN
  IndexSpace,    \* 2^16: indices and text ids are u16
  MaxEntries     \* bound: no call once the pool has this many entries

ASSUME NumbersAssumption ==
  Numbers \subseteq Nat /\ NaNs \subseteq Numbers /\ CanonicalNaN \in NaNs
ASSUME SpaceAssumption == IndexSpace \in Nat \ {0, 1} /\ MaxEntries \in Nat

TextKinds == {"Utf8", "Class", "String", "NameAndType", "Fieldref", "Methodref"}
WideKinds == {"Long", "Double"}
Kinds == TextKinds \cup WideKinds \cup {"Integer", "Float"}

Entry == [kind : Kinds, of : Seq(Nat)]

Utf8(t) == [kind |-> "Utf8", of |-> <<t>>]
ClassOf(t) == [kind |-> "Class", of |-> <<t>>]
StringOf(t) == [kind |-> "String", of |-> <<t>>]
NameAndType(n, d) == [kind |-> "NameAndType", of |-> <<n, d>>]
Member(kind, o, n, d) == [kind |-> kind, of |-> <<o, n, d>>]

Children(e) ==
  CASE e.kind \in {"Class", "String"} -> <<Utf8(e.of[1])>>
    [] e.kind = "NameAndType" -> <<Utf8(e.of[1]), Utf8(e.of[2])>>
    [] e.kind \in {"Fieldref", "Methodref"} ->
         <<ClassOf(e.of[1]), NameAndType(e.of[2], e.of[3])>>
    [] OTHER -> <<>>

Width(e) == IF e.kind \in WideKinds THEN 2 ELSE 1

VARIABLES
  texts,       \* the distinct strings, in the order they were first seen
  entries,     \* the entries in allocation order
  index,       \* the index of each entry
  queue,       \* entries whose children are still to be visited
  pending,     \* children of the entry being visited
  nextIndex,
  overflowed,  \* the addition in alloc_new overflowed (a panic in debug builds)
  call         \* the entry last interned and how many entries preceded it

vars == <<texts, entries, index, queue, pending, nextIndex, overflowed, call>>

Init ==
  /\ texts = <<>> /\ entries = <<>> /\ index = <<>>
  /\ queue = <<>> /\ pending = <<>>
  /\ nextIndex = 1 /\ overflowed = FALSE
  /\ call = [root |-> <<>>, from |-> 0]

Busy == queue # <<>> \/ pending # <<>>

(* Mutants of AllocNew: a double takes one index; the entry gets the index *)
(* after the one it fills; the counter never wraps.                        *)
AllocWith(e, at, next) ==
  /\ entries' = Append(entries, e)
  /\ index' = [f \in DOMAIN index \cup {e} |-> IF f = e THEN at ELSE index[f]]
  /\ nextIndex' = next
  /\ overflowed' = (overflowed \/ nextIndex + Width(e) >= IndexSpace)

AllocNarrowDouble(e) ==
  AllocWith(e, nextIndex, (nextIndex + IF e.kind = "Long" THEN 2 ELSE 1) % IndexSpace)
AllocLate(e) ==
  AllocWith(e, (nextIndex + 1) % IndexSpace, (nextIndex + Width(e)) % IndexSpace)
AllocWide(e) == AllocWith(e, nextIndex, nextIndex + Width(e))

AllocNew(e) ==
  /\ entries' = Append(entries, e)
  /\ index' = [f \in DOMAIN index \cup {e} |-> IF f = e THEN nextIndex ELSE index[f]]
  /\ nextIndex' = (nextIndex + Width(e)) % IndexSpace
  /\ overflowed' = (overflowed \/ nextIndex + Width(e) >= IndexSpace)

Intern(e) ==
  /\ ~ Busy
  /\ call' = [root |-> <<e>>, from |-> Len(entries)]
  /\ IF e \in DOMAIN index
     THEN UNCHANGED <<entries, index, queue, nextIndex, overflowed>>
     ELSE AllocNew(e) /\ queue' = <<e>>
  /\ UNCHANGED pending

(* The loop of intern, one child at a time. *)
VisitEntry ==
  /\ pending = <<>> /\ queue # <<>>
  /\ pending' = Children(Head(queue))
  /\ queue' = Tail(queue)
  /\ UNCHANGED <<texts, entries, index, nextIndex, overflowed, call>>

(* Mutants of VisitChild: a new child is not queued, or queued in front.   *)
VisitChildWith(enqueue(_)) ==
  /\ pending # <<>>
  /\ LET child == Head(pending)
     IN IF child \in DOMAIN index
        THEN UNCHANGED <<entries, index, queue, nextIndex, overflowed>>
        ELSE AllocNew(child) /\ queue' = enqueue(child)
  /\ pending' = Tail(pending)
  /\ UNCHANGED <<texts, call>>

VisitChildShallow == LET enqueue(child) == queue IN VisitChildWith(enqueue)
VisitChildDepthFirst == LET enqueue(child) == <<child>> \o queue IN VisitChildWith(enqueue)

VisitChild ==
  /\ pending # <<>>
  /\ LET child == Head(pending)
     IN IF child \in DOMAIN index
        THEN UNCHANGED <<entries, index, queue, nextIndex, overflowed>>
        ELSE AllocNew(child) /\ queue' = Append(queue, child)
  /\ pending' = Tail(pending)
  /\ UNCHANGED <<texts, call>>

-----------------------------------------------------------------------------
(* Texts. *)

WithText(ts, s) == IF s \in ToSet(ts) THEN ts ELSE Append(ts, s)
TextId(ts, s) == ((CHOOSE k \in DOMAIN ts : ts[k] = s) - 1) % IndexSpace

(* The interning calls, one per operand kind. *)
InternNamed(kind, s) ==
  /\ texts' = WithText(texts, s)
  /\ Intern([kind |-> kind, of |-> <<TextId(texts', s)>>])

InternUtf8(s) == InternNamed("Utf8", s)
InternClass(s) == InternNamed("Class", s)
InternString(s) == InternNamed("String", s)

InternMember(kind, o, n, d) ==
  /\ texts' = WithText(WithText(WithText(texts, o), n), d)
  /\ Intern(Member(kind, TextId(texts', o), TextId(texts', n), TextId(texts', d)))

Canonical(v) == IF v \in NaNs THEN CanonicalNaN ELSE v

InternNumber(kind, v) ==
  /\ Intern([kind |-> kind,
             of |-> <<IF kind \in {"Float", "Double"} THEN Canonical(v) ELSE v>>])
  /\ UNCHANGED texts

MemberKinds == {"Fieldref", "Methodref"}
NumberKinds == {"Integer", "Float", "Long", "Double"}

Call ==
  /\ Len(entries) < MaxEntries
  /\ \/ \E s \in Texts : InternUtf8(s) \/ InternClass(s) \/ InternString(s)
     \/ \E kind \in MemberKinds, o, n, d \in Texts : InternMember(kind, o, n, d)
     \/ \E kind \in NumberKinds, v \in Numbers : InternNumber(kind, v)

PoolNext == Call \/ VisitEntry \/ VisitChild

PoolSpec == Init /\ [][PoolNext]_vars

-----------------------------------------------------------------------------
(* Properties. *)

(* The one type invariant: the index map covers exactly the recorded       *)
(* entries and the counter stays a u16 (the fields of ConstantPool).       *)
TypeOK ==
  /\ texts \in Seq(Texts)
  /\ entries \in Seq(Entry) /\ queue \in Seq(Entry) /\ pending \in Seq(Entry)
  /\ DOMAIN index = ToSet(entries)
  /\ \A e \in DOMAIN index : index[e] \in 0..(IndexSpace - 1)
  /\ nextIndex \in 0..(IndexSpace - 1)
  /\ overflowed \in BOOLEAN
  /\ call \in [root : Seq(Entry), from : Nat]

(* A reader of the file numbers the entries by counting, two for a long or *)
(* double: that count is the index the code bytes and the other entries    *)
(* refer to (alloc_new against serialize), and nextIndex is the count      *)
(* field.  Holds until the u16 counter overflows.                          *)
CountedIndex ==
  ~ overflowed =>
    /\ entries # <<>> => index[entries[1]] = 1
    /\ \A k \in DOMAIN entries :
         LET after == index[entries[k]] + Width(entries[k])
         IN IF k = Len(entries) THEN nextIndex = after
            ELSE index[entries[k + 1]] = after

(* No two entries share an index, and none sits in the phantom slot of     *)
(* another.                                                                *)
SlotsOf(e) == index[e]..(index[e] + Width(e) - 1)
SlotsDisjoint ==
  ~ overflowed =>
    \A e, f \in DOMAIN index : e # f => SlotsOf(e) \cap SlotsOf(f) = {}

(* Between calls every entry the pool refers to is in it, and so is every  *)
(* text: the lookups of serialize cannot fail.                             *)
Serializable ==
  ~ Busy =>
    \A e \in DOMAIN index :
      /\ ToSet(Children(e)) \subseteq DOMAIN index
      /\ e.kind = "Utf8" => e.of[1] \in 0..(Len(texts) - 1)

(* The order of one call is javac's: the entry, its children, then theirs, *)
(* without what was there before and without repetition (intern's FIFO).   *)
LevelOrder(root) ==
  LET grand(k) == Children(Children(root)[k])
  IN <<root>> \o Children(root)
       \o FlattenSeq([k \in DOMAIN Children(root) |-> grand(k)])

Missing(order, known) ==
  LET add(out, e) == IF e \in known \cup ToSet(out) THEN out ELSE Append(out, e)
  IN FoldLeft(add, <<>>, order)

JavacOrder ==
  ~ Busy /\ call.root # <<>> =>
    SubSeq(entries, call.from + 1, Len(entries))
      = Missing(LevelOrder(call.root[1]), ToSet(SubSeq(entries, 1, call.from)))

(* Nothing ever moves: an index handed out to an instruction stays valid.  *)
IndexKept ==
  [][\A e \in DOMAIN index : e \in DOMAIN index' /\ index'[e] = index[e]]_vars

(* The pool implements the slot table. *)
Table == INSTANCE SlotTable
           WITH ItemWidth <- Width, Slots <- IndexSpace,
                slot <- index, free <- nextIndex, exhausted <- overflowed
ImplementsTable == Table!Spec

=============================================================================
