-------------------------- MODULE ClassFileProofs --------------------------
(***************************************************************************)
(* Proofs about ConstantPool and ClassWriter.  The pool: the numbering of  *)
(* its entries, its closure under children, the order in which a call adds *)
(* to it, and that it implements SlotTable.  The writer: the independent   *)
(* reader takes every class file apart into what was planned, and no frame *)
(* could have been written in fewer bytes.                                 *)
(***************************************************************************)
EXTENDS ClassWriter, FiniteFolds, SequenceTheorems, TLAPS

-----------------------------------------------------------------------------
(* The inductive invariant. *)

(* The numbering.  Successive indices (CountedIndex) do not by themselves  *)
(* say that distant entries are apart; Spread does.                        *)
Spread ==
  ~ overflowed =>
    /\ nextIndex >= 1 /\ (entries = <<>> => nextIndex = 1)
    /\ \A k \in DOMAIN entries :
         /\ index[entries[k]] >= 1
         /\ index[entries[k]] + Width(entries[k]) <= nextIndex
    /\ \A j, k \in DOMAIN entries :
         j < k => index[entries[j]] + Width(entries[j]) <= index[entries[k]]

Numbered ==
  /\ entries \in Seq(Entry)
  /\ DOMAIN index = ToSet(entries)
  /\ \A e \in DOMAIN index : index[e] \in 0..(IndexSpace - 1)
  /\ nextIndex \in 0..(IndexSpace - 1)
  /\ overflowed \in BOOLEAN
  /\ CountedIndex
  /\ Spread

(* Entries are made of known texts, as many as their kind needs. *)
Texted(e, n, count) ==
  Len(e.of) = n /\ \A k \in 1..n : e.of[k] \in 0..(count - 1)

Formed(e, count) ==
  /\ e \in Entry
  /\ e.kind \in {"Utf8", "Class", "String"} => Texted(e, 1, count)
  /\ e.kind = "NameAndType" => Texted(e, 2, count)
  /\ e.kind \in MemberKinds => Texted(e, 3, count)

(* Every child of an entry is in the pool, is about to be visited, or is   *)
(* the child of an entry still in the queue.                               *)
Closing ==
  /\ queue \in Seq(Entry) /\ pending \in Seq(Entry)
  /\ ToSet(queue) \subseteq DOMAIN index
  /\ \A e \in DOMAIN index : Formed(e, Len(texts))
  /\ \A e \in ToSet(pending) : Formed(e, Len(texts))
  /\ \A e \in DOMAIN index \ ToSet(queue) :
       ToSet(Children(e)) \subseteq DOMAIN index \cup ToSet(pending)

IInv ==
  /\ texts \in Seq(Texts)
  /\ call \in [root : Seq(Entry), from : Nat]
  /\ Numbered
  /\ Closing

(* The width of an entry is one or two. *)
LEMMA WidthType == \A e : Width(e) \in {1, 2}
BY DEF Width

(* The children of a formed entry are formed. *)
LEMMA ChildrenFormed ==
  ASSUME NEW count \in Nat, NEW e, Formed(e, count)
  PROVE  /\ Children(e) \in Seq(Entry)
         /\ \A c \in ToSet(Children(e)) : Formed(c, count)
<1>1. ASSUME NEW t \in 0..(count - 1), NEW kind \in {"Utf8", "Class", "String"},
             NEW c, c = [kind |-> kind, of |-> <<t>>]
      PROVE  Formed(c, count)
  <2>1. c \in Entry /\ c.of = <<t>> /\ c.kind = kind
    BY <1>1 DEF Entry, Kinds, TextKinds
  <2>2. Texted(c, 1, count)
    BY <2>1 DEF Texted
  <2> QED
    BY <2>1, <2>2 DEF Formed, MemberKinds
<1>2. ASSUME NEW n \in 0..(count - 1), NEW d \in 0..(count - 1)
      PROVE  Formed(NameAndType(n, d), count)
  <2> DEFINE c == NameAndType(n, d)
  <2>1. c \in Entry /\ c.of = <<n, d>> /\ c.kind = "NameAndType"
    BY DEF NameAndType, Entry, Kinds, TextKinds
  <2>2. Texted(c, 2, count)
    BY <2>1 DEF Texted
  <2> QED
    BY <2>1, <2>2 DEF Formed, MemberKinds
<1>3. ASSUME NEW c, Formed(c, count), Children(e) = <<c>>
      PROVE  Children(e) \in Seq(Entry) /\ \A f \in ToSet(Children(e)) : Formed(f, count)
  BY <1>3 DEF Formed, ToSet
<1>4. ASSUME NEW c, NEW d, Formed(c, count), Formed(d, count), Children(e) = <<c, d>>
      PROVE  Children(e) \in Seq(Entry) /\ \A f \in ToSet(Children(e)) : Formed(f, count)
  BY <1>4 DEF Formed, ToSet
<1>5. CASE e.kind \in {"Class", "String"}
  <2>1. e.of[1] \in 0..(count - 1)
    BY <1>5 DEF Formed, Texted
  <2>2. Formed(Utf8(e.of[1]), count)
    BY <2>1, <1>1 DEF Utf8
  <2>3. Children(e) = <<Utf8(e.of[1])>>
    BY <1>5 DEF Children
  <2> QED
    BY <1>3, <2>2, <2>3
<1>6. CASE e.kind = "NameAndType"
  <2>1. e.of[1] \in 0..(count - 1) /\ e.of[2] \in 0..(count - 1)
    BY <1>6 DEF Formed, Texted
  <2>2. Formed(Utf8(e.of[1]), count) /\ Formed(Utf8(e.of[2]), count)
    BY <2>1, <1>1 DEF Utf8
  <2>3. Children(e) = <<Utf8(e.of[1]), Utf8(e.of[2])>>
    BY <1>6 DEF Children
  <2> QED
    BY <1>4, <2>2, <2>3
<1>7. CASE e.kind \in MemberKinds
  <2>1. /\ e.of[1] \in 0..(count - 1) /\ e.of[2] \in 0..(count - 1)
        /\ e.of[3] \in 0..(count - 1)
    BY <1>7 DEF Formed, Texted
  <2>2. Formed(ClassOf(e.of[1]), count) /\ Formed(NameAndType(e.of[2], e.of[3]), count)
    BY <2>1, <1>1, <1>2 DEF ClassOf
  <2>3. Children(e) = <<ClassOf(e.of[1]), NameAndType(e.of[2], e.of[3])>>
    BY <1>7 DEF Children, MemberKinds
  <2> QED
    BY <1>4, <2>2, <2>3
<1>8. CASE e.kind \notin {"Class", "String", "NameAndType"} \cup MemberKinds
  <2>1. Children(e) = <<>>
    BY <1>8 DEF Children, MemberKinds
  <2> QED
    BY <2>1 DEF ToSet
<1> QED
  BY <1>5, <1>6, <1>7, <1>8

(* Formed is kept when texts are added. *)
LEMMA FormedGrows ==
  ASSUME NEW m \in Nat, NEW n \in Nat, m <= n, NEW e, Formed(e, m)
  PROVE  Formed(e, n)
BY DEF Formed, Texted

-----------------------------------------------------------------------------
(* Allocation. *)

(* alloc_new keeps the entries numbered: the new entry is last in the file *)
(* and gets the index a reader counts for it.                              *)
LEMMA AllocNumbered ==
  ASSUME Numbered, NEW e \in Entry, e \notin DOMAIN index, AllocNew(e)
  PROVE  /\ Numbered'
         /\ DOMAIN index' = DOMAIN index \cup {e}
         /\ \A f \in DOMAIN index : index'[f] = index[f]
<1> DEFINE n == Len(entries)
           next == nextIndex + Width(e)
<1>1. /\ entries \in Seq(Entry) /\ n \in Nat /\ DOMAIN entries = 1..n
      /\ IndexSpace \in Nat \ {0, 1} /\ nextIndex \in Nat
      /\ Width(e) \in {1, 2} /\ next \in Nat
  BY SpaceAssumption, WidthType DEF Numbered
<1>2. /\ entries' \in Seq(Entry) /\ Len(entries') = n + 1
      /\ \A k \in 1..n : entries'[k] = entries[k]
      /\ entries'[n + 1] = e
      /\ ToSet(entries') = ToSet(entries) \cup {e}
      /\ DOMAIN entries' = 1..(n + 1)
  <2>1. entries' = Append(entries, e)
    BY DEF AllocNew
  <2> QED
    BY <1>1, <2>1, AppendSet
<1>3. /\ DOMAIN index' = DOMAIN index \cup {e}
      /\ index'[e] = nextIndex
      /\ \A f \in DOMAIN index : index'[f] = index[f]
  BY DEF AllocNew
<1>4. /\ \A k \in 1..n : entries[k] \in DOMAIN index
      /\ \A k \in 1..n : index'[entries'[k]] = index[entries[k]]
      /\ index'[entries'[n + 1]] = nextIndex
  <2>1. \A k \in 1..n : entries[k] \in DOMAIN index
    BY <1>1 DEF Numbered, ToSet
  <2> QED
    BY <2>1, <1>2, <1>3
<1>0. n \in Nat
  BY <1>1
<1>5. /\ nextIndex' \in 0..(IndexSpace - 1)
      /\ next < IndexSpace => nextIndex' = next
  <2>1. /\ next % IndexSpace \in 0..(IndexSpace - 1)
        /\ next < IndexSpace => next % IndexSpace = next
    <3> HIDE DEF next
    <3> QED
      BY <1>1, Modulo
  <2> QED
    BY <2>1 DEF AllocNew
<1>6. overflowed' \in BOOLEAN
  BY Zenon DEF AllocNew, Numbered
<1>7. ASSUME ~ overflowed'
      PROVE  ~ overflowed /\ next < IndexSpace /\ nextIndex' = next
  <2>1. ~ overflowed /\ ~ (next >= IndexSpace)
    BY <1>7 DEF AllocNew
  <2>2. next < IndexSpace
    BY <2>1, <1>1
  <2> QED
    BY <2>1, <2>2, <1>5
<1>8. \A k \in 1..n : index[entries[k]] \in Nat /\ Width(entries[k]) \in {1, 2}
  BY <1>1, <1>4, WidthType DEF Numbered
<1>9. CountedIndex'
  <2> SUFFICES ASSUME ~ overflowed'
               PROVE  /\ index'[entries'[1]] = 1
                      /\ \A k \in 1..(n + 1) :
                           LET after == index'[entries'[k]] + Width(entries'[k])
                           IN IF k = n + 1 THEN nextIndex' = after
                              ELSE index'[entries'[k + 1]] = after
    BY <1>2 DEF CountedIndex
  <2>1. ~ overflowed /\ nextIndex' = next /\ Spread /\ CountedIndex
    BY <1>7 DEF Numbered
  <2>2. index'[entries'[1]] = 1
    <3>1. CASE n = 0
      <4>1. entries = <<>>
        BY <3>1, <1>1
      <4> QED
        BY <4>1, <3>1, <2>1, <1>4 DEF Spread
    <3>2. CASE n # 0
      <4>1. entries # <<>> /\ 1 \in 1..n
        BY <3>2, <1>1
      <4> QED
        BY <4>1, <2>1, <1>4 DEF CountedIndex
    <3> QED
      BY <3>1, <3>2
  <2>3. ASSUME NEW k \in 1..n, k # n
        PROVE  index'[entries'[k + 1]] = index'[entries'[k]] + Width(entries'[k])
    <3>1. k + 1 \in 1..n
      <4> HIDE DEF n
      <4> QED
        BY <2>3, <1>0
    <3>2. index[entries[k + 1]] = index[entries[k]] + Width(entries[k])
      BY <2>1, <2>3, <1>1 DEF CountedIndex
    <3> QED
      BY <3>1, <3>2, <1>2, <1>4
  <2>4. n # 0 => index'[entries'[n + 1]] = index'[entries'[n]] + Width(entries'[n])
    <3>1. n # 0 => nextIndex = index[entries[n]] + Width(entries[n])
      BY <2>1, <1>1 DEF CountedIndex
    <3> QED
      BY <3>1, <1>1, <1>2, <1>4
  <2>5. nextIndex' = index'[entries'[n + 1]] + Width(entries'[n + 1])
    BY <2>1, <1>2, <1>4
  <2>6. ASSUME NEW k \in 1..(n + 1)
        PROVE  LET after == index'[entries'[k]] + Width(entries'[k])
               IN IF k = n + 1 THEN nextIndex' = after
                  ELSE index'[entries'[k + 1]] = after
    <3> HIDE DEF n
    <3>1. CASE k = n + 1
      BY <3>1, <2>5
    <3>2. CASE k = n
      BY <3>2, <2>4, <1>0
    <3>3. CASE k \in 1..n /\ k # n
      BY <3>3, <2>3, <1>0
    <3> QED
      BY <3>1, <3>2, <3>3, <1>0
  <2> QED
    BY <2>2, <2>6
<1>10. Spread'
  <2> SUFFICES ASSUME ~ overflowed'
               PROVE  /\ nextIndex' >= 1
                      /\ \A k \in 1..(n + 1) :
                           /\ index'[entries'[k]] >= 1
                           /\ index'[entries'[k]] + Width(entries'[k]) <= nextIndex'
                      /\ \A j, k \in 1..(n + 1) :
                           j < k => index'[entries'[j]] + Width(entries'[j])
                                      <= index'[entries'[k]]
    <3>1. entries' # <<>>
      BY <1>1, <1>2
    <3> QED
      BY <1>2, <3>1 DEF Spread
  <2>1. nextIndex' = next /\ Spread /\ ~ overflowed
    BY <1>7 DEF Numbered
  <2>2. nextIndex >= 1 /\ nextIndex' > nextIndex /\ nextIndex' >= 1
    BY <1>1, <2>1 DEF Spread
  <2>3. ASSUME NEW k \in 1..n
        PROVE  /\ index'[entries'[k]] >= 1
               /\ index'[entries'[k]] + Width(entries'[k]) <= nextIndex
    <3>1. /\ index[entries[k]] >= 1
          /\ index[entries[k]] + Width(entries[k]) <= nextIndex
      BY <2>1, <1>1 DEF Spread
    <3> QED
      BY <3>1, <1>2, <1>4
  <2>4. \A k \in 1..(n + 1) :
          /\ index'[entries'[k]] >= 1
          /\ index'[entries'[k]] + Width(entries'[k]) <= nextIndex'
    <3> TAKE k \in 1..(n + 1)
    <3>1. CASE k \in 1..n
      <4>1. index'[entries'[k]] \in Nat /\ Width(entries'[k]) \in {1, 2}
        BY <3>1, <1>2, <1>4, <1>8
      <4> QED
        BY <3>1, <4>1, <2>2, <2>3, <1>1, <1>5
    <3>2. CASE k = n + 1
      BY <3>2, <2>1, <2>2, <1>1, <1>2, <1>4
    <3> QED
      BY <3>1, <3>2, <1>1
  <2>5. ASSUME NEW j \in 1..(n + 1), NEW k \in 1..(n + 1), j < k
        PROVE  index'[entries'[j]] + Width(entries'[j]) <= index'[entries'[k]]
    <3>1. j \in 1..n
      BY <2>5, <1>1
    <3>2. CASE k \in 1..n
      <4>1. index[entries[j]] + Width(entries[j]) <= index[entries[k]]
        BY <2>1, <2>5, <3>1, <3>2, <1>1 DEF Spread
      <4> QED
        BY <4>1, <3>1, <3>2, <1>2, <1>4
    <3>3. CASE k = n + 1
      BY <3>1, <3>3, <2>3, <1>4
    <3> QED
      BY <3>2, <3>3, <1>1
  <2> HIDE DEF n
  <2> QED
    BY <2>2, <2>4, <2>5
<1>11. Numbered'
  <2>1. DOMAIN index' = ToSet(entries')
    BY <1>2, <1>3 DEF Numbered
  <2>2. \A f \in DOMAIN index' : index'[f] \in 0..(IndexSpace - 1)
    BY <1>3 DEF Numbered
  <2> QED
    BY <1>2, <2>1, <2>2, <1>5, <1>6, <1>9, <1>10 DEF Numbered
<1> QED
  BY <1>3, <1>11

(* Allocation is a step of the slot table. *)
LEMMA AllocStores ==
  ASSUME Numbered, NEW e \in Entry, e \notin DOMAIN index, AllocNew(e)
  PROVE  Table!Next
<1> DEFINE next == nextIndex + Width(e)
<1>1. /\ IndexSpace \in Nat \ {0, 1} /\ nextIndex \in Nat
      /\ Width(e) \in {1, 2} /\ next \in Nat
      /\ overflowed \in BOOLEAN
  BY SpaceAssumption, WidthType DEF Numbered
<1>2. e \in DOMAIN index' \ DOMAIN index
  BY DEF AllocNew
<1>3. overflowed' = (overflowed \/ next >= IndexSpace)
  BY DEF AllocNew
<1>4. CASE overflowed
  BY <1>3, <1>4 DEF Table!Next, Table!AfterExhaustion
<1>5. CASE ~ overflowed /\ next >= IndexSpace
  <2>1. Table!Exhaust
    BY <1>2, <1>3, <1>5 DEF Table!Exhaust
  <2> QED
    BY <2>1 DEF Table!Next
<1>6. CASE ~ overflowed /\ ~ (next >= IndexSpace)
  <2>1. next < IndexSpace
    BY <1>1, <1>6
  <2>2. nextIndex' = next
    <3>1. next % IndexSpace = next
      <4> HIDE DEF next
      <4> QED
        BY <1>1, <2>1, Modulo
    <3> QED
      BY <3>1 DEF AllocNew
  <2>3. index' = [f \in DOMAIN index \cup {e} |-> IF f = e THEN nextIndex ELSE index[f]]
    BY DEF AllocNew
  <2>4. overflowed = FALSE /\ overflowed' = overflowed
    BY <1>1, <1>3, <1>6, Zenon
  <2>5. Table!Store
    BY <1>2, <2>1, <2>2, <2>3, <2>4 DEF Table!Store
  <2> QED
    BY <2>5 DEF Table!Next
<1> QED
  BY <1>4, <1>5, <1>6

-----------------------------------------------------------------------------
(* Texts. *)

(* Adding a text keeps the ones there are.                                 *)
LEMMA TextAdded ==
  ASSUME NEW ts \in Seq(Texts), NEW s \in Texts
  PROVE  /\ WithText(ts, s) \in Seq(Texts)
         /\ Len(ts) <= Len(WithText(ts, s))
         /\ s \in ToSet(WithText(ts, s))
         /\ ToSet(ts) \subseteq ToSet(WithText(ts, s))
<1>1. CASE s \in ToSet(ts)
  BY <1>1 DEF WithText
<1>2. CASE s \notin ToSet(ts)
  <2>1. WithText(ts, s) = Append(ts, s)
    BY <1>2 DEF WithText
  <2> QED
    BY <2>1, AppendSet
<1> QED
  BY <1>1, <1>2

(* The id of a known text is below the number of texts, also when it is    *)
(* truncated to 16 bits.                                                   *)
LEMMA TextIdRange ==
  ASSUME NEW ts \in Seq(Texts), NEW s \in ToSet(ts)
  PROVE  TextId(ts, s) \in 0..(Len(ts) - 1)
<1> DEFINE k == CHOOSE j \in DOMAIN ts : ts[j] = s
<1>1. \E j \in DOMAIN ts : ts[j] = s
  BY DEF ToSet
<1>2. k \in DOMAIN ts
  BY <1>1
<1>3. k \in 1..Len(ts) /\ Len(ts) \in Nat
  BY <1>2
<1> HIDE DEF k
<1>4. k - 1 \in Nat /\ k - 1 <= Len(ts) - 1
  BY <1>3
<1>5. (k - 1) % IndexSpace \in 0..(IndexSpace - 1) /\ (k - 1) % IndexSpace <= k - 1
  <2> DEFINE x == k - 1
  <2> HIDE DEF x
  <2>1. x \in Nat
    BY <1>4 DEF x
  <2> QED
    BY <2>1, SpaceAssumption, Modulo DEF x
<1>6. TextId(ts, s) = (k - 1) % IndexSpace
  BY DEF TextId, k
<1> QED
  BY <1>3, <1>4, <1>5, <1>6, SpaceAssumption

-----------------------------------------------------------------------------
(* The steps of the pool. *)

Kept == \A e \in DOMAIN index : e \in DOMAIN index' /\ index'[e] = index[e]

TableStep == Table!Next \/ UNCHANGED <<index, nextIndex, overflowed>>

(* The empty pool is a good one.                                           *)
LEMMA InitInvariant == Init => IInv
<1> SUFFICES ASSUME Init PROVE IInv
  OBVIOUS
<1>1. /\ entries = <<>> /\ index = <<>> /\ queue = <<>> /\ pending = <<>>
      /\ texts = <<>> /\ nextIndex = 1 /\ overflowed = FALSE
      /\ call = [root |-> <<>>, from |-> 0]
  BY DEF Init
<1>2. DOMAIN index = {} /\ ToSet(entries) = {} /\ ToSet(pending) = {} /\ ToSet(queue) = {}
  BY <1>1 DEF ToSet
<1>3. CountedIndex /\ Spread
  BY <1>1 DEF CountedIndex, Spread
<1>4. overflowed \in BOOLEAN
  BY <1>1, Zenon
<1>5. nextIndex \in 0..(IndexSpace - 1)
  BY <1>1, SpaceAssumption
<1>6. Numbered
  BY <1>1, <1>2, <1>3, <1>4, <1>5 DEF Numbered
<1>7. Closing
  BY <1>1, <1>2 DEF Closing
<1> QED
  BY <1>1, <1>6, <1>7 DEF IInv

(* A step that does not allocate keeps the numbering. *)
LEMMA QuietNumbered ==
  ASSUME Numbered, UNCHANGED <<entries, index, nextIndex, overflowed>>
  PROVE  Numbered' /\ Kept /\ TableStep
<1>1. CountedIndex' /\ Spread'
  BY DEF Numbered, CountedIndex, Spread
<1> QED
  BY <1>1 DEF Numbered, Kept, TableStep

(* intern: the entry is present, or it is allocated and queued. *)
LEMMA InternStep ==
  ASSUME IInv, NEW e, Intern(e), texts' \in Seq(Texts), Len(texts) <= Len(texts'),
         Formed(e, Len(texts'))
  PROVE  IInv' /\ Kept /\ TableStep
<1>1. /\ Numbered /\ Closing /\ e \in Entry
      /\ queue = <<>> /\ pending = <<>> /\ pending' = pending
      /\ Len(texts) \in Nat /\ Len(texts') \in Nat
  BY DEF IInv, Intern, Busy, Formed
<1>2. call' \in [root : Seq(Entry), from : Nat]
  <2>1. Len(entries) \in Nat /\ <<e>> \in Seq(Entry)
    BY <1>1 DEF Numbered
  <2> QED
    BY <2>1 DEF Intern
<1>3. /\ ToSet(queue) = {} /\ ToSet(pending) = {}
      /\ \A f \in DOMAIN index : Formed(f, Len(texts'))
      /\ \A f \in DOMAIN index : ToSet(Children(f)) \subseteq DOMAIN index
  <2>1. ToSet(queue) = {} /\ ToSet(pending) = {}
    BY <1>1 DEF ToSet
  <2>2. \A f \in DOMAIN index : Formed(f, Len(texts'))
    BY <1>1, FormedGrows DEF Closing
  <2> QED
    BY <1>1, <2>1, <2>2 DEF Closing
<1>4. CASE e \in DOMAIN index
  <2>1. UNCHANGED <<entries, index, queue, nextIndex, overflowed>>
    BY <1>4 DEF Intern
  <2>2. Numbered' /\ Kept /\ TableStep
    BY <1>1, <2>1, QuietNumbered
  <2>3. Closing'
    BY <1>1, <1>3, <2>1 DEF Closing
  <2> QED
    BY <1>2, <2>2, <2>3 DEF IInv
<1>5. CASE e \notin DOMAIN index
  <2>1. AllocNew(e) /\ queue' = <<e>>
    BY <1>5 DEF Intern
  <2>2. /\ Numbered'
        /\ DOMAIN index' = DOMAIN index \cup {e}
        /\ \A f \in DOMAIN index : index'[f] = index[f]
    BY <1>1, <1>5, <2>1, AllocNumbered
  <2>3. TableStep
    BY <1>1, <1>5, <2>1, AllocStores DEF TableStep
  <2>4. Kept
    BY <2>2 DEF Kept
  <2>5. ToSet(queue') = {e} /\ queue' \in Seq(Entry)
    BY <1>1, <2>1 DEF ToSet
  <2>6. Closing'
    <3>1. ToSet(queue') \subseteq DOMAIN index'
      BY <2>2, <2>5
    <3>2. \A f \in DOMAIN index' : Formed(f, Len(texts'))
      BY <1>3, <2>2
    <3>3. \A f \in DOMAIN index' \ ToSet(queue') :
            ToSet(Children(f)) \subseteq DOMAIN index'
      BY <1>3, <2>2, <2>5
    <3>4. pending' \in Seq(Entry) /\ ToSet(pending') = {}
      BY <1>1, <1>3 DEF Closing
    <3> QED
      BY <2>5, <3>1, <3>2, <3>3, <3>4 DEF Closing
  <2> QED
    BY <1>2, <2>2, <2>3, <2>4, <2>6 DEF IInv
<1> QED
  BY <1>4, <1>5

(* Taking an entry off the queue moves its children to pending. *)
LEMMA VisitEntryStep ==
  ASSUME IInv, VisitEntry
  PROVE  IInv' /\ Kept /\ TableStep
<1>1. /\ pending = <<>> /\ queue # <<>> /\ pending' = Children(Head(queue))
      /\ queue' = Tail(queue)
      /\ UNCHANGED <<texts, entries, index, nextIndex, overflowed, call>>
      /\ Numbered /\ Closing /\ texts \in Seq(Texts)
  BY DEF VisitEntry, IInv
<1> DEFINE e == Head(queue)
<1>2. Numbered' /\ Kept /\ TableStep
  BY <1>1, QuietNumbered
<1>3. /\ e \in Entry /\ queue' \in Seq(Entry)
      /\ ToSet(queue) = {e} \cup ToSet(queue')
  BY <1>1, TailSet DEF Closing
<1>4. e \in DOMAIN index /\ Formed(e, Len(texts))
  BY <1>1, <1>3 DEF Closing
<1>5. /\ pending' \in Seq(Entry)
      /\ \A c \in ToSet(pending') : Formed(c, Len(texts))
  <2>1. Len(texts) \in Nat
    BY <1>1
  <2> QED
    BY <1>1, <1>4, <2>1, ChildrenFormed
<1>6. \A f \in DOMAIN index \ ToSet(queue') :
        ToSet(Children(f)) \subseteq DOMAIN index \cup ToSet(pending')
  <2> TAKE f \in DOMAIN index \ ToSet(queue')
  <2>1. CASE f = e
    BY <1>1, <2>1
  <2>2. CASE f # e
    <3>1. ToSet(pending) = {}
      BY <1>1 DEF ToSet
    <3>2. f \notin ToSet(queue)
      BY <1>3, <2>2
    <3> QED
      BY <1>1, <3>1, <3>2 DEF Closing
  <2> QED
    BY <2>1, <2>2
<1>7. Closing'
  <2>1. ToSet(queue') \subseteq DOMAIN index
    BY <1>1, <1>3 DEF Closing
  <2> QED
    BY <1>1, <1>3, <1>5, <1>6, <2>1 DEF Closing
<1> QED
  BY <1>1, <1>2, <1>7 DEF IInv

(* A missing child is allocated and queued behind the others. *)
LEMMA VisitChildStep ==
  ASSUME IInv, VisitChild
  PROVE  IInv' /\ Kept /\ TableStep
<1> DEFINE c == Head(pending)
<1>1. /\ pending # <<>> /\ pending' = Tail(pending)
      /\ UNCHANGED <<texts, call>>
      /\ Numbered /\ Closing /\ texts \in Seq(Texts)
  BY DEF VisitChild, IInv
<1>2. /\ c \in Entry /\ pending' \in Seq(Entry)
      /\ ToSet(pending) = {c} \cup ToSet(pending')
  BY <1>1, TailSet DEF Closing
<1>3. /\ Formed(c, Len(texts))
      /\ \A f \in ToSet(pending') : Formed(f, Len(texts))
  BY <1>1, <1>2 DEF Closing
<1>4. CASE c \in DOMAIN index
  <2>1. UNCHANGED <<entries, index, queue, nextIndex, overflowed>>
    BY <1>4 DEF VisitChild
  <2>2. Numbered' /\ Kept /\ TableStep
    BY <1>1, <2>1, QuietNumbered
  <2>3. \A f \in DOMAIN index \ ToSet(queue) :
          ToSet(Children(f)) \subseteq DOMAIN index \cup ToSet(pending')
    BY <1>1, <1>2, <1>4 DEF Closing
  <2>4. Closing'
    BY <1>1, <1>2, <1>3, <2>1, <2>3 DEF Closing
  <2> QED
    BY <1>1, <2>2, <2>4 DEF IInv
<1>5. CASE c \notin DOMAIN index
  <2>1. AllocNew(c) /\ queue' = Append(queue, c)
    BY <1>5 DEF VisitChild
  <2>2. /\ Numbered'
        /\ DOMAIN index' = DOMAIN index \cup {c}
        /\ \A f \in DOMAIN index : index'[f] = index[f]
    BY <1>1, <1>2, <1>5, <2>1, AllocNumbered
  <2>3. TableStep
    BY <1>1, <1>2, <1>5, <2>1, AllocStores DEF TableStep
  <2>4. Kept
    BY <2>2 DEF Kept
  <2>5. queue' \in Seq(Entry) /\ ToSet(queue') = ToSet(queue) \cup {c}
    BY <1>1, <1>2, <2>1, AppendSet DEF Closing
  <2>6. \A f \in DOMAIN index' \ ToSet(queue') :
          ToSet(Children(f)) \subseteq DOMAIN index' \cup ToSet(pending')
    BY <1>1, <1>2, <2>2, <2>5 DEF Closing
  <2>7. Closing'
    <3>1. ToSet(queue') \subseteq DOMAIN index'
      BY <1>1, <2>2, <2>5 DEF Closing
    <3>2. \A f \in DOMAIN index' : Formed(f, Len(texts))
      BY <1>1, <1>3, <2>2 DEF Closing
    <3> QED
      BY <1>1, <1>2, <1>3, <2>5, <2>6, <3>1, <3>2 DEF Closing
  <2> QED
    BY <1>1, <2>2, <2>3, <2>4, <2>7 DEF IInv
<1> QED
  BY <1>4, <1>5

-----------------------------------------------------------------------------
(* The calls. *)

(* A call interns an entry made of known texts, and no name and type for   *)
(* itself.                                                                 *)
Opens(e) ==
  /\ Intern(e)
  /\ texts' \in Seq(Texts) /\ Len(texts) <= Len(texts')
  /\ Formed(e, Len(texts')) /\ e.kind # "NameAndType"

(* One that interns a named entry does. *)
LEMMA NamedCall ==
  ASSUME IInv, NEW kind \in {"Utf8", "Class", "String"}, NEW s \in Texts,
         InternNamed(kind, s)
  PROVE  Opens([kind |-> kind, of |-> <<TextId(texts', s)>>])
<1> DEFINE t == TextId(texts', s)
           e == [kind |-> kind, of |-> <<t>>]
<1>1. texts \in Seq(Texts) /\ texts' = WithText(texts, s) /\ Intern(e)
  BY DEF IInv, InternNamed
<1>2. texts' \in Seq(Texts) /\ Len(texts) <= Len(texts') /\ s \in ToSet(texts')
  BY <1>1, TextAdded
<1>3. t \in 0..(Len(texts') - 1) /\ Len(texts') \in Nat
  BY <1>2, TextIdRange
<1>4. Formed(e, Len(texts'))
  <2> HIDE DEF t
  <2>1. e \in Entry /\ e.of = <<t>> /\ e.kind = kind
    BY <1>3 DEF Entry, Kinds, TextKinds
  <2>2. Texted(e, 1, Len(texts'))
    BY <1>3, <2>1 DEF Texted
  <2> QED
    BY <2>1, <2>2 DEF Formed, MemberKinds
<1>5. e.kind # "NameAndType"
  OBVIOUS
<1> HIDE DEF e
<1>6. Opens(e)
  BY <1>1, <1>2, <1>4, <1>5 DEF Opens
<1> QED
  BY <1>6 DEF e

(* So does one that interns a member reference. *)
LEMMA MemberCall ==
  ASSUME IInv, NEW kind \in MemberKinds, NEW o \in Texts, NEW n \in Texts, NEW d \in Texts,
         InternMember(kind, o, n, d)
  PROVE  Opens(Member(kind, TextId(texts', o), TextId(texts', n), TextId(texts', d)))
<1> DEFINE to == TextId(texts', o)
           tn == TextId(texts', n)
           td == TextId(texts', d)
           e == Member(kind, to, tn, td)
           first == WithText(texts, o)
           second == WithText(first, n)
<1>1. texts \in Seq(Texts) /\ texts' = WithText(second, d) /\ Intern(e)
  BY DEF IInv, InternMember
<1>2. /\ first \in Seq(Texts) /\ Len(texts) <= Len(first) /\ o \in ToSet(first)
      /\ second \in Seq(Texts) /\ Len(first) <= Len(second) /\ n \in ToSet(second)
      /\ ToSet(first) \subseteq ToSet(second)
  BY <1>1, TextAdded
<1>3. /\ texts' \in Seq(Texts) /\ Len(second) <= Len(texts') /\ d \in ToSet(texts')
      /\ ToSet(second) \subseteq ToSet(texts')
  <2> HIDE DEF first, second
  <2> QED
    BY <1>1, <1>2, TextAdded
<1>4. /\ Len(texts) <= Len(texts') /\ Len(texts') \in Nat
      /\ o \in ToSet(texts') /\ n \in ToSet(texts') /\ d \in ToSet(texts')
  <2> HIDE DEF first, second
  <2>1. Len(texts) \in Nat /\ Len(first) \in Nat /\ Len(second) \in Nat /\ Len(texts') \in Nat
    BY <1>1, <1>2, <1>3
  <2> QED
    BY <1>2, <1>3, <2>1
<1>5. /\ to \in 0..(Len(texts') - 1) /\ tn \in 0..(Len(texts') - 1)
      /\ td \in 0..(Len(texts') - 1)
  BY <1>3, <1>4, TextIdRange
<1>6. Formed(e, Len(texts'))
  <2> HIDE DEF to, tn, td
  <2>1. e \in Entry /\ e.of = <<to, tn, td>> /\ e.kind = kind
    BY <1>5, <1>4 DEF Member, Entry, Kinds, TextKinds, MemberKinds
  <2>2. Texted(e, 3, Len(texts'))
    BY <1>5, <2>1 DEF Texted
  <2> QED
    BY <2>1, <2>2 DEF Formed, MemberKinds
<1>7. e.kind # "NameAndType"
  BY DEF Member, MemberKinds
<1> HIDE DEF e
<1>8. Opens(e)
  BY <1>1, <1>3, <1>4, <1>6, <1>7 DEF Opens
<1> QED
  BY <1>8 DEF e

(* So does one that interns a number. *)
LEMMA NumberCall ==
  ASSUME IInv, NEW kind \in NumberKinds, NEW v \in Numbers, InternNumber(kind, v)
  PROVE  Opens([kind |-> kind,
                of |-> <<IF kind \in {"Float", "Double"} THEN Canonical(v) ELSE v>>])
<1> DEFINE b == IF kind \in {"Float", "Double"} THEN Canonical(v) ELSE v
           e == [kind |-> kind, of |-> <<b>>]
<1>1. texts \in Seq(Texts) /\ texts' = texts /\ Intern(e)
  BY DEF IInv, InternNumber
<1>2. b \in Nat
  BY NumbersAssumption DEF Canonical
<1>3. Formed(e, Len(texts'))
  <2> HIDE DEF b
  <2>1. e \in Entry /\ e.kind = kind
    BY <1>2 DEF Entry, Kinds, NumberKinds, WideKinds
  <2> QED
    BY <2>1 DEF Formed, NumberKinds, MemberKinds
<1>4. Len(texts) <= Len(texts')
  BY <1>1
<1>5. e.kind # "NameAndType"
  BY DEF NumberKinds
<1> HIDE DEF e
<1>6. Opens(e)
  BY <1>1, <1>3, <1>4, <1>5 DEF Opens
<1> QED
  BY <1>6 DEF e, b

(* And there is no other.                                                  *)
LEMMA CallOpens ==
  ASSUME IInv, Call
  PROVE  \E e : Opens(e)
<1>1. ASSUME NEW s \in Texts, InternUtf8(s) \/ InternClass(s) \/ InternString(s)
      PROVE  \E e : Opens(e)
  BY <1>1, NamedCall DEF InternUtf8, InternClass, InternString
<1>2. ASSUME NEW kind \in MemberKinds, NEW o \in Texts, NEW n \in Texts, NEW d \in Texts,
             InternMember(kind, o, n, d)
      PROVE  \E e : Opens(e)
  BY <1>2, MemberCall
<1>3. ASSUME NEW kind \in NumberKinds, NEW v \in Numbers, InternNumber(kind, v)
      PROVE  \E e : Opens(e)
  BY <1>3, NumberCall
<1> QED
  BY <1>1, <1>2, <1>3 DEF Call

(* Every step keeps the invariant and the entries, and is a step of the    *)
(* table.                                                                  *)
LEMMA PoolStep ==
  ASSUME IInv, [PoolNext]_vars
  PROVE  IInv' /\ Kept /\ TableStep
<1>1. CASE Call
  <2>1. PICK e : Opens(e)
    BY <1>1, CallOpens
  <2> QED
    BY <2>1, InternStep DEF Opens
<1>2. CASE VisitEntry
  BY <1>2, VisitEntryStep
<1>3. CASE VisitChild
  BY <1>3, VisitChildStep
<1>4. CASE UNCHANGED vars
  <2>1. Numbered' /\ Kept /\ TableStep
    BY <1>4, QuietNumbered DEF vars, IInv
  <2>2. Closing'
    BY <1>4 DEF vars, IInv, Closing
  <2> QED
    BY <1>4, <2>1, <2>2 DEF vars, IInv
<1> QED
  BY <1>1, <1>2, <1>3, <1>4 DEF PoolNext

(* The pool is a good one after any calls.                                 *)
LEMMA Invariant == PoolSpec => []IInv
<1>1. IInv /\ [PoolNext]_vars => IInv'
  BY PoolStep
<1> QED
  BY <1>1, InitInvariant, PTL DEF PoolSpec

-----------------------------------------------------------------------------
(* The order of one call. *)

(* An entry that is missing is added to those found so far.                *)
AddMissing(known, out, e) == IF e \in known \cup ToSet(out) THEN out ELSE Append(out, e)

IsMissing(h, order, known) ==
  h = [s \in SUBSET DOMAIN order |->
         IF s = {} THEN <<>> ELSE AddMissing(known, h[s \ {Max(s)}], order[Max(s)])]

(* What is missing of the first k.                                         *)
MissingTo(order, known, k) == (CHOOSE h : IsMissing(h, order, known))[1..k]

(* The fold of Missing goes by subsets of the order.                       *)
LEMMA MissingUnfolds ==
  \A order, known :
    Missing(order, known) = (CHOOSE h : IsMissing(h, order, known))[DOMAIN order]
BY DEF Missing, FoldLeft, MapThenFoldSet, IsMissing, AddMissing

(* It goes through the order from the front.                               *)
LEMMA MissingSteps ==
  ASSUME NEW order \in Seq(Entry), NEW known
  PROVE  /\ MissingTo(order, known, 0) = <<>>
         /\ \A k \in 1..Len(order) :
              /\ MissingTo(order, known, k)
                   = AddMissing(known, MissingTo(order, known, k - 1), order[k])
              /\ MissingTo(order, known, k) \in Seq(Entry)
         /\ Missing(order, known) = MissingTo(order, known, Len(order))
<1> DEFINE n == Len(order)
           A == Seq(Entry)
           F == [k \in 1..n |-> [out \in A |-> AddMissing(known, out, order[k])]]
<1>1. n \in Nat /\ DOMAIN order = 1..n /\ <<>> \in A /\ \A k \in 1..n : order[k] \in Entry
  OBVIOUS
<1>2. \A k \in 1..n : \A out \in A : AddMissing(known, out, order[k]) \in A
  <2> TAKE k \in 1..n
  <2> TAKE out \in A
  <2>1. order[k] \in Entry
    BY <1>1
  <2>2. Append(out, order[k]) \in A
    BY <2>1
  <2> QED
    BY <2>2 DEF AddMissing
<1>3. /\ F \in Steps(n, A)
      /\ \A k \in 1..n : \A out \in A : F[k][out] = AddMissing(known, out, order[k])
  <2> HIDE DEF n, A
  <2> QED
    BY <1>2 DEF Steps
<1>4. PICK g : IsLeftFold(g, F, <<>>, n, A)
  <2> HIDE DEF n, F, A
  <2> QED
    BY <1>1, <1>3, LeftFold
<1>5. IsMissing(g, order, known)
  <2> HIDE DEF n, A, F
  <2>1. IndexSet(1..n)
    BY <1>1, FS_Interval DEF IndexSet
  <2>2. ASSUME NEW s \in SUBSET (1..n), s # {}
        PROVE  Max(s) \in 1..n
    <3> DEFINE N == 1..n
    <3>1. s \in SUBSET N /\ IndexSet(N)
      BY <2>1
    <3> HIDE DEF N
    <3>2. Max(s) \in N
      BY <2>2, <3>1, GreatestIndex
    <3> QED
      BY <3>2 DEF N
  <2>3. g = [s \in SUBSET (1..n) |-> IF s = {} THEN <<>> ELSE F[Max(s)][g[s \ {Max(s)}]]]
    BY <1>4 DEF IsLeftFold, IsFold
  <2>4. ASSUME NEW s \in SUBSET (1..n), s # {}
        PROVE  F[Max(s)][g[s \ {Max(s)}]] = AddMissing(known, g[s \ {Max(s)}], order[Max(s)])
    <3>1. g[s \ {Max(s)}] \in A
      BY <1>4 DEF IsLeftFold
    <3> QED
      BY <1>3, <2>2, <2>4, <3>1
  <2>5. g = [s \in SUBSET (1..n) |->
               IF s = {} THEN <<>> ELSE AddMissing(known, g[s \ {Max(s)}], order[Max(s)])]
    BY <2>3, <2>4
  <2> QED
    BY <1>1, <2>5 DEF IsMissing
<1> DEFINE h == CHOOSE f : IsMissing(f, order, known)
<1>6. IsMissing(h, order, known)
  BY <1>5
<1>7. /\ \A k : MissingTo(order, known, k) = h[1..k]
      /\ Missing(order, known) = h[1..n]
  BY <1>1, MissingUnfolds DEF MissingTo
<1> HIDE DEF h, n, F, A
<1>8. \A s \in SUBSET (1..n) :
        h[s] = IF s = {} THEN <<>> ELSE AddMissing(known, h[s \ {Max(s)}], order[Max(s)])
  BY <1>1, <1>6 DEF IsMissing
<1>9. h[1..0] = <<>>
  <2>1. 1..0 = {}
    OBVIOUS
  <2> QED
    BY <1>8, <2>1
<1>10. ASSUME NEW k \in 1..n
       PROVE  h[1..k] = AddMissing(known, h[1..(k - 1)], order[k])
  <2>1. /\ 1..k \in SUBSET (1..n) /\ 1..k # {}
        /\ Max(1..k) = k /\ (1..k) \ {Max(1..k)} = 1..(k - 1)
    BY <1>1, IndexPrefixes
  <2> QED
    BY <1>8, <2>1
<1> DEFINE G == {k \in Nat : k \in 0..n => h[1..k] \in A}
<1>11. \A k \in 0..n : k \in G
  <2>1. 0 \in G
    BY <1>1, <1>9
  <2>2. ASSUME NEW k \in 1..n, k - 1 \in G
        PROVE  k \in G
    <3>1. h[1..(k - 1)] \in A
      BY <1>1, <2>2
    <3> QED
      BY <1>1, <1>2, <1>10, <3>1
  <2> HIDE DEF G
  <2> QED
    BY <1>1, <2>1, <2>2, IndexInduction
<1>12. \A k \in 1..n : h[1..k] \in A
  BY <1>1, <1>11
<1> QED
  BY <1>7, <1>9, <1>10, <1>12 DEF n, A

(* Only entries of the order are found, in it up to where one is.          *)
LEMMA MissingIn ==
  ASSUME NEW order \in Seq(Entry), NEW known, NEW e
  PROVE  \A k \in 0..Len(order) :
           e \in ToSet(MissingTo(order, known, k)) => \E j \in 1..k : order[j] = e
<1> DEFINE n == Len(order)
           M(k) == MissingTo(order, known, k)
           G == {k \in Nat : e \in ToSet(M(k)) => \E j \in 1..k : order[j] = e}
<1>1. n \in Nat
  OBVIOUS
<1>2. /\ MissingTo(order, known, 0) = <<>>
      /\ \A k \in 1..n :
           /\ MissingTo(order, known, k)
                = AddMissing(known, MissingTo(order, known, k - 1), order[k])
           /\ MissingTo(order, known, k) \in Seq(Entry)
  BY MissingSteps
<1>0. \A k \in 1..n : order[k] \in Entry
  OBVIOUS
<1>3. 0 \in G
  <2>1. ToSet(<<>>) = {}
    BY DEF ToSet
  <2> QED
    BY <1>2, <2>1
<1>4. ASSUME NEW k \in 1..n, k - 1 \in G
      PROVE  k \in G
  <2>1. M(k) = AddMissing(known, M(k - 1), order[k]) /\ order[k] \in Entry
    BY <1>0, <1>2
  <2>2. M(k - 1) \in Seq(Entry)
    <3>1. CASE k = 1
      <4>1. <<>> \in Seq(Entry)
        OBVIOUS
      <4>2. k - 1 = 0
        BY <3>1
      <4> HIDE DEF n
      <4> QED
        BY <1>2, <4>1, <4>2
    <3>2. CASE k # 1
      <4>1. k - 1 \in 1..n
        BY <1>1, <3>2
      <4> QED
        BY <1>2, <4>1
    <3> QED
      BY <3>1, <3>2
  <2> HIDE DEF M, n
  <2>3. ToSet(M(k)) \subseteq ToSet(M(k - 1)) \cup {order[k]}
    <3>1. ToSet(Append(M(k - 1), order[k])) = ToSet(M(k - 1)) \cup {order[k]}
      BY <2>1, <2>2, AppendSet
    <3> QED
      BY <2>1, <3>1 DEF AddMissing
  <2>4. k \in Nat /\ k \in 1..k /\ 1..(k - 1) \subseteq 1..k
    BY <1>1
  <2> QED
    BY <1>4, <2>3, <2>4
<1>5. \A k \in 0..n : k \in G
  <2> HIDE DEF G, n
  <2> QED
    BY <1>1, <1>3, <1>4, IndexInduction
<1> QED
  BY <1>5

-----------------------------------------------------------------------------
(* The order in which the entries of a call are met. *)

(* LevelOrder of an entry: the entry, its children, and theirs. *)
LEMMA LevelOrderRow ==
  ASSUME NEW e, NEW ss, ss = [k \in DOMAIN Children(e) |-> Children(Children(e)[k])]
  PROVE  LevelOrder(e) = <<e>> \o Children(e) \o FlattenSeq(ss)
BY DEF LevelOrder

(* An entry without children comes alone. *)
LEMMA LeafOrder ==
  ASSUME NEW e \in Entry, Children(e) = <<>>
  PROVE  /\ LevelOrder(e) \in Seq(Entry) /\ Len(LevelOrder(e)) = 1
         /\ LevelOrder(e)[1] = e
<1> DEFINE a == <<e>>
           b == <<>>
           ss == [k \in DOMAIN Children(e) |-> Children(Children(e)[k])]
<1>1. ss \in Seq(Seq(Entry)) /\ Len(ss) = 0
  OBVIOUS
<1>2. LevelOrder(e) = a \o b \o FlattenSeq(ss)
  BY LevelOrderRow
<1>3. FlattenSeq(ss) = b
  <2> HIDE DEF ss
  <2> QED
    BY <1>1, FlattenShort
<1>4. a \in Seq(Entry) /\ b \in Seq(Entry) /\ Len(a) = 1 /\ Len(b) = 0 /\ a[1] = e
  OBVIOUS
<1> HIDE DEF a, b, ss
<1>5. LevelOrder(e) = a \o b \o b
  BY <1>2, <1>3
<1>6. /\ a \o b \o b \in Seq(Entry)
      /\ Len(a \o b \o b) = Len(a) + Len(b) + Len(b)
      /\ \A i \in 1..Len(a) : (a \o b \o b)[i] = a[i]
  BY <1>4, InARow
<1>7. 1 \in 1..Len(a) /\ Len(a) + Len(b) + Len(b) = 1
  BY <1>4
<1> QED
  BY <1>4, <1>5, <1>6, <1>7

(* An entry with one child that has none comes before it. *)
LEMMA TextOrder ==
  ASSUME NEW e \in Entry, NEW u \in Entry, Children(e) = <<u>>, Children(u) = <<>>
  PROVE  /\ LevelOrder(e) \in Seq(Entry) /\ Len(LevelOrder(e)) = 2
         /\ LevelOrder(e)[1] = e /\ LevelOrder(e)[2] = u
<1> DEFINE a == <<e>>
           b == <<u>>
           c == <<>>
           ss == [k \in DOMAIN Children(e) |-> Children(Children(e)[k])]
<1>1. ss \in Seq(Seq(Entry)) /\ Len(ss) = 1 /\ ss[1] = c
  <2>1. DOMAIN Children(e) = 1..1 /\ \A k \in 1..1 : Children(e)[k] = u
    OBVIOUS
  <2>2. ss = [k \in 1..1 |-> c]
    BY <2>1
  <2>3. c \in Seq(Entry)
    OBVIOUS
  <2> HIDE DEF ss, c
  <2> QED
    BY <2>2, <2>3
<1>2. LevelOrder(e) = a \o b \o FlattenSeq(ss)
  BY LevelOrderRow
<1>3. FlattenSeq(ss) = c
  <2> HIDE DEF ss, c
  <2> QED
    BY <1>1, FlattenShort
<1>4. /\ a \in Seq(Entry) /\ b \in Seq(Entry) /\ c \in Seq(Entry)
      /\ Len(a) = 1 /\ Len(b) = 1 /\ Len(c) = 0 /\ a[1] = e /\ b[1] = u
  OBVIOUS
<1> HIDE DEF a, b, c, ss
<1>5. LevelOrder(e) = a \o b \o c
  BY <1>2, <1>3
<1>6. /\ a \o b \o c \in Seq(Entry)
      /\ Len(a \o b \o c) = Len(a) + Len(b) + Len(c)
      /\ \A i \in 1..Len(a) : (a \o b \o c)[i] = a[i]
      /\ \A i \in 1..Len(b) : (a \o b \o c)[Len(a) + i] = b[i]
  <2>1. a \in Seq(Entry) /\ b \in Seq(Entry) /\ c \in Seq(Entry)
    BY <1>4
  <2> QED
    BY <2>1, InARow
<1> QED
  BY <1>4, <1>5, <1>6

(* An entry with two children: they come next, and then theirs. *)
LEMMA MemberOrder ==
  ASSUME NEW e \in Entry, NEW c \in Entry, NEW t \in Entry,
         NEW o \in Entry, NEW n \in Entry, NEW d \in Entry,
         Children(e) = <<c, t>>, Children(c) = <<o>>, Children(t) = <<n, d>>
  PROVE  /\ LevelOrder(e) \in Seq(Entry) /\ Len(LevelOrder(e)) = 6
         /\ LevelOrder(e)[1] = e /\ LevelOrder(e)[2] = c /\ LevelOrder(e)[3] = t
         /\ LevelOrder(e)[4] = o /\ LevelOrder(e)[5] = n /\ LevelOrder(e)[6] = d
<1> DEFINE r == <<e>>
           b == <<c, t>>
           f == <<o>> \o <<n, d>>
           ss == [k \in DOMAIN Children(e) |-> Children(Children(e)[k])]
           x == <<o>>
           y == <<n, d>>
<1>1. ss \in Seq(Seq(Entry)) /\ Len(ss) = 2 /\ ss[1] = x /\ ss[2] = y
  <2>1. DOMAIN Children(e) = 1..2 /\ Children(e)[1] = c /\ Children(e)[2] = t
    OBVIOUS
  <2>2. ss[1] = x /\ ss[2] = y /\ DOMAIN ss = 1..2
    BY <2>1
  <2>3. x \in Seq(Entry) /\ y \in Seq(Entry)
    OBVIOUS
  <2>4. \A k \in 1..2 : k = 1 \/ k = 2
    OBVIOUS
  <2>5. ss = [k \in 1..2 |-> ss[k]]
    BY <2>1
  <2> HIDE DEF ss, x, y
  <2> QED
    BY <2>2, <2>3, <2>4, <2>5
<1>2. LevelOrder(e) = r \o b \o FlattenSeq(ss)
  BY LevelOrderRow
<1>3. FlattenSeq(ss) = f
  <2> HIDE DEF ss, x, y
  <2>1. FlattenSeq(ss) = x \o y
    BY <1>1, FlattenShort
  <2> QED
    BY <2>1 DEF x, y
<1>4. /\ r \in Seq(Entry) /\ b \in Seq(Entry) /\ f \in Seq(Entry)
      /\ Len(r) = 1 /\ Len(b) = 2 /\ Len(f) = 3 /\ r[1] = e /\ b[1] = c /\ b[2] = t
      /\ f[1] = o /\ f[2] = n /\ f[3] = d
  OBVIOUS
<1> HIDE DEF r, b, f, ss
<1>5. LevelOrder(e) = r \o b \o f
  BY <1>2, <1>3
<1>6. /\ r \o b \o f \in Seq(Entry)
      /\ Len(r \o b \o f) = Len(r) + Len(b) + Len(f)
      /\ \A i \in 1..Len(r) : (r \o b \o f)[i] = r[i]
      /\ \A i \in 1..Len(b) : (r \o b \o f)[Len(r) + i] = b[i]
      /\ \A i \in 1..Len(f) : (r \o b \o f)[Len(r) + Len(b) + i] = f[i]
  <2>1. r \in Seq(Entry) /\ b \in Seq(Entry) /\ f \in Seq(Entry)
    BY <1>4
  <2> QED
    BY <2>1, InARow
<1>7. /\ 1 \in 1..Len(r) /\ 1 \in 1..Len(b) /\ 2 \in 1..Len(b)
      /\ 1 \in 1..Len(f) /\ 2 \in 1..Len(f) /\ 3 \in 1..Len(f)
      /\ Len(r) + 1 = 2 /\ Len(r) + 2 = 3 /\ Len(r) + Len(b) + 1 = 4
      /\ Len(r) + Len(b) + 2 = 5 /\ Len(r) + Len(b) + 3 = 6
      /\ Len(r) + Len(b) + Len(f) = 6
  BY <1>4
<1> QED
  BY <1>4, <1>5, <1>6, <1>7

(* What a member reference is made of. *)
ClassPart(e) == ClassOf(e.of[1])

TypePart(e) == NameAndType(e.of[2], e.of[3])

OwnerText(e) == Utf8(e.of[1])

NameText(e) == Utf8(e.of[2])

DescText(e) == Utf8(e.of[3])

TextShape(e, order) ==
  /\ order \in Seq(Entry) /\ Len(order) = 2
  /\ order[1] = e /\ order[2] = OwnerText(e)
  /\ Children(e) = <<OwnerText(e)>> /\ Children(OwnerText(e)) = <<>>

MemberShape(e, order) ==
  /\ order \in Seq(Entry) /\ Len(order) = 6
  /\ order[1] = e /\ order[2] = ClassPart(e) /\ order[3] = TypePart(e)
  /\ order[4] = OwnerText(e) /\ order[5] = NameText(e) /\ order[6] = DescText(e)
  /\ Children(e) = <<ClassPart(e), TypePart(e)>>
  /\ Children(ClassPart(e)) = <<OwnerText(e)>>
  /\ Children(TypePart(e)) = <<NameText(e), DescText(e)>>
  /\ Children(OwnerText(e)) = <<>> /\ Children(NameText(e)) = <<>>
  /\ Children(DescText(e)) = <<>>
  /\ e # ClassPart(e) /\ e # TypePart(e) /\ ClassPart(e) # TypePart(e)

LeafShape(e, order) ==
  /\ order \in Seq(Entry) /\ Len(order) = 1 /\ order[1] = e
  /\ Children(e) = <<>>

(* The children of what a member reference is made of. *)
LEMMA PartChildren ==
  ASSUME NEW a \in Nat, NEW b \in Nat
  PROVE  /\ Utf8(a) \in Entry /\ ClassOf(a) \in Entry /\ NameAndType(a, b) \in Entry
         /\ Utf8(a).kind = "Utf8" /\ ClassOf(a).kind = "Class"
         /\ NameAndType(a, b).kind = "NameAndType"
         /\ Children(Utf8(a)) = <<>> /\ Children(ClassOf(a)) = <<Utf8(a)>>
         /\ Children(NameAndType(a, b)) = <<Utf8(a), Utf8(b)>>
<1>1. Utf8(a) \in Entry /\ ClassOf(a) \in Entry /\ NameAndType(a, b) \in Entry
  <2>1. <<a>> \in Seq(Nat) /\ <<a, b>> \in Seq(Nat)
    OBVIOUS
  <2> QED
    BY <2>1 DEF Utf8, ClassOf, NameAndType, Entry, Kinds, TextKinds
<1>2. /\ Utf8(a).kind = "Utf8" /\ ClassOf(a).kind = "Class"
      /\ NameAndType(a, b).kind = "NameAndType"
      /\ ClassOf(a).of = <<a>> /\ NameAndType(a, b).of = <<a, b>>
  BY DEF Utf8, ClassOf, NameAndType
<1>3. <<a>>[1] = a /\ <<a, b>>[1] = a /\ <<a, b>>[2] = b
  OBVIOUS
<1>4. Children(Utf8(a)) = <<>>
  BY <1>2 DEF Children
<1>5. Children(ClassOf(a)) = <<Utf8(a)>>
  BY <1>2, <1>3 DEF Children
<1>6. Children(NameAndType(a, b)) = <<Utf8(a), Utf8(b)>>
  BY <1>2, <1>3 DEF Children
<1> QED
  BY <1>1, <1>2, <1>4, <1>5, <1>6

(* The order of a call, by the kind of its entry. *)
LEMMA Shapes ==
  ASSUME NEW count \in Nat, NEW e, Formed(e, count), e.kind # "NameAndType"
  PROVE  /\ e \in Entry
         /\ e.kind \in {"Class", "String"} => TextShape(e, LevelOrder(e))
         /\ e.kind \in MemberKinds => MemberShape(e, LevelOrder(e))
         /\ e.kind \notin {"Class", "String"} \cup MemberKinds => LeafShape(e, LevelOrder(e))
<1>1. e \in Entry
  BY DEF Formed
<1>2. CASE e.kind \in {"Class", "String"}
  <2>1. e.of[1] \in Nat
    BY <1>2 DEF Formed, Texted
  <2>2. Children(e) = <<OwnerText(e)>>
    BY <1>2 DEF Children, OwnerText
  <2>3. OwnerText(e) \in Entry /\ Children(OwnerText(e)) = <<>>
    BY <2>1, PartChildren DEF OwnerText
  <2>4. /\ LevelOrder(e) \in Seq(Entry) /\ Len(LevelOrder(e)) = 2
        /\ LevelOrder(e)[1] = e /\ LevelOrder(e)[2] = OwnerText(e)
    BY <1>1, <2>2, <2>3, TextOrder
  <2>5. e.kind \notin MemberKinds
    BY <1>2 DEF MemberKinds
  <2> QED
    BY <1>1, <1>2, <2>2, <2>3, <2>4, <2>5 DEF TextShape
<1>3. CASE e.kind \in MemberKinds
  <2>1. e.of[1] \in Nat /\ e.of[2] \in Nat /\ e.of[3] \in Nat
    BY <1>3 DEF Formed, Texted
  <2>2. Children(e) = <<ClassPart(e), TypePart(e)>>
    BY <1>3 DEF Children, MemberKinds, ClassPart, TypePart
  <2>3. /\ ClassPart(e) \in Entry /\ OwnerText(e) \in Entry
        /\ ClassPart(e).kind = "Class"
        /\ Children(ClassPart(e)) = <<OwnerText(e)>>
        /\ Children(OwnerText(e)) = <<>>
    BY <2>1, PartChildren DEF ClassPart, OwnerText
  <2>4. /\ TypePart(e) \in Entry /\ TypePart(e).kind = "NameAndType"
        /\ Children(TypePart(e)) = <<NameText(e), DescText(e)>>
    BY <2>1, PartChildren DEF TypePart, NameText, DescText
  <2>5. /\ NameText(e) \in Entry /\ DescText(e) \in Entry
        /\ Children(NameText(e)) = <<>> /\ Children(DescText(e)) = <<>>
    BY <2>1, PartChildren DEF NameText, DescText
  <2>6. e.kind \notin {"Class", "String", "NameAndType"}
    BY <1>3 DEF MemberKinds
  <2>7. /\ LevelOrder(e) \in Seq(Entry) /\ Len(LevelOrder(e)) = 6
        /\ LevelOrder(e)[1] = e /\ LevelOrder(e)[2] = ClassPart(e)
        /\ LevelOrder(e)[3] = TypePart(e) /\ LevelOrder(e)[4] = OwnerText(e)
        /\ LevelOrder(e)[5] = NameText(e) /\ LevelOrder(e)[6] = DescText(e)
    BY <1>1, <2>2, <2>3, <2>4, <2>5, MemberOrder
  <2>8. e # ClassPart(e) /\ e # TypePart(e) /\ ClassPart(e) # TypePart(e)
    BY <2>3, <2>4, <2>6
  <2>9. MemberShape(e, LevelOrder(e))
    BY <2>2, <2>3, <2>4, <2>5, <2>7, <2>8 DEF MemberShape
  <2> QED
    BY <1>1, <1>3, <2>6, <2>9
<1>4. CASE e.kind \notin {"Class", "String"} \cup MemberKinds
  <2>1. Children(e) = <<>>
    BY <1>4 DEF Children, MemberKinds
  <2>2. LeafShape(e, LevelOrder(e))
    BY <1>1, <2>1, LeafOrder DEF LeafShape
  <2> QED
    BY <1>1, <1>4, <2>2
<1> QED
  BY <1>2, <1>3, <1>4

(* Nothing is added for an entry that is known. *)
LEMMA MissingSkips ==
  ASSUME NEW order \in Seq(Entry), NEW known, NEW k \in 1..Len(order), order[k] \in known
  PROVE  MissingTo(order, known, k) = MissingTo(order, known, k - 1)
BY MissingSteps DEF AddMissing

(* The first one is added if it is not. *)
LEMMA MissingFirst ==
  ASSUME NEW order \in Seq(Entry), NEW known, Len(order) >= 1, order[1] \notin known
  PROVE  MissingTo(order, known, 1) = <<order[1]>>
<1>1. 1 \in 1..Len(order) /\ 1 - 1 = 0 /\ order[1] \in Entry
  OBVIOUS
<1>2. MissingTo(order, known, 1) = AddMissing(known, <<>>, order[1])
  BY <1>1, MissingSteps
<1>3. ToSet(<<>>) = {}
  BY DEF ToSet
<1>4. Append(<<>>, order[1]) = <<order[1]>>
  BY <1>1
<1> QED
  BY <1>2, <1>3, <1>4 DEF AddMissing

-----------------------------------------------------------------------------
(* What a call has added. *)

(* The entries that were there when the call began, and those it added.    *)
Known == ToSet(SubSeq(entries, 1, call.from))

New == SubSeq(entries, call.from + 1, Len(entries))

(* Known entries have their children among them. *)
Closed(known) == \A f \in known : ToSet(Children(f)) \subseteq known

(* The call on e has added what is missing of the first k in its order.    *)
Reached(e, k) == New = MissingTo(LevelOrder(e), Known, k)

(* An entry waits in the queue alone, unless it was known; or what waits   *)
(* has no children.                                                        *)
Alone(e) == queue = <<e>> \/ (queue = <<>> /\ e \in Known)

Leaves == \A e \in ToSet(queue) : Children(e) = <<>>

TextStage(e) ==
  /\ e.kind \in {"Class", "String"} /\ Reached(e, 1)
  /\ \/ queue = <<e>> /\ pending = <<>>
     \/ queue = <<>> /\ pending = <<OwnerText(e)>>

MemberStage(e) ==
  /\ e.kind \in MemberKinds
  /\ \/ queue = <<e>> /\ pending = <<>> /\ Reached(e, 1)
     \/ queue = <<>> /\ pending = <<ClassPart(e), TypePart(e)>> /\ Reached(e, 1)
     \/ Alone(ClassPart(e)) /\ pending = <<TypePart(e)>> /\ Reached(e, 2)
     \/ /\ \/ queue = <<ClassPart(e), TypePart(e)>>
           \/ queue = <<ClassPart(e)>> /\ TypePart(e) \in Known
        /\ pending = <<>> /\ Reached(e, 3)
     \/ Alone(TypePart(e)) /\ pending = <<OwnerText(e)>> /\ Reached(e, 3)
     \/ /\ queue = <<TypePart(e), OwnerText(e)>> \/ queue = <<TypePart(e)>>
        /\ pending = <<>> /\ Reached(e, 4)
     \/ Leaves /\ pending = <<NameText(e), DescText(e)>> /\ Reached(e, 4)
     \/ Leaves /\ pending = <<DescText(e)>> /\ Reached(e, 5)

Finished(e) == Leaves /\ pending = <<>> /\ Reached(e, Len(LevelOrder(e)))

(* Where the call on e is. *)
Stage(e) ==
  /\ e \in DOMAIN index /\ e.kind # "NameAndType"
  /\ TextStage(e) \/ MemberStage(e) \/ Finished(e)

Ordering ==
  /\ call.root = <<>> => queue = <<>> /\ pending = <<>>
  /\ call.root # <<>> =>
       call.from \in 0..Len(entries) /\ Closed(Known) /\ Stage(call.root[1])

(* The pool is what was known and what was added. *)
LEMMA PoolSplits ==
  ASSUME Numbered, call.from \in 0..Len(entries)
  PROVE  DOMAIN index = Known \cup ToSet(New)
<1> DEFINE n == Len(entries)
           f == call.from
           a == SubSeq(entries, 1, f)
           b == SubSeq(entries, f + 1, n)
<1>1. /\ entries \in Seq(Entry) /\ n \in Nat /\ f \in Nat /\ f <= n
      /\ DOMAIN index = ToSet(entries)
  BY DEF Numbered
<1>2. /\ a \in Seq(Entry) /\ Len(a) = f /\ \A i \in 1..f : a[i] = entries[i]
      /\ b \in Seq(Entry) /\ Len(b) = n - f /\ \A i \in 1..(n - f) : b[i] = entries[f + i]
  <2>1. a \in Seq(Entry) /\ Len(a) = f /\ \A i \in 1..f : a[i] = entries[i]
    BY <1>1
  <2>2. b \in Seq(Entry) /\ Len(b) = n - f
    BY <1>1
  <2>3. \A i \in 1..(n - f) : b[i] = entries[f + i]
    BY <1>1
  <2> QED
    BY <2>1, <2>2, <2>3
<1>3. /\ DOMAIN entries = 1..n /\ DOMAIN a = 1..f /\ DOMAIN b = 1..(n - f)
  BY <1>1, <1>2
<1> HIDE DEF n, f, a, b
<1>4. ToSet(a) \subseteq ToSet(entries)
  <2>1. \A i \in 1..f : i \in 1..n
    BY <1>1
  <2> QED
    BY <1>2, <1>3, <2>1 DEF ToSet
<1>5. ToSet(b) \subseteq ToSet(entries)
  <2>1. \A i \in 1..(n - f) : f + i \in 1..n
    BY <1>1
  <2> QED
    BY <1>2, <1>3, <2>1 DEF ToSet
<1>6. ASSUME NEW i \in 1..n
      PROVE  entries[i] \in ToSet(a) \cup ToSet(b)
  <2>1. CASE i <= f
    <3>1. i \in 1..f
      BY <1>1, <2>1
    <3> QED
      BY <1>2, <1>3, <3>1 DEF ToSet
  <2>2. CASE ~ (i <= f)
    <3>1. i - f \in 1..(n - f) /\ f + (i - f) = i
      BY <1>1, <2>2
    <3>2. b[i - f] = entries[i]
      BY <1>2, <3>1
    <3> QED
      BY <1>3, <3>1, <3>2 DEF ToSet
  <2> QED
    BY <2>1, <2>2
<1>7. ToSet(entries) \subseteq ToSet(a) \cup ToSet(b)
  BY <1>3, <1>6 DEF ToSet
<1> QED
  BY <1>1, <1>4, <1>5, <1>7 DEF Known, New, n, f, a, b

(* An entry put at the end of the pool is added at the end of the new.     *)
LEMMA NewGrows ==
  ASSUME NEW es \in Seq(Entry), NEW e \in Entry, NEW f \in 0..Len(es)
  PROVE  /\ SubSeq(Append(es, e), 1, f) = SubSeq(es, 1, f)
         /\ SubSeq(Append(es, e), f + 1, Len(Append(es, e)))
              = Append(SubSeq(es, f + 1, Len(es)), e)
<1> DEFINE n == Len(es)
           as == Append(es, e)
           new == SubSeq(es, f + 1, n)
<1>1. n \in Nat /\ f \in Nat /\ f <= n
  OBVIOUS
<1>2. /\ as \in Seq(Entry) /\ Len(as) = n + 1 /\ as[n + 1] = e
      /\ \A k \in 1..n : as[k] = es[k]
  BY AppendSet
<1>3. SubSeq(as, 1, f) = [i \in 1..f |-> as[i]] /\ SubSeq(es, 1, f) = [i \in 1..f |-> es[i]]
  <2> HIDE DEF n, as
  <2> QED
    BY <1>1, <1>2
<1>4. SubSeq(as, 1, f) = SubSeq(es, 1, f)
  <2>1. \A i \in 1..f : as[i] = es[i]
    BY <1>1, <1>2
  <2> HIDE DEF as
  <2> QED
    BY <1>3, <2>1
<1>5. /\ new \in Seq(Entry) /\ Len(new) = n - f
      /\ \A i \in 1..(n - f) : new[i] = es[f + i]
  BY <1>1
<1>6. /\ Append(new, e) \in Seq(Entry) /\ Len(Append(new, e)) = n - f + 1
      /\ Append(new, e)[n - f + 1] = e
      /\ \A i \in 1..(n - f) : Append(new, e)[i] = es[f + i]
  <2> HIDE DEF new
  <2> QED
    BY <1>1, <1>5, AppendSet
<1>7. /\ SubSeq(as, f + 1, n + 1) \in Seq(Entry)
      /\ Len(SubSeq(as, f + 1, n + 1)) = n - f + 1
      /\ \A i \in 1..(n - f + 1) : SubSeq(as, f + 1, n + 1)[i] = as[f + i]
  <2> HIDE DEF as, n
  <2> DEFINE l == f + 1
  <2>1. l \in 1..Len(as) /\ Len(as) = n + 1
    BY <1>1, <1>2
  <2>2. /\ SubSeq(as, l, Len(as)) \in Seq(Entry)
        /\ Len(SubSeq(as, l, Len(as))) = Len(as) - l + 1
        /\ \A i \in 1..(Len(as) - l + 1) : SubSeq(as, l, Len(as))[i] = as[l + i - 1]
    <3> HIDE DEF l
    <3> QED
      BY <1>2, <2>1, EndOf
  <2>3. /\ Len(as) - l + 1 = n - f + 1
        /\ \A i \in 1..(n - f + 1) : l + i - 1 = f + i
    BY <1>1, <2>1
  <2>4. SubSeq(as, f + 1, n + 1) = SubSeq(as, l, Len(as))
    BY <2>1
  <2> HIDE DEF l
  <2> QED
    BY <2>2, <2>3, <2>4
<1> HIDE DEF n, as, new
<1>8. \A i \in 1..(n - f + 1) : SubSeq(as, f + 1, n + 1)[i] = Append(new, e)[i]
  <2> TAKE i \in 1..(n - f + 1)
  <2>1. CASE i = n - f + 1
    <3>1. f + i = n + 1
      BY <1>1, <2>1
    <3> QED
      BY <1>2, <1>6, <1>7, <2>1, <3>1
  <2>2. CASE i # n - f + 1
    <3>1. i \in 1..(n - f) /\ f + i \in 1..n
      BY <1>1, <2>2
    <3> QED
      BY <1>2, <1>6, <1>7, <3>1
  <2> QED
    BY <2>1, <2>2
<1>9. SubSeq(as, f + 1, n + 1) = Append(new, e)
  <2> DEFINE x == SubSeq(as, f + 1, n + 1)
             y == Append(new, e)
  <2>1. /\ x \in Seq(Entry) /\ y \in Seq(Entry) /\ Len(x) = Len(y)
        /\ \A i \in 1..Len(x) : x[i] = y[i]
    BY <1>6, <1>7, <1>8
  <2> HIDE DEF x, y
  <2>2. x = y
    BY <2>1
  <2> QED
    BY <2>2 DEF x, y
<1> QED
  BY <1>2, <1>4, <1>9 DEF n, as, new

(* One child: it is skipped when the pool has it, and else added to the    *)
(* pool and the queue; either way one more of the order is accounted for.  *)
LEMMA ChildMet ==
  ASSUME IInv, VisitChild, call.from \in 0..Len(entries),
         NEW e, LevelOrder(e) \in Seq(Entry), NEW k \in 1..Len(LevelOrder(e)),
         Head(pending) = LevelOrder(e)[k], Reached(e, k - 1)
  PROVE  /\ Known' = Known /\ call.from \in 0..Len(entries')
         /\ DOMAIN index \subseteq DOMAIN index'
         /\ Reached(e, k)'
         /\ \/ queue' = queue /\ LevelOrder(e)[k] \in Known \cup ToSet(New)
            \/ queue' = Append(queue, LevelOrder(e)[k])
<1> DEFINE order == LevelOrder(e)
           c == order[k]
           f == call.from
<1>1. /\ Numbered /\ entries \in Seq(Entry) /\ f \in 0..Len(entries)
      /\ call' = call /\ pending # <<>> /\ c \in Entry /\ c = Head(pending)
  BY DEF IInv, Numbered, VisitChild
<1>2. DOMAIN index = Known \cup ToSet(New)
  BY <1>1, PoolSplits
<1>3. MissingTo(order, Known, k) = AddMissing(Known, New, c)
  <2>1. MissingTo(order, Known, k) = AddMissing(Known, MissingTo(order, Known, k - 1), order[k])
    BY MissingSteps
  <2> QED
    BY <2>1 DEF Reached
<1>4. CASE c \in DOMAIN index
  <2>1. UNCHANGED <<entries, index, queue>>
    BY <1>1, <1>4 DEF VisitChild
  <2>2. Known' = Known /\ New' = New
    BY <1>1, <2>1 DEF Known, New
  <2>3. MissingTo(order, Known, k) = New
    BY <1>2, <1>3, <1>4 DEF AddMissing
  <2>4. Reached(e, k)'
    BY <2>2, <2>3 DEF Reached
  <2> QED
    BY <1>1, <1>2, <1>4, <2>1, <2>2, <2>4
<1>5. CASE c \notin DOMAIN index
  <2>1. AllocNew(c) /\ queue' = Append(queue, c)
    BY <1>1, <1>5 DEF VisitChild
  <2>2. entries' = Append(entries, c) /\ DOMAIN index \subseteq DOMAIN index'
    BY <2>1 DEF AllocNew
  <2>3. Known' = Known /\ New' = Append(New, c)
    BY <1>1, <2>2, NewGrows DEF Known, New
  <2>4. MissingTo(order, Known, k) = Append(New, c)
    BY <1>2, <1>3, <1>5 DEF AddMissing
  <2>5. Reached(e, k)'
    BY <2>3, <2>4 DEF Reached
  <2>6. f \in 0..Len(entries')
    <3>1. Len(entries') = Len(entries) + 1 /\ Len(entries) \in Nat
      BY <1>1, <2>2
    <3> QED
      BY <1>1, <3>1
  <2> QED
    BY <2>1, <2>2, <2>3, <2>5, <2>6
<1> QED
  BY <1>4, <1>5

(* Queueing an entry without children leaves entries without children.     *)
LEMMA LeavesAppended ==
  ASSUME NEW q \in Seq(Entry), NEW e \in Entry, Children(e) = <<>>,
         \A f \in ToSet(q) : Children(f) = <<>>
  PROVE  \A f \in ToSet(Append(q, e)) : Children(f) = <<>>
BY AppendSet

(* What a known member reference is made of is known, and so on.           *)
LEMMA KnownParts ==
  ASSUME NEW e, MemberShape(e, LevelOrder(e)), NEW known, Closed(known)
  PROVE  /\ ClassPart(e) \in known => OwnerText(e) \in known
         /\ TypePart(e) \in known => NameText(e) \in known /\ DescText(e) \in known
<1>1. \A a : ToSet(<<a>>) = {a}
  BY DEF ToSet
<1>2. \A a, b : ToSet(<<a, b>>) = {a, b}
  BY DEF ToSet
<1> QED
  BY <1>1, <1>2 DEF MemberShape, Closed

(* From the fourth on nothing is missing when the parts are known, from    *)
(* the fifth on when the name and type is.                                 *)
LEMMA RestKnown ==
  ASSUME NEW e, MemberShape(e, LevelOrder(e)), NEW known, Closed(known)
  PROVE  /\ ClassPart(e) \in known =>
              MissingTo(LevelOrder(e), known, 4) = MissingTo(LevelOrder(e), known, 3)
         /\ TypePart(e) \in known =>
              MissingTo(LevelOrder(e), known, 6) = MissingTo(LevelOrder(e), known, 4)
<1> DEFINE order == LevelOrder(e)
<1>1. order \in Seq(Entry) /\ Len(order) = 6
  BY DEF MemberShape
<1>2. \A k \in 1..6 : order[k] \in known =>
        MissingTo(order, known, k) = MissingTo(order, known, k - 1)
  <2> HIDE DEF order
  <2> QED
    BY <1>1, MissingSkips
<1>3. order[4] = OwnerText(e) /\ order[5] = NameText(e) /\ order[6] = DescText(e)
  BY DEF MemberShape
<1> HIDE DEF order
<1>4. ASSUME ClassPart(e) \in known
      PROVE  MissingTo(order, known, 4) = MissingTo(order, known, 3)
  <2>1. order[4] \in known /\ 4 - 1 = 3 /\ 4 \in 1..6
    BY <1>3, <1>4, KnownParts
  <2> QED
    BY <1>2, <2>1
<1>5. ASSUME TypePart(e) \in known
      PROVE  MissingTo(order, known, 6) = MissingTo(order, known, 4)
  <2>1. order[5] \in known /\ order[6] \in known
    BY <1>3, <1>5, KnownParts
  <2>2. 5 - 1 = 4 /\ 6 - 1 = 5 /\ 5 \in 1..6 /\ 6 \in 1..6
    OBVIOUS
  <2> QED
    BY <1>2, <2>1, <2>2
<1> QED
  BY <1>4, <1>5 DEF order

(* Nothing is missing of an entry that is known.                           *)
LEMMA NothingMissing ==
  ASSUME NEW count \in Nat, NEW e, Formed(e, count), e.kind # "NameAndType",
         NEW known, Closed(known), e \in known
  PROVE  MissingTo(LevelOrder(e), known, Len(LevelOrder(e))) = <<>>
<1> DEFINE order == LevelOrder(e)
<1>1. ASSUME order \in Seq(Entry)
      PROVE  /\ MissingTo(order, known, 0) = <<>>
             /\ \A k \in 1..Len(order) : order[k] \in known =>
                  MissingTo(order, known, k) = MissingTo(order, known, k - 1)
  <2> HIDE DEF order
  <2> QED
    BY <1>1, MissingSteps, MissingSkips
<1>2. ToSet(Children(e)) \subseteq known
  BY DEF Closed
<1>0. 1 - 1 = 0 /\ 2 - 1 = 1 /\ 3 - 1 = 2
  OBVIOUS
<1>3. CASE e.kind \in {"Class", "String"}
  <2>1. TextShape(e, order)
    BY <1>3, Shapes
  <2>2. order \in Seq(Entry) /\ Len(order) = 2 /\ order[1] = e /\ order[2] = OwnerText(e)
    BY <2>1 DEF TextShape
  <2>3. OwnerText(e) \in known
    BY <1>2, <2>1 DEF TextShape, ToSet
  <2>4. 1 \in 1..2 /\ 2 \in 1..2
    OBVIOUS
  <2> HIDE DEF order
  <2> QED
    BY <1>0, <1>1, <2>2, <2>3, <2>4 DEF order
<1>4. CASE e.kind \in MemberKinds
  <2>1. MemberShape(e, order)
    BY <1>4, Shapes
  <2>2. /\ order \in Seq(Entry) /\ Len(order) = 6 /\ order[1] = e
        /\ order[2] = ClassPart(e) /\ order[3] = TypePart(e)
    BY <2>1 DEF MemberShape
  <2>3. ClassPart(e) \in known /\ TypePart(e) \in known
    BY <1>2, <2>1 DEF MemberShape, ToSet
  <2>4. /\ MissingTo(order, known, 4) = MissingTo(order, known, 3)
        /\ MissingTo(order, known, 6) = MissingTo(order, known, 4)
    BY <2>1, <2>3, RestKnown
  <2>5. 1 \in 1..6 /\ 2 \in 1..6 /\ 3 \in 1..6
    OBVIOUS
  <2> HIDE DEF order
  <2> QED
    BY <1>0, <1>1, <2>2, <2>3, <2>4, <2>5 DEF order
<1>5. CASE e.kind \notin {"Class", "String"} \cup MemberKinds
  <2>1. LeafShape(e, order)
    BY <1>5, Shapes
  <2>2. order \in Seq(Entry) /\ Len(order) = 1 /\ order[1] = e /\ 1 \in 1..1
    BY <2>1 DEF LeafShape
  <2> HIDE DEF order
  <2> QED
    BY <1>0, <1>1, <2>2 DEF order
<1> QED
  BY <1>3, <1>4, <1>5

-----------------------------------------------------------------------------
(* The steps of a call. *)

(* What is in the pool between calls is closed under children.             *)
LEMMA IdleClosed ==
  ASSUME IInv, ~ Busy
  PROVE  Closed(DOMAIN index)
<1>1. queue = <<>> /\ pending = <<>>
  BY DEF Busy
<1>2. ToSet(queue) = {} /\ ToSet(pending) = {}
  BY <1>1 DEF ToSet
<1> QED
  BY <1>2 DEF IInv, Closing, Closed

(* A call starts a new order. *)
LEMMA InternOrdered ==
  ASSUME IInv, NEW e, Intern(e), NEW count \in Nat, Formed(e, count), e.kind # "NameAndType",
         \A f \in DOMAIN index : Formed(f, Len(texts))
  PROVE  Ordering'
<1> DEFINE n == Len(entries)
           order == LevelOrder(e)
<1>1. /\ Numbered /\ entries \in Seq(Entry) /\ n \in Nat
      /\ DOMAIN index = ToSet(entries) /\ e \in Entry
      /\ queue = <<>> /\ pending = <<>> /\ pending' = <<>>
      /\ call' = [root |-> <<e>>, from |-> n]
  BY DEF IInv, Numbered, Formed, Intern, Busy
<1>2. call'.root # <<>> /\ call'.root[1] = e /\ call'.from = n
  BY <1>1
<1>3. SubSeq(entries, 1, n) = entries /\ Closed(DOMAIN index)
  <2>1. SubSeq(entries, 1, n) = entries
    BY <1>1
  <2>2. ~ Busy
    BY DEF Intern
  <2> QED
    BY <2>1, <2>2, IdleClosed
<1>4. ToSet(<<>>) = {} /\ \A f : ToSet(<<f>>) = {f}
  BY DEF ToSet
<1>5. CASE e \in DOMAIN index
  <2>1. UNCHANGED <<entries, index, queue>>
    BY <1>5 DEF Intern
  <2>2. Known' = DOMAIN index
    BY <1>1, <1>2, <1>3, <2>1 DEF Known
  <2>3. New' = <<>>
    <3>1. SubSeq(entries, n + 1, n) = <<>>
      BY <1>1
    <3> QED
      BY <1>2, <2>1, <3>1 DEF New
  <2>4. MissingTo(order, DOMAIN index, Len(order)) = <<>>
    <3> HIDE DEF order
    <3> QED
      BY <1>3, <1>5, NothingMissing DEF order
  <2>5. Reached(e, Len(order))'
    BY <2>2, <2>3, <2>4 DEF Reached
  <2>6. Leaves'
    BY <1>1, <1>4, <2>1 DEF Leaves
  <2>7. Finished(e)'
    BY <1>1, <2>5, <2>6 DEF Finished
  <2>8. Stage(e)'
    BY <1>5, <2>1, <2>7 DEF Stage
  <2>9. Closed(Known)' /\ call'.from \in 0..Len(entries')
    BY <1>1, <1>2, <1>3, <2>1, <2>2 DEF Closed
  <2> QED
    BY <1>2, <2>8, <2>9 DEF Ordering
<1>6. CASE e \notin DOMAIN index
  <2>1. AllocNew(e) /\ queue' = <<e>>
    BY <1>6 DEF Intern
  <2>2. entries' = Append(entries, e) /\ e \in DOMAIN index'
    BY <2>1 DEF AllocNew
  <2>3. /\ SubSeq(entries', 1, n) = SubSeq(entries, 1, n)
        /\ SubSeq(entries', n + 1, Len(entries')) = Append(SubSeq(entries, n + 1, n), e)
    <3>1. n \in 0..Len(entries)
      BY <1>1
    <3> QED
      BY <1>1, <2>2, <3>1, NewGrows
  <2>4. Known' = DOMAIN index
    BY <1>1, <1>2, <1>3, <2>3 DEF Known
  <2>5. New' = <<e>>
    <3>1. SubSeq(entries, n + 1, n) = <<>> /\ Append(<<>>, e) = <<e>>
      BY <1>1
    <3> QED
      BY <1>2, <2>3, <3>1 DEF New
  <2>6. ASSUME order \in Seq(Entry), Len(order) >= 1, order[1] = e
        PROVE  Reached(e, 1)'
    <3>1. MissingTo(order, DOMAIN index, 1) = <<e>>
      <4> HIDE DEF order
      <4> QED
        BY <1>6, <2>6, MissingFirst
    <3> QED
      BY <2>4, <2>5, <3>1 DEF Reached
  <2>7. TextStage(e)' \/ MemberStage(e)' \/ Finished(e)'
    <3>1. CASE e.kind \in {"Class", "String"}
      <4>1. Reached(e, 1)'
        BY <2>6, <3>1, Shapes DEF TextShape
      <4> QED
        BY <1>1, <2>1, <3>1, <4>1 DEF TextStage
    <3>2. CASE e.kind \in MemberKinds
      <4>1. Reached(e, 1)'
        BY <2>6, <3>2, Shapes DEF MemberShape
      <4> QED
        BY <1>1, <2>1, <3>2, <4>1 DEF MemberStage
    <3>3. CASE e.kind \notin {"Class", "String"} \cup MemberKinds
      <4>1. LeafShape(e, order)
        BY <3>3, Shapes
      <4>2. Reached(e, 1)' /\ Len(order) = 1 /\ Children(e) = <<>>
        BY <2>6, <4>1 DEF LeafShape
      <4>3. Leaves'
        BY <1>4, <2>1, <4>2 DEF Leaves
      <4> QED
        BY <1>1, <4>2, <4>3 DEF Finished
    <3> QED
      BY <3>1, <3>2, <3>3
  <2>8. Stage(e)'
    BY <2>2, <2>7 DEF Stage
  <2>9. Closed(Known)'
    BY <1>3, <2>4 DEF Closed
  <2>10. call'.from \in 0..Len(entries')
    <3>1. Len(entries') = n + 1
      BY <1>1, <2>2
    <3> QED
      BY <1>1, <1>2, <3>1
  <2> QED
    BY <1>2, <2>8, <2>9, <2>10 DEF Ordering
<1> QED
  BY <1>5, <1>6

(* What the next entry of the queue opens is what the stage says is next.  *)
LEMMA VisitEntryOrdered ==
  ASSUME IInv, Ordering, VisitEntry
  PROVE  Ordering'
<1>1. /\ pending = <<>> /\ queue # <<>> /\ pending' = Children(Head(queue))
      /\ queue' = Tail(queue) /\ UNCHANGED <<entries, index, call>>
      /\ queue \in Seq(Entry) /\ call.root # <<>>
      /\ \A f \in DOMAIN index : Formed(f, Len(texts)) /\ Len(texts) \in Nat
  BY DEF IInv, Closing, VisitEntry, Ordering
<1>2. PICK e : e = call.root[1]
  OBVIOUS
<1>3. /\ Stage(e) /\ Closed(Known) /\ call.from \in 0..Len(entries)
      /\ e \in DOMAIN index /\ e.kind # "NameAndType" /\ Formed(e, Len(texts))
  BY <1>1, <1>2 DEF Ordering, Stage
<1>4. Known' = Known /\ New' = New
  BY <1>1 DEF Known, New
<1>5. \A k : Reached(e, k) => Reached(e, k)'
  BY <1>4 DEF Reached
<1>6. TextStage(e)' \/ MemberStage(e)' \/ Finished(e)'
  <2>1. CASE TextStage(e)
    <3>1. e.kind \in {"Class", "String"} /\ Reached(e, 1)' /\ queue = <<e>>
      BY <1>1, <1>5, <2>1 DEF TextStage
    <3>2. Children(e) = <<OwnerText(e)>>
      BY <1>1, <1>3, <3>1, Shapes DEF TextShape
    <3>3. queue' = <<>> /\ pending' = <<OwnerText(e)>>
      BY <1>1, <3>1, <3>2, ShortRow
    <3> QED
      BY <3>1, <3>3 DEF TextStage
  <2>2. CASE MemberStage(e)
    <3>1. e.kind \in MemberKinds
      BY <2>2 DEF MemberStage
    <3>2. MemberShape(e, LevelOrder(e))
      BY <1>1, <1>3, <3>1, Shapes
    <3>3. CASE queue = <<e>> /\ Reached(e, 1)
      <4>1. queue' = <<>> /\ pending' = <<ClassPart(e), TypePart(e)>>
        BY <1>1, <3>2, <3>3, ShortRow DEF MemberShape
      <4> QED
        BY <1>5, <3>1, <3>3, <4>1 DEF MemberStage
    <3>4. CASE queue = <<ClassPart(e), TypePart(e)>> /\ Reached(e, 3)
      <4>1. queue' = <<TypePart(e)>> /\ pending' = <<OwnerText(e)>>
        BY <1>1, <3>2, <3>4, ShortRow DEF MemberShape
      <4>2. Alone(TypePart(e))'
        BY <4>1 DEF Alone
      <4> QED
        BY <1>5, <3>1, <3>4, <4>1, <4>2 DEF MemberStage
    <3>5. CASE queue = <<ClassPart(e)>> /\ TypePart(e) \in Known /\ Reached(e, 3)
      <4>1. queue' = <<>> /\ pending' = <<OwnerText(e)>>
        BY <1>1, <3>2, <3>5, ShortRow DEF MemberShape
      <4>2. Alone(TypePart(e))'
        BY <1>4, <3>5, <4>1 DEF Alone
      <4> QED
        BY <1>5, <3>1, <3>5, <4>1, <4>2 DEF MemberStage
    <3>6. CASE /\ queue = <<TypePart(e), OwnerText(e)>> \/ queue = <<TypePart(e)>>
               /\ Reached(e, 4)
      <4>1. pending' = <<NameText(e), DescText(e)>>
        BY <1>1, <3>2, <3>6, ShortRow DEF MemberShape
      <4>2. queue' = <<OwnerText(e)>> \/ queue' = <<>>
        <5>1. /\ Tail(<<TypePart(e), OwnerText(e)>>) = <<OwnerText(e)>>
              /\ Tail(<<TypePart(e)>>) = <<>>
          BY ShortRow
        <5> QED
          BY <1>1, <3>6, <5>1
      <4>3. Leaves'
        <5>1. ToSet(<<>>) = {} /\ ToSet(<<OwnerText(e)>>) = {OwnerText(e)}
          BY ShortRow
        <5>2. ToSet(queue') = {} \/ ToSet(queue') = {OwnerText(e)}
          BY <4>2, <5>1, Zenon
        <5> QED
          BY <3>2, <5>2 DEF Leaves, MemberShape
      <4> QED
        BY <1>5, <3>1, <3>6, <4>1, <4>3 DEF MemberStage
    <3> QED
      BY <1>1, <2>2, <3>3, <3>4, <3>5, <3>6, ShortRow DEF MemberStage
  <2>3. CASE Finished(e)
    <3>1. ToSet(queue) = {Head(queue)} \cup ToSet(queue')
      BY <1>1, TailSet
    <3>2. pending' = <<>> /\ Leaves'
      BY <1>1, <2>3, <3>1 DEF Finished, Leaves
    <3> QED
      BY <1>5, <2>3, <3>2 DEF Finished
  <2> QED
    BY <1>3, <2>1, <2>2, <2>3 DEF Stage
<1>7. Stage(e)'
  BY <1>1, <1>3, <1>6 DEF Stage
<1>8. Closed(Known)'
  BY <1>3, <1>4 DEF Closed
<1> QED
  BY <1>1, <1>2, <1>3, <1>7, <1>8 DEF Ordering

(* The texts of a member reference are entries. *)
LEMMA TextParts ==
  ASSUME NEW e, NEW order, MemberShape(e, order)
  PROVE  OwnerText(e) \in Entry /\ NameText(e) \in Entry /\ DescText(e) \in Entry
<1>1. order \in Seq(Entry) /\ Len(order) = 6
  BY DEF MemberShape
<1>2. \A k \in 1..Len(order) : order[k] \in Entry
  BY <1>1, ElementOfSeq
<1> QED
  BY <1>1, <1>2 DEF MemberShape

(* Of the first in the order of a member reference, neither its class nor  *)
(* its name and type is an earlier one.                                    *)
LEMMA PartsAreNew ==
  ASSUME NEW e, MemberShape(e, LevelOrder(e)), NEW known
  PROVE  /\ ClassPart(e) \notin ToSet(MissingTo(LevelOrder(e), known, 1))
         /\ TypePart(e) \notin ToSet(MissingTo(LevelOrder(e), known, 2))
<1> DEFINE order == LevelOrder(e)
<1>1. /\ order \in Seq(Entry) /\ Len(order) = 6 /\ order[1] = e /\ order[2] = ClassPart(e)
      /\ e # ClassPart(e) /\ e # TypePart(e) /\ ClassPart(e) # TypePart(e)
  BY DEF MemberShape
<1>2. 1 \in 0..6 /\ 2 \in 0..6 /\ (\A j \in 1..1 : j = 1) /\ (\A j \in 1..2 : j = 1 \/ j = 2)
  OBVIOUS
<1> HIDE DEF order
<1>3. ASSUME NEW k \in 0..6, NEW p, p \in ToSet(MissingTo(order, known, k))
      PROVE  \E j \in 1..k : order[j] = p
  <2>1. \A i \in 0..Len(order) :
          p \in ToSet(MissingTo(order, known, i)) => \E j \in 1..i : order[j] = p
    <3>1. order \in Seq(Entry)
      BY <1>1
    <3> QED
      BY <3>1, MissingIn, Zenon
  <2> QED
    BY <1>1, <1>3, <2>1
<1>4. ClassPart(e) \notin ToSet(MissingTo(order, known, 1))
  BY <1>1, <1>2, <1>3
<1>5. TypePart(e) \notin ToSet(MissingTo(order, known, 2))
  BY <1>1, <1>2, <1>3
<1> QED
  BY <1>4, <1>5 DEF order

(* A child visited is what the stage says is next; one already in the pool *)
(* before its turn was there before the call, and so were its children.    *)
LEMMA VisitChildOrdered ==
  ASSUME IInv, Ordering, VisitChild
  PROVE  Ordering'
<1>1. /\ pending # <<>> /\ pending' = Tail(pending) /\ call' = call
      /\ queue \in Seq(Entry) /\ call.root # <<>>
      /\ \A f \in DOMAIN index : Formed(f, Len(texts)) /\ Len(texts) \in Nat
  BY DEF IInv, Closing, VisitChild, Ordering
<1>2. PICK e : e = call.root[1]
  OBVIOUS
<1> DEFINE order == LevelOrder(e)
<1>3. /\ Stage(e) /\ Closed(Known) /\ call.from \in 0..Len(entries)
      /\ e \in DOMAIN index /\ e.kind # "NameAndType" /\ Formed(e, Len(texts))
  BY <1>1, <1>2 DEF Ordering, Stage
<1>4. ASSUME order \in Seq(Entry), NEW k \in 1..Len(order), Head(pending) = order[k],
             Reached(e, k - 1)
      PROVE  /\ Known' = Known /\ call.from \in 0..Len(entries')
             /\ DOMAIN index \subseteq DOMAIN index'
             /\ Reached(e, k)'
             /\ \/ queue' = queue /\ order[k] \in Known \cup ToSet(New)
                \/ queue' = Append(queue, order[k])
  BY <1>3, <1>4, ChildMet
<1> DEFINE Same == /\ Known' = Known /\ call.from \in 0..Len(entries')
                   /\ DOMAIN index \subseteq DOMAIN index'
<1>5. Same /\ (TextStage(e)' \/ MemberStage(e)' \/ Finished(e)')
  <2>1. CASE TextStage(e)
    <3>1. /\ e.kind \in {"Class", "String"} /\ Reached(e, 1)
          /\ queue = <<>> /\ pending = <<OwnerText(e)>>
      BY <1>1, <2>1 DEF TextStage
    <3>2. TextShape(e, order)
      BY <1>1, <1>3, <3>1, Shapes
    <3>3. /\ order \in Seq(Entry) /\ Len(order) = 2 /\ 2 \in 1..Len(order) /\ 2 - 1 = 1
          /\ order[2] = OwnerText(e) /\ Children(OwnerText(e)) = <<>>
      BY <3>2 DEF TextShape
    <3>4. Head(pending) = order[2] /\ pending' = <<>>
      BY <1>1, <3>1, <3>3, ShortRow
    <3> HIDE DEF order
    <3>5. /\ Same /\ Reached(e, 2)'
          /\ queue' = queue \/ queue' = Append(queue, OwnerText(e))
      BY <1>4, <3>1, <3>3, <3>4
    <3>6. \A f \in ToSet(queue') : f = OwnerText(e)
      <4>1. /\ ToSet(<<>>) = {} /\ Append(<<>>, OwnerText(e)) = <<OwnerText(e)>>
            /\ ToSet(<<OwnerText(e)>>) = {OwnerText(e)}
        BY ShortRow
      <4>2. queue' = <<>> \/ queue' = <<OwnerText(e)>>
        BY <3>1, <3>5, <4>1
      <4>3. ToSet(queue') = {} \/ ToSet(queue') = {OwnerText(e)}
        BY <4>1, <4>2, Zenon
      <4> QED
        BY <4>3, Zenon
    <3>7. Leaves'
      BY <3>3, <3>6 DEF Leaves
    <3>8. Reached(e, Len(order))'
      BY <3>3, <3>5
    <3> QED
      BY <3>4, <3>5, <3>7, <3>8 DEF Finished, order
  <2>2. CASE MemberStage(e)
    <3>1. e.kind \in MemberKinds
      BY <2>2 DEF MemberStage
    <3>2. MemberShape(e, order)
      BY <1>1, <1>3, <3>1, Shapes
    <3>3. /\ order \in Seq(Entry) /\ Len(order) = 6
          /\ order[2] = ClassPart(e) /\ order[3] = TypePart(e) /\ order[4] = OwnerText(e)
          /\ order[5] = NameText(e) /\ order[6] = DescText(e)
          /\ Children(OwnerText(e)) = <<>> /\ Children(NameText(e)) = <<>>
          /\ Children(DescText(e)) = <<>>
      BY <3>2 DEF MemberShape
    <3>4. /\ 2 \in 1..6 /\ 3 \in 1..6 /\ 4 \in 1..6 /\ 5 \in 1..6 /\ 6 \in 1..6
          /\ 2 - 1 = 1 /\ 3 - 1 = 2 /\ 4 - 1 = 3 /\ 5 - 1 = 4 /\ 6 - 1 = 5
      OBVIOUS
    <3>5. OwnerText(e) \in Entry /\ NameText(e) \in Entry /\ DescText(e) \in Entry
      BY <3>2, TextParts
    <3>6. ASSUME Known' = Known
          PROVE  /\ ClassPart(e) \in Known /\ Reached(e, 3)' => Reached(e, 4)'
                 /\ TypePart(e) \in Known /\ Reached(e, 4)' => Reached(e, 6)'
      <4>1. /\ ClassPart(e) \in Known =>
                 MissingTo(order, Known, 4) = MissingTo(order, Known, 3)
            /\ TypePart(e) \in Known =>
                 MissingTo(order, Known, 6) = MissingTo(order, Known, 4)
        BY <1>3, <3>2, RestKnown
      <4> QED
        BY <3>6, <4>1 DEF Reached
    <3>7. /\ Reached(e, 1) => ClassPart(e) \notin ToSet(New)
          /\ Reached(e, 2) => TypePart(e) \notin ToSet(New)
      BY <3>2, PartsAreNew DEF Reached
    <3> DEFINE Done == Leaves' /\ pending' = <<>> /\ Reached(e, 6)'
    <3>8. Done => Finished(e)'
      BY <3>3 DEF Finished
    <3>9. ASSUME Leaves, NEW x \in Entry, Children(x) = <<>>,
                 queue' = queue \/ queue' = Append(queue, x)
          PROVE  Leaves'
      BY <1>1, <3>9, LeavesAppended DEF Leaves
    <3> HIDE DEF order
    <3>10. CASE queue = <<>> /\ pending = <<ClassPart(e), TypePart(e)>> /\ Reached(e, 1)
      <4>1. Head(pending) = ClassPart(e) /\ pending' = <<TypePart(e)>>
        BY <1>1, <3>10, ShortRow
      <4>2. /\ Same /\ Reached(e, 2)'
            /\ \/ queue' = queue /\ ClassPart(e) \in Known \cup ToSet(New)
               \/ queue' = Append(queue, ClassPart(e))
        BY <1>4, <3>3, <3>4, <3>10, <4>1
      <4>3. Alone(ClassPart(e))'
        BY <3>7, <3>10, <4>2, ShortRow DEF Alone
      <4> QED
        BY <3>1, <4>1, <4>2, <4>3 DEF MemberStage
    <3>11. CASE Alone(ClassPart(e)) /\ pending = <<TypePart(e)>> /\ Reached(e, 2)
      <4>1. Head(pending) = TypePart(e) /\ pending' = <<>>
        BY <1>1, <3>11, ShortRow
      <4>2. /\ Same /\ Reached(e, 3)'
            /\ \/ queue' = queue /\ TypePart(e) \in Known
               \/ queue' = Append(queue, TypePart(e))
        BY <1>4, <3>3, <3>4, <3>7, <3>11, <4>1
      <4>3. CASE queue = <<ClassPart(e)>>
        <5>1. \/ queue' = <<ClassPart(e)>> /\ TypePart(e) \in Known'
              \/ queue' = <<ClassPart(e), TypePart(e)>>
          BY <4>2, <4>3, ShortRow
        <5> QED
          BY <3>1, <4>1, <4>2, <5>1 DEF MemberStage
      <4>4. CASE queue = <<>> /\ ClassPart(e) \in Known
        <5>1. Reached(e, 4)'
          BY <3>6, <4>2, <4>4
        <5>2. CASE queue' = queue /\ TypePart(e) \in Known
          <6>1. Reached(e, 6)'
            BY <3>6, <4>2, <5>1, <5>2
          <6>2. Leaves'
            BY <4>4, <5>2, ShortRow DEF Leaves
          <6> QED
            BY <3>8, <4>1, <4>2, <6>1, <6>2
        <5>3. CASE queue' = Append(queue, TypePart(e))
          <6>1. queue' = <<TypePart(e)>>
            BY <4>4, <5>3, ShortRow
          <6> QED
            BY <3>1, <4>1, <4>2, <5>1, <6>1 DEF MemberStage
        <5> QED
          BY <4>2, <5>2, <5>3
      <4> QED
        BY <3>11, <4>3, <4>4 DEF Alone
    <3>12. CASE Alone(TypePart(e)) /\ pending = <<OwnerText(e)>> /\ Reached(e, 3)
      <4>1. Head(pending) = OwnerText(e) /\ pending' = <<>>
        BY <1>1, <3>12, ShortRow
      <4>2. /\ Same /\ Reached(e, 4)'
            /\ queue' = queue \/ queue' = Append(queue, OwnerText(e))
        BY <1>4, <3>3, <3>4, <3>12, <4>1
      <4>3. CASE queue = <<TypePart(e)>>
        <5>1. queue' = <<TypePart(e)>> \/ queue' = <<TypePart(e), OwnerText(e)>>
          BY <4>2, <4>3, ShortRow
        <5> QED
          BY <3>1, <4>1, <4>2, <5>1 DEF MemberStage
      <4>4. CASE queue = <<>> /\ TypePart(e) \in Known
        <5>1. Reached(e, 6)'
          BY <3>6, <4>2, <4>4
        <5>2. Leaves
          BY <4>4, ShortRow DEF Leaves
        <5>3. Leaves'
          BY <3>3, <3>5, <3>9, <4>2, <5>2
        <5> QED
          BY <3>8, <4>1, <4>2, <5>1, <5>3
      <4> QED
        BY <3>12, <4>3, <4>4 DEF Alone
    <3>13. CASE Leaves /\ pending = <<NameText(e), DescText(e)>> /\ Reached(e, 4)
      <4>1. Head(pending) = NameText(e) /\ pending' = <<DescText(e)>>
        BY <1>1, <3>13, ShortRow
      <4>2. /\ Same /\ Reached(e, 5)'
            /\ queue' = queue \/ queue' = Append(queue, NameText(e))
        BY <1>4, <3>3, <3>4, <3>13, <4>1
      <4>3. Leaves'
        BY <3>3, <3>5, <3>9, <3>13, <4>2
      <4> QED
        BY <3>1, <4>1, <4>2, <4>3 DEF MemberStage
    <3>14. CASE Leaves /\ pending = <<DescText(e)>> /\ Reached(e, 5)
      <4>1. Head(pending) = DescText(e) /\ pending' = <<>>
        BY <1>1, <3>14, ShortRow
      <4>2. /\ Same /\ Reached(e, 6)'
            /\ queue' = queue \/ queue' = Append(queue, DescText(e))
        BY <1>4, <3>3, <3>4, <3>14, <4>1
      <4>3. Leaves'
        BY <3>3, <3>5, <3>9, <3>14, <4>2
      <4> QED
        BY <3>8, <4>1, <4>2, <4>3
    <3> QED
      BY <1>1, <2>2, <3>10, <3>11, <3>12, <3>13, <3>14 DEF MemberStage
  <2>3. CASE Finished(e)
    BY <1>1, <2>3 DEF Finished
  <2> QED
    BY <1>3, <2>1, <2>2, <2>3 DEF Stage
<1>6. Stage(e)'
  BY <1>3, <1>5 DEF Stage
<1>7. Closed(Known)'
  BY <1>3, <1>5 DEF Closed
<1> QED
  BY <1>1, <1>2, <1>5, <1>6, <1>7 DEF Ordering

(* Nothing has been called at first. *)
LEMMA InitOrdered == Init => Ordering
BY DEF Init, Ordering

(* Every step keeps the order. *)
LEMMA OrderedStep ==
  ASSUME IInv, Ordering, [PoolNext]_vars
  PROVE  Ordering'
<1>1. CASE Call
  <2>1. PICK e : Opens(e)
    BY <1>1, CallOpens
  <2>2. Intern(e) /\ Formed(e, Len(texts')) /\ Len(texts') \in Nat /\ e.kind # "NameAndType"
    BY <2>1 DEF Opens
  <2>3. \A f \in DOMAIN index : Formed(f, Len(texts))
    BY DEF IInv, Closing
  <2> QED
    BY <2>2, <2>3, InternOrdered
<1>2. CASE VisitEntry
  BY <1>2, VisitEntryOrdered
<1>3. CASE VisitChild
  BY <1>3, VisitChildOrdered
<1>4. CASE UNCHANGED vars
  <2>1. UNCHANGED <<entries, index, queue, pending, call>>
    BY <1>4 DEF vars
  <2>2. Known' = Known /\ New' = New
    BY <2>1 DEF Known, New
  <2>3. \A e : Stage(e) => Stage(e)'
    BY <2>1, <2>2 DEF Stage, TextStage, MemberStage, Finished, Alone, Leaves, Reached
  <2> QED
    BY <2>1, <2>2, <2>3 DEF Ordering, Closed
<1> QED
  BY <1>1, <1>2, <1>3, <1>4 DEF PoolNext

-----------------------------------------------------------------------------
(* The theorems about the pool. *)

(* What the invariant says of types and indices, of slots, and of what     *)
(* serialize looks up.                                                     *)
LEMMA WellFormed == IInv => TypeOK /\ CountedIndex
BY DEF IInv, Numbered, Closing, TypeOK

(* Entries do not overlap. *)
LEMMA SlotsApart == IInv => SlotsDisjoint
<1> SUFFICES ASSUME IInv, ~ overflowed, NEW e \in DOMAIN index, NEW f \in DOMAIN index,
                    e # f
             PROVE  SlotsOf(e) \cap SlotsOf(f) = {}
  BY DEF SlotsDisjoint
<1>1. Numbered /\ Spread
  BY DEF IInv, Numbered
<1>2. PICK j \in DOMAIN entries : entries[j] = e
  BY <1>1 DEF Numbered, ToSet
<1>3. PICK k \in DOMAIN entries : entries[k] = f
  BY <1>1 DEF Numbered, ToSet
<1>4. /\ index[e] \in Nat /\ index[f] \in Nat
      /\ Width(e) \in {1, 2} /\ Width(f) \in {1, 2}
  BY <1>1, WidthType, SpaceAssumption DEF Numbered
<1>5. j \in Nat /\ k \in Nat /\ j # k
  BY <1>1, <1>2, <1>3 DEF Numbered
<1>6. index[e] + Width(e) <= index[f] \/ index[f] + Width(f) <= index[e]
  <2>1. j < k \/ k < j
    BY <1>5
  <2> QED
    BY <2>1, <1>1, <1>2, <1>3 DEF Spread
<1> QED
  BY <1>4, <1>6 DEF SlotsOf

(* Children and texts are there. *)
LEMMA EntriesClosed == IInv => Serializable
<1> SUFFICES ASSUME IInv, ~ Busy, NEW e \in DOMAIN index
             PROVE  /\ ToSet(Children(e)) \subseteq DOMAIN index
                    /\ e.kind = "Utf8" => e.of[1] \in 0..(Len(texts) - 1)
  BY DEF Serializable
<1>1. Closing /\ ToSet(queue) = {} /\ ToSet(pending) = {}
  BY DEF IInv, Busy, ToSet
<1>2. ToSet(Children(e)) \subseteq DOMAIN index
  BY <1>1 DEF Closing
<1>3. Formed(e, Len(texts))
  BY <1>1 DEF Closing
<1> QED
  BY <1>2, <1>3 DEF Formed, Texted

(* The pool, its counter and the worklist of intern are well formed.       *)
THEOREM TypeCorrect == PoolSpec => []TypeOK
BY WellFormed, Invariant, PTL

(* Until the u16 counter overflows, the index stored for an entry is the   *)
(* one a reader of the class file counts for it.                           *)
THEOREM IndicesAreCounted == PoolSpec => []CountedIndex
BY WellFormed, Invariant, PTL

(* Until then no two entries overlap, phantom slots included.              *)
THEOREM SlotsAreDisjoint == PoolSpec => []SlotsDisjoint
BY SlotsApart, Invariant, PTL

(* Whenever no call is running, every child and every text of every entry  *)
(* is in the pool: serialize finds what it looks up.                       *)
THEOREM PoolIsSerializable == PoolSpec => []Serializable
BY EntriesClosed, Invariant, PTL

(* Between calls, what the last one added is what was missing of the order *)
(* javac writes: the entry, its children, then theirs, none twice.         *)
THEOREM CallsAddInOrder == PoolSpec => []JavacOrder
<1>1. IInv /\ Ordering => JavacOrder
  <2> SUFFICES ASSUME IInv, Ordering, ~ Busy, call.root # <<>>
               PROVE  SubSeq(entries, call.from + 1, Len(entries))
                        = Missing(LevelOrder(call.root[1]),
                                  ToSet(SubSeq(entries, 1, call.from)))
    BY DEF JavacOrder
  <2>1. PICK e : e = call.root[1]
    OBVIOUS
  <2>2. queue = <<>> /\ pending = <<>> /\ Stage(e) /\ Formed(e, Len(texts)) /\ Len(texts) \in Nat
    BY <2>1 DEF Busy, Ordering, Stage, IInv, Closing
  <2>3. Finished(e)
    BY <2>2, ShortRow DEF Stage, TextStage, MemberStage, Alone
  <2>4. LevelOrder(e) \in Seq(Entry)
    BY <2>2, Shapes DEF Stage, TextShape, MemberShape, LeafShape
  <2>5. Missing(LevelOrder(e), Known) = MissingTo(LevelOrder(e), Known, Len(LevelOrder(e)))
    BY <2>4, MissingSteps
  <2> QED
    BY <2>1, <2>3, <2>5 DEF Finished, Reached, Known, New
<1>2. IInv /\ Ordering /\ [PoolNext]_vars => Ordering'
  BY OrderedStep
<1> QED
  BY <1>1, <1>2, InitOrdered, Invariant, PTL DEF PoolSpec

(* An index that was handed out never changes, even after an overflow.     *)
THEOREM IndicesAreKept == PoolSpec => IndexKept
<1>1. IInv /\ [PoolNext]_vars => [Kept]_vars
  BY PoolStep
<1> QED
  BY <1>1, Invariant, PTL DEF PoolSpec, IndexKept, Kept

(* The pool implements the slot table. *)
THEOREM PoolImplementsTable == PoolSpec => ImplementsTable
<1>1. Init => Table!Init
  BY DEF Init, Table!Init
<1>2. IInv /\ [PoolNext]_vars => [Table!Next]_<<index, nextIndex, overflowed>>
  BY PoolStep DEF TableStep
<1>3. Table!slotVars = <<index, nextIndex, overflowed>>
  BY DEF Table!slotVars
<1> QED
  BY <1>1, <1>2, Invariant, PTL DEF PoolSpec, ImplementsTable, Table!Spec, Table!slotVars

-----------------------------------------------------------------------------
(* Reading items in a row. *)

(* One more item behind what was read. *)
Joined(r, item) ==
  IF r.at = 0 THEN Failed
  ELSE IF item[r.at].at = 0 THEN Failed
  ELSE Read(Append(r.tree, item[r.at].tree), item[r.at].at)

IsItems(r, n, item, p) ==
  r = [i \in 0..n |-> IF i = 0 THEN Read(<<>>, p) ELSE Joined(r[i - 1], item)]

(* What was read, and the next item. *)
LEMMA JoinedRead ==
  ASSUME NEW item, NEW tree, NEW at, NEW t, NEW next, at # 0, next # 0,
         item[at] = Read(t, next)
  PROVE  Joined(Read(tree, at), item) = Read(Append(tree, t), next)
<1>1. Read(tree, at).at = at /\ Read(tree, at).tree = tree
  BY DEF Read
<1>2. item[at].at = next /\ item[at].tree = t
  BY DEF Read
<1> QED
  BY <1>1, <1>2 DEF Joined

(* The recursion of Items, by its steps. *)
LEMMA ItemsUnfold ==
  \A n, item, p : Items(n, item, p) = (CHOOSE r : IsItems(r, n, item, p))[n]
BY DEF Items, Then, IsItems, Joined

(* Items that follow each other are read one by one. *)
Follow(n, item, at, ts) ==
  /\ at \in [1..(n + 1) -> Nat \ {0}]
  /\ \A k \in 1..n : item[at[k]] = Read(ts[k], at[k + 1])

(* Items reads all of them. *)
LEMMA ItemsRead ==
  ASSUME NEW n \in Nat, NEW item, NEW at, NEW T, NEW ts \in Seq(T), Len(ts) = n,
         Follow(n, item, at, ts)
  PROVE  Items(n, item, at[1]) = Read(ts, at[n + 1])
<1> DEFINE p == at[1]
           F == CHOOSE r : IsItems(r, n, item, p)
           g == [i \in 0..n |-> Read(SubSeq(ts, 1, i), at[i + 1])]
           G == {i \in 0..n : F[i] = g[i]}
<1>1. \A i \in 0..n : g[i] = Read(SubSeq(ts, 1, i), at[i + 1])
  OBVIOUS
<1>2. \A i \in 0..n : g[i] = IF i = 0 THEN Read(<<>>, p) ELSE Joined(g[i - 1], item)
  <2> TAKE i \in 0..n
  <2>1. CASE i = 0
    <3>1. g[0] = Read(SubSeq(ts, 1, 0), at[0 + 1])
      BY <1>1
    <3>2. SubSeq(ts, 1, 0) = <<>>
      OBVIOUS
    <3>3. g[0] = Read(<<>>, p)
      <4>1. 0 + 1 = 1
        OBVIOUS
      <4> QED
        BY <3>1, <3>2, <4>1, Zenon
    <3> QED
      BY <2>1, <3>3
  <2>2. CASE i # 0
    <3>1. i \in 1..n /\ i - 1 \in 0..n /\ (i - 1) + 1 = i /\ i \in 1..(n + 1)
          /\ i + 1 \in 1..(n + 1)
      BY <2>2
    <3>2. g[i - 1] = Read(SubSeq(ts, 1, i - 1), at[i])
      BY <1>1, <3>1
    <3>3. g[i] = Read(SubSeq(ts, 1, i), at[i + 1])
      BY <1>1
    <3>4. item[at[i]] = Read(ts[i], at[i + 1]) /\ at[i] # 0 /\ at[i + 1] # 0
      BY <3>1 DEF Follow
    <3>5. SubSeq(ts, 1, i) = Append(SubSeq(ts, 1, i - 1), ts[i])
      BY <3>1, PrefixGrows
    <3> HIDE DEF g
    <3>6. Joined(g[i - 1], item) = Read(Append(SubSeq(ts, 1, i - 1), ts[i]), at[i + 1])
      <4> DEFINE s == SubSeq(ts, 1, i - 1)
                 here == at[i]
                 next == at[i + 1]
                 t == ts[i]
      <4>1. here # 0 /\ next # 0 /\ item[here] = Read(t, next)
        BY <3>4
      <4> HIDE DEF s, here, next, t
      <4>2. Joined(Read(s, here), item) = Read(Append(s, t), next)
        BY <4>1, JoinedRead
      <4> QED
        BY <3>2, <4>2 DEF s, here, next, t
    <3>7. g[i] = Joined(g[i - 1], item)
      BY <3>3, <3>5, <3>6
    <3> QED
      BY <2>2, <3>7
  <2> QED
    BY <2>1, <2>2
<1>3. IsItems(g, n, item, p)
  <2>1. g = [i \in 0..n |-> g[i]]
    OBVIOUS
  <2> HIDE DEF g
  <2>2. [i \in 0..n |-> g[i]]
          = [i \in 0..n |-> IF i = 0 THEN Read(<<>>, p) ELSE Joined(g[i - 1], item)]
    BY <1>2
  <2> QED
    BY <2>1, <2>2 DEF IsItems
<1>4. IsItems(F, n, item, p)
  <2> HIDE DEF g, p
  <2> QED
    BY <1>3
<1>5. \A i \in 0..n : F[i] = IF i = 0 THEN Read(<<>>, p) ELSE Joined(F[i - 1], item)
  <2> HIDE DEF F, p
  <2> QED
    BY <1>4 DEF IsItems
<1> HIDE DEF F, g, p
<1>6. \A i \in 0..n : i \in G
  <2>1. 0 \in G
    BY <1>2, <1>5
  <2>2. ASSUME NEW i \in 1..n, i - 1 \in G
        PROVE  i \in G
    BY <1>2, <1>5, <2>2
  <2> HIDE DEF G
  <2> QED
    BY <2>1, <2>2, IndexInduction
<1>7. F[n] = g[n] /\ n \in 0..n
  BY <1>6
<1>8. g[n] = Read(ts, at[n + 1])
  BY <1>1, <1>7, PrefixGrows
<1> QED
  BY <1>7, <1>8, ItemsUnfold DEF F, p

(* Where something is read, there is a position of the file. *)
LEMMA SpansAt ==
  ASSUME NEW b, IsBytes(b), NEW p, NEW q, NEW s, IsBytes(s), Spans(b, p, s, q)
  PROVE  /\ p \in Positions(b) /\ q \in Positions(b) /\ q # 0
         /\ p \in Nat /\ q \in Nat /\ Len(s) \in Nat /\ q = p + Len(s) /\ Has(b, p, Len(s))
<1>1. Len(b) \in Nat /\ Len(s) \in Nat
  BY DEF IsBytes
<1> QED
  BY <1>1 DEF Spans, Holds, Positions, Has

(* Nothing is found anywhere. *)
LEMMA SpansNothing ==
  ASSUME NEW b, IsBytes(b), NEW p \in Positions(b)
  PROVE  Spans(b, p, <<>>, p) /\ IsBytes(<<>>)
<1>1. Len(b) \in Nat
  BY DEF IsBytes
<1> QED
  BY <1>1 DEF Spans, Holds, Positions, IsBytes

(* A reader that makes ts[k] of the bytes ss[k], wherever they are. *)
Gives(item, b, ss, ts) ==
  \A k \in 1..Len(ss) : \A p, q : Spans(b, p, ss[k], q) => item[p] = Read(ts[k], q)

(* A reader that makes the items of their bytes makes them in a row. *)
LEMMA ItemsHeld ==
  ASSUME NEW b, IsBytes(b), NEW p, NEW q, NEW ss, AllBytes(ss),
         Spans(b, p, FlattenSeq(ss), q),
         NEW item, NEW T, NEW ts \in Seq(T), Len(ts) = Len(ss), Gives(item, b, ss, ts)
  PROVE  Items(Len(ss), item, p) = Read(ts, q)
<1> DEFINE n == Len(ss)
<1>1. n \in Nat
  BY SpansEach
<1>2. PICK at \in [1..(n + 1) -> Nat \ {0}] :
        /\ at[1] = p /\ at[n + 1] = q
        /\ \A k \in 1..n : Spans(b, at[k], ss[k], at[k + 1])
  BY SpansEach
<1>3. Len(ts) = n
  OBVIOUS
<1>4. \A k \in 1..n : item[at[k]] = Read(ts[k], at[k + 1])
  BY <1>2 DEF Gives
<1> HIDE DEF n
<1>5. Follow(n, item, at, ts)
  BY <1>2, <1>4 DEF Follow
<1>6. Items(n, item, at[1]) = Read(ts, at[n + 1])
  BY <1>1, <1>3, <1>5, ItemsRead
<1> QED
  BY <1>2, <1>6 DEF n

-----------------------------------------------------------------------------
(* Numbers of one, two and four bytes, and what is made of them. *)

(* The numbers of a file are made of octets. *)
LEMMA OneByte ==
  ASSUME NEW v \in Nat
  PROVE  IsBytes(U1(v)) /\ Len(U1(v)) = 1 /\ U1(v)[1] = v % 256
BY DEF U1, IsBytes, Octets

(* A number takes two bytes... *)
LEMMA TwoBytes ==
  ASSUME NEW v \in Int
  PROVE  /\ IsBytes(U2(v)) /\ Len(U2(v)) = 2
         /\ U2(v)[1] = (v \div 256) % 256 /\ U2(v)[2] = v % 256
<1>1. (v \div 256) % 256 \in Octets /\ v % 256 \in Octets
  BY DEF Octets
<1> QED
  BY <1>1 DEF U2, IsBytes

(* ... or four, those of its halves. *)
LEMMA FourBytes ==
  ASSUME NEW v \in Int
  PROVE  /\ IsBytes(U4(v)) /\ Len(U4(v)) = 4 /\ U4(v) = U2(v \div 65536) \o U2(v)
<1> DEFINE w == v \div 65536
<1>1. w \in Int
  BY SMT
<1> HIDE DEF w
<1>2. IsBytes(U2(w)) /\ Len(U2(w)) = 2 /\ IsBytes(U2(v)) /\ Len(U2(v)) = 2
  BY <1>1, TwoBytes
<1>3. U4(v) = U2(w) \o U2(v)
  BY SMT DEF U4, w
<1>4. IsBytes(U2(w) \o U2(v)) /\ Len(U2(w) \o U2(v)) = Len(U2(w)) + Len(U2(v))
  BY <1>2, BytesBoth
<1>5. Len(U2(w) \o U2(v)) = 4
  BY <1>2, <1>4
<1> QED
  BY <1>3, <1>4, <1>5, SMT DEF w

(* What the primitives read of what they wrote. *)
LEMMA OctetRange == \A v : v \in Octets <=> v \in Int /\ 0 <= v /\ v <= 255
BY SMT DEF Octets

(* A byte is read back. *)
LEMMA ByteHeld ==
  ASSUME NEW b, IsBytes(b), NEW p, NEW q, NEW v \in Octets, Spans(b, p, U1(v), q)
  PROVE  Byte(b, p) = Read(v, q)
<1>0. v \in Nat /\ v % 256 = v
  <2>1. v \in Int /\ 0 <= v /\ v <= 255
    BY OctetRange
  <2> QED
    BY <2>1, SMT
<1>1. IsBytes(U1(v)) /\ Len(U1(v)) = 1 /\ U1(v)[1] = v
  BY <1>0, OneByte
<1>2. Has(b, p, 1) /\ q = p + 1 /\ p \in Nat
  <2>0. IsBytes(U1(v))
    BY <1>1
  <2>1. Has(b, p, Len(U1(v))) /\ q = p + Len(U1(v)) /\ p \in Nat
    BY <2>0, SpansAt
  <2> QED
    BY <1>1, <2>1
<1>3. b[p + 1 - 1] = v
  BY <1>1 DEF Spans, Holds
<1>4. p + 1 - 1 = p
  BY <1>2
<1> QED
  BY <1>2, <1>3, <1>4 DEF Byte

(* The widths of numbers. *)
LEMMA U16Range == \A v : v \in U16 <=> v \in Int /\ 0 <= v /\ v <= 65535
BY SMT DEF U16

(* The range of the longer ones. *)
LEMMA U31Range == \A v : v \in U31 <=> v \in Int /\ 0 <= v /\ v <= 2147483647
BY SMT DEF U31

(* A number of two bytes is made of both. *)
LEMMA TwoBytesValue ==
  ASSUME NEW v \in Int, 0 <= v, v <= 65535
  PROVE  ((v \div 256) % 256) * 256 + (v % 256) = v /\ v \div 256 \in 0..255
<1> DEFINE h == v \div 256
           l == v % 256
<1>1. v = 256 * h + l /\ l \in 0..255 /\ h \in Int
  BY ByteSplit
<1> HIDE DEF h, l
<1>2. h \in 0..255
  BY <1>1, SMT
<1>3. h % 256 = h
  BY <1>2, ByteRest
<1> QED
  BY <1>1, <1>2, <1>3, SMT DEF h, l

(* A number of two bytes. *)
LEMMA ShortSpans ==
  ASSUME NEW b, IsBytes(b), NEW p, NEW q, NEW v \in Int, Spans(b, p, U2(v), q)
  PROVE  /\ p \in Nat /\ q = p + 2 /\ q <= Len(b) + 1 /\ Len(b) \in Nat
         /\ b[p] = (v \div 256) % 256 /\ b[p + 1] = v % 256
<1> DEFINE s == U2(v)
<1>1. IsBytes(s) /\ Len(s) = 2 /\ s[1] = (v \div 256) % 256 /\ s[2] = v % 256
  BY TwoBytes
<1>0. Spans(b, p, s, q)
  OBVIOUS
<1> HIDE DEF s
<1>2. q \in Positions(b) /\ q = p + Len(s) /\ p \in Nat
  <2>1. IsBytes(s)
    BY <1>1
  <2> QED
    BY <1>0, <2>1, SpansAt
<1>3. \A k \in 1..Len(s) : b[p + k - 1] = s[k]
  BY <1>0 DEF Spans, Holds
<1>4. p + 1 - 1 = p /\ p + 2 - 1 = p + 1
  BY <1>2
<1>5. b[p + 1 - 1] = s[1] /\ b[p + 2 - 1] = s[2]
  BY <1>1, <1>3
<1>6. Len(b) \in Nat
  BY DEF IsBytes
<1> QED
  BY <1>1, <1>2, <1>4, <1>5, <1>6 DEF Positions

(* It is read back. *)
LEMMA ShortHeld ==
  ASSUME NEW b, IsBytes(b), NEW p, NEW q, NEW v \in U16, Spans(b, p, U2(v), q)
  PROVE  Short(b, p) = Read(v, q)
<1>1. v \in Int /\ 0 <= v /\ v <= 65535
  BY U16Range
<1>2. /\ p \in Nat /\ q = p + 2 /\ q <= Len(b) + 1 /\ Len(b) \in Nat
      /\ b[p] = (v \div 256) % 256 /\ b[p + 1] = v % 256
  BY <1>1, ShortSpans
<1>3. ((v \div 256) % 256) * 256 + (v % 256) = v
  BY <1>1, TwoBytesValue
<1>4. b[p] * 256 + b[p + 1] = v
  BY <1>2, <1>3
<1>5. Has(b, p, 2)
  BY <1>2 DEF Has
<1> QED
  BY <1>2, <1>4, <1>5 DEF Short

(* So is a number of four bytes. *)
LEMMA WordHeld ==
  ASSUME NEW b, IsBytes(b), NEW p, NEW q, NEW v \in U31, Spans(b, p, U4(v), q)
  PROVE  Word(b, p) = Read(v, q)
<1> DEFINE w == v \div 65536
           lo == v % 65536
<1>0. v \in Int
  BY U31Range, SMT
<1>1. w \in Int /\ lo \in Int /\ 0 <= lo /\ lo <= 65535 /\ v = 65536 * w + lo
  BY <1>0, HalfSplit
<1>2. IsBytes(U2(w)) /\ IsBytes(U2(v)) /\ U4(v) = U2(w) \o U2(v)
  <2>1. w \in Int
    BY <1>1
  <2>2. IsBytes(U2(w)) /\ IsBytes(U2(v))
    <3> HIDE DEF w
    <3> QED
      BY <1>0, <2>1, TwoBytes
  <2>3. U4(v) = U2(w) \o U2(v)
    BY SMT DEF U4, w
  <2> QED
    BY <2>2, <2>3
<1> HIDE DEF w, lo
<1>3. PICK r : Spans(b, p, U2(w), r) /\ Spans(b, r, U2(v), q)
  BY <1>2, SpansBoth
<1>4. /\ p \in Nat /\ r = p + 2 /\ b[p] = (w \div 256) % 256 /\ b[p + 1] = w % 256
  BY <1>1, <1>3, ShortSpans
<1>5. /\ q = r + 2 /\ q <= Len(b) + 1 /\ Len(b) \in Nat
      /\ b[r] = (v \div 256) % 256 /\ b[r + 1] = v % 256
  BY <1>0, <1>3, ShortSpans
<1>6. Has(b, p, 4) /\ q = p + 4 /\ r = p + 2 /\ r + 1 = p + 3
  <2>1. q = p + 4 /\ r + 1 = p + 3 /\ p + 4 - 1 <= Len(b)
    BY <1>4, <1>5, SMT
  <2> QED
    BY <1>4, <2>1, SMT DEF Has
<1>7. w <= 32767 /\ 0 <= w
  BY <1>1, U31Range, SMT
<1>8. ((w \div 256) % 256) * 256 + (w % 256) = w
  BY <1>1, <1>7, TwoBytesValue, SMT
<1>9. ((v \div 256) % 256) * 256 + (v % 256) = lo
  <2> DEFINE h == v \div 256
             l == v % 256
             m == h % 256
             k == h \div 256
  <2>1. v = 256 * h + l /\ l \in 0..255 /\ h \in Int
    BY <1>0, ByteSplit
  <2>2. h = 256 * k + m /\ m \in 0..255 /\ k \in Int
    <3> HIDE DEF h
    <3> QED
      BY <2>1, ByteSplit
  <2> HIDE DEF h, l, m, k
  <2> DEFINE x == 256 * m + l
  <2>3. x \in Nat /\ x <= 65535 /\ x = m * 256 + l
    BY <2>1, <2>2, SMT
  <2>4. v = 65536 * k + x
    BY <2>1, <2>2, SMT
  <2> HIDE DEF x
  <2>5. x = lo
    <3>1. lo \in Nat /\ 65536 * k + x = 65536 * w + lo
      BY <1>1, <2>4, SMT
    <3> QED
      BY <1>1, <2>2, <2>3, <3>1, SameHalves
  <2> QED
    BY <2>3, <2>5 DEF h, l, m
<1> DEFINE b0 == b[p]
           b1 == b[p + 1]
           b2 == b[p + 2]
           b3 == b[p + 3]
<1>10. b0 * 256 + b1 = w /\ b2 * 256 + b3 = lo
  BY <1>4, <1>5, <1>6, <1>8, <1>9
<1>11. b0 \in 0..255 /\ b1 \in 0..255 /\ b2 \in 0..255 /\ b3 \in 0..255
  <2>1. (w \div 256) % 256 \in 0..255 /\ w % 256 \in 0..255
    BY <1>1, ByteSplit
  <2>2. (v \div 256) % 256 \in 0..255 /\ v % 256 \in 0..255
    BY <1>0, ByteSplit
  <2> QED
    BY <1>4, <1>5, <1>6, <2>1, <2>2
<1>12. Word(b, p) = Read((IF b0 > 127 THEN b0 - 256 ELSE b0) * 16777216
                           + b1 * 65536 + b2 * 256 + b3, p + 4)
  BY <1>6, SMT DEF Word
<1> HIDE DEF b0, b1, b2, b3
<1>13. b0 * 16777216 + b1 * 65536 + b2 * 256 + b3 = v
  BY <1>1, <1>10, <1>11, SMT
<1>14. ~ (b0 > 127)
  BY <1>7, <1>10, <1>11, SMT
<1> QED
  BY <1>6, <1>12, <1>13, <1>14, SMT

(* As many bytes as were written. *)
LEMMA BytesHeld ==
  ASSUME NEW b, IsBytes(b), NEW p, NEW q, NEW s, IsBytes(s), Spans(b, p, s, q)
  PROVE  Bytes(b, p, Len(s)) = Read(s, q)
<1> DEFINE n == Len(s)
           t == SubSeq(b, p, p + n - 1)
<1>0. b \in Seq(Octets) /\ s \in Seq(Octets)
  BY DEF IsBytes
<1>1. Has(b, p, n) /\ q = p + n
  BY SpansAt
<1>2. /\ p \in Nat \ {0} /\ n \in Nat /\ p + n <= Len(b) + 1 /\ Len(b) \in Nat
      /\ \A k \in 1..n : b[p + k - 1] = s[k]
  BY <1>0 DEF Spans, Holds
<1>3. t \in Seq(Octets) /\ Len(t) = n /\ \A k \in 1..n : t[k] = b[p + k - 1]
  <2>1. \A j \in p..(p + n - 1) : j \in 1..Len(b)
    BY <1>2
  <2>2. \A j \in p..(p + n - 1) : b[j] \in Octets
    BY <1>0, <2>1
  <2>3. (p + n - 1) - p + 1 = n
    BY <1>2
  <2> QED
    BY <1>2, <2>2, <2>3, SubSeqProperties
<1>4. t = s
  <2> HIDE DEF t
  <2> QED
    BY <1>0, <1>2, <1>3
<1> QED
  BY <1>1, <1>4 DEF Bytes

(* What was read, and where the next starts. *)
LEMMA ReadParts == \A t, q : Read(t, q).at = q /\ Read(t, q).tree = t
BY DEF Read

(* One, two or three items in a row. *)
LEMMA OneItem ==
  ASSUME NEW item, NEW p \in Nat \ {0}, NEW q \in Nat \ {0}, NEW t, item[p] = Read(t, q)
  PROVE  Items(1, item, p) = Read(<<t>>, q)
<1> DEFINE at == <<p, q>>
           ts == <<t>>
<1>1. /\ ts \in Seq({t}) /\ Len(ts) = 1 /\ 1 \in Nat
      /\ at[1] = p /\ at[1 + 1] = q /\ ts[1] = t /\ at \in [1..(1 + 1) -> Nat \ {0}]
  OBVIOUS
<1> HIDE DEF at, ts
<1>2. Follow(1, item, at, ts)
  BY <1>1 DEF Follow
<1>3. Items(1, item, at[1]) = Read(ts, at[1 + 1])
  BY <1>1, <1>2, ItemsRead
<1> QED
  BY <1>1, <1>3 DEF ts

(* Two items. *)
LEMMA TwoItems ==
  ASSUME NEW item, NEW p \in Nat \ {0}, NEW r \in Nat \ {0}, NEW q \in Nat \ {0}, NEW t, NEW u,
         item[p] = Read(t, r), item[r] = Read(u, q)
  PROVE  Items(2, item, p) = Read(<<t, u>>, q)
<1> DEFINE at == <<p, r, q>>
           ts == <<t, u>>
<1>1. /\ ts \in Seq({t, u}) /\ Len(ts) = 2 /\ 2 \in Nat
      /\ at[1] = p /\ at[1 + 1] = r /\ at[2] = r /\ at[2 + 1] = q /\ ts[1] = t /\ ts[2] = u
      /\ at \in [1..(2 + 1) -> Nat \ {0}]
  OBVIOUS
<1> HIDE DEF at, ts
<1>2. \A k \in 1..2 : item[at[k]] = Read(ts[k], at[k + 1])
  <2>1. \A k \in 1..2 : k = 1 \/ k = 2
    OBVIOUS
  <2>2. item[at[1]] = Read(ts[1], at[1 + 1])
    BY <1>1
  <2>3. item[at[2]] = Read(ts[2], at[2 + 1])
    BY <1>1
  <2> QED
    BY <2>1, <2>2, <2>3
<1>3. Follow(2, item, at, ts)
  BY <1>1, <1>2 DEF Follow
<1>4. Items(2, item, at[1]) = Read(ts, at[2 + 1])
  <2> DEFINE n == 2
  <2>1. n \in Nat /\ Len(ts) = n /\ Follow(n, item, at, ts)
    BY <1>1, <1>3
  <2> HIDE DEF n
  <2>2. Items(n, item, at[1]) = Read(ts, at[n + 1])
    BY <1>1, <2>1, ItemsRead
  <2> QED
    BY <2>2 DEF n
<1> QED
  BY <1>1, <1>4 DEF ts

(* Three items. *)
LEMMA ThreeItems ==
  ASSUME NEW item, NEW p \in Nat \ {0}, NEW r \in Nat \ {0}, NEW s \in Nat \ {0},
         NEW q \in Nat \ {0}, NEW t, NEW u, NEW v,
         item[p] = Read(t, r), item[r] = Read(u, s), item[s] = Read(v, q)
  PROVE  Items(3, item, p) = Read(<<t, u, v>>, q)
<1> DEFINE at == <<p, r, s, q>>
           ts == <<t, u, v>>
<1>1. /\ ts \in Seq({t, u, v}) /\ Len(ts) = 3 /\ 3 \in Nat
      /\ at[1] = p /\ at[1 + 1] = r /\ at[2] = r /\ at[2 + 1] = s /\ at[3] = s /\ at[3 + 1] = q
      /\ ts[1] = t /\ ts[2] = u /\ ts[3] = v
      /\ at \in [1..(3 + 1) -> Nat \ {0}]
  OBVIOUS
<1> HIDE DEF at, ts
<1>2. \A k \in 1..3 : item[at[k]] = Read(ts[k], at[k + 1])
  <2>1. \A k \in 1..3 : k = 1 \/ k = 2 \/ k = 3
    OBVIOUS
  <2>2. item[at[1]] = Read(ts[1], at[1 + 1])
    BY <1>1
  <2>3. item[at[2]] = Read(ts[2], at[2 + 1])
    BY <1>1
  <2>4. item[at[3]] = Read(ts[3], at[3 + 1])
    BY <1>1
  <2> QED
    BY <2>1, <2>2, <2>3, <2>4
<1>3. Follow(3, item, at, ts)
  BY <1>1, <1>2 DEF Follow
<1>4. Items(3, item, at[1]) = Read(ts, at[3 + 1])
  <2> DEFINE n == 3
  <2>1. n \in Nat /\ Len(ts) = n /\ Follow(n, item, at, ts)
    BY <1>1, <1>3
  <2> HIDE DEF n
  <2>2. Items(n, item, at[1]) = Read(ts, at[n + 1])
    BY <1>1, <2>1, ItemsRead
  <2> QED
    BY <2>2 DEF n
<1> QED
  BY <1>1, <1>4 DEF ts

(* A span is made of positions. *)
LEMMA SpanEnds ==
  ASSUME NEW b, IsBytes(b), NEW p, NEW q, NEW s, IsBytes(s), Spans(b, p, s, q)
  PROVE  p \in Nat \ {0} /\ q \in Nat \ {0} /\ p \in Positions(b) /\ q \in Positions(b)
<1>1. p \in Positions(b) /\ q \in Positions(b) /\ p \in Nat /\ q \in Nat
  BY SpansAt
<1>2. Len(b) \in Nat
  BY DEF IsBytes
<1> QED
  BY <1>1, <1>2 DEF Positions

(* The bytes of a short. *)
LEMMA ShortBytes == \A v \in U16 : IsBytes(U2(v)) /\ Len(U2(v)) = 2
<1> TAKE v \in U16
<1>1. v \in Int
  BY U16Range
<1> QED
  BY <1>1, TwoBytes

(* A short is read wherever it is. *)
LEMMA ShortReads ==
  ASSUME NEW b, IsBytes(b), NEW p, NEW q, NEW v \in U16, Spans(b, p, U2(v), q)
  PROVE  /\ ShortReader(b)[p] = Read(v, q) /\ Short(b, p) = Read(v, q)
         /\ p \in Nat \ {0} /\ q \in Nat \ {0} /\ q \in Positions(b)
<1>1. Short(b, p) = Read(v, q)
  BY ShortHeld
<1>2. p \in Nat \ {0} /\ q \in Nat \ {0} /\ p \in Positions(b) /\ q \in Positions(b)
  BY ShortBytes, SpanEnds
<1> QED
  BY <1>1, <1>2 DEF ShortReader

(* One, two or three shorts in a row. *)
LEMMA OneShort ==
  ASSUME NEW b, IsBytes(b), NEW p, NEW q, NEW v \in U16, Spans(b, p, U2(v), q)
  PROVE  Shorts(b, p, 1) = Read(<<v>>, q)
BY ShortReads, OneItem DEF Shorts

(* Two of them. *)
LEMMA TwoShorts ==
  ASSUME NEW b, IsBytes(b), NEW p, NEW q, NEW v \in U16, NEW w \in U16,
         Spans(b, p, U2(v) \o U2(w), q)
  PROVE  Shorts(b, p, 2) = Read(<<v, w>>, q)
<1>1. PICK r : Spans(b, p, U2(v), r) /\ Spans(b, r, U2(w), q)
  BY ShortBytes, SpansBoth
<1>2. ShortReader(b)[p] = Read(v, r) /\ p \in Nat \ {0} /\ r \in Nat \ {0}
  BY <1>1, ShortReads
<1>3. ShortReader(b)[r] = Read(w, q) /\ q \in Nat \ {0}
  BY <1>1, ShortReads
<1> QED
  BY <1>2, <1>3, TwoItems DEF Shorts

(* Three of them. *)
LEMMA ThreeShorts ==
  ASSUME NEW b, IsBytes(b), NEW p, NEW q, NEW v \in U16, NEW w \in U16, NEW x \in U16,
         Spans(b, p, U2(v) \o U2(w) \o U2(x), q)
  PROVE  Shorts(b, p, 3) = Read(<<v, w, x>>, q)
<1>1. IsBytes(U2(v)) /\ IsBytes(U2(w)) /\ IsBytes(U2(x)) /\ IsBytes(U2(v) \o U2(w))
  BY ShortBytes, BytesBoth
<1>2. PICK s : Spans(b, p, U2(v) \o U2(w), s) /\ Spans(b, s, U2(x), q)
  BY <1>1, SpansBoth
<1>3. PICK r : Spans(b, p, U2(v), r) /\ Spans(b, r, U2(w), s)
  BY <1>1, <1>2, SpansBoth
<1>4. ShortReader(b)[p] = Read(v, r) /\ p \in Nat \ {0} /\ r \in Nat \ {0}
  BY <1>3, ShortReads
<1>5. ShortReader(b)[r] = Read(w, s) /\ s \in Nat \ {0}
  BY <1>3, ShortReads
<1>6. ShortReader(b)[s] = Read(x, q) /\ q \in Nat \ {0}
  BY <1>2, ShortReads
<1> QED
  BY <1>4, <1>5, <1>6, ThreeItems DEF Shorts

(* Items behind their number. *)
LEMMA CountedHeld ==
  ASSUME NEW b, IsBytes(b), NEW p, NEW q, NEW ss, AllBytes(ss), Len(ss) \in U16,
         Spans(b, p, U2(Len(ss)) \o FlattenSeq(ss), q),
         NEW item, NEW T, NEW ts \in Seq(T), Len(ts) = Len(ss), Gives(item, b, ss, ts)
  PROVE  CountedBy(b, p, item) = Read(ts, q)
<1> DEFINE n == Len(ss)
           flat == FlattenSeq(ss)
<1>1. IsBytes(U2(n)) /\ IsBytes(flat) /\ n \in U16
  BY ShortBytes, FlatBytes
<1>2. PICK r : Spans(b, p, U2(n), r) /\ Spans(b, r, flat, q)
  BY <1>1, SpansBoth
<1>3. Short(b, p) = Read(n, r) /\ r # 0
  BY <1>1, <1>2, ShortReads
<1>4. Items(n, item, r) = Read(ts, q)
  BY <1>2, ItemsHeld
<1> HIDE DEF n
<1> QED
  BY <1>3, <1>4, ReadParts DEF CountedBy, Then

(* The line number table. *)
LineBytes(lines) == [k \in DOMAIN lines |-> U2(lines[k][1]) \o U2(lines[k][2])]

(* It is read back. *)
LEMMA LinesHeld ==
  ASSUME NEW b, IsBytes(b), NEW p, NEW q, NEW lines \in Counted(U16 \X U16),
         Spans(b, p, U2(Len(lines)) \o FlattenSeq(LineBytes(lines)), q)
  PROVE  LineNumbers(b, p) = Read(lines, q)
<1> DEFINE ss == LineBytes(lines)
           n == Len(lines)
<1>1. /\ lines \in Seq(U16 \X U16) /\ n \in Nat /\ DOMAIN lines = 1..n /\ n <= 65535
      /\ \A k \in 1..n : lines[k] \in U16 \X U16
  BY DEF Counted
<1>2. n \in U16
  BY <1>1, U16Range
<1>3. \A k \in 1..n : lines[k][1] \in U16 /\ lines[k][2] \in U16
                      /\ lines[k] = <<lines[k][1], lines[k][2]>>
  BY <1>1
<1>4. \A k \in 1..n : ss[k] = U2(lines[k][1]) \o U2(lines[k][2])
  BY <1>1 DEF LineBytes
<1>5. ASSUME NEW k \in 1..n
      PROVE  IsBytes(ss[k])
  <2> DEFINE s == U2(lines[k][1])
             t == U2(lines[k][2])
  <2>1. IsBytes(s) /\ IsBytes(t)
    BY <1>3, ShortBytes
  <2>2. IsBytes(s \o t)
    BY <2>1, BytesBoth
  <2> QED
    BY <1>4, <2>2
<1>6. AllBytes(ss) /\ Len(ss) = n
  <2>1. ss = [k \in 1..n |-> ss[k]]
    BY <1>1 DEF LineBytes
  <2> HIDE DEF ss
  <2> QED
    BY <1>1, <1>5, <2>1 DEF AllBytes, IsBytes
<1>7. Gives(LineReader(b), b, ss, lines)
  <2> SUFFICES ASSUME NEW k \in 1..n, NEW r, NEW s, Spans(b, r, ss[k], s)
               PROVE  LineReader(b)[r] = Read(lines[k], s)
    BY <1>6 DEF Gives
  <2>1. Spans(b, r, U2(lines[k][1]) \o U2(lines[k][2]), s)
    BY <1>4
  <2>2. Shorts(b, r, 2) = Read(<<lines[k][1], lines[k][2]>>, s)
    BY <1>3, <2>1, TwoShorts
  <2>3. r \in Positions(b)
    BY <1>5, SpanEnds
  <2>4. LineReader(b)[r] = Shorts(b, r, 2)
    BY <2>3 DEF LineReader
  <2>5. lines[k] = <<lines[k][1], lines[k][2]>>
    BY <1>3
  <2> QED
    BY <2>2, <2>4, <2>5
<1>8. Spans(b, p, U2(Len(ss)) \o FlattenSeq(ss), q)
  BY <1>6
<1> HIDE DEF ss, n
<1>9. CountedBy(b, p, LineReader(b)) = Read(lines, q)
  BY <1>1, <1>2, <1>6, <1>7, <1>8, CountedHeld DEF n
<1> QED
  BY <1>9 DEF LineNumbers

-----------------------------------------------------------------------------
(* Verification types. *)

(* Every index the lookups find fits two bytes. *)
IndicesFit == \A kind, s : NamedIndex(kind, s) \in U16

TypeEntry(vt) ==
  [tag |-> TypeTag(vt), index |-> IF IsObject(vt) THEN ClassIndex(vt) ELSE 0]

TypeEntries(types) == [k \in DOMAIN types |-> TypeEntry(types[k])]

TypeBytes(types) == [k \in DOMAIN types |-> WriteType(types[k])]

(* A tag tells the primitive types apart. *)
LEMMA TypeTags ==
  /\ \A vt : IsObject(vt) => TypeTag(vt) = 7
  /\ \A vt : ~ IsObject(vt) => TypeTag(vt) \in 0..4
  /\ \A vt, ut : ~ IsObject(vt) /\ ~ IsObject(ut) /\ TypeTag(vt) = TypeTag(ut) => vt = ut
BY DEF TypeTag, IsObject, PrimitiveTypes

(* The bytes of a type: its tag, and the index of a class. *)
LEMMA TypeWritten ==
  ASSUME IndicesFit, NEW vt
  PROVE  /\ IsBytes(WriteType(vt)) /\ Len(WriteType(vt)) \in 1..3
         /\ IsObject(vt) => WriteType(vt) = U1(7) \o U2(ClassIndex(vt)) /\ ClassIndex(vt) \in U16
         /\ ~ IsObject(vt) => WriteType(vt) = U1(TypeTag(vt))
<1>1. ClassIndex(vt) \in U16
  BY DEF IndicesFit, ClassIndex
<1>2. \A v \in 0..7 : IsBytes(U1(v)) /\ Len(U1(v)) = 1
  BY OneByte
<1>3. CASE IsObject(vt)
  <2>1. WriteType(vt) = U1(7) \o U2(ClassIndex(vt))
    BY <1>3, TypeTags DEF WriteType
  <2>2. IsBytes(U1(7)) /\ IsBytes(U2(ClassIndex(vt))) /\ Len(U1(7)) = 1
        /\ Len(U2(ClassIndex(vt))) = 2
    BY <1>1, <1>2, ShortBytes
  <2> DEFINE s == U1(7)
             t == U2(ClassIndex(vt))
  <2>3. IsBytes(s \o t) /\ Len(s \o t) = Len(s) + Len(t)
    BY <2>2, BytesBoth
  <2>4. Len(s \o t) = 3
    BY <2>2, <2>3
  <2> QED
    BY <1>1, <1>3, <2>1, <2>3, <2>4
<1>4. CASE ~ IsObject(vt)
  <2> DEFINE s == U1(TypeTag(vt))
  <2>1. TypeTag(vt) \in 0..7
    BY <1>4, TypeTags
  <2>2. IsBytes(s) /\ s \in Seq(Octets) /\ Len(s) = 1
    BY <1>2, <2>1 DEF IsBytes
  <2>3. WriteType(vt) = s \o <<>>
    BY <1>4 DEF WriteType
  <2> HIDE DEF s
  <2>4. s \o <<>> = s
    BY <2>2
  <2> QED
    BY <1>4, <2>2, <2>3, <2>4 DEF s
<1> QED
  BY <1>3, <1>4

(* A type is read back. *)
LEMMA TypeHeld ==
  ASSUME IndicesFit, NEW b, IsBytes(b), NEW p, NEW q, NEW vt, Spans(b, p, WriteType(vt), q)
  PROVE  TypeReader(b)[p] = Read(TypeEntry(vt), q)
<1>1. p \in Positions(b) /\ q \in Positions(b)
  BY TypeWritten, SpanEnds
<1>2. CASE IsObject(vt)
  <2> DEFINE i == ClassIndex(vt)
  <2>1. i \in U16 /\ Spans(b, p, U1(7) \o U2(i), q)
    BY <1>2, TypeWritten
  <2> HIDE DEF i
  <2>2. IsBytes(U1(7)) /\ IsBytes(U2(i)) /\ 7 \in Octets
    BY <2>1, ShortBytes, OneByte, OctetRange
  <2>3. PICK r : Spans(b, p, U1(7), r) /\ Spans(b, r, U2(i), q)
    BY <2>1, <2>2, SpansBoth
  <2>4. Byte(b, p) = Read(7, r)
    BY <2>2, <2>3, ByteHeld
  <2>5. Short(b, r) = Read(i, q) /\ r # 0 /\ q # 0
    BY <2>1, <2>3, ShortReads
  <2>6. VerificationTypeAt(b, p) = Read([tag |-> 7, index |-> i], q)
    BY <2>4, <2>5, ReadParts DEF VerificationTypeAt, Then
  <2>7. TypeEntry(vt) = [tag |-> 7, index |-> i]
    BY <1>2, TypeTags DEF TypeEntry, i
  <2> QED
    BY <1>1, <2>6, <2>7 DEF TypeReader
<1>3. CASE ~ IsObject(vt)
  <2> DEFINE tag == TypeTag(vt)
  <2>0. tag \in 0..4
    BY <1>3, TypeTags
  <2>1. tag \in Octets /\ tag \notin {7, 8} /\ Spans(b, p, U1(tag), q)
    BY <1>3, <2>0, TypeWritten, OctetRange
  <2>2. TypeEntry(vt) = [tag |-> tag, index |-> 0]
    BY <1>3 DEF TypeEntry
  <2> HIDE DEF tag
  <2>3. Byte(b, p) = Read(tag, q)
    BY <2>1, ByteHeld
  <2>4. IsBytes(U1(tag))
    BY <2>0, OneByte
  <2>5. q # 0
    BY <2>1, <2>4, SpanEnds
  <2>6. VerificationTypeAt(b, p) = Read([tag |-> tag, index |-> 0], q)
    BY <2>1, <2>3, <2>5, ReadParts DEF VerificationTypeAt, Then
  <2> QED
    BY <1>1, <2>2, <2>6 DEF TypeReader
<1> QED
  BY <1>2, <1>3

(* Types in a row. *)
Types(s) == s \in Seq(VerificationTypes)

(* They are written and read back one by one. *)
LEMMA TypesWritten ==
  ASSUME IndicesFit, NEW b, NEW types, Types(types)
  PROVE  /\ AllBytes(TypeBytes(types)) /\ Len(TypeBytes(types)) = Len(types)
         /\ TypeEntries(types) \in Seq({TypeEntry(vt) : vt \in VerificationTypes})
         /\ Len(TypeEntries(types)) = Len(types)
         /\ WriteTypes(types) = FlattenSeq(TypeBytes(types)) /\ IsBytes(WriteTypes(types))
         /\ IsBytes(b) => Gives(TypeReader(b), b, TypeBytes(types), TypeEntries(types))
<1> DEFINE ss == TypeBytes(types)
           n == Len(types)
<1>1. n \in Nat /\ DOMAIN types = 1..n /\ \A k \in 1..n : types[k] \in VerificationTypes
  BY DEF Types
<1>2. /\ ss = [k \in 1..n |-> WriteType(types[k])]
      /\ TypeEntries(types) = [k \in 1..n |-> TypeEntry(types[k])]
  BY <1>1 DEF TypeBytes, TypeEntries
<1>3. \A k \in 1..n : ss[k] = WriteType(types[k]) /\ TypeEntries(types)[k] = TypeEntry(types[k])
  BY <1>2
<1>4. \A k \in 1..n : IsBytes(WriteType(types[k]))
  BY TypeWritten
<1>5. AllBytes(ss) /\ Len(ss) = n
  BY <1>1, <1>2, <1>4 DEF AllBytes, IsBytes
<1>6. /\ TypeEntries(types) \in Seq({TypeEntry(vt) : vt \in VerificationTypes})
      /\ Len(TypeEntries(types)) = n
  <2> DEFINE S == {TypeEntry(vt) : vt \in VerificationTypes}
             ts == TypeEntries(types)
  <2>1. \A k \in 1..n : ts[k] \in S
    BY <1>1, <1>3
  <2>2. ts = [k \in 1..n |-> ts[k]]
    BY <1>2
  <2> HIDE DEF S, ts
  <2>3. ts \in Seq(S) /\ Len(ts) = n
    BY <1>1, <2>1, <2>2
  <2> QED
    BY <2>3 DEF S, ts
<1>7. WriteTypes(types) = FlattenSeq(ss)
  BY DEF WriteTypes, TypeBytes
<1>8. IsBytes(FlattenSeq(ss))
  BY <1>5, FlatBytes
<1>9. ASSUME IsBytes(b)
      PROVE  Gives(TypeReader(b), b, ss, TypeEntries(types))
  <2> SUFFICES ASSUME NEW k \in 1..n, NEW r, NEW s, Spans(b, r, ss[k], s)
               PROVE  TypeReader(b)[r] = Read(TypeEntries(types)[k], s)
    BY <1>5 DEF Gives
  <2>1. Spans(b, r, WriteType(types[k]), s)
    BY <1>3
  <2>2. TypeReader(b)[r] = Read(TypeEntry(types[k]), s)
    BY <1>9, <2>1, TypeHeld
  <2> QED
    BY <1>3, <2>2
<1> QED
  BY <1>5, <1>6, <1>7, <1>8, <1>9

(* No types take no bytes. *)
LEMMA NoTypes == IndicesFit => WriteTypes(<<>>) = <<>> /\ TypeEntries(<<>>) = <<>> /\ Types(<<>>)
<1> SUFFICES ASSUME IndicesFit
             PROVE  WriteTypes(<<>>) = <<>> /\ TypeEntries(<<>>) = <<>> /\ Types(<<>>)
  OBVIOUS
<1> DEFINE ss == TypeBytes(<<>>)
<1>1. Types(<<>>) /\ Len(<<>>) = 0
  BY DEF Types
<1>2. AllBytes(ss) /\ Len(ss) = 0 /\ WriteTypes(<<>>) = FlattenSeq(ss)
  BY <1>1, TypesWritten
<1> HIDE DEF ss
<1>3. FlattenSeq(ss) \in Seq(Octets) /\ \E starts : Piled(starts, FlattenSeq(ss), ss)
  BY <1>2, FlattenPiled DEF AllBytes
<1>4. PICK starts : Piled(starts, FlattenSeq(ss), ss)
  BY <1>3
<1>5. Len(FlattenSeq(ss)) = 0
  BY <1>2, <1>4 DEF Piled
<1>6. FlattenSeq(ss) = <<>>
  BY <1>3, <1>5
<1>7. TypeEntries(<<>>) = <<>>
  BY DEF TypeEntries
<1> QED
  BY <1>1, <1>2, <1>6, <1>7

(* A type takes at most three bytes. *)
LEMMA TypesLength ==
  ASSUME IndicesFit, NEW types, Types(types)
  PROVE  Len(WriteTypes(types)) \in Nat /\ Len(WriteTypes(types)) <= 3 * Len(types)
<1> DEFINE ss == TypeBytes(types)
           n == Len(types)
<1>0. n \in Nat
  BY DEF Types
<1>1. AllBytes(ss) /\ Len(ss) = n /\ WriteTypes(types) = FlattenSeq(ss) /\ n \in Nat
  BY <1>0, TypesWritten
<1>2. \A k \in 1..n : Len(ss[k]) \in 1..3
  <2> TAKE k \in 1..n
  <2>1. ss[k] = WriteType(types[k])
    BY DEF TypeBytes, Types
  <2> QED
    BY <2>1, TypeWritten
<1> HIDE DEF ss
<1>3. PICK starts : Piled(starts, FlattenSeq(ss), ss)
  BY <1>1, FlattenPiled DEF AllBytes
<1> HIDE DEF n
<1> DEFINE G == {k \in 0..n : starts[k + 1] \in Nat /\ starts[k + 1] <= 3 * k}
<1>4. 0 \in G
  BY <1>1, <1>3 DEF Piled
<1>5. ASSUME NEW k \in 1..n, k - 1 \in G
      PROVE  k \in G
  <2>1. k \in 0..n /\ (k - 1) + 1 = k
    BY <1>1
  <2>2. starts[k] \in Nat /\ starts[k] <= 3 * (k - 1)
    BY <1>5, <2>1
  <2>3. starts[k + 1] = starts[k] + Len(ss[k]) /\ Len(ss[k]) \in 1..3
    BY <1>1, <1>2, <1>3 DEF Piled
  <2> DEFINE x == starts[k]
             y == starts[k + 1]
             l == Len(ss[k])
  <2>4. x \in Nat /\ x <= 3 * (k - 1) /\ y = x + l /\ l \in 1..3 /\ k \in Nat
    BY <1>1, <2>2, <2>3
  <2> HIDE DEF x, y, l
  <2>5. y \in Nat /\ y <= 3 * k
    BY <2>4
  <2> QED
    BY <2>1, <2>5 DEF y
<1> HIDE DEF G
<1>6. n \in G
  <2>1. n \in 0..n
    BY <1>1
  <2> QED
    BY <1>1, <1>4, <1>5, <2>1, IndexInduction
<1>7. Len(FlattenSeq(ss)) = starts[n + 1]
  BY <1>1, <1>3 DEF Piled
<1> QED
  BY <1>1, <1>6, <1>7 DEF G, n

-----------------------------------------------------------------------------
(* The frames of a stack map, and their forms. *)

WellTagged(P) ==
  \/ P.tag \in 0..63 /\ P.locals = <<>> /\ P.stack = <<>>
  \/ P.tag \in 64..127 /\ P.locals = <<>> /\ Len(P.stack) = 1
  \/ P.tag = 247 /\ P.locals = <<>> /\ Len(P.stack) = 1
  \/ P.tag \in 248..251 /\ P.locals = <<>> /\ P.stack = <<>>
  \/ P.tag \in 252..254 /\ Len(P.locals) = P.tag - 251 /\ P.stack = <<>>
  \/ P.tag = 255

IsPhysical(P) ==
  /\ P.tag \in Octets /\ P.delta \in U16
  /\ Types(P.locals) /\ Len(P.locals) \in U16
  /\ Types(P.stack) /\ Len(P.stack) \in U16

FrameEntry(P) ==
  [tag |-> P.tag, delta |-> IF P.tag > 127 THEN P.delta ELSE 0,
   locals |-> TypeEntries(P.locals), stack |-> TypeEntries(P.stack)]

(* What the bytes of a frame are, and how many. *)
LEMMA FramePieces ==
  ASSUME IndicesFit, NEW P, IsPhysical(P)
  PROVE  /\ IsBytes(U1(P.tag)) /\ IsBytes(U2(P.delta))
         /\ IsBytes(WriteTypes(P.locals)) /\ IsBytes(WriteTypes(P.stack))
         /\ IsBytes(U2(Len(P.locals))) /\ IsBytes(U2(Len(P.stack)))
         /\ P.tag \in Octets
         /\ Len(U1(P.tag)) = 1 /\ Len(U2(P.delta)) = 2
         /\ Len(U2(Len(P.locals))) = 2 /\ Len(U2(Len(P.stack))) = 2
<1>1. /\ P.tag \in Octets /\ P.delta \in U16
      /\ Types(P.locals) /\ Len(P.locals) \in U16
      /\ Types(P.stack) /\ Len(P.stack) \in U16
  BY DEF IsPhysical
<1>0. P.tag \in Octets
  BY <1>1
<1>2. P.tag \in Nat
  BY <1>0, OctetRange
<1>3. IsBytes(U1(P.tag)) /\ Len(U1(P.tag)) = 1
  BY <1>2, OneByte
<1>4. /\ IsBytes(U2(P.delta)) /\ IsBytes(U2(Len(P.locals))) /\ IsBytes(U2(Len(P.stack)))
      /\ Len(U2(P.delta)) = 2 /\ Len(U2(Len(P.locals))) = 2 /\ Len(U2(Len(P.stack))) = 2
  BY <1>1, ShortBytes
<1>5. IsBytes(WriteTypes(P.locals)) /\ IsBytes(WriteTypes(P.stack))
  BY <1>1, TypesWritten
<1> QED
  BY <1>1, <1>3, <1>4, <1>5

(* All of them together. *)
LEMMA FrameLength ==
  ASSUME IndicesFit, NEW P, IsPhysical(P)
  PROVE  /\ IsBytes(FrameBytes(P))
         /\ Len(WriteTypes(P.locals)) \in Nat /\ Len(WriteTypes(P.stack)) \in Nat
         /\ Len(FrameBytes(P)) = 1 + (IF P.tag > 127 THEN 2 ELSE 0) + (IF P.tag = 255 THEN 4 ELSE 0)
                                   + Len(WriteTypes(P.locals)) + Len(WriteTypes(P.stack))
<1> DEFINE a == U1(P.tag)
           d == IF P.tag > 127 THEN U2(P.delta) ELSE <<>>
           m == IF P.tag = 255 THEN U2(Len(P.locals)) ELSE <<>>
           n == IF P.tag = 255 THEN U2(Len(P.stack)) ELSE <<>>
           ls == WriteTypes(P.locals)
           st == WriteTypes(P.stack)
<1>1. FrameBytes(P) = a \o d \o (m \o ls) \o (n \o st)
  BY DEF FrameBytes
<1>2. IsBytes(<<>>) /\ Len(<<>>) = 0
  BY DEF IsBytes
<1>3. IsBytes(a) /\ Len(a) = 1
  BY FramePieces
<1>4. IsBytes(d) /\ Len(d) = IF P.tag > 127 THEN 2 ELSE 0
  <2>1. IsBytes(U2(P.delta)) /\ Len(U2(P.delta)) = 2
    BY FramePieces
  <2>2. CASE P.tag > 127
    <3>1. d = U2(P.delta)
      BY <2>2
    <3> QED
      BY <2>1, <2>2, <3>1
  <2>3. CASE ~ (P.tag > 127)
    <3>1. d = <<>>
      BY <2>3
    <3> QED
      BY <1>2, <2>3, <3>1
  <2> QED
    BY <2>2, <2>3
<1>5. IsBytes(m) /\ Len(m) = IF P.tag = 255 THEN 2 ELSE 0
  <2>1. IsBytes(U2(Len(P.locals))) /\ Len(U2(Len(P.locals))) = 2
    BY FramePieces
  <2>2. CASE P.tag = 255
    <3>1. m = U2(Len(P.locals))
      BY <2>2
    <3> QED
      BY <2>1, <2>2, <3>1
  <2>3. CASE ~ (P.tag = 255)
    <3>1. m = <<>>
      BY <2>3
    <3> QED
      BY <1>2, <2>3, <3>1
  <2> QED
    BY <2>2, <2>3
<1>6. IsBytes(n) /\ Len(n) = IF P.tag = 255 THEN 2 ELSE 0
  <2>1. IsBytes(U2(Len(P.stack))) /\ Len(U2(Len(P.stack))) = 2
    BY FramePieces
  <2>2. CASE P.tag = 255
    <3>1. n = U2(Len(P.stack))
      BY <2>2
    <3> QED
      BY <2>1, <2>2, <3>1
  <2>3. CASE ~ (P.tag = 255)
    <3>1. n = <<>>
      BY <2>3
    <3> QED
      BY <1>2, <2>3, <3>1
  <2> QED
    BY <2>2, <2>3
<1>7. IsBytes(ls) /\ IsBytes(st)
  BY FramePieces
<1>8. Len(ls) \in Nat /\ Len(st) \in Nat
  BY TypesLength DEF IsPhysical
<1> HIDE DEF a, d, m, n, ls, st
<1>9. IsBytes(m \o ls) /\ Len(m \o ls) = Len(m) + Len(ls)
  BY <1>5, <1>7, BytesBoth
<1>10. IsBytes(n \o st) /\ Len(n \o st) = Len(n) + Len(st)
  BY <1>6, <1>7, BytesBoth
<1>11. IsBytes(a \o d) /\ Len(a \o d) = Len(a) + Len(d)
  BY <1>3, <1>4, BytesBoth
<1>12. IsBytes(a \o d \o (m \o ls)) /\ Len(a \o d \o (m \o ls)) = Len(a \o d) + Len(m \o ls)
  BY <1>9, <1>11, BytesBoth
<1>13. /\ IsBytes(a \o d \o (m \o ls) \o (n \o st))
       /\ Len(a \o d \o (m \o ls) \o (n \o st)) = Len(a \o d \o (m \o ls)) + Len(n \o st)
  BY <1>10, <1>12, BytesBoth
<1>14. Len(FrameBytes(P)) = Len(a) + Len(d) + (Len(m) + Len(ls)) + (Len(n) + Len(st))
  BY <1>1, <1>9, <1>10, <1>11, <1>12, <1>13
<1>15. Len(FrameBytes(P)) = 1 + (IF P.tag > 127 THEN 2 ELSE 0) + (IF P.tag = 255 THEN 4 ELSE 0)
                              + Len(ls) + Len(st)
  <2> DEFINE x == Len(ls)
             y == Len(st)
             i == IF P.tag > 127 THEN 2 ELSE 0
             j == IF P.tag = 255 THEN 2 ELSE 0
             jj == IF P.tag = 255 THEN 4 ELSE 0
  <2>1. x \in Nat /\ y \in Nat /\ i \in Nat /\ j \in Nat /\ jj \in Nat /\ j + j = jj
    BY <1>8
  <2>2. Len(FrameBytes(P)) = 1 + i + (j + x) + (j + y)
    BY <1>3, <1>4, <1>5, <1>6, <1>14
  <2> HIDE DEF x, y, i, j, jj
  <2>3. 1 + i + (j + x) + (j + y) = 1 + i + jj + x + y
    BY <2>1
  <2>4. Len(FrameBytes(P)) = 1 + i + jj + x + y
    BY <2>2, <2>3
  <2> QED
    BY <2>4 DEF x, y, i, j, jj
<1> QED
  BY <1>1, <1>8, <1>13, <1>15 DEF ls, st

(* The bytes of each form. *)
LEMMA FrameForms ==
  ASSUME IndicesFit, NEW P, IsPhysical(P)
  PROVE  /\ P.tag \in 0..63 /\ P.locals = <<>> /\ P.stack = <<>> => FrameBytes(P) = U1(P.tag)
         /\ P.tag \in 64..127 /\ P.locals = <<>> =>
              FrameBytes(P) = U1(P.tag) \o WriteTypes(P.stack)
         /\ P.tag \in 128..254 /\ P.locals = <<>> =>
              FrameBytes(P) = U1(P.tag) \o U2(P.delta) \o WriteTypes(P.stack)
         /\ P.tag \in 128..254 /\ P.stack = <<>> =>
              FrameBytes(P) = U1(P.tag) \o U2(P.delta) \o WriteTypes(P.locals)
         /\ P.tag = 255 =>
              FrameBytes(P) = U1(P.tag) \o U2(P.delta)
                                \o (U2(Len(P.locals)) \o WriteTypes(P.locals))
                                \o (U2(Len(P.stack)) \o WriteTypes(P.stack))
<1> DEFINE a == U1(P.tag)
           d == U2(P.delta)
           ls == WriteTypes(P.locals)
           st == WriteTypes(P.stack)
<1>1. IsBytes(a) /\ IsBytes(d) /\ IsBytes(ls) /\ IsBytes(st) /\ P.tag \in Octets
  BY FramePieces
<1>2. P.tag = 255 => FrameBytes(P) = a \o d \o (U2(Len(P.locals)) \o ls) \o (U2(Len(P.stack)) \o st)
  BY DEF FrameBytes
<1>3. ASSUME P.tag \in 128..254
      PROVE  FrameBytes(P) = a \o d \o (<<>> \o ls) \o (<<>> \o st)
  <2>1. P.tag # 255 /\ P.tag > 127
    BY <1>3
  <2> QED
    BY <2>1, Zenon DEF FrameBytes
<1>4. ASSUME P.tag <= 127
      PROVE  FrameBytes(P) = a \o <<>> \o (<<>> \o ls) \o (<<>> \o st)
  <2>1. P.tag # 255 /\ ~ (P.tag > 127)
    BY <1>1, <1>4, OctetRange
  <2> QED
    BY <2>1, Zenon DEF FrameBytes
<1>5. (P.locals = <<>> => ls = <<>>) /\ (P.stack = <<>> => st = <<>>)
  BY NoTypes
<1> HIDE DEF a, d, ls, st
<1>6. /\ a \o <<>> = a /\ <<>> \o ls = ls /\ <<>> \o st = st
  BY <1>1, WithNothing
<1>7. IsBytes(a \o d) /\ IsBytes(a \o ls)
  BY <1>1, BytesBoth
<1>8. (a \o d) \o <<>> = a \o d
  BY <1>7, WithNothing
<1>9. IsBytes((a \o d) \o ls)
  BY <1>1, <1>7, BytesBoth
<1>10. ((a \o d) \o ls) \o <<>> = (a \o d) \o ls
  BY <1>9, WithNothing
<1>11. ASSUME P.tag \in 0..63, P.locals = <<>>, P.stack = <<>>
       PROVE  FrameBytes(P) = a
  <2>1. FrameBytes(P) = a \o <<>> \o (<<>> \o ls) \o (<<>> \o st)
    <3> DEFINE tag == P.tag
    <3>1. tag \in 0..63
      BY <1>11
    <3> HIDE DEF tag
    <3>2. tag <= 127
      BY <3>1
    <3> QED
      BY <1>4, <3>2 DEF tag
  <2> QED
    BY <1>5, <1>6, <1>11, <2>1
<1>12. ASSUME P.tag \in 64..127, P.locals = <<>>
       PROVE  FrameBytes(P) = a \o st
  <2>1. FrameBytes(P) = a \o <<>> \o (<<>> \o ls) \o (<<>> \o st)
    <3> DEFINE tag == P.tag
    <3>1. tag \in 64..127
      BY <1>12
    <3> HIDE DEF tag
    <3>2. tag <= 127
      BY <3>1
    <3> QED
      BY <1>4, <3>2 DEF tag
  <2> QED
    BY <1>5, <1>6, <1>12, <2>1
<1>13. P.tag \in 128..254 /\ P.locals = <<>> => FrameBytes(P) = a \o d \o st
  BY <1>3, <1>5, <1>6, <1>8
<1>14. P.tag \in 128..254 /\ P.stack = <<>> => FrameBytes(P) = a \o d \o ls
  BY <1>3, <1>5, <1>6, <1>10
<1> QED
  BY <1>2, <1>11, <1>12, <1>13, <1>14 DEF a, d, ls, st

(* A tag, and what follows it. *)
LEMMA TagHeld ==
  ASSUME NEW b, IsBytes(b), NEW p, NEW q, NEW tag \in Octets, Spans(b, p, U1(tag), q)
  PROVE  Byte(b, p) = Read(tag, q) /\ q # 0 /\ q \in Nat \ {0} /\ p \in Positions(b)
<1>1. tag \in Nat
  BY OctetRange
<1>2. IsBytes(U1(tag))
  BY <1>1, OneByte
<1>3. p \in Positions(b) /\ q \in Nat \ {0}
  BY <1>2, SpanEnds
<1> QED
  BY <1>3, ByteHeld

(* As many types as a form has, or as are counted. *)
LEMMA SomeTypes ==
  ASSUME IndicesFit, NEW b, IsBytes(b), NEW p, NEW q, NEW types, Types(types),
         Spans(b, p, WriteTypes(types), q)
  PROVE  Items(Len(types), TypeReader(b), p) = Read(TypeEntries(types), q)
<1> DEFINE ss == TypeBytes(types)
           ts == TypeEntries(types)
           T == {TypeEntry(vt) : vt \in VerificationTypes}
<1>1. /\ AllBytes(ss) /\ Len(ss) = Len(types) /\ ts \in Seq(T) /\ Len(ts) = Len(types)
      /\ WriteTypes(types) = FlattenSeq(ss) /\ Gives(TypeReader(b), b, ss, ts)
  BY TypesWritten
<1> HIDE DEF ss, ts, T
<1>2. Items(Len(ss), TypeReader(b), p) = Read(ts, q)
  BY <1>1, ItemsHeld
<1> QED
  BY <1>1, <1>2 DEF ts

(* Types behind their number. *)
LEMMA CountedTypes ==
  ASSUME IndicesFit, NEW b, IsBytes(b), NEW p, NEW q, NEW types, Types(types),
         Len(types) \in U16, Spans(b, p, U2(Len(types)) \o WriteTypes(types), q)
  PROVE  CountedBy(b, p, TypeReader(b)) = Read(TypeEntries(types), q)
<1> DEFINE ss == TypeBytes(types)
           ts == TypeEntries(types)
           T == {TypeEntry(vt) : vt \in VerificationTypes}
<1>1. /\ AllBytes(ss) /\ Len(ss) = Len(types) /\ ts \in Seq(T) /\ Len(ts) = Len(types)
      /\ WriteTypes(types) = FlattenSeq(ss) /\ Gives(TypeReader(b), b, ss, ts)
  BY TypesWritten
<1> HIDE DEF ss, ts, T
<1>2. Len(ss) \in U16 /\ Len(ts) = Len(ss) /\ Spans(b, p, U2(Len(ss)) \o FlattenSeq(ss), q)
  BY <1>1
<1>3. CountedBy(b, p, TypeReader(b)) = Read(ts, q)
  BY <1>1, <1>2, CountedHeld
<1> QED
  BY <1>3 DEF ts

(* What the reader of frames makes of a tag it knows. *)
LEMMA TagsApart ==
  /\ \A tag \in SameTags : tag \notin SameLocalsTags /\ tag \notin ReservedTags
  /\ \A tag \in SameLocalsTags : tag \notin SameTags /\ tag \notin ReservedTags
  /\ \A tag \in 247..255 : tag \notin SameTags /\ tag \notin SameLocalsTags
       /\ tag \notin ReservedTags
  /\ SameLocalsExtendedTag \notin NoTypesTags /\ SameLocalsExtendedTag \notin AppendTags
  /\ \A tag \in NoTypesTags : tag # SameLocalsExtendedTag /\ tag \notin AppendTags
  /\ \A tag \in AppendTags : tag # SameLocalsExtendedTag /\ tag \notin NoTypesTags
  /\ 255 # SameLocalsExtendedTag /\ 255 \notin NoTypesTags /\ 255 \notin AppendTags
BY SMT DEF SameTags, SameLocalsTags, ReservedTags, SameLocalsExtendedTag, NoTypesTags, AppendTags

(* The tags of a same frame. *)
LEMMA SameForm ==
  ASSUME NEW b, NEW q, NEW tag \in SameTags
  PROVE  TaggedFrame(b, tag, q) = FrameRead(tag, 0, <<>>, <<>>, q)
<1>1. tag \notin SameLocalsTags /\ tag \notin ReservedTags
  BY TagsApart
<1> QED
  BY <1>1, Zenon DEF TaggedFrame

(* Those with one stack type. *)
LEMMA SameLocalsForm ==
  ASSUME NEW b, NEW q, NEW tag \in SameLocalsTags, NEW s, NEW st, s # 0,
         Items(1, TypeReader(b), q) = Read(st, s)
  PROVE  TaggedFrame(b, tag, q) = FrameRead(tag, 0, <<>>, st, s)
<1>1. tag \notin SameTags /\ tag \notin ReservedTags
  BY TagsApart
<1>2. Then(Items(1, TypeReader(b), q), LAMBDA u, r : FrameRead(tag, 0, <<>>, u, r))
        = FrameRead(tag, 0, <<>>, st, s)
  BY ReadParts DEF Then
<1>3. TaggedFrame(b, tag, q)
        = Then(Items(1, TypeReader(b), q), LAMBDA u, r : FrameRead(tag, 0, <<>>, u, r))
  BY <1>1, Zenon DEF TaggedFrame
<1> QED
  BY <1>2, <1>3

(* Those with a delta of their own. *)
LEMMA LongForms ==
  ASSUME NEW b, NEW q, NEW r, NEW tag \in 247..255, NEW delta, r # 0,
         Short(b, q) = Read(delta, r)
  PROVE  TaggedFrame(b, tag, q) = ExtendedFrame(b, tag, delta, r)
<1>1. tag \notin SameTags /\ tag \notin SameLocalsTags /\ tag \notin ReservedTags
  BY TagsApart, SMT
<1>2. TaggedFrame(b, tag, q) = Then(Short(b, q), LAMBDA d, s : ExtendedFrame(b, tag, d, s))
  BY <1>1, Zenon DEF TaggedFrame
<1>3. Then(Short(b, q), LAMBDA d, s : ExtendedFrame(b, tag, d, s)) = ExtendedFrame(b, tag, delta, r)
  BY ReadParts DEF Then
<1> QED
  BY <1>2, <1>3

(* Of these, the ones without types, *)
LEMMA BareForm ==
  ASSUME NEW b, NEW r, NEW tag \in NoTypesTags, NEW delta
  PROVE  ExtendedFrame(b, tag, delta, r) = FrameRead(tag, delta, <<>>, <<>>, r)
<1>1. tag # SameLocalsExtendedTag /\ tag \notin AppendTags
  BY TagsApart
<1> QED
  BY <1>1, Zenon DEF ExtendedFrame

(* the one with a stack type, *)
LEMMA StackForm ==
  ASSUME NEW b, NEW r, NEW tag, NEW delta, NEW s, NEW st,
         tag = SameLocalsExtendedTag, s # 0, Items(1, TypeReader(b), r) = Read(st, s)
  PROVE  ExtendedFrame(b, tag, delta, r) = FrameRead(tag, delta, <<>>, st, s)
<1>1. tag \notin NoTypesTags /\ tag \notin AppendTags
  BY TagsApart
<1>2. Then(Items(1, TypeReader(b), r), LAMBDA u, q : FrameRead(tag, delta, <<>>, u, q))
        = FrameRead(tag, delta, <<>>, st, s)
  BY ReadParts DEF Then
<1>3. ExtendedFrame(b, tag, delta, r)
        = Then(Items(1, TypeReader(b), r), LAMBDA u, q : FrameRead(tag, delta, <<>>, u, q))
  BY <1>1, Zenon DEF ExtendedFrame
<1> QED
  BY <1>2, <1>3

(* those with additional locals, *)
LEMMA AppendForm ==
  ASSUME NEW b, NEW r, NEW tag \in AppendTags, NEW delta, NEW s, NEW ls, s # 0,
         Items(tag - 251, TypeReader(b), r) = Read(ls, s)
  PROVE  ExtendedFrame(b, tag, delta, r) = FrameRead(tag, delta, ls, <<>>, s)
<1>1. tag # SameLocalsExtendedTag /\ tag \notin NoTypesTags
  BY TagsApart
<1>2. Then(Items(tag - 251, TypeReader(b), r), LAMBDA u, q : FrameRead(tag, delta, u, <<>>, q))
        = FrameRead(tag, delta, ls, <<>>, s)
  BY ReadParts DEF Then
<1>3. ExtendedFrame(b, tag, delta, r)
        = Then(Items(tag - 251, TypeReader(b), r),
               LAMBDA u, q : FrameRead(tag, delta, u, <<>>, q))
  BY <1>1, Zenon DEF ExtendedFrame
<1> QED
  BY <1>2, <1>3

(* and the full frame. *)
LEMMA FullForm ==
  ASSUME NEW b, NEW r, NEW tag, NEW delta, NEW s, NEW t, NEW ls, NEW st,
         tag = 255, s # 0, t # 0, CountedBy(b, r, TypeReader(b)) = Read(ls, s),
         CountedBy(b, s, TypeReader(b)) = Read(st, t)
  PROVE  ExtendedFrame(b, tag, delta, r) = FrameRead(tag, delta, ls, st, t)
<1>1. tag # SameLocalsExtendedTag /\ tag \notin NoTypesTags /\ tag \notin AppendTags
  BY TagsApart
<1>2. Then(CountedBy(b, r, TypeReader(b)), LAMBDA u, q :
           Then(CountedBy(b, q, TypeReader(b)), LAMBDA v, z : FrameRead(tag, delta, u, v, z)))
        = FrameRead(tag, delta, ls, st, t)
  BY ReadParts DEF Then
<1>3. ExtendedFrame(b, tag, delta, r)
        = Then(CountedBy(b, r, TypeReader(b)), LAMBDA u, q :
           Then(CountedBy(b, q, TypeReader(b)), LAMBDA v, z : FrameRead(tag, delta, u, v, z)))
  BY <1>1, Zenon DEF ExtendedFrame
<1> QED
  BY <1>2, <1>3

(* The reader takes a frame apart as it was put together. *)
LEMMA FrameHeld ==
  ASSUME IndicesFit, NEW b, IsBytes(b), NEW p, NEW q, NEW P, IsPhysical(P), WellTagged(P),
         Spans(b, p, FrameBytes(P), q)
  PROVE  FrameReader(b)[p] = Read(FrameEntry(P), q)
<1> DEFINE tag == P.tag
           delta == P.delta
           locals == P.locals
           stack == P.stack
           d == IF tag > 127 THEN delta ELSE 0
           ls == WriteTypes(locals)
           st == WriteTypes(stack)
           lt == TypeEntries(locals)
           tt == TypeEntries(stack)
<1>1. /\ IsBytes(U1(tag)) /\ IsBytes(U2(delta)) /\ IsBytes(ls) /\ IsBytes(st)
      /\ IsBytes(U2(Len(locals))) /\ IsBytes(U2(Len(stack)))
  BY FramePieces
<1>2. /\ tag \in Octets /\ delta \in U16 /\ Types(locals) /\ Types(stack)
      /\ Len(locals) \in U16 /\ Len(stack) \in U16
  BY DEF IsPhysical
<1>3. /\ tag \in 0..63 /\ locals = <<>> /\ stack = <<>> => FrameBytes(P) = U1(tag)
      /\ tag \in 64..127 /\ locals = <<>> => FrameBytes(P) = U1(tag) \o st
      /\ tag \in 128..254 /\ locals = <<>> => FrameBytes(P) = U1(tag) \o U2(delta) \o st
      /\ tag \in 128..254 /\ stack = <<>> => FrameBytes(P) = U1(tag) \o U2(delta) \o ls
      /\ tag = 255 => FrameBytes(P) = U1(tag) \o U2(delta) \o (U2(Len(locals)) \o ls)
                                        \o (U2(Len(stack)) \o st)
  BY FrameForms
<1>4. (locals = <<>> => lt = <<>>) /\ (stack = <<>> => tt = <<>> /\ st = <<>>)
  BY NoTypes
<1>5. FrameEntry(P) = [tag |-> tag, delta |-> d, locals |-> lt, stack |-> tt]
  BY DEF FrameEntry
<1>6. \/ tag \in 0..63 /\ locals = <<>> /\ stack = <<>>
      \/ tag \in 64..127 /\ locals = <<>> /\ Len(stack) = 1
      \/ tag = 247 /\ locals = <<>> /\ Len(stack) = 1
      \/ tag \in 248..251 /\ locals = <<>> /\ stack = <<>>
      \/ tag \in 252..254 /\ Len(locals) = tag - 251 /\ stack = <<>>
      \/ tag = 255
  BY DEF WellTagged
<1>7. IsBytes(FrameBytes(P))
  BY FrameLength
<1>8. p \in Positions(b) /\ q # 0
  BY <1>7, SpanEnds
<1>9. (tag > 127 => d = delta) /\ (~ (tag > 127) => d = 0)
  OBVIOUS
<1> HIDE DEF tag, delta, locals, stack, d, ls, st, lt, tt
<1>10. /\ IsBytes(U1(tag) \o U2(delta)) /\ IsBytes(U2(Len(locals)) \o ls)
       /\ IsBytes(U2(Len(stack)) \o st)
  BY <1>1, BytesBoth
<1>11. SUFFICES FrameAt(b, p) = FrameRead(tag, d, lt, tt, q)
  BY <1>5, <1>8 DEF FrameReader, FrameRead
<1>12. ASSUME NEW r, Spans(b, p, U1(tag), r)
       PROVE  FrameAt(b, p) = TaggedFrame(b, tag, r) /\ r # 0
  <2>1. Byte(b, p) = Read(tag, r) /\ r # 0
    BY <1>2, <1>12, TagHeld
  <2> QED
    BY <2>1, ReadParts DEF FrameAt, Then
<1>13. ASSUME NEW s, Spans(b, p, U1(tag) \o U2(delta), s), tag \in 247..255
       PROVE  FrameAt(b, p) = ExtendedFrame(b, tag, delta, s) /\ d = delta /\ s # 0
  <2>1. PICK r : Spans(b, p, U1(tag), r) /\ Spans(b, r, U2(delta), s)
    BY <1>1, <1>13, SpansBoth
  <2>2. FrameAt(b, p) = TaggedFrame(b, tag, r)
    BY <1>12, <2>1
  <2>3. Short(b, r) = Read(delta, s) /\ s # 0
    BY <1>2, <2>1, ShortReads
  <2>4. tag > 127
    BY <1>13
  <2> QED
    BY <1>9, <1>13, <2>2, <2>3, <2>4, LongForms
<1>14. CASE tag \in 0..63 /\ locals = <<>> /\ stack = <<>>
  <2>1. Spans(b, p, U1(tag), q)
    BY <1>3, <1>14
  <2>2. FrameAt(b, p) = FrameRead(tag, 0, <<>>, <<>>, q)
    <3>1. tag \in SameTags
      BY <1>14 DEF SameTags
    <3> QED
      BY <1>12, <2>1, <3>1, SameForm
  <2>3. ~ (tag > 127)
    BY <1>14
  <2> QED
    BY <1>4, <1>9, <1>14, <2>2, <2>3
<1>15. CASE tag \in 64..127 /\ locals = <<>> /\ Len(stack) = 1
  <2>1. Spans(b, p, U1(tag) \o st, q)
    BY <1>3, <1>15
  <2>2. PICK r : Spans(b, p, U1(tag), r) /\ Spans(b, r, st, q)
    BY <1>1, <2>1, SpansBoth
  <2>3. Items(1, TypeReader(b), r) = Read(tt, q)
    <3>1. Items(Len(stack), TypeReader(b), r) = Read(tt, q)
      BY <1>2, <2>2, SomeTypes DEF st, tt
    <3>2. Len(stack) = 1
      BY <1>15
    <3> QED
      BY <3>1, <3>2
  <2>4. FrameAt(b, p) = FrameRead(tag, 0, <<>>, tt, q)
    <3>1. FrameAt(b, p) = TaggedFrame(b, tag, r)
      BY <1>12, <2>2
    <3>2. tag \in SameLocalsTags /\ q # 0
      BY <1>8, <1>15 DEF SameLocalsTags
    <3>3. TaggedFrame(b, tag, r) = FrameRead(tag, 0, <<>>, tt, q)
      BY <2>3, <3>2, SameLocalsForm
    <3> QED
      BY <3>1, <3>3
  <2>5. ~ (tag > 127)
    BY <1>15
  <2> QED
    BY <1>4, <1>9, <1>15, <2>4, <2>5
<1>16. CASE tag = 247 /\ locals = <<>> /\ Len(stack) = 1
  <2>0. tag \in 128..254 /\ tag \in 247..255
    BY <1>16
  <2>1. Spans(b, p, U1(tag) \o U2(delta) \o st, q)
    BY <1>3, <1>16, <2>0
  <2>2. PICK r : Spans(b, p, U1(tag) \o U2(delta), r) /\ Spans(b, r, st, q)
    BY <1>1, <1>10, <2>1, SpansBoth
  <2>3. Items(1, TypeReader(b), r) = Read(tt, q)
    <3>1. Items(Len(stack), TypeReader(b), r) = Read(tt, q)
      BY <1>2, <2>2, SomeTypes DEF st, tt
    <3>2. Len(stack) = 1
      BY <1>16
    <3> QED
      BY <3>1, <3>2
  <2>4. FrameAt(b, p) = ExtendedFrame(b, tag, delta, r) /\ d = delta
    BY <1>13, <2>0, <2>2
  <2>5. ExtendedFrame(b, tag, delta, r) = FrameRead(tag, delta, <<>>, tt, q)
    <3>1. tag = SameLocalsExtendedTag /\ q # 0
      BY <1>8, <1>16 DEF SameLocalsExtendedTag
    <3> QED
      BY <2>3, <3>1, StackForm
  <2> QED
    BY <1>4, <1>16, <2>4, <2>5
<1>17. CASE tag \in 248..251 /\ locals = <<>> /\ stack = <<>>
  <2>0. tag \in 128..254 /\ tag \in 247..255
    BY <1>17
  <2>1. Spans(b, p, U1(tag) \o U2(delta) \o <<>>, q)
    BY <1>3, <1>4, <1>17, <2>0
  <2>2. Spans(b, p, U1(tag) \o U2(delta), q)
    BY <1>10, <2>1, WithNothing
  <2>4. FrameAt(b, p) = ExtendedFrame(b, tag, delta, q) /\ d = delta
    BY <1>13, <2>0, <2>2
  <2>5. ExtendedFrame(b, tag, delta, q) = FrameRead(tag, delta, <<>>, <<>>, q)
    <3>1. tag \in NoTypesTags
      BY <1>17 DEF NoTypesTags
    <3> QED
      BY <3>1, BareForm
  <2> QED
    BY <1>4, <1>17, <2>4, <2>5
<1>18. CASE tag \in 252..254 /\ Len(locals) = tag - 251 /\ stack = <<>>
  <2>0. tag \in 128..254 /\ tag \in 247..255
    BY <1>18
  <2>1. Spans(b, p, U1(tag) \o U2(delta) \o ls, q)
    BY <1>3, <1>18, <2>0
  <2>2. PICK r : Spans(b, p, U1(tag) \o U2(delta), r) /\ Spans(b, r, ls, q)
    BY <1>1, <1>10, <2>1, SpansBoth
  <2>3. Items(tag - 251, TypeReader(b), r) = Read(lt, q)
    <3>1. Items(Len(locals), TypeReader(b), r) = Read(lt, q)
      BY <1>2, <2>2, SomeTypes DEF ls, lt
    <3> QED
      BY <1>18, <3>1
  <2>4. FrameAt(b, p) = ExtendedFrame(b, tag, delta, r) /\ d = delta
    BY <1>13, <2>0, <2>2
  <2>5. ExtendedFrame(b, tag, delta, r) = FrameRead(tag, delta, lt, <<>>, q)
    <3>1. tag \in AppendTags /\ q # 0
      BY <1>8, <1>18 DEF AppendTags
    <3> QED
      BY <2>3, <3>1, AppendForm
  <2> QED
    BY <1>4, <1>18, <2>4, <2>5
<1>19. CASE tag = 255
  <2>0. tag \in 247..255
    BY <1>19
  <2> DEFINE x == U2(Len(locals)) \o ls
             y == U2(Len(stack)) \o st
             a == U1(tag) \o U2(delta)
  <2>1. Spans(b, p, a \o x \o y, q)
    BY <1>3, <1>19
  <2>2. IsBytes(a) /\ IsBytes(x) /\ IsBytes(y) /\ IsBytes(a \o x)
    BY <1>10, BytesBoth
  <2> HIDE DEF a, x, y
  <2>3. PICK s : Spans(b, p, a \o x, s) /\ Spans(b, s, y, q)
    BY <2>1, <2>2, SpansBoth
  <2>4. PICK r : Spans(b, p, a, r) /\ Spans(b, r, x, s)
    BY <2>2, <2>3, SpansBoth
  <2>5. CountedBy(b, r, TypeReader(b)) = Read(lt, s)
    BY <1>2, <2>4, CountedTypes DEF x, ls, lt
  <2>6. CountedBy(b, s, TypeReader(b)) = Read(tt, q)
    BY <1>2, <2>3, CountedTypes DEF y, st, tt
  <2>7. s # 0
    BY <2>2, <2>3, SpanEnds
  <2>8. FrameAt(b, p) = ExtendedFrame(b, tag, delta, r) /\ d = delta
    BY <1>13, <2>0, <2>4 DEF a
  <2>9. ExtendedFrame(b, tag, delta, r) = FrameRead(tag, delta, lt, tt, q)
    BY <1>8, <1>19, <2>5, <2>6, <2>7, FullForm
  <2> QED
    BY <2>8, <2>9
<1> QED
  BY <1>6, <1>14, <1>15, <1>16, <1>17, <1>18, <1>19

(* The parts of a frame. *)
LEMMA FrameParts ==
  ASSUME NEW f \in StackFrames
  PROVE  /\ f.offset \in U16
         /\ f.locals \in Seq(VerificationTypes) /\ Len(f.locals) \in U16
         /\ f.stack \in Seq(VerificationTypes) /\ Len(f.stack) \in U16
<1>1. \A s \in Counted(VerificationTypes) : s \in Seq(VerificationTypes) /\ Len(s) \in U16
  BY DEF Counted, U16
<1> QED
  BY <1>1 DEF StackFrames

(* The five forms of a frame. *)
IsSame(f, prev) == f.locals = prev /\ f.stack = <<>>

IsSameLocals(f, prev) == f.locals = prev /\ Len(f.stack) = 1

IsAppend(f, prev) ==
  /\ f.locals # prev /\ f.stack = <<>>
  /\ IsPrefix(prev, f.locals) /\ Len(f.locals) - Len(prev) <= 3

IsChop(f, prev) ==
  /\ f.locals # prev /\ f.stack = <<>>
  /\ IsPrefix(f.locals, prev) /\ Len(prev) - Len(f.locals) <= 3

IsFull(f, prev) ==
  ~ IsSame(f, prev) /\ ~ IsSameLocals(f, prev) /\ ~ IsAppend(f, prev) /\ ~ IsChop(f, prev)

(* No frame has two of them that differ. *)
LEMMA FormsApart ==
  ASSUME NEW f \in StackFrames, NEW prev \in Seq(VerificationTypes)
  PROVE  /\ ~ (IsSame(f, prev) /\ IsSameLocals(f, prev))
         /\ ~ (IsAppend(f, prev) /\ IsChop(f, prev))
<1>1. f.locals \in Seq(VerificationTypes) /\ f.stack \in Seq(VerificationTypes)
  BY FrameParts
<1>0. Len(<<>>) = 0
  OBVIOUS
<1>2. ASSUME IsSame(f, prev), IsSameLocals(f, prev)
      PROVE  FALSE
  <2> DEFINE n == Len(f.stack)
  <2>1. n = 0 /\ n = 1
    BY <1>0, <1>2 DEF IsSame, IsSameLocals
  <2> HIDE DEF n
  <2> QED
    BY <2>1
<1>3. ASSUME IsAppend(f, prev), IsChop(f, prev)
      PROVE  FALSE
  <2>1. Len(prev) <= Len(f.locals) /\ Len(f.locals) <= Len(prev) /\ f.locals # prev
    BY <1>3 DEF IsAppend, IsChop, IsPrefix
  <2>2. Len(prev) = Len(f.locals)
    BY <1>1, <2>1
  <2>3. IsPrefix(prev, f.locals)
    BY <1>3 DEF IsAppend
  <2> QED
    BY <1>1, <2>1, <2>2, <2>3, PrefixParts
<1> QED
  BY <1>2, <1>3

(* The classification of the writer. *)
LEMMA FrameShapes ==
  ASSUME NEW f \in StackFrames, NEW prev \in Seq(VerificationTypes)
  PROVE  /\ IsSame(f, prev) => Shape(f, prev) = "same"
         /\ IsSameLocals(f, prev) => Shape(f, prev) = "same_locals_1"
         /\ IsAppend(f, prev) => Shape(f, prev) = "append"
         /\ IsChop(f, prev) => Shape(f, prev) = "chop"
         /\ IsFull(f, prev) => Shape(f, prev) = "full"
<1> DEFINE a == IsSame(f, prev)
           b == IsSameLocals(f, prev)
           c == IsAppend(f, prev)
           d == IsChop(f, prev)
<1>1. ~ (a /\ b) /\ ~ (c /\ d)
  BY FormsApart
<1>2. ~ (a /\ c) /\ ~ (a /\ d) /\ ~ (b /\ c) /\ ~ (b /\ d)
  BY DEF IsSame, IsSameLocals, IsAppend, IsChop
<1>3. Shape(f, prev) = CASE a -> "same" [] b -> "same_locals_1" [] c -> "append"
                         [] d -> "chop" [] OTHER -> "full"
  BY Zenon DEF Shape, ClassifyFrame, IsSame, IsSameLocals, IsAppend, IsChop
<1> HIDE DEF a, b, c, d
<1>4. /\ a => Shape(f, prev) = "same"
      /\ b => Shape(f, prev) = "same_locals_1"
      /\ c => Shape(f, prev) = "append"
      /\ d => Shape(f, prev) = "chop"
      /\ ~ a /\ ~ b /\ ~ c /\ ~ d => Shape(f, prev) = "full"
  BY <1>1, <1>2, <1>3
<1> QED
  BY <1>4 DEF a, b, c, d, IsFull

(* What WriteFrame makes of a frame. *)
SameWritten(P, f, delta, prev) ==
  IsSame(f, prev) /\ P = Physical(IF delta <= 63 THEN delta ELSE 251, delta, <<>>, <<>>)

SameLocalsWritten(P, f, delta, prev) ==
  IsSameLocals(f, prev)
    /\ P = Physical(IF delta <= 63 THEN 64 + delta ELSE 247, delta, <<>>, f.stack)

AppendWritten(P, f, delta, prev) ==
  IsAppend(f, prev)
    /\ P = Physical(251 + (Len(f.locals) - Len(prev)), delta,
                    SubSeq(f.locals, Len(prev) + 1, Len(f.locals)), <<>>)

ChopWritten(P, f, delta, prev) ==
  IsChop(f, prev) /\ P = Physical(251 - (Len(prev) - Len(f.locals)), delta, <<>>, <<>>)

FullWritten(P, f, delta, prev) ==
  IsFull(f, prev) /\ P = Physical(255, delta, f.locals, f.stack)

(* There is no other form. *)
LEMMA WrittenForms ==
  ASSUME NEW f \in StackFrames, NEW prev \in Seq(VerificationTypes), NEW delta
  PROVE  LET P == WriteFrame(f, delta, prev)
         IN \/ SameWritten(P, f, delta, prev) \/ SameLocalsWritten(P, f, delta, prev)
            \/ AppendWritten(P, f, delta, prev) \/ ChopWritten(P, f, delta, prev)
            \/ FullWritten(P, f, delta, prev)
<1> DEFINE P == WriteFrame(f, delta, prev)
           new == NewLocals(f, prev)
           left == NewStack(f, prev)
           shape == Shape(f, prev)
           tag == CASE shape = "same" -> IF delta <= 63 THEN delta ELSE 251
                    [] shape = "same_locals_1" -> IF delta <= 63 THEN 64 + delta ELSE 247
                    [] shape = "append" -> 251 + Len(new)
                    [] shape = "chop" -> 251 - (Len(prev) - Len(f.locals))
                    [] OTHER -> 255
<1>1. /\ P = Physical(tag, delta, new, left)
      /\ new = CASE shape = "append" -> SubSeq(f.locals, Len(prev) + 1, Len(f.locals))
                 [] shape = "full" -> f.locals
                 [] OTHER -> <<>>
      /\ left = IF shape \in {"same_locals_1", "full"} THEN f.stack ELSE <<>>
  BY Zenon DEF WriteFrame, NewLocals, NewStack
<1>2. f.locals \in Seq(VerificationTypes) /\ f.stack \in Seq(VerificationTypes)
  BY FrameParts
<1> HIDE DEF P
<1>3. CASE IsSame(f, prev)
  <2>1. shape = "same"
    BY <1>3, FrameShapes
  <2> HIDE DEF shape, new, left
  <2>2. tag = (IF delta <= 63 THEN delta ELSE 251) /\ new = <<>> /\ left = <<>>
    BY <1>1, <2>1
  <2> HIDE DEF tag
  <2> QED
    BY <1>1, <1>3, <2>2, Zenon DEF SameWritten, P
<1>4. CASE IsSameLocals(f, prev)
  <2>1. shape = "same_locals_1"
    BY <1>4, FrameShapes
  <2> HIDE DEF shape, new, left
  <2>2. tag = (IF delta <= 63 THEN 64 + delta ELSE 247) /\ new = <<>> /\ left = f.stack
    BY <1>1, <2>1
  <2> HIDE DEF tag
  <2> QED
    BY <1>1, <1>4, <2>2, Zenon DEF SameLocalsWritten, P
<1>5. CASE IsAppend(f, prev)
  <2>1. shape = "append"
    BY <1>5, FrameShapes
  <2>4. Len(SubSeq(f.locals, Len(prev) + 1, Len(f.locals))) = Len(f.locals) - Len(prev)
    <3>1. IsPrefix(prev, f.locals)
      BY <1>5 DEF IsAppend
    <3>2. Len(prev) <= Len(f.locals) /\ Len(prev) \in Nat /\ Len(f.locals) \in Nat
      BY <1>2, <3>1, PrefixParts
    <3> QED
      BY <1>2, <3>2
  <2> HIDE DEF shape, new, left
  <2>2. tag = 251 + Len(new) /\ left = <<>>
         /\ new = SubSeq(f.locals, Len(prev) + 1, Len(f.locals))
    BY <1>1, <2>1
  <2> HIDE DEF tag
  <2>3. tag = 251 + (Len(f.locals) - Len(prev))
    BY <2>2, <2>4
  <2> QED
    BY <1>1, <1>5, <2>2, <2>3 DEF AppendWritten, P
<1>6. CASE IsChop(f, prev)
  <2>1. shape = "chop"
    BY <1>6, FrameShapes
  <2> HIDE DEF shape, new, left
  <2>2. tag = 251 - (Len(prev) - Len(f.locals)) /\ new = <<>> /\ left = <<>>
    BY <1>1, <2>1
  <2> QED
    BY <1>1, <1>6, <2>2 DEF ChopWritten, P
<1>7. CASE IsFull(f, prev)
  <2>1. shape = "full"
    BY <1>7, FrameShapes
  <2> HIDE DEF shape, new, left
  <2>2. tag = 255 /\ new = f.locals /\ left = f.stack
    BY <1>1, <2>1
  <2> QED
    BY <1>1, <1>7, <2>2 DEF FullWritten, P
<1> QED
  BY <1>3, <1>4, <1>5, <1>6, <1>7 DEF IsFull, P

(* The parts of a physical frame. *)
LEMMA PhysicalParts ==
  ASSUME NEW tag, NEW delta, NEW locals, NEW stack, NEW P,
         P = Physical(tag, delta, locals, stack)
  PROVE  P.tag = tag /\ P.delta = delta /\ P.locals = locals /\ P.stack = stack
BY DEF Physical

(* It can be written, and what is written has the form its tag says. *)
LEMMA FrameWritten ==
  ASSUME NEW f \in StackFrames, NEW prev \in Seq(VerificationTypes), NEW delta \in U16
  PROVE  IsPhysical(WriteFrame(f, delta, prev)) /\ WellTagged(WriteFrame(f, delta, prev))
<1> DEFINE P == WriteFrame(f, delta, prev)
<1>1. /\ f.locals \in Seq(VerificationTypes) /\ Len(f.locals) \in U16
      /\ f.stack \in Seq(VerificationTypes) /\ Len(f.stack) \in U16
  BY FrameParts
<1>2. \/ SameWritten(P, f, delta, prev) \/ SameLocalsWritten(P, f, delta, prev)
      \/ AppendWritten(P, f, delta, prev) \/ ChopWritten(P, f, delta, prev)
      \/ FullWritten(P, f, delta, prev)
  BY WrittenForms
<1>3. <<>> \in Seq(VerificationTypes) /\ Len(<<>>) = 0 /\ 0 \in U16
  BY SMT DEF U16
<1>4. delta \in Nat
  BY U16Range
<1>5. Types(<<>>) /\ Types(f.locals) /\ Types(f.stack) /\ Len(<<>>) \in U16
  BY <1>1, <1>3 DEF Types
<1> HIDE DEF P
<1>6. ASSUME NEW tag, NEW locals, NEW stack, P = Physical(tag, delta, locals, stack),
             tag \in 0..255, Types(locals), Len(locals) \in U16, Types(stack), Len(stack) \in U16
      PROVE  IsPhysical(P) /\ P.tag = tag /\ P.locals = locals /\ P.stack = stack
  <2>1. P.tag = tag /\ P.delta = delta /\ P.locals = locals /\ P.stack = stack
    BY <1>6, PhysicalParts
  <2>2. tag \in Octets
    BY <1>6 DEF Octets
  <2> QED
    BY <1>6, <2>1, <2>2 DEF IsPhysical
<1>7. CASE SameWritten(P, f, delta, prev)
  <2> DEFINE tag == IF delta <= 63 THEN delta ELSE 251
  <2>1. P = Physical(tag, delta, <<>>, <<>>)
    BY <1>7 DEF SameWritten
  <2>2. tag \in 0..63 \/ tag \in 248..251
    BY <1>4
  <2>3. tag \in 0..255
    BY <2>2
  <2> HIDE DEF tag
  <2>4. IsPhysical(P) /\ P.tag = tag /\ P.locals = <<>> /\ P.stack = <<>>
    BY <1>5, <1>6, <2>1, <2>3
  <2>5. WellTagged(P)
    BY <2>2, <2>4 DEF WellTagged
  <2> QED
    BY <2>4, <2>5 DEF P
<1>8. CASE SameLocalsWritten(P, f, delta, prev)
  <2> DEFINE tag == IF delta <= 63 THEN 64 + delta ELSE 247
  <2>1. P = Physical(tag, delta, <<>>, f.stack) /\ Len(f.stack) = 1
    BY <1>8 DEF SameLocalsWritten, IsSameLocals
  <2>2. tag \in 64..127 \/ tag = 247
    BY <1>4
  <2>3. tag \in 0..255
    BY <2>2
  <2> HIDE DEF tag
  <2>4. IsPhysical(P) /\ P.tag = tag /\ P.locals = <<>> /\ P.stack = f.stack
    BY <1>1, <1>5, <1>6, <2>1, <2>3
  <2>5. WellTagged(P)
    BY <2>1, <2>2, <2>4 DEF WellTagged
  <2> QED
    BY <2>4, <2>5 DEF P
<1>9. CASE AppendWritten(P, f, delta, prev)
  <2> DEFINE n == Len(f.locals) - Len(prev)
             new == SubSeq(f.locals, Len(prev) + 1, Len(f.locals))
             tag == 251 + n
  <2>1. P = Physical(tag, delta, new, <<>>) /\ f.locals # prev /\ IsPrefix(prev, f.locals) /\ n <= 3
    BY <1>9 DEF AppendWritten, IsAppend
  <2>2. Len(prev) \in Nat /\ Len(f.locals) \in Nat /\ Len(prev) <= Len(f.locals)
         /\ Len(prev) # Len(f.locals)
    BY <1>1, <2>1, PrefixParts
  <2>3. new \in Seq(VerificationTypes) /\ Len(new) = n
    BY <1>1, <2>2
  <2>4. n \in 1..3
    BY <2>1, <2>2
  <2> HIDE DEF new, n
  <2>5. Len(new) \in U16
    BY <2>3, <2>4, SMT DEF U16
  <2>6. Types(new)
    BY <2>3 DEF Types
  <2>7. tag \in 252..254 /\ n = tag - 251 /\ tag \in 0..255
    BY <2>4
  <2> HIDE DEF tag
  <2>8. IsPhysical(P) /\ P.tag = tag /\ P.locals = new /\ P.stack = <<>>
    BY <1>5, <1>6, <2>1, <2>5, <2>6, <2>7
  <2>9. WellTagged(P)
    BY <2>3, <2>7, <2>8 DEF WellTagged
  <2> QED
    BY <2>8, <2>9 DEF P
<1>10. CASE ChopWritten(P, f, delta, prev)
  <2> DEFINE n == Len(prev) - Len(f.locals)
             tag == 251 - n
  <2>1. P = Physical(tag, delta, <<>>, <<>>) /\ f.locals # prev /\ IsPrefix(f.locals, prev)
          /\ n <= 3
    BY <1>10 DEF ChopWritten, IsChop
  <2>2. Len(prev) \in Nat /\ Len(f.locals) \in Nat /\ Len(f.locals) <= Len(prev)
    BY <1>1, <2>1, PrefixParts
  <2>3. n \in 0..3
    BY <2>1, <2>2
  <2> HIDE DEF n
  <2>4. tag \in 248..251 /\ tag \in 0..255
    BY <2>3
  <2> HIDE DEF tag
  <2>5. IsPhysical(P) /\ P.tag = tag /\ P.locals = <<>> /\ P.stack = <<>>
    BY <1>5, <1>6, <2>1, <2>4
  <2>6. WellTagged(P)
    BY <2>4, <2>5 DEF WellTagged
  <2> QED
    BY <2>5, <2>6 DEF P
<1>11. CASE FullWritten(P, f, delta, prev)
  <2>1. P = Physical(255, delta, f.locals, f.stack)
    BY <1>11 DEF FullWritten
  <2>2. 255 \in 0..255
    OBVIOUS
  <2>3. IsPhysical(P) /\ P.tag = 255
    BY <1>1, <1>5, <1>6, <2>1, <2>2
  <2>4. WellTagged(P)
    BY <2>3 DEF WellTagged
  <2> QED
    BY <2>3, <2>4 DEF P
<1> QED
  BY <1>2, <1>7, <1>8, <1>9, <1>10, <1>11

(* p is read where P was written. *)
ReadAs(p, P) ==
  /\ p.tag = P.tag /\ p.locals = P.locals /\ p.stack = P.stack
  /\ P.tag > 127 => p.delta = P.delta

(* What a tag makes of the frame it heads. *)
LEMMA ReaderForms ==
  ASSUME NEW p, NEW prev, p.tag \in Nat
  PROVE  /\ p.tag <= 63 =>
              ReadDelta(p) = p.tag /\ ReadLocals(p, prev) = prev /\ ReadStack(p) = <<>>
         /\ p.tag \in 64..127 =>
              /\ ReadDelta(p) = p.tag - 64 /\ ReadLocals(p, prev) = prev
              /\ ReadStack(p) = SubSeq(p.stack, 1, 1)
         /\ p.tag = 247 =>
              /\ ReadDelta(p) = p.delta /\ ReadLocals(p, prev) = prev
              /\ ReadStack(p) = SubSeq(p.stack, 1, 1)
         /\ p.tag = 251 =>
              ReadDelta(p) = p.delta /\ ReadLocals(p, prev) = prev /\ ReadStack(p) = <<>>
         /\ p.tag \in 248..250 =>
              /\ ReadDelta(p) = p.delta
              /\ ReadLocals(p, prev) = SubSeq(prev, 1, Len(prev) - (251 - p.tag))
              /\ ReadStack(p) = <<>>
         /\ p.tag \in 252..254 =>
              /\ ReadDelta(p) = p.delta
              /\ ReadLocals(p, prev) = prev \o SubSeq(p.locals, 1, p.tag - 251)
              /\ ReadStack(p) = <<>>
         /\ p.tag = 255 =>
              ReadDelta(p) = p.delta /\ ReadLocals(p, prev) = p.locals /\ ReadStack(p) = p.stack
<1> DEFINE tag == p.tag
           low == tag <= 63
           mid == tag \in 64..127
           one == tag \in 64..127 \cup {247}
           app == tag \in 252..254
           chop == tag \in 248..250
           full == tag = 255
           cut == SubSeq(prev, 1, Len(prev) - (251 - tag))
           more == prev \o SubSeq(p.locals, 1, tag - 251)
           first == SubSeq(p.stack, 1, 1)
           sub == tag - 64
<1>1. tag \in Nat
  OBVIOUS
<1>2. ReadDelta(p) = CASE low -> tag [] mid -> sub [] OTHER -> p.delta
  BY Zenon DEF ReadDelta
<1>3. ReadLocals(p, prev) = CASE full -> p.locals [] app -> more [] chop -> cut [] OTHER -> prev
  BY Zenon DEF ReadLocals
<1>4. ReadStack(p) = CASE full -> p.stack [] one -> first [] OTHER -> <<>>
  BY Zenon DEF ReadStack
<1> HIDE DEF tag, cut, more, first, sub
<1>5. CASE low
  <2>1. low /\ ~ mid /\ ~ full /\ ~ app /\ ~ chop /\ ~ one
    BY <1>1, <1>5
  <2>2. ~ (tag \in 64..127) /\ ~ (tag = 247) /\ ~ (tag = 251) /\ ~ (tag = 255)
         /\ ~ (tag \in 248..250) /\ ~ (tag \in 252..254)
    BY <2>1, <1>1, <1>5
  <2> HIDE DEF low, mid, one, app, chop, full
  <2>3. ReadDelta(p) = tag /\ ReadLocals(p, prev) = prev /\ ReadStack(p) = <<>>
    BY <1>2, <1>3, <1>4, <2>1
  <2> QED
    BY <2>2, <2>3 DEF tag, cut, more, first, sub
<1>6. CASE mid
  <2>1. ~ low /\ mid /\ ~ full /\ ~ app /\ ~ chop /\ one
    BY <1>1, <1>6
  <2>2. ~ (tag <= 63) /\ ~ (tag = 247) /\ ~ (tag = 251) /\ ~ (tag = 255)
         /\ ~ (tag \in 248..250) /\ ~ (tag \in 252..254)
    BY <2>1, <1>1, <1>6
  <2> HIDE DEF low, mid, one, app, chop, full
  <2>3. ReadDelta(p) = sub /\ ReadLocals(p, prev) = prev /\ ReadStack(p) = first
    BY <1>2, <1>3, <1>4, <2>1
  <2> QED
    BY <2>2, <2>3 DEF tag, cut, more, first, sub
<1>7. CASE tag = 247
  <2>1. ~ low /\ ~ mid /\ ~ full /\ ~ app /\ ~ chop /\ one
    BY <1>1, <1>7
  <2>2. ~ (tag <= 63) /\ ~ (tag \in 64..127) /\ ~ (tag = 251) /\ ~ (tag = 255)
         /\ ~ (tag \in 248..250) /\ ~ (tag \in 252..254)
    BY <2>1, <1>1, <1>7
  <2> HIDE DEF low, mid, one, app, chop, full
  <2>3. ReadDelta(p) = p.delta /\ ReadLocals(p, prev) = prev /\ ReadStack(p) = first
    BY <1>2, <1>3, <1>4, <2>1
  <2> QED
    BY <2>2, <2>3 DEF tag, cut, more, first, sub
<1>8. CASE tag = 251
  <2>1. ~ low /\ ~ mid /\ ~ full /\ ~ app /\ ~ chop /\ ~ one
    BY <1>1, <1>8
  <2>2. ~ (tag <= 63) /\ ~ (tag \in 64..127) /\ ~ (tag = 247) /\ ~ (tag = 255)
         /\ ~ (tag \in 248..250) /\ ~ (tag \in 252..254)
    BY <2>1, <1>1, <1>8
  <2> HIDE DEF low, mid, one, app, chop, full
  <2>3. ReadDelta(p) = p.delta /\ ReadLocals(p, prev) = prev /\ ReadStack(p) = <<>>
    BY <1>2, <1>3, <1>4, <2>1
  <2> QED
    BY <2>2, <2>3 DEF tag, cut, more, first, sub
<1>9. CASE chop
  <2>1. ~ low /\ ~ mid /\ ~ full /\ ~ app /\ chop /\ ~ one
    BY <1>1, <1>9
  <2>2. ~ (tag <= 63) /\ ~ (tag \in 64..127) /\ ~ (tag = 247) /\ ~ (tag = 255)
         /\ ~ (tag = 251) /\ ~ (tag \in 252..254)
    BY <2>1, <1>1, <1>9
  <2> HIDE DEF low, mid, one, app, chop, full
  <2>3. ReadDelta(p) = p.delta /\ ReadLocals(p, prev) = cut /\ ReadStack(p) = <<>>
    BY <1>2, <1>3, <1>4, <2>1
  <2> QED
    BY <2>2, <2>3 DEF tag, cut, more, first, sub
<1>10. CASE app
  <2>1. ~ low /\ ~ mid /\ ~ full /\ app /\ ~ chop /\ ~ one
    BY <1>1, <1>10
  <2>2. ~ (tag <= 63) /\ ~ (tag \in 64..127) /\ ~ (tag = 247) /\ ~ (tag = 255)
         /\ ~ (tag = 251) /\ ~ (tag \in 248..250)
    BY <2>1, <1>1, <1>10
  <2> HIDE DEF low, mid, one, app, chop, full
  <2>3. ReadDelta(p) = p.delta /\ ReadLocals(p, prev) = more /\ ReadStack(p) = <<>>
    BY <1>2, <1>3, <1>4, <2>1
  <2> QED
    BY <2>2, <2>3 DEF tag, cut, more, first, sub
<1>11. CASE full
  <2>1. ~ low /\ ~ mid /\ full /\ ~ app /\ ~ chop /\ ~ one
    BY <1>1, <1>11
  <2>2. ~ (tag <= 63) /\ ~ (tag \in 64..127) /\ ~ (tag = 247) /\ ~ (tag \in 252..254)
         /\ ~ (tag = 251) /\ ~ (tag \in 248..250)
    BY <2>1, <1>1, <1>11
  <2> HIDE DEF low, mid, one, app, chop, full
  <2>3. ReadDelta(p) = p.delta /\ ReadLocals(p, prev) = p.locals /\ ReadStack(p) = p.stack
    BY <1>2, <1>3, <1>4, <2>1
  <2> QED
    BY <2>2, <2>3 DEF tag, cut, more, first, sub
<1> QED
  BY <1>5, <1>6, <1>7, <1>8, <1>9, <1>10, <1>11 DEF tag, cut, more, first, sub

(* The reader recovers the frame from what was written for it. *)
LEMMA FrameRecovered ==
  ASSUME NEW f \in StackFrames, NEW prev \in Seq(VerificationTypes), NEW delta \in U16,
         NEW p, ReadAs(p, WriteFrame(f, delta, prev))
  PROVE  ReadDelta(p) = delta /\ ReadLocals(p, prev) = f.locals /\ ReadStack(p) = f.stack
<1> DEFINE P == WriteFrame(f, delta, prev)
           goal == ReadDelta(p) = delta /\ ReadLocals(p, prev) = f.locals /\ ReadStack(p) = f.stack
<1>1. f.locals \in Seq(VerificationTypes) /\ f.stack \in Seq(VerificationTypes)
  BY FrameParts
<1>2. \/ SameWritten(P, f, delta, prev) \/ SameLocalsWritten(P, f, delta, prev)
      \/ AppendWritten(P, f, delta, prev) \/ ChopWritten(P, f, delta, prev)
      \/ FullWritten(P, f, delta, prev)
  BY WrittenForms
<1>3. delta \in Nat
  BY U16Range
<1>4. ReadAs(p, P)
  OBVIOUS
<1> HIDE DEF P
<1>5. ASSUME NEW tag, NEW locals, NEW stack, P = Physical(tag, delta, locals, stack)
      PROVE  /\ p.tag = tag /\ p.locals = locals /\ p.stack = stack
             /\ tag > 127 => p.delta = delta
  <2>1. P.tag = tag /\ P.delta = delta /\ P.locals = locals /\ P.stack = stack
    BY <1>5, PhysicalParts
  <2> QED
    BY <1>4, <2>1 DEF ReadAs
<1>7. CASE SameWritten(P, f, delta, prev)
  <2> DEFINE tag == IF delta <= 63 THEN delta ELSE 251
  <2>1. P = Physical(tag, delta, <<>>, <<>>) /\ f.locals = prev /\ f.stack = <<>>
    BY <1>7 DEF SameWritten, IsSame
  <2>2. (tag <= 63 /\ delta = tag /\ tag \in Nat) \/ (tag = 251 /\ tag > 127)
    BY <1>3
  <2> HIDE DEF tag
  <2>3. p.tag = tag /\ (tag > 127 => p.delta = delta)
    BY <1>5, <2>1
  <2>4. p.tag \in Nat
    BY <2>2, <2>3
  <2>5. CASE tag <= 63 /\ delta = tag
    BY <2>1, <2>3, <2>4, <2>5, ReaderForms
  <2>6. CASE tag = 251 /\ tag > 127
    BY <2>1, <2>3, <2>4, <2>6, ReaderForms
  <2> QED
    BY <2>2, <2>5, <2>6
<1>8. CASE SameLocalsWritten(P, f, delta, prev)
  <2> DEFINE tag == IF delta <= 63 THEN 64 + delta ELSE 247
  <2>1. P = Physical(tag, delta, <<>>, f.stack) /\ f.locals = prev /\ Len(f.stack) = 1
    BY <1>8 DEF SameLocalsWritten, IsSameLocals
  <2>2. (tag \in 64..127 /\ delta = tag - 64) \/ (tag = 247 /\ tag > 127)
    BY <1>3
  <2>9. tag \in Nat
    BY <1>3
  <2> HIDE DEF tag
  <2>3. p.tag = tag /\ (tag > 127 => p.delta = delta) /\ p.stack = f.stack
    BY <1>5, <2>1
  <2>4. p.tag \in Nat
    BY <2>3, <2>9
  <2>7. SubSeq(p.stack, 1, 1) = f.stack
    BY <1>1, <2>1, <2>3, WholeSequence
  <2>5. CASE tag \in 64..127 /\ delta = tag - 64
    <3>1. p.tag \in 64..127 /\ p.tag - 64 = delta
      BY <2>3, <2>5
    <3>2. /\ ReadDelta(p) = p.tag - 64 /\ ReadLocals(p, prev) = prev
          /\ ReadStack(p) = SubSeq(p.stack, 1, 1)
      BY <2>4, <3>1, ReaderForms
    <3> QED
      BY <2>1, <2>7, <3>1, <3>2
  <2>6. CASE tag = 247 /\ tag > 127
    <3>1. p.tag = 247 /\ p.delta = delta
      BY <2>3, <2>6
    <3>2. /\ ReadDelta(p) = p.delta /\ ReadLocals(p, prev) = prev
          /\ ReadStack(p) = SubSeq(p.stack, 1, 1)
      BY <2>4, <3>1, ReaderForms
    <3> QED
      BY <2>1, <2>7, <3>1, <3>2
  <2> QED
    BY <2>2, <2>5, <2>6
<1>9. CASE AppendWritten(P, f, delta, prev)
  <2> DEFINE n == Len(f.locals) - Len(prev)
             new == SubSeq(f.locals, Len(prev) + 1, Len(f.locals))
             tag == 251 + n
  <2>1. P = Physical(tag, delta, new, <<>>) /\ f.locals # prev /\ IsPrefix(prev, f.locals) /\ n <= 3
         /\ f.stack = <<>>
    BY <1>9 DEF AppendWritten, IsAppend
  <2>2. Len(prev) \in Nat /\ Len(f.locals) \in Nat /\ Len(prev) <= Len(f.locals)
         /\ Len(prev) # Len(f.locals) /\ prev \o new = f.locals
    BY <1>1, <2>1, PrefixParts
  <2>3. new \in Seq(VerificationTypes) /\ Len(new) = n
    BY <1>1, <2>2
  <2>4. n \in 1..3
    BY <2>1, <2>2
  <2> HIDE DEF new, n
  <2>7. tag \in 252..254 /\ n = tag - 251 /\ tag > 127
    BY <2>4
  <2> HIDE DEF tag
  <2>8. p.tag = tag /\ p.delta = delta /\ p.locals = new
    BY <1>5, <2>1, <2>7
  <2>9. SubSeq(p.locals, 1, p.tag - 251) = new
    BY <2>3, <2>7, <2>8, WholeSequence
  <2>10. p.tag \in Nat /\ p.tag \in 252..254
    BY <2>7, <2>8
  <2>11. prev \o SubSeq(p.locals, 1, p.tag - 251) = f.locals
    BY <2>2, <2>9
  <2>12. /\ ReadDelta(p) = p.delta /\ ReadStack(p) = <<>>
         /\ ReadLocals(p, prev) = prev \o SubSeq(p.locals, 1, p.tag - 251)
    BY <2>10, ReaderForms
  <2> QED
    BY <2>1, <2>8, <2>11, <2>12
<1>10. CASE ChopWritten(P, f, delta, prev)
  <2> DEFINE n == Len(prev) - Len(f.locals)
             tag == 251 - n
  <2>1. P = Physical(tag, delta, <<>>, <<>>) /\ f.locals # prev /\ IsPrefix(f.locals, prev)
          /\ n <= 3
         /\ f.stack = <<>>
    BY <1>10 DEF ChopWritten, IsChop
  <2>2. Len(prev) \in Nat /\ Len(f.locals) \in Nat /\ Len(f.locals) <= Len(prev)
         /\ Len(prev) # Len(f.locals) /\ SubSeq(prev, 1, Len(f.locals)) = f.locals
    BY <1>1, <2>1, PrefixParts
  <2>3. n \in 1..3 /\ Len(prev) - n = Len(f.locals)
    BY <2>1, <2>2
  <2> HIDE DEF n
  <2>4. tag \in 248..250 /\ tag > 127 /\ 251 - tag = n
    BY <2>3
  <2> HIDE DEF tag
  <2>5. p.tag = tag /\ p.delta = delta
    BY <1>5, <2>1, <2>4
  <2>6. p.tag \in Nat /\ p.tag \in 248..250
    BY <2>4, <2>5
  <2>7. SubSeq(prev, 1, Len(prev) - (251 - p.tag)) = f.locals
    BY <2>2, <2>3, <2>4, <2>5
  <2>8. /\ ReadDelta(p) = p.delta /\ ReadStack(p) = <<>>
        /\ ReadLocals(p, prev) = SubSeq(prev, 1, Len(prev) - (251 - p.tag))
    BY <2>6, ReaderForms
  <2> QED
    BY <2>1, <2>5, <2>7, <2>8
<1>11. CASE FullWritten(P, f, delta, prev)
  <2>1. P = Physical(255, delta, f.locals, f.stack)
    BY <1>11 DEF FullWritten
  <2>2. p.tag = 255 /\ p.delta = delta /\ p.locals = f.locals /\ p.stack = f.stack
    BY <1>5, <2>1
  <2>3. p.tag \in Nat
    BY <2>2
  <2>4. ReadDelta(p) = p.delta /\ ReadLocals(p, prev) = p.locals /\ ReadStack(p) = p.stack
    BY <2>2, <2>3, ReaderForms
  <2> QED
    BY <2>2, <2>4
<1> QED
  BY <1>2, <1>7, <1>8, <1>9, <1>10, <1>11

(* The deltas of ordered frames are those the reader adds up. *)
LEMMA Deltas ==
  ASSUME NEW frames \in Seq(StackFrames), Ordered(frames), NEW k \in 1..Len(frames)
  PROVE  /\ Delta(frames, k) \in U16
         /\ k = 1 => frames[k].offset = (-1) + Delta(frames, k) + 1
         /\ k # 1 => frames[k].offset = frames[k - 1].offset + Delta(frames, k) + 1
<1>1. frames[k] \in StackFrames
  OBVIOUS
<1>2. CASE k = 1
  <2>1. frames[1].offset \in U16 /\ Delta(frames, k) = frames[1].offset
    BY <1>1, <1>2, FrameParts DEF Delta
  <2>2. frames[1].offset \in Nat
    BY <2>1, U16Range
  <2> QED
    BY <1>2, <2>1, <2>2
<1>3. CASE k # 1
  <2> DEFINE x == frames[k - 1].offset
             y == frames[k].offset
  <2>1. k \in 2..Len(frames) /\ frames[k - 1] \in StackFrames
    BY <1>3
  <2>2. x \in U16 /\ y \in U16
    BY <1>1, <2>1, FrameParts
  <2>3. x < y
    BY <2>1 DEF Ordered
  <2>4. Delta(frames, k) = y - x - 1
    BY <1>3 DEF Delta
  <2> HIDE DEF x, y
  <2>5. x \in Nat /\ y \in Nat /\ y <= 65535
    BY <2>2, SMT DEF U16
  <2>6. y - x - 1 \in U16 /\ y = x + (y - x - 1) + 1
    BY <2>3, <2>5, SMT DEF U16
  <2> QED
    BY <1>3, <2>4, <2>6 DEF x, y
<1> QED
  BY <1>2, <1>3

(* The locals before a frame are types. *)
LEMMA PreviousLocals ==
  ASSUME NEW frames \in Seq(StackFrames), NEW entry \in Seq(VerificationTypes),
         NEW k \in 1..Len(frames)
  PROVE  PrevLocals(frames, entry, k) \in Seq(VerificationTypes)
<1>1. CASE k = 1
  BY <1>1 DEF PrevLocals
<1>2. CASE k # 1
  <2>1. frames[k - 1] \in StackFrames
    BY <1>2
  <2>2. frames[k - 1].locals \in Seq(VerificationTypes)
    BY <2>1, FrameParts
  <2> QED
    BY <1>2, <2>2 DEF PrevLocals
<1> QED
  BY <1>1, <1>2

(* From what is written for ordered frames the verifier gets the frames. *)
LEMMA MapRecovered ==
  ASSUME NEW frames \in Seq(StackFrames), Ordered(frames), NEW entry \in Seq(VerificationTypes),
         NEW ps, DOMAIN ps = 1..Len(frames), Len(ps) = Len(frames),
         \A k \in 1..Len(frames) : ReadAs(ps[k], WriteStackMapBody(frames, entry)[k])
  PROVE  ReadStackMap(ps, entry) = frames
<1> DEFINE n == Len(ps)
           IsRead(h) ==
             h = [k \in 1..n |->
                    IF k = 1 THEN ReadFrame(ps[1], -1, entry)
                    ELSE ReadFrame(ps[k], h[k - 1].offset, h[k - 1].locals)]
           read == CHOOSE h : IsRead(h)
<1>1. n \in Nat /\ frames = [k \in 1..n |-> frames[k]] /\ \A k \in 1..n : frames[k] \in StackFrames
  OBVIOUS
<1>0. ReadStackMap(ps, entry) = [k \in DOMAIN ps |-> read[k]]
  BY Zenon DEF ReadStackMap
<1>2. ReadStackMap(ps, entry) = [k \in 1..n |-> read[k]]
  <2> HIDE DEF read
  <2> QED
    BY <1>0
<1>3. ASSUME NEW k \in 1..n
      PROVE  frames[k] = IF k = 1 THEN ReadFrame(ps[1], -1, entry)
                         ELSE ReadFrame(ps[k], frames[k - 1].offset, frames[k - 1].locals)
  <2> DEFINE f == frames[k]
             d == Delta(frames, k)
             prev == PrevLocals(frames, entry, k)
  <2>1. f \in StackFrames /\ d \in U16 /\ prev \in Seq(VerificationTypes)
    BY <1>1, Deltas, PreviousLocals
  <2>2. WriteStackMapBody(frames, entry)[k] = WriteFrame(f, d, prev)
    BY <1>1 DEF WriteStackMapBody
  <2>3. ReadAs(ps[k], WriteFrame(f, d, prev))
    BY <2>2
  <2>4. /\ k = 1 => f.offset = (-1) + d + 1
        /\ k # 1 => f.offset = frames[k - 1].offset + d + 1
    BY Deltas
  <2>5. prev = IF k = 1 THEN entry ELSE frames[k - 1].locals
    BY DEF PrevLocals
  <2>6. f = [offset |-> f.offset, locals |-> f.locals, stack |-> f.stack]
    BY <2>1 DEF StackFrames
  <2> HIDE DEF f, d, prev
  <2>7. ReadDelta(ps[k]) = d /\ ReadLocals(ps[k], prev) = f.locals /\ ReadStack(ps[k]) = f.stack
    BY <2>1, <2>3, FrameRecovered
  <2>8. ASSUME NEW base, f.offset = base + d + 1
        PROVE  f = ReadFrame(ps[k], base, prev)
    BY <2>6, <2>7, <2>8 DEF ReadFrame
  <2>9. CASE k = 1
    BY <2>4, <2>5, <2>8, <2>9 DEF f
  <2>10. CASE k # 1
    BY <2>4, <2>5, <2>8, <2>10 DEF f
  <2> QED
    BY <2>9, <2>10
<1> HIDE DEF n
<1>4. IsRead(frames)
  <2>1. frames = [k \in 1..n |-> IF k = 1 THEN ReadFrame(ps[1], -1, entry)
                         ELSE ReadFrame(ps[k], frames[k - 1].offset, frames[k - 1].locals)]
    BY <1>1, <1>3
  <2> QED
    BY <2>1
<1>5. IsRead(read)
  <2> HIDE DEF IsRead
  <2> QED
    BY <1>4
<1>6. ASSUME NEW k \in 1..n
      PROVE  read[k] = IF k = 1 THEN ReadFrame(ps[1], -1, entry)
                       ELSE ReadFrame(ps[k], read[k - 1].offset, read[k - 1].locals)
  <2> HIDE DEF read
  <2> QED
    BY <1>5
<1> HIDE DEF read
<1> DEFINE G == {k \in 0..n : k = 0 \/ read[k] = frames[k]}
<1>7. \A k \in 0..n : k \in G
  <2>1. 0 \in G
    BY <1>1
  <2>2. ASSUME NEW k \in 1..n, k - 1 \in G
        PROVE  k \in G
    <3>1. k \in 0..n /\ k - 1 \in 0..n
      BY <1>1
    <3>2. k # 1 => k - 1 # 0
      BY <1>1
    <3> QED
      BY <1>3, <1>6, <2>2, <3>1, <3>2
  <2> HIDE DEF G
  <2> QED
    BY <1>1, <2>1, <2>2, IndexInduction
<1>8. \A k \in 1..n : read[k] = frames[k]
  <2> TAKE k \in 1..n
  <2>1. k \in 0..n /\ k # 0
    BY <1>1
  <2> QED
    BY <1>7, <2>1
<1> QED
  BY <1>1, <1>2, <1>8

(* A part of the types takes no more bytes than the whole. *)
LEMMA SuffixLength ==
  ASSUME IndicesFit, NEW types, Types(types), NEW m \in 0..Len(types),
         NEW rest, rest = SubSeq(types, m + 1, Len(types))
  PROVE  Types(rest) /\ Len(rest) = Len(types) - m
         /\ Len(WriteTypes(rest)) <= Len(WriteTypes(types))
<1> DEFINE n == Len(types)
           l == Len(rest)
           ss == TypeBytes(types)
           rr == TypeBytes(rest)
<1>1. types \in Seq(VerificationTypes) /\ n \in Nat /\ m \in Nat /\ m <= n
  BY DEF Types
<1>2. rest \in Seq(VerificationTypes) /\ l = n - m
  BY <1>1
<1>3. Types(rest)
  BY <1>2 DEF Types
<1>4. /\ AllBytes(ss) /\ Len(ss) = n /\ WriteTypes(types) = FlattenSeq(ss)
      /\ AllBytes(rr) /\ Len(rr) = l /\ WriteTypes(rest) = FlattenSeq(rr)
  BY <1>3, TypesWritten
<1>5. ASSUME NEW k \in 1..l
      PROVE  rr[k] = ss[m + k] /\ m + k \in 1..n
  <2>1. m + k \in 1..n
    BY <1>1, <1>2
  <2>2. rest[k] = types[m + k]
    BY <1>1, <1>2, <2>1
  <2>3. rr[k] = WriteType(rest[k]) /\ ss[m + k] = WriteType(types[m + k])
    BY <1>1, <1>2, <2>1 DEF TypeBytes
  <2> QED
    BY <2>1, <2>2, <2>3
<1> HIDE DEF ss, rr
<1>6. PICK x : Piled(x, FlattenSeq(ss), ss)
  BY <1>4, FlattenPiled DEF AllBytes
<1>7. PICK y : Piled(y, FlattenSeq(rr), rr)
  BY <1>4, FlattenPiled DEF AllBytes
<1> HIDE DEF n, l
<1>8. /\ x \in [1..(n + 1) -> Nat] /\ \A k \in 1..n : x[k + 1] = x[k] + Len(ss[k])
      /\ Len(WriteTypes(types)) = x[n + 1]
      /\ y \in [1..(l + 1) -> Nat] /\ y[1] = 0 /\ \A k \in 1..l : y[k + 1] = y[k] + Len(rr[k])
      /\ Len(WriteTypes(rest)) = y[l + 1]
  BY <1>4, <1>6, <1>7 DEF Piled
<1>9. l \in Nat /\ l = n - m
  BY <1>1, <1>2 DEF n, l
<1> DEFINE G == {k \in 0..l : y[k + 1] <= x[m + k + 1]}
<1>10. \A k \in 0..l : k \in G
  <2>1. 0 \in G
    <3>1. m + 1 \in 1..(n + 1)
      BY <1>1, <1>9
    <3>2. x[m + 1] \in Nat /\ y[1] = 0 /\ m + 0 + 1 = m + 1 /\ 0 + 1 = 1
      BY <1>1, <1>8, <3>1
    <3>3. 0 \in 0..l
      BY <1>9
    <3> QED
      BY <3>2, <3>3
  <2>2. ASSUME NEW k \in 1..l, k - 1 \in G
        PROVE  k \in G
    <3>1. k \in 0..l /\ (k - 1) + 1 = k /\ m + (k - 1) + 1 = m + k /\ m + k \in 1..n
          /\ m + k \in 1..(n + 1) /\ m + k + 1 \in 1..(n + 1)
          /\ k \in 1..(l + 1) /\ k + 1 \in 1..(l + 1)
      BY <1>1, <1>9
    <3>2. y[k] <= x[m + k]
      BY <2>2, <3>1
    <3>3. y[k + 1] = y[k] + Len(rr[k])
      BY <1>8
    <3>4. x[m + k + 1] = x[m + k] + Len(ss[m + k])
      BY <1>8, <3>1
    <3>5. rr[k] = ss[m + k]
      BY <1>5
    <3> DEFINE a == y[k]
               b == x[m + k]
               c == Len(rr[k])
               d == y[k + 1]
               e == x[m + k + 1]
    <3>6. a \in Nat /\ b \in Nat /\ d \in Nat /\ e \in Nat
      BY <1>8, <3>1
    <3>7. a <= b /\ d = a + c /\ e = b + c
      BY <3>2, <3>3, <3>4, <3>5
    <3>8. c \in Nat
      BY <1>4 DEF AllBytes, l
    <3> HIDE DEF a, b, c, d, e
    <3>9. d <= e
      BY <3>6, <3>7, <3>8
    <3> QED
      BY <3>1, <3>9 DEF d, e
  <2> HIDE DEF G
  <2> QED
    BY <1>9, <2>1, <2>2, IndexInduction
<1>11. y[l + 1] <= x[m + l + 1]
  <2>1. l \in 0..l
    BY <1>9
  <2> QED
    BY <1>10, <2>1
<1>12. m + l = n
  BY <1>1, <1>9
<1>13. y[l + 1] <= x[n + 1]
  BY <1>11, <1>12
<1> QED
  BY <1>2, <1>3, <1>8, <1>13 DEF n, l

(* The forms that can be chosen from. *)
BareForms(p, delta) ==
  \/ delta <= 63 /\ p = Physical(delta, delta, <<>>, <<>>)
  \/ p = Physical(251, delta, <<>>, <<>>)

StackForms(p, f, delta) ==
  \/ delta <= 63 /\ p = Physical(64 + delta, delta, <<>>, f.stack)
  \/ p = Physical(247, delta, <<>>, f.stack)

ChopForms(p, delta) == \E tag \in 248..250 : p = Physical(tag, delta, <<>>, <<>>)

AppendForms(p, f, delta) ==
  \E n \in 1..3 : n <= Len(f.locals)
    /\ p = Physical(251 + n, delta, SubSeq(f.locals, Len(f.locals) - n + 1, Len(f.locals)), <<>>)

FullForms(p, f, delta) == p = Physical(255, delta, f.locals, f.stack)

(* These are all. *)
LEMMA FormsSplit ==
  ASSUME NEW f \in StackFrames, NEW prev, NEW delta, NEW p \in FormsOf(f, delta, prev)
  PROVE  \/ BareForms(p, delta) \/ StackForms(p, f, delta) \/ ChopForms(p, delta)
         \/ AppendForms(p, f, delta) \/ FullForms(p, f, delta)
<1> DEFINE rest(n) == SubSeq(f.locals, Len(f.locals) - n + 1, Len(f.locals))
           none == {Physical(tag, delta, <<>>, <<>>) : tag \in {251, 250, 249, 248}}
           app == {Physical(251 + n, delta, rest(n), <<>>) : n \in (1..3) \cap (1..Len(f.locals))}
           low == IF delta <= 63 THEN {Physical(delta, delta, <<>>, <<>>),
                                       Physical(64 + delta, delta, <<>>, f.stack)} ELSE {}
<1>1. p \in {Physical(255, delta, f.locals, f.stack)} \cup none
              \cup {Physical(247, delta, <<>>, f.stack)} \cup app \cup low
  BY DEF FormsOf
<1>2. CASE p \in none
  <2>1. PICK tag \in {251, 250, 249, 248} : p = Physical(tag, delta, <<>>, <<>>)
    BY <1>2
  <2>2. tag = 251 \/ tag \in 248..250
    BY <2>1
  <2> QED
    BY <2>1, <2>2 DEF BareForms, ChopForms
<1>3. CASE p \in app
  <2>1. PICK n \in (1..3) \cap (1..Len(f.locals)) : p = Physical(251 + n, delta, rest(n), <<>>)
    BY <1>3
  <2>2. n \in 1..3 /\ n <= Len(f.locals)
    BY <2>1, FrameParts
  <2> QED
    BY <2>1, <2>2 DEF AppendForms
<1>4. CASE p \in low
  BY <1>4 DEF BareForms, StackForms
<1> HIDE DEF none, app, low
<1> QED
  BY <1>1, <1>2, <1>3, <1>4 DEF StackForms, FullForms

(* Every one of them can be written. *)
LEMMA FormsPhysical ==
  ASSUME NEW f \in StackFrames, NEW prev, NEW delta \in U16, NEW p \in FormsOf(f, delta, prev)
  PROVE  IsPhysical(p)
<1>1. /\ f.locals \in Seq(VerificationTypes) /\ Len(f.locals) \in U16
      /\ f.stack \in Seq(VerificationTypes) /\ Len(f.stack) \in U16
  BY FrameParts
<1>2. <<>> \in Seq(VerificationTypes) /\ Len(<<>>) = 0 /\ 0 \in U16
  BY SMT DEF U16
<1>3. delta \in Nat
  BY U16Range
<1>4. Types(<<>>) /\ Types(f.locals) /\ Types(f.stack) /\ Len(<<>>) \in U16
  BY <1>1, <1>2 DEF Types
<1>5. ASSUME NEW tag, NEW locals, NEW stack, p = Physical(tag, delta, locals, stack),
             tag \in 0..255, Types(locals), Len(locals) \in U16, Types(stack), Len(stack) \in U16
      PROVE  IsPhysical(p)
  <2>1. p.tag = tag /\ p.delta = delta /\ p.locals = locals /\ p.stack = stack
    BY <1>5, PhysicalParts
  <2>2. tag \in Octets
    BY <1>5 DEF Octets
  <2> QED
    BY <1>5, <2>1, <2>2 DEF IsPhysical
<1>6. CASE BareForms(p, delta)
  <2>1. PICK tag \in 0..255 : p = Physical(tag, delta, <<>>, <<>>)
    <3>1. 251 \in 0..255 /\ (delta <= 63 => delta \in 0..255)
      BY <1>3
    <3> QED
      BY <1>6, <3>1 DEF BareForms
  <2> QED
    BY <1>4, <1>5, <2>1
<1>7. CASE StackForms(p, f, delta)
  <2>1. PICK tag \in 0..255 : p = Physical(tag, delta, <<>>, f.stack)
    <3>1. 247 \in 0..255 /\ (delta <= 63 => 64 + delta \in 0..255)
      BY <1>3
    <3> QED
      BY <1>7, <3>1 DEF StackForms
  <2> QED
    BY <1>1, <1>4, <1>5, <2>1
<1>8. CASE ChopForms(p, delta)
  <2>1. PICK tag \in 248..250 : p = Physical(tag, delta, <<>>, <<>>)
    BY <1>8 DEF ChopForms
  <2>2. tag \in 0..255
    OBVIOUS
  <2> QED
    BY <1>4, <1>5, <2>1, <2>2
<1>9. CASE AppendForms(p, f, delta)
  <2>1. PICK n \in 1..3 : n <= Len(f.locals)
          /\ p = Physical(251 + n, delta,
                            SubSeq(f.locals, Len(f.locals) - n + 1, Len(f.locals)), <<>>)
    BY <1>9 DEF AppendForms
  <2> DEFINE rest == SubSeq(f.locals, Len(f.locals) - n + 1, Len(f.locals))
  <2>2. rest \in Seq(VerificationTypes) /\ Len(rest) = n /\ 251 + n \in 0..255
    BY <1>1, <2>1
  <2> HIDE DEF rest
  <2>3. Types(rest)
    BY <2>2 DEF Types
  <2>4. Len(rest) \in U16
    BY <2>2, SMT DEF U16
  <2>5. p = Physical(251 + n, delta, rest, <<>>)
    BY <2>1 DEF rest
  <2> QED
    BY <1>4, <1>5, <2>2, <2>3, <2>4, <2>5
<1>10. CASE FullForms(p, f, delta)
  <2>1. 255 \in 0..255
    OBVIOUS
  <2> QED
    BY <1>1, <1>4, <1>5, <1>10, <2>1 DEF FullForms
<1> QED
  BY <1>6, <1>7, <1>8, <1>9, <1>10, FormsSplit

(* What is written takes a byte for the tag, two for a delta that is not   *)
(* in the tag, four for the counts of a full frame, and the types.         *)
LEMMA PhysicalLength ==
  ASSUME IndicesFit, NEW p, IsPhysical(p), NEW tag, NEW delta, NEW locals, NEW stack,
         p = Physical(tag, delta, locals, stack)
  PROVE  /\ Len(WriteTypes(locals)) \in Nat /\ Len(WriteTypes(stack)) \in Nat
         /\ Len(FrameBytes(p)) = 1 + (IF tag > 127 THEN 2 ELSE 0) + (IF tag = 255 THEN 4 ELSE 0)
                                   + Len(WriteTypes(locals)) + Len(WriteTypes(stack))
<1>1. p.tag = tag /\ p.delta = delta /\ p.locals = locals /\ p.stack = stack
  BY PhysicalParts
<1> QED
  BY <1>1, FrameLength

(* No types take no bytes. *)
LEMMA NothingWritten ==
  ASSUME IndicesFit
  PROVE  Len(WriteTypes(<<>>)) = 0
<1>1. WriteTypes(<<>>) = <<>> /\ Len(<<>>) = 0
  BY NoTypes
<1> QED
  BY <1>1

(* What each form expresses. *)
LEMMA BareExpresses ==
  ASSUME NEW f, NEW prev, NEW delta \in Nat, NEW p, BareForms(p, delta),
         Expresses(p, f, delta, prev)
  PROVE  f.locals = prev /\ f.stack = <<>>
<1>1. PICK tag : p = Physical(tag, delta, <<>>, <<>>) /\ ((delta <= 63 /\ tag = delta) \/ tag = 251)
  BY DEF BareForms
<1>2. p.tag = tag
  BY <1>1, PhysicalParts
<1>3. (p.tag <= 63 /\ p.tag \in Nat) \/ (p.tag = 251 /\ p.tag \in Nat)
  BY <1>1, <1>2
<1>4. ReadLocals(p, prev) = prev /\ ReadStack(p) = <<>>
  <2>1. CASE p.tag <= 63 /\ p.tag \in Nat
    BY <2>1, ReaderForms
  <2>2. CASE p.tag = 251 /\ p.tag \in Nat
    BY <2>2, ReaderForms
  <2> QED
    BY <1>3, <2>1, <2>2
<1> QED
  BY <1>4 DEF Expresses

(* A frame with one stack type keeps the locals. *)
LEMMA StackExpresses ==
  ASSUME NEW f \in StackFrames, NEW prev, NEW delta \in Nat, NEW p, StackForms(p, f, delta),
         Expresses(p, f, delta, prev)
  PROVE  f.locals = prev /\ Len(f.stack) = 1
<1>1. PICK tag : p = Physical(tag, delta, <<>>, f.stack) /\ (tag \in 64..127 \/ tag = 247)
  <2>1. delta <= 63 => 64 + delta \in 64..127
    OBVIOUS
  <2> QED
    BY <2>1 DEF StackForms
<1>2. p.tag = tag /\ p.stack = f.stack
  BY <1>1, PhysicalParts
<1>3. (p.tag \in 64..127 /\ p.tag \in Nat) \/ (p.tag = 247 /\ p.tag \in Nat)
  <2>0. tag \in 64..127 \/ tag = 247
    BY <1>1
  <2>1. (tag \in 64..127 /\ tag \in Nat) \/ (tag = 247 /\ tag \in Nat)
    BY <2>0
  <2> QED
    BY <1>2, <2>1
<1>4. ReadLocals(p, prev) = prev
  <2>1. CASE p.tag \in 64..127 /\ p.tag \in Nat
    BY <2>1, ReaderForms
  <2>2. CASE p.tag = 247 /\ p.tag \in Nat
    BY <2>2, ReaderForms
  <2> QED
    BY <1>3, <2>1, <2>2
<1>5. p.tag \in 64..127 \cup {247}
  BY <1>3
<1>6. Len(p.stack) = 1
  BY <1>5 DEF Expresses
<1> QED
  BY <1>2, <1>4, <1>6 DEF Expresses

(* A chop frame drops up to three locals. *)
LEMMA ChopExpresses ==
  ASSUME NEW f \in StackFrames, NEW prev \in Seq(VerificationTypes), NEW delta, NEW p,
         ChopForms(p, delta), Expresses(p, f, delta, prev)
  PROVE  IsPrefix(f.locals, prev) /\ Len(prev) - Len(f.locals) \in 1..3 /\ f.stack = <<>>
<1>1. PICK tag \in 248..250 : p = Physical(tag, delta, <<>>, <<>>)
  BY DEF ChopForms
<1>2. p.tag = tag
  BY <1>1, PhysicalParts
<1> DEFINE n == Len(prev) - (251 - tag)
<1>3. p.tag \in Nat /\ p.tag \in 248..250
  BY <1>1, <1>2
<1>4. ReadLocals(p, prev) = SubSeq(prev, 1, Len(prev) - (251 - p.tag)) /\ ReadStack(p) = <<>>
  BY <1>3, ReaderForms
<1>5. f.locals = SubSeq(prev, 1, n) /\ f.stack = <<>>
  BY <1>2, <1>4 DEF Expresses
<1>6. 251 - tag <= Len(prev)
  BY <1>2, <1>3 DEF Expresses
<1>7. n \in Nat /\ n <= Len(prev) /\ Len(prev) - n \in 1..3 /\ Len(prev) \in Nat
  BY <1>1, <1>6
<1> HIDE DEF n
<1>8. Len(f.locals) = n
  BY <1>5, <1>7
<1>9. SubSeq(f.locals, 1, Len(f.locals)) = f.locals
  BY FrameParts, WholeSequence
<1>10. Len(f.locals) <= Len(prev)
  BY <1>7, <1>8
<1>11. SubSeq(f.locals, 1, Len(f.locals)) = SubSeq(prev, 1, Len(f.locals))
  BY <1>5, <1>8, <1>9
<1>12. IsPrefix(f.locals, prev)
  BY <1>10, <1>11 DEF IsPrefix
<1> QED
  BY <1>5, <1>7, <1>8, <1>12

(* An append frame adds up to three locals. *)
LEMMA AppendExpresses ==
  ASSUME NEW f \in StackFrames, NEW prev \in Seq(VerificationTypes), NEW delta, NEW p,
         AppendForms(p, f, delta), Expresses(p, f, delta, prev)
  PROVE  /\ IsPrefix(prev, f.locals) /\ Len(f.locals) - Len(prev) \in 1..3 /\ f.stack = <<>>
         /\ p = Physical(251 + (Len(f.locals) - Len(prev)), delta,
                         SubSeq(f.locals, Len(prev) + 1, Len(f.locals)), <<>>)
<1> DEFINE locals == f.locals
<1>0. locals \in Seq(VerificationTypes) /\ Len(locals) \in Nat /\ Len(prev) \in Nat
  BY FrameParts
<1>1. PICK n \in 1..3 :
        /\ n <= Len(locals)
        /\ p = Physical(251 + n, delta, SubSeq(locals, Len(locals) - n + 1, Len(locals)), <<>>)
  BY DEF AppendForms
<1> DEFINE r == SubSeq(locals, Len(locals) - n + 1, Len(locals))
           tag == 251 + n
<1>11. p = Physical(tag, delta, r, <<>>)
  BY <1>1
<1>5. r \in Seq(VerificationTypes) /\ Len(r) = n
  BY <1>0, <1>1
<1>3. tag \in Nat /\ tag \in 252..254 /\ tag - 251 = n
  OBVIOUS
<1> HIDE DEF r, tag
<1>2. p.tag = tag /\ p.locals = r
  BY <1>11, PhysicalParts
<1>16. p.tag \in Nat /\ p.tag \in 252..254
  BY <1>2, <1>3
<1>4. ReadLocals(p, prev) = prev \o SubSeq(p.locals, 1, p.tag - 251) /\ ReadStack(p) = <<>>
  <2>1. p.tag \in Nat
    BY <1>16
  <2>2. p.tag \in 252..254
    BY <1>16
  <2>3. p.tag \in 252..254 => /\ ReadDelta(p) = p.delta
              /\ ReadLocals(p, prev) = prev \o SubSeq(p.locals, 1, p.tag - 251)
              /\ ReadStack(p) = <<>>
    BY <2>1, ReaderForms
  <2> QED
    BY <2>2, <2>3
<1>6. SubSeq(r, 1, n) = r
  BY <1>5, WholeSequence
<1>7. locals = prev \o r /\ f.stack = <<>>
  BY <1>2, <1>3, <1>4, <1>6 DEF Expresses
<1>12. r \in Seq(VerificationTypes) /\ Len(r) = n /\ locals = prev \o r
  BY <1>5, <1>7
<1> HIDE DEF r, locals
<1>8. Len(locals) = Len(prev) + n
  BY <1>12, Concatenation
<1>9. \A k \in 1..Len(prev) : locals[k] = prev[k]
  <2> TAKE k \in 1..Len(prev)
  <2>1. k \in 1..(Len(prev) + Len(r))
    BY <1>0, <1>1, <1>12
  <2> QED
    BY <1>12, <2>1, Concatenation
<1>10. IsPrefix(prev, locals)
  <2>1. Len(prev) <= Len(locals)
    BY <1>0, <1>1, <1>8
  <2>2. SubSeq(prev, 1, Len(prev)) = SubSeq(locals, 1, Len(prev))
    <3> DEFINE u == SubSeq(locals, 1, Len(prev))
    <3>1. u \in Seq(VerificationTypes) /\ Len(u) = Len(prev)
      BY <1>0, <2>1
    <3>2. \A k \in 1..Len(prev) : u[k] = prev[k]
      BY <1>0, <1>9, <2>1
    <3> HIDE DEF u
    <3>3. u = prev
      BY <3>1, <3>2, SameSequence
    <3> QED
      BY <3>3, WholeSequence DEF u
  <2> QED
    BY <2>1, <2>2 DEF IsPrefix
<1>13. n = Len(locals) - Len(prev) /\ Len(locals) - n + 1 = Len(prev) + 1
  BY <1>0, <1>1, <1>8
<1>14. p = Physical(251 + (Len(locals) - Len(prev)), delta,
                    SubSeq(locals, Len(prev) + 1, Len(locals)), <<>>)
  BY <1>11, <1>13 DEF r, tag
<1>15. Len(locals) - Len(prev) \in 1..3
  BY <1>1, <1>13
<1> QED
  BY <1>7, <1>10, <1>14, <1>15 DEF locals

(* A delta above 63 is never in the tag. *)
LEMMA LongDelta ==
  ASSUME NEW f \in StackFrames, NEW prev, NEW delta \in U16, NEW p \in FormsOf(f, delta, prev)
  PROVE  \E tag \in 0..255 : \E locals, stack :
           /\ p = Physical(tag, delta, locals, stack)
           /\ delta > 63 => tag > 127
<1>1. delta \in Nat
  BY U16Range
<1>2. CASE BareForms(p, delta)
  <2>1. CASE delta <= 63 /\ p = Physical(delta, delta, <<>>, <<>>)
    <3>1. delta \in 0..255 /\ ~ (delta > 63)
      BY <1>1, <2>1
    <3> QED
      BY <2>1, <3>1
  <2>2. CASE p = Physical(251, delta, <<>>, <<>>)
    <3>1. 251 \in 0..255 /\ 251 > 127
      OBVIOUS
    <3> QED
      BY <2>2, <3>1
  <2> QED
    BY <1>2, <2>1, <2>2 DEF BareForms
<1>3. CASE StackForms(p, f, delta)
  <2>1. CASE delta <= 63 /\ p = Physical(64 + delta, delta, <<>>, f.stack)
    <3>1. 64 + delta \in 0..255 /\ ~ (delta > 63)
      BY <1>1, <2>1
    <3> QED
      BY <2>1, <3>1
  <2>2. CASE p = Physical(247, delta, <<>>, f.stack)
    <3>1. 247 \in 0..255 /\ 247 > 127
      OBVIOUS
    <3> QED
      BY <2>2, <3>1
  <2> QED
    BY <1>3, <2>1, <2>2 DEF StackForms
<1>4. CASE ChopForms(p, delta)
  <2>1. PICK tag \in 248..250 : p = Physical(tag, delta, <<>>, <<>>)
    BY <1>4 DEF ChopForms
  <2>2. tag \in 0..255 /\ tag > 127
    OBVIOUS
  <2> QED
    BY <2>1, <2>2
<1>5. CASE AppendForms(p, f, delta)
  <2>1. PICK n \in 1..3 : n <= Len(f.locals)
          /\ p = Physical(251 + n, delta,
                            SubSeq(f.locals, Len(f.locals) - n + 1, Len(f.locals)), <<>>)
    BY <1>5 DEF AppendForms
  <2>2. 251 + n \in 0..255 /\ 251 + n > 127
    OBVIOUS
  <2> QED
    BY <2>1, <2>2
<1>6. CASE FullForms(p, f, delta)
  <2>1. 255 \in 0..255 /\ 255 > 127
    OBVIOUS
  <2> QED
    BY <1>6, <2>1 DEF FullForms
<1> QED
  BY <1>2, <1>3, <1>4, <1>5, <1>6, FormsSplit

(* It takes a byte, and three when the delta is not in the tag. *)
LEMMA AtLeast ==
  ASSUME IndicesFit, NEW f \in StackFrames, NEW prev, NEW delta \in U16,
         NEW p \in FormsOf(f, delta, prev)
  PROVE  /\ Len(FrameBytes(p)) \in Nat /\ Len(FrameBytes(p)) >= 1
         /\ delta > 63 => Len(FrameBytes(p)) >= 3
<1>0. PICK tag \in 0..255 : \E locals, stack :
        p = Physical(tag, delta, locals, stack) /\ (delta > 63 => tag > 127)
  BY LongDelta
<1>1. PICK locals, stack : p = Physical(tag, delta, locals, stack) /\ (delta > 63 => tag > 127)
  BY <1>0
<1>2. IsPhysical(p)
  BY FormsPhysical
<1> DEFINE x == Len(WriteTypes(locals))
           y == Len(WriteTypes(stack))
           z == Len(FrameBytes(p))
<1>3. /\ x \in Nat /\ y \in Nat
      /\ z = 1 + (IF tag > 127 THEN 2 ELSE 0) + (IF tag = 255 THEN 4 ELSE 0) + x + y
  BY <1>1, <1>2, PhysicalLength
<1>4. delta > 63 => tag > 127
  BY <1>1
<1>5. delta \in Nat
  BY U16Range
<1> HIDE DEF x, y, z
<1>6. z \in Nat /\ z >= 1 /\ (delta > 63 => z >= 3)
  BY <1>3, <1>4, <1>5
<1> QED
  BY <1>6 DEF z

(* How long the written form is. *)
LEMMA WrittenLength ==
  ASSUME IndicesFit, NEW f \in StackFrames, NEW prev \in Seq(VerificationTypes),
         NEW delta \in U16
  PROVE  LET Z == Len(FrameBytes(WriteFrame(f, delta, prev)))
             low == IF delta <= 63 THEN 1 ELSE 3
         IN /\ IsSame(f, prev) => Z = low
            /\ IsSameLocals(f, prev) => Z = low + Len(WriteTypes(f.stack))
            /\ IsAppend(f, prev) =>
                 Z = 3 + Len(WriteTypes(SubSeq(f.locals, Len(prev) + 1, Len(f.locals))))
            /\ IsChop(f, prev) => Z = 3
            /\ IsFull(f, prev) =>
                 Z = 7 + Len(WriteTypes(f.locals)) + Len(WriteTypes(f.stack))
<1> DEFINE P == WriteFrame(f, delta, prev)
           Z == Len(FrameBytes(P))
           low == IF delta <= 63 THEN 1 ELSE 3
           new == SubSeq(f.locals, Len(prev) + 1, Len(f.locals))
<1>1. delta \in Nat
  BY U16Range
<1>2. f.locals \in Seq(VerificationTypes) /\ f.stack \in Seq(VerificationTypes)
  BY FrameParts
<1>3. IsPhysical(P)
  BY FrameWritten
<1>4. \/ SameWritten(P, f, delta, prev) \/ SameLocalsWritten(P, f, delta, prev)
      \/ AppendWritten(P, f, delta, prev) \/ ChopWritten(P, f, delta, prev)
      \/ FullWritten(P, f, delta, prev)
  BY WrittenForms
<1>5. ~ (IsSame(f, prev) /\ IsSameLocals(f, prev)) /\ ~ (IsAppend(f, prev) /\ IsChop(f, prev))
  BY FormsApart
<1>6. /\ IsSame(f, prev) \/ IsSameLocals(f, prev) => ~ IsAppend(f, prev) /\ ~ IsChop(f, prev)
      /\ IsFull(f, prev) => /\ ~ IsSame(f, prev) /\ ~ IsSameLocals(f, prev)
                            /\ ~ IsAppend(f, prev) /\ ~ IsChop(f, prev)
  BY DEF IsSame, IsSameLocals, IsAppend, IsChop, IsFull
<1>7. Len(WriteTypes(<<>>)) = 0
  BY NothingWritten
<1> HIDE DEF P
<1>8. ASSUME NEW tag, NEW locals, NEW stack, P = Physical(tag, delta, locals, stack)
      PROVE  Z = 1 + (IF tag > 127 THEN 2 ELSE 0) + (IF tag = 255 THEN 4 ELSE 0)
                   + Len(WriteTypes(locals)) + Len(WriteTypes(stack))
  BY <1>3, <1>8, PhysicalLength
<1> HIDE DEF Z
<1>9. ASSUME IsSame(f, prev)
      PROVE  Z = low
  <2> DEFINE tag == IF delta <= 63 THEN delta ELSE 251
  <2>1. SameWritten(P, f, delta, prev)
    BY <1>4, <1>5, <1>6, <1>9
         DEF SameLocalsWritten, AppendWritten, ChopWritten, FullWritten
  <2>2. P = Physical(tag, delta, <<>>, <<>>)
    BY <2>1 DEF SameWritten
  <2> HIDE DEF tag
  <2>3. Z = 1 + (IF tag > 127 THEN 2 ELSE 0) + (IF tag = 255 THEN 4 ELSE 0)
              + Len(WriteTypes(<<>>)) + Len(WriteTypes(<<>>))
    BY <1>8, <2>2
  <2>4. Z = 1 + (IF tag > 127 THEN 2 ELSE 0) + (IF tag = 255 THEN 4 ELSE 0)
    BY <1>7, <2>3
  <2> QED
    BY <1>1, <2>4 DEF tag
<1>10. ASSUME IsSameLocals(f, prev)
       PROVE  Z = low + Len(WriteTypes(f.stack))
  <2> DEFINE tag == IF delta <= 63 THEN 64 + delta ELSE 247
             y == Len(WriteTypes(f.stack))
  <2>1. SameLocalsWritten(P, f, delta, prev)
    BY <1>4, <1>5, <1>6, <1>10 DEF SameWritten, AppendWritten, ChopWritten, FullWritten
  <2>2. P = Physical(tag, delta, <<>>, f.stack)
    BY <2>1 DEF SameLocalsWritten
  <2> HIDE DEF tag
  <2>3. Z = 1 + (IF tag > 127 THEN 2 ELSE 0) + (IF tag = 255 THEN 4 ELSE 0)
              + Len(WriteTypes(<<>>)) + Len(WriteTypes(f.stack))
    BY <1>8, <2>2
  <2>4. y \in Nat
    BY <1>2, TypesLength DEF Types
  <2> HIDE DEF y
  <2>5. Z = 1 + (IF tag > 127 THEN 2 ELSE 0) + (IF tag = 255 THEN 4 ELSE 0) + y
    BY <1>7, <2>3, <2>4 DEF y
  <2>6. Z = low + y
    BY <1>1, <2>4, <2>5 DEF tag
  <2> QED
    BY <2>6 DEF y
<1>11. ASSUME IsAppend(f, prev)
       PROVE  Z = 3 + Len(WriteTypes(new))
  <2> DEFINE n == Len(f.locals) - Len(prev)
             tag == 251 + n
             t == Len(WriteTypes(new))
  <2>1. AppendWritten(P, f, delta, prev)
    BY <1>4, <1>5, <1>6, <1>11 DEF SameWritten, SameLocalsWritten, ChopWritten, FullWritten
  <2>2. P = Physical(tag, delta, new, <<>>) /\ f.locals # prev /\ IsPrefix(prev, f.locals) /\ n <= 3
    BY <2>1 DEF AppendWritten, IsAppend
  <2>3. Len(prev) \in Nat /\ Len(f.locals) \in Nat /\ Len(prev) <= Len(f.locals)
    BY <1>2, <2>2, PrefixParts
  <2>4. n \in 0..3 /\ new \in Seq(VerificationTypes)
    BY <1>2, <2>2, <2>3
  <2>5. t \in Nat
    BY <2>4, TypesLength DEF Types
  <2> HIDE DEF n, t, new
  <2>6. tag \in 251..254
    BY <2>4
  <2> HIDE DEF tag
  <2>7. Z = 1 + (IF tag > 127 THEN 2 ELSE 0) + (IF tag = 255 THEN 4 ELSE 0)
              + Len(WriteTypes(new)) + Len(WriteTypes(<<>>))
    BY <1>8, <2>2
  <2>8. Z = 3 + t
    BY <1>7, <2>5, <2>6, <2>7 DEF t
  <2> QED
    BY <2>8 DEF t
<1>12. ASSUME IsChop(f, prev)
       PROVE  Z = 3
  <2> DEFINE n == Len(prev) - Len(f.locals)
             tag == 251 - n
  <2>1. ChopWritten(P, f, delta, prev)
    BY <1>4, <1>5, <1>6, <1>12 DEF SameWritten, SameLocalsWritten, AppendWritten, FullWritten
  <2>2. P = Physical(tag, delta, <<>>, <<>>) /\ IsPrefix(f.locals, prev) /\ n <= 3
    BY <2>1 DEF ChopWritten, IsChop
  <2>3. Len(prev) \in Nat /\ Len(f.locals) \in Nat /\ Len(f.locals) <= Len(prev)
    BY <1>2, <2>2, PrefixParts
  <2>4. n \in 0..3
    BY <2>2, <2>3
  <2> HIDE DEF n
  <2>5. tag \in 248..251
    BY <2>4
  <2> HIDE DEF tag
  <2>6. Z = 1 + (IF tag > 127 THEN 2 ELSE 0) + (IF tag = 255 THEN 4 ELSE 0)
              + Len(WriteTypes(<<>>)) + Len(WriteTypes(<<>>))
    BY <1>8, <2>2
  <2> QED
    BY <1>7, <2>5, <2>6
<1>13. ASSUME IsFull(f, prev)
       PROVE  Z = 7 + Len(WriteTypes(f.locals)) + Len(WriteTypes(f.stack))
  <2> DEFINE x == Len(WriteTypes(f.locals))
             y == Len(WriteTypes(f.stack))
             tag == 255
  <2>1. FullWritten(P, f, delta, prev)
    BY <1>4, <1>6, <1>13 DEF SameWritten, SameLocalsWritten, AppendWritten, ChopWritten
  <2>2. P = Physical(tag, delta, f.locals, f.stack)
    BY <2>1 DEF FullWritten
  <2> HIDE DEF tag
  <2>3. Z = 1 + (IF tag > 127 THEN 2 ELSE 0) + (IF tag = 255 THEN 4 ELSE 0) + x + y
    BY <1>8, <2>2
  <2>4. x \in Nat /\ y \in Nat
    BY <1>2, TypesLength DEF Types
  <2> HIDE DEF x, y
  <2>5. Z = 7 + x + y
    BY <2>3, <2>4 DEF tag
  <2> QED
    BY <2>5 DEF x, y
<1> QED
  BY <1>9, <1>10, <1>11, <1>12, <1>13 DEF P, Z

(* What WriteFrame writes is as short as any form of the frame. *)
LEMMA SmallestForm ==
  ASSUME IndicesFit, NEW f \in StackFrames, NEW prev \in Seq(VerificationTypes),
         NEW delta \in U16, NEW p \in FormsOf(f, delta, prev), Expresses(p, f, delta, prev)
  PROVE  Len(FrameBytes(WriteFrame(f, delta, prev))) <= Len(FrameBytes(p))
<1> DEFINE P == WriteFrame(f, delta, prev)
           z == Len(FrameBytes(p))
           Z == Len(FrameBytes(P))
<1>1. delta \in Nat
  BY U16Range
<1>2. f.locals \in Seq(VerificationTypes) /\ f.stack \in Seq(VerificationTypes)
  BY FrameParts
<1>3. IsPhysical(P)
  BY FrameWritten
<1>4. IsPhysical(p)
  BY FormsPhysical
<1>5. z \in Nat /\ z >= 1 /\ (delta > 63 => z >= 3)
  BY AtLeast
<1>6. \/ SameWritten(P, f, delta, prev) \/ SameLocalsWritten(P, f, delta, prev)
      \/ AppendWritten(P, f, delta, prev) \/ ChopWritten(P, f, delta, prev)
      \/ FullWritten(P, f, delta, prev)
  BY WrittenForms
<1>7. BareForms(p, delta) => IsSame(f, prev)
  BY <1>1, BareExpresses DEF IsSame
<1>8. StackForms(p, f, delta) => IsSameLocals(f, prev)
  BY <1>1, StackExpresses DEF IsSameLocals
<1>9. ChopForms(p, delta) => IsChop(f, prev)
  <2> SUFFICES ASSUME ChopForms(p, delta) PROVE IsChop(f, prev)
    OBVIOUS
  <2> DEFINE n == Len(prev) - Len(f.locals)
  <2>1. IsPrefix(f.locals, prev) /\ n \in 1..3 /\ f.stack = <<>>
    BY ChopExpresses
  <2>2. f.locals # prev
    <3> SUFFICES ASSUME f.locals = prev PROVE FALSE
      OBVIOUS
    <3>1. n = Len(prev) - Len(prev) /\ Len(prev) \in Nat
      OBVIOUS
    <3> HIDE DEF n
    <3> QED
      BY <2>1, <3>1
  <2>3. n <= 3
    <3> HIDE DEF n
    <3> QED
      BY <2>1
  <2> QED
    BY <2>1, <2>2, <2>3 DEF IsChop
<1>10. AppendForms(p, f, delta) =>
         /\ IsAppend(f, prev)
         /\ p = Physical(251 + (Len(f.locals) - Len(prev)), delta,
                         SubSeq(f.locals, Len(prev) + 1, Len(f.locals)), <<>>)
  <2> SUFFICES ASSUME AppendForms(p, f, delta)
               PROVE  /\ IsAppend(f, prev)
                      /\ p = Physical(251 + (Len(f.locals) - Len(prev)), delta,
                                      SubSeq(f.locals, Len(prev) + 1, Len(f.locals)), <<>>)
    OBVIOUS
  <2> DEFINE n == Len(f.locals) - Len(prev)
             new == SubSeq(f.locals, Len(prev) + 1, Len(f.locals))
  <2>1. /\ IsPrefix(prev, f.locals) /\ n \in 1..3 /\ f.stack = <<>>
        /\ p = Physical(251 + n, delta, new, <<>>)
    BY AppendExpresses
  <2>2. f.locals # prev
    <3> SUFFICES ASSUME f.locals = prev PROVE FALSE
      OBVIOUS
    <3>1. n = Len(prev) - Len(prev) /\ Len(prev) \in Nat
      OBVIOUS
    <3> HIDE DEF n
    <3> QED
      BY <2>1, <3>1
  <2>3. n <= 3
    <3> HIDE DEF n
    <3> QED
      BY <2>1
  <2> QED
    BY <2>1, <2>2, <2>3 DEF IsAppend
<1>11. \/ BareForms(p, delta) \/ StackForms(p, f, delta) \/ ChopForms(p, delta)
       \/ AppendForms(p, f, delta) \/ FullForms(p, f, delta)
  BY FormsSplit
<1>12. Len(WriteTypes(<<>>)) = 0
  BY NothingWritten
<1>13. Len(WriteTypes(f.locals)) \in Nat /\ Len(WriteTypes(f.stack)) \in Nat
  BY <1>2, TypesLength DEF Types
<1> DEFINE low == IF delta <= 63 THEN 1 ELSE 3
           x == Len(WriteTypes(f.locals))
           y == Len(WriteTypes(f.stack))
           new == SubSeq(f.locals, Len(prev) + 1, Len(f.locals))
           t == Len(WriteTypes(new))
<1>14. /\ IsSame(f, prev) => Z = low
       /\ IsSameLocals(f, prev) => Z = low + y
       /\ IsAppend(f, prev) => Z = 3 + t
       /\ IsChop(f, prev) => Z = 3
       /\ IsFull(f, prev) => Z = 7 + x + y
  BY WrittenLength
<1>15. IsAppend(f, prev) => t \in Nat /\ t <= x
  <2> SUFFICES ASSUME IsAppend(f, prev) PROVE t \in Nat /\ t <= x
    OBVIOUS
  <2>1. Len(prev) \in Nat /\ Len(f.locals) \in Nat /\ Len(prev) <= Len(f.locals)
    BY <1>2, PrefixParts DEF IsAppend
  <2>2. Len(prev) \in 0..Len(f.locals) /\ Types(f.locals)
    BY <1>2, <2>1 DEF Types
  <2>3. Types(new) /\ Len(WriteTypes(new)) <= Len(WriteTypes(f.locals))
    BY <2>2, SuffixLength
  <2>4. Len(WriteTypes(new)) \in Nat
    BY <2>3, TypesLength
  <2> QED
    BY <2>3, <2>4
<1> HIDE DEF P
<1>16. ASSUME NEW tag, NEW locals, NEW stack, p = Physical(tag, delta, locals, stack)
       PROVE  z = 1 + (IF tag > 127 THEN 2 ELSE 0) + (IF tag = 255 THEN 4 ELSE 0)
                    + Len(WriteTypes(locals)) + Len(WriteTypes(stack))
  BY <1>4, <1>16, PhysicalLength
<1>17. x \in Nat /\ y \in Nat
  BY <1>13
<1> HIDE DEF Z, z, x, y, t, new
<1>18. CASE BareForms(p, delta)
  <2>1. Z = low
    BY <1>7, <1>14, <1>18
  <2>2. Z <= z
    BY <1>1, <1>5, <2>1
  <2> QED
    BY <2>2 DEF P, Z, z
<1>19. CASE StackForms(p, f, delta)
  <2>1. PICK tag : p = Physical(tag, delta, <<>>, f.stack) /\ tag \in Nat /\ tag # 255
                    /\ (delta > 63 => tag > 127)
    <3>1. delta <= 63 => 64 + delta \in Nat /\ 64 + delta # 255 /\ ~ (delta > 63)
      BY <1>1
    <3>2. 247 > 127 /\ 247 # 255 /\ 247 \in Nat
      OBVIOUS
    <3> QED
      BY <1>19, <3>1, <3>2 DEF StackForms
  <2>2. z = 1 + (IF tag > 127 THEN 2 ELSE 0) + (IF tag = 255 THEN 4 ELSE 0)
              + Len(WriteTypes(<<>>)) + Len(WriteTypes(f.stack))
    BY <1>16, <2>1
  <2>7. tag # 255 /\ tag \in Nat
    BY <2>1
  <2>8. z = 1 + (IF tag > 127 THEN 2 ELSE 0) + (IF tag = 255 THEN 4 ELSE 0) + 0 + y
    BY <1>12, <2>2 DEF y
  <2>3. z = 1 + (IF tag > 127 THEN 2 ELSE 0) + y
    BY <1>17, <2>7, <2>8
  <2>4. Z = low + y
    BY <1>8, <1>14, <1>19
  <2>5. tag \in Nat /\ (delta > 63 => tag > 127)
    BY <2>1
  <2>6. Z <= z
    BY <1>1, <1>17, <2>3, <2>4, <2>5
  <2> QED
    BY <2>6 DEF P, Z, z
<1>20. CASE ChopForms(p, delta)
  <2>1. PICK tag \in 248..250 : p = Physical(tag, delta, <<>>, <<>>)
    BY <1>20 DEF ChopForms
  <2>2. z = 1 + (IF tag > 127 THEN 2 ELSE 0) + (IF tag = 255 THEN 4 ELSE 0)
              + Len(WriteTypes(<<>>)) + Len(WriteTypes(<<>>))
    BY <1>16, <2>1
  <2>3. z = 3
    BY <1>12, <2>2
  <2>4. Z = 3
    BY <1>9, <1>14, <1>20
  <2>5. Z <= z
    BY <2>3, <2>4
  <2> QED
    BY <2>5 DEF P, Z, z
<1>21. CASE AppendForms(p, f, delta)
  <2> DEFINE n == Len(f.locals) - Len(prev)
             tag == 251 + n
  <2>1. IsAppend(f, prev) /\ p = Physical(tag, delta, new, <<>>)
    BY <1>10, <1>21 DEF new
  <2>2. n \in 1..3
    BY <1>21, AppendExpresses
  <2>3. tag \in 252..254
    <3> HIDE DEF n
    <3> QED
      BY <2>2
  <2> HIDE DEF tag
  <2>4. z = 1 + (IF tag > 127 THEN 2 ELSE 0) + (IF tag = 255 THEN 4 ELSE 0)
              + Len(WriteTypes(new)) + Len(WriteTypes(<<>>))
    BY <1>16, <2>1
  <2>5. Z = 3 + t /\ t \in Nat
    BY <1>14, <1>15, <2>1
  <2>6. z = 3 + t
    BY <1>12, <2>3, <2>4, <2>5 DEF t
  <2>7. Z <= z
    BY <2>5, <2>6
  <2> QED
    BY <2>7 DEF P, Z, z
<1>22. CASE FullForms(p, f, delta)
  <2> DEFINE tag == 255
  <2>1. p = Physical(tag, delta, f.locals, f.stack)
    BY <1>22 DEF FullForms
  <2> HIDE DEF tag
  <2>2. z = 1 + (IF tag > 127 THEN 2 ELSE 0) + (IF tag = 255 THEN 4 ELSE 0) + x + y
    BY <1>16, <2>1 DEF x, y
  <2>3. z = 7 + x + y
    BY <1>17, <2>2 DEF tag
  <2>4. \/ Z = low \/ Z = low + y \/ (Z = 3 + t /\ t \in Nat /\ t <= x) \/ Z = 3 \/ Z = 7 + x + y
    BY <1>14, <1>15 DEF IsFull
  <2>5. Z <= z
    BY <1>1, <1>17, <2>3, <2>4
  <2> QED
    BY <2>5 DEF P, Z, z
<1> QED
  BY <1>11, <1>18, <1>19, <1>20, <1>21, <1>22

(* The stack map of a method, frame by frame. *)
MapBytes(frames, entry) ==
  [k \in DOMAIN frames |-> FrameBytes(WriteStackMapBody(frames, entry)[k])]

MapEntries(frames, entry) ==
  [k \in DOMAIN frames |-> FrameEntry(WriteStackMapBody(frames, entry)[k])]

(* Each of its frames can be written. *)
LEMMA BodyWritten ==
  ASSUME NEW frames \in Seq(StackFrames), Ordered(frames), NEW entry \in Seq(VerificationTypes),
         NEW k \in 1..Len(frames)
  PROVE  LET P == WriteStackMapBody(frames, entry)[k] IN IsPhysical(P) /\ WellTagged(P)
<1>1. frames[k] \in StackFrames /\ k \in DOMAIN frames
  OBVIOUS
<1>2. Delta(frames, k) \in U16 /\ PrevLocals(frames, entry, k) \in Seq(VerificationTypes)
  BY Deltas, PreviousLocals
<1>3. WriteStackMapBody(frames, entry)[k]
        = WriteFrame(frames[k], Delta(frames, k), PrevLocals(frames, entry, k))
  BY <1>1 DEF WriteStackMapBody
<1> QED
  BY <1>1, <1>2, <1>3, FrameWritten

(* A stack map is read frame by frame. *)
LEMMA MapHeld ==
  ASSUME IndicesFit, NEW b, IsBytes(b), NEW p, NEW q,
         NEW frames \in Counted(StackFrames), Ordered(frames),
         NEW entry \in Seq(VerificationTypes),
         Spans(b, p, U2(Len(frames)) \o FlattenSeq(MapBytes(frames, entry)), q)
  PROVE  StackMapFrames(b, p) = Read(MapEntries(frames, entry), q)
<1> DEFINE ss == MapBytes(frames, entry)
           ts == MapEntries(frames, entry)
           n == Len(frames)
           P(k) == WriteStackMapBody(frames, entry)[k]
<1>1. /\ frames \in Seq(StackFrames) /\ n \in Nat /\ DOMAIN frames = 1..n /\ n <= 65535
  BY DEF Counted
<1>2. n \in U16
  BY <1>1, U16Range
<1>3. \A k \in 1..n : IsPhysical(P(k)) /\ WellTagged(P(k))
  BY <1>1, BodyWritten
<1>4. ss = [k \in 1..n |-> FrameBytes(P(k))] /\ ts = [k \in 1..n |-> FrameEntry(P(k))]
  BY <1>1 DEF MapBytes, MapEntries
<1> HIDE DEF P, ss, ts
<1>5. \A k \in 1..n : IsBytes(FrameBytes(P(k)))
  BY <1>3, FrameLength
<1>6. AllBytes(ss) /\ Len(ss) = n
  BY <1>1, <1>4, <1>5 DEF AllBytes, IsBytes
<1> DEFINE T == {FrameEntry(P(k)) : k \in 1..n}
<1>7. ts \in Seq(T) /\ Len(ts) = n
  <2>1. \A k \in 1..n : ts[k] \in T
    BY <1>4
  <2>2. ts = [k \in 1..n |-> ts[k]]
    BY <1>4
  <2> HIDE DEF T
  <2> QED
    BY <1>1, <2>1, <2>2
<1> HIDE DEF T
<1>8. Gives(FrameReader(b), b, ss, ts)
  <2> SUFFICES ASSUME NEW k \in 1..n, NEW r, NEW s, Spans(b, r, ss[k], s)
               PROVE  FrameReader(b)[r] = Read(ts[k], s)
    BY <1>6 DEF Gives
  <2>1. ss[k] = FrameBytes(P(k)) /\ ts[k] = FrameEntry(P(k))
    BY <1>4
  <2>2. Spans(b, r, FrameBytes(P(k)), s)
    BY <2>1
  <2>3. FrameReader(b)[r] = Read(FrameEntry(P(k)), s)
    BY <1>3, <2>2, FrameHeld
  <2> QED
    BY <2>1, <2>3
<1>9. Spans(b, p, U2(Len(ss)) \o FlattenSeq(ss), q)
  BY <1>6 DEF ss
<1> HIDE DEF n
<1>10. CountedBy(b, p, FrameReader(b)) = Read(ts, q)
  BY <1>2, <1>6, <1>7, <1>8, <1>9, CountedHeld
<1> QED
  BY <1>10 DEF StackMapFrames, ts

(* Each type that is written is found again. *)
Resolves(pool, frames, entry) ==
  \A k \in DOMAIN frames :
    LET P == WriteStackMapBody(frames, entry)[k]
    IN \A vt \in ToSet(P.locals) \cup ToSet(P.stack) : TypeRead(pool, TypeEntry(vt)) = vt

(* Types that are found again are read back. *)
LEMMA TypesRecovered ==
  ASSUME NEW pool, NEW types, Types(types),
         \A vt \in ToSet(types) : TypeRead(pool, TypeEntry(vt)) = vt
  PROVE  TypesRead(pool, TypeEntries(types)) = types
<1>1. types = [k \in DOMAIN types |-> types[k]]
  BY DEF Types
<1>2. \A k \in DOMAIN types : TypeRead(pool, TypeEntry(types[k])) = types[k]
  BY DEF ToSet
<1>3. DOMAIN TypeEntries(types) = DOMAIN types
      /\ \A k \in DOMAIN types : TypeEntries(types)[k] = TypeEntry(types[k])
  BY DEF TypeEntries
<1>4. TypesRead(pool, TypeEntries(types))
        = [k \in DOMAIN types |-> TypeRead(pool, TypeEntries(types)[k])]
  BY <1>3 DEF TypesRead
<1> QED
  BY <1>1, <1>2, <1>3, <1>4

(* So are the frames made of them. *)
LEMMA FramesReadBack ==
  ASSUME NEW pool, NEW frames \in Seq(StackFrames), Ordered(frames),
         NEW entry \in Seq(VerificationTypes), Resolves(pool, frames, entry)
  PROVE  FramesRead(pool, MapEntries(frames, entry), entry) = frames
<1> DEFINE n == Len(frames)
           P(k) == WriteStackMapBody(frames, entry)[k]
           ts == MapEntries(frames, entry)
           ps == [k \in DOMAIN ts |-> [ts[k] EXCEPT !.locals = TypesRead(pool, @),
                                                    !.stack = TypesRead(pool, @)]]
<1>1. n \in Nat /\ DOMAIN frames = 1..n
  OBVIOUS
<1>2. ts = [k \in 1..n |-> FrameEntry(P(k))]
  BY <1>1 DEF MapEntries
<1>3. FramesRead(pool, ts, entry) = ReadStackMap(ps, entry)
  BY Zenon DEF FramesRead
<1> HIDE DEF ts, P
<1>4. DOMAIN ps = 1..n /\ Len(ps) = n
  BY <1>1, <1>2
<1>5. ASSUME NEW k \in 1..n
      PROVE  ReadAs(ps[k], P(k))
  <2>1. ts[k] = FrameEntry(P(k)) /\ k \in DOMAIN ts
    BY <1>2
  <2>2. IsPhysical(P(k))
    BY BodyWritten DEF P
  <2>3. P(k).tag \in Octets /\ Types(P(k).locals) /\ Types(P(k).stack)
    BY <2>2 DEF IsPhysical
  <2>4. TypesRead(pool, TypeEntries(P(k).locals)) = P(k).locals
    <3>1. \A vt \in ToSet(P(k).locals) : TypeRead(pool, TypeEntry(vt)) = vt
      BY <1>1 DEF Resolves, P
    <3> QED
      BY <2>3, <3>1, TypesRecovered
  <2>5. TypesRead(pool, TypeEntries(P(k).stack)) = P(k).stack
    <3>1. \A vt \in ToSet(P(k).stack) : TypeRead(pool, TypeEntry(vt)) = vt
      BY <1>1 DEF Resolves, P
    <3> QED
      BY <2>3, <3>1, TypesRecovered
  <2> DEFINE Q == P(k)
             e == ts[k]
             x == ps[k]
  <2>6. x = [e EXCEPT !.locals = TypesRead(pool, e.locals), !.stack = TypesRead(pool, e.stack)]
    BY <2>1
  <2>7. e = [tag |-> Q.tag, delta |-> IF Q.tag > 127 THEN Q.delta ELSE 0,
             locals |-> TypeEntries(Q.locals), stack |-> TypeEntries(Q.stack)]
    BY <2>1 DEF FrameEntry
  <2> HIDE DEF Q, e, x, ps
  <2>8. /\ e.tag = Q.tag /\ e.delta = (IF Q.tag > 127 THEN Q.delta ELSE 0)
        /\ e.locals = TypeEntries(Q.locals) /\ e.stack = TypeEntries(Q.stack)
    BY <2>7
  <2>9. /\ x.tag = e.tag /\ x.delta = e.delta
        /\ x.locals = TypesRead(pool, e.locals) /\ x.stack = TypesRead(pool, e.stack)
    BY <2>6, <2>7
  <2>10. x.tag = Q.tag /\ x.locals = Q.locals /\ x.stack = Q.stack
         /\ (Q.tag > 127 => x.delta = Q.delta)
    BY <2>4, <2>5, <2>8, <2>9 DEF Q
  <2> QED
    BY <2>10 DEF ReadAs, Q, x
<1> HIDE DEF ps
<1>6. ReadStackMap(ps, entry) = frames
  BY <1>4, <1>5, MapRecovered DEF P, n
<1> QED
  BY <1>3, <1>6 DEF ts

-----------------------------------------------------------------------------
(* The constant pool and the texts in the file. *)

(* A type is found again: a primitive by its tag, a class under its index. *)
LEMMA TypeRecovered ==
  ASSUME NEW pool, NEW vt \in VerificationTypes,
         IsObject(vt) => IsClass(pool, ClassIndex(vt), vt)
  PROVE  TypeRead(pool, TypeEntry(vt)) = vt
<1> DEFINE t == TypeEntry(vt)
           ofTag == {x \in PrimitiveTypes : TypeTag(x) = t.tag}
           ofClass == {s \in Texts : t.tag = 7 /\ IsClass(pool, t.index, s)}
<1>1. t.tag = TypeTag(vt) /\ (IsObject(vt) => t.index = ClassIndex(vt))
  BY DEF TypeEntry
<1>2. TypeRead(pool, t) = IF Cardinality(ofTag \cup ofClass) = 1
                          THEN CHOOSE x \in ofTag \cup ofClass : TRUE ELSE Unknown
  BY DEF TypeRead
<1>3. /\ TypeTag("Top") = 0 /\ TypeTag("Integer") = 1 /\ TypeTag("Float") = 2
      /\ TypeTag("Double") = 3 /\ TypeTag("Long") = 4
  BY DEF TypeTag
<1>4. CASE ~ IsObject(vt)
  <2>1. vt \in PrimitiveTypes
    BY <1>4 DEF IsObject
  <2>2. TypeTag(vt) # 7 /\ \A x \in PrimitiveTypes : TypeTag(x) = TypeTag(vt) => x = vt
    BY <1>3, <2>1 DEF PrimitiveTypes
  <2>3. ofTag = {vt} /\ ofClass = {}
    BY <1>1, <2>1, <2>2
  <2> QED
    BY <1>2, <2>3, FS_Singleton
<1>5. CASE IsObject(vt)
  <2>1. vt \in Texts /\ TypeTag(vt) = 7
    BY <1>5, TypeTags DEF IsObject, VerificationTypes
  <2>2. \A x \in PrimitiveTypes : TypeTag(x) # 7
    BY <1>3 DEF PrimitiveTypes
  <2>3. ofTag = {}
    BY <1>1, <2>1, <2>2
  <2>4. ofClass = {vt}
    <3>1. vt \in ofClass
      BY <1>1, <1>5, <2>1
    <3>2. ASSUME NEW s \in ofClass
          PROVE  s = vt
      <4>1. IsText(pool, pool[t.index].of[1], s) /\ IsText(pool, pool[t.index].of[1], vt)
              /\ s \in Texts
        BY <1>1, <1>5 DEF IsClass
      <4>2. Units[s] = Units[vt]
        BY <4>1 DEF IsText
      <4> QED
        BY <2>1, <4>1, <4>2, TextsAssumption
    <3> HIDE DEF ofClass
    <3> QED
      BY <3>1, <3>2
  <2> QED
    BY <1>2, <2>3, <2>4, FS_Singleton
<1> QED
  BY <1>4, <1>5

(* No more types are written than a frame has. *)
LEMMA TypesKept ==
  ASSUME NEW f \in StackFrames, NEW prev \in Seq(VerificationTypes), NEW delta
  PROVE  LET P == WriteFrame(f, delta, prev)
         IN /\ Len(P.locals) \in Nat /\ Len(P.locals) <= Len(f.locals)
            /\ Len(P.stack) \in Nat /\ Len(P.stack) <= Len(f.stack)
<1> DEFINE P == WriteFrame(f, delta, prev)
           x == Len(f.locals)
           y == Len(f.stack)
<1>1. f.locals \in Seq(VerificationTypes) /\ f.stack \in Seq(VerificationTypes)
  BY FrameParts
<1>2. x \in Nat /\ y \in Nat /\ Len(<<>>) = 0
  BY <1>1
<1>3. \/ SameWritten(P, f, delta, prev) \/ SameLocalsWritten(P, f, delta, prev)
      \/ AppendWritten(P, f, delta, prev) \/ ChopWritten(P, f, delta, prev)
      \/ FullWritten(P, f, delta, prev)
  BY WrittenForms
<1> HIDE DEF P
<1>4. CASE \E tag : P = Physical(tag, delta, <<>>, <<>>)
  <2>1. P.locals = <<>> /\ P.stack = <<>>
    BY <1>4, PhysicalParts
  <2> QED
    BY <1>2, <2>1 DEF P
<1>5. CASE \E tag : P = Physical(tag, delta, <<>>, f.stack)
  <2>1. P.locals = <<>> /\ P.stack = f.stack
    BY <1>5, PhysicalParts
  <2> QED
    BY <1>2, <2>1 DEF P
<1>6. CASE IsAppend(f, prev) /\ \E tag :
             P = Physical(tag, delta, SubSeq(f.locals, Len(prev) + 1, Len(f.locals)), <<>>)
  <2> DEFINE new == SubSeq(f.locals, Len(prev) + 1, Len(f.locals))
  <2>4. PICK tag : P = Physical(tag, delta, new, <<>>)
    BY <1>6
  <2> HIDE DEF new
  <2>5. P.locals = new /\ P.stack = <<>>
    BY <2>4, PhysicalParts
  <2>1. P.locals = SubSeq(f.locals, Len(prev) + 1, Len(f.locals)) /\ P.stack = <<>>
    BY <2>5 DEF new
  <2>2. Len(prev) \in Nat /\ Len(f.locals) \in Nat /\ Len(prev) <= Len(f.locals)
    BY <1>1, <1>6, PrefixParts DEF IsAppend
  <2>3. Len(SubSeq(f.locals, Len(prev) + 1, Len(f.locals))) = Len(f.locals) - Len(prev)
    BY <1>1, <2>2
  <2> QED
    BY <1>2, <2>1, <2>2, <2>3 DEF P
<1>7. CASE \E tag : P = Physical(tag, delta, f.locals, f.stack)
  <2>1. P.locals = f.locals /\ P.stack = f.stack
    BY <1>7, PhysicalParts
  <2> QED
    BY <1>2, <2>1 DEF P
<1> QED
  BY <1>3, <1>4, <1>5, <1>6, <1>7
     DEF SameWritten, SameLocalsWritten, AppendWritten, ChopWritten, FullWritten

(* Seven bytes a frame and three a type are enough. *)
LEMMA FrameBound ==
  ASSUME IndicesFit, NEW f \in StackFrames, NEW prev \in Seq(VerificationTypes),
         NEW delta \in U16
  PROVE  Len(FrameBytes(WriteFrame(f, delta, prev))) <= 7 + 3 * (Len(f.locals) + Len(f.stack))
<1> DEFINE P == WriteFrame(f, delta, prev)
           x == Len(P.locals)
           y == Len(P.stack)
           X == Len(f.locals)
           Y == Len(f.stack)
           u == Len(WriteTypes(P.locals))
           v == Len(WriteTypes(P.stack))
           i == IF P.tag > 127 THEN 2 ELSE 0
           j == IF P.tag = 255 THEN 4 ELSE 0
           Z == Len(FrameBytes(P))
<1>1. IsPhysical(P)
  BY FrameWritten
<1>2. x \in Nat /\ x <= X /\ y \in Nat /\ y <= Y
  BY TypesKept
<1>3. X \in Nat /\ Y \in Nat
  BY FrameParts
<1> HIDE DEF P
<1>4. Types(P.locals) /\ Types(P.stack)
  BY <1>1 DEF IsPhysical
<1>5. u \in Nat /\ u <= 3 * x
  BY <1>4, TypesLength
<1>6. v \in Nat /\ v <= 3 * y
  BY <1>4, TypesLength
<1>7. Z = 1 + i + j + u + v
  BY <1>1, FrameLength
<1>8. i \in 0..2 /\ j \in 0..4
  OBVIOUS
<1> HIDE DEF x, y, X, Y, u, v, i, j, Z
<1>9. Z <= 7 + 3 * (X + Y)
  BY <1>2, <1>3, <1>5, <1>6, <1>7, <1>8
<1> QED
  BY <1>9 DEF Z, X, Y, P

(* So many bytes are enough for a whole stack map. *)
LEMMA MapLength ==
  ASSUME IndicesFit, NEW frames \in Seq(StackFrames), Ordered(frames),
         NEW entry \in Seq(VerificationTypes)
  PROVE  /\ IsBytes(FlattenSeq(MapBytes(frames, entry)))
         /\ Len(TypesIn(frames)) \in Nat
         /\ Len(FlattenSeq(MapBytes(frames, entry))) <= 7 * Len(frames) + 3 * Len(TypesIn(frames))
<1> DEFINE n == Len(frames)
           ss == MapBytes(frames, entry)
           tt == [k \in DOMAIN frames |-> frames[k].locals \o frames[k].stack]
<1>1. n \in Nat /\ DOMAIN frames = 1..n /\ \A k \in 1..n : frames[k] \in StackFrames
  OBVIOUS
<1>2. ASSUME NEW k \in 1..n
      PROVE  /\ IsBytes(ss[k]) /\ Len(ss[k]) <= 7 + 3 * Len(tt[k])
             /\ tt[k] \in Seq(VerificationTypes) /\ Len(tt[k]) \in Nat
  <2> DEFINE f == frames[k]
             d == Delta(frames, k)
             prev == PrevLocals(frames, entry, k)
  <2>1. f \in StackFrames /\ d \in U16 /\ prev \in Seq(VerificationTypes)
    BY <1>1, Deltas, PreviousLocals
  <2>2. ss[k] = FrameBytes(WriteFrame(f, d, prev))
    BY <1>1 DEF MapBytes, WriteStackMapBody
  <2>3. f.locals \in Seq(VerificationTypes) /\ f.stack \in Seq(VerificationTypes)
    BY <2>1, FrameParts
  <2>4. tt[k] = f.locals \o f.stack
    BY <1>1
  <2> HIDE DEF f, d, prev, ss, tt
  <2>5. tt[k] \in Seq(VerificationTypes) /\ Len(tt[k]) = Len(f.locals) + Len(f.stack)
    BY <2>3, <2>4, Concatenation
  <2>6. IsPhysical(WriteFrame(f, d, prev))
    BY <2>1, FrameWritten
  <2>7. IsBytes(ss[k])
    BY <2>2, <2>6, FrameLength
  <2>8. Len(FrameBytes(WriteFrame(f, d, prev))) <= 7 + 3 * (Len(f.locals) + Len(f.stack))
    BY <2>1, FrameBound
  <2>9. Len(f.locals) \in Nat /\ Len(f.stack) \in Nat
    BY <2>3
  <2> DEFINE x == Len(ss[k])
             y == Len(tt[k])
             z == Len(f.locals) + Len(f.stack)
  <2>10. x <= 7 + 3 * z /\ y = z /\ z \in Nat
    <3>1. x <= 7 + 3 * z
      BY <2>2, <2>8
    <3>2. y = z
      BY <2>5
    <3>3. z \in Nat
      <4> DEFINE u == Len(f.locals)
                 v == Len(f.stack)
      <4>1. u \in Nat /\ v \in Nat
        BY <2>9
      <4> HIDE DEF u, v
      <4>2. u + v \in Nat
        BY <4>1
      <4> QED
        BY <4>2 DEF u, v
    <3> QED
      BY <3>1, <3>2, <3>3
  <2> HIDE DEF x, y, z
  <2>11. x <= 7 + 3 * y /\ y \in Nat
    BY <2>10
  <2> QED
    BY <2>5, <2>7, <2>11 DEF x, y
<1>3. ss = [k \in 1..n |-> ss[k]] /\ tt = [k \in 1..n |-> tt[k]]
  BY <1>1 DEF MapBytes
<1>4. TypesIn(frames) = FlattenSeq(tt)
  BY DEF TypesIn
<1> HIDE DEF ss, tt
<1>5. ss \in Seq(Seq(Octets)) /\ Len(ss) = n
  BY <1>1, <1>2, <1>3 DEF IsBytes
<1>6. tt \in Seq(Seq(VerificationTypes)) /\ Len(tt) = n
  BY <1>1, <1>2, <1>3
<1>7. FlattenSeq(ss) \in Seq(Octets) /\ \E x : Piled(x, FlattenSeq(ss), ss)
  BY <1>5, FlattenPiled
<1>8. FlattenSeq(tt) \in Seq(VerificationTypes) /\ \E y : Piled(y, FlattenSeq(tt), tt)
  BY <1>6, FlattenPiled
<1>9. PICK x : Piled(x, FlattenSeq(ss), ss)
  BY <1>7
<1>10. PICK y : Piled(y, FlattenSeq(tt), tt)
  BY <1>8
<1>11. /\ x \in [1..(n + 1) -> Nat] /\ x[1] = 0 /\ Len(FlattenSeq(ss)) = x[n + 1]
       /\ \A k \in 1..n : x[k + 1] = x[k] + Len(ss[k])
  BY <1>5, <1>9 DEF Piled
<1>12. /\ y \in [1..(n + 1) -> Nat] /\ y[1] = 0 /\ Len(FlattenSeq(tt)) = y[n + 1]
       /\ \A k \in 1..n : y[k + 1] = y[k] + Len(tt[k])
  BY <1>6, <1>10 DEF Piled
<1> HIDE DEF n
<1> DEFINE G == {k \in 0..n : x[k + 1] <= 7 * k + 3 * y[k + 1]}
<1>13. \A k \in 0..n : k \in G
  <2>1. 0 \in G
    <3>1. 0 + 1 = 1 /\ 0 \in 0..n
      BY <1>1
    <3> QED
      BY <1>11, <1>12, <3>1
  <2>2. ASSUME NEW k \in 1..n, k - 1 \in G
        PROVE  k \in G
    <3>1. k \in 0..n /\ (k - 1) + 1 = k /\ k \in Nat /\ k \in 1..(n + 1) /\ k + 1 \in 1..(n + 1)
      BY <1>1
    <3> DEFINE a == x[k]
               b == y[k]
               c == Len(ss[k])
               d == Len(tt[k])
               aa == x[k + 1]
               bb == y[k + 1]
    <3>2. a <= 7 * (k - 1) + 3 * b
      BY <2>2, <3>1
    <3>3. aa = a + c /\ bb = b + d
      BY <1>11, <1>12
    <3>4. c <= 7 + 3 * d /\ d \in Nat
      BY <1>2
    <3>5. c \in Nat
      BY <1>2 DEF IsBytes
    <3>6. a \in Nat /\ b \in Nat
      BY <1>11, <1>12, <3>1
    <3> HIDE DEF a, b, c, d, aa, bb
    <3>7. aa <= 7 * k + 3 * bb
      BY <3>1, <3>2, <3>3, <3>4, <3>5, <3>6
    <3> QED
      BY <3>1, <3>7 DEF aa, bb
  <2> HIDE DEF G
  <2> QED
    BY <1>1, <2>1, <2>2, IndexInduction
<1>14. x[n + 1] <= 7 * n + 3 * y[n + 1]
  <2>1. n \in 0..n
    BY <1>1
  <2> QED
    BY <1>13, <2>1
<1> QED
  BY <1>4, <1>7, <1>8, <1>11, <1>12, <1>14 DEF n, ss, IsBytes

(* Which of the types are classes. *)
LEMMA ObjectsFound ==
  ASSUME NEW types \in Seq(VerificationTypes)
  PROVE  /\ ObjectsOf(types) \in Seq(Texts)
         /\ \A vt \in ToSet(types) : IsObject(vt) => vt \in ToSet(ObjectsOf(types))
<1> DEFINE n == Len(types)
           ss == [k \in DOMAIN types |-> IF IsObject(types[k]) THEN <<types[k]>> ELSE <<>>]
<1>1. n \in Nat /\ DOMAIN types = 1..n /\ \A k \in 1..n : types[k] \in VerificationTypes
  OBVIOUS
<1>2. \A k \in 1..n : IsObject(types[k]) => types[k] \in Texts
  BY <1>1 DEF IsObject, VerificationTypes
<1>3. \A k \in 1..n : ss[k] \in Seq(Texts) /\ (IsObject(types[k]) => ss[k] = <<types[k]>>)
  BY <1>1, <1>2
<1>4. ss = [k \in 1..n |-> ss[k]] /\ ObjectsOf(types) = FlattenSeq(ss)
  BY <1>1 DEF ObjectsOf
<1> HIDE DEF ss
<1>5. ss \in Seq(Seq(Texts)) /\ Len(ss) = n
  BY <1>1, <1>3, <1>4
<1>6. ASSUME NEW vt \in ToSet(types), IsObject(vt)
      PROVE  vt \in ToSet(ObjectsOf(types))
  <2>1. PICK k \in 1..n : types[k] = vt
    BY <1>1 DEF ToSet
  <2>2. ss[k] = <<vt>>
    BY <1>3, <1>6, <2>1
  <2>3. vt \in ToSet(ss[k])
    BY <2>2 DEF ToSet
  <2> QED
    BY <1>4, <1>5, <2>3, FlatElement
<1> QED
  BY <1>4, <1>5, <1>6, FlattenPiled

(* Every class a frame mentions is interned ahead of writing: the          *)
(* classification of frame_object_classes is that of the writer.           *)
LEMMA ClassesCovered ==
  ASSUME NEW frames \in Seq(StackFrames), Ordered(frames), NEW entry \in Seq(VerificationTypes)
  PROVE  /\ FrameObjectClasses(frames, entry) \in Seq(Texts)
         /\ \A k \in DOMAIN frames :
              LET P == WriteStackMapBody(frames, entry)[k]
              IN \A vt \in ToSet(P.locals) \cup ToSet(P.stack) :
                   IsObject(vt) => vt \in ToSet(FrameObjectClasses(frames, entry))
<1> DEFINE n == Len(frames)
           ss == [k \in DOMAIN frames |->
                    WrittenObjects(frames[k], PrevLocals(frames, entry, k))]
           P(k) == WriteStackMapBody(frames, entry)[k]
<1>1. n \in Nat /\ DOMAIN frames = 1..n
  OBVIOUS
<1>2. ASSUME NEW k \in 1..n
      PROVE  /\ P(k).locals \o P(k).stack \in Seq(VerificationTypes)
             /\ P(k).locals \in Seq(VerificationTypes) /\ P(k).stack \in Seq(VerificationTypes)
             /\ ss[k] = ObjectsOf(P(k).locals \o P(k).stack)
  <2> DEFINE f == frames[k]
             prev == PrevLocals(frames, entry, k)
             Q == WriteFrame(f, Delta(frames, k), prev)
  <2>1. P(k) = Q
    BY <1>1 DEF WriteStackMapBody
  <2>2. Q.locals = NewLocals(f, prev) /\ Q.stack = NewStack(f, prev)
    BY DEF WriteFrame, Physical
  <2>3. ss[k] = ObjectsOf(NewLocals(f, prev) \o NewStack(f, prev))
    BY <1>1 DEF WrittenObjects
  <2>4. IsPhysical(P(k))
    BY BodyWritten
  <2>5. P(k).locals \in Seq(VerificationTypes) /\ P(k).stack \in Seq(VerificationTypes)
    BY <2>4 DEF IsPhysical, Types
  <2>6. P(k).locals \o P(k).stack \in Seq(VerificationTypes)
    BY <2>5, Concatenation
  <2> QED
    BY <2>1, <2>2, <2>3, <2>5, <2>6
<1>3. ss = [k \in 1..n |-> ss[k]] /\ FrameObjectClasses(frames, entry) = FlattenSeq(ss)
  BY <1>1 DEF FrameObjectClasses
<1> HIDE DEF ss, P
<1>4. \A k \in 1..n : ss[k] \in Seq(Texts)
  BY <1>2, ObjectsFound
<1>5. ss \in Seq(Seq(Texts)) /\ Len(ss) = n
  BY <1>1, <1>3, <1>4
<1>6. ASSUME NEW k \in DOMAIN frames, NEW vt \in ToSet(P(k).locals) \cup ToSet(P(k).stack),
             IsObject(vt)
      PROVE  vt \in ToSet(FrameObjectClasses(frames, entry))
  <2> DEFINE s == P(k).locals
             t == P(k).stack
             st == s \o t
  <2>1. k \in 1..n
    BY <1>1
  <2>2. s \in Seq(VerificationTypes) /\ t \in Seq(VerificationTypes)
        /\ st \in Seq(VerificationTypes) /\ ss[k] = ObjectsOf(st)
    BY <1>2, <2>1
  <2>3. vt \in ToSet(st)
    <3>a. /\ Len(st) = Len(s) + Len(t)
          /\ \A i \in 1..(Len(s) + Len(t)) : st[i] = IF i <= Len(s) THEN s[i] ELSE t[i - Len(s)]
      BY <2>2, Concatenation
    <3>b. Len(s) \in Nat /\ Len(t) \in Nat
      BY <2>2
    <3>0. /\ Len(s) \in Nat /\ Len(t) \in Nat /\ Len(st) = Len(s) + Len(t)
          /\ \A i \in 1..Len(st) : st[i] = IF i <= Len(s) THEN s[i] ELSE t[i - Len(s)]
      BY <3>a, <3>b, Zenon
    <3>1. DOMAIN s = 1..Len(s) /\ DOMAIN t = 1..Len(t) /\ DOMAIN st = 1..Len(st)
      BY <2>2
    <3> HIDE DEF s, t, st
    <3>2. vt \in ToSet(s) \/ vt \in ToSet(t)
      BY DEF s, t
    <3>3. CASE vt \in ToSet(s)
      <4>1. PICK i \in 1..Len(s) : s[i] = vt
        BY <3>1, <3>3 DEF ToSet
      <4>2. i \in 1..Len(st) /\ st[i] = vt
        BY <3>0, <4>1
      <4> QED
        BY <3>1, <4>2 DEF ToSet
    <3>4. CASE vt \in ToSet(t)
      <4>1. PICK i \in 1..Len(t) : t[i] = vt
        BY <3>1, <3>4 DEF ToSet
      <4> DEFINE j == Len(s) + i
      <4>2. j \in 1..Len(st) /\ ~ (j <= Len(s)) /\ j - Len(s) = i
        BY <3>0, <4>1
      <4> HIDE DEF j
      <4>3. st[j] = vt
        BY <3>0, <4>1, <4>2
      <4> QED
        BY <3>1, <4>2, <4>3 DEF ToSet
    <3> QED
      BY <3>2, <3>3, <3>4
  <2>4. vt \in ToSet(ss[k])
    BY <1>6, <2>2, <2>3, ObjectsFound
  <2> QED
    BY <1>3, <1>5, <2>1, <2>4, FlatElement
<1>7. FlattenSeq(ss) \in Seq(Texts)
  BY <1>5, FlattenPiled
<1> QED
  BY <1>3, <1>6, <1>7 DEF P

(* What a reader makes of an entry. *)
TextOf(e) == texts[e.of[1] + 1]

Content(e) ==
  CASE e.kind = "Utf8" -> Encoded(TextOf(e))
    [] e.kind \in {"Integer", "Float"} -> <<e.of[1]>>
    [] e.kind \in WideKinds -> <<0, e.of[1]>>
    [] OTHER -> [k \in DOMAIN Children(e) |-> EntryIndex(Children(e)[k])]

Stored(e) == [tag |-> Tag(e.kind), of |-> Content(e)]

EntryBytes(e) == U1(Tag(e.kind)) \o Payload(e)

(* An entry that can be written: its text has bytes, its number fits, the  *)
(* indices of its parts are found.                                         *)
PartCount(kind) == IF kind \in {"Class", "String"} THEN 1 ELSE 2

Writable(e) ==
  /\ e.kind \in Kinds
  /\ e.kind = "Utf8" => TextOf(e) \in Texts
  /\ e.kind \in NumberKinds => e.of[1] \in U31
  /\ e.kind \in TextKinds \ {"Utf8"} =>
           Children(e) \in Seq(Entry) /\ Len(Children(e)) = PartCount(e.kind)
  /\ \A c : EntryIndex(c) \in U16

(* The bytes of texts. *)
LEMMA EncodedBytes ==
  ASSUME NEW s \in Texts
  PROVE  IsBytes(Encoded(s)) /\ Len(Encoded(s)) \in U16
<1> DEFINE u == Units[s]
           ss == [k \in DOMAIN u |-> EncodeUnit(u[k])]
           n == Len(u)
<1>1. u \in Seq(U16) /\ Len(Encoded(s)) <= 65535
  BY TextsAssumption, SMT
<1>2. n \in Nat /\ DOMAIN u = 1..n /\ \A k \in 1..n : u[k] \in U16
  BY <1>1
<1>3. \A v \in U16 : IsBytes(EncodeUnit(v))
  <2> TAKE v \in U16
  <2>1. v \in Nat /\ v <= 65535
    BY SMT DEF U16
  <2> DEFINE plain == v \in 1..127
             two == v = 0 \/ v \in 128..2047
             short == <<v>>
             mid == <<192 + v \div 64, 128 + (v % 64)>>
             long == <<224 + v \div 4096, 128 + ((v \div 64) % 64), 128 + (v % 64)>>
  <2>a. EncodeUnit(v) = CASE plain -> short [] two -> mid [] OTHER -> long
    BY Zenon DEF EncodeUnit
  <2>b. /\ plain /\ ~ two => EncodeUnit(v) = short
        /\ ~ plain /\ two => EncodeUnit(v) = mid
    <3> HIDE DEF plain, two, short, mid, long
    <3> QED
      BY <2>a
  <2>2. CASE v \in 1..127
    <3>0. ~ (v = 0 \/ v \in 128..2047)
      BY <2>1, <2>2, SMT
    <3>1. EncodeUnit(v) = <<v>>
      BY <2>2, <2>b, <3>0
    <3>2. v \in Octets
      BY <2>2, OctetRange
    <3> QED
      BY <3>1, <3>2 DEF IsBytes
  <2>3. CASE v = 0 \/ v \in 128..2047
    <3> DEFINE x == 192 + v \div 64
               y == 128 + (v % 64)
    <3>0. ~ (v \in 1..127)
      BY <2>1, <2>3, SMT
    <3>1. EncodeUnit(v) = <<x, y>>
      BY <2>3, <2>b, <3>0
    <3>2. x \in Int /\ y \in Int /\ 0 <= x /\ x <= 255 /\ 0 <= y /\ y <= 255
      BY <2>1, <2>3, SMT
    <3> HIDE DEF x, y
    <3>3. x \in Octets /\ y \in Octets
      BY <3>2, OctetRange
    <3> QED
      BY <3>1, <3>3 DEF IsBytes
  <2>4. CASE ~ (v \in 1..127) /\ ~ (v = 0 \/ v \in 128..2047)
    <3> DEFINE x == 224 + v \div 4096
               y == 128 + ((v \div 64) % 64)
               z == 128 + (v % 64)
    <3>1. EncodeUnit(v) = <<x, y, z>>
      BY <2>4, SMT DEF EncodeUnit
    <3>2. x \in Int /\ 0 <= x /\ x <= 255
      BY <2>1, SMT
    <3>3. y \in Int /\ z \in Int /\ 0 <= y /\ y <= 255 /\ 0 <= z /\ z <= 255
      BY <2>1, SMT
    <3> HIDE DEF x, y, z
    <3>4. x \in Octets /\ y \in Octets /\ z \in Octets
      BY <3>2, <3>3, OctetRange
    <3> QED
      BY <3>1, <3>4 DEF IsBytes
  <2> QED
    BY <2>2, <2>3, <2>4
<1>4. \A k \in 1..n : ss[k] \in Seq(Octets)
  BY <1>2, <1>3 DEF IsBytes
<1>5. ss = [k \in 1..n |-> ss[k]]
  BY <1>2
<1>6. Encoded(s) = FlattenSeq(ss)
  BY DEF Encoded
<1> HIDE DEF ss
<1>7. ss \in Seq(Seq(Octets))
  BY <1>2, <1>4, <1>5
<1>8. IsBytes(Encoded(s))
  BY <1>6, <1>7, FlatBytes DEF AllBytes
<1>9. Len(Encoded(s)) \in Nat
  BY <1>8 DEF IsBytes
<1> QED
  BY <1>1, <1>8, <1>9, U16Range, SMT

(* The tag decides how the rest is read. *)
LEMMA ConstantRead ==
  ASSUME NEW b, NEW p, NEW q, NEW r, NEW tag, NEW of,
         q # 0, r # 0, Byte(b, p) = Read(tag, q), ConstantPayload(b, tag, q) = Read(of, r)
  PROVE  Constant(b, p) = Read([tag |-> tag, of |-> of], r)
<1>1. Byte(b, p).at = q /\ Byte(b, p).tree = tag
  BY ReadParts
<1>2. ConstantPayload(b, tag, q).at = r /\ ConstantPayload(b, tag, q).tree = of
  BY ReadParts
<1>3. Constant(b, p) = Then(ConstantPayload(b, tag, q),
                            LAMBDA x, s : Read([tag |-> tag, of |-> x], s))
  BY <1>1, Zenon DEF Constant, Then
<1> QED
  BY <1>2, <1>3, Zenon DEF Then

(* The tags of constants. *)
LEMMA TagRange == \A kind \in Kinds : Tag(kind) \in 1..12
BY DEF Tag, Kinds, TextKinds, WideKinds

(* The references of an entry to its parts. *)
Parts(e) == [k \in DOMAIN Children(e) |-> EntryIndex(Children(e)[k])]

PartBytes(e) == [k \in DOMAIN Children(e) |-> U2(EntryIndex(Children(e)[k]))]

(* What is written of an entry and what is read, kind by kind. *)
LEMMA PayloadForms ==
  ASSUME NEW e, e.kind \in Kinds
  PROVE  /\ e.kind = "Utf8" => /\ Payload(e) = ModifiedUtf8(TextOf(e)) /\ Tag(e.kind) = 1
                               /\ Content(e) = Encoded(TextOf(e))
         /\ e.kind \in {"Integer", "Float"} =>
              /\ Payload(e) = U4(e.of[1]) /\ Content(e) = <<e.of[1]>> /\ Tag(e.kind) \in {3, 4}
         /\ e.kind \in WideKinds =>
              /\ Payload(e) = U8(e.of[1]) /\ Content(e) = <<0, e.of[1]>> /\ Tag(e.kind) \in {5, 6}
         /\ e.kind \in TextKinds \ {"Utf8"} =>
              /\ Payload(e) = FlattenSeq(PartBytes(e)) /\ Content(e) = Parts(e)
              /\ e.kind \in {"Class", "String"} => Tag(e.kind) \in {7, 8}
              /\ e.kind \notin {"Class", "String"} => Tag(e.kind) \in {9, 10, 12}
<1> DEFINE kind == e.kind
           text == kind = "Utf8"
           narrow == kind \in {"Integer", "Float"}
           wide == kind \in WideKinds
           a == ModifiedUtf8(TextOf(e))
           b == U4(e.of[1])
           c == U8(e.of[1])
           d == FlattenSeq(PartBytes(e))
           A == Encoded(TextOf(e))
           B == <<e.of[1]>>
           C == <<0, e.of[1]>>
           D == Parts(e)
<1>1. Payload(e) = CASE text -> a [] narrow -> b [] wide -> c [] OTHER -> d
  BY Zenon DEF Payload, TextOf, PartBytes
<1>2. Content(e) = CASE text -> A [] narrow -> B [] wide -> C [] OTHER -> D
  BY Zenon DEF Content, Parts
<1>3. /\ text => ~ narrow /\ ~ wide
      /\ narrow => ~ text /\ ~ wide
      /\ wide => ~ text /\ ~ narrow
      /\ kind \in TextKinds \ {"Utf8"} => ~ text /\ ~ narrow /\ ~ wide
  BY DEF WideKinds, TextKinds
<1>4. /\ text => Tag(kind) = 1
      /\ narrow => Tag(kind) \in {3, 4}
      /\ wide => Tag(kind) \in {5, 6}
      /\ kind \in {"Class", "String"} => Tag(kind) \in {7, 8}
      /\ kind \in TextKinds \ {"Utf8"}
           /\ kind \notin {"Class", "String"} => Tag(kind) \in {9, 10, 12}
  BY DEF Tag, WideKinds, TextKinds
<1>5. /\ text => Payload(e) = a /\ Content(e) = A
      /\ narrow => Payload(e) = b /\ Content(e) = B
      /\ wide => Payload(e) = c /\ Content(e) = C
      /\ kind \in TextKinds \ {"Utf8"} => Payload(e) = d /\ Content(e) = D
  <2> DEFINE other == kind \in TextKinds \ {"Utf8"}
  <2>1. other => ~ text /\ ~ narrow /\ ~ wide
    BY <1>3
  <2> HIDE DEF text, narrow, wide, a, b, c, d, A, B, C, D, other
  <2>2. /\ text => Payload(e) = a /\ Content(e) = A
        /\ narrow => Payload(e) = b /\ Content(e) = B
        /\ wide => Payload(e) = c /\ Content(e) = C
        /\ other => Payload(e) = d /\ Content(e) = D
    BY <1>1, <1>2, <1>3, <2>1
  <2> QED
    BY <2>2 DEF other
<1> QED
  BY <1>4, <1>5

(* A number of four bytes. *)
LEMMA WordReads ==
  ASSUME NEW b, IsBytes(b), NEW p, NEW q, NEW v \in U31, Spans(b, p, U4(v), q)
  PROVE  /\ WordReader(b)[p] = Read(v, q) /\ Word(b, p) = Read(v, q) /\ IsBytes(U4(v))
         /\ p \in Nat \ {0} /\ q \in Nat \ {0} /\ q \in Positions(b)
<1>1. Word(b, p) = Read(v, q)
  BY WordHeld
<1>0. v \in Int
  BY U31Range
<1>2. IsBytes(U4(v))
  BY <1>0, FourBytes
<1>3. p \in Nat \ {0} /\ q \in Nat \ {0} /\ p \in Positions(b) /\ q \in Positions(b)
  BY <1>2, SpanEnds
<1> QED
  BY <1>1, <1>2, <1>3 DEF WordReader

(* The references are read back. *)
LEMMA PartsWritten ==
  ASSUME NEW e, Writable(e), e.kind \in TextKinds \ {"Utf8"}
  PROVE  /\ AllBytes(PartBytes(e)) /\ Len(PartBytes(e)) = Len(Children(e))
         /\ Parts(e) \in Seq(U16) /\ Len(Parts(e)) = Len(Children(e))
         /\ \A b : IsBytes(b) => Gives(ShortReader(b), b, PartBytes(e), Parts(e))
<1> DEFINE n == Len(Children(e))
           ss == PartBytes(e)
           ts == Parts(e)
<1>1. Children(e) \in Seq(Entry) /\ \A c : EntryIndex(c) \in U16
  BY DEF Writable
<1>2. n \in Nat /\ DOMAIN Children(e) = 1..n
  BY <1>1
<1>3. /\ ss = [k \in 1..n |-> U2(EntryIndex(Children(e)[k]))]
      /\ ts = [k \in 1..n |-> EntryIndex(Children(e)[k])]
  BY <1>2 DEF PartBytes, Parts
<1> HIDE DEF ss, ts
<1>4. \A k \in 1..n : ss[k] = U2(ts[k]) /\ ts[k] \in U16
  BY <1>1, <1>3
<1>5. \A k \in 1..n : IsBytes(ss[k])
  BY <1>4, ShortBytes
<1>6. AllBytes(ss) /\ Len(ss) = n
  BY <1>2, <1>3, <1>5 DEF AllBytes, IsBytes
<1>7. ts \in Seq(U16) /\ Len(ts) = n
  BY <1>2, <1>3, <1>4
<1>8. ASSUME NEW b, IsBytes(b)
      PROVE  Gives(ShortReader(b), b, ss, ts)
  <2> SUFFICES ASSUME NEW k \in 1..n, NEW r, NEW s, Spans(b, r, ss[k], s)
               PROVE  ShortReader(b)[r] = Read(ts[k], s)
    BY <1>6 DEF Gives
  <2>1. Spans(b, r, U2(ts[k]), s) /\ ts[k] \in U16
    BY <1>4
  <2> QED
    BY <1>8, <2>1, ShortReads
<1> QED
  BY <1>6, <1>7, <1>8 DEF ss, ts

(* A number of eight bytes has nothing in its first four. *)
LEMMA WideBytes ==
  ASSUME NEW v \in U31
  PROVE  U8(v) = U4(0) \o U4(v) /\ IsBytes(U4(0)) /\ IsBytes(U4(v)) /\ 0 \in U31
<1>1. v \in Int /\ ~ (v < 0) /\ 0 \in U31
  BY U31Range, SMT
<1>2. U8(v) = U4(0) \o U4(v)
  BY <1>1, Zenon DEF U8
<1>3. 0 \in Int
  OBVIOUS
<1>4. IsBytes(U4(0)) /\ IsBytes(U4(v))
  BY <1>1, <1>3, FourBytes
<1> QED
  BY <1>1, <1>2, <1>4

(* The bytes behind a tag. *)
LEMMA PayloadBytes ==
  ASSUME NEW e, Writable(e)
  PROVE  IsBytes(Payload(e))
<1> DEFINE v == e.of[1]
<1>0. e.kind \in Kinds
  BY DEF Writable
<1>1. CASE e.kind = "Utf8"
  <2> DEFINE s == Encoded(TextOf(e))
             n == Len(s)
  <2>1. IsBytes(s) /\ n \in U16
    BY <1>1, EncodedBytes DEF Writable
  <2>2. Payload(e) = U2(n) \o s
    BY <1>0, <1>1, PayloadForms DEF ModifiedUtf8
  <2> HIDE DEF s
  <2>3. IsBytes(U2(n))
    BY <2>1, ShortBytes
  <2>4. IsBytes(U2(n) \o s)
    BY <2>1, <2>3, BytesBoth
  <2> QED
    BY <2>2, <2>4
<1>2. CASE e.kind \in NumberKinds
  <2>1. v \in U31
    BY <1>2 DEF Writable
  <2>2. v \in Int
    BY <2>1, U31Range
  <2>3. Payload(e) = U4(v) \/ Payload(e) = U8(v)
    BY <1>0, <1>2, PayloadForms DEF NumberKinds, WideKinds
  <2> HIDE DEF v
  <2>4. IsBytes(U4(v))
    BY <2>2, FourBytes
  <2>5. U8(v) = U4(0) \o U4(v) /\ IsBytes(U4(0))
    BY <2>1, WideBytes
  <2>6. IsBytes(U4(0) \o U4(v))
    BY <2>4, <2>5, BytesBoth
  <2> QED
    BY <2>3, <2>4, <2>5, <2>6
<1>3. CASE e.kind \in TextKinds \ {"Utf8"}
  BY <1>0, <1>3, PayloadForms, PartsWritten, FlatBytes
<1> QED
  BY <1>0, <1>1, <1>2, <1>3 DEF Kinds, TextKinds, NumberKinds, WideKinds

(* They are read back, as the tag says. *)
LEMMA PayloadHeld ==
  ASSUME NEW e, Writable(e), NEW b, IsBytes(b), NEW q, NEW r, Spans(b, q, Payload(e), r)
  PROVE  /\ r # 0
         /\ ConstantPayload(b, Tag(e.kind), q) = Read(Content(e), r)
<1> DEFINE v == e.of[1]
           tag == Tag(e.kind)
<1>0. e.kind \in Kinds
  BY DEF Writable
<1>a. /\ tag = Utf8Tag =>
            ConstantPayload(b, tag, q) = Then(Short(b, q), LAMBDA n, s : Bytes(b, s, n))
      /\ tag \in {3, 4} => ConstantPayload(b, tag, q) = Words(b, q, 1)
      /\ tag \in {5, 6} => ConstantPayload(b, tag, q) = Words(b, q, 2)
      /\ tag \in {7, 8} => ConstantPayload(b, tag, q) = Shorts(b, q, 1)
      /\ tag \in {9, 10, 12} => ConstantPayload(b, tag, q) = Shorts(b, q, 2)
  <2> HIDE DEF tag
  <2> DEFINE x == Then(Short(b, q), LAMBDA n, s : Bytes(b, s, n))
             y == Words(b, q, 1)
             z == Words(b, q, 2)
             u == Shorts(b, q, 1)
             w == Shorts(b, q, 2)
             m == Then(Byte(b, q), LAMBDA kind, s : Shorts(b, s, 1))
  <2>1. ConstantPayload(b, tag, q) =
          CASE tag = Utf8Tag -> x [] tag \in NumberTags -> y [] tag \in WideTags -> z
            [] tag \in OneIndexTags -> u [] tag \in TwoIndexTags -> w
            [] tag = MethodHandleTag -> m [] OTHER -> Failed
    BY Zenon DEF ConstantPayload
  <2> HIDE DEF x, y, z, u, w, m
  <2>2. /\ tag = Utf8Tag => ConstantPayload(b, tag, q) = x
        /\ tag \in {3, 4} => ConstantPayload(b, tag, q) = y
        /\ tag \in {5, 6} => ConstantPayload(b, tag, q) = z
        /\ tag \in {7, 8} => ConstantPayload(b, tag, q) = u
        /\ tag \in {9, 10, 12} => ConstantPayload(b, tag, q) = w
    BY <2>1, SMT DEF Utf8Tag, NumberTags, WideTags, OneIndexTags, TwoIndexTags, MethodHandleTag
  <2> QED
    BY <2>2 DEF x, y, z, u, w
<1>1. CASE e.kind = "Utf8"
  <2> DEFINE s == Encoded(TextOf(e))
             n == Len(s)
  <2>1. IsBytes(s) /\ n \in U16
    BY <1>1, EncodedBytes DEF Writable
  <2>2. Payload(e) = U2(n) \o s /\ Content(e) = s /\ tag = Utf8Tag
    BY <1>0, <1>1, PayloadForms DEF ModifiedUtf8, Utf8Tag
  <2> HIDE DEF s, tag
  <2>3. IsBytes(U2(n))
    BY <2>1, ShortBytes
  <2>4. PICK t : Spans(b, q, U2(n), t) /\ Spans(b, t, s, r)
    BY <2>1, <2>2, <2>3, SpansBoth
  <2>5. Short(b, q) = Read(n, t) /\ t # 0
    BY <2>1, <2>4, ShortReads
  <2>6. Bytes(b, t, n) = Read(s, r) /\ r # 0
    BY <2>1, <2>4, BytesHeld, SpanEnds
  <2>7. Then(Short(b, q), LAMBDA k, p : Bytes(b, p, k)) = Read(s, r)
    <3>1. Short(b, q).at = t /\ Short(b, q).tree = n
      BY <2>5, ReadParts
    <3> HIDE DEF n
    <3>2. Then(Short(b, q), LAMBDA k, p : Bytes(b, p, k)) = Bytes(b, t, n)
      BY <2>5, <3>1, Zenon DEF Then
    <3> QED
      BY <2>6, <3>2 DEF n
  <2> QED
    BY <1>a, <2>2, <2>6, <2>7 DEF tag
<1>2. CASE e.kind \in {"Integer", "Float"}
  <2>1. Payload(e) = U4(v) /\ Content(e) = <<v>> /\ tag \in {3, 4}
    BY <1>0, <1>2, PayloadForms
  <2>2. v \in U31
    BY <1>2 DEF Writable, NumberKinds
  <2> HIDE DEF v, tag
  <2>3. WordReader(b)[q] = Read(v, r) /\ IsBytes(U4(v)) /\ q \in Nat \ {0} /\ r \in Nat \ {0}
    BY <2>1, <2>2, WordReads
  <2>4. Words(b, q, 1) = Read(<<v>>, r)
    BY <2>3, OneItem DEF Words
  <2> QED
    BY <1>a, <2>1, <2>3, <2>4 DEF tag
<1>3. CASE e.kind \in WideKinds
  <2>1. Payload(e) = U8(v) /\ Content(e) = <<0, v>> /\ tag \in {5, 6}
    BY <1>0, <1>3, PayloadForms
  <2>2. v \in U31
    BY <1>3 DEF Writable, NumberKinds, WideKinds
  <2> HIDE DEF v, tag
  <2>3. U8(v) = U4(0) \o U4(v) /\ IsBytes(U4(0)) /\ IsBytes(U4(v)) /\ 0 \in U31
    BY <2>2, WideBytes
  <2>4. PICK t : Spans(b, q, U4(0), t) /\ Spans(b, t, U4(v), r)
    BY <2>1, <2>3, SpansBoth
  <2>5. WordReader(b)[q] = Read(0, t) /\ q \in Nat \ {0} /\ t \in Nat \ {0}
    BY <2>3, <2>4, WordReads
  <2>6. WordReader(b)[t] = Read(v, r) /\ r \in Nat \ {0}
    BY <2>2, <2>4, WordReads
  <2>7. Words(b, q, 2) = Read(<<0, v>>, r)
    BY <2>5, <2>6, TwoItems DEF Words
  <2> QED
    BY <1>a, <2>1, <2>3, <2>6, <2>7 DEF tag
<1>4. CASE e.kind \in TextKinds \ {"Utf8"}
  <2> DEFINE ss == PartBytes(e)
             n == Len(Children(e))
  <2>1. Payload(e) = FlattenSeq(ss) /\ Content(e) = Parts(e)
    BY <1>0, <1>4, PayloadForms
  <2>2. /\ AllBytes(ss) /\ Len(ss) = n /\ Parts(e) \in Seq(U16) /\ Len(Parts(e)) = n
        /\ Gives(ShortReader(b), b, ss, Parts(e))
    BY <1>4, PartsWritten
  <2>3. ConstantPayload(b, tag, q) = Shorts(b, q, n)
    <3>1. n = PartCount(e.kind)
      BY <1>4 DEF Writable
    <3>2. CASE e.kind \in {"Class", "String"}
      <4>1. tag \in {7, 8} /\ n = 1
        BY <1>0, <1>4, <3>1, <3>2, PayloadForms DEF PartCount
      <4> QED
        BY <1>a, <4>1
    <3>3. CASE e.kind \notin {"Class", "String"}
      <4>1. tag \in {9, 10, 12}
        BY <1>0, <1>4, <3>3, PayloadForms
      <4>2. n = 2
        BY <3>1, <3>3 DEF PartCount
      <4> QED
        BY <1>a, <4>1, <4>2
    <3> QED
      BY <3>2, <3>3
  <2> HIDE DEF ss, n, tag
  <2>4. Spans(b, q, FlattenSeq(ss), r)
    BY <2>1
  <2>5. Items(Len(ss), ShortReader(b), q) = Read(Parts(e), r)
    BY <2>2, <2>4, ItemsHeld
  <2>6. IsBytes(FlattenSeq(ss))
    BY <2>2, FlatBytes
  <2>7. r # 0
    BY <2>4, <2>6, SpanEnds
  <2> QED
    BY <2>1, <2>2, <2>3, <2>5, <2>6, <2>7 DEF Shorts, tag
<1>5. Kinds = {"Utf8"} \cup {"Integer", "Float"} \cup WideKinds \cup (TextKinds \ {"Utf8"})
  BY DEF Kinds, TextKinds
<1> QED
  BY <1>0, <1>1, <1>2, <1>3, <1>4, <1>5

(* The constant that is read is the entry that was written. *)
LEMMA ConstantHeld ==
  ASSUME NEW e, Writable(e), NEW b, IsBytes(b), NEW p, NEW q, Spans(b, p, EntryBytes(e), q)
  PROVE  Constant(b, p) = Read(Stored(e), q) /\ q # 0
<1> DEFINE tag == Tag(e.kind)
<1>1. tag \in 1..12
  BY TagRange DEF Writable
<1>2. tag \in Octets /\ IsBytes(U1(tag)) /\ IsBytes(Payload(e))
  BY <1>1, OctetRange, OneByte, PayloadBytes
<1> HIDE DEF tag
<1>3. Spans(b, p, U1(tag) \o Payload(e), q)
  BY DEF EntryBytes, tag
<1>4. PICK r : Spans(b, p, U1(tag), r) /\ Spans(b, r, Payload(e), q)
  BY <1>2, <1>3, SpansBoth
<1>5. Byte(b, p) = Read(tag, r) /\ r # 0
  BY <1>2, <1>4, ByteHeld, SpanEnds
<1>6. ConstantPayload(b, tag, r) = Read(Content(e), q) /\ q # 0
  BY <1>4, PayloadHeld DEF tag
<1> QED
  BY <1>5, <1>6, ConstantRead DEF Stored, tag

(* The index an entry has, and the one behind the last. *)
Begins(k) == IF k <= Len(entries) THEN index[entries[k]] ELSE nextIndex

(* Entries begin where the one before ends. *)
LEMMA BeginsApart ==
  ASSUME Numbered, ~ overflowed
  PROVE  /\ Len(entries) \in Nat /\ DOMAIN entries = 1..Len(entries)
         /\ Begins(1) = 1
         /\ \A k \in 1..(Len(entries) + 1) : Begins(k) \in Nat
         /\ \A k \in 1..Len(entries) : Begins(k + 1) = Begins(k) + Width(entries[k])
         /\ \A k \in 1..(Len(entries) + 1), j \in 1..Len(entries) :
              j < k => Begins(j) + Width(entries[j]) <= Begins(k)
<1> DEFINE n == Len(entries)
<1>1. n \in Nat /\ DOMAIN entries = 1..n /\ entries \in Seq(Entry) /\ nextIndex \in Nat
  BY SpaceAssumption DEF Numbered
<1>0. n \in Nat
  BY <1>1
<1>2. \A k \in 1..n : index[entries[k]] \in Nat /\ Width(entries[k]) \in {1, 2}
  <2>1. \A k \in 1..n : entries[k] \in DOMAIN index
    BY <1>1 DEF Numbered, ToSet
  <2>2. \A e \in DOMAIN index : index[e] \in Nat
    BY SpaceAssumption DEF Numbered
  <2> QED
    BY <2>1, <2>2, WidthType
<1>3. \A k \in 1..n : Begins(k) = index[entries[k]]
  BY <1>1 DEF Begins
<1>4. Begins(n + 1) = nextIndex
  BY <1>1 DEF Begins
<1>5. Begins(1) = 1
  <2>1. CASE n = 0
    BY <1>1, <1>4, <2>1 DEF Numbered, Spread
  <2>2. CASE n # 0
    <3>1. entries # <<>> /\ 1 \in 1..n
      BY <1>1, <2>2
    <3> QED
      BY <1>3, <3>1 DEF Numbered, CountedIndex
  <2> QED
    BY <2>1, <2>2
<1>6. ASSUME NEW k \in 1..n
      PROVE  Begins(k + 1) = Begins(k) + Width(entries[k])
  <2>1. IF k = n THEN nextIndex = index[entries[k]] + Width(entries[k])
        ELSE index[entries[k + 1]] = index[entries[k]] + Width(entries[k])
    BY <1>1 DEF Numbered, CountedIndex
  <2>2. CASE k = n
    BY <1>3, <1>4, <2>1, <2>2
  <2>3. CASE k # n
    <3>1. k + 1 \in 1..n
      <4> HIDE DEF n
      <4> QED
        BY <1>0, <2>3
    <3> QED
      BY <1>3, <2>1, <2>3, <3>1
  <2> QED
    BY <2>2, <2>3
<1>7. ASSUME NEW k \in 1..(n + 1), NEW j \in 1..n, j < k
      PROVE  Begins(j) + Width(entries[j]) <= Begins(k)
  <2>1. CASE k = n + 1
    <3>1. index[entries[j]] + Width(entries[j]) <= nextIndex
      BY <1>1 DEF Numbered, Spread
    <3> QED
      BY <1>3, <1>4, <2>1, <3>1
  <2>2. CASE k # n + 1
    <3>1. k \in 1..n
      BY <1>1, <2>2
    <3>2. index[entries[j]] + Width(entries[j]) <= index[entries[k]]
      BY <1>1, <1>7, <3>1 DEF Numbered, Spread
    <3> QED
      BY <1>3, <3>1, <3>2
  <2> QED
    BY <2>1, <2>2
<1>8. \A k \in 1..(n + 1) : Begins(k) \in Nat
  <2>1. \A k \in 1..(n + 1) : k \in 1..n \/ k = n + 1
    BY <1>1
  <2> QED
    BY <1>1, <1>2, <1>3, <1>4, <2>1
<1> QED
  BY <1>1, <1>5, <1>6, <1>7, <1>8

(* The reader's recursion exists. *)
NextRead(b, r, i) == IF r.at = 0 THEN Failed ELSE NextConstant(b, r.tree, i, r.at)

IsBelow(h, b, p, m) ==
  h = [i \in 1..m |-> IF i = 1 THEN Read(<<>>, p) ELSE NextRead(b, h[i - 1], i - 1)]

(* There are such steps. *)
LEMMA BelowExists ==
  ASSUME NEW b, NEW p, NEW n \in Nat
  PROVE  \E h : IsBelow(h, b, p, n)
<1> DEFINE Found(m) == \E h : IsBelow(h, b, p, m)
           G == {m \in 0..n : Found(m)}
<1>1. 0 \in G
  <2>1. IsBelow([i \in 1..0 |-> Failed], b, p, 0)
    BY DEF IsBelow
  <2> QED
    BY <2>1
<1>2. ASSUME NEW m \in 1..n, m - 1 \in G
      PROVE  m \in G
  <2>1. PICK f : IsBelow(f, b, p, m - 1)
    BY <1>2
  <2> DEFINE last == IF m = 1 THEN Read(<<>>, p) ELSE NextRead(b, f[m - 1], m - 1)
             g == [i \in 1..m |-> IF i < m THEN f[i] ELSE last]
             go == [i \in 1..m |-> IF i = 1 THEN Read(<<>>, p) ELSE NextRead(b, g[i - 1], i - 1)]
  <2>2. \A i \in 1..(m - 1) : f[i] = IF i = 1 THEN Read(<<>>, p) ELSE NextRead(b, f[i - 1], i - 1)
    BY <2>1 DEF IsBelow
  <2>3. ASSUME NEW i \in 1..m
        PROVE  g[i] = IF i = 1 THEN Read(<<>>, p) ELSE NextRead(b, g[i - 1], i - 1)
    <3>1. i # 1 => i - 1 \in 1..m /\ i - 1 < m
      OBVIOUS
    <3>2. i # 1 => g[i - 1] = f[i - 1]
      BY <3>1
    <3>3. CASE i < m
      <4>1. i \in 1..(m - 1) /\ g[i] = f[i]
        BY <3>3
      <4> HIDE DEF g, last
      <4> QED
        BY <2>2, <3>2, <4>1
    <3>4. CASE ~ (i < m)
      <4>1. i = m /\ g[i] = last
        BY <3>4
      <4> HIDE DEF g
      <4> QED
        BY <3>2, <4>1
    <3> QED
      BY <3>3, <3>4
  <2>4. g = [i \in 1..m |-> g[i]]
    OBVIOUS
  <2> HIDE DEF g
  <2>5. g = go
    BY <2>3, <2>4
  <2>6. IsBelow(g, b, p, m)
    BY <2>5 DEF IsBelow
  <2> QED
    BY <2>6
<1> HIDE DEF G
<1>3. \A m \in 0..n : m \in G
  BY <1>1, <1>2, IndexInduction
<1> QED
  BY <1>3 DEF G

(* The first k entries, as the reader holds them. *)
PoolTo(pool, k) ==
  /\ DOMAIN pool = {Begins(j) : j \in 1..k}
  /\ \A j \in 1..k : pool[Begins(j)] = Stored(entries[j])

(* The reader knows the wide kinds by their tags. *)
LEMMA WideTag == \A kind \in Kinds : Tag(kind) \in WideTags <=> kind \in WideKinds
BY DEF Tag, WideTags, Kinds, TextKinds, WideKinds

Listed(k, l) == k \in 1..Len(entries) /\ l = k - 1

Kinded == \A j \in 1..Len(entries) : entries[j].kind \in Kinds

(* One more entry is read. *)
LEMMA EntryAdded ==
  ASSUME Numbered, ~ overflowed, Kinded, NEW k, NEW l, Listed(k, l),
         NEW pool, PoolTo(pool, l), NEW b, NEW a, NEW c, c # 0,
         Constant(b, a) = Read(Stored(entries[k]), c)
  PROVE  \E new : PoolTo(new, k) /\ NextConstant(b, pool, Begins(k), a) = Read(new, c)
<1> DEFINE n == Len(entries)
           i == Begins(k)
           x == Stored(entries[k])
           new == [j \in DOMAIN pool \cup {i} |-> IF j = i THEN x ELSE pool[j]]
<1> k \in 1..n /\ l = k - 1
  BY DEF Listed
<1>0. n \in Nat /\ k \in 1..(n + 1) /\ i \in Nat
  <2>1. n \in Nat
    BY BeginsApart
  <2>2. k \in 1..(n + 1)
    BY <2>1
  <2> QED
    BY <2>1, <2>2, BeginsApart
<1>1. \A j \in 1..(k - 1) : /\ j \in 1..n /\ Begins(j) + Width(entries[j]) <= i
                            /\ Begins(j) \in Nat
  <2> SUFFICES ASSUME NEW j \in 1..(k - 1)
               PROVE  j \in 1..n /\ Begins(j) + Width(entries[j]) <= i /\ Begins(j) \in Nat
    OBVIOUS
  <2>1. j \in 1..n /\ j \in 1..(n + 1) /\ j < k
    BY <1>0
  <2> QED
    BY <1>0, <2>1, BeginsApart
<1>2. ~ Phantom(pool, i)
  <2> SUFFICES ASSUME i - 1 \in DOMAIN pool, pool[i - 1].tag \in WideTags
               PROVE  FALSE
    BY DEF Phantom
  <2>1. PICK j \in 1..(k - 1) : Begins(j) = i - 1
    BY DEF PoolTo
  <2>2. pool[i - 1] = Stored(entries[j])
    BY <2>1 DEF PoolTo
  <2>3. Tag(entries[j].kind) \in WideTags
    BY <2>2 DEF Stored
  <2>4. Width(entries[j]) = 2
    BY <1>1, <2>3, WideTag DEF Width, Kinded
  <2> HIDE DEF i
  <2> QED
    BY <1>0, <1>1, <2>1, <2>4
<1>3. NextConstant(b, pool, i, a) = Read(new, c)
  <2>1. Constant(b, a).at = c /\ Constant(b, a).tree = x
    BY ReadParts
  <2> HIDE DEF x, i
  <2>2. NextConstant(b, pool, i, a)
          = Then(Constant(b, a), LAMBDA y, q :
              Read([j \in DOMAIN pool \cup {i} |-> IF j = i THEN y ELSE pool[j]], q))
    BY <1>2, Zenon DEF NextConstant
  <2>3. NextConstant(b, pool, i, a)
          = IF Constant(b, a).at = 0 THEN Failed
            ELSE Read([j \in DOMAIN pool \cup {i} |->
                          IF j = i THEN Constant(b, a).tree ELSE pool[j]],
                      Constant(b, a).at)
    BY <2>2, Zenon DEF Then
  <2> QED
    BY <2>1, <2>3
<1>4. PoolTo(new, k)
  <2>0. \A j \in 1..k : j = k \/ j \in 1..(k - 1)
    BY <1>0
  <2>1. DOMAIN new = {Begins(j) : j \in 1..k}
    <3>1. DOMAIN new = {Begins(j) : j \in 1..(k - 1)} \cup {Begins(k)}
      BY DEF PoolTo
    <3>2. k \in 1..k /\ \A j \in 1..(k - 1) : j \in 1..k
      BY <1>0
    <3> QED
      BY <2>0, <3>1, <3>2
  <2>2. new[Begins(k)] = Stored(entries[k])
    OBVIOUS
  <2>3. ASSUME NEW j \in 1..(k - 1)
        PROVE  new[Begins(j)] = Stored(entries[j])
    <3>1. Begins(j) # i
      <4>1. Begins(j) + Width(entries[j]) <= i /\ Begins(j) \in Nat
        BY <1>1
      <4>2. Width(entries[j]) \in {1, 2}
        BY WidthType
      <4> HIDE DEF i
      <4> QED
        BY <1>0, <4>1, <4>2
    <3>2. Begins(j) \in DOMAIN pool /\ pool[Begins(j)] = Stored(entries[j])
      BY DEF PoolTo
    <3> HIDE DEF i
    <3> QED
      BY <3>1, <3>2
  <2> HIDE DEF new
  <2>4. \A j \in 1..k : new[Begins(j)] = Stored(entries[j])
    BY <2>0, <2>2, <2>3
  <2> QED
    BY <2>1, <2>4 DEF PoolTo
<1> HIDE DEF new
<1> QED
  BY <1>3, <1>4

(* Nothing is read for the second index of a wide entry. *)
LEMMA PhantomSkipped ==
  ASSUME Numbered, ~ overflowed, NEW k \in 1..Len(entries), NEW pool, PoolTo(pool, k),
         entries[k].kind \in WideKinds, NEW b, NEW a
  PROVE  NextConstant(b, pool, Begins(k) + 1, a) = Read(pool, a)
<1> DEFINE i == Begins(k)
<1>1. i \in Nat /\ k \in 1..k
  <2>1. Len(entries) \in Nat
    BY BeginsApart
  <2>2. k \in 1..(Len(entries) + 1) /\ k \in 1..k
    BY <2>1
  <2> QED
    BY <2>2, BeginsApart
<1>2. i \in DOMAIN pool /\ pool[i] = Stored(entries[k])
  BY <1>1 DEF PoolTo
<1>3. Tag(entries[k].kind) \in WideTags
  BY WideTag DEF Kinds
<1>4. pool[i].tag \in WideTags
  BY <1>2, <1>3 DEF Stored
<1>5. (i + 1) - 1 = i
  BY <1>1
<1> HIDE DEF i
<1>6. Phantom(pool, i + 1)
  BY <1>2, <1>4, <1>5 DEF Phantom
<1>7. NextConstant(b, pool, i + 1, a) = Read(pool, a)
  BY <1>6, Zenon DEF NextConstant
<1> QED
  BY <1>7 DEF i

PoolBytes == [k \in DOMAIN entries |-> EntryBytes(entries[k])]

PoolWritable ==
  Numbered /\ ~ overflowed /\ \A e \in DOMAIN index : Writable(e)

(* Each of its entries is bytes. *)
LEMMA EntriesWritten ==
  ASSUME PoolWritable
  PROVE  /\ AllBytes(PoolBytes) /\ Len(PoolBytes) = Len(entries)
         /\ \A k \in 1..Len(entries) : /\ PoolBytes[k] = EntryBytes(entries[k])
                                       /\ Writable(entries[k]) /\ entries[k].kind \in Kinds
<1>1. Numbered /\ ~ overflowed /\ \A e \in DOMAIN index : Writable(e)
  BY DEF PoolWritable
<1>2. Len(entries) \in Nat /\ DOMAIN entries = 1..Len(entries)
  BY <1>1, BeginsApart
<1> DEFINE n == Len(entries)
           ss == PoolBytes
<1>3. \A k \in 1..n : Writable(entries[k]) /\ entries[k].kind \in Kinds
  <2>1. \A k \in 1..n : entries[k] \in DOMAIN index
    BY <1>1, <1>2 DEF Numbered, ToSet
  <2> QED
    BY <1>1, <2>1 DEF Writable
<1>4. ss = [k \in 1..n |-> EntryBytes(entries[k])]
  BY <1>2 DEF PoolBytes
<1>5. \A k \in 1..n : IsBytes(EntryBytes(entries[k]))
  <2> TAKE k \in 1..n
  <2> DEFINE s == U1(Tag(entries[k].kind))
             t == Payload(entries[k])
  <2>1. Tag(entries[k].kind) \in Nat
    BY <1>3, TagRange
  <2>2. IsBytes(s) /\ IsBytes(t)
    BY <1>3, <2>1, OneByte, PayloadBytes
  <2> HIDE DEF s, t
  <2>3. IsBytes(s \o t)
    BY <2>2, BytesBoth
  <2> QED
    BY <2>3 DEF EntryBytes, s, t
<1> HIDE DEF ss
<1>6. AllBytes(ss) /\ Len(ss) = n
  BY <1>2, <1>4, <1>5 DEF AllBytes, IsBytes
<1> QED
  BY <1>3, <1>4, <1>6 DEF ss

(* The reader numbers the entries as the pool did.                         *)
LEMMA PoolHeld ==
  ASSUME PoolWritable, NEW b, IsBytes(b), NEW p, NEW q,
         Spans(b, p, FlattenSeq(PoolBytes), q)
  PROVE  \E pool : PoolTo(pool, Len(entries)) /\ Constants(b, p, nextIndex) = Read(pool, q)
<1> DEFINE n == Len(entries)
           h == CHOOSE f : IsBelow(f, b, p, nextIndex)
<1>0. Numbered /\ ~ overflowed
  BY DEF PoolWritable
<1>1. n \in Nat /\ nextIndex \in Nat /\ DOMAIN entries = 1..n
  BY <1>0, BeginsApart, SpaceAssumption DEF Numbered
<1>2. /\ Begins(1) = 1
      /\ \A k \in 1..(n + 1) : Begins(k) \in Nat
      /\ \A k \in 1..n : Begins(k + 1) = Begins(k) + Width(entries[k])
      /\ \A k \in 1..(n + 1), j \in 1..n : j < k => Begins(j) + Width(entries[j]) <= Begins(k)
  BY <1>0, BeginsApart
<1>3. AllBytes(PoolBytes) /\ Len(PoolBytes) = n
      /\ \A k \in 1..n : PoolBytes[k] = EntryBytes(entries[k]) /\ Writable(entries[k])
                         /\ entries[k].kind \in Kinds
  BY EntriesWritten
<1>4. PICK at \in [1..(n + 1) -> Nat \ {0}] :
        /\ at[1] = p /\ at[n + 1] = q
        /\ \A k \in 1..n : Spans(b, at[k], PoolBytes[k], at[k + 1])
  BY <1>3, SpansEach
<1>5. Begins(n + 1) = nextIndex
  BY <1>1 DEF Begins
<1>6. \A k \in 1..n : Begins(k + 1) <= nextIndex
  <2> SUFFICES ASSUME NEW k \in 1..n
               PROVE  Begins(k + 1) <= nextIndex
    OBVIOUS
  <2>1. CASE k = n
    BY <1>1, <1>5, <2>1
  <2>2. CASE k # n
    <3>1. k + 1 \in 1..n /\ k + 1 < n + 1 /\ n + 1 \in 1..(n + 1) /\ k + 1 \in 1..(n + 1)
      <4>1. n \in Nat
        BY <1>1
      <4> HIDE DEF n
      <4> QED
        BY <2>2, <4>1
    <3>2. Begins(k + 1) + Width(entries[k + 1]) <= nextIndex
      BY <1>2, <1>5, <3>1
    <3>3. Width(entries[k + 1]) \in {1, 2} /\ Begins(k + 1) \in Nat
      BY <1>2, <3>1, WidthType
    <3> QED
      BY <1>1, <3>2, <3>3
  <2> QED
    BY <2>1, <2>2
<1>7. nextIndex >= 1
  BY <1>0 DEF Numbered, Spread
<1>8. Constants(b, p, nextIndex) = IF nextIndex = 0 THEN Read(<<>>, p) ELSE h[nextIndex]
  BY Zenon DEF Constants, IsBelow, NextRead, Then
<1>9. IsBelow(h, b, p, nextIndex)
  <2>1. \E f : IsBelow(f, b, p, nextIndex)
    BY <1>1, BelowExists
  <2> QED
    BY <2>1
<1> HIDE DEF h, n
<1>10. ASSUME NEW i \in 1..nextIndex
       PROVE  h[i] = IF i = 1 THEN Read(<<>>, p) ELSE NextRead(b, h[i - 1], i - 1)
  BY <1>9 DEF IsBelow
<1> DEFINE Read1(k) == \E pool : PoolTo(pool, k) /\ h[Begins(k + 1)] = Read(pool, at[k + 1])
           G == {k \in 0..n : Read1(k)}
<1>11. 0 \in G
  <2>1. PoolTo(<<>>, 0)
    BY DEF PoolTo
  <2>2. h[1] = Read(<<>>, p)
    BY <1>1, <1>7, <1>10
  <2>3. h[Begins(0 + 1)] = Read(<<>>, at[0 + 1])
    BY <1>2, <1>4, <2>2
  <2> QED
    BY <1>1, <2>1, <2>3
<1>12. ASSUME NEW k \in 1..n, k - 1 \in G
       PROVE  k \in G
  <2> DEFINE i == Begins(k)
             e == entries[k]
             a == at[k]
             c == at[k + 1]
  <2>1. k - 1 + 1 = k /\ k \in 1..(n + 1) /\ k + 1 \in 1..(n + 1)
    BY <1>1
  <2>2. PICK pool : PoolTo(pool, k - 1) /\ h[i] = Read(pool, a)
    BY <1>12, <2>1
  <2>3. i \in Nat /\ a \in Nat \ {0} /\ c \in Nat \ {0}
    BY <1>2, <1>4, <2>1
  <2>4. Begins(k + 1) = i + Width(e) /\ i + Width(e) <= nextIndex
    BY <1>2, <1>6
  <2>5. i >= 1
    <3>1. CASE k = 1
      BY <1>2, <3>1
    <3>2. CASE k # 1
      <4>1. 1 < k /\ 1 \in 1..n
        BY <1>1, <3>2
      <4>2. Begins(1) + Width(entries[1]) <= i
        BY <1>2, <2>1, <4>1
      <4>3. Width(entries[1]) \in {1, 2}
        BY WidthType
      <4> QED
        BY <1>2, <2>3, <4>2, <4>3
    <3> QED
      BY <3>1, <3>2
  <2>6. Constant(b, a) = Read(Stored(e), c)
    <3>1. Spans(b, a, EntryBytes(e), c) /\ Writable(e)
      BY <1>3, <1>4
    <3> QED
      BY <3>1, ConstantHeld
  <2>7. PICK new : PoolTo(new, k) /\ NextConstant(b, pool, i, a) = Read(new, c)
    <3>1. Kinded
      BY <1>3 DEF n, Kinded
    <3>2. Listed(k, k - 1)
      BY DEF n, Listed
    <3>3. c # 0 /\ PoolTo(pool, k - 1) /\ Constant(b, a) = Read(Stored(entries[k]), c)
      BY <2>2, <2>3, <2>6
    <3> DEFINE l == k - 1
    <3>4. Listed(k, l) /\ PoolTo(pool, l)
      BY <3>2, <3>3
    <3> HIDE DEF e, a, c, i, l
    <3>5. \A j : Listed(j, l) /\ Constant(b, a) = Read(Stored(entries[j]), c) =>
                 \E new : PoolTo(new, j) /\ NextConstant(b, pool, Begins(j), a) = Read(new, c)
      BY <1>0, <3>1, <3>3, <3>4, EntryAdded
    <3>6. \E new : PoolTo(new, k) /\ NextConstant(b, pool, Begins(k), a) = Read(new, c)
      BY <3>3, <3>4, <3>5, Zenon
    <3> QED
      BY <3>6 DEF i
  <2> HIDE DEF i, e, a, c
  <2>8. h[i + 1] = Read(new, c)
    <3>1. i + 1 \in 1..nextIndex /\ i + 1 # 1 /\ (i + 1) - 1 = i
      <4>1. Width(e) \in {1, 2}
        BY WidthType
      <4> QED
        BY <1>1, <2>3, <2>4, <2>5, <4>1
    <3>2. h[i + 1] = NextRead(b, h[i], i)
      BY <1>10, <3>1
    <3>3. NextRead(b, Read(pool, a), i) = NextConstant(b, pool, i, a)
      BY <2>3, ReadParts DEF NextRead
    <3> QED
      BY <2>2, <2>7, <3>2, <3>3
  <2>9. CASE Width(e) = 1
    <3>1. Begins(k + 1) = i + 1
      BY <2>4, <2>9
    <3> QED
      BY <2>7, <2>8, <3>1, <1>1 DEF c
  <2>10. CASE Width(e) # 1
    <3>1. e.kind \in WideKinds /\ Width(e) = 2
      BY <2>10 DEF Width
    <3>2. NextConstant(b, new, i + 1, c) = Read(new, c)
      <4>1. k \in 1..Len(entries)
        BY DEF n
      <4> QED
        BY <1>0, <2>7, <3>1, <4>1, PhantomSkipped DEF e, i
    <3>3. i + 2 \in 1..nextIndex /\ i + 2 # 1 /\ (i + 2) - 1 = i + 1
      BY <1>1, <2>3, <2>4, <3>1
    <3>4. h[i + 2] = NextRead(b, h[i + 1], i + 1)
      BY <1>10, <3>3
    <3>5. NextRead(b, Read(new, c), i + 1) = NextConstant(b, new, i + 1, c)
      BY <2>3, ReadParts DEF NextRead
    <3>6. Begins(k + 1) = i + 2
      BY <2>4, <3>1
    <3> QED
      BY <2>7, <2>8, <3>2, <3>4, <3>5, <3>6, <1>1 DEF c
  <2> QED
    BY <2>9, <2>10
<1> HIDE DEF G
<1>13. \A k \in 0..n : k \in G
  BY <1>1, <1>11, <1>12, IndexInduction
<1>14. PICK pool : PoolTo(pool, n) /\ h[Begins(n + 1)] = Read(pool, at[n + 1])
  BY <1>1, <1>13 DEF G
<1>15. Constants(b, p, nextIndex) = Read(pool, q)
  <2>1. h[nextIndex] = Read(pool, q)
    BY <1>4, <1>5, <1>14 DEF n
  <2>2. nextIndex # 0
    BY <1>1, <1>7
  <2> QED
    BY <1>8, <2>1, <2>2
<1> QED
  BY <1>14, <1>15 DEF n

(* The bytes of a unit. *)
UnitBytes(v, s) ==
  /\ s \in Seq(1..239) /\ IsBytes(s)
  /\ \/ Len(s) = 1 /\ s[1] = v /\ v \in 1..127
     \/ Len(s) = 2 /\ s[1] \in 192..223 /\ (s[1] % 32) * 64 + (s[2] % 64) = v
     \/ /\ Len(s) = 3 /\ s[1] \in 224..239
        /\ (s[1] % 16) * 4096 + (s[2] % 64) * 64 + (s[3] % 64) = v

(* EncodeUnit makes them. *)
LEMMA UnitEncoded == ASSUME NEW v \in U16 PROVE UnitBytes(v, EncodeUnit(v))
<1> DEFINE plain == v \in 1..127
           two == v = 0 \/ v \in 128..2047
           short == <<v>>
           mid == <<192 + v \div 64, 128 + (v % 64)>>
           long == <<224 + v \div 4096, 128 + ((v \div 64) % 64), 128 + (v % 64)>>
           x == v \div 64
           y == v % 64
<1>0. v \in Int /\ 0 <= v /\ v <= 65535
  BY U16Range
<1>1. EncodeUnit(v) = CASE plain -> short [] two -> mid [] OTHER -> long
  BY Zenon DEF EncodeUnit
<1>2. /\ plain /\ ~ two => EncodeUnit(v) = short
      /\ ~ plain /\ two => EncodeUnit(v) = mid
      /\ ~ plain /\ ~ two => EncodeUnit(v) = long
  <2> HIDE DEF plain, two, short, mid, long
  <2> QED
    BY <1>1
<1>3. x \in Int /\ y \in 0..63 /\ v = 64 * x + y
  BY <1>0, SixBits
<1>4. CASE plain
  <2>1. ~ two
    BY <1>0, <1>4, SMT
  <2>2. EncodeUnit(v) = <<v>>
    BY <1>2, <1>4, <2>1
  <2>3. v \in 1..239 /\ v \in Octets
    BY <1>4, OctetRange, SMT
  <2> QED
    BY <1>4, <2>2, <2>3 DEF UnitBytes, IsBytes
<1>5. CASE two
  <2>1. ~ plain
    BY <1>0, <1>5, SMT
  <2> HIDE DEF x, y
  <2>2. x \in 0..31
    BY <1>0, <1>3, <1>5, SMT
  <2> DEFINE a == 192 + x
             c == 128 + y
  <2>3. EncodeUnit(v) = <<a, c>>
    BY <1>2, <1>5, <2>1 DEF x, y
  <2>4. a \in 192..223 /\ a \in 1..239 /\ c \in 1..239 /\ a \in Octets /\ c \in Octets
    BY <1>3, <2>2, OctetRange, SMT
  <2>5. a % 32 = x /\ c % 64 = y
    BY <1>3, <2>2, LowBits
  <2>6. (a % 32) * 64 + (c % 64) = v
    <3> HIDE DEF a, c
    <3> QED
      BY <1>3, <2>2, <2>5
  <2> DEFINE s == <<a, c>>
  <2> HIDE DEF a, c
  <2>7. s \in Seq(1..239) /\ IsBytes(s) /\ Len(s) = 2 /\ s[1] = a /\ s[2] = c
    BY <2>4 DEF IsBytes
  <2> HIDE DEF s
  <2>8. UnitBytes(v, s)
    BY <2>4, <2>6, <2>7 DEF UnitBytes
  <2> QED
    BY <2>3, <2>8 DEF s
<1>6. CASE ~ plain /\ ~ two
  <2> DEFINE w == v \div 4096
             h == (v \div 64) \div 64
             l == x % 64
  <2>0. v \in Nat
    BY <1>0
  <2>1. w = h
    BY <2>0, TwelveBits
  <2>2. l \in 0..63 /\ h \in Int /\ x = 64 * h + l
    <3> HIDE DEF x
    <3>1. x \div 64 \in Int /\ l \in 0..63 /\ x = 64 * (x \div 64) + l
      BY <1>3, SixBits
    <3> QED
      BY <3>1 DEF x
  <2> HIDE DEF x, y
  <2> DEFINE a == 224 + w
             c == 128 + l
             d == 128 + y
  <2>3. EncodeUnit(v) = <<a, c, d>>
    BY <1>2, <1>6 DEF x, y
  <2> HIDE DEF w, h, l
  <2>4. h \in 0..15
    BY <1>0, <1>3, <2>2, SMT
  <2>5. a \in 224..239 /\ a \in 1..239 /\ c \in 1..239 /\ d \in 1..239
        /\ a \in Octets /\ c \in Octets /\ d \in Octets
    BY <1>3, <2>1, <2>2, <2>4, OctetRange, SMT
  <2>6. a % 16 = h /\ c % 64 = l /\ d % 64 = y
    BY <1>3, <2>1, <2>2, <2>4, LowBits
  <2>7. (a % 16) * 4096 + (c % 64) * 64 + (d % 64) = v
    <3> HIDE DEF a, c, d
    <3> QED
      BY <1>3, <2>2, <2>4, <2>6, SMT
  <2> DEFINE s == <<a, c, d>>
  <2> HIDE DEF a, c, d
  <2>8. s \in Seq(1..239) /\ IsBytes(s) /\ Len(s) = 3 /\ s[1] = a /\ s[2] = c /\ s[3] = d
    BY <2>5 DEF IsBytes
  <2> HIDE DEF s
  <2>9. UnitBytes(v, s)
    <3>1. (s[1] % 16) * 4096 + (s[2] % 64) * 64 + (s[3] % 64) = v
      BY <2>7, <2>8, SMT
    <3> QED
      BY <2>5, <2>8, <3>1, SMT DEF UnitBytes
  <2> QED
    BY <2>3, <2>9 DEF s
<1> QED
  BY <1>4, <1>5, <1>6

(* A unit is read back. *)
LEMMA UnitHeld ==
  ASSUME NEW b, IsBytes(b), NEW p, NEW q, NEW v \in U16, Spans(b, p, EncodeUnit(v), q)
  PROVE  UnitAt(b, p) = Read(v, q) /\ p \in Nat /\ q \in Nat /\ q > p /\ p <= Len(b)
<1> DEFINE s == EncodeUnit(v)
           plain == b[p] < 128
           two == b[p] \in 192..223
           x == Read(b[p], p + 1)
           y == Read((b[p] % 32) * 64 + (b[p + 1] % 64), p + 2)
           z == Read((b[p] % 16) * 4096 + (b[p + 1] % 64) * 64 + (b[p + 2] % 64), p + 3)
<1>1. UnitAt(b, p) = CASE plain -> x [] two -> y [] OTHER -> z
  BY Zenon DEF UnitAt
<1>2. UnitBytes(v, s) /\ IsBytes(s)
  BY UnitEncoded DEF UnitBytes
<1>3. p \in Nat /\ q = p + Len(s) /\ q <= Len(b) + 1 /\ Len(b) \in Nat
      /\ \A k \in 1..Len(s) : b[p + k - 1] = s[k]
  <2>1. q \in Positions(b) /\ p \in Nat /\ q = p + Len(s)
    BY <1>2, SpansAt
  <2>2. Len(b) \in Nat
    BY DEF IsBytes
  <2> QED
    BY <2>1, <2>2 DEF Positions, Spans, Holds
<1> HIDE DEF s
<1>4. CASE Len(s) = 1 /\ s[1] = v /\ v \in 1..127
  <2>1. b[p] = v
    <3>1. p + 1 - 1 = p /\ 1 \in 1..Len(s)
      BY <1>3, <1>4
    <3> QED
      BY <1>3, <1>4, <3>1
  <2>2. plain /\ ~ two /\ q = p + 1 /\ x = Read(v, q)
    BY <1>3, <1>4, <2>1, SMT
  <2> HIDE DEF plain, two, x, y, z
  <2>3. UnitAt(b, p) = x
    BY <1>1, <2>2
  <2> QED
    BY <1>3, <1>4, <2>2, <2>3
<1>5. CASE Len(s) = 2 /\ s[1] \in 192..223 /\ (s[1] % 32) * 64 + (s[2] % 64) = v
  <2>1. b[p] = s[1] /\ b[p + 1] = s[2]
    <3>1. p + 1 - 1 = p /\ p + 2 - 1 = p + 1 /\ 1 \in 1..Len(s) /\ 2 \in 1..Len(s)
      BY <1>3, <1>5
    <3> QED
      BY <1>3, <3>1
  <2>2. ~ plain /\ two
    BY <1>5, <2>1, SMT
  <2>3. q = p + 2 /\ y = Read(v, q)
    BY <1>3, <1>5, <2>1
  <2> HIDE DEF plain, two, x, y, z
  <2>4. UnitAt(b, p) = y
    BY <1>1, <2>2
  <2> QED
    BY <1>3, <1>5, <2>3, <2>4
<1>6. CASE /\ Len(s) = 3 /\ s[1] \in 224..239
           /\ (s[1] % 16) * 4096 + (s[2] % 64) * 64 + (s[3] % 64) = v
  <2>1. b[p] = s[1] /\ b[p + 1] = s[2] /\ b[p + 2] = s[3]
    <3>1. /\ p + 1 - 1 = p /\ p + 2 - 1 = p + 1 /\ p + 3 - 1 = p + 2
          /\ 1 \in 1..Len(s) /\ 2 \in 1..Len(s) /\ 3 \in 1..Len(s)
      BY <1>3, <1>6
    <3> QED
      BY <1>3, <3>1
  <2>2. ~ plain /\ ~ two
    BY <1>6, <2>1, SMT
  <2>3. q = p + 3 /\ z = Read(v, q)
    BY <1>3, <1>6, <2>1, SMT
  <2> HIDE DEF plain, two, x, y, z
  <2>4. UnitAt(b, p) = z
    BY <1>1, <2>2
  <2> QED
    BY <1>3, <1>6, <2>3, <2>4
<1> QED
  BY <1>2, <1>4, <1>5, <1>6 DEF UnitBytes

(* The recursion of the decoder. *)
NextUnit(b, r) ==
  IF r.at = 0 THEN Failed
  ELSE IF r.at > Len(b) THEN Read(r.tree, r.at)
  ELSE IF UnitAt(b, r.at).at = 0 THEN Failed
  ELSE Read(Append(r.tree, UnitAt(b, r.at).tree), UnitAt(b, r.at).at)

IsDecoded(h, b) ==
  h = [i \in 0..Len(b) |-> IF i = 0 THEN Read(<<>>, 1) ELSE NextUnit(b, h[i - 1])]

(* DecodeUtf8 by its steps. *)
LEMMA DecodeUnfolds ==
  \A b : DecodeUtf8(b) = (CHOOSE h : IsDecoded(h, b))[Len(b)].tree
BY Zenon DEF DecodeUtf8, IsDecoded, NextUnit, Then

(* One more unit. *)
LEMMA UnitRead ==
  ASSUME NEW b, NEW units, NEW p, NEW v, NEW q, UnitAt(b, p) = Read(v, q),
         p \in Nat \ {0}, q \in Nat \ {0}, Len(b) \in Nat, p <= Len(b)
  PROVE  NextUnit(b, Read(units, p)) = Read(Append(units, v), q)
<1>1. UnitAt(b, p).at = q /\ UnitAt(b, p).tree = v
  BY ReadParts
<1>2. Read(units, p).at = p /\ Read(units, p).tree = units
  BY ReadParts
<1>3. p # 0 /\ q # 0 /\ ~ (p > Len(b))
  OBVIOUS
<1> QED
  BY <1>1, <1>2, <1>3, Zenon DEF NextUnit

(* At the end the decoder stays where it is. *)
LEMMA NothingLeft ==
  ASSUME NEW b, NEW units, NEW p \in Nat \ {0}, p > Len(b)
  PROVE  NextUnit(b, Read(units, p)) = Read(units, p)
<1>1. Read(units, p).at = p /\ Read(units, p).tree = units
  BY ReadParts
<1>2. p # 0
  OBVIOUS
<1> QED
  BY <1>1, <1>2, Zenon DEF NextUnit

(* What was encoded is decoded. *)
LEMMA TextDecoded ==
  ASSUME NEW s \in Texts
  PROVE  DecodeUtf8(Encoded(s)) = Units[s] /\ ToSet(Encoded(s)) \subseteq 1..239
<1> DEFINE b == Encoded(s)
           n == Len(b)
           u == Units[s]
           m == Len(u)
           ss == [k \in DOMAIN u |-> EncodeUnit(u[k])]
           h == CHOOSE f : IsDecoded(f, b)
<1>1. u \in Seq(U16)
  BY TextsAssumption, SMT
<1>2. m \in Nat /\ DOMAIN u = 1..m /\ \A k \in 1..m : u[k] \in U16
  BY <1>1
<1>3. IsBytes(b) /\ n \in Nat
  BY EncodedBytes DEF IsBytes
<1>4. b = FlattenSeq(ss)
  BY DEF Encoded
<1>5. ss = [k \in 1..m |-> EncodeUnit(u[k])]
  BY <1>2
<1>6. DecodeUtf8(b) = h[n].tree
  BY DecodeUnfolds
<1> HIDE DEF b, ss, h
<1>7. \A k \in 1..m : UnitBytes(u[k], ss[k])
  BY <1>2, <1>5, UnitEncoded
<1>8. AllBytes(ss) /\ Len(ss) = m
  <2>1. \A k \in 1..m : ss[k] \in Seq(Octets)
    BY <1>7 DEF UnitBytes, IsBytes
  <2> HIDE DEF m
  <2> QED
    BY <1>2, <1>5, <2>1 DEF AllBytes
<1>9. ToSet(b) \subseteq 1..239
  <2>1. \A k \in 1..m : ss[k] \in Seq(1..239)
    BY <1>7 DEF UnitBytes
  <2> DEFINE S == 1..239
  <2> HIDE DEF S, m
  <2>2. ss \in Seq(Seq(S)) 
    BY <1>2, <1>5, <2>1 DEF S
  <2>3. b \in Seq(S)
    BY <1>4, <2>2, FlattenPiled
  <2>4. ToSet(b) \subseteq S
    BY <2>3 DEF ToSet
  <2> QED
    BY <2>4 DEF S
<1>10. Spans(b, 1, b, n + 1)
  <2>1. \A k \in 1..n : 1 + k - 1 = k
    BY <1>3
  <2> QED
    BY <1>3, <2>1 DEF Spans, Holds
<1>11. PICK at \in [1..(m + 1) -> Nat \ {0}] :
         /\ at[1] = 1 /\ at[m + 1] = n + 1
         /\ \A k \in 1..m : Spans(b, at[k], ss[k], at[k + 1])
  <2>1. Spans(b, 1, FlattenSeq(ss), n + 1)
    BY <1>4, <1>10
  <2> QED
    BY <1>3, <1>8, <2>1, SpansEach
<1>12. ASSUME NEW k \in 1..m
       PROVE  /\ UnitAt(b, at[k]) = Read(u[k], at[k + 1]) /\ at[k] <= n /\ at[k + 1] > at[k]
              /\ at[k] \in Nat \ {0} /\ at[k + 1] \in Nat \ {0}
  <2>1. Spans(b, at[k], EncodeUnit(u[k]), at[k + 1]) /\ u[k] \in U16
    BY <1>2, <1>5, <1>11
  <2>2. UnitAt(b, at[k]) = Read(u[k], at[k + 1]) /\ at[k] <= n /\ at[k + 1] > at[k]
    BY <1>3, <2>1, UnitHeld
  <2>3. k \in 1..(m + 1) /\ k + 1 \in 1..(m + 1)
    BY <1>2
  <2> QED
    BY <1>11, <2>2, <2>3
<1> DEFINE closed(i) == IF i <= m THEN Read(SubSeq(u, 1, i), at[i + 1]) ELSE Read(u, n + 1)
<1>13. \A i \in 1..m : SubSeq(u, 1, i) = Append(SubSeq(u, 1, i - 1), u[i])
       /\ SubSeq(u, 1, 0) = <<>> /\ SubSeq(u, 1, m) = u
  BY <1>1, PrefixGrows
<1>14. SubSeq(u, 1, 0) = <<>> /\ SubSeq(u, 1, m) = u
  BY <1>1, PrefixGrows
<1>15. closed(0) = Read(<<>>, 1)
  <2>1. 0 <= m /\ at[0 + 1] = 1
    BY <1>2, <1>11
  <2> HIDE DEF u, m
  <2> QED
    BY <1>14, <2>1
<1>16. ASSUME NEW i \in 1..n
       PROVE  closed(i) = NextUnit(b, closed(i - 1))
  <2> HIDE DEF u, m, n
  <2>1. CASE i <= m
    <3>1. i \in 1..m /\ (i - 1) + 1 = i /\ i - 1 <= m
      BY <1>2, <1>3, <2>1
    <3>2. closed(i) = Read(Append(SubSeq(u, 1, i - 1), u[i]), at[i + 1])
      BY <1>13, <2>1, <3>1
    <3>3. closed(i - 1) = Read(SubSeq(u, 1, i - 1), at[i])
      BY <3>1
    <3>4. UnitAt(b, at[i]) = Read(u[i], at[i + 1]) /\ at[i] <= Len(b)
          /\ at[i] \in Nat \ {0} /\ at[i + 1] \in Nat \ {0} /\ Len(b) \in Nat
      BY <1>3, <1>12, <3>1 DEF n
    <3>5. NextUnit(b, Read(SubSeq(u, 1, i - 1), at[i]))
            = Read(Append(SubSeq(u, 1, i - 1), u[i]), at[i + 1])
      BY <3>4, UnitRead
    <3> HIDE DEF closed
    <3> QED
      BY <3>2, <3>3, <3>5
  <2>2. CASE ~ (i <= m)
    <3>1. closed(i) = Read(u, n + 1)
      BY <2>2
    <3>2. closed(i - 1) = Read(u, n + 1)
      <4>1. CASE i - 1 <= m
        <5>1. i - 1 = m /\ (i - 1) + 1 = m + 1
          BY <1>2, <1>3, <2>2, <4>1
        <5>2. closed(i - 1) = Read(SubSeq(u, 1, m), at[m + 1])
          BY <4>1, <5>1
        <5> HIDE DEF closed
        <5> QED
          BY <1>11, <1>14, <5>2
      <4>2. CASE ~ (i - 1 <= m)
        BY <4>2
      <4> QED
        BY <4>1, <4>2
    <3>3. n + 1 \in Nat \ {0} /\ n + 1 > Len(b)
      BY <1>3 DEF n
    <3>4. NextUnit(b, Read(u, n + 1)) = Read(u, n + 1)
      BY <3>3, NothingLeft
    <3> HIDE DEF closed
    <3> QED
      BY <3>1, <3>2, <3>4
  <2> QED
    BY <2>1, <2>2
<1> DEFINE g == [i \in 0..n |-> closed(i)]
           go == [i \in 0..Len(b) |-> IF i = 0 THEN Read(<<>>, 1) ELSE NextUnit(b, g[i - 1])]
<1> HIDE DEF closed
<1>17. ASSUME NEW i \in 0..n
       PROVE  g[i] = IF i = 0 THEN Read(<<>>, 1) ELSE NextUnit(b, g[i - 1])
  <2>1. CASE i = 0
    BY <1>15, <2>1
  <2>2. CASE i # 0
    <3>1. i \in 1..n /\ i - 1 \in 0..n
      BY <1>3, <2>2
    <3>2. g[i] = closed(i) /\ g[i - 1] = closed(i - 1)
      BY <3>1
    <3> HIDE DEF g
    <3> QED
      BY <1>16, <2>2, <3>1, <3>2
  <2> QED
    BY <2>1, <2>2
<1>18. IsDecoded(g, b)
  <2>1. g = [i \in 0..n |-> g[i]]
    OBVIOUS
  <2> HIDE DEF g
  <2>2. g = go
    BY <1>17, <2>1
  <2> QED
    BY <2>2 DEF IsDecoded
<1>19. IsDecoded(h, b)
  <2> HIDE DEF g
  <2>1. \E f : IsDecoded(f, b)
    BY <1>18
  <2> QED
    BY <2>1 DEF h
<1> DEFINE G == {i \in 0..n : h[i] = closed(i)}
<1>20. \A i \in 0..n : i \in G
  <2>0. \A i \in 0..n : h[i] = IF i = 0 THEN Read(<<>>, 1) ELSE NextUnit(b, h[i - 1])
    BY <1>19 DEF IsDecoded
  <2>1. 0 \in G
    BY <1>3, <1>15, <2>0
  <2>2. ASSUME NEW i \in 1..n, i - 1 \in G
        PROVE  i \in G
    <3>1. i \in 0..n /\ i # 0
      BY <1>3
    <3>2. h[i] = NextUnit(b, h[i - 1])
      BY <2>0, <3>1
    <3>3. h[i] = closed(i)
      BY <1>16, <2>2, <3>2
    <3> QED
      BY <3>1, <3>3
  <2> HIDE DEF G
  <2> QED
    BY <1>3, <2>1, <2>2, IndexInduction
<1>21. h[n] = closed(n)
  <2>1. n \in 0..n
    BY <1>3
  <2> QED
    BY <1>20, <2>1
<1>22. closed(n).tree = u
  <2>0. n >= m
    <3> DEFINE H == {k \in 0..m : at[k + 1] >= k + 1}
    <3>1. 0 \in H
      BY <1>2, <1>11
    <3>2. ASSUME NEW k \in 1..m, k - 1 \in H
          PROVE  k \in H
      <4>1. at[k + 1] > at[k] /\ at[k] \in Nat /\ at[k + 1] \in Nat
        BY <1>12
      <4>2. (k - 1) + 1 = k /\ k \in 0..m
        BY <1>2
      <4>3. at[k] >= k
        BY <3>2, <4>2
      <4>4. at[k + 1] >= k + 1
        BY <4>1, <4>2, <4>3
      <4> QED
        BY <4>2, <4>4
    <3> HIDE DEF H
    <3>3. \A k \in 0..m : k \in H
      BY <1>2, <3>1, <3>2, IndexInduction
    <3>4. m \in H
      BY <1>2, <3>3
    <3>5. at[m + 1] >= m + 1
      BY <3>4 DEF H
    <3> HIDE DEF m, n
    <3> QED
      BY <1>2, <1>3, <1>11, <3>5
  <2>1. CASE n = m
    <3>1. closed(n) = Read(SubSeq(u, 1, m), at[m + 1])
      BY <1>2, <2>1 DEF closed
    <3>2. SubSeq(u, 1, m) = u
      BY <1>14
    <3> HIDE DEF u, m, n
    <3>3. closed(n) = Read(u, at[m + 1])
      BY <3>1, <3>2
    <3> QED
      BY <3>3, ReadParts
  <2>2. CASE n # m
    <3>1. ~ (n <= m)
      <4> HIDE DEF m, n
      <4> QED
        BY <1>2, <1>3, <2>0, <2>2
    <3>2. closed(n) = Read(u, n + 1)
      BY <3>1 DEF closed
    <3> QED
      BY <3>2, ReadParts
  <2> QED
    BY <2>1, <2>2
<1> QED
  BY <1>6, <1>9, <1>21, <1>22 DEF b

(* The nesting of the attribute readers. *)
IsReaders(h, b, pool, m) ==
  h = [d \in 0..m |->
         [p \in Positions(b) |-> IF d = 0 THEN Failed ELSE Attribute(b, p, pool, h[d - 1])]]

(* There are such readers. *)
LEMMA ReadersExist ==
  ASSUME NEW b, NEW pool, NEW n \in Nat
  PROVE  \E h : IsReaders(h, b, pool, n)
<1> DEFINE Found(m) == \E h : IsReaders(h, b, pool, m)
           G == {m \in 0..n : Found(m)}
           row(h, d) == [p \in Positions(b) |->
                            IF d = 0 THEN Failed ELSE Attribute(b, p, pool, h[d - 1])]
<1>1. 0 \in G
  <2> DEFINE none == [p \in Positions(b) |-> Failed]
             h == [d \in 0..0 |-> none]
             go == [d \in 0..0 |-> [p \in Positions(b) |->
                                       IF d = 0 THEN Failed ELSE Attribute(b, p, pool, h[d - 1])]]
  <2>1. \A d \in 0..0 : d = 0
    OBVIOUS
  <2>2. go = h
    <3>1. \A d \in 0..0 : go[d] = none
      BY <2>1
    <3>2. go = [d \in 0..0 |-> go[d]]
      OBVIOUS
    <3> HIDE DEF go
    <3> QED
      BY <3>1, <3>2
  <2>3. IsReaders(h, b, pool, 0)
    BY <2>2 DEF IsReaders
  <2> QED
    BY <2>3
<1>2. ASSUME NEW m \in 1..n, m - 1 \in G
      PROVE  m \in G
  <2>1. PICK f : IsReaders(f, b, pool, m - 1)
    BY <1>2
  <2> DEFINE last == [p \in Positions(b) |-> Attribute(b, p, pool, f[m - 1])]
             g == [d \in 0..m |-> IF d < m THEN f[d] ELSE last]
             go == [d \in 0..m |-> [p \in Positions(b) |->
                                       IF d = 0 THEN Failed ELSE Attribute(b, p, pool, g[d - 1])]]
  <2>2. \A d \in 0..(m - 1) :
          f[d] = [p \in Positions(b) |-> IF d = 0 THEN Failed ELSE Attribute(b, p, pool, f[d - 1])]
    BY <2>1 DEF IsReaders
  <2>3. ASSUME NEW d \in 0..m
        PROVE  g[d] = [p \in Positions(b) |->
                          IF d = 0 THEN Failed ELSE Attribute(b, p, pool, g[d - 1])]
    <3>1. d # 0 => d - 1 \in 0..m /\ d - 1 < m
      OBVIOUS
    <3>2. d # 0 => g[d - 1] = f[d - 1]
      BY <3>1
    <3>3. CASE d < m
      <4>1. d \in 0..(m - 1) /\ g[d] = f[d]
        BY <3>3
      <4> HIDE DEF g, last
      <4> QED
        BY <2>2, <3>2, <4>1
    <3>4. CASE ~ (d < m)
      <4>1. d = m /\ g[d] = last /\ d # 0
        BY <3>4
      <4> HIDE DEF g
      <4> QED
        BY <3>2, <4>1
    <3> QED
      BY <3>3, <3>4
  <2>4. g = [d \in 0..m |-> g[d]]
    OBVIOUS
  <2> HIDE DEF g
  <2>5. g = go
    BY <2>3, <2>4
  <2>6. IsReaders(g, b, pool, m)
    BY <2>5 DEF IsReaders
  <2> QED
    BY <2>6
<1> HIDE DEF G
<1>3. \A m \in 0..n : m \in G
  BY <1>1, <1>2, IndexInduction
<1> QED
  BY <1>3 DEF G

(* Two levels are enough for the attributes of a Code attribute.           *)
LEMMA ReadersNest ==
  ASSUME NEW b, IsBytes(b), NEW pool, Len(b) >= 2
  PROVE  \E nested, inner : \A p \in Positions(b) :
           /\ AttributeReader(b, pool)[p] = Attribute(b, p, pool, nested)
           /\ nested[p] = Attribute(b, p, pool, inner)
<1> DEFINE n == Len(b)
           h == CHOOSE f : IsReaders(f, b, pool, n)
<1>1. n \in Nat
  BY DEF IsBytes
<1>2. AttributeReader(b, pool) = h[n]
  BY Zenon DEF AttributeReader, IsReaders
<1>3. IsReaders(h, b, pool, n)
  <2>1. \E f : IsReaders(f, b, pool, n)
    BY <1>1, ReadersExist
  <2> QED
    BY <2>1
<1> HIDE DEF h
<1>0. n >= 2
  OBVIOUS
<1>a. \A d \in 0..n : h[d] =
        [p \in Positions(b) |-> IF d = 0 THEN Failed ELSE Attribute(b, p, pool, h[d - 1])]
  <2> HIDE DEF n
  <2> QED
    BY <1>3 DEF IsReaders
<1> HIDE DEF n
<1>4. n \in 0..n /\ n # 0 /\ n - 1 \in 0..n /\ n - 1 # 0 /\ (n - 1) - 1 = n - 2
  BY <1>0, <1>1
<1>5. ASSUME NEW d \in 0..n, NEW p \in Positions(b)
      PROVE  h[d][p] = IF d = 0 THEN Failed ELSE Attribute(b, p, pool, h[d - 1])
  <2> HIDE DEF Attribute
  <2>1. h[d] = [r \in Positions(b) |-> IF d = 0 THEN Failed ELSE Attribute(b, r, pool, h[d - 1])]
    BY <1>a
  <2> QED
    BY <2>1, Zenon
<1>6. ASSUME NEW p \in Positions(b)
      PROVE  h[n][p] = Attribute(b, p, pool, h[n - 1])
  BY <1>4, <1>5
<1>7. ASSUME NEW p \in Positions(b)
      PROVE  h[n - 1][p] = Attribute(b, p, pool, h[n - 2])
  BY <1>4, <1>5
<1> DEFINE nested == h[n - 1]
           inner == h[n - 2]
<1>8. ASSUME NEW p \in Positions(b)
      PROVE  /\ AttributeReader(b, pool)[p] = Attribute(b, p, pool, nested)
             /\ nested[p] = Attribute(b, p, pool, inner)
  BY <1>2, <1>6, <1>7
<1> HIDE DEF nested, inner
<1> QED
  BY <1>8, Zenon

(* The attribute that is read is the one that was written. *)
LEMMA AttributeRead ==
  ASSUME NEW b, NEW p, NEW pool, NEW nested, NEW i, NEW x, NEW n, NEW y, NEW name, NEW body,
         NEW z, NEW tail, NEW end, x # 0, y # 0, z # 0, end # 0,
         Short(b, p) = Read(i, x), Word(b, x) = Read(n, y), Utf8At(pool, i) = name,
         AttributeBody(b, name, n, y, nested) = Read(body, z),
         Bytes(b, z, y + n - z) = Read(tail, end)
  PROVE  Attribute(b, p, pool, nested) = Read([name |-> name, body |-> body, tail |-> tail], end)
<1>1. Short(b, p).at = x /\ Short(b, p).tree = i
  BY ReadParts
<1>2. Word(b, x).at = y /\ Word(b, x).tree = n
  BY ReadParts
<1>3. AttributeBody(b, name, n, y, nested).at = z
        /\ AttributeBody(b, name, n, y, nested).tree = body
  BY ReadParts
<1>4. Bytes(b, z, y + n - z).at = end /\ Bytes(b, z, y + n - z).tree = tail
  BY ReadParts
<1>5. Attribute(b, p, pool, nested) =
        Then(Word(b, x), LAMBDA m, r :
          Then(AttributeBody(b, Utf8At(pool, i), m, r, nested), LAMBDA t, s :
            Then(Bytes(b, s, r + m - s), LAMBDA u, e :
              Read([name |-> Utf8At(pool, i), body |-> t, tail |-> u], e))))
  BY <1>1, Zenon DEF Attribute, Then
<1>6. Attribute(b, p, pool, nested) =
        Then(AttributeBody(b, name, n, y, nested), LAMBDA t, s :
          Then(Bytes(b, s, y + n - s), LAMBDA u, e :
            Read([name |-> name, body |-> t, tail |-> u], e)))
  BY <1>2, <1>5, Zenon DEF Then
<1>7. Attribute(b, p, pool, nested) =
        Then(Bytes(b, z, y + n - z), LAMBDA u, e :
          Read([name |-> name, body |-> body, tail |-> u], e))
  BY <1>3, <1>6, Zenon DEF Then
<1> QED
  BY <1>4, <1>7, Zenon DEF Then

(* An attribute as a reader makes it, without a tail. *)
Made(name, body) == [name |-> name, body |-> body, tail |-> <<>>]

(* A body is read to its end. *)
BodyRead(b, name, body, nested, tree, q) ==
  \A r : Spans(b, r, body, q) => AttributeBody(b, name, Len(body), r, nested) = Read(tree, q)

(* So it is when its name and its body are. *)
LEMMA AttributeHeld ==
  ASSUME NEW b, IsBytes(b), NEW p, NEW q, NEW pool, NEW nested, NEW i \in U16,
         NEW name, Utf8At(pool, i) = name, NEW body, IsBytes(body), Len(body) \in U31,
         Spans(b, p, U2(i) \o Measured(body), q),
         NEW tree, BodyRead(b, name, body, nested, tree, q)
  PROVE  /\ Attribute(b, p, pool, nested) = Read(Made(name, tree), q)
         /\ p \in Positions(b) /\ p \in Nat \ {0} /\ q \in Nat \ {0}
<1> DEFINE n == Len(body)
<1>0. IsBytes(U2(i)) /\ n \in Int /\ n \in U31
  BY ShortBytes, U31Range
<1>1. Measured(body) = U4(n) \o body
  BY DEF Measured
<1>2. IsBytes(U4(n)) /\ IsBytes(U4(n) \o body)
  <2>1. IsBytes(U4(n))
    BY <1>0, FourBytes
  <2> HIDE DEF n
  <2> QED
    BY <2>1, BytesBoth
<1> HIDE DEF n
<1>3. Spans(b, p, U2(i) \o (U4(n) \o body), q)
  BY <1>1
<1>4. PICK x : Spans(b, p, U2(i), x) /\ Spans(b, x, U4(n) \o body, q)
  BY <1>0, <1>2, <1>3, SpansBoth
<1>5. PICK y : Spans(b, x, U4(n), y) /\ Spans(b, y, body, q)
  BY <1>2, <1>4, SpansBoth
<1>6. Short(b, p) = Read(i, x) /\ x # 0
  BY <1>4, ShortReads
<1>7. Word(b, x) = Read(n, y) /\ y # 0
  BY <1>0, <1>5, WordReads
<1>8. AttributeBody(b, name, n, y, nested) = Read(tree, q)
  BY <1>5 DEF BodyRead, n
<1>9. p \in Positions(b) /\ p \in Nat \ {0}
  BY <1>0, <1>4, SpanEnds
<1>10. q \in Nat \ {0} /\ q = y + n /\ y \in Nat /\ q \in Positions(b)
  BY <1>5, SpanEnds, SpansAt DEF n
<1>11. Bytes(b, q, 0) = Read(<<>>, q)
  <2>1. Spans(b, q, <<>>, q) /\ IsBytes(<<>>)
    BY <1>10, SpansNothing
  <2>2. Bytes(b, q, Len(<<>>)) = Read(<<>>, q)
    BY <2>1, BytesHeld
  <2>3. Len(<<>>) = 0
    OBVIOUS
  <2> QED
    BY <2>2, <2>3
<1>12. y + n - q = 0
  BY <1>0, <1>10
<1>13. Bytes(b, q, y + n - q) = Read(<<>>, q)
  BY <1>11, <1>12
<1>14. q # 0
  BY <1>10
<1>15. Attribute(b, p, pool, nested) = Read([name |-> name, body |-> tree, tail |-> <<>>], q)
  BY <1>6, <1>7, <1>8, <1>13, <1>14, AttributeRead
<1> QED
  BY <1>9, <1>10, <1>15 DEF Made

(* How the four attributes of a file are told apart.                       *)
LEMMA BodyNamed ==
  ASSUME NEW b, NEW n, NEW p, NEW nested
  PROVE  /\ AttributeBody(b, CodeName, n, p, nested) = Code(b, p, nested)
         /\ AttributeBody(b, LineNumberTableName, n, p, nested) = LineNumbers(b, p)
         /\ AttributeBody(b, StackMapTableName, n, p, nested) = StackMapFrames(b, p)
         /\ AttributeBody(b, SourceFileName, n, p, nested) = Short(b, p)
<1> DEFINE c == CodeName
           l == LineNumberTableName
           m == StackMapTableName
           f == SourceFileName
           C == Code(b, p, nested)
           L == LineNumbers(b, p)
           M == StackMapFrames(b, p)
           F == Short(b, p)
           O == Bytes(b, p, n)
<1>1. c # l /\ c # m /\ c # f /\ l # m /\ l # f /\ m # f
  BY TextsAssumption, SMT
<1>2. \A x : AttributeBody(b, x, n, p, nested) =
               CASE x = c -> C [] x = l -> L [] x = m -> M [] x = f -> F [] OTHER -> O
  BY Zenon DEF AttributeBody
<1> HIDE DEF c, l, m, f, C, L, M, F, O
<1>3. /\ AttributeBody(b, c, n, p, nested) = C
      /\ AttributeBody(b, l, n, p, nested) = L
      /\ AttributeBody(b, m, n, p, nested) = M
      /\ AttributeBody(b, f, n, p, nested) = F
  <2>1. AttributeBody(b, c, n, p, nested) = C
    BY <1>1, <1>2
  <2>2. AttributeBody(b, l, n, p, nested) = L
    BY <1>1, <1>2
  <2>3. AttributeBody(b, m, n, p, nested) = M
    BY <1>1, <1>2
  <2>4. AttributeBody(b, f, n, p, nested) = F
    BY <1>1, <1>2
  <2> QED
    BY <2>1, <2>2, <2>3, <2>4
<1> QED
  BY <1>3 DEF c, l, m, f, C, L, M, F

(* How long a line number table can get, and a stack map.                  *)
LineTableLimit == 262142

MapLimit == 1000000002

(* The length of the line number table. *)
LEMMA LineTableBytes ==
  ASSUME NEW m, m.lines \in Counted(U16 \X U16)
  PROVE  /\ LineNumberTable(m) = U2(Len(m.lines)) \o FlattenSeq(LineBytes(m.lines))
         /\ IsBytes(LineNumberTable(m)) /\ Len(LineNumberTable(m)) \in Nat
         /\ Len(LineNumberTable(m)) <= LineTableLimit
<1> DEFINE lines == m.lines
           n == Len(lines)
           ss == LineBytes(lines)
<1>1. /\ lines \in Seq(U16 \X U16) /\ n \in Nat /\ DOMAIN lines = 1..n
      /\ \A k \in 1..n : lines[k] \in U16 \X U16
  BY DEF Counted
<1>2. n <= 65535
  BY SMT DEF Counted
<1>3. \A k \in 1..n : lines[k][1] \in U16 /\ lines[k][2] \in U16
  BY <1>1
<1>4. ss = [k \in 1..n |-> U2(lines[k][1]) \o U2(lines[k][2])]
  BY <1>1 DEF LineBytes
<1>5. LineNumberTable(m) = U2(n) \o FlattenSeq(ss)
  BY DEF LineNumberTable, LineBytes
<1> HIDE DEF ss, lines, n
<1>6. ASSUME NEW k \in 1..n
      PROVE  IsBytes(ss[k]) /\ Len(ss[k]) = 4
  <2> DEFINE s == U2(lines[k][1])
             t == U2(lines[k][2])
  <2>1. IsBytes(s) /\ IsBytes(t) /\ Len(s) = 2 /\ Len(t) = 2
    BY <1>3, ShortBytes
  <2>2. ss[k] = s \o t
    BY <1>4
  <2> HIDE DEF s, t
  <2>3. IsBytes(s \o t) /\ Len(s \o t) = Len(s) + Len(t)
    BY <2>1, BytesBoth
  <2> QED
    BY <2>1, <2>2, <2>3
<1>7. AllBytes(ss) /\ Len(ss) = n
  BY <1>1, <1>4, <1>6 DEF AllBytes, IsBytes
<1>8. FlattenSeq(ss) \in Seq(Octets) /\ \E x : Piled(x, FlattenSeq(ss), ss)
  BY <1>7, FlattenPiled DEF AllBytes
<1>9. PICK x : Piled(x, FlattenSeq(ss), ss)
  BY <1>8
<1>10. /\ x \in [1..(n + 1) -> Nat] /\ x[1] = 0 /\ Len(FlattenSeq(ss)) = x[n + 1]
       /\ \A k \in 1..n : x[k + 1] = x[k] + Len(ss[k])
  BY <1>7, <1>9 DEF Piled
<1> DEFINE G == {k \in 0..n : x[k + 1] = 4 * k}
<1>11. \A k \in 0..n : k \in G
  <2>1. 0 \in G
    BY <1>1, <1>10
  <2>2. ASSUME NEW k \in 1..n, k - 1 \in G
        PROVE  k \in G
    <3>1. (k - 1) + 1 = k /\ k \in 0..n /\ k \in Nat
      BY <1>1
    <3>2. x[k] = 4 * (k - 1)
      BY <2>2, <3>1
    <3>3. x[k + 1] = x[k] + 4
      BY <1>6, <1>10
    <3> QED
      BY <3>1, <3>2, <3>3
  <2> HIDE DEF G
  <2> QED
    BY <1>1, <2>1, <2>2, IndexInduction
<1>12. Len(FlattenSeq(ss)) = 4 * n
  <2>1. n \in 0..n
    BY <1>1
  <2> QED
    BY <1>10, <1>11, <2>1
<1> DEFINE s == U2(n)
           t == FlattenSeq(ss)
<1>13. n \in U16
  BY <1>1, <1>2, U16Range, SMT
<1>14. IsBytes(s) /\ Len(s) = 2 /\ IsBytes(t) /\ Len(t) = 4 * n
  BY <1>8, <1>12, <1>13, ShortBytes DEF IsBytes
<1> HIDE DEF s, t
<1>15. IsBytes(s \o t) /\ Len(s \o t) = Len(s) + Len(t)
  BY <1>14, BytesBoth
<1>16. Len(s \o t) \in Nat /\ Len(s \o t) <= LineTableLimit
  BY <1>1, <1>2, <1>14, <1>15, SMT DEF LineTableLimit
<1>17. LineNumberTable(m) = s \o t
  BY <1>5 DEF s, t
<1> QED
  BY <1>15, <1>16, <1>17, SMT DEF s, t, ss, lines, n

(* The pool a reader has, as the pool of the writer numbers it.            *)
Recorded(pool) ==
  \A e \in DOMAIN index : index[e] \in DOMAIN pool /\ pool[index[e]] = Stored(e)

(* The constants read one after the other are found under their indices.   *)
LEMMA PoolRecorded ==
  ASSUME PoolWritable, NEW pool, PoolTo(pool, Len(entries))
  PROVE  Recorded(pool)
<1>1. /\ DOMAIN index = ToSet(entries) /\ entries \in Seq(Entry)
  BY DEF PoolWritable, Numbered
<1>2. Len(entries) \in Nat /\ DOMAIN entries = 1..Len(entries)
  BY <1>1
<1> SUFFICES ASSUME NEW e \in DOMAIN index
             PROVE  index[e] \in DOMAIN pool /\ pool[index[e]] = Stored(e)
  BY DEF Recorded
<1>3. PICK k \in 1..Len(entries) : entries[k] = e
  BY <1>1, <1>2 DEF ToSet
<1>4. Begins(k) = index[e]
  BY <1>2, <1>3 DEF Begins
<1> QED
  BY <1>3, <1>4 DEF PoolTo

(* The count in front of the pool is a u16. *)
LEMMA CountFits ==
  ASSUME Numbered
  PROVE  nextIndex \in U16
<1>1. nextIndex \in 0..(IndexSpace - 1)
  BY DEF Numbered
<1>2. IndexSpace \in Nat /\ IndexSpace <= 65536
  BY SpaceAssumption, WidthAssumption, SMT
<1> QED
  BY <1>1, <1>2, U16Range, SMT

(* The whole pool is read back. *)
LEMMA SerializeHeld ==
  ASSUME PoolWritable, NEW b, IsBytes(b), NEW p, NEW q, Spans(b, p, Serialize, q)
  PROVE  \E pool : Recorded(pool) /\ ConstantPoolAt(b, p) = Read(pool, q)
<1>1. Serialize = U2(nextIndex) \o FlattenSeq(PoolBytes)
  BY DEF Serialize, PoolBytes, EntryBytes
<1>2. AllBytes(PoolBytes)
  BY EntriesWritten
<1> DEFINE t == FlattenSeq(PoolBytes)
<1>3. IsBytes(t)
  BY <1>2, FlatBytes
<1>4. nextIndex \in U16
  BY CountFits DEF PoolWritable
<1>5. IsBytes(U2(nextIndex))
  BY <1>4, ShortBytes
<1>6. PICK x : Spans(b, p, U2(nextIndex), x) /\ Spans(b, x, t, q)
  <2> HIDE DEF t
  <2>1. Spans(b, p, U2(nextIndex) \o t, q)
    BY <1>1 DEF t
  <2> QED
    BY <1>3, <1>5, <2>1, SpansBoth
<1>7. Short(b, p) = Read(nextIndex, x) /\ x # 0
  BY <1>4, <1>6, ShortReads
<1>8. PICK pool : PoolTo(pool, Len(entries)) /\ Constants(b, x, nextIndex) = Read(pool, q)
  BY <1>6, PoolHeld
<1>9. Recorded(pool)
  BY <1>8, PoolRecorded
<1>10. Short(b, p).at = x /\ Short(b, p).tree = nextIndex
  BY <1>7, ReadParts
<1>11. ConstantPoolAt(b, p) = Constants(b, x, nextIndex)
  BY <1>7, <1>10, Zenon DEF ConstantPoolAt, Then
<1> QED
  BY <1>8, <1>9, <1>11

(* The bytes of the pool. *)
LEMMA SerializeBytes ==
  ASSUME PoolWritable
  PROVE  IsBytes(Serialize)
<1> DEFINE t == FlattenSeq(PoolBytes)
<1>1. Serialize = U2(nextIndex) \o t
  BY DEF Serialize, PoolBytes, EntryBytes
<1>2. IsBytes(t)
  BY EntriesWritten, FlatBytes
<1>3. IsBytes(U2(nextIndex))
  BY CountFits, ShortBytes DEF PoolWritable
<1> HIDE DEF t
<1> QED
  BY <1>1, <1>2, <1>3, BytesBoth

-----------------------------------------------------------------------------
(* Attributes. *)

(* What lookups find. *)

(* Every entry has its parts in the pool. *)
PoolClosed == \A e \in DOMAIN index : ToSet(Children(e)) \subseteq DOMAIN index

(* Each entry is found as the constant it stands for. *)
LEMMA EntryStands ==
  ASSUME PoolWritable, PoolClosed, NEW pool, Recorded(pool), NEW e \in DOMAIN index
  PROVE  Stands(pool, index[e], e)
<1> DEFINE i == index[e]
           c == Children(e)
<1>1. i \in DOMAIN pool /\ pool[i] = Stored(e)
  BY DEF Recorded
<1>2. Writable(e) /\ e.kind \in Kinds
  BY DEF PoolWritable, Writable
<1>3. pool[i].tag = Tag(e.kind) /\ pool[i].of = Content(e)
  BY <1>1 DEF Stored
<1>4. CASE e.kind = "Utf8"
  <2>1. pool[i].of = Encoded(TextOf(e)) /\ TextOf(e) \in Texts
    BY <1>2, <1>3, <1>4, PayloadForms DEF Writable
  <2>2. IsText(pool, i, TextOf(e))
    BY <1>1, <1>3, <1>4, <2>1, TextDecoded DEF IsText
  <2>3. IsText(pool, i, texts[e.of[1] + 1])
    BY <2>2 DEF TextOf
  <2>4. pool[i].tag = Tag(e.kind) /\ i \in DOMAIN pool
    BY <1>1, <1>3
  <2> DEFINE A == IsText(pool, i, texts[e.of[1] + 1])
             B == /\ Len(pool[i].of) = Len(Children(e))
                  /\ \A k \in DOMAIN Children(e) :
                       Children(e)[k] \in DOMAIN index /\ pool[i].of[k] = index[Children(e)[k]]
             C == Last(pool[i].of) = e.of[1] /\ Len(pool[i].of) = Width(e)
             U == e.kind = "Utf8"
  <2>5. (i \in DOMAIN pool /\ pool[i].tag = Tag(e.kind)
           /\ CASE U -> A [] Children(e) # <<>> -> B [] OTHER -> C) => Stands(pool, i, e)
    BY Zenon DEF Stands
  <2>6. c = <<>>
    BY <1>4 DEF Children
  <2>7. U /\ A
    BY <1>4, <2>3
  <2> HIDE DEF A, B, C, U
  <2>8. (CASE U -> A [] Children(e) # <<>> -> B [] OTHER -> C) = TRUE
    BY <2>6, <2>7
  <2> QED
    BY <2>4, <2>5, <2>8
<1>5. CASE e.kind \in TextKinds \ {"Utf8"}
  <2>1. c \in Seq(Entry) /\ Len(c) = PartCount(e.kind) /\ pool[i].of = Parts(e)
    BY <1>2, <1>3, <1>5, PayloadForms DEF Writable
  <2>2. c # <<>>
    <3>1. Len(c) \in {1, 2}
      BY <2>1 DEF PartCount
    <3> HIDE DEF c
    <3> QED
      BY <3>1
  <2>3. DOMAIN c = 1..Len(c) /\ DOMAIN Parts(e) = DOMAIN c /\ Len(Parts(e)) = Len(c)
    BY <2>1, <1>2, <1>5, PartsWritten DEF Parts
  <2>4. \A k \in DOMAIN c : c[k] \in DOMAIN index /\ pool[i].of[k] = index[c[k]]
    <3> TAKE k \in DOMAIN c
    <3>1. c[k] \in DOMAIN index
      BY DEF PoolClosed, ToSet
    <3>2. pool[i].of[k] = EntryIndex(c[k])
      BY <2>1 DEF Parts
    <3> QED
      BY <3>1, <3>2 DEF EntryIndex
  <2>5. e.kind # "Utf8"
    BY <1>5
  <2>6. Len(pool[i].of) = Len(c)
    BY <2>1, <2>3
  <2> QED
    BY <1>1, <1>3, <2>2, <2>4, <2>5, <2>6, Zenon DEF Stands
<1>6. CASE e.kind \in NumberKinds
  <2>1. c = <<>> /\ e.kind # "Utf8"
    BY <1>6 DEF NumberKinds, Children
  <2>2. CASE e.kind \in {"Integer", "Float"}
    <3>1. pool[i].of = <<e.of[1]>> /\ Width(e) = 1
      BY <1>2, <1>3, <2>2, PayloadForms DEF Width, WideKinds
    <3>2. Last(pool[i].of) = e.of[1] /\ Len(pool[i].of) = Width(e)
      BY <3>1 DEF Last
    <3> QED
      BY <1>1, <1>3, <2>1, <3>2, Zenon DEF Stands
  <2>3. CASE e.kind \in WideKinds
    <3>1. pool[i].of = <<0, e.of[1]>> /\ Width(e) = 2
      BY <1>2, <1>3, <2>3, PayloadForms DEF Width, WideKinds
    <3>2. Last(pool[i].of) = e.of[1] /\ Len(pool[i].of) = Width(e)
      BY <3>1 DEF Last
    <3> QED
      BY <1>1, <1>3, <2>1, <3>2, Zenon DEF Stands
  <2> QED
    BY <1>6, <2>2, <2>3 DEF NumberKinds, WideKinds
<1> QED
  BY <1>2, <1>4, <1>5, <1>6 DEF Kinds, NumberKinds, WideKinds, TextKinds

(* A text, and a class of that name, that the pool holds.                  *)
HasText(s) ==
  /\ s \in Texts /\ s \in ToSet(texts) /\ texts[TextId(texts, s) + 1] = s
  /\ Utf8(TextId(texts, s)) \in DOMAIN index

HasClass(s) == HasText(s) /\ ClassOf(TextId(texts, s)) \in DOMAIN index

(* The text is found under the index that is written for it. *)
LEMMA TextFound ==
  ASSUME PoolWritable, NEW pool, Recorded(pool), NEW s, HasText(s)
  PROVE  IsText(pool, Utf8Index(s), s) /\ Utf8At(pool, Utf8Index(s)) = Encoded(s)
<1> DEFINE e == Utf8(TextId(texts, s))
           i == index[e]
<1>1. Utf8Index(s) = i
  BY DEF HasText, Utf8Index, NamedIndex, EntryIndex, Utf8
<1>2. i \in DOMAIN pool /\ pool[i] = Stored(e)
  BY DEF Recorded, HasText
<1>3. e.kind = "Utf8" /\ e.kind \in Kinds /\ TextOf(e) = s
  BY DEF Utf8, HasText, TextOf, Kinds, TextKinds
<1>4. pool[i].tag = Tag("Utf8") /\ pool[i].of = Encoded(s) /\ Tag("Utf8") = 1
  <2>1. Content(e) = Encoded(s) /\ Tag(e.kind) = 1
    BY <1>3, PayloadForms
  <2> QED
    BY <1>2, <1>3, <2>1 DEF Stored
<1> HIDE DEF i
<1>5. IsText(pool, i, s)
  BY <1>2, <1>4, TextDecoded DEF IsText, HasText
<1>6. Utf8At(pool, i) = Encoded(s)
  BY <1>2, <1>4, Zenon DEF Utf8At, Utf8Tag
<1> QED
  BY <1>1, <1>5, <1>6

(* So is the class. *)
LEMMA ClassFound ==
  ASSUME PoolWritable, NEW pool, Recorded(pool), NEW s, HasClass(s)
  PROVE  IsClass(pool, ClassIndex(s), s)
<1> DEFINE t == TextId(texts, s)
           e == ClassOf(t)
           i == index[e]
<1>1. ClassIndex(s) = i
  BY DEF HasClass, HasText, ClassIndex, NamedIndex, EntryIndex, ClassOf
<1>2. i \in DOMAIN pool /\ pool[i] = Stored(e)
  BY DEF Recorded, HasClass
<1>3. e.kind = "Class" /\ e.kind \in Kinds /\ e.kind \in TextKinds \ {"Utf8"}
  BY DEF ClassOf, Kinds, TextKinds
<1>4. Children(e) = <<Utf8(t)>>
  BY DEF Children, ClassOf
<1>5. Parts(e)[1] = EntryIndex(Utf8(t))
  BY <1>4 DEF Parts
<1>6. EntryIndex(Utf8(t)) = Utf8Index(s)
  BY DEF HasClass, HasText, Utf8Index, NamedIndex, EntryIndex, Utf8
<1>7. pool[i].tag = Tag("Class") /\ pool[i].of[1] = Utf8Index(s)
  <2>1. Content(e) = Parts(e)
    BY <1>3, PayloadForms
  <2> QED
    BY <1>2, <1>3, <1>5, <1>6, <2>1 DEF Stored
<1>8. IsText(pool, Utf8Index(s), s)
  BY TextFound DEF HasClass
<1> HIDE DEF i
<1> QED
  BY <1>1, <1>2, <1>7, <1>8 DEF IsClass

(* An attribute takes six bytes and its body. *)
LEMMA AttributeBytes ==
  ASSUME IndicesFit, NEW name, NEW body, IsBytes(body), Len(body) \in U31
  PROVE  /\ IsBytes(WriteAttribute(name, body)) /\ Len(body) \in Nat
         /\ Len(WriteAttribute(name, body)) = 6 + Len(body)
<1> DEFINE n == Len(body)
           i == Utf8Index(name)
<1>0. n \in Nat /\ n \in Int /\ i \in U16
  BY DEF IsBytes, IndicesFit, Utf8Index
<1>1. WriteAttribute(name, body) = U2(i) \o (U4(n) \o body)
  BY DEF WriteAttribute, Measured
<1>2. IsBytes(U4(n)) /\ Len(U4(n)) = 4
  BY <1>0, FourBytes
<1> HIDE DEF n, i
<1>3. IsBytes(U2(i)) /\ Len(U2(i)) = 2
  BY <1>0, ShortBytes
<1>4. IsBytes(U4(n) \o body) /\ Len(U4(n) \o body) = 4 + n
  BY <1>2, BytesBoth DEF n
<1> DEFINE t == U4(n) \o body
<1> HIDE DEF t
<1>5. IsBytes(U2(i) \o t) /\ Len(U2(i) \o t) = 2 + Len(t)
  BY <1>3, <1>4, BytesBoth DEF t
<1> QED
  BY <1>0, <1>1, <1>4, <1>5 DEF t, n

(* An attribute whose name is in the pool is read back.                    *)
LEMMA NamedAttribute ==
  ASSUME IndicesFit, PoolWritable, NEW pool, Recorded(pool), NEW name, HasText(name),
         NEW body, IsBytes(body), Len(body) \in U31, NEW b, IsBytes(b), NEW p, NEW q,
         Spans(b, p, WriteAttribute(name, body), q), NEW nested, NEW tree,
         BodyRead(b, Encoded(name), body, nested, tree, q)
  PROVE  /\ Attribute(b, p, pool, nested) = Read(Made(Encoded(name), tree), q)
         /\ p \in Positions(b) /\ p \in Nat \ {0} /\ q \in Nat \ {0}
<1>1. Utf8Index(name) \in U16
  BY DEF IndicesFit, Utf8Index
<1>2. Utf8At(pool, Utf8Index(name)) = Encoded(name)
  BY TextFound
<1>3. Spans(b, p, U2(Utf8Index(name)) \o Measured(body), q)
  BY DEF WriteAttribute
<1> QED
  BY <1>1, <1>2, <1>3, AttributeHeld

(* A method whose texts and classes are in the pool.                       *)
MethodReady(m) ==
  /\ m \in Methods /\ Ordered(m.frames) /\ MapFits(m.frames)
  /\ \A s \in {m.name, m.descriptor, "Code", "LineNumberTable"} : HasText(s)
  /\ m.frames # <<>> =>
       /\ HasText("StackMapTable")
       /\ \A s \in ToSet(FrameObjectClasses(m.frames, m.entryLocals)) : HasClass(s)

(* The fields of a method. *)
LEMMA MethodFields ==
  ASSUME NEW m \in Methods
  PROVE  /\ m.access \in U16 /\ m.maxStack \in U16 /\ m.maxLocals \in U16
         /\ m.code \in Counted(0..255) /\ m.lines \in Counted(U16 \X U16)
         /\ m.entryLocals \in Seq(VerificationTypes) /\ m.frames \in Counted(StackFrames)
         /\ m.frames \in Seq(StackFrames) /\ Len(m.frames) \in U16 /\ Len(m.frames) \in Nat
<1> DEFINE M == m.frames
<1>1. /\ m.access \in U16 /\ m.maxStack \in U16 /\ m.maxLocals \in U16
      /\ m.code \in Counted(0..255) /\ m.lines \in Counted(U16 \X U16)
      /\ m.entryLocals \in Seq(VerificationTypes) /\ M \in Counted(StackFrames)
  BY Zenon DEF Methods
<1> HIDE DEF M
<1>2. M \in Seq(StackFrames) /\ Len(M) \in Nat
  BY <1>1, SMT DEF Counted
<1>3. Len(M) \in U16
  BY <1>1, <1>2, U16Range, SMT DEF Counted
<1> QED
  BY <1>1, <1>2, <1>3, Zenon DEF M

(* The length of a stack map. *)
LEMMA MapTableBytes ==
  ASSUME IndicesFit, NEW m \in Methods, Ordered(m.frames), MapFits(m.frames)
  PROVE  /\ StackMapTable(m) = U2(Len(m.frames)) \o FlattenSeq(MapBytes(m.frames, m.entryLocals))
         /\ IsBytes(StackMapTable(m)) /\ Len(StackMapTable(m)) \in Nat
         /\ Len(StackMapTable(m)) <= MapLimit
<1> DEFINE frames == m.frames
           entry == m.entryLocals
           n == Len(frames)
           t == FlattenSeq(MapBytes(frames, entry))
           s == U2(n)
<1>1. frames \in Seq(StackFrames) /\ entry \in Seq(VerificationTypes) /\ n \in Nat /\ n \in U16
  BY MethodFields
<1>2. DOMAIN WriteStackMapBody(frames, entry) = DOMAIN frames /\ DOMAIN frames = 1..n
      /\ Len(WriteStackMapBody(frames, entry)) = n
  BY <1>1 DEF WriteStackMapBody
<1>3. StackMapTable(m) = s \o t
  <2>1. StackMapTable(m) = U2(Len(WriteStackMapBody(frames, entry))) \o t
    BY <1>2 DEF StackMapTable, MapBytes
  <2> HIDE DEF t
  <2> QED
    BY <1>2, <2>1
<1>4. IsBytes(t) /\ Len(TypesIn(frames)) \in Nat
      /\ Len(t) <= 7 * n + 3 * Len(TypesIn(frames))
  <2>1. Ordered(frames)
    OBVIOUS
  <2> HIDE DEF frames, entry
  <2> QED
    BY <1>1, <2>1, MapLength DEF n
<1>5. MapFits(frames)
  OBVIOUS
<1>6. IsBytes(s) /\ Len(s) = 2
  BY <1>1, ShortBytes
<1> HIDE DEF s, t, frames, entry
<1>a. 7 * n + 3 * Len(TypesIn(frames)) <= 1000000000
  BY <1>5, SMT DEF MapFits
<1> HIDE DEF n
<1>7. Len(t) \in Nat
  BY <1>4 DEF IsBytes
<1>8. IsBytes(s \o t) /\ Len(s \o t) = Len(s) + Len(t)
  BY <1>4, <1>6, BytesBoth
<1>9. Len(s \o t) \in Nat /\ Len(s \o t) <= MapLimit
  BY <1>1, <1>4, <1>a, <1>6, <1>7, <1>8, SMT DEF MapLimit
<1> QED
  BY <1>3, <1>8, <1>9, SMT DEF s, t, n, frames, entry

(* The line number table of a method is read back.                         *)
LEMMA LinesReadBack ==
  ASSUME IndicesFit, PoolWritable, NEW pool, Recorded(pool), NEW m, MethodReady(m),
         NEW b, IsBytes(b), NEW p, NEW q,
         Spans(b, p, WriteAttribute("LineNumberTable", LineNumberTable(m)), q), NEW nested
  PROVE  /\ Attribute(b, p, pool, nested) = Read(Made(LineNumberTableName, m.lines), q)
         /\ p \in Positions(b) /\ p \in Nat \ {0} /\ q \in Nat \ {0}
<1> DEFINE body == LineNumberTable(m)
<1>1. m.lines \in Counted(U16 \X U16)
  BY MethodFields DEF MethodReady
<1>2. /\ body = U2(Len(m.lines)) \o FlattenSeq(LineBytes(m.lines))
      /\ IsBytes(body) /\ Len(body) \in U31
  <2>1. /\ body = U2(Len(m.lines)) \o FlattenSeq(LineBytes(m.lines))
        /\ IsBytes(body) /\ Len(body) \in Nat /\ Len(body) <= LineTableLimit
    BY <1>1, LineTableBytes
  <2> DEFINE len == Len(body)
  <2> HIDE DEF len
  <2>3. len \in Nat /\ len <= 262142
    BY <2>1, SMT DEF len, LineTableLimit
  <2>4. len \in U31
    BY <2>3, U31Range, SMT
  <2> QED
    BY <2>1, <2>4 DEF len
<1>3. Encoded("LineNumberTable") = LineNumberTableName
  BY TextsAssumption, SMT
<1>4. BodyRead(b, LineNumberTableName, body, nested, m.lines, q)
  <2> SUFFICES ASSUME NEW r, Spans(b, r, body, q)
               PROVE  AttributeBody(b, LineNumberTableName, Len(body), r, nested) = Read(m.lines, q)
    BY DEF BodyRead
  <2>1. AttributeBody(b, LineNumberTableName, Len(body), r, nested) = LineNumbers(b, r)
    BY BodyNamed
  <2>2. LineNumbers(b, r) = Read(m.lines, q)
    BY <1>1, <1>2, LinesHeld
  <2> QED
    BY <2>1, <2>2
<1>5. HasText("LineNumberTable")
  BY DEF MethodReady
<1> HIDE DEF body
<1>6. Spans(b, p, WriteAttribute("LineNumberTable", body), q)
  BY DEF body
<1>7. BodyRead(b, Encoded("LineNumberTable"), body, nested, m.lines, q)
  BY <1>3, <1>4
<1>8. /\ Attribute(b, p, pool, nested) = Read(Made(Encoded("LineNumberTable"), m.lines), q)
      /\ p \in Positions(b) /\ p \in Nat \ {0} /\ q \in Nat \ {0}
  BY <1>2, <1>5, <1>6, <1>7, NamedAttribute
<1> QED
  BY <1>3, <1>8

(* So is its stack map, as relative frames. *)
LEMMA MapReadBack ==
  ASSUME IndicesFit, PoolWritable, NEW pool, Recorded(pool), NEW m, MethodReady(m),
         m.frames # <<>>, NEW b, IsBytes(b), NEW p, NEW q,
         Spans(b, p, WriteAttribute("StackMapTable", StackMapTable(m)), q), NEW nested
  PROVE  /\ Attribute(b, p, pool, nested)
              = Read(Made(StackMapTableName, MapEntries(m.frames, m.entryLocals)), q)
         /\ p \in Positions(b) /\ p \in Nat \ {0} /\ q \in Nat \ {0}
<1> DEFINE body == StackMapTable(m)
           frames == m.frames
           entry == m.entryLocals
           tree == MapEntries(frames, entry)
<1>1. frames \in Counted(StackFrames) /\ entry \in Seq(VerificationTypes) /\ Ordered(frames)
  BY MethodFields DEF MethodReady
<1>2. /\ body = U2(Len(frames)) \o FlattenSeq(MapBytes(frames, entry))
      /\ IsBytes(body) /\ Len(body) \in U31
  <2>1. m \in Methods /\ Ordered(m.frames) /\ MapFits(m.frames)
    BY DEF MethodReady
  <2> QED
    BY <2>1, MapTableBytes, U31Range, SMT DEF MapLimit
<1>3. Encoded("StackMapTable") = StackMapTableName
  BY TextsAssumption, SMT
<1> HIDE DEF frames, entry, tree
<1>4. BodyRead(b, StackMapTableName, body, nested, tree, q)
  <2> SUFFICES ASSUME NEW r, Spans(b, r, body, q)
               PROVE  AttributeBody(b, StackMapTableName, Len(body), r, nested) = Read(tree, q)
    BY DEF BodyRead
  <2>1. AttributeBody(b, StackMapTableName, Len(body), r, nested) = StackMapFrames(b, r)
    BY BodyNamed
  <2>2. StackMapFrames(b, r) = Read(tree, q)
    <3>1. Spans(b, r, U2(Len(frames)) \o FlattenSeq(MapBytes(frames, entry)), q)
      BY <1>2
    <3> QED
      BY <1>1, <3>1, MapHeld DEF tree
  <2> QED
    BY <2>1, <2>2
<1>5. HasText("StackMapTable")
  BY DEF MethodReady
<1> HIDE DEF body
<1>6. Spans(b, p, WriteAttribute("StackMapTable", body), q)
  BY DEF body
<1>7. BodyRead(b, Encoded("StackMapTable"), body, nested, tree, q)
  BY <1>3, <1>4
<1>8. /\ Attribute(b, p, pool, nested) = Read(Made(Encoded("StackMapTable"), tree), q)
      /\ p \in Positions(b) /\ p \in Nat \ {0} /\ q \in Nat \ {0}
  BY <1>2, <1>5, <1>6, <1>7, NamedAttribute
<1> QED
  BY <1>3, <1>8 DEF tree, frames, entry

(* No items. *)
LEMMA NoItems ==
  ASSUME NEW b, IsBytes(b), NEW p, NEW q, Spans(b, p, U2(0), q), NEW item
  PROVE  CountedBy(b, p, item) = Read(<<>>, q) /\ q # 0
<1>1. 0 \in U16
  BY U16Range
<1>2. Short(b, p) = Read(0, q) /\ q \in Nat \ {0}
  BY <1>1, ShortReads
<1>3. Items(0, item, q) = Read(<<>>, q)
  <2> DEFINE at == [k \in 1..(0 + 1) |-> q]
  <2>1. Follow(0, item, at, <<>>)
    BY <1>2 DEF Follow
  <2>2. <<>> \in Seq({}) /\ Len(<<>>) = 0 /\ at[1] = q /\ at[0 + 1] = q
    OBVIOUS
  <2> HIDE DEF at
  <2>3. Items(0, item, at[1]) = Read(<<>>, at[0 + 1])
    BY <2>1, <2>2, ItemsRead
  <2> QED
    BY <2>2, <2>3
<1>4. Short(b, p).at = q /\ Short(b, p).tree = 0
  BY <1>2, ReadParts
<1>5. q # 0
  BY <1>2
<1>6. CountedBy(b, p, item) = Items(0, item, q)
  BY <1>4, <1>5, Zenon DEF CountedBy, Then
<1> QED
  BY <1>3, <1>5, <1>6

(* A count and that many items. *)
LEMMA CountedItems ==
  ASSUME NEW b, NEW p, NEW n, NEW x, x # 0, Short(b, p) = Read(n, x), NEW item
  PROVE  CountedBy(b, p, item) = Items(n, item, x)
<1>1. Short(b, p).at = x /\ Short(b, p).tree = n
  BY ReadParts
<1> QED
  BY <1>1, Zenon DEF CountedBy, Then

(* The tables of a Code attribute, as they are read.                       *)
MapTree(m) == Made(StackMapTableName, MapEntries(m.frames, m.entryLocals))

LineTree(m) == Made(LineNumberTableName, m.lines)

Tables(m) == IF m.frames = <<>> THEN <<LineTree(m)>> ELSE <<LineTree(m), MapTree(m)>>

CodeTree(m) ==
  [maxStack |-> m.maxStack, maxLocals |-> m.maxLocals, code |-> m.code,
   handlers |-> <<>>, attributes |-> Tables(m)]

(* And as they are written. *)
LineTable(m) == WriteAttribute("LineNumberTable", LineNumberTable(m))

MapTable(m) == WriteAttribute("StackMapTable", StackMapTable(m))

TableBytes(m) ==
  U2(IF m.frames = <<>> THEN 1 ELSE 2)
    \o (LineTable(m) \o IF m.frames = <<>> THEN <<>> ELSE MapTable(m))

TableLimit == 1000262162

(* The tables are bytes, not too many. *)
LEMMA TablesWritten ==
  ASSUME IndicesFit, NEW m, MethodReady(m)
  PROVE  /\ IsBytes(LineTable(m)) /\ IsBytes(MapTable(m))
         /\ IsBytes(TableBytes(m)) /\ Len(TableBytes(m)) \in Nat
         /\ Len(TableBytes(m)) <= TableLimit
<1> DEFINE L == LineNumberTable(m)
           M == StackMapTable(m)
           l == LineTable(m)
           r == MapTable(m)
           rest == IF m.frames = <<>> THEN <<>> ELSE r
           n == IF m.frames = <<>> THEN 1 ELSE 2
<1>1. IsBytes(L) /\ Len(L) \in Nat /\ Len(L) <= LineTableLimit
  BY MethodFields, LineTableBytes DEF MethodReady
<1>2. IsBytes(M) /\ Len(M) \in Nat /\ Len(M) <= MapLimit
  BY MapTableBytes DEF MethodReady
<1> HIDE DEF L, M
<1>3. Len(L) \in U31 /\ Len(M) \in U31
  BY <1>1, <1>2, U31Range, SMT DEF LineTableLimit, MapLimit
<1>4. IsBytes(l) /\ Len(l) = 6 + Len(L)
  BY <1>1, <1>3, AttributeBytes DEF LineTable, L
<1>5. IsBytes(r) /\ Len(r) = 6 + Len(M)
  BY <1>2, <1>3, AttributeBytes DEF MapTable, M
<1>6. n \in U16
  BY U16Range, SMT
<1>7. IsBytes(U2(n)) /\ Len(U2(n)) = 2
  BY <1>6, ShortBytes
<1> HIDE DEF l, r
<1>8. IsBytes(rest) /\ Len(rest) \in Nat /\ Len(rest) <= 6 + Len(M)
  <2>1. IsBytes(<<>>) /\ Len(<<>>) = 0
    BY DEF IsBytes
  <2> QED
    BY <1>2, <1>5, <2>1
<1>9. TableBytes(m) = U2(n) \o (l \o rest)
  BY DEF TableBytes, l, r
<1> HIDE DEF rest, n
<1>10. IsBytes(l \o rest) /\ Len(l \o rest) = Len(l) + Len(rest)
  BY <1>4, <1>8, BytesBoth
<1> DEFINE t == l \o rest
           s == U2(n)
<1>11. IsBytes(t) /\ Len(t) = Len(l) + Len(rest) /\ IsBytes(s) /\ Len(s) = 2
  BY <1>7, <1>10
<1> HIDE DEF t, s
<1>12. IsBytes(s \o t) /\ Len(s \o t) = Len(s) + Len(t)
  BY <1>11, BytesBoth
<1>13. Len(s \o t) \in Nat /\ Len(s \o t) <= TableLimit
  BY <1>1, <1>2, <1>4, <1>8, <1>11, <1>12, SMT DEF LineTableLimit, MapLimit, TableLimit
<1>14. TableBytes(m) = s \o t
  BY <1>9 DEF s, t
<1> QED
  BY <1>4, <1>5, <1>12, <1>13, <1>14 DEF l, r

(* A reader of attributes, on every position of the file.                  *)
ReadsAttributes(b, pool, reader, nested) ==
  \A p \in Positions(b) : reader[p] = Attribute(b, p, pool, nested)

(* The tables of a method are read back. *)
LEMMA TablesHeld ==
  ASSUME IndicesFit, PoolWritable, NEW pool, Recorded(pool), NEW m, MethodReady(m),
         NEW b, IsBytes(b), NEW p, NEW q, Spans(b, p, TableBytes(m), q),
         NEW nested, NEW inner, ReadsAttributes(b, pool, nested, inner)
  PROVE  CountedBy(b, p, nested) = Read(Tables(m), q) /\ q # 0
<1> DEFINE l == LineTable(m)
           r == MapTable(m)
           rest == IF m.frames = <<>> THEN <<>> ELSE r
           n == IF m.frames = <<>> THEN 1 ELSE 2
           s == U2(n)
<1>1. IsBytes(l) /\ IsBytes(r)
  BY TablesWritten
<1>2. IsBytes(rest)
  BY <1>1 DEF IsBytes
<1>3. n \in U16
  BY U16Range, SMT
<1>4. IsBytes(s) /\ IsBytes(l \o rest)
  <2>1. IsBytes(s)
    BY <1>3, ShortBytes
  <2> HIDE DEF s, l, rest
  <2> QED
    BY <1>1, <1>2, <2>1, BytesBoth
<1>5. TableBytes(m) = s \o (l \o rest)
  BY DEF TableBytes
<1>6. PICK x : Spans(b, p, s, x) /\ Spans(b, x, l \o rest, q)
  <2> DEFINE t == l \o rest
  <2> HIDE DEF s, t
  <2>1. Spans(b, p, s \o t, q)
    BY <1>5 DEF t
  <2>2. IsBytes(t)
    BY <1>4 DEF t
  <2> QED
    BY <1>4, <2>1, <2>2, SpansBoth DEF t
<1>7. PICK y : Spans(b, x, l, y) /\ Spans(b, y, rest, q)
  <2> HIDE DEF l, rest
  <2> QED
    BY <1>1, <1>2, <1>6, SpansBoth
<1>8. Short(b, p) = Read(n, x) /\ x \in Nat \ {0}
  BY <1>3, <1>6, ShortReads
<1>9. /\ Attribute(b, x, pool, inner) = Read(LineTree(m), y)
      /\ x \in Positions(b) /\ y \in Nat \ {0}
  BY <1>7, LinesReadBack DEF LineTable, LineTree
<1>10. nested[x] = Read(LineTree(m), y)
  BY <1>9 DEF ReadsAttributes
<1>11. CountedBy(b, p, nested) = Items(n, nested, x)
  <2> HIDE DEF n
  <2> QED
    BY <1>8, CountedItems
<1>12. CASE m.frames = <<>>
  <2>1. rest = <<>> /\ n = 1 /\ Tables(m) = <<LineTree(m)>>
    BY <1>12 DEF Tables
  <2>2. q = y
    BY <1>7, <1>9, <2>1 DEF Spans
  <2>3. Items(1, nested, x) = Read(<<LineTree(m)>>, y)
    BY <1>8, <1>9, <1>10, OneItem
  <2> QED
    BY <1>9, <1>11, <2>1, <2>2, <2>3
<1>13. CASE m.frames # <<>>
  <2>1. rest = r /\ n = 2 /\ Tables(m) = <<LineTree(m), MapTree(m)>>
    BY <1>13 DEF Tables
  <2>2. /\ Attribute(b, y, pool, inner) = Read(MapTree(m), q)
        /\ y \in Positions(b) /\ q \in Nat \ {0}
    BY <1>7, <1>13, <2>1, MapReadBack DEF MapTable, MapTree
  <2>3. nested[y] = Read(MapTree(m), q)
    BY <2>2 DEF ReadsAttributes
  <2>4. Items(2, nested, x) = Read(<<LineTree(m), MapTree(m)>>, q)
    BY <1>8, <1>9, <1>10, <2>2, <2>3, TwoItems
  <2> QED
    BY <1>11, <2>1, <2>2, <2>4
<1> QED
  BY <1>12, <1>13

(* What comes before the tables of a Code attribute.                       *)
CodeHead(m) == U2(m.maxStack) \o U2(m.maxLocals) \o Measured(m.code) \o NoHandlers

(* Its parts are bytes. *)
LEMMA CodeParts ==
  ASSUME NEW m, MethodReady(m)
  PROVE  /\ IsBytes(U2(m.maxStack)) /\ IsBytes(U2(m.maxLocals)) /\ IsBytes(NoHandlers)
         /\ IsBytes(U4(Len(m.code))) /\ IsBytes(m.code) /\ IsBytes(Measured(m.code))
         /\ Len(m.code) \in U31
         /\ IsBytes(CodeHead(m)) /\ Len(CodeHead(m)) \in Nat /\ Len(CodeHead(m)) <= 10 + Len(m.code)
         /\ Len(m.code) \in Nat /\ Len(m.code) \in U16
<1> DEFINE c == m.code
           n == Len(c)
           A == U2(m.maxStack)
           B == U2(m.maxLocals)
           D == NoHandlers
<1>1. m.maxStack \in U16 /\ m.maxLocals \in U16 /\ c \in Counted(0..255)
  BY MethodFields DEF MethodReady
<1>2. IsBytes(A) /\ Len(A) = 2 /\ IsBytes(B) /\ Len(B) = 2
  BY <1>1, ShortBytes
<1>3. 0 \in U16
  BY U16Range
<1>4. IsBytes(D) /\ Len(D) = 2
  BY <1>3, ShortBytes DEF NoHandlers
<1>5. IsBytes(c) /\ n \in Nat
  BY <1>1 DEF Counted, IsBytes, Octets
<1>6. n \in U16 /\ n \in U31
  BY <1>1, <1>5, U16Range, U31Range, SMT DEF Counted
<1>7. IsBytes(U4(n)) /\ Len(U4(n)) = 4
  <2>1. n \in Int
    BY <1>5
  <2> HIDE DEF n
  <2> QED
    BY <2>1, FourBytes
<1> HIDE DEF A, B, D, n
<1> DEFINE M == U4(n) \o c
<1>8. IsBytes(M) /\ Len(M) = 4 + n
  BY <1>5, <1>7, BytesBoth DEF n
<1>9. Measured(c) = M
  BY DEF Measured, n
<1> HIDE DEF M, c
<1>10. IsBytes(A \o B) /\ Len(A \o B) = 4
  <2>1. IsBytes(A \o B) /\ Len(A \o B) = Len(A) + Len(B)
    BY <1>2, BytesBoth
  <2> QED
    BY <1>2, <2>1
<1> DEFINE AB == A \o B
<1> HIDE DEF AB
<1>11. IsBytes(AB \o M) /\ Len(AB \o M) = 8 + n
  BY <1>8, <1>10, <1>5, BytesBoth DEF AB
<1> DEFINE ABM == AB \o M
<1> HIDE DEF ABM
<1>12. IsBytes(ABM \o D) /\ Len(ABM \o D) = 10 + n
  <2>1. IsBytes(ABM \o D) /\ Len(ABM \o D) = Len(ABM) + Len(D)
    BY <1>4, <1>11, BytesBoth DEF ABM
  <2>2. Len(ABM) = 8 + n
    BY <1>11 DEF ABM
  <2> QED
    BY <1>4, <1>5, <2>1, <2>2
<1>13. CodeHead(m) = ABM \o D
  BY <1>9 DEF CodeHead, ABM, AB, A, B, D, c
<1> QED
  BY <1>2, <1>4, <1>5, <1>6, <1>7, <1>8, <1>9, <1>12, <1>13 DEF A, B, D, n, c

(* A Code attribute is this and the tables. *)
LEMMA CodeBytes ==
  ASSUME IndicesFit, NEW m, MethodReady(m)
  PROVE  /\ CodeBody(m) = CodeHead(m) \o TableBytes(m)
         /\ IsBytes(CodeBody(m)) /\ Len(CodeBody(m)) \in U31
<1> DEFINE n == IF m.frames = <<>> THEN 1 ELSE 2
           s == U2(n)
           l == LineTable(m)
           rest == IF m.frames = <<>> THEN <<>> ELSE MapTable(m)
           h == CodeHead(m)
           t == TableBytes(m)
<1>1. IsBytes(l) /\ IsBytes(MapTable(m)) /\ IsBytes(t) /\ Len(t) \in Nat /\ Len(t) <= TableLimit
  BY TablesWritten
<1>2. IsBytes(rest)
  BY <1>1 DEF IsBytes
<1>3. n \in U16
  BY U16Range, SMT
<1>4. IsBytes(s)
  BY <1>3, ShortBytes
<1>5. IsBytes(h) /\ Len(h) \in Nat /\ Len(h) <= 10 + Len(m.code) /\ Len(m.code) \in U16
  BY CodeParts
<1>6. CodeBody(m) = h \o s \o l \o rest
  BY DEF CodeBody, CodeHead, LineTable, MapTable
<1>7. t = s \o (l \o rest)
  BY DEF TableBytes
<1> HIDE DEF h, s, l, rest, t, n
<1>8. h \o s \o l \o rest = h \o t
  <2>a. IsBytes(h) /\ IsBytes(s) /\ IsBytes(l) /\ IsBytes(rest)
    BY <1>1, <1>2, <1>4, <1>5
  <2>1. FourInARow(h, s, l, rest) = OneAndThree(h, s, l, rest)
    BY <2>a, Regrouped
  <2> QED
    BY <1>7, <2>1 DEF FourInARow, OneAndThree
<1>9. IsBytes(h \o t) /\ Len(h \o t) = Len(h) + Len(t)
  BY <1>1, <1>5, BytesBoth
<1>10. Len(h \o t) \in U31
  BY <1>1, <1>5, <1>9, U16Range, U31Range, SMT DEF TableLimit
<1> QED
  BY <1>6, <1>8, <1>9, <1>10 DEF h, t

(* How the parts of a Code attribute are put together.                     *)
LEMMA CodeRead ==
  ASSUME NEW b, NEW p, NEW nested, NEW max, NEW n, NEW code, NEW handlers, NEW attributes,
         NEW q, NEW r, NEW s, NEW t, NEW u, q # 0, r # 0, s # 0, t # 0, u # 0,
         Shorts(b, p, 2) = Read(max, q), Word(b, q) = Read(n, r), Bytes(b, r, n) = Read(code, s),
         CountedBy(b, s, HandlerReader(b)) = Read(handlers, t),
         CountedBy(b, t, nested) = Read(attributes, u)
  PROVE  Code(b, p, nested) =
           Read([maxStack |-> max[1], maxLocals |-> max[2], code |-> code,
                 handlers |-> handlers, attributes |-> attributes], u)
<1> DEFINE Made5(a, c, d, e) ==
             [maxStack |-> a[1], maxLocals |-> a[2], code |-> c, handlers |-> d, attributes |-> e]
<1>1. Shorts(b, p, 2).at = q /\ Shorts(b, p, 2).tree = max
  BY ReadParts
<1>2. Word(b, q).at = r /\ Word(b, q).tree = n
  BY ReadParts
<1>3. Bytes(b, r, n).at = s /\ Bytes(b, r, n).tree = code
  BY ReadParts
<1>4. CountedBy(b, s, HandlerReader(b)).at = t /\ CountedBy(b, s, HandlerReader(b)).tree = handlers
  BY ReadParts
<1>5. CountedBy(b, t, nested).at = u /\ CountedBy(b, t, nested).tree = attributes
  BY ReadParts
<1>6. Code(b, p, nested) =
        Then(Word(b, q), LAMBDA m, x :
          Then(Bytes(b, x, m), LAMBDA c, y :
            Then(CountedBy(b, y, HandlerReader(b)), LAMBDA d, z :
              Then(CountedBy(b, z, nested), LAMBDA e, w : Read(Made5(max, c, d, e), w)))))
  BY <1>1, Zenon DEF Code, Then
<1>7. Code(b, p, nested) =
        Then(Bytes(b, r, n), LAMBDA c, y :
          Then(CountedBy(b, y, HandlerReader(b)), LAMBDA d, z :
            Then(CountedBy(b, z, nested), LAMBDA e, w : Read(Made5(max, c, d, e), w))))
  BY <1>2, <1>6, Zenon DEF Then
<1>8. Code(b, p, nested) =
        Then(CountedBy(b, s, HandlerReader(b)), LAMBDA d, z :
          Then(CountedBy(b, z, nested), LAMBDA e, w : Read(Made5(max, code, d, e), w)))
  BY <1>3, <1>7, Zenon DEF Then
<1>9. Code(b, p, nested) =
        Then(CountedBy(b, t, nested), LAMBDA e, w : Read(Made5(max, code, handlers, e), w))
  BY <1>4, <1>8, Zenon DEF Then
<1>10. Code(b, p, nested) = Read(Made5(max, code, handlers, attributes), u)
  BY <1>5, <1>9, Zenon DEF Then
<1> QED
  BY <1>10

(* The Code attribute of a method is read back. *)
LEMMA CodeHeld ==
  ASSUME IndicesFit, PoolWritable, NEW pool, Recorded(pool), NEW m, MethodReady(m),
         NEW b, IsBytes(b), NEW p, NEW q, Spans(b, p, CodeBody(m), q),
         NEW nested, NEW inner, ReadsAttributes(b, pool, nested, inner)
  PROVE  Code(b, p, nested) = Read(CodeTree(m), q) /\ q # 0
<1> DEFINE A == U2(m.maxStack)
           B == U2(m.maxLocals)
           C == Measured(m.code)
           D == NoHandlers
           T == TableBytes(m)
           H == CodeHead(m)
           max == <<m.maxStack, m.maxLocals>>
<1>1. IsBytes(A) /\ IsBytes(B) /\ IsBytes(C) /\ IsBytes(D) /\ IsBytes(H)
  BY CodeParts
<1>2. IsBytes(T) /\ CodeBody(m) = H \o T
  BY TablesWritten, CodeBytes
<1>3. H = A \o B \o C \o D
  BY DEF CodeHead
<1> HIDE DEF A, B, C, D, T, H
<1>4. PICK s1 : Spans(b, p, H, s1) /\ Spans(b, s1, T, q)
  BY <1>1, <1>2, SpansBoth
<1> DEFINE AB == A \o B
<1>a. IsBytes(AB)
  BY <1>1, BytesBoth
<1>5. PICK x, y : Spans(b, p, AB, x) /\ Spans(b, x, C, y) /\ Spans(b, y, D, s1)
  <2>1. Spans(b, p, AB \o C \o D, s1)
    BY <1>3, <1>4
  <2> HIDE DEF AB
  <2> QED
    BY <1>1, <1>a, <2>1, SpansThree
<1>6. Shorts(b, p, 2) = Read(max, x) /\ x # 0
  <2>1. m.maxStack \in U16 /\ m.maxLocals \in U16
    BY MethodFields DEF MethodReady
  <2>2. Shorts(b, p, 2) = Read(max, x)
    BY <1>5, <2>1, TwoShorts DEF A, B
  <2>3. x # 0
    <3> HIDE DEF AB
    <3> QED
      BY <1>a, <1>5, SpansAt
  <2> QED
    BY <2>2, <2>3
<1> HIDE DEF AB
<1> DEFINE n == Len(m.code)
<1>7. C = U4(n) \o m.code /\ IsBytes(U4(n)) /\ IsBytes(m.code) /\ n \in U31
  BY CodeParts DEF C, Measured
<1> DEFINE w == U4(n)
<1> HIDE DEF w
<1>8. PICK z : Spans(b, x, w, z) /\ Spans(b, z, m.code, y)
  BY <1>5, <1>7, SpansBoth DEF w
<1>9. Word(b, x) = Read(n, z) /\ z # 0
  BY <1>7, <1>8, WordReads DEF w
<1>10. Bytes(b, z, n) = Read(m.code, y) /\ y # 0
  BY <1>7, <1>8, BytesHeld, SpansAt
<1>11. CountedBy(b, y, HandlerReader(b)) = Read(<<>>, s1) /\ s1 # 0
  BY <1>5, NoItems DEF D, NoHandlers
<1>12. CountedBy(b, s1, nested) = Read(Tables(m), q) /\ q # 0
  BY <1>4, TablesHeld DEF T
<1> HIDE DEF n, max
<1>13. Code(b, p, nested) =
         Read([maxStack |-> max[1], maxLocals |-> max[2], code |-> m.code,
               handlers |-> <<>>, attributes |-> Tables(m)], q)
  BY <1>6, <1>9, <1>10, <1>11, <1>12, CodeRead
<1>14. max[1] = m.maxStack /\ max[2] = m.maxLocals
  BY DEF max
<1> QED
  BY <1>12, <1>13, <1>14 DEF CodeTree

-----------------------------------------------------------------------------
(* Methods. *)
CodeAttribute(m) == Made(CodeName, CodeTree(m))

MemberTree(m) ==
  [access |-> m.access, name |-> Utf8Index(m.name), descriptor |-> Utf8Index(m.descriptor),
   attributes |-> <<CodeAttribute(m)>>]

(* A reader of one attribute. *)
LEMMA OneAttribute ==
  ASSUME NEW b, IsBytes(b), NEW pool, NEW reader, NEW nested,
         ReadsAttributes(b, pool, reader, nested), NEW p, NEW x, NEW q, NEW tree,
         Spans(b, p, U2(1), x),
         Attribute(b, x, pool, nested) = Read(tree, q), x \in Positions(b), q \in Nat \ {0}
  PROVE  CountedBy(b, p, reader) = Read(<<tree>>, q)
<1>1. 1 \in U16
  BY U16Range
<1>2. Short(b, p) = Read(1, x) /\ x \in Nat \ {0}
  BY <1>1, ShortReads
<1>3. reader[x] = Read(tree, q)
  BY DEF ReadsAttributes
<1>4. Items(1, reader, x) = Read(<<tree>>, q)
  BY <1>2, <1>3, OneItem
<1>5. CountedBy(b, p, reader) = Items(1, reader, x)
  BY <1>2, CountedItems
<1> QED
  BY <1>4, <1>5

(* The readers of the attributes of a member and of its code.              *)
Nests(b, pool, nested, inner) ==
  ReadsAttributes(b, pool, AttributeReader(b, pool), nested)
    /\ ReadsAttributes(b, pool, nested, inner)

(* A file that holds a number has such readers. *)
LEMMA ReadersFound ==
  ASSUME NEW b, IsBytes(b), NEW pool, NEW p, NEW q, NEW v \in U16, Spans(b, p, U2(v), q)
  PROVE  \E nested, inner : Nests(b, pool, nested, inner)
<1>1. IsBytes(U2(v)) /\ Len(U2(v)) = 2
  BY ShortBytes
<1>2. p \in Nat \ {0} /\ p + 2 <= Len(b) + 1 /\ Len(b) \in Nat
  BY <1>1 DEF Spans, Holds, IsBytes
<1>3. Len(b) >= 2
  BY <1>2
<1> QED
  BY <1>3, ReadersNest DEF Nests, ReadsAttributes

(* The Code attribute of a method is read back under its name. *)
LEMMA CodeAttributeHeld ==
  ASSUME IndicesFit, PoolWritable, NEW pool, Recorded(pool), NEW m, MethodReady(m),
         NEW b, IsBytes(b), NEW p, NEW q, Spans(b, p, WriteAttribute("Code", CodeBody(m)), q),
         NEW nested, NEW inner, ReadsAttributes(b, pool, nested, inner)
  PROVE  /\ Attribute(b, p, pool, nested) = Read(CodeAttribute(m), q)
         /\ p \in Positions(b) /\ p \in Nat \ {0} /\ q \in Nat \ {0}
<1> DEFINE body == CodeBody(m)
           tree == CodeTree(m)
<1>1. IsBytes(body) /\ Len(body) \in U31
  BY CodeBytes
<1>2. Encoded("Code") = CodeName
  BY TextsAssumption, SMT
<1>3. HasText("Code")
  BY DEF MethodReady
<1>4. BodyRead(b, CodeName, body, nested, tree, q)
  <2> SUFFICES ASSUME NEW r, Spans(b, r, body, q)
               PROVE  AttributeBody(b, CodeName, Len(body), r, nested) = Read(tree, q)
    BY DEF BodyRead
  <2>1. AttributeBody(b, CodeName, Len(body), r, nested) = Code(b, r, nested)
    BY BodyNamed
  <2>2. Code(b, r, nested) = Read(tree, q)
    BY CodeHeld
  <2> QED
    BY <2>1, <2>2
<1> HIDE DEF tree
<1>5. BodyRead(b, Encoded("Code"), body, nested, tree, q)
  BY <1>2, <1>4
<1>6. /\ Attribute(b, p, pool, nested) = Read(Made(Encoded("Code"), tree), q)
      /\ p \in Positions(b) /\ p \in Nat \ {0} /\ q \in Nat \ {0}
  BY <1>1, <1>3, <1>5, NamedAttribute
<1> QED
  BY <1>2, <1>6 DEF CodeAttribute, tree

(* The bytes of a method. *)
MethodHead(m) == U2(m.access) \o U2(Utf8Index(m.name)) \o U2(Utf8Index(m.descriptor))

(* They are its head and its one attribute. *)
LEMMA MethodParts ==
  ASSUME IndicesFit, NEW m, MethodReady(m)
  PROVE  /\ m.access \in U16 /\ Utf8Index(m.name) \in U16 /\ Utf8Index(m.descriptor) \in U16
         /\ IsBytes(MethodHead(m)) /\ IsBytes(U2(1)) /\ IsBytes(WriteAttribute("Code", CodeBody(m)))
         /\ WriteMethod(m) = MethodHead(m) \o U2(1) \o WriteAttribute("Code", CodeBody(m))
         /\ IsBytes(WriteMethod(m))
<1> DEFINE a == U2(m.access)
           n == U2(Utf8Index(m.name))
           d == U2(Utf8Index(m.descriptor))
           h == MethodHead(m)
           o == U2(1)
           c == WriteAttribute("Code", CodeBody(m))
<1>1. m.access \in U16 /\ Utf8Index(m.name) \in U16 /\ Utf8Index(m.descriptor) \in U16
  BY MethodFields DEF MethodReady, IndicesFit, Utf8Index
<1>2. 1 \in U16
  BY U16Range
<1>3. IsBytes(a) /\ IsBytes(n) /\ IsBytes(d) /\ IsBytes(o)
  BY <1>1, <1>2, ShortBytes
<1>4. IsBytes(c)
  BY CodeBytes, AttributeBytes
<1>5. h = a \o n \o d /\ WriteMethod(m) = h \o o \o c
  BY DEF MethodHead, WriteMethod
<1> HIDE DEF a, n, d, h, o, c
<1>6. IsBytes(a \o n)
  BY <1>3, BytesBoth
<1> DEFINE an == a \o n
<1> HIDE DEF an
<1>7. IsBytes(an \o d)
  BY <1>3, <1>6, BytesBoth DEF an
<1>8. IsBytes(h)
  BY <1>5, <1>7 DEF an
<1>9. IsBytes(h \o o)
  BY <1>3, <1>8, BytesBoth
<1> DEFINE ho == h \o o
<1> HIDE DEF ho
<1>10. IsBytes(ho \o c)
  BY <1>4, <1>9, BytesBoth DEF ho
<1> QED
  BY <1>1, <1>3, <1>4, <1>5, <1>8, <1>10 DEF h, o, c, ho

(* How the parts of a member are put together. *)
LEMMA MemberRead ==
  ASSUME NEW b, NEW p, NEW pool, NEW head, NEW x, NEW attributes, NEW q, x # 0, q # 0,
         Shorts(b, p, 3) = Read(head, x), Attributes(b, x, pool) = Read(attributes, q)
  PROVE  MemberAt(b, p, pool) =
           Read([access |-> head[1], name |-> head[2], descriptor |-> head[3],
                 attributes |-> attributes], q)
<1>1. Shorts(b, p, 3).at = x /\ Shorts(b, p, 3).tree = head
  BY ReadParts
<1>2. Attributes(b, x, pool).at = q /\ Attributes(b, x, pool).tree = attributes
  BY ReadParts
<1>3. MemberAt(b, p, pool) =
        Then(Attributes(b, x, pool), LAMBDA a, r :
          Read([access |-> head[1], name |-> head[2], descriptor |-> head[3],
                attributes |-> a], r))
  BY <1>1, Zenon DEF MemberAt, Then
<1> QED
  BY <1>2, <1>3, Zenon DEF Then

(* A method is read back. *)
LEMMA MemberHeld ==
  ASSUME IndicesFit, PoolWritable, NEW pool, Recorded(pool), NEW m, MethodReady(m),
         NEW b, IsBytes(b), NEW p, NEW q, Spans(b, p, WriteMethod(m), q)
  PROVE  MemberReader(b, pool)[p] = Read(MemberTree(m), q)
<1> DEFINE head == <<m.access, Utf8Index(m.name), Utf8Index(m.descriptor)>>
           h == MethodHead(m)
           c == WriteAttribute("Code", CodeBody(m))
<1>1. /\ m.access \in U16 /\ Utf8Index(m.name) \in U16 /\ Utf8Index(m.descriptor) \in U16
      /\ IsBytes(h) /\ IsBytes(U2(1)) /\ IsBytes(c) /\ WriteMethod(m) = h \o U2(1) \o c
  BY MethodParts
<1>2. PICK x, y : Spans(b, p, h, x) /\ Spans(b, x, U2(1), y) /\ Spans(b, y, c, q)
  <2> HIDE DEF h, c
  <2> QED
    BY <1>1, SpansThree
<1>3. p \in Positions(b) /\ x # 0
  BY <1>1, <1>2, SpansAt
<1>4. Shorts(b, p, 3) = Read(head, x)
  BY <1>1, <1>2, ThreeShorts DEF MethodHead
<1>5. PICK nested, inner : Nests(b, pool, nested, inner)
  <2>1. 1 \in U16
    BY U16Range
  <2> QED
    BY <1>2, <2>1, ReadersFound
<1>6. /\ Attribute(b, y, pool, nested) = Read(CodeAttribute(m), q)
      /\ y \in Positions(b) /\ y \in Nat \ {0} /\ q \in Nat \ {0}
  BY <1>2, <1>5, CodeAttributeHeld DEF Nests
<1>7. Attributes(b, x, pool) = Read(<<CodeAttribute(m)>>, q)
  <2>1. CountedBy(b, x, AttributeReader(b, pool)) = Read(<<CodeAttribute(m)>>, q)
    BY <1>2, <1>5, <1>6, OneAttribute DEF Nests
  <2> QED
    BY <2>1 DEF Attributes
<1> HIDE DEF head
<1>8. MemberAt(b, p, pool) =
        Read([access |-> head[1], name |-> head[2], descriptor |-> head[3],
              attributes |-> <<CodeAttribute(m)>>], q)
  BY <1>3, <1>4, <1>6, <1>7, MemberRead
<1>9. head[1] = m.access /\ head[2] = Utf8Index(m.name) /\ head[3] = Utf8Index(m.descriptor)
  BY DEF head
<1>10. MemberReader(b, pool)[p] = MemberAt(b, p, pool)
  BY <1>3 DEF MemberReader
<1> QED
  BY <1>8, <1>9, <1>10 DEF MemberTree

(* So are all of them. *)
MethodBytes(methods) == [k \in DOMAIN methods |-> WriteMethod(methods[k])]

MemberTrees(methods) == [k \in DOMAIN methods |-> MemberTree(methods[k])]

MethodsReady(methods) ==
  methods \in Counted(Methods) /\ \A k \in DOMAIN methods : MethodReady(methods[k])

(* Their bytes, and what is read of them. *)
LEMMA MethodsWritten ==
  ASSUME IndicesFit, NEW methods, MethodsReady(methods)
  PROVE  /\ AllBytes(MethodBytes(methods)) /\ Len(MethodBytes(methods)) = Len(methods)
         /\ Len(methods) \in U16
         /\ MemberTrees(methods) \in Seq({MemberTree(m) : m \in Methods})
         /\ Len(MemberTrees(methods)) = Len(methods)
<1> DEFINE n == Len(methods)
           T == {MemberTree(m) : m \in Methods}
<1>1. methods \in Seq(Methods) /\ n \in Nat /\ DOMAIN methods = 1..n
  BY DEF MethodsReady, Counted
<1>2. n \in U16
  BY <1>1, U16Range, SMT DEF MethodsReady, Counted
<1>3. ASSUME NEW k \in 1..n
      PROVE  IsBytes(WriteMethod(methods[k])) /\ methods[k] \in Methods
  BY <1>1, MethodParts DEF MethodsReady
<1>4. MethodBytes(methods) = [k \in 1..n |-> WriteMethod(methods[k])]
      /\ MemberTrees(methods) = [k \in 1..n |-> MemberTree(methods[k])]
  BY <1>1 DEF MethodBytes, MemberTrees
<1>5. \A k \in 1..n : MemberTree(methods[k]) \in T
  BY <1>3
<1> HIDE DEF T, n
<1>6. AllBytes(MethodBytes(methods)) /\ Len(MethodBytes(methods)) = n
  BY <1>1, <1>3, <1>4 DEF AllBytes, IsBytes
<1>7. MemberTrees(methods) \in Seq(T) /\ Len(MemberTrees(methods)) = n
  BY <1>1, <1>4, <1>5
<1> QED
  BY <1>2, <1>6, <1>7 DEF T, n

(* They are read back in a row. *)
LEMMA MethodsHeld ==
  ASSUME IndicesFit, PoolWritable, NEW pool, Recorded(pool), NEW methods, MethodsReady(methods),
         NEW b, IsBytes(b), NEW p, NEW q,
         Spans(b, p, U2(Len(methods)) \o FlattenSeq(MethodBytes(methods)), q)
  PROVE  MembersAt(b, p, pool) = Read(MemberTrees(methods), q)
<1> DEFINE ss == MethodBytes(methods)
           ts == MemberTrees(methods)
           T == {MemberTree(m) : m \in Methods}
           item == MemberReader(b, pool)
           n == Len(methods)
<1>1. AllBytes(ss) /\ Len(ss) = n /\ n \in U16 /\ ts \in Seq(T) /\ Len(ts) = n
  BY MethodsWritten
<1>2. Gives(item, b, ss, ts)
  <2> SUFFICES ASSUME NEW k \in 1..Len(ss), NEW x, NEW y, Spans(b, x, ss[k], y)
               PROVE  item[x] = Read(ts[k], y)
    BY DEF Gives
  <2>1. k \in DOMAIN methods /\ MethodReady(methods[k])
    BY <1>1 DEF MethodsReady, Counted
  <2>2. ss[k] = WriteMethod(methods[k]) /\ ts[k] = MemberTree(methods[k])
    BY <2>1 DEF MethodBytes, MemberTrees
  <2> QED
    BY <2>1, <2>2, MemberHeld
<1> HIDE DEF ss, ts, T, item, n
<1>3. Spans(b, p, U2(Len(ss)) \o FlattenSeq(ss), q)
  BY <1>1 DEF ss, n
<1>4. CountedBy(b, p, item) = Read(ts, q)
  BY <1>1, <1>2, <1>3, CountedHeld
<1> QED
  BY <1>4 DEF MembersAt, item, ts

(* A class file whose texts and classes are in the pool.                   *)
PlanReady ==
  /\ plan \in ClassFiles /\ MethodsReady(plan.methods)
  /\ HasClass(plan.this) /\ HasClass(plan.super)
  /\ HasText("SourceFile") /\ HasText(plan.source)

(* The parts of the file. *)
MagicBytes == <<202, 254, 186, 190>>

ToPool == MagicBytes \o U2(0) \o U2(Java25) \o Serialize

ToClass == ToPool \o U2(plan.access) \o U2(ClassIndex(plan.this)) \o U2(ClassIndex(plan.super))

ToFields == ToClass \o NoInterfaces \o NoFields

AllMethods == FlattenSeq(MethodBytes(plan.methods))

ToMethods == ToFields \o U2(Len(plan.methods)) \o AllMethods

SourceAttribute == WriteAttribute("SourceFile", U2(Utf8Index(plan.source)))

(* The numbers of the file. *)
LEMMA FileNumbers ==
  ASSUME IndicesFit, PlanReady
  PROVE  /\ plan.access \in U16 /\ ClassIndex(plan.this) \in U16
         /\ ClassIndex(plan.super) \in U16 /\ Utf8Index(plan.source) \in U16
         /\ 0 \in U16 /\ 1 \in U16 /\ Java25 \in U16 /\ Len(plan.methods) \in U16
<1>1. plan.access \in U16
  BY Zenon DEF PlanReady, ClassFiles
<1>2. 0 \in U16 /\ 1 \in U16 /\ Java25 \in U16
  BY U16Range DEF Java25
<1>3. Len(plan.methods) \in U16
  BY MethodsWritten DEF PlanReady
<1> QED
  BY <1>1, <1>2, <1>3 DEF IndicesFit, ClassIndex, Utf8Index

(* All of them are bytes, and the file is made of them. *)
LEMMA FileParts ==
  ASSUME IndicesFit, PoolWritable, PlanReady
  PROVE  /\ IsBytes(MagicBytes) /\ IsBytes(Serialize) /\ IsBytes(ToPool)
         /\ IsBytes(ToClass) /\ IsBytes(ToFields) /\ IsBytes(AllMethods) /\ IsBytes(ToMethods)
         /\ IsBytes(SourceAttribute)
         /\ IsBytes(U2(Utf8Index(plan.source))) /\ Len(U2(Utf8Index(plan.source))) = 2
         /\ \A v \in {0, 1, Java25, plan.access, ClassIndex(plan.this), ClassIndex(plan.super),
                      Len(plan.methods)} : IsBytes(U2(v))
         /\ ToBytes = ToMethods \o U2(1) \o SourceAttribute /\ IsBytes(ToBytes)
<1> DEFINE a == U2(plan.access)
           t == U2(ClassIndex(plan.this))
           s == U2(ClassIndex(plan.super))
           n == U2(Len(plan.methods))
           o == U2(1)
           z == U2(0)
           j == U2(Java25)
           f == U2(Utf8Index(plan.source))
<1>1. /\ IsBytes(a) /\ IsBytes(t) /\ IsBytes(s) /\ IsBytes(n) /\ IsBytes(o) /\ IsBytes(z)
      /\ IsBytes(j) /\ IsBytes(f) /\ Len(f) = 2
  BY FileNumbers, ShortBytes
<1>2. IsBytes(MagicBytes)
  BY DEF MagicBytes, IsBytes, Octets
<1>3. IsBytes(Serialize)
  BY SerializeBytes
<1> HIDE DEF a, t, s, n, o, z, j, f
<1>4. IsBytes(ToPool)
  BY <1>1, <1>2, <1>3, RowOfFour DEF ToPool, z, j
<1>5. IsBytes(ToClass)
  BY <1>1, <1>4, RowOfFour DEF ToClass, a, t, s
<1>6. IsBytes(ToFields)
  BY <1>1, <1>5, RowOfThree DEF ToFields, NoInterfaces, NoFields, z
<1>7. IsBytes(AllMethods)
  BY MethodsWritten, FlatBytes DEF AllMethods, PlanReady
<1>8. IsBytes(ToMethods)
  BY <1>1, <1>6, <1>7, RowOfThree DEF ToMethods, n
<1>9. IsBytes(SourceAttribute)
  <2>1. Len(f) \in U31
    BY <1>1, U31Range, SMT
  <2> QED
    BY <1>1, <2>1, AttributeBytes DEF SourceAttribute, f
<1>10. ToBytes = ToMethods \o o \o SourceAttribute
  BY Zenon DEF ToBytes, ToMethods, AllMethods, MethodBytes, ToFields, ToClass, ToPool,
     MagicBytes, SourceAttribute, o
<1>11. IsBytes(ToBytes)
  BY <1>1, <1>8, <1>9, <1>10, RowOfThree
<1>12. \A v \in {0, 1, Java25, plan.access, ClassIndex(plan.this), ClassIndex(plan.super),
                 Len(plan.methods)} : IsBytes(U2(v))
  BY <1>1 DEF a, t, s, n, o, z, j
<1> QED
  BY <1>1, <1>2, <1>3, <1>4, <1>5, <1>6, <1>7, <1>8, <1>9, <1>10, <1>11, <1>12 DEF o, f

-----------------------------------------------------------------------------
(* The class file, and what an interning changes. *)

(* The rest of the file, behind the pool. *)
SourceTree == Made(SourceFileName, Utf8Index(plan.source))

FileTree(pool) ==
  [version |-> <<0, Java25>>, pool |-> pool, access |-> plan.access,
   this |-> ClassIndex(plan.this), super |-> ClassIndex(plan.super),
   interfaces |-> <<>>, fields |-> <<>>, methods |-> MemberTrees(plan.methods),
   attributes |-> <<SourceTree>>]

(* How the parts of the rest are put together. *)
LEMMA BodyReads ==
  ASSUME NEW b, NEW p, NEW version, NEW pool, NEW head, NEW interfaces, NEW fields,
         NEW methods, NEW attributes, NEW q, NEW r, NEW s, NEW t, NEW u,
         q # 0, r # 0, s # 0, t # 0, u # 0,
         Shorts(b, p, 3) = Read(head, q), CountedBy(b, q, ShortReader(b)) = Read(interfaces, r),
         MembersAt(b, r, pool) = Read(fields, s), MembersAt(b, s, pool) = Read(methods, t),
         Attributes(b, t, pool) = Read(attributes, u)
  PROVE  Body(b, p, version, pool) =
           Read([version |-> version, pool |-> pool, access |-> head[1], this |-> head[2],
                 super |-> head[3], interfaces |-> interfaces, fields |-> fields,
                 methods |-> methods, attributes |-> attributes], u)
<1> DEFINE Tree(i, f, m, a) ==
             [version |-> version, pool |-> pool, access |-> head[1], this |-> head[2],
              super |-> head[3], interfaces |-> i, fields |-> f, methods |-> m, attributes |-> a]
<1>1. Shorts(b, p, 3).at = q /\ Shorts(b, p, 3).tree = head
  BY ReadParts
<1>2. CountedBy(b, q, ShortReader(b)).at = r /\ CountedBy(b, q, ShortReader(b)).tree = interfaces
  BY ReadParts
<1>3. MembersAt(b, r, pool).at = s /\ MembersAt(b, r, pool).tree = fields
  BY ReadParts
<1>4. MembersAt(b, s, pool).at = t /\ MembersAt(b, s, pool).tree = methods
  BY ReadParts
<1>5. Attributes(b, t, pool).at = u /\ Attributes(b, t, pool).tree = attributes
  BY ReadParts
<1>6. Body(b, p, version, pool) =
        Then(CountedBy(b, q, ShortReader(b)), LAMBDA i, w :
          Then(MembersAt(b, w, pool), LAMBDA f, x :
            Then(MembersAt(b, x, pool), LAMBDA m, y :
              Then(Attributes(b, y, pool), LAMBDA a, z : Read(Tree(i, f, m, a), z)))))
  BY <1>1, Zenon DEF Body, Then
<1>7. Body(b, p, version, pool) =
        Then(MembersAt(b, r, pool), LAMBDA f, x :
          Then(MembersAt(b, x, pool), LAMBDA m, y :
            Then(Attributes(b, y, pool), LAMBDA a, z : Read(Tree(interfaces, f, m, a), z))))
  BY <1>2, <1>6, Zenon DEF Then
<1>8. Body(b, p, version, pool) =
        Then(MembersAt(b, s, pool), LAMBDA m, y :
          Then(Attributes(b, y, pool), LAMBDA a, z : Read(Tree(interfaces, fields, m, a), z)))
  BY <1>3, <1>7, Zenon DEF Then
<1>9. Body(b, p, version, pool) =
        Then(Attributes(b, t, pool), LAMBDA a, z : Read(Tree(interfaces, fields, methods, a), z))
  BY <1>4, <1>8, Zenon DEF Then
<1>10. Body(b, p, version, pool) = Read(Tree(interfaces, fields, methods, attributes), u)
  BY <1>5, <1>9, Zenon DEF Then
<1> QED
  BY <1>10

(* How a file starts. *)
LEMMA DumpReads ==
  ASSUME NEW b, NEW p, NEW version, NEW q, NEW pool, NEW r, NEW tree, p # 0, q # 0, r # 0,
         Bytes(b, 1, 4) = Read(Magic, p), Shorts(b, p, 2) = Read(version, q),
         ConstantPoolAt(b, q) = Read(pool, r), Body(b, r, version, pool) = tree
  PROVE  Dump(b) = tree
<1>1. Bytes(b, 1, 4).at = p /\ Bytes(b, 1, 4).tree = Magic
  BY ReadParts
<1>2. Shorts(b, p, 2).at = q /\ Shorts(b, p, 2).tree = version
  BY ReadParts
<1>3. ConstantPoolAt(b, q).at = r /\ ConstantPoolAt(b, q).tree = pool
  BY ReadParts
<1>4. Dump(b) =
        Then(Shorts(b, p, 2), LAMBDA v, x :
          Then(ConstantPoolAt(b, x), LAMBDA l, y : Body(b, y, v, l)))
  BY <1>1, Zenon DEF Dump, Then
<1>5. Dump(b) = Then(ConstantPoolAt(b, q), LAMBDA l, y : Body(b, y, version, l))
  BY <1>2, <1>4, Zenon DEF Then
<1>6. Dump(b) = Body(b, r, version, pool)
  BY <1>3, <1>5, Zenon DEF Then
<1> QED
  BY <1>6

(* The name of the source file is read back. *)
LEMMA SourceHeld ==
  ASSUME IndicesFit, PoolWritable, PlanReady, NEW pool, Recorded(pool), NEW b, IsBytes(b),
         NEW p, NEW q, Spans(b, p, SourceAttribute, q), NEW nested
  PROVE  /\ Attribute(b, p, pool, nested) = Read(SourceTree, q)
         /\ p \in Positions(b) /\ p \in Nat \ {0} /\ q \in Nat \ {0}
<1> DEFINE i == Utf8Index(plan.source)
           body == U2(i)
<1>1. i \in U16 /\ IsBytes(body) /\ Len(body) = 2
  BY FileNumbers, FileParts
<1> HIDE DEF i
<1>2. Encoded("SourceFile") = SourceFileName
  BY TextsAssumption, SMT
<1>3. HasText("SourceFile")
  BY DEF PlanReady
<1>4. BodyRead(b, SourceFileName, body, nested, i, q)
  <2> SUFFICES ASSUME NEW r, Spans(b, r, body, q)
               PROVE  AttributeBody(b, SourceFileName, Len(body), r, nested) = Read(i, q)
    BY DEF BodyRead
  <2>1. AttributeBody(b, SourceFileName, Len(body), r, nested) = Short(b, r)
    BY BodyNamed
  <2>2. Short(b, r) = Read(i, q)
    BY <1>1, ShortReads
  <2> QED
    BY <2>1, <2>2
<1> HIDE DEF body
<1>5. Len(body) \in U31
  BY <1>1, U31Range, SMT
<1>6. BodyRead(b, Encoded("SourceFile"), body, nested, i, q)
  BY <1>2, <1>4
<1>7. Spans(b, p, WriteAttribute("SourceFile", body), q)
  BY DEF SourceAttribute, body, i
<1>8. /\ Attribute(b, p, pool, nested) = Read(Made(Encoded("SourceFile"), i), q)
      /\ p \in Positions(b) /\ p \in Nat \ {0} /\ q \in Nat \ {0}
  BY <1>1, <1>3, <1>5, <1>6, <1>7, NamedAttribute
<1> QED
  BY <1>2, <1>8 DEF SourceTree, i

(* The rest of the file is read back. *)
LEMMA BodyHeld ==
  ASSUME IndicesFit, PoolWritable, PlanReady, NEW pool, Recorded(pool), NEW b, IsBytes(b),
         NEW p, NEW x, NEW y, NEW z, NEW f, NEW m, NEW o, NEW q,
         Spans(b, p, U2(plan.access), x), Spans(b, x, U2(ClassIndex(plan.this)), y),
         Spans(b, y, U2(ClassIndex(plan.super)), z), Spans(b, z, NoInterfaces, f),
         Spans(b, f, NoFields, m), Spans(b, m, U2(Len(plan.methods)) \o AllMethods, o),
         NEW s, Spans(b, o, U2(1), s), Spans(b, s, SourceAttribute, q)
  PROVE  Body(b, p, <<0, Java25>>, pool) = Read(FileTree(pool), q)
<1> DEFINE version == <<0, Java25>>
           head == <<plan.access, ClassIndex(plan.this), ClassIndex(plan.super)>>
<1>1. /\ plan.access \in U16 /\ ClassIndex(plan.this) \in U16 /\ ClassIndex(plan.super) \in U16
      /\ 1 \in U16
  BY FileNumbers
<1>2. /\ IsBytes(U2(plan.access)) /\ IsBytes(U2(ClassIndex(plan.this)))
      /\ IsBytes(U2(ClassIndex(plan.super))) /\ IsBytes(U2(1)) /\ IsBytes(SourceAttribute)
      /\ IsBytes(U2(Len(plan.methods))) /\ IsBytes(AllMethods)
  BY FileParts
<1>3. Shorts(b, p, 3) = Read(head, z) /\ z # 0
  <2>1. /\ ShortReader(b)[p] = Read(plan.access, x)
        /\ ShortReader(b)[x] = Read(ClassIndex(plan.this), y)
        /\ ShortReader(b)[y] = Read(ClassIndex(plan.super), z)
        /\ p \in Nat \ {0} /\ x \in Nat \ {0} /\ y \in Nat \ {0} /\ z \in Nat \ {0}
    BY <1>1, ShortReads
  <2>2. Items(3, ShortReader(b), p) = Read(head, z)
    BY <2>1, ThreeItems
  <2> QED
    BY <2>1, <2>2 DEF Shorts
<1>4. CountedBy(b, z, ShortReader(b)) = Read(<<>>, f) /\ f # 0
  BY NoItems DEF NoInterfaces
<1>5. MembersAt(b, f, pool) = Read(<<>>, m) /\ m # 0
  BY NoItems DEF NoFields, MembersAt
<1>6. MembersAt(b, m, pool) = Read(MemberTrees(plan.methods), o) /\ o # 0
  <2>1. Spans(b, m, U2(Len(plan.methods)) \o FlattenSeq(MethodBytes(plan.methods)), o)
    BY DEF AllMethods
  <2>2. MembersAt(b, m, pool) = Read(MemberTrees(plan.methods), o)
    BY <2>1, MethodsHeld DEF PlanReady
  <2>3. o # 0
    BY <1>1, ShortReads
  <2> QED
    BY <2>2, <2>3
<1>7. Attributes(b, o, pool) = Read(<<SourceTree>>, q) /\ q # 0
  <2>1. PICK nested, inner : Nests(b, pool, nested, inner)
    BY <1>1, ReadersFound
  <2>2. /\ Attribute(b, s, pool, nested) = Read(SourceTree, q)
        /\ s \in Positions(b) /\ s \in Nat \ {0} /\ q \in Nat \ {0}
    BY SourceHeld
  <2>3. CountedBy(b, o, AttributeReader(b, pool)) = Read(<<SourceTree>>, q)
    BY <2>1, <2>2, OneAttribute DEF Nests
  <2> QED
    BY <2>2, <2>3 DEF Attributes
<1> HIDE DEF version, head
<1>8. Body(b, p, version, pool) =
        Read([version |-> version, pool |-> pool, access |-> head[1], this |-> head[2],
              super |-> head[3], interfaces |-> <<>>, fields |-> <<>>,
              methods |-> MemberTrees(plan.methods), attributes |-> <<SourceTree>>], q)
  BY <1>3, <1>4, <1>5, <1>6, <1>7, BodyReads
<1>9. /\ head[1] = plan.access /\ head[2] = ClassIndex(plan.this)
      /\ head[3] = ClassIndex(plan.super)
  BY DEF head
<1> QED
  BY <1>8, <1>9 DEF FileTree, version

(* The independent reader takes the file apart.                            *)
LEMMA DumpHeld ==
  ASSUME IndicesFit, PoolWritable, PlanReady, NEW b, b = ToBytes
  PROVE  \E pool : Recorded(pool) /\ Dump(b) = Read(FileTree(pool), Len(b) + 1)
<1> DEFINE end == Len(b) + 1
           version == <<0, Java25>>
           n == U2(Len(plan.methods))
<1>1. IsBytes(b) /\ b = ToMethods \o U2(1) \o SourceAttribute /\ IsBytes(U2(1)) /\ IsBytes(U2(0))
  BY FileParts
<1>2. Spans(b, 1, b, end)
  BY <1>1, SpansSelf
<1> HIDE DEF end
<1>3. PICK o, s : Spans(b, 1, ToMethods, o) /\ Spans(b, o, U2(1), s)
        /\ Spans(b, s, SourceAttribute, end)
  <2>1. Spans(b, 1, ToMethods \o U2(1) \o SourceAttribute, end)
    BY <1>1, <1>2
  <2>2. IsBytes(ToMethods) /\ IsBytes(SourceAttribute)
    BY FileParts
  <2> QED
    BY <1>1, <2>1, <2>2, SpansThree
<1>4. PICK m, t : Spans(b, 1, ToFields, m) /\ Spans(b, m, n, t) /\ Spans(b, t, AllMethods, o)
  <2>1. Spans(b, 1, ToFields \o n \o AllMethods, o)
    BY <1>3 DEF ToMethods
  <2>2. IsBytes(ToFields) /\ IsBytes(AllMethods) /\ IsBytes(n)
    BY FileParts
  <2> HIDE DEF n
  <2> QED
    BY <1>1, <2>1, <2>2, SpansThree
<1>5. Spans(b, m, n \o AllMethods, o)
  <2>1. IsBytes(AllMethods) /\ IsBytes(n)
    BY FileParts
  <2> HIDE DEF n
  <2> QED
    BY <1>1, <1>4, <2>1, SpansJoin
<1>6. PICK z, f : /\ Spans(b, 1, ToClass, z) /\ Spans(b, z, NoInterfaces, f)
                  /\ Spans(b, f, NoFields, m)
  <2>1. Spans(b, 1, ToClass \o NoInterfaces \o NoFields, m)
    BY <1>4 DEF ToFields
  <2>2. IsBytes(ToClass) /\ IsBytes(NoInterfaces) /\ IsBytes(NoFields)
    BY <1>1, FileParts DEF NoInterfaces, NoFields
  <2> QED
    BY <1>1, <2>1, <2>2, SpansThree
<1>7. PICK p, x, y : /\ Spans(b, 1, ToPool, p) /\ Spans(b, p, U2(plan.access), x)
                     /\ Spans(b, x, U2(ClassIndex(plan.this)), y)
                     /\ Spans(b, y, U2(ClassIndex(plan.super)), z)
  <2> DEFINE a == U2(plan.access)
             c == U2(ClassIndex(plan.this))
             d == U2(ClassIndex(plan.super))
  <2>1. Spans(b, 1, ToPool \o a \o c \o d, z)
    BY <1>6 DEF ToClass
  <2>2. IsBytes(ToPool) /\ IsBytes(a) /\ IsBytes(c) /\ IsBytes(d)
    BY FileParts
  <2> HIDE DEF a, c, d
  <2>3. \E u, v, w : /\ Spans(b, 1, ToPool, u) /\ Spans(b, u, a, v)
                     /\ Spans(b, v, c, w) /\ Spans(b, w, d, z)
    BY <1>1, <2>1, <2>2, SpansFour
  <2> QED
    BY <2>3 DEF a, c, d
<1>8. PICK u, v, w : /\ Spans(b, 1, MagicBytes, u) /\ Spans(b, u, U2(0), v)
                     /\ Spans(b, v, U2(Java25), w) /\ Spans(b, w, Serialize, p)
  <2> DEFINE a == U2(0)
             c == U2(Java25)
  <2>1. Spans(b, 1, MagicBytes \o a \o c \o Serialize, p)
    BY <1>7 DEF ToPool
  <2>2. IsBytes(MagicBytes) /\ IsBytes(a) /\ IsBytes(c) /\ IsBytes(Serialize)
    BY FileParts
  <2> HIDE DEF a, c
  <2>3. \E i, j, k : /\ Spans(b, 1, MagicBytes, i) /\ Spans(b, i, a, j)
                     /\ Spans(b, j, c, k) /\ Spans(b, k, Serialize, p)
    BY <1>1, <2>1, <2>2, SpansFour
  <2> QED
    BY <2>3 DEF a, c
<1>9. Bytes(b, 1, 4) = Read(Magic, u)
  <2>1. Bytes(b, 1, Len(MagicBytes)) = Read(MagicBytes, u)
    BY <1>1, <1>8, FileParts, BytesHeld
  <2>2. Len(MagicBytes) = 4 /\ MagicBytes = Magic
    BY DEF MagicBytes, Magic
  <2> QED
    BY <2>1, <2>2
<1>10. Shorts(b, u, 2) = Read(version, w) /\ u # 0 /\ w # 0
  <2>1. 0 \in U16 /\ Java25 \in U16
    BY FileNumbers
  <2>2. /\ ShortReader(b)[u] = Read(0, v) /\ ShortReader(b)[v] = Read(Java25, w)
        /\ u \in Nat \ {0} /\ v \in Nat \ {0} /\ w \in Nat \ {0}
    BY <1>1, <1>8, <2>1, ShortReads
  <2>3. Items(2, ShortReader(b), u) = Read(version, w)
    BY <2>2, TwoItems
  <2> QED
    BY <2>2, <2>3 DEF Shorts
<1>11. PICK pool : Recorded(pool) /\ ConstantPoolAt(b, w) = Read(pool, p)
  BY <1>1, <1>8, SerializeHeld
<1>12. p # 0
  BY <1>1, <1>7, FileNumbers, ShortReads
<1>13. Body(b, p, version, pool) = Read(FileTree(pool), end)
  BY <1>1, <1>3, <1>5, <1>6, <1>7, <1>11, BodyHeld
<1> HIDE DEF version
<1>14. Dump(b) = Read(FileTree(pool), end)
  BY <1>9, <1>10, <1>11, <1>12, <1>13, DumpReads
<1> QED
  BY <1>11, <1>14 DEF end

(* Every class of the frames is found again. *)
LEMMA MapResolves ==
  ASSUME PoolWritable, NEW pool, Recorded(pool), NEW m, MethodReady(m), m.frames # <<>>
  PROVE  Resolves(pool, m.frames, m.entryLocals)
<1> DEFINE frames == m.frames
           entry == m.entryLocals
           body == WriteStackMapBody(frames, entry)
<1>1. frames \in Seq(StackFrames) /\ entry \in Seq(VerificationTypes) /\ Ordered(frames)
  BY MethodFields DEF MethodReady
<1>2. DOMAIN frames = 1..Len(frames)
  BY <1>1
<1>3. \A s \in ToSet(FrameObjectClasses(frames, entry)) : HasClass(s)
  BY DEF MethodReady
<1> HIDE DEF frames, entry
<1>4. ASSUME NEW k \in DOMAIN frames, NEW vt \in ToSet(body[k].locals) \cup ToSet(body[k].stack)
      PROVE  TypeRead(pool, TypeEntry(vt)) = vt
  <2>1. IsPhysical(body[k])
    BY <1>1, <1>2, BodyWritten
  <2>2. vt \in VerificationTypes
    BY <2>1 DEF IsPhysical, Types, ToSet
  <2>3. IsObject(vt) => vt \in ToSet(FrameObjectClasses(frames, entry))
    BY <1>1, ClassesCovered
  <2>4. IsObject(vt) => IsClass(pool, ClassIndex(vt), vt)
    BY <1>3, <2>3, ClassFound
  <2> QED
    BY <2>2, <2>4, TypeRecovered
<1>5. Resolves(pool, frames, entry)
  BY <1>4 DEF Resolves
<1> QED
  BY <1>5 DEF frames, entry

(* What is read of a method is the method. *)
LEMMA MethodRecovered ==
  ASSUME PoolWritable, NEW pool, Recorded(pool), NEW m, MethodReady(m)
  PROVE  MethodReadsBack(pool, MemberTree(m), m)
<1> DEFINE read == MemberTree(m)
           code == CodeTree(m)
           tables == Tables(m)
           names == <<LineNumberTableName>>
                      \o IF m.frames = <<>> THEN <<>> ELSE <<StackMapTableName>>
<1>1. /\ read.access = m.access /\ read.name = Utf8Index(m.name)
      /\ read.descriptor = Utf8Index(m.descriptor) /\ read.attributes = <<CodeAttribute(m)>>
  BY DEF MemberTree
<1>2. /\ CodeAttribute(m).name = CodeName /\ CodeAttribute(m).tail = <<>>
      /\ CodeAttribute(m).body = code
  BY Zenon DEF CodeAttribute, Made
<1>3. IsText(pool, Utf8Index(m.name), m.name) /\ IsText(pool, Utf8Index(m.descriptor), m.descriptor)
  BY TextFound DEF MethodReady
<1>4. /\ code.maxStack = m.maxStack /\ code.maxLocals = m.maxLocals /\ code.code = m.code
      /\ code.handlers = <<>> /\ code.attributes = tables
  BY Zenon DEF CodeTree
<1>5. /\ LineTree(m).name = LineNumberTableName /\ LineTree(m).tail = <<>>
      /\ LineTree(m).body = m.lines
      /\ MapTree(m).name = StackMapTableName /\ MapTree(m).tail = <<>>
      /\ MapTree(m).body = MapEntries(m.frames, m.entryLocals)
  BY Zenon DEF LineTree, MapTree, Made
<1> HIDE DEF read, code
<1>6. Named(read.attributes, <<CodeName>>)
  <2>1. Named(<<CodeAttribute(m)>>, <<CodeName>>)
    BY <1>2 DEF Named
  <2> QED
    BY <1>1, <2>1
<1>7. Named(tables, names) /\ tables[1].body = m.lines
  <2> DEFINE l == LineTree(m)
             r == MapTree(m)
  <2>a. /\ l.name = LineNumberTableName /\ l.tail = <<>> /\ l.body = m.lines
        /\ r.name = StackMapTableName /\ r.tail = <<>>
    BY <1>5
  <2>1. CASE m.frames = <<>>
    <3>1. tables = <<l>> /\ names = <<LineNumberTableName>>
      BY <2>1 DEF Tables
    <3> HIDE DEF l, tables, names
    <3> QED
      BY <2>a, <3>1 DEF Named
  <2>2. CASE m.frames # <<>>
    <3>a. names = <<LineNumberTableName>> \o <<StackMapTableName>>
      BY <2>2
    <3>b. ASSUME NEW x, NEW y
          PROVE  <<x>> \o <<y>> = <<x, y>>
      <4>1. <<x>> \in Seq({x, y}) /\ y \in {x, y}
        OBVIOUS
      <4>2. Append(<<x>>, y) = <<x>> \o <<y>>
        BY <4>1, AppendIsConcat
      <4>3. Append(<<x>>, y) = <<x, y>>
        BY ShortRow
      <4> QED
        BY <4>2, <4>3
    <3>c. tables = <<l, r>>
      BY <2>2 DEF Tables
    <3> HIDE DEF names
    <3>1. tables = <<l, r>> /\ names = <<LineNumberTableName, StackMapTableName>>
      BY <3>a, <3>b, <3>c
    <3> HIDE DEF l, r, tables, names
    <3> QED
      BY <2>a, <3>1 DEF Named
  <2> QED
    BY <2>1, <2>2
<1>8. ASSUME m.frames # <<>>
      PROVE  FramesRead(pool, tables[2].body, m.entryLocals) = m.frames
  <2>1. tables[2] = MapTree(m)
    BY <1>8 DEF Tables
  <2>2. tables[2].body = MapEntries(m.frames, m.entryLocals)
    BY <1>5, <2>1
  <2>3. /\ m.frames \in Seq(StackFrames) /\ m.entryLocals \in Seq(VerificationTypes)
        /\ Ordered(m.frames)
    BY MethodFields DEF MethodReady
  <2>4. FramesRead(pool, MapEntries(m.frames, m.entryLocals), m.entryLocals) = m.frames
    BY <1>8, <2>3, MapResolves, FramesReadBack
  <2> QED
    BY <2>2, <2>4
<1>9. read.attributes[1].body = code
  BY <1>1, <1>2
<1> HIDE DEF tables, names
<1>10. MethodReadsBack(pool, read, m)
  BY <1>1, <1>3, <1>4, <1>6, <1>7, <1>8, <1>9, Zenon DEF MethodReadsBack, names
<1> QED
  BY <1>10 DEF read

(* A file written from such a pool and such a plan is read back.           *)
LEMMA FileReadsBack ==
  ASSUME IndicesFit, PoolWritable, PoolClosed, PlanReady, file = ToBytes
  PROVE  ReadsBack
<1>1. PICK pool : Recorded(pool) /\ Dump(file) = Read(FileTree(pool), Len(file) + 1)
  BY DumpHeld
<1> DEFINE dump == Dump(file)
           f == FileTree(pool)
           ms == plan.methods
<1>2. dump.at = Len(file) + 1 /\ dump.tree = f
  BY <1>1, ReadParts
<1>3. /\ f.version = <<0, Java25>> /\ f.pool = pool /\ f.access = plan.access
      /\ f.this = ClassIndex(plan.this) /\ f.super = ClassIndex(plan.super)
      /\ f.interfaces = <<>> /\ f.fields = <<>> /\ f.methods = MemberTrees(ms)
      /\ f.attributes = <<SourceTree>>
  BY Zenon DEF FileTree
<1>4. \A e \in DOMAIN index : Stands(f.pool, index[e], e)
  BY <1>1, <1>3, EntryStands
<1>5. IsClass(f.pool, f.this, plan.this) /\ IsClass(f.pool, f.super, plan.super)
  <2>1. IsClass(pool, ClassIndex(plan.this), plan.this)
          /\ IsClass(pool, ClassIndex(plan.super), plan.super)
    BY <1>1, ClassFound DEF PlanReady
  <2> QED
    BY <1>3, <2>1
<1>6. Len(f.methods) = Len(ms)
  BY <1>3, MethodsWritten DEF PlanReady
<1>7. \A k \in DOMAIN ms : MethodReadsBack(f.pool, f.methods[k], ms[k])
  <2> TAKE k \in DOMAIN ms
  <2>1. MethodReady(ms[k])
    BY DEF PlanReady, MethodsReady
  <2>2. f.methods[k] = MemberTree(ms[k])
    BY <1>3 DEF MemberTrees
  <2>3. MethodReadsBack(pool, MemberTree(ms[k]), ms[k])
    BY <1>1, <2>1, MethodRecovered
  <2> QED
    BY <1>3, <2>2, <2>3
<1>8. /\ SourceTree.name = SourceFileName /\ SourceTree.tail = <<>>
      /\ SourceTree.body = Utf8Index(plan.source)
  BY Zenon DEF SourceTree, Made
<1>9. Named(f.attributes, <<SourceFileName>>)
  <2>1. Named(<<SourceTree>>, <<SourceFileName>>)
    BY <1>8 DEF Named
  <2> QED
    BY <1>3, <2>1
<1>10. IsText(f.pool, f.attributes[1].body, plan.source)
  <2>1. IsText(pool, Utf8Index(plan.source), plan.source)
    BY <1>1, TextFound DEF PlanReady
  <2>2. f.attributes[1].body = Utf8Index(plan.source)
    BY <1>3, <1>8
  <2> QED
    BY <1>3, <2>1, <2>2
<1> HIDE DEF dump, f, ms
<1> QED
  BY <1>2, <1>3, <1>4, <1>5, <1>6, <1>7, <1>9, <1>10, Zenon DEF ReadsBack, dump, ms

(* A text is kept once...                                                  *)
Unrepeated(ts) == \A i, j \in DOMAIN ts : ts[i] = ts[j] => i = j

(* ... and where it is.                                                    *)
Grows(ts, us) ==
  /\ us \in Seq(Texts) /\ Unrepeated(us) /\ Len(ts) <= Len(us)
  /\ \A k \in 1..Len(ts) : us[k] = ts[k]

(* A text that is added comes last. *)
LEMMA TextLast ==
  ASSUME NEW ts \in Seq(Texts), Unrepeated(ts), NEW s \in Texts
  PROVE  /\ Grows(ts, WithText(ts, s)) /\ s \in ToSet(WithText(ts, s))
         /\ \A k \in (Len(ts) + 1)..Len(WithText(ts, s)) : WithText(ts, s)[k] = s
<1>1. Len(ts) \in Nat /\ DOMAIN ts = 1..Len(ts)
  OBVIOUS
<1>2. CASE s \in ToSet(ts)
  <2>1. WithText(ts, s) = ts
    BY <1>2 DEF WithText
  <2> QED
    BY <1>1, <1>2, <2>1 DEF Grows
<1>3. CASE s \notin ToSet(ts)
  <2> DEFINE us == Append(ts, s)
  <2>1. WithText(ts, s) = us
    BY <1>3 DEF WithText
  <2>2. /\ us \in Seq(Texts) /\ Len(us) = Len(ts) + 1
        /\ \A k \in 1..Len(ts) : us[k] = ts[k]
        /\ us[Len(ts) + 1] = s /\ s \in ToSet(us)
    BY AppendSet
  <2> HIDE DEF us
  <2>3. DOMAIN us = 1..(Len(ts) + 1)
    BY <2>2
  <2>4. \A k \in 1..Len(ts) : ts[k] # s
    BY <1>1, <1>3 DEF ToSet
  <2>5. Unrepeated(us)
    <3> SUFFICES ASSUME NEW i \in 1..(Len(ts) + 1), NEW j \in 1..(Len(ts) + 1), us[i] = us[j]
                 PROVE  i = j
      BY <2>3 DEF Unrepeated
    <3>1. (i \in 1..Len(ts) \/ i = Len(ts) + 1) /\ (j \in 1..Len(ts) \/ j = Len(ts) + 1)
      BY <1>1
    <3> QED
      BY <1>1, <2>2, <2>4, <3>1 DEF Unrepeated
  <2>6. \A k \in (Len(ts) + 1)..Len(us) : us[k] = s
    BY <1>1, <2>2
  <2> QED
    BY <1>1, <2>1, <2>2, <2>5, <2>6 DEF Grows
<1> QED
  BY <1>2, <1>3

(* Growing and growing again. *)
LEMMA GrowsOn ==
  ASSUME NEW ts \in Seq(Texts), NEW us, Grows(ts, us), NEW ws, Grows(us, ws)
  PROVE  Grows(ts, ws)
<1>1. Len(ts) \in Nat /\ Len(us) \in Nat /\ Len(ws) \in Nat
  BY DEF Grows
<1>2. Len(ts) <= Len(ws)
  BY <1>1 DEF Grows
<1>3. \A k \in 1..Len(ts) : ws[k] = ts[k]
  BY <1>1 DEF Grows
<1> QED
  BY <1>2, <1>3 DEF Grows

(* The id of a text says where it is. *)
LEMMA TextIdAt ==
  ASSUME NEW us \in Seq(Texts), Unrepeated(us), NEW k \in 1..Len(us)
  PROVE  TextId(us, us[k]) = (k - 1) % IndexSpace
<1>1. DOMAIN us = 1..Len(us)
  OBVIOUS
<1> DEFINE at == CHOOSE j \in DOMAIN us : us[j] = us[k]
<1>2. at \in DOMAIN us /\ us[at] = us[k]
  BY <1>1
<1>3. at = k
  BY <1>1, <1>2 DEF Unrepeated
<1> QED
  BY <1>3, Zenon DEF TextId

(* It does not change. *)
LEMMA TextIdKept ==
  ASSUME NEW ts \in Seq(Texts), Unrepeated(ts), NEW us, Grows(ts, us), NEW s \in ToSet(ts)
  PROVE  s \in ToSet(us) /\ TextId(us, s) = TextId(ts, s)
<1>1. us \in Seq(Texts) /\ Unrepeated(us)
  BY DEF Grows
<1>2. PICK k \in 1..Len(ts) : ts[k] = s
  BY DEF ToSet
<1>3. k \in 1..Len(us) /\ us[k] = s
  <2>1. Len(us) \in Nat /\ Len(ts) \in Nat /\ Len(ts) <= Len(us)
    BY <1>1 DEF Grows
  <2> QED
    BY <1>2, <2>1 DEF Grows
<1>4. TextId(ts, s) = (k - 1) % IndexSpace
  BY <1>2, TextIdAt
<1>5. TextId(us, s) = (k - 1) % IndexSpace
  BY <1>1, <1>3, TextIdAt
<1>6. s \in ToSet(us)
  BY <1>1, <1>3 DEF ToSet
<1> QED
  BY <1>4, <1>5, <1>6

(* A text that is new to a call is one its entry is made of.               *)
Uses(e, t) == e.kind \in TextKinds /\ t \in ToSet(e.of)

Fits(e) == e.kind \in NumberKinds => e.of[1] \in U31

Interns(e) ==
  /\ Opens(e) /\ Grows(texts, texts') /\ Fits(e)
  /\ \A k \in (Len(texts) + 1)..Len(texts') : k <= IndexSpace => Uses(e, k - 1)

(* The id of the text at k, when it is a u16. *)
LEMMA IdOfNew ==
  ASSUME NEW us \in Seq(Texts), Unrepeated(us), NEW k \in 1..Len(us), k <= IndexSpace
  PROVE  TextId(us, us[k]) = k - 1
<1>1. k - 1 \in Nat /\ k - 1 < IndexSpace /\ IndexSpace \in Nat \ {0}
  BY SpaceAssumption
<1> QED
  BY <1>1, TextIdAt, Modulo

(* So it is with a named entry... *)
LEMMA NamedInterns ==
  ASSUME IInv, Unrepeated(texts), NEW kind \in {"Utf8", "Class", "String"}, NEW s \in Texts,
         InternNamed(kind, s)
  PROVE  Interns([kind |-> kind, of |-> <<TextId(texts', s)>>])
<1> DEFINE t == TextId(texts', s)
           e == [kind |-> kind, of |-> <<t>>]
<1>1. texts \in Seq(Texts) /\ texts' = WithText(texts, s)
  BY DEF IInv, InternNamed
<1>2. /\ Grows(texts, texts')
      /\ \A k \in (Len(texts) + 1)..Len(texts') : texts'[k] = s
  BY <1>1, TextLast
<1>3. Opens(e)
  BY NamedCall
<1>4. e.kind \in TextKinds /\ e.kind \notin NumberKinds /\ t \in ToSet(e.of)
  <2> HIDE DEF t
  <2> QED
    BY ShortRow DEF TextKinds, NumberKinds
<1> HIDE DEF e
<1>5. ASSUME NEW k \in (Len(texts) + 1)..Len(texts'), k <= IndexSpace
      PROVE  Uses(e, k - 1)
  <2>1. Len(texts) \in Nat /\ texts' \in Seq(Texts) /\ Len(texts') \in Nat /\ Unrepeated(texts')
    BY <1>1, <1>2 DEF Grows
  <2>2. k \in 1..Len(texts') /\ texts'[k] = s
    BY <1>2, <2>1
  <2>3. t = k - 1
    BY <1>5, <2>1, <2>2, IdOfNew
  <2> QED
    BY <1>4, <2>3 DEF Uses
<1>6. Interns(e)
  BY <1>2, <1>3, <1>4, <1>5 DEF Interns, Fits
<1> QED
  BY <1>6 DEF e

(* ... with a member reference... *)
LEMMA MemberInterns ==
  ASSUME IInv, Unrepeated(texts), NEW kind \in MemberKinds,
         NEW o \in Texts, NEW n \in Texts, NEW d \in Texts, InternMember(kind, o, n, d)
  PROVE  Interns(Member(kind, TextId(texts', o), TextId(texts', n), TextId(texts', d)))
<1> DEFINE to == TextId(texts', o)
           tn == TextId(texts', n)
           td == TextId(texts', d)
           e == Member(kind, to, tn, td)
           first == WithText(texts, o)
           second == WithText(first, n)
<1>1. texts \in Seq(Texts) /\ texts' = WithText(second, d)
  BY DEF IInv, InternMember
<1>2. /\ Grows(texts, first)
      /\ \A k \in (Len(texts) + 1)..Len(first) : first[k] = o
  BY <1>1, TextLast
<1> HIDE DEF first
<1>3. /\ Grows(first, second)
      /\ \A k \in (Len(first) + 1)..Len(second) : second[k] = n
  BY <1>2, TextLast DEF Grows, second
<1> HIDE DEF second
<1>4. /\ Grows(second, texts')
      /\ \A k \in (Len(second) + 1)..Len(texts') : texts'[k] = d
  BY <1>1, <1>3, TextLast DEF Grows
<1>5. /\ Len(texts) \in Nat /\ Len(first) \in Nat /\ Len(second) \in Nat /\ Len(texts') \in Nat
      /\ first \in Seq(Texts) /\ second \in Seq(Texts) /\ texts' \in Seq(Texts)
      /\ Unrepeated(texts')
      /\ Len(texts) <= Len(first) /\ Len(first) <= Len(second) /\ Len(second) <= Len(texts')
  BY <1>1, <1>2, <1>3, <1>4 DEF Grows
<1>6. Grows(texts, texts')
  BY <1>1, <1>2, <1>3, <1>4, <1>5, GrowsOn
<1>7. Opens(e)
  BY MemberCall
<1>8. /\ e.kind \in TextKinds /\ e.kind \notin NumberKinds
      /\ to \in ToSet(e.of) /\ tn \in ToSet(e.of) /\ td \in ToSet(e.of)
  <2> HIDE DEF to, tn, td
  <2>1. e.of = <<to, tn, td>> /\ e.kind = kind
    BY DEF Member
  <2>2. ToSet(<<to, tn, td>>) = {to, tn, td}
    BY DEF ToSet
  <2> QED
    BY <2>1, <2>2 DEF MemberKinds, TextKinds, NumberKinds
<1> HIDE DEF e
<1>9. ASSUME NEW k \in (Len(texts) + 1)..Len(texts'), k <= IndexSpace
      PROVE  Uses(e, k - 1)
  <2>1. k \in 1..Len(texts') /\ k \in Nat
    BY <1>5
  <2>2. TextId(texts', texts'[k]) = k - 1
    BY <1>5, <1>9, <2>1, IdOfNew
  <2>3. \/ k \in (Len(texts) + 1)..Len(first)
        \/ k \in (Len(first) + 1)..Len(second)
        \/ k \in (Len(second) + 1)..Len(texts')
    BY <1>5, <2>1
  <2>4. texts'[k] \in {o, n, d}
    <3>1. \A j \in 1..Len(first) : texts'[j] = second[j] /\ second[j] = first[j]
      BY <1>3, <1>4, <1>5 DEF Grows
    <3>2. \A j \in 1..Len(second) : texts'[j] = second[j]
      BY <1>4, <1>5 DEF Grows
    <3> QED
      BY <1>2, <1>3, <1>4, <1>5, <2>1, <2>3, <3>1, <3>2, SMTT(30)
  <2>5. k - 1 \in {to, tn, td}
    BY <2>2, <2>4
  <2> QED
    BY <1>8, <2>5 DEF Uses
<1>10. Interns(e)
  BY <1>6, <1>7, <1>8, <1>9 DEF Interns, Fits
<1> QED
  BY <1>10 DEF e

(* ... and with a number. *)
LEMMA NumberInterns ==
  ASSUME IInv, Unrepeated(texts), NEW kind \in NumberKinds, NEW v \in Numbers,
         InternNumber(kind, v)
  PROVE  Interns([kind |-> kind,
                  of |-> <<IF kind \in {"Float", "Double"} THEN Canonical(v) ELSE v>>])
<1> DEFINE b == IF kind \in {"Float", "Double"} THEN Canonical(v) ELSE v
           e == [kind |-> kind, of |-> <<b>>]
<1>1. texts \in Seq(Texts) /\ texts' = texts
  BY DEF IInv, InternNumber
<1>2. Opens(e)
  BY NumberCall
<1>3. b \in U31
  <2>1. CanonicalNaN \in Numbers
    BY NumbersAssumption
  <2> QED
    BY <2>1, WidthAssumption, SMT DEF Canonical
<1>4. e.of[1] = b
  OBVIOUS
<1> HIDE DEF e, b
<1>5. Fits(e)
  BY <1>3, <1>4 DEF Fits
<1>6. Grows(texts, texts') /\ (Len(texts) + 1)..Len(texts') = {}
  <2>1. Len(texts) \in Nat
    BY <1>1
  <2> QED
    BY <1>1, <2>1 DEF Grows
<1>7. Interns(e)
  BY <1>2, <1>5, <1>6 DEF Interns
<1> QED
  BY <1>7 DEF e, b

(* What the pool of a writer keeps to besides: every text is that of an    *)
(* entry or will be, and only calls add numbers, that fit.                 *)
Mentioned ==
  \A t \in 0..(Len(texts) - 1) :
    t < IndexSpace =>
      Utf8(t) \in DOMAIN index \/ \E e \in ToSet(queue) \cup ToSet(pending) : Uses(e, t)

PartKinds ==
  /\ \A e \in DOMAIN index : Fits(e)
  /\ \A e \in ToSet(pending) : e.kind \in {"Utf8", "Class", "NameAndType"}

PoolInv == IInv /\ Unrepeated(texts) /\ Mentioned /\ PartKinds

(* The sets of rows of one and two. *)
LEMMA RowSets ==
  /\ \A a : ToSet(<<a>>) = {a}
  /\ \A a, b : ToSet(<<a, b>>) = {a, b}
<1>1. \A a : ToSet(<<a>>) = {a}
  BY ShortRow
<1>2. \A a, b : ToSet(<<a, b>>) = {a, b}
  BY ShortRow
<1> QED
  BY <1>1, <1>2

(* The parts of an entry are no numbers and no members. *)
LEMMA ChildKinds ==
  ASSUME NEW e
  PROVE  \A c \in ToSet(Children(e)) : c.kind \in {"Utf8", "Class", "NameAndType"}
<1>1. CASE e.kind \in {"Class", "String"}
  <2>1. Children(e) = <<Utf8(e.of[1])>>
    BY <1>1 DEF Children
  <2>2. ToSet(Children(e)) = {Utf8(e.of[1])}
    BY <2>1, RowSets, Zenon
  <2> QED
    BY <2>2 DEF Utf8
<1>2. CASE e.kind = "NameAndType"
  <2>1. Children(e) = <<Utf8(e.of[1]), Utf8(e.of[2])>>
    BY <1>2 DEF Children
  <2>2. ToSet(Children(e)) = {Utf8(e.of[1]), Utf8(e.of[2])}
    BY <2>1, RowSets, Zenon
  <2> QED
    BY <2>2 DEF Utf8
<1>3. CASE e.kind \in {"Fieldref", "Methodref"}
  <2>1. Children(e) = <<ClassOf(e.of[1]), NameAndType(e.of[2], e.of[3])>>
    BY <1>3 DEF Children
  <2>2. ToSet(Children(e)) = {ClassOf(e.of[1]), NameAndType(e.of[2], e.of[3])}
    BY <2>1, RowSets, Zenon
  <2> QED
    BY <2>2 DEF ClassOf, NameAndType
<1>4. CASE e.kind \notin {"Class", "String", "NameAndType", "Fieldref", "Methodref"}
  <2>1. Children(e) = <<>>
    BY <1>4 DEF Children
  <2> QED
    BY <2>1, ShortRow
<1> QED
  BY <1>1, <1>2, <1>3, <1>4

(* A text that an entry is made of is its own, or that of one of its parts. *)
LEMMA UsesDown ==
  ASSUME NEW count \in Nat, NEW e, Formed(e, count), NEW t, Uses(e, t)
  PROVE  /\ t \in 0..(count - 1)
         /\ e = Utf8(t) \/ \E c \in ToSet(Children(e)) : Uses(c, t)
         /\ e.kind \notin MemberKinds => e = Utf8(t) \/ Utf8(t) \in ToSet(Children(e))
<1>1. e \in Entry /\ e.kind \in TextKinds /\ e.of \in Seq(Nat)
  BY DEF Formed, Entry, Uses
<1>2. PICK i \in 1..Len(e.of) : e.of[i] = t
  BY <1>1 DEF Uses, ToSet
<1>3. \A u : Uses(Utf8(u), u)
  BY ShortRow DEF Uses, Utf8, TextKinds
<1>4. CASE e.kind = "Utf8"
  <2>1. Len(e.of) = 1 /\ e.of[1] \in 0..(count - 1)
    BY <1>4 DEF Formed, Texted
  <2>2. e.of[1] = t
    BY <1>2, <2>1
  <2>3. e = Utf8(e.of[1])
    <3>1. e.of = <<e.of[1]>>
      BY <1>1, <2>1
    <3>2. e = [kind |-> e.kind, of |-> e.of]
      BY <1>1 DEF Entry
    <3> QED
      BY <1>4, <3>1, <3>2, Zenon DEF Utf8
  <2> QED
    BY <2>1, <2>2, <2>3
<1>5. CASE e.kind \in {"Class", "String"}
  <2>1. Len(e.of) = 1 /\ e.of[1] \in 0..(count - 1)
    BY <1>5 DEF Formed, Texted
  <2>2. e.of[1] = t
    BY <1>2, <2>1
  <2>3. ToSet(Children(e)) = {Utf8(t)}
    BY <1>5, <2>2, ShortRow DEF Children
  <2> QED
    BY <1>3, <2>1, <2>2, <2>3
<1>6. CASE e.kind = "NameAndType"
  <2>1. Len(e.of) = 2 /\ e.of[1] \in 0..(count - 1) /\ e.of[2] \in 0..(count - 1)
    BY <1>6 DEF Formed, Texted
  <2>2. e.of[1] = t \/ e.of[2] = t
    BY <1>2, <2>1
  <2>3. Children(e) = <<Utf8(e.of[1]), Utf8(e.of[2])>>
    BY <1>6 DEF Children
  <2>4. ToSet(Children(e)) = {Utf8(e.of[1]), Utf8(e.of[2])}
    BY <2>3, RowSets, Zenon
  <2>5. Utf8(t) \in ToSet(Children(e))
    BY <2>2, <2>4
  <2> QED
    BY <1>3, <2>1, <2>2, <2>5
<1>7. CASE e.kind \in MemberKinds
  <2>1. /\ Len(e.of) = 3 /\ e.of[1] \in 0..(count - 1) /\ e.of[2] \in 0..(count - 1)
        /\ e.of[3] \in 0..(count - 1)
    BY <1>7 DEF Formed, Texted
  <2>2. e.of[1] = t \/ e.of[2] = t \/ e.of[3] = t
    BY <1>2, <2>1
  <2>3. Children(e) = <<ClassOf(e.of[1]), NameAndType(e.of[2], e.of[3])>>
    BY <1>7 DEF Children, MemberKinds
  <2>4. ToSet(Children(e)) = {ClassOf(e.of[1]), NameAndType(e.of[2], e.of[3])}
    BY <2>3, RowSets, Zenon
  <2>5. /\ Uses(ClassOf(e.of[1]), e.of[1])
        /\ Uses(NameAndType(e.of[2], e.of[3]), e.of[2])
        /\ Uses(NameAndType(e.of[2], e.of[3]), e.of[3])
    <3>1. \A a : Uses(ClassOf(a), a)
      BY RowSets DEF Uses, ClassOf, TextKinds
    <3>2. \A a, b : Uses(NameAndType(a, b), a) /\ Uses(NameAndType(a, b), b)
      BY RowSets DEF Uses, NameAndType, TextKinds
    <3> QED
      BY <3>1, <3>2, Zenon
  <2>6. \E c \in ToSet(Children(e)) : Uses(c, t)
    BY <2>2, <2>4, <2>5
  <2> QED
    BY <1>7, <2>1, <2>2, <2>6
<1> QED
  BY <1>1, <1>4, <1>5, <1>6, <1>7 DEF TextKinds, MemberKinds

(* What a call opens is recorded, with the texts that are new. *)
LEMMA InternsStep ==
  ASSUME PoolInv, NEW e, Interns(e)
  PROVE  /\ PoolInv' /\ Kept /\ TableStep /\ Grows(texts, texts')
         /\ e \in DOMAIN index'
<1>1. /\ IInv /\ Opens(e) /\ Grows(texts, texts') /\ Fits(e)
      /\ Intern(e) /\ texts' \in Seq(Texts) /\ Len(texts) <= Len(texts')
      /\ Formed(e, Len(texts')) /\ ~ Busy
      /\ texts \in Seq(Texts)
      /\ \A f \in DOMAIN index : Formed(f, Len(texts))
      /\ Numbered
  BY DEF PoolInv, Interns, Opens, Intern, IInv, Closing
<1>2. IInv' /\ Kept /\ TableStep
  BY <1>1, InternStep
<1>3. Unrepeated(texts')
  BY <1>1 DEF Grows
<1>4. /\ queue = <<>> /\ pending = <<>> /\ pending' = pending
      /\ ToSet(queue) = {} /\ ToSet(pending) = {}
  BY <1>1, ShortRow DEF Busy, Intern
<1>5. Len(texts) \in Nat /\ Len(texts') \in Nat
  BY <1>1
<1>6. /\ DOMAIN index' = DOMAIN index \cup {e}
      /\ e \notin DOMAIN index => ToSet(queue') = {e}
  <2>1. CASE e \in DOMAIN index
    BY <1>1, <2>1 DEF Intern
  <2>2. CASE e \notin DOMAIN index
    <3>1. AllocNew(e) /\ queue' = <<e>>
      BY <1>1, <2>2 DEF Intern
    <3>2. e \in Entry
      BY <1>1 DEF Formed
    <3> QED
      BY <1>1, <2>2, <3>1, <3>2, AllocNumbered, ShortRow
  <2> QED
    BY <2>1, <2>2
<1>7. PartKinds'
  BY <1>1, <1>4, <1>6 DEF PoolInv, PartKinds
<1>8. Mentioned'
  <2> SUFFICES ASSUME NEW t \in 0..(Len(texts') - 1), t < IndexSpace
               PROVE  \/ Utf8(t) \in DOMAIN index'
                      \/ \E f \in ToSet(queue') \cup ToSet(pending') : Uses(f, t)
    BY DEF Mentioned
  <2>1. CASE t < Len(texts)
    <3>1. t \in 0..(Len(texts) - 1)
      BY <1>5, <2>1
    <3>2. Utf8(t) \in DOMAIN index
      BY <1>4, <3>1 DEF PoolInv, Mentioned
    <3> QED
      BY <1>6, <3>2
  <2>2. CASE t >= Len(texts)
    <3>1. t + 1 \in (Len(texts) + 1)..Len(texts') /\ t + 1 <= IndexSpace /\ t + 1 - 1 = t
      BY <1>5, <2>2, SpaceAssumption
    <3>2. Uses(e, t)
      BY <3>1 DEF Interns
    <3>3. e \notin DOMAIN index
      <4> SUFFICES ASSUME e \in DOMAIN index
                   PROVE  FALSE
        OBVIOUS
      <4>1. t \in 0..(Len(texts) - 1)
        BY <1>1, <1>5, <3>2, UsesDown
      <4> QED
        BY <1>5, <2>2, <4>1
    <3> QED
      BY <1>6, <3>2, <3>3
  <2> QED
    BY <1>5, <2>1, <2>2
<1> QED
  BY <1>1, <1>2, <1>3, <1>6, <1>7, <1>8 DEF PoolInv

(* Each text that a queued entry is made of is its own, or that of one of  *)
(* the parts that are visited next.                                        *)
LEMMA VisitEntryMentions ==
  ASSUME PoolInv, VisitEntry
  PROVE  PoolInv' /\ Kept /\ TableStep /\ UNCHANGED texts
<1>1. /\ pending = <<>> /\ queue # <<>> /\ pending' = Children(Head(queue))
      /\ queue' = Tail(queue)
      /\ UNCHANGED <<texts, entries, index, nextIndex, overflowed, call>>
      /\ IInv /\ Closing /\ texts \in Seq(Texts)
  BY DEF VisitEntry, PoolInv, IInv
<1>2. IInv' /\ Kept /\ TableStep
  BY <1>1, VisitEntryStep
<1> DEFINE e == Head(queue)
<1>3. ToSet(queue) = {e} \cup ToSet(queue') /\ ToSet(pending) = {}
  BY <1>1, TailSet, ShortRow DEF Closing
<1>4. e \in DOMAIN index /\ Formed(e, Len(texts)) /\ Len(texts) \in Nat
  BY <1>1, <1>3 DEF Closing
<1>5. PartKinds'
  <2> HIDE DEF e
  <2>1. \A c \in ToSet(pending') : c.kind \in {"Utf8", "Class", "NameAndType"}
    BY <1>1, ChildKinds
  <2> QED
    BY <1>1, <2>1 DEF PoolInv, PartKinds
<1>6. Mentioned'
  <2> SUFFICES ASSUME NEW t \in 0..(Len(texts) - 1), t < IndexSpace, Utf8(t) \notin DOMAIN index
               PROVE  \E f \in ToSet(queue') \cup ToSet(pending') : Uses(f, t)
    BY <1>1 DEF Mentioned
  <2>1. PICK f \in ToSet(queue) : Uses(f, t)
    BY <1>3 DEF PoolInv, Mentioned
  <2>2. CASE f = e
    <3>1. e = Utf8(t) \/ \E c \in ToSet(Children(e)) : Uses(c, t)
      BY <1>4, <2>1, <2>2, UsesDown
    <3> QED
      BY <1>1, <1>4, <3>1
  <2> QED
    BY <1>3, <2>1, <2>2
<1> QED
  BY <1>1, <1>2, <1>5, <1>6 DEF PoolInv

(* A part that is missing is queued; that of one that is not is there, or  *)
(* still to come.                                                          *)
LEMMA VisitChildMentions ==
  ASSUME PoolInv, VisitChild
  PROVE  PoolInv' /\ Kept /\ TableStep /\ UNCHANGED texts
<1>1. /\ pending # <<>> /\ pending' = Tail(pending)
      /\ UNCHANGED <<texts, call>>
      /\ IInv /\ Numbered /\ Closing /\ texts \in Seq(Texts) /\ Len(texts) \in Nat
  BY DEF VisitChild, PoolInv, IInv
<1>2. IInv' /\ Kept /\ TableStep
  BY <1>1, VisitChildStep
<1> DEFINE c == Head(pending)
<1>3. c \in Entry /\ ToSet(pending) = {c} \cup ToSet(pending')
  BY <1>1, TailSet DEF Closing
<1>4. /\ c.kind \in {"Utf8", "Class", "NameAndType"} /\ Formed(c, Len(texts))
      /\ \A f \in ToSet(pending') : f.kind \in {"Utf8", "Class", "NameAndType"}
  BY <1>1, <1>3 DEF PoolInv, PartKinds, Closing
<1>5. Fits(c)
  BY <1>4 DEF Fits, NumberKinds
<1>6. /\ DOMAIN index' = DOMAIN index \cup {c}
      /\ IF c \in DOMAIN index THEN queue' = queue ELSE ToSet(queue') = ToSet(queue) \cup {c}
  <2>1. CASE c \in DOMAIN index
    BY <2>1 DEF VisitChild
  <2>2. CASE c \notin DOMAIN index
    <3>1. AllocNew(c) /\ queue' = Append(queue, c)
      BY <2>2 DEF VisitChild
    <3>2. queue \in Seq(Entry)
      BY <1>1 DEF Closing
    <3>3. ToSet(queue') = ToSet(queue) \cup {c}
      BY <1>3, <3>1, <3>2, AppendSet
    <3>4. DOMAIN index' = DOMAIN index \cup {c}
      BY <1>1, <1>3, <2>2, <3>1, AllocNumbered
    <3> QED
      BY <2>2, <3>3, <3>4
  <2> QED
    BY <2>1, <2>2
<1> HIDE DEF c
<1>7. PartKinds'
  BY <1>4, <1>5, <1>6 DEF PoolInv, PartKinds
<1>8. Mentioned'
  <2> SUFFICES ASSUME NEW t \in 0..(Len(texts) - 1), t < IndexSpace, Utf8(t) \notin DOMAIN index'
               PROVE  \E f \in ToSet(queue') \cup ToSet(pending') : Uses(f, t)
    BY <1>1 DEF Mentioned
  <2>1. Utf8(t) \notin DOMAIN index /\ Utf8(t) # c
    BY <1>6
  <2>2. PICK f \in ToSet(queue) \cup ToSet(pending) : Uses(f, t)
    BY <2>1 DEF PoolInv, Mentioned
  <2>3. CASE f = c /\ c \in DOMAIN index
    <3>1. Utf8(t) \in ToSet(Children(c))
      BY <1>1, <1>4, <2>1, <2>2, <2>3, UsesDown DEF MemberKinds
    <3>2. c \in ToSet(queue) \/ Utf8(t) \in DOMAIN index \cup ToSet(pending)
      BY <1>1, <2>3, <3>1 DEF Closing
    <3>3. Uses(Utf8(t), t)
      BY ShortRow DEF Uses, Utf8, TextKinds
    <3> QED
      BY <1>3, <1>6, <2>1, <2>2, <2>3, <3>2, <3>3
  <2>4. CASE f # c \/ c \notin DOMAIN index
    BY <1>3, <1>6, <2>2, <2>4
  <2> QED
    BY <2>3, <2>4
<1> QED
  BY <1>1, <1>2, <1>7, <1>8 DEF PoolInv

(* Lookups that find the same as before. *)
LEMMA EntryIndexKept ==
  ASSUME UNCHANGED vars
  PROVE  \A e : EntryIndex(e)' = EntryIndex(e)
BY DEF vars, EntryIndex

(* By their names, too. *)
LEMMA NamedIndexKept ==
  ASSUME UNCHANGED vars
  PROVE  \A kind, s : NamedIndex(kind, s)' = NamedIndex(kind, s)
BY EntryIndexKept, Zenon DEF vars, NamedIndex

(* Types are written as before. *)
LEMMA WriteTypesKept ==
  ASSUME UNCHANGED vars
  PROVE  \A types : WriteTypes(types)' = WriteTypes(types)
<1>1. \A s : ClassIndex(s)' = ClassIndex(s)
  BY NamedIndexKept, Zenon DEF ClassIndex
<1>2. \A vt : WriteType(vt)' = WriteType(vt)
  BY <1>1, Zenon DEF WriteType
<1>3. ASSUME NEW types
      PROVE  WriteTypes(types)' = WriteTypes(types)
  <2>1. [k \in DOMAIN types |-> WriteType(types[k])]' = [k \in DOMAIN types |-> WriteType(types[k])]
    BY <1>2, Zenon
  <2> QED
    BY <2>1, Zenon DEF WriteTypes
<1> QED
  BY <1>3

(* So are frames, *)
LEMMA FrameBytesKept ==
  ASSUME UNCHANGED vars
  PROVE  \A p : FrameBytes(p)' = FrameBytes(p)
<1> TAKE p
<1>1. WriteTypes(p.locals)' = WriteTypes(p.locals) /\ WriteTypes(p.stack)' = WriteTypes(p.stack)
  BY WriteTypesKept, Zenon
<1>2. FrameBytes(p)
        = U1(p.tag) \o (IF p.tag > 127 THEN U2(p.delta) ELSE <<>>)
            \o ((IF p.tag = 255 THEN U2(Len(p.locals)) ELSE <<>>) \o WriteTypes(p.locals))
            \o ((IF p.tag = 255 THEN U2(Len(p.stack)) ELSE <<>>) \o WriteTypes(p.stack))
  BY Zenon DEF FrameBytes
<1>3. FrameBytes(p)'
        = U1(p.tag) \o (IF p.tag > 127 THEN U2(p.delta) ELSE <<>>)
            \o ((IF p.tag = 255 THEN U2(Len(p.locals)) ELSE <<>>) \o WriteTypes(p.locals)')
            \o ((IF p.tag = 255 THEN U2(Len(p.stack)) ELSE <<>>) \o WriteTypes(p.stack)')
  BY Zenon DEF FrameBytes
<1> QED
  BY <1>1, <1>2, <1>3, SMT

(* the pool, *)
LEMMA SerializeKept ==
  ASSUME UNCHANGED vars
  PROVE  Serialize' = Serialize
<1>1. ASSUME NEW e
      PROVE  Payload(e)' = Payload(e)
  <2>1. texts' = texts
    BY DEF vars
  <2>2. [k \in DOMAIN Children(e) |-> U2(EntryIndex(Children(e)[k]))]'
          = [k \in DOMAIN Children(e) |-> U2(EntryIndex(Children(e)[k]))]
    BY EntryIndexKept, Zenon
  <2> QED
    BY <2>1, <2>2, Zenon DEF Payload
<1>2. entries' = entries /\ nextIndex' = nextIndex
  BY DEF vars
<1>3. [k \in DOMAIN entries |-> U1(Tag(entries[k].kind)) \o Payload(entries[k])]'
        = [k \in DOMAIN entries |-> U1(Tag(entries[k].kind)) \o Payload(entries[k])]
  BY <1>1, <1>2, Zenon
<1> QED
  BY <1>2, <1>3, Zenon DEF Serialize

(* an attribute, *)
LEMMA WriteAttributeKept ==
  ASSUME UNCHANGED vars
  PROVE  \A name, body : WriteAttribute(name, body)' = WriteAttribute(name, body)
BY NamedIndexKept, Zenon DEF WriteAttribute, Utf8Index

(* a method, *)
LEMMA WriteMethodKept ==
  ASSUME UNCHANGED vars
  PROVE  \A m : WriteMethod(m)' = WriteMethod(m)
<1> TAKE m
<1>1. StackMapTable(m)' = StackMapTable(m)
  <2> DEFINE body == WriteStackMapBody(m.frames, m.entryLocals)
  <2>1. [k \in DOMAIN body |-> FrameBytes(body[k])]' = [k \in DOMAIN body |-> FrameBytes(body[k])]
    BY FrameBytesKept, Zenon
  <2> QED
    BY <2>1, Zenon DEF StackMapTable
<1>2. WriteAttribute("StackMapTable", StackMapTable(m))'
        = WriteAttribute("StackMapTable", StackMapTable(m))
  BY <1>1, WriteAttributeKept, Zenon
<1>3. WriteAttribute("LineNumberTable", LineNumberTable(m))'
        = WriteAttribute("LineNumberTable", LineNumberTable(m))
  BY WriteAttributeKept, Zenon
<1>4. CodeBody(m)' = CodeBody(m)
  BY <1>2, <1>3, Zenon DEF CodeBody
<1>5. WriteAttribute("Code", CodeBody(m))' = WriteAttribute("Code", CodeBody(m))
  BY <1>4, WriteAttributeKept, Zenon
<1>6. Utf8Index(m.name)' = Utf8Index(m.name) /\ Utf8Index(m.descriptor)' = Utf8Index(m.descriptor)
  BY NamedIndexKept, Zenon DEF Utf8Index
<1> QED
  BY <1>5, <1>6, Zenon DEF WriteMethod

(* and the file. *)
LEMMA BytesKept ==
  ASSUME UNCHANGED vars, plan' = plan
  PROVE  ToBytes' = ToBytes
<1>1. [k \in DOMAIN plan.methods |-> WriteMethod(plan.methods[k])]'
        = [k \in DOMAIN plan.methods |-> WriteMethod(plan.methods[k])]
  BY WriteMethodKept, Zenon
<1>2. \A s : ClassIndex(s)' = ClassIndex(s) /\ Utf8Index(s)' = Utf8Index(s)
  BY NamedIndexKept, Zenon DEF ClassIndex, Utf8Index
<1>3. WriteAttribute("SourceFile", U2(Utf8Index(plan.source)))'
        = WriteAttribute("SourceFile", U2(Utf8Index(plan.source)))
  BY <1>2, WriteAttributeKept, Zenon
<1> QED
  BY <1>1, <1>2, <1>3, SerializeKept, ZenonT(60) DEF ToBytes

-----------------------------------------------------------------------------
(* What a plan needs of the pool, and the steps of the writer. *)

(* What a plan needs. *)
Needs == [kind : {"Utf8", "Class"}, text : Texts]

(* The names of the attributes are texts. *)
LEMMA AttributeNames ==
  /\ "Code" \in Texts /\ "LineNumberTable" \in Texts
  /\ "StackMapTable" \in Texts /\ "SourceFile" \in Texts
BY TextsAssumption, SMT

(* A constant that is needed. *)
LEMMA NeedTyped ==
  /\ \A s \in Texts : Need("Utf8", s) \in Needs /\ NeedUtf8(s) \in Needs
                        /\ Need("Class", s) \in Needs
  /\ \A kind, s : Need(kind, s).kind = kind /\ Need(kind, s).text = s
<1>1. \A kind \in {"Utf8", "Class"}, s \in Texts : Need(kind, s) \in Needs
  BY DEF Need, Needs
<1>2. \A kind, s : Need(kind, s).kind = kind /\ Need(kind, s).text = s
  BY DEF Need
<1> QED
  BY <1>1, <1>2 DEF NeedUtf8

(* What a method needs: its names, and the classes of its frames.          *)
LEMMA MethodNeeds ==
  ASSUME NEW m \in Methods, Ordered(m.frames)
  PROVE  /\ NeededByMethod(m) \in Seq(Needs)
         /\ \A s \in {m.name, m.descriptor, "Code", "LineNumberTable"} :
              NeedUtf8(s) \in ToSet(NeededByMethod(m))
         /\ m.frames # <<>> =>
              /\ NeedUtf8("StackMapTable") \in ToSet(NeededByMethod(m))
              /\ \A s \in ToSet(FrameObjectClasses(m.frames, m.entryLocals)) :
                   Need("Class", s) \in ToSet(NeededByMethod(m))
<1> DEFINE classes == FrameObjectClasses(m.frames, m.entryLocals)
           texts4 == << NeedUtf8(m.name), NeedUtf8(m.descriptor),
                        NeedUtf8("Code"), NeedUtf8("LineNumberTable") >>
           named == [k \in DOMAIN classes |-> Need("Class", classes[k])]
           mapped == << NeedUtf8("StackMapTable") >>
           rest == IF m.frames = <<>> THEN <<>> ELSE mapped \o named
<1>1. NeededByMethod(m) = texts4 \o rest
  BY Zenon DEF NeededByMethod
<1>2. /\ m.frames \in Seq(StackFrames) /\ m.entryLocals \in Seq(VerificationTypes)
      /\ m.name \in Texts /\ m.descriptor \in Texts
  BY MethodFields DEF Methods
<1>3. classes \in Seq(Texts)
  BY <1>2, ClassesCovered
<1> HIDE DEF classes
<1>4. /\ texts4 \in Seq(Needs)
      /\ ToSet(texts4) = {NeedUtf8(m.name), NeedUtf8(m.descriptor),
                          NeedUtf8("Code"), NeedUtf8("LineNumberTable")}
  <2>1. /\ NeedUtf8(m.name) \in Needs /\ NeedUtf8(m.descriptor) \in Needs
        /\ NeedUtf8("Code") \in Needs /\ NeedUtf8("LineNumberTable") \in Needs
    BY <1>2, AttributeNames, NeedTyped
  <2>2. \A a, b, c, d : ToSet(<<a, b, c, d>>) = {a, b, c, d}
    BY DEF ToSet
  <2>3. \A a, b, c, d \in Needs : <<a, b, c, d>> \in Seq(Needs)
    OBVIOUS
  <2> QED
    BY <2>1, <2>2, <2>3, Zenon
<1>5. /\ named \in Seq(Needs)
      /\ \A s \in ToSet(classes) : Need("Class", s) \in ToSet(named)
  <2>1. Len(classes) \in Nat /\ DOMAIN classes = 1..Len(classes)
        /\ \A k \in 1..Len(classes) : classes[k] \in Texts
    BY <1>3
  <2>2. \A k \in 1..Len(classes) : Need("Class", classes[k]) \in Needs
    BY <2>1, NeedTyped
  <2>3. named = [k \in 1..Len(classes) |-> Need("Class", classes[k])]
    BY <2>1
  <2>4. named \in Seq(Needs)
    <3> HIDE DEF named
    <3>1. Len(classes) = Len(named) /\ DOMAIN named = 1..Len(classes)
      BY <2>1, <2>3
    <3> QED
      BY <2>1, <2>2, <2>3, <3>1
  <2>5. ASSUME NEW s \in ToSet(classes)
        PROVE  Need("Class", s) \in ToSet(named)
    <3>1. PICK k \in 1..Len(classes) : classes[k] = s
      BY <2>1, <2>5 DEF ToSet
    <3>2. k \in DOMAIN named /\ named[k] = Need("Class", s)
      BY <2>3, <3>1
    <3> HIDE DEF named
    <3> QED
      BY <3>2 DEF ToSet
  <2> QED
    BY <2>4, <2>5
<1>6. mapped \in Seq(Needs) /\ ToSet(mapped) = {NeedUtf8("StackMapTable")}
  <2>1. NeedUtf8("StackMapTable") \in Needs
    BY AttributeNames, NeedTyped
  <2>2. \A a : ToSet(<<a>>) = {a}
    BY RowSets
  <2>3. \A a \in Needs : <<a>> \in Seq(Needs)
    OBVIOUS
  <2> QED
    BY <2>1, <2>2, <2>3, Zenon
<1> HIDE DEF texts4, named, mapped
<1>7. mapped \o named \in Seq(Needs) /\ ToSet(mapped \o named) = ToSet(mapped) \cup ToSet(named)
  BY <1>5, <1>6, InPair
<1>8. rest \in Seq(Needs) /\ (m.frames # <<>> => ToSet(rest) = ToSet(mapped) \cup ToSet(named))
  BY <1>7
<1> HIDE DEF rest
<1>9. texts4 \o rest \in Seq(Needs) /\ ToSet(texts4 \o rest) = ToSet(texts4) \cup ToSet(rest)
  BY <1>4, <1>8, InPair
<1>10. \A s \in {m.name, m.descriptor, "Code", "LineNumberTable"} : NeedUtf8(s) \in ToSet(texts4)
  BY <1>4
<1>11. ToSet(NeededByMethod(m)) = ToSet(texts4) \cup ToSet(rest) /\ NeededByMethod(m) \in Seq(Needs)
  BY <1>1, <1>9
<1> QED
  BY <1>5, <1>6, <1>8, <1>10, <1>11 DEF classes

(* A plan as the assembler makes it. *)
LEMMA PlanShape ==
  ASSUME NEW p \in Plans
  PROVE  /\ p \in ClassFiles /\ p.this \in Texts /\ p.super \in Texts /\ p.source \in Texts
         /\ p.methods \in Seq(Methods) /\ p.methods \in Counted(Methods)
         /\ DOMAIN p.methods = 1..Len(p.methods) /\ Len(p.methods) \in Nat
         /\ \A k \in 1..Len(p.methods) :
              /\ p.methods[k] \in Methods
              /\ Ordered(p.methods[k].frames) /\ MapFits(p.methods[k].frames)
<1>1. p \in ClassFiles
  BY PlansAssumption, Zenon
<1>2. /\ p.this \in Texts /\ p.super \in Texts /\ p.source \in Texts
      /\ p.methods \in Counted(Methods)
  BY <1>1 DEF ClassFiles
<1>3. p.methods \in Seq(Methods)
  BY <1>2, SMT DEF Counted
<1>4. DOMAIN p.methods = 1..Len(p.methods) /\ Len(p.methods) \in Nat
      /\ \A k \in 1..Len(p.methods) : p.methods[k] \in Methods
  BY <1>3
<1>5. \A k \in DOMAIN p.methods : Ordered(p.methods[k].frames) /\ MapFits(p.methods[k].frames)
  BY PlansAssumption, Zenon
<1> QED
  BY <1>1, <1>2, <1>3, <1>4, <1>5

(* What a class file needs: its names, and what its methods do.            *)
LEMMA PlanNeeds ==
  ASSUME NEW p \in Plans
  PROVE  /\ Needed(p) \in Seq(Needs)
         /\ \A s \in {p.this, p.super} : Need("Class", s) \in ToSet(Needed(p))
         /\ \A s \in {"SourceFile", p.source} : NeedUtf8(s) \in ToSet(Needed(p))
         /\ \A k \in 1..Len(p.methods) :
              ToSet(NeededByMethod(p.methods[k])) \subseteq ToSet(Needed(p))
<1> DEFINE n == Len(p.methods)
           ss == [k \in DOMAIN p.methods |-> NeededByMethod(p.methods[k])]
           first == << Need("Class", p.this), Need("Class", p.super) >>
           last == << NeedUtf8("SourceFile"), NeedUtf8(p.source) >>
           flat == FlattenSeq(ss)
<1>1. Needed(p) = first \o flat \o last
  BY Zenon DEF Needed
<1>2. /\ first \in Seq(Needs) /\ last \in Seq(Needs)
      /\ ToSet(first) = {Need("Class", p.this), Need("Class", p.super)}
      /\ ToSet(last) = {NeedUtf8("SourceFile"), NeedUtf8(p.source)}
  <2>1. /\ Need("Class", p.this) \in Needs /\ Need("Class", p.super) \in Needs
        /\ NeedUtf8("SourceFile") \in Needs /\ NeedUtf8(p.source) \in Needs
    BY PlanShape, AttributeNames, NeedTyped
  <2>2. \A a, b : ToSet(<<a, b>>) = {a, b}
    BY RowSets
  <2>3. \A a, b \in Needs : <<a, b>> \in Seq(Needs)
    OBVIOUS
  <2> QED
    BY <2>1, <2>2, <2>3, Zenon
<1>3. ss \in Seq(Seq(Needs)) /\ Len(ss) = n /\ \A k \in 1..n : ss[k] = NeededByMethod(p.methods[k])
  <2>1. n \in Nat /\ DOMAIN p.methods = 1..n
        /\ \A k \in 1..n : p.methods[k] \in Methods /\ Ordered(p.methods[k].frames)
    BY PlanShape
  <2>2. \A k \in 1..n : NeededByMethod(p.methods[k]) \in Seq(Needs)
    BY <2>1, MethodNeeds
  <2>3. ss = [k \in 1..n |-> NeededByMethod(p.methods[k])]
    BY <2>1
  <2> HIDE DEF ss, n
  <2> DEFINE T == Seq(Needs)
  <2> HIDE DEF T
  <2>4. \A k \in 1..n : ss[k] \in T
    BY <2>2, <2>3 DEF T
  <2>5. ss \in Seq(T) /\ Len(ss) = n
    BY <2>1, <2>3, <2>4
  <2> QED
    BY <2>3, <2>5 DEF T
<1> HIDE DEF ss, first, last, n
<1>4. flat \in Seq(Needs)
  BY <1>3, FlattenPiled
<1>5. \A k \in 1..n : ToSet(NeededByMethod(p.methods[k])) \subseteq ToSet(flat)
  <2> TAKE k \in 1..n
  <2>1. ss \in Seq(Seq(Needs)) /\ k \in 1..Len(ss)
    BY <1>3
  <2>2. \A x \in ToSet(ss[k]) : x \in ToSet(FlattenSeq(ss))
    BY <2>1, FlatElement
  <2> QED
    BY <1>3, <2>2
<1> HIDE DEF flat
<1>6. /\ first \o flat \in Seq(Needs) /\ ToSet(first \o flat) = ToSet(first) \cup ToSet(flat)
  BY <1>2, <1>4, InPair
<1> DEFINE front == first \o flat
<1>7. Needed(p) = front \o last
  BY <1>1
<1> HIDE DEF front
<1>8. /\ front \o last \in Seq(Needs) /\ ToSet(front \o last) = ToSet(front) \cup ToSet(last)
  <2>1. front \in Seq(Needs)
    BY <1>6 DEF front
  <2> QED
    BY <1>2, <2>1, InPair
<1>9. ToSet(Needed(p)) = ToSet(first) \cup ToSet(flat) \cup ToSet(last) /\ Needed(p) \in Seq(Needs)
  BY <1>6, <1>7, <1>8 DEF front
<1> QED
  BY <1>2, <1>5, <1>9 DEF n

(* A constant that the file needs and the pool has. *)
Provided(ts, slots, need) ==
  /\ need.text \in ToSet(ts)
  /\ [kind |-> need.kind, of |-> <<TextId(ts, need.text)>>] \in DOMAIN slots

(* Where the writer is, and what it has interned so far. *)
Stages ==
  /\ plan \in Plans
  /\ stage \in {"lowering", "interning", "written"}
  /\ stage = "lowering" => step = 0
  /\ stage = "interning" => step \in 1..(Len(Needed(plan)) + 1)
  /\ stage = "written" => step = Len(Needed(plan)) + 1 /\ ~ Busy /\ file = ToBytes
  /\ \A k \in 1..(step - 1) : Provided(texts, index, Needed(plan)[k])

WriterInv == PoolInv /\ Stages

(* What the pool has, it keeps, under the same text id. *)
LEMMA ProvidedKept ==
  ASSUME PoolInv, Kept, Grows(texts, texts')
  PROVE  \A need : Provided(texts, index, need) => Provided(texts', index', need)
<1> SUFFICES ASSUME NEW need, Provided(texts, index, need)
             PROVE  Provided(texts', index', need)
  OBVIOUS
<1>1. texts \in Seq(Texts) /\ Unrepeated(texts)
  BY DEF PoolInv, IInv
<1>2. need.text \in ToSet(texts') /\ TextId(texts', need.text) = TextId(texts, need.text)
  BY <1>1, TextIdKept DEF Provided
<1> DEFINE e == [kind |-> need.kind, of |-> <<TextId(texts, need.text)>>]
<1>3. e \in DOMAIN index
  BY DEF Provided
<1>4. e \in DOMAIN index'
  <2> HIDE DEF e
  <2> QED
    BY <1>3 DEF Kept
<1> QED
  BY <1>2, <1>4, Zenon DEF Provided

(* Texts that stay the same have grown. *)
LEMMA GrowsSame ==
  ASSUME PoolInv, UNCHANGED texts
  PROVE  Grows(texts, texts')
BY DEF PoolInv, IInv, Grows

(* Nothing is needed at first. *)
LEMMA WriterInit1 == WriterInit => WriterInv
<1> SUFFICES ASSUME WriterInit
             PROVE  WriterInv
  OBVIOUS
<1>1. Init /\ plan \in Plans /\ stage = "lowering" /\ step = 0
  BY DEF WriterInit
<1>2. IInv
  BY <1>1, InitInvariant
<1>3. texts = <<>> /\ index = <<>> /\ pending = <<>> /\ ToSet(pending) = {}
  BY <1>1, ShortRow DEF Init
<1>4. PoolInv
  BY <1>2, <1>3 DEF PoolInv, Unrepeated, Mentioned, PartKinds
<1>5. Stages
  BY <1>1 DEF Stages
<1> QED
  BY <1>4, <1>5 DEF WriterInv

(* Lowering interns an entry. *)
LEMMA LoweringInterns ==
  ASSUME PoolInv, Lowering
  PROVE  \E e : Interns(e)
<1>1. IInv /\ Unrepeated(texts)
  BY DEF PoolInv
<1>2. ASSUME NEW m \in Operands, InternMember(m.kind, m.owner, m.name, m.descriptor)
      PROVE  \E e : Interns(e)
  <2>1. /\ m.kind \in MemberKinds /\ m.owner \in Texts /\ m.name \in Texts
        /\ m.descriptor \in Texts
    BY OperandsAssumption
  <2> QED
    BY <1>1, <1>2, <2>1, MemberInterns
<1>3. ASSUME NEW s \in Literals, InternString(s)
      PROVE  \E e : Interns(e)
  <2>1. s \in Texts /\ InternNamed("String", s)
    BY <1>3, OperandsAssumption DEF InternString
  <2> QED
    BY <1>1, <2>1, NamedInterns
<1>4. ASSUME NEW kind \in NumberKinds, NEW v \in Numbers, InternNumber(kind, v)
      PROVE  \E e : Interns(e)
  BY <1>1, <1>4, NumberInterns
<1> QED
  BY <1>2, <1>3, <1>4 DEF Lowering

(* The stages go on while the pool grows. *)
LEMMA StagesKept ==
  ASSUME WriterInv, UNCHANGED <<plan, stage, step, file>>, Kept, Grows(texts, texts'),
         stage = "written" => UNCHANGED vars
  PROVE  Stages'
<1>1. \A need : Provided(texts, index, need) => Provided(texts', index', need)
  BY ProvidedKept DEF WriterInv
<1>2. stage = "written" => Busy' = Busy /\ ToBytes' = ToBytes
  <2> SUFFICES ASSUME stage = "written"
               PROVE  Busy' = Busy /\ ToBytes' = ToBytes
    OBVIOUS
  <2>1. UNCHANGED vars
    OBVIOUS
  <2>2. ToBytes' = ToBytes
    BY <2>1, BytesKept
  <2> QED
    BY <2>1, <2>2 DEF vars, Busy
<1>3. plan' = plan /\ stage' = stage /\ step' = step /\ file' = file
  OBVIOUS
<1>4. \A k \in 1..(step' - 1) : Provided(texts', index', Needed(plan')[k])
  BY <1>1, <1>3 DEF WriterInv, Stages
<1>5. stage' = "written" => step' = Len(Needed(plan')) + 1 /\ ~ Busy' /\ file' = ToBytes'
  BY <1>2, <1>3, Zenon DEF WriterInv, Stages
<1> QED
  BY <1>3, <1>4, <1>5 DEF WriterInv, Stages

(* An unchanged pool is as good as before. *)
LEMMA PoolUnchanged ==
  ASSUME PoolInv, UNCHANGED vars
  PROVE  PoolInv' /\ Kept /\ TableStep /\ Grows(texts, texts')
<1>1. IInv' /\ Kept /\ TableStep
  BY PoolStep DEF PoolInv
<1>2. UNCHANGED <<texts, index, queue, pending>>
  BY DEF vars
<1>3. Unrepeated(texts')
  BY <1>2 DEF PoolInv
<1>4. Mentioned'
  BY <1>2, Zenon DEF PoolInv, Mentioned
<1>5. PartKinds'
  BY <1>2, Zenon DEF PoolInv, PartKinds
<1>6. Grows(texts, texts')
  BY <1>2, GrowsSame
<1> QED
  BY <1>1, <1>3, <1>4, <1>5, <1>6 DEF PoolInv

(* Every step keeps the writer's invariant and the pool's entries. *)
LEMMA WriterStep ==
  ASSUME WriterInv, [Next]_writerVars
  PROVE  WriterInv' /\ Kept /\ TableStep
<1>1. PoolInv /\ Stages
  BY DEF WriterInv
<1>2. CASE Lowering
  <2>1. PICK e : Interns(e)
    BY <1>1, <1>2, LoweringInterns
  <2>2. PoolInv' /\ Kept /\ TableStep /\ Grows(texts, texts')
    BY <1>1, <2>1, InternsStep
  <2>3. stage = "lowering" /\ UNCHANGED <<plan, stage, step, file>>
    BY <1>2 DEF Lowering
  <2>4. Stages'
    BY <2>2, <2>3, StagesKept
  <2> QED
    BY <2>2, <2>4 DEF WriterInv
<1>3. CASE InternLoop
  <2>1. PoolInv' /\ Kept /\ TableStep /\ UNCHANGED texts
    BY <1>1, <1>3, VisitEntryMentions, VisitChildMentions DEF InternLoop
  <2>2. Grows(texts, texts')
    BY <1>1, <2>1, GrowsSame
  <2>3. Busy /\ UNCHANGED <<plan, stage, step, file>>
    BY <1>3 DEF InternLoop, VisitEntry, VisitChild, Busy
  <2>4. stage # "written"
    BY <1>1, <2>3 DEF Stages
  <2>5. Stages'
    BY <2>1, <2>2, <2>3, <2>4, StagesKept
  <2> QED
    BY <2>1, <2>5 DEF WriterInv
<1>4. CASE StartWriting
  <2>1. /\ stage = "lowering" /\ stage' = "interning" /\ step' = 1
        /\ UNCHANGED vars /\ plan' = plan
    BY <1>4 DEF StartWriting
  <2>2. PoolInv' /\ Kept /\ TableStep
    BY <1>1, <2>1, PoolUnchanged
  <2>3. 1 \in 1..(Len(Needed(plan)) + 1)
    <3>1. Len(Needed(plan)) \in Nat
      BY <1>1, PlanNeeds DEF Stages
    <3> QED
      BY <3>1
  <2>4. Stages'
    BY <1>1, <2>1, <2>3 DEF Stages
  <2> QED
    BY <2>2, <2>4 DEF WriterInv
<1>5. CASE InternNeeded
  <2> DEFINE need == Needed(plan)[step]
             s == need.text
             e == [kind |-> need.kind, of |-> <<TextId(texts', s)>>]
  <2>1. /\ stage = "interning" /\ step <= Len(Needed(plan))
        /\ InternNamed(need.kind, need.text) /\ step' = step + 1
        /\ UNCHANGED <<plan, stage, file>>
    BY <1>5 DEF InternNeeded
  <2>2. Needed(plan) \in Seq(Needs) /\ step \in 1..(Len(Needed(plan)) + 1)
    BY <1>1, <2>1, PlanNeeds DEF Stages
  <2>3. step \in 1..Len(Needed(plan)) /\ Len(Needed(plan)) \in Nat
    BY <2>1, <2>2
  <2>4. need \in Needs
    BY <2>2, <2>3
  <2>5. need.kind \in {"Utf8", "Class"} /\ s \in Texts
    BY <2>4 DEF Needs
  <2> HIDE DEF need
  <2>6. Interns(e)
    BY <1>1, <2>1, <2>5, NamedInterns DEF PoolInv
  <2> HIDE DEF e
  <2>7. PoolInv' /\ Kept /\ TableStep /\ Grows(texts, texts') /\ e \in DOMAIN index'
    BY <1>1, <2>6, InternsStep
  <2>8. s \in ToSet(texts')
    <3>1. texts \in Seq(Texts) /\ texts' = WithText(texts, s)
      BY <1>1, <2>1 DEF PoolInv, IInv, InternNamed
    <3> QED
      BY <2>5, <3>1, TextAdded
  <2>9. Provided(texts', index', need)
    BY <2>7, <2>8, Zenon DEF Provided, e
  <2>10. ASSUME NEW k \in 1..(step' - 1)
         PROVE  Provided(texts', index', Needed(plan')[k])
    <3>1. plan' = plan
      BY <2>1
    <3>2. CASE k = step
      BY <2>9, <3>1, <3>2 DEF need
    <3>3. CASE k # step
      <4>1. k \in 1..(step - 1)
        BY <2>1, <2>3, <3>3
      <4>2. Provided(texts, index, Needed(plan)[k])
        BY <1>1, <4>1 DEF Stages
      <4>3. \A x : Provided(texts, index, x) => Provided(texts', index', x)
        BY <1>1, <2>7, ProvidedKept
      <4> QED
        BY <3>1, <4>2, <4>3
    <3> QED
      BY <3>2, <3>3
  <2>11. step' \in 1..(Len(Needed(plan)) + 1)
    BY <2>1, <2>3
  <2>12. Stages'
    BY <1>1, <2>1, <2>10, <2>11 DEF Stages
  <2> QED
    BY <2>7, <2>12 DEF WriterInv
<1>6. CASE Write
  <2>1. /\ stage = "interning" /\ ~ Busy /\ step > Len(Needed(plan)) /\ file' = ToBytes
        /\ stage' = "written" /\ UNCHANGED vars /\ UNCHANGED <<plan, step>>
    BY <1>6 DEF Write
  <2>2. PoolInv' /\ Kept /\ TableStep /\ Grows(texts, texts')
    BY <1>1, <2>1, PoolUnchanged
  <2>3. file' = ToBytes'
    BY <2>1, BytesKept
  <2>4. ~ Busy'
    BY <2>1 DEF vars, Busy
  <2>5. step' = Len(Needed(plan')) + 1
    <3>1. Len(Needed(plan)) \in Nat
      BY <1>1, PlanNeeds DEF Stages
    <3> QED
      BY <1>1, <2>1, <3>1 DEF Stages
  <2>6. \A k \in 1..(step' - 1) : Provided(texts', index', Needed(plan')[k])
    <3>1. \A x : Provided(texts, index, x) => Provided(texts', index', x)
      BY <1>1, <2>2, ProvidedKept
    <3> QED
      BY <1>1, <2>1, <3>1 DEF Stages
  <2>7. Stages'
    BY <1>1, <2>1, <2>3, <2>4, <2>5, <2>6 DEF Stages
  <2> QED
    BY <2>2, <2>7 DEF WriterInv
<1>7. CASE UNCHANGED writerVars
  <2>1. UNCHANGED vars /\ UNCHANGED <<plan, stage, step, file>>
    BY <1>7 DEF writerVars
  <2>2. PoolInv' /\ Kept /\ TableStep /\ Grows(texts, texts')
    BY <1>1, <2>1, PoolUnchanged
  <2>3. Stages'
    BY <2>1, <2>2, StagesKept
  <2> QED
    BY <2>2, <2>3 DEF WriterInv
<1> QED
  BY <1>2, <1>3, <1>4, <1>5, <1>6, <1>7 DEF Next

(* The writer keeps to it. *)
LEMMA WriterInvariant == Spec => []WriterInv
<1>1. WriterInv /\ [Next]_writerVars => WriterInv'
  BY WriterStep
<1> QED
  BY <1>1, WriterInit1, PTL DEF Spec

(* Every text has an entry of its own, so that there are fewer texts than  *)
(* indices: no text id is truncated.                                       *)
LEMMA TextsFit ==
  ASSUME PoolInv, ~ Busy, ~ overflowed
  PROVE  Len(texts) < IndexSpace
<1>1. /\ Numbered /\ Spread /\ texts \in Seq(Texts) /\ Len(texts) \in Nat
      /\ IndexSpace \in Nat \ {0, 1}
  BY SpaceAssumption DEF PoolInv, IInv, Numbered
<1>2. ToSet(queue) = {} /\ ToSet(pending) = {}
  BY ShortRow DEF Busy
<1> SUFFICES ASSUME Len(texts) >= IndexSpace
             PROVE  FALSE
  BY <1>1
<1> DEFINE S == 0..(IndexSpace - 1)
           T == 1..(IndexSpace - 1)
           f == [t \in S |-> index[Utf8(t)]]
<1>3. \A t \in S : Utf8(t) \in DOMAIN index
  BY <1>1, <1>2 DEF PoolInv, Mentioned
<1>4. \A e \in DOMAIN index : \E k \in DOMAIN entries : entries[k] = e
  BY <1>1 DEF Numbered, ToSet
<1>5. /\ nextIndex \in Nat /\ nextIndex <= IndexSpace - 1
      /\ \A e \in DOMAIN index : index[e] \in Nat /\ Width(e) \in {1, 2}
  BY <1>1, WidthType DEF Numbered
<1>6. \A e \in DOMAIN index : index[e] \in T
  <2> TAKE e \in DOMAIN index
  <2>1. PICK k \in DOMAIN entries : entries[k] = e
    BY <1>4
  <2>2. index[e] >= 1 /\ index[e] + Width(e) <= nextIndex
    BY <1>1, <2>1 DEF Spread
  <2> QED
    BY <1>1, <1>5, <2>2
<1>7. \A d, e \in DOMAIN index : index[d] = index[e] => d = e
  <2> SUFFICES ASSUME NEW d \in DOMAIN index, NEW e \in DOMAIN index, d # e
               PROVE  index[d] # index[e]
    OBVIOUS
  <2>1. PICK j \in DOMAIN entries : entries[j] = d
    BY <1>4
  <2>2. PICK k \in DOMAIN entries : entries[k] = e
    BY <1>4
  <2>3. j \in Nat /\ k \in Nat /\ j # k
    BY <1>1, <2>1, <2>2 DEF Numbered
  <2>4. j < k \/ k < j
    BY <2>3
  <2>5. index[d] + Width(d) <= index[e] \/ index[e] + Width(e) <= index[d]
    BY <1>1, <2>1, <2>2, <2>4 DEF Spread
  <2> QED
    BY <1>5, <2>5
<1>8. f \in [S -> T]
  BY <1>3, <1>6
<1>9. IsFiniteSet(S) /\ IsFiniteSet(T) /\ Cardinality(T) < Cardinality(S)
  <2>1. /\ IsFiniteSet(S)
        /\ Cardinality(S) = IF 0 > IndexSpace - 1 THEN 0 ELSE IndexSpace - 1 - 0 + 1
    BY <1>1, FS_Interval
  <2>2. /\ IsFiniteSet(T)
        /\ Cardinality(T) = IF 1 > IndexSpace - 1 THEN 0 ELSE IndexSpace - 1 - 1 + 1
    BY <1>1, FS_Interval
  <2> QED
    BY <1>1, <2>1, <2>2
<1> HIDE DEF S, T
<1>10. \A t \in S : f[t] = index[Utf8(t)]
  OBVIOUS
<1> HIDE DEF f
<1>11. PICK t \in S, u \in S : t # u /\ f[t] = f[u]
  BY <1>8, <1>9, FS_PigeonHole
<1>12. Utf8(t) = Utf8(u)
  BY <1>3, <1>7, <1>10, <1>11
<1>13. Utf8(t).of[1] = t /\ Utf8(u).of[1] = u
  BY DEF Utf8
<1> QED
  BY <1>11, <1>12, <1>13

(* A text is found behind its id. *)
LEMMA TextBehindId ==
  ASSUME PoolInv, ~ Busy, ~ overflowed, NEW s \in ToSet(texts)
  PROVE  s \in Texts /\ texts[TextId(texts, s) + 1] = s
<1>1. texts \in Seq(Texts) /\ Unrepeated(texts) /\ Len(texts) \in Nat
  BY DEF PoolInv, IInv
<1>2. PICK k \in 1..Len(texts) : texts[k] = s
  BY <1>1 DEF ToSet
<1>3. k <= IndexSpace
  <2>1. Len(texts) < IndexSpace
    BY TextsFit
  <2> QED
    BY <1>1, <2>1, SpaceAssumption
<1>4. TextId(texts, s) = k - 1
  BY <1>1, <1>2, <1>3, IdOfNew
<1>5. TextId(texts, s) + 1 = k
  BY <1>4
<1> QED
  BY <1>1, <1>2, <1>5

(* Indices are u16. *)
LEMMA EntriesFit ==
  ASSUME Numbered
  PROVE  IndicesFit /\ \A e : EntryIndex(e) \in U16
<1>1. \A e \in DOMAIN index : index[e] \in 0..(IndexSpace - 1)
  BY DEF Numbered
<1>2. IndexSpace \in Nat /\ IndexSpace <= 65536
  BY SpaceAssumption, WidthAssumption, SMT
<1>3. \A i \in 0..(IndexSpace - 1) : i \in U16
  BY <1>2, U16Range, SMT
<1>4. 0 \in U16
  BY U16Range, SMT
<1>5. \A e : EntryIndex(e) \in U16
  BY <1>1, <1>3, <1>4 DEF EntryIndex, NoIndex
<1>6. IndicesFit
  BY <1>4, <1>5, Zenon DEF IndicesFit, NamedIndex, NoIndex
<1> QED
  BY <1>5, <1>6

(* How many parts an entry has. *)
LEMMA PartsCounted ==
  ASSUME NEW e, e.kind \in TextKinds \ {"Utf8"}
  PROVE  Len(Children(e)) = PartCount(e.kind)
<1>1. CASE e.kind \in {"Class", "String"}
  <2>1. Children(e) = <<Utf8(e.of[1])>>
    BY <1>1 DEF Children
  <2> QED
    BY <1>1, <2>1 DEF PartCount
<1>2. CASE e.kind = "NameAndType"
  <2>1. Children(e) = <<Utf8(e.of[1]), Utf8(e.of[2])>>
    BY <1>2 DEF Children
  <2> QED
    BY <1>2, <2>1 DEF PartCount
<1>3. CASE e.kind \in {"Fieldref", "Methodref"}
  <2>1. Children(e) = <<ClassOf(e.of[1]), NameAndType(e.of[2], e.of[3])>>
    BY <1>3 DEF Children
  <2> QED
    BY <1>3, <2>1 DEF PartCount
<1> QED
  BY <1>1, <1>2, <1>3 DEF TextKinds

(* Between calls the pool can be written and read.                         *)
LEMMA PoolReady ==
  ASSUME PoolInv, ~ Busy, ~ overflowed
  PROVE  PoolWritable /\ PoolClosed
<1>1. /\ IInv /\ Numbered /\ texts \in Seq(Texts) /\ Len(texts) \in Nat
      /\ \A e \in DOMAIN index : Formed(e, Len(texts)) /\ Fits(e)
  BY DEF PoolInv, IInv, Closing, PartKinds
<1>2. PoolClosed
  BY <1>1, IdleClosed DEF Closed, PoolClosed
<1>3. ASSUME NEW e \in DOMAIN index
      PROVE  Writable(e)
  <2>1. Formed(e, Len(texts)) /\ e.kind \in Kinds
    BY <1>1 DEF Formed, Entry
  <2>2. e.kind = "Utf8" => TextOf(e) \in Texts
    <3> SUFFICES ASSUME e.kind = "Utf8"
                 PROVE  TextOf(e) \in Texts
      OBVIOUS
    <3>1. e.of[1] \in 0..(Len(texts) - 1)
      BY <2>1 DEF Formed, Texted
    <3>2. e.of[1] + 1 \in 1..Len(texts)
      BY <1>1, <3>1
    <3> QED
      BY <1>1, <3>2 DEF TextOf
  <2>3. e.kind \in NumberKinds => e.of[1] \in U31
    BY <1>1 DEF Fits
  <2>4. e.kind \in TextKinds \ {"Utf8"} =>
          Children(e) \in Seq(Entry) /\ Len(Children(e)) = PartCount(e.kind)
    BY <1>1, <2>1, ChildrenFormed, PartsCounted
  <2>5. \A c : EntryIndex(c) \in U16
    BY <1>1, EntriesFit
  <2> QED
    BY <2>1, <2>2, <2>3, <2>4, <2>5, Zenon DEF Writable
<1> QED
  BY <1>1, <1>2, <1>3 DEF PoolWritable

(* What is provided is found. *)
LEMMA ProvidedFound ==
  ASSUME PoolInv, ~ Busy, ~ overflowed, NEW s
  PROVE  /\ Provided(texts, index, NeedUtf8(s)) => HasText(s)
         /\ Provided(texts, index, Need("Class", s)) => HasClass(s)
<1>1. Provided(texts, index, NeedUtf8(s)) =>
        s \in ToSet(texts) /\ Utf8(TextId(texts, s)) \in DOMAIN index
  BY Zenon DEF Provided, NeedUtf8, Need, Utf8
<1>2. Provided(texts, index, Need("Class", s)) =>
        s \in ToSet(texts) /\ ClassOf(TextId(texts, s)) \in DOMAIN index
  BY Zenon DEF Provided, Need, ClassOf
<1>3. ClassOf(TextId(texts, s)) \in DOMAIN index => Utf8(TextId(texts, s)) \in DOMAIN index
  <2> DEFINE t == TextId(texts, s)
             c == ClassOf(t)
  <2> HIDE DEF t
  <2>1. Children(c) = <<Utf8(t)>>
    BY DEF Children, ClassOf
  <2>2. ToSet(Children(c)) = {Utf8(t)}
    BY <2>1, RowSets, Zenon
  <2> HIDE DEF c
  <2>3. c \in DOMAIN index => Utf8(t) \in DOMAIN index
    BY <2>2, PoolReady DEF PoolClosed
  <2> QED
    BY <2>3 DEF t, c
<1> QED
  BY <1>1, <1>2, <1>3, TextBehindId DEF HasText, HasClass

(* Once all is interned, the plan can be written and read.                 *)
LEMMA PlanIsReady ==
  ASSUME WriterInv, stage = "written", ~ overflowed
  PROVE  PlanReady
<1>1. PoolInv /\ plan \in Plans /\ ~ Busy /\ step = Len(Needed(plan)) + 1
  BY DEF WriterInv, Stages
<1>2. Needed(plan) \in Seq(Needs) /\ Len(Needed(plan)) \in Nat
  BY <1>1, PlanNeeds
<1>3. \A x \in ToSet(Needed(plan)) : Provided(texts, index, x)
  <2> TAKE x \in ToSet(Needed(plan))
  <2>1. PICK k \in 1..Len(Needed(plan)) : Needed(plan)[k] = x
    BY <1>2 DEF ToSet
  <2>2. k \in 1..(step - 1)
    BY <1>1, <1>2
  <2> QED
    BY <2>1, <2>2 DEF WriterInv, Stages
<1>4. \A s : NeedUtf8(s) \in ToSet(Needed(plan)) => HasText(s)
  BY <1>1, <1>3, ProvidedFound
<1>5. \A s : Need("Class", s) \in ToSet(Needed(plan)) => HasClass(s)
  BY <1>1, <1>3, ProvidedFound
<1>6. ASSUME NEW k \in 1..Len(plan.methods)
      PROVE  MethodReady(plan.methods[k])
  <2> DEFINE m == plan.methods[k]
  <2>1. m \in Methods /\ Ordered(m.frames) /\ MapFits(m.frames)
    BY <1>1, PlanShape
  <2>2. ToSet(NeededByMethod(m)) \subseteq ToSet(Needed(plan))
    BY <1>1, PlanNeeds
  <2> HIDE DEF m
  <2>3. \A s \in {m.name, m.descriptor, "Code", "LineNumberTable"} :
          NeedUtf8(s) \in ToSet(NeededByMethod(m))
    BY <2>1, MethodNeeds
  <2>4. m.frames # <<>> =>
          /\ NeedUtf8("StackMapTable") \in ToSet(NeededByMethod(m))
          /\ \A s \in ToSet(FrameObjectClasses(m.frames, m.entryLocals)) :
               Need("Class", s) \in ToSet(NeededByMethod(m))
    BY <2>1, MethodNeeds
  <2>5. \A s \in {m.name, m.descriptor, "Code", "LineNumberTable"} : HasText(s)
    BY <1>4, <2>2, <2>3
  <2>6. m.frames # <<>> =>
          /\ HasText("StackMapTable")
          /\ \A s \in ToSet(FrameObjectClasses(m.frames, m.entryLocals)) : HasClass(s)
    BY <1>4, <1>5, <2>2, <2>4
  <2>7. MethodReady(m)
    BY <2>1, <2>5, <2>6 DEF MethodReady
  <2> QED
    BY <2>7 DEF m
<1>7. MethodsReady(plan.methods)
  BY <1>1, <1>6, PlanShape DEF MethodsReady
<1>8. HasClass(plan.this) /\ HasClass(plan.super) /\ HasText("SourceFile") /\ HasText(plan.source)
  BY <1>1, <1>4, <1>5, PlanNeeds
<1> QED
  BY <1>1, <1>7, <1>8, PlanShape DEF PlanReady

-----------------------------------------------------------------------------
(* The theorems about the writer. *)

(* The invariant is enough. *)
LEMMA Recovered == WriterInv => ReadsBack
<1> SUFFICES ASSUME WriterInv, stage = "written", ~ overflowed
             PROVE  ReadsBack
  BY DEF ReadsBack, Written
<1>1. PoolInv /\ ~ Busy /\ file = ToBytes /\ Numbered
  BY DEF WriterInv, Stages, PoolInv, IInv
<1>2. PoolWritable /\ PoolClosed
  BY <1>1, PoolReady
<1>3. IndicesFit
  BY <1>1, EntriesFit
<1> QED
  BY <1>1, <1>2, <1>3, PlanIsReady, FileReadsBack

(* Every class file the writer makes is taken apart by the independent     *)
(* reader into what was planned.                                           *)
THEOREM WriterReadsBack == Spec => []ReadsBack
BY WriterInvariant, Recovered, PTL

(* No frame could have been written in fewer bytes. *)
LEMMA Smallest == WriterInv => SmallestForms
<1> SUFFICES ASSUME WriterInv, NEW n \in DOMAIN plan.methods,
                    NEW k \in DOMAIN plan.methods[n].frames,
                    NEW p \in FormsOf(plan.methods[n].frames[k],
                                      Delta(plan.methods[n].frames, k),
                                      PrevLocals(plan.methods[n].frames,
                                                 plan.methods[n].entryLocals, k)),
                    Expresses(p, plan.methods[n].frames[k], Delta(plan.methods[n].frames, k),
                              PrevLocals(plan.methods[n].frames,
                                         plan.methods[n].entryLocals, k))
             PROVE  Len(FrameBytes(WriteFrame(plan.methods[n].frames[k],
                                              Delta(plan.methods[n].frames, k),
                                              PrevLocals(plan.methods[n].frames,
                                                         plan.methods[n].entryLocals, k))))
                      <= Len(FrameBytes(p))
  BY Zenon DEF SmallestForms
<1> DEFINE m == plan.methods[n]
           f == m.frames[k]
           delta == Delta(m.frames, k)
           prev == PrevLocals(m.frames, m.entryLocals, k)
<1>1. IndicesFit /\ plan \in Plans
  BY EntriesFit DEF WriterInv, PoolInv, IInv, Stages
<1>2. m \in Methods /\ Ordered(m.frames)
  BY <1>1, PlanShape
<1> HIDE DEF m
<1>3. /\ m.frames \in Seq(StackFrames) /\ m.entryLocals \in Seq(VerificationTypes)
      /\ DOMAIN m.frames = 1..Len(m.frames)
  BY <1>2, MethodFields
<1>4. f \in StackFrames /\ delta \in U16 /\ prev \in Seq(VerificationTypes)
  <2>1. k \in 1..Len(m.frames)
    BY <1>3 DEF m
  <2> QED
    BY <1>2, <1>3, <2>1, Deltas, PreviousLocals
<1> HIDE DEF f, delta, prev
<1>5. Len(FrameBytes(WriteFrame(f, delta, prev))) <= Len(FrameBytes(p))
  BY <1>1, <1>4, SmallestForm DEF f, delta, prev, m
<1> QED
  BY <1>5 DEF f, delta, prev, m

(* No frame of a class file could have been written in fewer bytes.        *)
THEOREM WriterSmallestForms == Spec => []SmallestForms
BY WriterInvariant, Smallest, PTL

(* What holds of the pool alone holds of the pool the writer fills.        *)
THEOREM WriterPool == Spec => [](TypeOK /\ CountedIndex /\ SlotsDisjoint /\ Serializable)
<1>1. WriterInv => IInv
  BY DEF WriterInv, PoolInv
<1> QED
  BY <1>1, WellFormed, SlotsApart, EntriesClosed, WriterInvariant, PTL

(* The writer fills a slot table: whatever an instruction or an attribute  *)
(* names by an index stays there.                                          *)
THEOREM WriterImplementsTable == Spec => ImplementsTable
<1>1. WriterInit => Table!Init
  BY DEF WriterInit, Init, Table!Init
<1>2. WriterInv /\ [Next]_writerVars => [Table!Next]_<<index, nextIndex, overflowed>>
  BY WriterStep DEF TableStep
<1>3. Table!slotVars = <<index, nextIndex, overflowed>>
  BY DEF Table!slotVars
<1> QED
  BY <1>1, <1>2, WriterInvariant, PTL DEF Spec, ImplementsTable, Table!Spec, Table!slotVars

(* No text id is truncated before the pool has overflowed.                 *)
THEOREM TextIdsAreExact == Spec => [](~ Busy /\ ~ overflowed => Len(texts) < IndexSpace)
<1>1. WriterInv => (~ Busy /\ ~ overflowed => Len(texts) < IndexSpace)
  BY TextsFit DEF WriterInv
<1> QED
  BY <1>1, WriterInvariant, PTL

(* An index handed out to an instruction stays valid while the file is     *)
(* written.                                                                *)
THEOREM WriterKeepsIndices == Spec => IndexKept
<1>1. WriterInv /\ [Next]_writerVars => [Kept]_vars
  BY WriterStep
<1> QED
  BY <1>1, WriterInvariant, PTL DEF Spec, IndexKept, Kept

=============================================================================
