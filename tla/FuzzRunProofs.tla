---------------------------- MODULE FuzzRunProofs ----------------------------
(***************************************************************************)
(* The exit code of the fuzzer is true of the programs, for any number of  *)
(* programs, batches, compilers, classes and failures of the worker, the   *)
(* observer and the disk.                                                  *)
(***************************************************************************)
EXTENDS FuzzRun, FiniteFolds, SequenceTheorems, FiniteSetTheorems, WellFoundedInduction, TLAPS

(* A nonempty set of naturals has a least element...                       *)
LEMMA LeastNatural ==
  ASSUME NEW T, T \subseteq Nat, T # {}
  PROVE  \E x \in T : \A y \in T : x <= y
<1> DEFINE Below == {0..x : x \in T}
<1>1. \A x \in T : IsFiniteSet(0..x) /\ 0..x \subseteq Nat
      BY FS_Interval
<1>2. Below \subseteq FiniteSubsetsOf(Nat) /\ Below # {}
      BY <1>1 DEF FiniteSubsetsOf
<1>3. \E b \in Below : \A c \in Below : ~ (<<c, b>> \in StrictSubsetOrdering(Nat))
      BY <1>2, FS_StrictSubsetOrderingWellFounded, WFMin
<1>4. PICK x \in T : \A y \in T : ~ (<<0..y, 0..x>> \in StrictSubsetOrdering(Nat))
      BY <1>3
<1>5. ASSUME NEW y \in T PROVE x <= y
      <2>1. <<0..y, 0..x>>[1] = 0..y /\ <<0..y, 0..x>>[2] = 0..x
            OBVIOUS
      <2>2. 0..y \subseteq 0..x => 0..y = 0..x
            BY <1>1, <1>4, <2>1 DEF StrictSubsetOrdering
      <2>3. ASSUME y < x PROVE FALSE
            <3>1. 0..y \subseteq 0..x
                  BY <2>3
            <3>2. x \in 0..x /\ x \notin 0..y
                  BY <2>3
            <3> QED BY <2>2, <3>1, <3>2
      <2> QED BY <2>3
<1> QED BY <1>5

(* ... and one bounded above a greatest.                                   *)
LEMMA GreatestNatural ==
  ASSUME NEW bound \in Nat, NEW T, T \subseteq 0..bound, T # {}
  PROVE  \E x \in T : \A y \in T : y <= x
<1> DEFINE Flipped == {bound - y : y \in T}
<1>1. \A y \in T : bound - y \in Nat /\ y \in Nat
      OBVIOUS
<1>2. Flipped \subseteq Nat /\ Flipped # {}
      BY <1>1
<1>3. \A F \in SUBSET Nat : F # {} => \E f \in F : \A y \in F : f <= y
      BY LeastNatural
<1>4. PICK f \in Flipped : \A y \in Flipped : f <= y
      <2> HIDE DEF Flipped
      <2> QED BY <1>2, <1>3
<1>5. PICK x \in T : f = bound - x
      OBVIOUS
<1>6. ASSUME NEW y \in T PROVE y <= x
      <2>1. bound - y \in Flipped /\ bound - x <= bound - y
            BY <1>4, <1>5
      <2> QED BY <2>1, <1>1, <1>5
<1> QED BY <1>6

(* A batch that is generated is not empty and not too long.                *)
LEMMA ThisBound ==
  ASSUME cfg \in [batch : Nat \ {0}, keepGoing : BOOLEAN], n \in 0..Count, n < Count
  PROVE  This \in 1..Count - n
<1>1. Count \in Nat
      BY RunAssumption
<1>2. \A a, b \in Nat \ {0} : Min({a, b}) \in {a, b} /\ Min({a, b}) <= a /\ Min({a, b}) <= b
      <2>1. SUFFICES ASSUME NEW a \in Nat \ {0}, NEW b \in Nat \ {0}
                     PROVE  \E x \in {a, b} : \A y \in {a, b} : x <= y
            BY DEF Min
      <2>2. CASE a <= b
            BY <2>2
      <2>3. CASE ~ a <= b
            BY <2>3
      <2> QED BY <2>2, <2>3
<1>3. cfg.batch \in Nat \ {0} /\ Count - n \in Nat \ {0}
      BY <1>1
<1> QED BY <1>1, <1>2, <1>3 DEF This

(* The map of a response holds, for each name in it, the bytes of a class  *)
(* of that name.                                                           *)
LEMMA CollectedFacts ==
  ASSUME NEW out \in Seq([name : Nat, bytes : {"ref", "empty"}])
  PROVE  /\ \A i : i \in DOMAIN Collected(out) <=> \E x \in DOMAIN out : out[x].name = i
         /\ \A i \in DOMAIN Collected(out) : \E x \in DOMAIN out :
              out[x].name = i /\ Collected(out)[i] = out[x].bytes
<1>1. ToSet(out) = {out[x] : x \in DOMAIN out}
      BY DEF ToSet
<1>2. \A i : i \in DOMAIN Collected(out) <=> \E x \in DOMAIN out : out[x].name = i
      BY <1>1 DEF Collected
<1>3. ASSUME NEW i \in DOMAIN Collected(out)
      PROVE  \E x \in DOMAIN out : out[x].name = i /\ Collected(out)[i] = out[x].bytes
      <2> DEFINE Named == {x \in DOMAIN out : out[x].name = i}
                 IsLast(x) == x \in DOMAIN out /\ out[x].name = i
                                /\ \A j \in DOMAIN out : out[j].name = i => j <= x
                 last == CHOOSE x \in DOMAIN out :
                           out[x].name = i /\ \A j \in DOMAIN out : out[j].name = i => j <= x
      <2>1. Named # {} /\ Named \subseteq 0..Len(out) /\ Len(out) \in Nat
            BY <1>2, <1>3
      <2>2. \E x \in Named : \A y \in Named : y <= x
            BY <2>1, GreatestNatural
      <2>3. \E x \in DOMAIN out : out[x].name = i /\ \A j \in DOMAIN out : out[j].name = i => j <= x
            BY <2>2
      <2>4. last \in DOMAIN out /\ out[last].name = i
            BY <2>3
      <2>5. Collected(out)[i] = out[last].bytes
            BY <1>3 DEF Collected
      <2> QED BY <2>4, <2>5
<1> QED BY <1>2, <1>3

(* Counting a case adds one to each of the fields named.                   *)
LEMMA CountedFacts ==
  ASSUME tally \in [DOMAIN Tally -> Nat], NEW fields
  PROVE  /\ Counted(fields) \in [DOMAIN Tally -> Nat]
         /\ \A f \in DOMAIN Tally :
              Counted(fields)[f] = IF f \in fields THEN tally[f] + 1 ELSE tally[f]
<1>1. DOMAIN tally = DOMAIN Tally
      OBVIOUS
<1> HIDE DEF Tally
<1> QED BY <1>1 DEF Counted

-----------------------------------------------------------------------------
(* The conversation with the worker. *)

(* The head of a rest of the batch is the program its length tells.        *)
LEMMA RestFacts ==
  ASSUME TypesOK, PlaceOK, NEW units, IsRest(units), units # <<>>
  PROVE  LET next == Len(progs) - Len(units) + 1
         IN /\ next \in Batch /\ Head(units) = progs[next] /\ progs[next].name = next
            /\ IsRest(Tail(units)) /\ Len(progs) - Len(Tail(units)) + 1 = next + 1
<1> DEFINE next == Len(progs) - Len(units) + 1
<1>1. /\ units \in Seq(ToSet(progs)) /\ Len(units) \in Nat \ {0} /\ Len(progs) \in Nat
      /\ Len(units) <= Len(progs) - n /\ n \in Nat /\ DOMAIN progs = 1..Len(progs)
      BY RunAssumption DEF TypesOK, IsRest
<1>2. next \in Batch /\ next \in DOMAIN progs
      BY <1>1 DEF Batch
<1>3. Head(units) = progs[next]
      BY <1>1 DEF IsRest
<1>4. Tail(units) \in Seq(ToSet(progs)) /\ Len(Tail(units)) = Len(units) - 1
      BY <1>1
<1>5. \A j \in DOMAIN Tail(units) : Tail(units)[j] = units[j + 1] /\ j + 1 \in DOMAIN units
      BY <1>1
<1>6. IsRest(Tail(units))
      <2>1. ASSUME NEW j \in DOMAIN Tail(units)
            PROVE  Tail(units)[j] = progs[Len(progs) - Len(Tail(units)) + j]
            <3>1. j \in Nat /\ j + 1 \in DOMAIN units
                  BY <1>1, <1>4, <2>1
            <3>2. units[j + 1] = progs[Len(progs) - Len(units) + (j + 1)]
                  BY <3>1 DEF IsRest
            <3>3. Len(progs) - Len(units) + (j + 1) = Len(progs) - Len(Tail(units)) + j
                  BY <1>1, <1>4, <3>1
            <3> QED BY <1>5, <2>1, <3>2, <3>3
      <2> QED BY <1>1, <1>4, <2>1 DEF IsRest
<1>7. progs[next].name = next
      BY <1>2 DEF PlaceOK
<1> HIDE DEF next
<1>8. Len(progs) - Len(Tail(units)) + 1 = next + 1
      BY <1>1, <1>4 DEF next
<1> QED BY <1>2, <1>3, <1>6, <1>7, <1>8 DEF next

(* Classes up to some program are classes of the batch.                    *)
LEMMA OutFacts ==
  ASSUME TypesOK, NEW next, NEW out, ClassesUpTo(next, out)
  PROVE  /\ n \in Nat /\ Len(progs) \in Nat /\ Batch \subseteq Nat
         /\ out \in Seq([name : Batch, bytes : {"ref", "empty"}])
         /\ Len(out) \in Nat /\ DOMAIN out = 1..Len(out)
         /\ \A x \in DOMAIN out : out[x].name \in Batch /\ out[x].bytes \in {"ref", "empty"}
<1> DEFINE S == [name : Batch, bytes : {"ref", "empty"}]
<1>1. n \in Nat /\ Len(progs) \in Nat /\ Batch \subseteq Nat /\ out \in Seq(S)
      BY RunAssumption DEF TypesOK, Batch, ClassesUpTo
<1>2. \A c \in S : c.name \in Batch /\ c.bytes \in {"ref", "empty"}
      OBVIOUS
<1> HIDE DEF S
<1>3. Len(out) \in Nat /\ DOMAIN out = 1..Len(out) /\ \A x \in DOMAIN out : out[x] \in S
      BY <1>1
<1> QED BY <1>1, <1>2, <1>3 DEF S

(* A rejected program leaves no class.                                     *)
LEMMA ClassesReject ==
  ASSUME TypesOK, NEW next \in Batch, NEW out, ClassesUpTo(next, out),
         progs[next].javac = "rejects"
  PROVE  ClassesUpTo(next + 1, out)
<1>1. /\ n \in Nat /\ Len(progs) \in Nat /\ Batch \subseteq Nat
      /\ DOMAIN out \subseteq Nat /\ \A x \in DOMAIN out : out[x].name \in Batch
      BY OutFacts
<1>2. CASE faults = 0
      <2>1. \A x \in DOMAIN out :
              /\ progs[out[x].name].javac = "accepts" /\ out[x].name \in Batch
              /\ out[x].name < next /\ out[x].bytes = "ref"
            <3>1. SUFFICES ASSUME NEW x \in DOMAIN out, out[x] = Opened(next) PROVE FALSE
                  BY <1>1, <1>2 DEF ClassesUpTo
            <3>2. out[x].name = next
                  BY <3>1 DEF Opened
            <3> QED BY <1>2, <3>2 DEF ClassesUpTo
      <2>2. \A i \in n + 1..next : i = next \/ i \in n + 1..next - 1
            BY <1>1
      <2>3. \A i \in n + 1..next : progs[i].javac = "accepts" => \E x \in DOMAIN out : out[x].name = i
            BY <1>2, <2>2 DEF ClassesUpTo
      <2>4. \A x \in DOMAIN out : out[x].name < next + 1
            <3>1. \A m \in Nat : m < next => m < next + 1
                  BY <1>1
            <3> QED BY <1>1, <2>1, <3>1
      <2>5. n + 1..(next + 1) - 1 = n + 1..next
            BY <1>1
      <2> QED BY <2>1, <2>3, <2>4, <2>5 DEF ClassesUpTo
<1>3. CASE faults # 0
      BY <1>3 DEF ClassesUpTo
<1> QED BY <1>2, <1>3

(* An accepted one has its class opened...                                 *)
LEMMA ClassesOpen ==
  ASSUME TypesOK, NEW next \in Batch, NEW out, ClassesUpTo(next, out),
         progs[next].javac = "accepts", ~ (out # <<>> /\ Last(out) = Opened(next))
  PROVE  ClassesUpTo(next, Append(out, Opened(next)))
<1> DEFINE longer == Append(out, Opened(next))
<1>1. n \in Nat /\ Batch \subseteq Nat /\ out \in Seq([name : Batch, bytes : {"ref", "empty"}])
      BY RunAssumption DEF TypesOK, Batch, ClassesUpTo
<1>2. Opened(next) \in [name : Batch, bytes : {"ref", "empty"}]
      BY DEF Opened
<1>3. /\ longer \in Seq([name : Batch, bytes : {"ref", "empty"}])
      /\ Len(longer) = Len(out) + 1 /\ longer[Len(longer)] = Opened(next)
      /\ \A x \in DOMAIN longer : x \in DOMAIN out \/ x = Len(longer)
      /\ \A x \in DOMAIN out : x \in DOMAIN longer /\ longer[x] = out[x]
      BY <1>1, <1>2
<1>4. Opened(next).name = next
      BY DEF Opened
<1> HIDE DEF longer
<1>5. \A x \in DOMAIN longer : progs[longer[x].name].javac = "accepts"
      BY <1>3, <1>4 DEF ClassesUpTo
<1>6. CASE faults = 0
      <2>1. \A x \in DOMAIN out : out[x].name < next /\ out[x].bytes = "ref"
            <3>1. SUFFICES ASSUME NEW x \in DOMAIN out, x = Len(out), out[x] = Opened(next)
                           PROVE  FALSE
                  BY <1>6 DEF ClassesUpTo
            <3> QED BY <1>1, <3>1 DEF Last
      <2>2. \A i \in n + 1..next - 1 : progs[i].javac = "accepts" =>
              \E x \in DOMAIN longer : longer[x].name = i
            BY <1>3, <1>6 DEF ClassesUpTo
      <2>3. \A x \in DOMAIN longer :
              \/ longer[x].name < next /\ longer[x].bytes = "ref"
              \/ x = Len(longer) /\ longer[x] = Opened(next)
            BY <1>3, <2>1
      <2>4. ClassesUpTo(next, longer)
            BY <1>3, <1>5, <2>2, <2>3 DEF ClassesUpTo
      <2> QED BY <2>4 DEF longer
<1>7. CASE faults # 0
      <2>1. ClassesUpTo(next, longer)
            BY <1>3, <1>5, <1>7 DEF ClassesUpTo
      <2> QED BY <2>1 DEF longer
<1> QED BY <1>6, <1>7

(* ... and then written.                                                   *)
LEMMA ClassesWrite ==
  ASSUME TypesOK, NEW next \in Batch, NEW out, ClassesUpTo(next, out),
         out # <<>>, Last(out) = Opened(next)
  PROVE  ClassesUpTo(next + 1, [out EXCEPT ![Len(out)].bytes = "ref"])
<1> DEFINE written == [out EXCEPT ![Len(out)].bytes = "ref"]
<1>1. /\ n \in Nat /\ Batch \subseteq Nat /\ out \in Seq([name : Batch, bytes : {"ref", "empty"}])
      /\ Len(out) \in DOMAIN out /\ Len(out) \in Nat /\ out[Len(out)] = Opened(next)
      BY RunAssumption DEF TypesOK, Batch, ClassesUpTo, Last
<1>2. /\ DOMAIN written = DOMAIN out /\ Len(written) = Len(out)
      /\ \A x \in DOMAIN out : x # Len(out) => written[x] = out[x]
      /\ written[Len(out)] = [name |-> next, bytes |-> "ref"]
      /\ written \in Seq([name : Batch, bytes : {"ref", "empty"}])
      <2>1. [Opened(next) EXCEPT !.bytes = "ref"] = [name |-> next, bytes |-> "ref"]
            BY DEF Opened
      <2> QED BY <1>1, <2>1
<1> HIDE DEF written
<1>3. \A x \in DOMAIN out : written[x].name = out[x].name
      BY <1>1, <1>2 DEF Opened
<1>4. \A x \in DOMAIN written : progs[written[x].name].javac = "accepts"
      BY <1>2, <1>3 DEF ClassesUpTo
<1>5. CASE faults = 0
      <2>1. \A x \in DOMAIN out : (out[x].name < next /\ out[x].bytes = "ref") \/ x = Len(out)
            BY <1>5 DEF ClassesUpTo
      <2>2. \A x \in DOMAIN written : written[x].name < next + 1 /\ written[x].bytes = "ref"
            <3>1. SUFFICES ASSUME NEW x \in DOMAIN out
                           PROVE  written[x].name < next + 1 /\ written[x].bytes = "ref"
                  BY <1>2
            <3>2. CASE x = Len(out)
                  BY <1>1, <1>2, <3>2
            <3>3. CASE x # Len(out)
                  <4>1. out[x].name \in Batch
                        BY OutFacts
                  <4>2. out[x].name < next /\ out[x].bytes = "ref" /\ written[x] = out[x]
                        BY <1>2, <2>1, <3>3
                  <4>3. \A m \in Batch : m < next => m < next + 1
                        BY <1>1
                  <4> QED BY <2>1, <4>1, <4>2, <4>3
            <3> QED BY <3>2, <3>3
      <2>3. \A i \in n + 1..next : i = next \/ i \in n + 1..next - 1
            BY <1>1
      <2>4. \A i \in n + 1..next : progs[i].javac = "accepts" =>
              \E x \in DOMAIN written : written[x].name = i
            <3>1. \A i \in n + 1..next - 1 : progs[i].javac = "accepts" =>
                    \E x \in DOMAIN out : out[x].name = i
                  BY <1>5 DEF ClassesUpTo
            <3>2. written[Len(out)].name = next /\ Len(out) \in DOMAIN written
                  BY <1>1, <1>2
            <3> QED BY <1>2, <1>3, <2>3, <3>1, <3>2
      <2>5. n + 1..(next + 1) - 1 = n + 1..next
            BY <1>1
      <2>6. ClassesUpTo(next + 1, written)
            BY <1>2, <1>4, <2>2, <2>4, <2>5 DEF ClassesUpTo
      <2> QED BY <2>6 DEF written
<1>6. CASE faults # 0
      BY <1>2, <1>4, <1>6 DEF ClassesUpTo, written
<1> QED BY <1>5, <1>6

(* What a step of the worker leaves alone.                                 *)
LEMMA WorkerFacts ==
  ASSUME TypesOK, Worker
  PROVE  /\ UNCHANGED <<cfg, phase, progs, n, k, classes, tally, exit, observer, unwritten,
                         doubtful, asked, answer>>
         /\ faults' \in Nat /\ (faults' = 0 => faults = 0)
         /\ jvm = "dead" => jvm' = "dead"
<1>1. UNCHANGED <<runVars, pairVars>>
      BY DEF Worker
<1>2. faults' \in {faults, faults + 1} /\ faults \in Nat
      BY DEF Worker, Work, ReadUnits, RejectUnit, OpenClass, WriteClass, Respond, Swallow, Die,
             ReadEof, TypesOK
<1>3. jvm = "dead" => jvm' = "dead"
      BY DEF Worker, Work, ReadUnits, RejectUnit, OpenClass, WriteClass, Respond, Swallow, Die,
             ReadEof, Compiling
<1> QED BY <1>1, <1>2, <1>3 DEF runVars, pairVars

(* The worker takes the batch out of its pipe, compiles one program after  *)
(* another, and puts what it has into the other pipe; or it dies.          *)
LEMMA WorkerKeepsConversation ==
  ASSUME TypesOK, PlaceOK, Conversation, Worker
  PROVE  Conversation'
<1>1. /\ UNCHANGED <<phase, progs, n, exit>> /\ faults' \in Nat
      /\ (faults' = 0 => faults = 0) /\ (jvm = "dead" => jvm' = "dead")
      BY WorkerFacts
<1>2. CASE phase # "awaiting"
      <2>1. CASE phase = "over"
            BY <1>1, <2>1 DEF Conversation
      <2>2. CASE phase # "over"
            <3>1. jvm \in {"reading", "dead"} /\ stdin = <<>> /\ stdout = <<>> /\ exit = Running
                  BY <1>2, <2>2 DEF Conversation, TypesOK
            <3>2. jvm' \in {"reading", "dead"} /\ stdin' = <<>> /\ stdout' = <<>>
                  BY <3>1 DEF Worker, Work, ReadUnits, RejectUnit, OpenClass, WriteClass, Respond,
                              Swallow, Die, ReadEof, Compiling
            <3> QED BY <1>1, <1>2, <3>2 DEF Conversation
      <2> QED BY <2>1, <2>2
<1>3. CASE phase = "awaiting"
      <2> USE <1>1
      <2> DEFINE next == Len(progs) - Len(todo) + 1
      <2>1. (Sent \/ AtJavac \/ Back) /\ exit = Running
            BY <1>3 DEF Conversation, TypesOK
      <2>2. SUFFICES Sent' \/ AtJavac' \/ Back'
            BY <1>3 DEF Conversation
      <2>3. CASE ReadUnits
            <3>1. Sent
                  BY <2>1, <2>3 DEF ReadUnits, AtJavac, Back
            <3>2. /\ todo' = stdin[1] /\ stdin' = <<>> /\ outputs' = <<>> /\ stdout' = <<>>
                  /\ jvm' = "compiling" /\ faults' = faults
                  <4>1. stdin = <<stdin[1]>> /\ stdout = <<>>
                        BY <3>1 DEF Sent
                  <4>2. \A x : Head(<<x>>) = x /\ Tail(<<x>>) = <<>>
                        OBVIOUS
                  <4> QED BY <2>3, <4>1, <4>2 DEF ReadUnits
            <3>3. IsRest(todo')
                  BY <3>1, <3>2 DEF Sent
            <3>4. Len(progs) - Len(todo') + 1 = n + 1
                  <4>1. n \in Nat /\ Len(progs) \in Nat
                        BY RunAssumption DEF TypesOK
                  <4>2. Len(todo') = Len(progs) - n
                        BY <3>1, <3>2 DEF Sent
                  <4> QED BY <4>1, <4>2
            <3>5. ClassesUpTo(n + 1, <<>>)
                  BY RunAssumption DEF ClassesUpTo, TypesOK
            <3>6. ClassesUpTo(Len(progs) - Len(todo') + 1, outputs')
                  BY <3>2, <3>4, <3>5
            <3>7. AtJavac'
                  BY <3>2, <3>3, <3>6 DEF AtJavac, IsRest, ClassesUpTo, Batch
            <3> QED BY <3>2, <3>7
      <2>4. CASE RejectUnit
            <3>1. AtJavac /\ todo # <<>>
                  BY <2>1, <2>4 DEF RejectUnit, Compiling, Sent, Back
            <3>2. next \in Batch /\ Head(todo) = progs[next]
                  BY <3>1, RestFacts DEF AtJavac
            <3>3. IsRest(Tail(todo)) /\ Len(progs) - Len(Tail(todo)) + 1 = next + 1
                  BY <3>1, RestFacts DEF AtJavac
            <3>4. ClassesUpTo(next + 1, outputs)
                  BY <2>4, <3>1, <3>2, ClassesReject DEF RejectUnit, AtJavac
            <3>5. AtJavac'
                  BY <2>4, <3>1, <3>3, <3>4 DEF RejectUnit, AtJavac, IsRest, ClassesUpTo, Batch
            <3> QED BY <2>1, <2>4, <3>5 DEF RejectUnit
      <2>5. CASE OpenClass
            <3>1. AtJavac /\ todo # <<>>
                  BY <2>1, <2>5 DEF OpenClass, Compiling, Sent, Back
            <3>2. next \in Batch /\ Head(todo) = progs[next] /\ progs[next].name = next
                  BY <3>1, RestFacts DEF AtJavac
            <3>3. ClassesUpTo(next, Append(outputs, Opened(next)))
                  BY <2>5, <3>1, <3>2, ClassesOpen DEF OpenClass, AtJavac, IsOpen
            <3>4. ClassesUpTo(next, outputs')
                  BY <2>5, <3>2, <3>3 DEF OpenClass
            <3>5. AtJavac'
                  BY <2>5, <3>1, <3>4 DEF OpenClass, AtJavac, IsRest, ClassesUpTo, Batch
            <3> QED BY <2>1, <2>5, <3>5 DEF OpenClass
      <2>6. CASE WriteClass
            <3>1. AtJavac /\ todo # <<>>
                  BY <2>1, <2>6 DEF WriteClass, Compiling, Sent, Back
            <3>2. next \in Batch /\ Head(todo) = progs[next] /\ progs[next].name = next
                  BY <3>1, RestFacts DEF AtJavac
            <3>3. IsRest(Tail(todo)) /\ Len(progs) - Len(Tail(todo)) + 1 = next + 1
                  BY <3>1, RestFacts DEF AtJavac
            <3>4. ClassesUpTo(next + 1, outputs')
                  BY <2>6, <3>1, <3>2, ClassesWrite DEF WriteClass, AtJavac, IsOpen
            <3>5. todo' = Tail(todo) /\ UNCHANGED <<stdin, stdout, jvm, faults>>
                  BY <2>6 DEF WriteClass
            <3>6. IsRest(todo') /\ ClassesUpTo(Len(progs) - Len(todo') + 1, outputs')
                  BY <3>3, <3>4, <3>5
            <3>7. AtJavac'
                  BY <3>1, <3>5, <3>6 DEF AtJavac, IsRest, ClassesUpTo, Batch
            <3> QED BY <2>1, <3>5, <3>7
      <2>7. CASE Swallow
            <3>1. AtJavac
                  BY <2>1, <2>7 DEF Swallow, Compiling, Sent, Back
            <3>2. faults' # 0 /\ todo' = <<>>
                  BY <2>7 DEF Swallow, TypesOK
            <3>3. IsRest(<<>>)
                  BY RunAssumption, <3>1 DEF IsRest, TypesOK, AtJavac
            <3>4. AtJavac'
                  BY <2>7, <3>1, <3>2, <3>3 DEF Swallow, AtJavac, IsRest, ClassesUpTo, Batch
            <3> QED BY <2>1, <2>7, <3>4 DEF Swallow
      <2>8. CASE Respond
            <3>1. AtJavac
                  BY <2>1, <2>8 DEF Respond, Sent, Back
            <3>2. next = Len(progs) + 1
                  BY <2>8 DEF Respond, TypesOK
            <3>3. ClassesUpTo(Len(progs) + 1, outputs)
                  BY <3>1, <3>2 DEF AtJavac
            <3>4. Len(stdout') = 1 /\ stdout'[1] = outputs /\ stdout' = <<stdout'[1]>>
                  BY <2>8, <3>1 DEF Respond, AtJavac
            <3>5. ClassesUpTo(Len(progs) + 1, stdout'[1])
                  BY <3>3, <3>4
            <3>6. Back'
                  BY <2>8, <3>1, <3>4, <3>5 DEF Respond, AtJavac, Back, ClassesUpTo, Batch
            <3> QED BY <2>1, <2>8, <3>6 DEF Respond
      <2>9. CASE Die
            <3>1. /\ UNCHANGED <<stdin, stdout, todo, outputs>> /\ jvm' = "dead" /\ faults' # 0
                  BY <2>9 DEF Die, TypesOK
            <3>2. CASE Sent
                  BY <2>1, <3>1, <3>2 DEF Sent, IsRest
            <3>3. CASE AtJavac
                  BY <2>1, <3>1, <3>3 DEF AtJavac, IsRest, ClassesUpTo, Batch
            <3>4. CASE Back
                  BY <2>1, <3>1, <3>4 DEF Back, ClassesUpTo, Batch
            <3> QED BY <2>1, <3>2, <3>3, <3>4
      <2> QED BY <2>1, <2>3, <2>4, <2>5, <2>6, <2>7, <2>8, <2>9 DEF Worker, Work
<1> QED BY <1>2, <1>3

-----------------------------------------------------------------------------
(* The steps that judge nothing. *)

(* The program at hand.                                                    *)
LEMMA CaseFacts ==
  ASSUME TypesOK, PlaceOK, phase \in {"judging", "observing", "stopping"}
  PROVE  /\ n \in Nat /\ Count \in Nat /\ This \in 1..Count - n /\ k \in 1..This
         /\ Len(progs) = n + This /\ DOMAIN progs = 1..Len(progs) /\ Len(progs) \in Nat
         /\ n + k \in DOMAIN progs /\ n + k \in Batch /\ Case = progs[n + k] /\ Case.name = n + k
         /\ Case.scheduled \in BOOLEAN /\ Case.javac \in {"accepts", "rejects"}
         /\ Case.njavac \in CompilerErrors \cup (Classes \ {"empty"})
<1>1. n \in Nat /\ Count \in Nat /\ n < Count /\ This \in 1..Count - n
      BY RunAssumption, ThisBound DEF TypesOK, PlaceOK
<1>2. k \in 1..This /\ Len(progs) = n + This /\ DOMAIN progs = 1..Len(progs) /\ Len(progs) \in Nat
      BY DEF TypesOK, PlaceOK
<1>3. n + k \in DOMAIN progs /\ n + k \in Batch
      BY <1>1, <1>2 DEF Batch
<1>4. progs[n + k].name = n + k
      BY <1>3 DEF PlaceOK
<1>5. progs[n + k] \in Program
      BY <1>3 DEF TypesOK
<1>6. Case = progs[n + k] /\ Case \in Program
      BY <1>5 DEF Case
<1>7. Case.scheduled \in BOOLEAN /\ Case.javac \in {"accepts", "rejects"}
        /\ Case.njavac \in CompilerErrors \cup (Classes \ {"empty"})
      BY <1>6 DEF Program
<1> QED BY <1>1, <1>2, <1>3, <1>4, <1>6, <1>7

(* While everything about the programs stays, so does the invariant.       *)
LEMMA RunUnchanged ==
  ASSUME FuzzInv, Conversation', ObservationOK', faults' \in Nat, faults' = 0 => faults = 0,
         UNCHANGED <<cfg, phase, progs, n, k, classes, tally, exit, observer, unwritten, doubtful>>,
         jvm = "dead" => jvm' = "dead"
  PROVE  FuzzInv'
<1>1. TypesOK' /\ PlaceOK'
      BY DEF FuzzInv, TypesOK, PlaceOK, This
<1>2. TalliesOK'
      BY DEF FuzzInv, TalliesOK, Settled, Undecided, Promise!Total, Judged
<1>3. StopsInTime'
      BY DEF FuzzInv, StopsInTime, HasHardFindings
<1>4. HonestSoFar'
      BY DEF FuzzInv, HonestSoFar, HasHardFindings, Judgeable, Settled, Undecided
<1>5. ClassesOK'
      BY DEF FuzzInv, ClassesOK, Batch
<1>6. ExitHonest'
      BY DEF FuzzInv, ExitHonest, Infrastructure, Judgeable
<1> QED BY <1>1, <1>2, <1>3, <1>4, <1>5, <1>6 DEF FuzzInv

(* What javac does is invisible to the tallies; the conversation goes on.  *)
LEMMA WorkerKeeps ==
  ASSUME FuzzInv, Worker
  PROVE  FuzzInv'
<1>1. TypesOK /\ PlaceOK /\ Conversation /\ ObservationOK
      BY DEF FuzzInv
<1>2. Conversation'
      BY <1>1, WorkerKeepsConversation
<1>3. ObservationOK'
      BY <1>1, WorkerFacts DEF ObservationOK, Case
<1> QED BY <1>1, <1>2, <1>3, WorkerFacts, RunUnchanged

(* The observer's answer is about the pair it was asked of.                *)
LEMMA AnswerKeeps ==
  ASSUME FuzzInv, AnswerPair
  PROVE  FuzzInv'
<1>1. UNCHANGED <<runVars, workerVars>> /\ UNCHANGED asked
      BY DEF AnswerPair, Observer!Answer
<1>2. answer' \in Observer!Honest(asked[1]) \X Observer!Honest(asked[2])
      BY DEF AnswerPair, Observer!Answer
<1>3. ObservationOK'
      BY <1>1, <1>2 DEF FuzzInv, ObservationOK, runVars, Case
<1>4. Conversation'
      BY <1>1 DEF FuzzInv, Conversation, Sent, AtJavac, Back, IsRest, ClassesUpTo, Batch, runVars,
                  workerVars
<1>5. faults' \in Nat
      BY <1>1 DEF FuzzInv, TypesOK, workerVars
<1> QED BY <1>1, <1>3, <1>4, <1>5, RunUnchanged DEF runVars, workerVars

-----------------------------------------------------------------------------
(* The steps that judge. *)

(* The next program, the next batch, or the end.                           *)
LEMMA ProceedFacts ==
  ASSUME TypesOK, PlaceOK, phase \in {"judging", "observing"}, NEW hard \in BOOLEAN,
         Proceed(hard), UNCHANGED <<cfg, progs, observer>>
  PROVE  /\ PlaceOK' /\ n' \in 0..Count /\ k' \in Nat
         /\ Settled = n + k - 1 /\ Settled' = n + k
         /\ phase' \in {"batching", "judging", "stopping"}
         /\ phase' = "judging" => n' = n
         /\ phase' = "stopping" <=> hard /\ ~ cfg.keepGoing
<1>1. /\ n \in Nat /\ Count \in Nat /\ This \in 1..Count - n /\ k \in 1..This
      /\ Len(progs) = n + This /\ n < Count
      BY CaseFacts
<1>2. Settled = n + k - 1 /\ observer = "up" /\ observer' = "up"
      BY DEF Settled, Undecided, TypesOK
<1>3. \A i \in DOMAIN progs : progs[i].name = i
      BY DEF PlaceOK
<1>4. CASE hard /\ ~ cfg.keepGoing
      <2>1. phase' = "stopping" /\ n' = n /\ k' = k
            BY <1>4 DEF Proceed
      <2>2. This' = This
            BY <2>1 DEF This
      <2> QED BY <1>1, <1>2, <1>3, <1>4, <2>1, <2>2 DEF PlaceOK, Settled, Undecided
<1>5. CASE ~ (hard /\ ~ cfg.keepGoing) /\ k < This
      <2>1. phase' = "judging" /\ n' = n /\ k' = k + 1
            BY <1>5 DEF Proceed
      <2>2. This' = This
            BY <2>1 DEF This
      <2>3. PlaceOK'
            BY <1>1, <1>3, <1>5, <2>1, <2>2 DEF PlaceOK
      <2> QED BY <1>1, <1>2, <1>5, <2>1, <2>3 DEF Settled, Undecided
<1>6. CASE ~ (hard /\ ~ cfg.keepGoing) /\ ~ k < This
      <2>1. phase' = "batching" /\ n' = n + This /\ k' = 0 /\ k = This
            BY <1>1, <1>6 DEF Proceed
      <2>2. PlaceOK'
            BY <1>1, <1>3, <2>1 DEF PlaceOK
      <2> QED BY <1>1, <1>2, <1>6, <2>1, <2>2 DEF Settled, Undecided
<1> QED BY <1>4, <1>5, <1>6

(* A panic leaves the program at hand counted.                             *)
LEMMA PanicFacts ==
  ASSUME TypesOK, PlaceOK, phase \in {"judging", "observing"}, Panic,
         UNCHANGED <<cfg, progs, n, k, observer>>
  PROVE  /\ PlaceOK' /\ n' \in 0..Count /\ k' \in Nat
         /\ Settled = n + k - 1 /\ Settled' = n + k
<1>1. phase' = "over" /\ observer = "up"
      BY DEF Panic, TypesOK
<1> QED BY <1>1 DEF PlaceOK, TypesOK, Settled, Undecided

(* The tallies as the promise sees them, in a state and in the next.       *)
LEMMA JudgedFacts ==
  ASSUME tally \in [DOMAIN Tally -> Nat], tally' \in [DOMAIN Tally -> Nat]
  PROVE  /\ \A f \in DOMAIN Tally : tally[f] \in Nat /\ tally'[f] \in Nat
         /\ Judged \in [pass : Nat, telemetry : Int, hard : Nat]
         /\ Judged' \in [pass : Nat, telemetry : Int, hard : Nat]
         /\ Promise!Total = Judged.pass + Judged.telemetry + Judged.hard
         /\ Promise!Total' = Judged'.pass + Judged'.telemetry + Judged'.hard
         /\ Judged.hard > 0 <=> HasHardFindings
         /\ Judged'.hard > 0 <=> HasHardFindings'
<1>1. \A f \in DOMAIN Tally : tally[f] \in Nat /\ tally'[f] \in Nat
      OBVIOUS
<1>2. DOMAIN Tally = {"scheduled", "scheduledFailures", "exact", "byteDivergent",
                      "behaviorMatch", "generatorInvalid", "unsupported", "syntax",
                      "panic", "findings"}
      BY DEF Tally
<1> HIDE DEF Tally
<1>3. /\ Judged \in [pass : Nat, telemetry : Int, hard : Nat]
      /\ Judged' \in [pass : Nat, telemetry : Int, hard : Nat]
      BY <1>1, <1>2 DEF Judged
<1>4. (Judged.hard > 0 <=> HasHardFindings) /\ (Judged'.hard > 0 <=> HasHardFindings')
      BY <1>1, <1>2 DEF Judged, HasHardFindings
<1> QED BY <1>1, <1>3, <1>4 DEF Promise!Total

(* A verdict keeps the invariant, and is one of the promise, if it enters  *)
(* one tally, if it is hard exactly when that one is, and if, unless it is *)
(* in doubt, the program deserves it.  A panic over it needs a reason.     *)
LEMMA VerdictKeeps ==
  ASSUME FuzzInv, phase \in {"judging", "observing"}, NEW hard \in BOOLEAN,
         \/ Proceed(hard) /\ UNCHANGED exit
         \/ hard /\ Panic /\ UNCHANGED <<n, k>> /\ Infrastructure',
         UNCHANGED <<cfg, progs, classes, observer, workerVars>>,
         doubtful' \in {doubtful, doubtful \cup {Case.name}},
         tally' \in [DOMAIN Tally -> Nat],
         tally'.byteDivergent = tally'.behaviorMatch + tally'.findings,
         NEW verdict \in {"pass", "telemetry", "hard"}, verdict = "hard" <=> hard,
         Judged' = [Judged EXCEPT ![verdict] = @ + 1],
         Case.name \notin doubtful' => (hard <=> HardCase(Case))
  PROVE  FuzzInv' /\ (Promise!Judge(verdict) \/ Promise!Crash)
<1>1. TypesOK /\ PlaceOK /\ TalliesOK /\ StopsInTime /\ HonestSoFar /\ Conversation /\ ClassesOK
      BY DEF FuzzInv
<1>2. exit = Running /\ phase # "over" /\ Panicked # Running
      BY <1>1 DEF TypesOK, Running, Panicked
<1>3. /\ PlaceOK' /\ n' \in 0..Count /\ k' \in Nat
      /\ Settled = n + k - 1 /\ Settled' = n + k
      /\ phase' \in {"batching", "judging", "stopping", "over"}
      /\ phase' = "judging" => n' = n
      /\ phase' = "stopping" => hard /\ ~ cfg.keepGoing
      /\ hard /\ ~ cfg.keepGoing => phase' \in {"stopping", "over"}
      /\ exit' = IF phase' = "over" THEN Panicked ELSE Running
      /\ phase' = "over" => Infrastructure'
      <2>1. CASE Proceed(hard) /\ UNCHANGED exit
            BY <1>2, <1>1, <2>1, ProceedFacts
      <2>2. CASE hard /\ Panic /\ UNCHANGED <<n, k>> /\ Infrastructure'
            <3>1. phase' = "over" /\ exit' = Panicked
                  BY <2>2 DEF Panic
            <3> QED BY <1>1, <2>2, <3>1, PanicFacts
      <2> QED BY <2>1, <2>2
<1>4. /\ n \in Nat /\ k \in Nat /\ n + k \in DOMAIN progs /\ Case = progs[n + k] /\ Case.name = n + k
      BY <1>1, CaseFacts
<1>5. observer = "up" /\ observer' = "up"
      BY <1>2, <1>1 DEF TypesOK
<1>6. Promise!Total' = Promise!Total + 1 /\ (HasHardFindings' <=> HasHardFindings \/ hard)
      <2>1. tally \in [DOMAIN Tally -> Nat]
            BY <1>1 DEF TypesOK
      <2> QED BY <2>1, JudgedFacts
<1>7. TypesOK'
      BY <1>1, <1>3, <1>5 DEF TypesOK, workerVars, Running, Panicked
<1>8. TalliesOK'
      <2>1. Promise!Total = Settled
            BY <1>1 DEF TalliesOK
      <2>2. Promise!Total' = Settled'
            BY <1>3, <1>4, <1>6, <2>1
      <2>3. tally'.behaviorMatch \in Nat /\ tally'.findings \in Nat
            BY DEF Tally
      <2> QED BY <1>3, <1>5, <2>2, <2>3 DEF TalliesOK, Undecided
<1>9. StopsInTime'
      BY <1>1, <1>3, <1>6 DEF StopsInTime
<1>10. HonestSoFar'
      <2>1. ASSUME HasHardFindings'
            PROVE  doubtful' # {} \/ \E i \in Judgeable' : HardCase(progs'[i])
            <3>1. CASE doubtful' # {}
                  BY <3>1
            <3>2. CASE doubtful' = {}
                  <4>1. doubtful = {} /\ Judgeable = DOMAIN progs /\ Judgeable' = DOMAIN progs
                        BY <3>2 DEF Judgeable
                  <4>2. CASE HasHardFindings
                        BY <1>1, <4>1, <4>2 DEF HonestSoFar
                  <4>3. CASE hard
                        BY <1>4, <3>2, <4>1, <4>3
                  <4> QED BY <1>6, <2>1, <4>2, <4>3
            <3> QED BY <3>1, <3>2
      <2>2. ASSUME NEW i \in 1..Settled', i \in Judgeable', HardCase(progs'[i])
            PROVE  HasHardFindings'
            <3>1. i \in Judgeable /\ i \notin doubtful'
                  BY <2>2 DEF Judgeable
            <3>2. CASE i \in 1..Settled
                  BY <1>1, <1>6, <2>2, <3>1, <3>2 DEF HonestSoFar
            <3>3. CASE i \notin 1..Settled
                  <4>1. i = n + k
                        BY <1>3, <1>4, <3>3
                  <4> QED BY <1>4, <1>6, <2>2, <3>1, <4>1
            <3> QED BY <3>2, <3>3
      <2> QED BY <2>1, <2>2 DEF HonestSoFar
<1>11. Conversation'
      BY <1>1, <1>3 DEF Conversation, workerVars
<1>12. ClassesOK'
      BY <1>1, <1>3 DEF ClassesOK, workerVars, Batch
<1>13. ObservationOK' /\ ExitHonest'
      BY <1>3 DEF ObservationOK, ExitHonest, Running, Panicked
<1>14. Promise!Judge(verdict) \/ Promise!Crash
      <2>1. Ended = "running" /\ Ended' \in {"running", "crashed"}
            BY <1>2, <1>3 DEF Ended, Running, Panicked
      <2>2. Promise!Total # Count
            <3>1. n + k <= Count /\ Count \in Nat
                  BY <1>1, CaseFacts
            <3> QED BY <1>1, <1>3, <1>4, <3>1 DEF TalliesOK
      <2>3. Judged.hard > 0 => cfg.keepGoing
            <3>1. tally \in [DOMAIN Tally -> Nat]
                  BY <1>1 DEF TypesOK
            <3> QED BY <1>1, <3>1, JudgedFacts DEF StopsInTime
      <2>4. verdict \in DOMAIN Judged
            BY DEF Judged
      <2> QED BY <2>1, <2>2, <2>3, <2>4 DEF Promise!Judge, Promise!Crash, Promise!Over
<1> QED BY <1>3, <1>7, <1>8, <1>9, <1>10, <1>11, <1>12, <1>13, <1>14 DEF FuzzInv

(* What javac said of the program at hand.                                 *)
LEMMA WantFacts ==
  ASSUME FuzzInv, phase = "judging"
  PROVE  /\ Want \in {"ref", "empty", "missing"}
         /\ ~ ClassLost => Want = IF Case.javac = "accepts" THEN "ref" ELSE "missing"
<1>1. n + k \in Batch /\ Case = progs[n + k] /\ Case.name = n + k
      BY CaseFacts DEF FuzzInv
<1>2. \A i \in DOMAIN classes : classes[i] \in {"ref", "empty"}
      BY DEF FuzzInv, ClassesOK
<1>3. /\ faults = 0 /\ progs[n + k].javac = "accepts" =>
           n + k \in DOMAIN classes /\ classes[n + k] = "ref"
      /\ n + k \in DOMAIN classes => progs[n + k].javac = "accepts"
      BY <1>1 DEF FuzzInv, ClassesOK
<1>4. faults = 0 \/ faults > 0
      BY DEF FuzzInv, TypesOK
<1> QED BY <1>1, <1>2, <1>3, <1>4 DEF Want, ClassLost

(* What a step that judges a program in the first instance has in common.  *)
LEMMA JudgingFacts ==
  ASSUME FuzzInv, NEW outcome, Judging(outcome)
  PROVE  /\ phase = "judging" /\ Outcome = outcome
         /\ UNCHANGED <<cfg, progs, classes, exit, observer, workerVars>> /\ observer = "up"
         /\ doubtful' \in {doubtful, doubtful \cup {Case.name}}
         /\ Case.name \notin doubtful' =>
              Want = IF Case.javac = "accepts" THEN "ref" ELSE "missing"
         /\ Case.javac \in {"accepts", "rejects"} /\ Case.scheduled \in BOOLEAN
         /\ Case.njavac \in CompilerErrors \cup (Classes \ {"empty"})
         /\ Want \in {"ref", "empty", "missing"}
         /\ tally \in [DOMAIN Tally -> Nat]
         /\ tally.byteDivergent = tally.behaviorMatch + tally.findings
<1>1. /\ phase = "judging" /\ Outcome = outcome
      /\ doubtful' = IF ClassLost THEN doubtful \cup {Case.name} ELSE doubtful
      /\ UNCHANGED <<cfg, progs, classes, exit, observer, workerVars>>
      BY DEF Judging
<1>2. tally \in [DOMAIN Tally -> Nat] /\ observer = "up"
      BY <1>1 DEF FuzzInv, TypesOK
<1>3. tally.behaviorMatch \in Nat /\ tally.findings \in Nat
      BY <1>2 DEF Tally
<1>4. tally.byteDivergent = tally.behaviorMatch + tally.findings
      BY <1>1, <1>2, <1>3 DEF FuzzInv, TalliesOK, Undecided
<1>5. Case.name \notin doubtful' => ~ ClassLost
      BY <1>1
<1>6. /\ Case.javac \in {"accepts", "rejects"} /\ Case.scheduled \in BOOLEAN
      /\ Case.njavac \in CompilerErrors \cup (Classes \ {"empty"})
      BY <1>1, CaseFacts DEF FuzzInv
<1> QED BY <1>1, <1>2, <1>4, <1>5, <1>6, WantFacts

(* A program javac rejects is a hard finding if it is scheduled, and       *)
(* telemetry otherwise (judge, GeneratorInvalid).                          *)
LEMMA InvalidKeeps ==
  ASSUME FuzzInv, JudgeInvalid
  PROVE  FuzzInv' /\ Promise!Next
<1> DEFINE fields == {"generatorInvalid"} \cup Scheduled \cup CoverageFailed
<1>1. Judging("generatorInvalid") /\ tally' = Counted(fields) /\ Proceed(Case.scheduled)
      BY DEF JudgeInvalid
<1>2. Outcome = "generatorInvalid" => Want = "missing"
      <2>1. Want # "missing" => Outcome \in CompilerErrors \cup {"exact", "divergent"}
            BY DEF Outcome, Classify
      <2> QED BY <2>1 DEF CompilerErrors
<1>3. /\ \A f \in DOMAIN Tally : tally'[f] = IF f \in fields THEN tally[f] + 1 ELSE tally[f]
      /\ tally' \in [DOMAIN Tally -> Nat]
      BY <1>1, JudgingFacts, CountedFacts
<1>4. "scheduledFailures" \in fields <=> Case.scheduled
      BY DEF CoverageFailed, Scheduled
<1>5. "generatorInvalid" \in fields
      /\ \A f \in {"exact", "byteDivergent", "behaviorMatch", "unsupported", "syntax", "panic",
                   "findings"} : f \notin fields
      BY DEF CoverageFailed, Scheduled
<1> HIDE DEF fields
<1>6. /\ UNCHANGED <<tally.exact, tally.byteDivergent, tally.behaviorMatch, tally.unsupported,
                     tally.syntax, tally.panic, tally.findings>>
      /\ tally'.generatorInvalid = tally.generatorInvalid + 1
      /\ tally'.scheduledFailures = IF Case.scheduled THEN tally.scheduledFailures + 1
                                    ELSE tally.scheduledFailures
      BY <1>3, <1>4, <1>5 DEF Tally
<1>7. /\ \A f \in DOMAIN Tally : tally[f] \in Nat
      /\ tally'.byteDivergent = tally'.behaviorMatch + tally'.findings
      BY <1>1, <1>6, JudgingFacts
<1> DEFINE verdict == IF Case.scheduled THEN "hard" ELSE "telemetry"
<1>8. Judged' = [Judged EXCEPT ![verdict] = @ + 1]
      <2>1. /\ tally.exact \in Nat /\ tally.findings \in Nat /\ tally.syntax \in Nat
            /\ tally.panic \in Nat /\ tally.scheduledFailures \in Nat
            /\ tally.behaviorMatch \in Nat /\ tally.generatorInvalid \in Nat
            /\ tally.unsupported \in Nat
            BY <1>7 DEF Tally
      <2>2. CASE Case.scheduled
            <3>1. Judged'.pass = Judged.pass
                  BY <1>6 DEF Judged
            <3>2. Judged'.hard = Judged.hard + 1
                  BY <1>6, <2>1, <2>2 DEF Judged
            <3>3. Judged'.telemetry = Judged.telemetry
                  <4>1. \A a, b, u, s \in Nat : a + (b + 1) + u - (s + 1) = a + b + u - s
                        OBVIOUS
                  <4>2. Judged'.telemetry
                          = tally.behaviorMatch + (tally.generatorInvalid + 1)
                              + tally.unsupported - (tally.scheduledFailures + 1)
                        BY <1>6, <2>2 DEF Judged
                  <4>3. Judged.telemetry = tally.behaviorMatch + tally.generatorInvalid
                                             + tally.unsupported - tally.scheduledFailures
                        BY DEF Judged
                  <4> QED BY <2>1, <4>1, <4>2, <4>3
            <3> QED BY <2>2, <3>1, <3>2, <3>3 DEF Judged
      <2>3. CASE ~ Case.scheduled
            <3>1. Judged'.pass = Judged.pass /\ Judged'.hard = Judged.hard
                  BY <1>6, <2>1, <2>3 DEF Judged
            <3>2. Judged'.telemetry = Judged.telemetry + 1
                  BY <1>6, <2>1, <2>3 DEF Judged
            <3> QED BY <2>3, <3>1, <3>2 DEF Judged
      <2> QED BY <2>2, <2>3
<1>9. Case.name \notin doubtful' => (Case.scheduled <=> HardCase(Case))
      BY <1>1, <1>2, JudgingFacts DEF HardCase
<1>10. verdict \in {"pass", "telemetry", "hard"} /\ (verdict = "hard" <=> Case.scheduled)
      BY <1>1, JudgingFacts
<1> HIDE DEF verdict
<1>11. FuzzInv' /\ (Promise!Judge(verdict) \/ Promise!Crash)
      BY <1>1, <1>3, <1>7, <1>8, <1>9, <1>10, JudgingFacts, VerdictKeeps
<1> QED BY <1>10, <1>11 DEF Promise!Next, Judged

(* So is one njavac does not support.                                      *)
LEMMA UnsupportedKeeps ==
  ASSUME FuzzInv, JudgeUnsupported
  PROVE  FuzzInv' /\ Promise!Next
<1> DEFINE fields == {"unsupported"} \cup Scheduled \cup CoverageFailed
<1>1. Judging("unsupported") /\ tally' = Counted(fields) /\ Proceed(Case.scheduled)
      BY DEF JudgeUnsupported
<1>2. Outcome = "unsupported" => Want # "missing" /\ Case.njavac = "unsupported"
      BY DEF Outcome, Classify
<1>3. /\ \A f \in DOMAIN Tally : tally'[f] = IF f \in fields THEN tally[f] + 1 ELSE tally[f]
      /\ tally' \in [DOMAIN Tally -> Nat]
      BY <1>1, JudgingFacts, CountedFacts
<1>4. "scheduledFailures" \in fields <=> Case.scheduled
      BY DEF CoverageFailed, Scheduled
<1>5. "unsupported" \in fields
      /\ \A f \in {"exact", "byteDivergent", "behaviorMatch", "generatorInvalid", "syntax",
                   "panic", "findings"} : f \notin fields
      BY DEF CoverageFailed, Scheduled
<1> HIDE DEF fields
<1>6. /\ UNCHANGED <<tally.exact, tally.byteDivergent, tally.behaviorMatch,
                     tally.generatorInvalid, tally.syntax, tally.panic, tally.findings>>
      /\ tally'.unsupported = tally.unsupported + 1
      /\ tally'.scheduledFailures = IF Case.scheduled THEN tally.scheduledFailures + 1
                                    ELSE tally.scheduledFailures
      BY <1>3, <1>4, <1>5 DEF Tally
<1>7. /\ \A f \in DOMAIN Tally : tally[f] \in Nat
      /\ tally'.byteDivergent = tally'.behaviorMatch + tally'.findings
      BY <1>1, <1>6, JudgingFacts
<1> DEFINE verdict == IF Case.scheduled THEN "hard" ELSE "telemetry"
<1>8. Judged' = [Judged EXCEPT ![verdict] = @ + 1]
      <2>1. /\ tally.exact \in Nat /\ tally.findings \in Nat /\ tally.syntax \in Nat
            /\ tally.panic \in Nat /\ tally.scheduledFailures \in Nat
            /\ tally.behaviorMatch \in Nat /\ tally.generatorInvalid \in Nat
            /\ tally.unsupported \in Nat
            BY <1>7 DEF Tally
      <2>2. CASE Case.scheduled
            <3>1. Judged'.pass = Judged.pass
                  BY <1>6 DEF Judged
            <3>2. Judged'.hard = Judged.hard + 1
                  BY <1>6, <2>1, <2>2 DEF Judged
            <3>3. Judged'.telemetry = Judged.telemetry
                  <4>1. \A a, b, u, s \in Nat : a + b + (u + 1) - (s + 1) = a + b + u - s
                        OBVIOUS
                  <4>2. Judged'.telemetry
                          = tally.behaviorMatch + tally.generatorInvalid
                              + (tally.unsupported + 1) - (tally.scheduledFailures + 1)
                        BY <1>6, <2>2 DEF Judged
                  <4>3. Judged.telemetry = tally.behaviorMatch + tally.generatorInvalid
                                             + tally.unsupported - tally.scheduledFailures
                        BY DEF Judged
                  <4> QED BY <2>1, <4>1, <4>2, <4>3
            <3> QED BY <2>2, <3>1, <3>2, <3>3 DEF Judged
      <2>3. CASE ~ Case.scheduled
            <3>1. Judged'.pass = Judged.pass /\ Judged'.hard = Judged.hard
                  BY <1>6, <2>1, <2>3 DEF Judged
            <3>2. Judged'.telemetry = Judged.telemetry + 1
                  BY <1>6, <2>1, <2>3 DEF Judged
            <3> QED BY <2>3, <3>1, <3>2 DEF Judged
      <2> QED BY <2>2, <2>3
<1>9. Case.name \notin doubtful' => (Case.scheduled <=> HardCase(Case))
      <2>1. "unsupported" \notin Classes
            BY RunAssumption DEF CompilerErrors
      <2> QED BY <1>1, <1>2, <2>1, JudgingFacts DEF HardCase
<1>10. verdict \in {"pass", "telemetry", "hard"} /\ (verdict = "hard" <=> Case.scheduled)
      BY <1>1, JudgingFacts
<1> HIDE DEF verdict
<1>11. FuzzInv' /\ (Promise!Judge(verdict) \/ Promise!Crash)
      BY <1>1, <1>3, <1>7, <1>8, <1>9, <1>10, JudgingFacts, VerdictKeeps
<1> QED BY <1>10, <1>11 DEF Promise!Next, Judged

(* A needless rejection and a panic are always hard findings.              *)
LEMMA CompilerFindingKeeps ==
  ASSUME FuzzInv, JudgeCompilerFinding
  PROVE  FuzzInv' /\ Promise!Next
<1>1. PICK kind \in {"syntax", "panic"} :
        Judging(kind) /\ tally' = Counted({kind} \cup Scheduled) /\ Proceed(TRUE)
      BY DEF JudgeCompilerFinding
<1> DEFINE fields == {kind} \cup Scheduled
<1>2. Outcome = kind => Want # "missing" /\ Case.njavac = kind
      BY DEF Outcome, Classify
<1>3. /\ \A f \in DOMAIN Tally : tally'[f] = IF f \in fields THEN tally[f] + 1 ELSE tally[f]
      /\ tally' \in [DOMAIN Tally -> Nat]
      BY <1>1, JudgingFacts, CountedFacts
<1>4. /\ kind \in fields
      /\ \A f \in {"exact", "byteDivergent", "behaviorMatch", "generatorInvalid", "unsupported",
                   "scheduledFailures", "findings"} \cup ({"syntax", "panic"} \ {kind}) : f \notin fields
      BY DEF Scheduled
<1> HIDE DEF fields
<1>5. /\ UNCHANGED <<tally.exact, tally.byteDivergent, tally.behaviorMatch, tally.unsupported,
                     tally.generatorInvalid, tally.scheduledFailures, tally.findings>>
      /\ \/ tally'.syntax = tally.syntax + 1 /\ UNCHANGED tally.panic
         \/ tally'.panic = tally.panic + 1 /\ UNCHANGED tally.syntax
      BY <1>3, <1>4 DEF Tally
<1>6. /\ \A f \in DOMAIN Tally : tally[f] \in Nat
      /\ tally'.byteDivergent = tally'.behaviorMatch + tally'.findings
      BY <1>1, <1>5, JudgingFacts
<1>7. Judged' = [Judged EXCEPT !["hard"] = @ + 1]
      BY <1>5, <1>6 DEF Tally, Judged
<1>8. Case.name \notin doubtful' => HardCase(Case)
      BY <1>1, <1>2, JudgingFacts DEF HardCase
<1>9. FuzzInv' /\ (Promise!Judge("hard") \/ Promise!Crash)
      BY <1>1, <1>3, <1>6, <1>7, <1>8, JudgingFacts, VerdictKeeps
<1> QED BY <1>9 DEF Promise!Next, Judged

(* The same bytes are a pass: the class is the reference.                  *)
LEMMA ExactKeeps ==
  ASSUME FuzzInv, JudgeExact
  PROVE  FuzzInv' /\ Promise!Next
<1> DEFINE fields == {"exact"} \cup Scheduled
<1>1. Judging("exact") /\ tally' = Counted(fields) /\ Proceed(FALSE)
      BY DEF JudgeExact
<1>2. Outcome = "exact" => Want # "missing" /\ Case.njavac = Want /\ Case.njavac \notin CompilerErrors
      BY DEF Outcome, Classify, CompilerErrors
<1>3. /\ \A f \in DOMAIN Tally : tally'[f] = IF f \in fields THEN tally[f] + 1 ELSE tally[f]
      /\ tally' \in [DOMAIN Tally -> Nat]
      BY <1>1, JudgingFacts, CountedFacts
<1>4. /\ "exact" \in fields
      /\ \A f \in {"scheduledFailures", "byteDivergent", "behaviorMatch", "generatorInvalid",
                   "unsupported", "syntax", "panic", "findings"} : f \notin fields
      BY DEF Scheduled
<1> HIDE DEF fields
<1>5. /\ UNCHANGED <<tally.scheduledFailures, tally.byteDivergent, tally.behaviorMatch,
                     tally.unsupported, tally.generatorInvalid, tally.syntax, tally.panic,
                     tally.findings>>
      /\ tally'.exact = tally.exact + 1
      BY <1>3, <1>4 DEF Tally
<1>6. /\ \A f \in DOMAIN Tally : tally[f] \in Nat
      /\ tally'.byteDivergent = tally'.behaviorMatch + tally'.findings
      BY <1>1, <1>5, JudgingFacts
<1>7. Judged' = [Judged EXCEPT !["pass"] = @ + 1]
      BY <1>5, <1>6 DEF Tally, Judged
<1>8. Case.name \notin doubtful' => ~ HardCase(Case)
      BY <1>1, <1>2, JudgingFacts DEF HardCase, BehavesLikeRef, CompilerErrors
<1>9. FuzzInv' /\ (Promise!Judge("pass") \/ Promise!Crash)
      BY <1>1, <1>3, <1>6, <1>7, <1>8, JudgingFacts, VerdictKeeps
<1> QED BY <1>9 DEF Promise!Next, Judged

(* Different bytes are no verdict yet: the pair goes to the observer.      *)
LEMMA DivergentKeeps ==
  ASSUME FuzzInv, ObserveDivergent
  PROVE  FuzzInv' /\ UNCHANGED <<cfg, Judged, exit>>
<1> DEFINE fields == {"byteDivergent"} \cup Scheduled
<1>1. /\ Judging("divergent") /\ tally' = Counted(fields) /\ Observer!Ask(Want, Case.njavac)
      /\ phase' = "observing" /\ UNCHANGED <<n, k>>
      BY DEF ObserveDivergent
<1>2. /\ phase = "judging" /\ Outcome = "divergent"
      /\ UNCHANGED <<cfg, progs, classes, exit, observer, workerVars>> /\ observer = "up"
      /\ doubtful' \in {doubtful, doubtful \cup {Case.name}}
      /\ tally \in [DOMAIN Tally -> Nat]
      BY <1>1, JudgingFacts
<1>3. Want \in {"ref", "empty"} /\ Case.njavac \notin CompilerErrors /\ Case.njavac \in Classes
      <2>1. Outcome = "divergent" => Want # "missing" /\ Case.njavac \notin CompilerErrors
            BY DEF Outcome, Classify, CompilerErrors
      <2> QED BY <1>1, <2>1, JudgingFacts
<1>4. /\ \A f \in DOMAIN Tally : tally'[f] = IF f \in fields THEN tally[f] + 1 ELSE tally[f]
      /\ tally' \in [DOMAIN Tally -> Nat]
      BY <1>1, JudgingFacts, CountedFacts
<1>5. /\ "byteDivergent" \in fields
      /\ \A f \in {"scheduledFailures", "exact", "behaviorMatch", "generatorInvalid",
                   "unsupported", "syntax", "panic", "findings"} : f \notin fields
      BY DEF Scheduled
<1> HIDE DEF fields
<1>6. /\ UNCHANGED <<tally.scheduledFailures, tally.exact, tally.behaviorMatch,
                     tally.unsupported, tally.generatorInvalid, tally.syntax, tally.panic,
                     tally.findings>>
      /\ tally'.byteDivergent = tally.byteDivergent + 1
      BY <1>4, <1>5 DEF Tally
<1>7. /\ Judged' = Judged /\ Promise!Total' = Promise!Total /\ Settled' = Settled
      /\ HasHardFindings' <=> HasHardFindings
      BY <1>1, <1>2, <1>6 DEF HasHardFindings, Settled, Undecided, Judged, Promise!Total
<1>8. TypesOK'
      BY <1>1, <1>2, <1>4 DEF FuzzInv, TypesOK, workerVars
<1>9. PlaceOK'
      BY <1>1, <1>2 DEF FuzzInv, PlaceOK, This
<1>10. TalliesOK'
      <2>1. tally'.behaviorMatch \in Nat /\ tally'.findings \in Nat
            BY <1>4 DEF Tally
      <2> QED BY <1>1, <1>6, <1>7, <2>1, JudgingFacts DEF FuzzInv, TalliesOK, Undecided
<1>11. StopsInTime'
      BY <1>1, <1>2, <1>7 DEF FuzzInv, StopsInTime
<1>12. HonestSoFar'
      <2>1. Judgeable' \subseteq Judgeable /\ (doubtful' = {} => Judgeable' = Judgeable /\ doubtful = {})
            BY <1>2 DEF Judgeable
      <2> QED BY <1>2, <1>7, <2>1 DEF FuzzInv, HonestSoFar
<1>13. Conversation' /\ ClassesOK'
      BY <1>1, <1>2 DEF FuzzInv, Conversation, ClassesOK, workerVars, Batch
<1>14. ObservationOK'
      <2>1. asked' = <<Want, Case.njavac>> /\ answer' = <<>> /\ Case' = Case
            BY <1>1, <1>2 DEF Observer!Ask, Case
      <2>2. Case.name \notin doubtful' => Want = "ref" /\ Case.javac = "accepts"
            BY <1>1, <1>3, JudgingFacts
      <2> QED BY <1>3, <2>1, <2>2 DEF ObservationOK
<1>15. ExitHonest'
      BY <1>1, <1>8 DEF TypesOK, ExitHonest, Running, Panicked
<1> QED BY <1>2, <1>7, <1>8, <1>9, <1>10, <1>11, <1>12, <1>13, <1>14, <1>15 DEF FuzzInv

(* An honest observation that is not late shows the whole output and the   *)
(* true ending; so what is compared differs exactly if the classes do.     *)
LEMMA ObservedFacts ==
  ASSUME NEW c \in Classes, answer \in Observer!Honest("ref") \X Observer!Honest(c), ~ Late
  PROVE  BehaviorSig = {} <=> BehavesLikeRef(c)
<1> DEFINE Shown(d) == [i \in 1..Prints[d] |-> <<Text[d], i>>]
<1>1. ASSUME NEW d \in Classes, NEW o \in Observer!Honest(d), o.status # "TimedOut"
      PROVE  Observed(o).termination = Ending[d] /\ Observed(o).stdout = Shown(d)
      <2>1. o.status = Ending[d] /\ o.out = Observer!Output(d, Prints[d])
            BY <1>1 DEF Observer!Honest
      <2>2. /\ DOMAIN o.out = 1..Prints[d]
            /\ \A i \in 1..Prints[d] : o.out[i][1] = d /\ o.out[i][2] = i
            BY <2>1 DEF Observer!Output, Observer!Line
      <2> QED BY <2>1, <2>2 DEF Observed
<1>2. "ref" \in Classes
      BY RunAssumption
<1>3. /\ answer[1] \in Observer!Honest("ref") /\ answer[2] \in Observer!Honest(c)
      /\ answer[1].status # "TimedOut" /\ answer[2].status # "TimedOut"
      BY DEF Late
<1>4. /\ Observed(answer[1]).termination = Ending["ref"] /\ Observed(answer[2]).termination = Ending[c]
      /\ Observed(answer[1]).stdout = Shown("ref") /\ Observed(answer[2]).stdout = Shown(c)
      BY <1>1, <1>2, <1>3
<1>5. Shown("ref") = Shown(c)
        <=> Prints[c] = Prints["ref"] /\ (Prints[c] = 0 \/ Text[c] = Text["ref"])
      <2>1. Prints[c] \in Nat /\ Prints["ref"] \in Nat
            BY <1>2, RunAssumption
      <2>2. \A a, b \in Nat : 1..a = 1..b => a = b
            <3>1. SUFFICES ASSUME NEW a \in Nat, NEW b \in Nat, 1..a = 1..b, a < b PROVE FALSE
                  OBVIOUS
            <3>2. b \in 1..b /\ b \notin 1..a
                  BY <3>1
            <3> QED BY <3>1, <3>2
      <2>3. ASSUME Shown("ref") = Shown(c)
            PROVE  Prints[c] = Prints["ref"] /\ (Prints[c] = 0 \/ Text[c] = Text["ref"])
            <3>1. DOMAIN Shown("ref") = 1..Prints["ref"] /\ DOMAIN Shown(c) = 1..Prints[c]
                  OBVIOUS
            <3>2. Prints[c] = Prints["ref"]
                  BY <2>1, <2>2, <2>3, <3>1
            <3>3. ASSUME Prints[c] # 0 PROVE Text[c] = Text["ref"]
                  <4>1. 1 \in 1..Prints[c] /\ 1 \in 1..Prints["ref"]
                        BY <2>1, <3>2, <3>3
                  <4>2. Shown(c)[1] = <<Text[c], 1>> /\ Shown("ref")[1] = <<Text["ref"], 1>>
                        BY <4>1
                  <4>3. <<Text[c], 1>> = <<Text["ref"], 1>>
                        BY <2>3, <4>2
                  <4> QED BY <4>3
            <3> QED BY <3>2, <3>3
      <2>4. ASSUME Prints[c] = Prints["ref"], Prints[c] = 0 \/ Text[c] = Text["ref"]
            PROVE  Shown("ref") = Shown(c)
            BY <2>4
      <2> QED BY <2>3, <2>4
<1> HIDE DEF Shown
<1>6. BehaviorSig = {} <=> Ending["ref"] = Ending[c] /\ Shown("ref") = Shown(c)
      BY <1>4 DEF BehaviorSig, Fields
<1> QED BY <1>5, <1>6 DEF BehavesLikeRef

(* What the two judgements of an observation have in common.               *)
LEMMA ObservingFacts ==
  ASSUME FuzzInv, NEW match \in BOOLEAN, Observing(match)
  PROVE  /\ phase = "observing" /\ UNCHANGED <<cfg, progs, classes, observer, workerVars>>
         /\ doubtful' \in {doubtful, doubtful \cup {Case.name}}
         /\ Case.name \notin doubtful' => (match <=> ~ HardCase(Case))
         /\ tally \in [DOMAIN Tally -> Nat]
         /\ tally.byteDivergent = tally.behaviorMatch + tally.findings + 1
<1>1. /\ phase = "observing" /\ answer # <<>> /\ (match <=> BehaviorSig = {})
      /\ doubtful' = IF Late THEN doubtful \cup {Case.name} ELSE doubtful
      /\ UNCHANGED <<cfg, progs, classes, observer, workerVars>>
      BY DEF Observing
<1>2. /\ Case.njavac \in Classes /\ asked[2] = Case.njavac
      /\ Case.name \notin doubtful => asked[1] = "ref" /\ Case.javac = "accepts"
      /\ answer \in Observer!Honest(asked[1]) \X Observer!Honest(asked[2])
      BY <1>1 DEF FuzzInv, ObservationOK
<1>3. ASSUME Case.name \notin doubtful' PROVE match <=> ~ HardCase(Case)
      <2>1. ~ Late /\ Case.name \notin doubtful
            BY <1>1, <1>3
      <2>2. BehaviorSig = {} <=> BehavesLikeRef(Case.njavac)
            BY <1>2, <2>1, ObservedFacts
      <2>3. Case.njavac \notin {"unsupported", "syntax", "panic"}
            BY <1>2, RunAssumption DEF CompilerErrors
      <2> QED BY <1>1, <1>2, <2>1, <2>2, <2>3 DEF HardCase
<1>4. /\ tally \in [DOMAIN Tally -> Nat]
      /\ tally.byteDivergent = tally.behaviorMatch + tally.findings + 1
      BY <1>1 DEF FuzzInv, TypesOK, TalliesOK, Undecided
<1> QED BY <1>1, <1>3, <1>4

(* A pair that behaves alike is telemetry...                               *)
LEMMA MatchKeeps ==
  ASSUME FuzzInv, JudgeMatch
  PROVE  FuzzInv' /\ Promise!Next
<1>1. Observing(TRUE) /\ tally' = Counted({"behaviorMatch"}) /\ Proceed(FALSE) /\ UNCHANGED exit
      BY DEF JudgeMatch
<1>2. /\ tally' \in [DOMAIN Tally -> Nat]
      /\ \A f \in DOMAIN Tally :
           tally'[f] = IF f \in {"behaviorMatch"} THEN tally[f] + 1 ELSE tally[f]
      BY <1>1, ObservingFacts, CountedFacts
<1>3. /\ UNCHANGED <<tally.scheduledFailures, tally.byteDivergent, tally.exact,
                     tally.unsupported, tally.generatorInvalid, tally.syntax, tally.panic,
                     tally.findings>>
      /\ tally'.behaviorMatch = tally.behaviorMatch + 1
      BY <1>2 DEF Tally
<1>4. tally \in [DOMAIN Tally -> Nat] /\ tally.byteDivergent = tally.behaviorMatch + tally.findings + 1
      BY <1>1, ObservingFacts
<1>5. \A f \in DOMAIN Tally : tally[f] \in Nat
      BY <1>4
<1>6. tally'.byteDivergent = tally'.behaviorMatch + tally'.findings
      BY <1>3, <1>4, <1>5 DEF Tally
<1>7. Judged' = [Judged EXCEPT !["telemetry"] = @ + 1]
      BY <1>3, <1>5 DEF Tally, Judged
<1>8. FuzzInv' /\ (Promise!Judge("telemetry") \/ Promise!Crash)
      BY <1>1, <1>2, <1>6, <1>7, ObservingFacts, VerdictKeeps
<1> QED BY <1>8 DEF Promise!Next, Judged

(* ... and one that does not is a hard finding, written down or not.       *)
LEMMA BehaviorKeeps ==
  ASSUME FuzzInv, JudgeBehavior \/ LoseBehavior
  PROVE  FuzzInv' /\ Promise!Next
<1>1. \/ Proceed(TRUE) /\ UNCHANGED exit
      \/ Panic /\ UNCHANGED <<n, k>> /\ Infrastructure'
      <2>1. CASE LoseBehavior
            <3>1. Panic /\ UNCHANGED <<n, k>> /\ <<"behavior", Case.name>> \in unwritten'
                  BY <2>1 DEF LoseBehavior, FilesIn
            <3>2. <<"behavior", Case.name>>[1] = "behavior"
                  OBVIOUS
            <3> QED BY <3>1, <3>2 DEF Infrastructure
      <2> QED BY <2>1 DEF JudgeBehavior
<1>2. Observing(FALSE) /\ tally' = Counted({"findings"})
      BY DEF JudgeBehavior, LoseBehavior, CountBehavior
<1>3. /\ tally' \in [DOMAIN Tally -> Nat]
      /\ \A f \in DOMAIN Tally :
           tally'[f] = IF f \in {"findings"} THEN tally[f] + 1 ELSE tally[f]
      BY <1>2, ObservingFacts, CountedFacts
<1>4. /\ UNCHANGED <<tally.scheduledFailures, tally.byteDivergent, tally.exact,
                     tally.unsupported, tally.generatorInvalid, tally.syntax, tally.panic,
                     tally.behaviorMatch>>
      /\ tally'.findings = tally.findings + 1
      BY <1>3 DEF Tally
<1>5. tally \in [DOMAIN Tally -> Nat] /\ tally.byteDivergent = tally.behaviorMatch + tally.findings + 1
      BY <1>2, ObservingFacts
<1>6. \A f \in DOMAIN Tally : tally[f] \in Nat
      BY <1>5
<1>7. tally'.byteDivergent = tally'.behaviorMatch + tally'.findings
      BY <1>4, <1>5, <1>6 DEF Tally
<1>8. Judged' = [Judged EXCEPT !["hard"] = @ + 1]
      BY <1>4, <1>6 DEF Tally, Judged
<1>9. FuzzInv' /\ (Promise!Judge("hard") \/ Promise!Crash)
      BY <1>1, <1>2, <1>3, <1>7, <1>8, ObservingFacts, VerdictKeeps
<1> QED BY <1>9 DEF Promise!Next, Judged

-----------------------------------------------------------------------------
(* The steps of a batch, and the end. *)

(* The batch is generated behind what there is, and sent as it is.         *)
LEMMA BatchFacts ==
  ASSUME TypesOK, PlaceOK, phase = "batching", n < Count, NEW cases \in [1..This -> Cases]
  PROVE  LET batch == [i \in 1..This |-> Prog(n + i, cases[i])]
             longer == progs \o batch
         IN /\ batch \in Seq(Program) /\ Len(batch) = This /\ This \in 1..Count - n
            /\ longer \in Seq(Program) /\ Len(longer) = n + This
            /\ \A i \in DOMAIN progs : i \in DOMAIN longer /\ longer[i] = progs[i]
            /\ \A i \in DOMAIN longer : longer[i].name = i
            /\ \A j \in 1..This : n + j \in DOMAIN longer /\ longer[n + j] = batch[j]
            /\ DOMAIN progs = 1..n
<1> DEFINE batch == [i \in 1..This |-> Prog(n + i, cases[i])]
           longer == progs \o batch
<1>1. This \in 1..Count - n /\ n \in Nat /\ Count \in Nat /\ ScheduledCount \in Nat
      BY RunAssumption, ThisBound DEF TypesOK
<1>2. ASSUME NEW i \in 1..This
      PROVE  Prog(n + i, cases[i]) \in Program /\ Prog(n + i, cases[i]).name = n + i
      <2>1. cases[i] \in Cases
            OBVIOUS
      <2>2. /\ cases[i].javac \in {"accepts", "rejects"}
            /\ cases[i].njavac \in CompilerErrors \cup (Classes \ {"empty"})
            BY <2>1, RunAssumption
      <2>3. n + i \in Nat /\ (n + i <= ScheduledCount) \in BOOLEAN
            BY <1>1
      <2> QED BY <2>2, <2>3 DEF Prog, Program
<1>3. /\ batch \in Seq(Program) /\ Len(batch) = This
      /\ \A j \in 1..This : batch[j] \in Program /\ batch[j].name = n + j
      BY <1>1, <1>2
<1>4. /\ progs \in Seq(Program) /\ Len(progs) = n /\ DOMAIN progs = 1..n
      /\ \A i \in DOMAIN progs : progs[i].name = i
      BY DEF TypesOK, PlaceOK
<1> HIDE DEF batch
<1>5. /\ longer \in Seq(Program) /\ Len(longer) = n + This /\ DOMAIN longer = 1..n + This
      /\ \A i \in 1..n : longer[i] = progs[i]
      /\ \A i \in n + 1..n + This : longer[i] = batch[i - n]
      <2>1. /\ longer \in Seq(Program) /\ Len(longer) = Len(progs) + Len(batch)
            /\ \A i \in 1..Len(progs) + Len(batch) :
                 longer[i] = IF i <= Len(progs) THEN progs[i] ELSE batch[i - Len(progs)]
            <3>1. progs \in Seq(Program) /\ batch \in Seq(Program)
                  BY <1>3, <1>4
            <3> QED BY <3>1, ConcatProperties
      <2> HIDE DEF longer
      <2>2. longer \in Seq(Program) /\ Len(longer) = n + This /\ DOMAIN longer = 1..n + This
            BY <1>1, <1>3, <1>4, <2>1
      <2>3. ASSUME NEW i \in 1..n + This
            PROVE  longer[i] = IF i <= n THEN progs[i] ELSE batch[i - n]
            BY <1>3, <1>4, <2>1, <2>3
      <2>4. /\ \A i \in 1..n : i \in 1..n + This /\ i <= n
            /\ \A i \in n + 1..n + This : i \in 1..n + This /\ ~ i <= n
            BY <1>1
      <2> QED BY <2>2, <2>3, <2>4
<1> HIDE DEF longer
<1>6. \A j \in 1..This : n + j \in DOMAIN longer /\ longer[n + j] = batch[j]
      <2>1. \A j \in 1..This : n + j \in n + 1..n + This /\ (n + j) - n = j /\ n + j \in 1..n + This
            BY <1>1
      <2> QED BY <1>5, <2>1
<1>7. ASSUME NEW i \in DOMAIN longer PROVE longer[i].name = i
      <2>1. CASE i \in 1..n
            BY <1>4, <1>5, <2>1
      <2>2. CASE i \notin 1..n
            <3>1. i - n \in 1..This /\ n + (i - n) = i
                  BY <1>1, <1>5, <1>7, <2>2
            <3>2. longer[n + (i - n)] = batch[i - n] /\ batch[i - n].name = n + (i - n)
                  BY <1>3, <1>6, <3>1
            <3> QED BY <3>1, <3>2
      <2> QED BY <2>1, <2>2
<1>8. \A i \in DOMAIN progs : i \in DOMAIN longer /\ longer[i] = progs[i]
      BY <1>1, <1>4, <1>5
<1> QED BY <1>1, <1>3, <1>4, <1>5, <1>6, <1>7, <1>8 DEF batch, longer

(* The next batch is drawn and sent: it is in the pipe, as long as asked.  *)
LEMMA GenerateKeeps ==
  ASSUME FuzzInv, Generate
  PROVE  FuzzInv'
<1>1. /\ phase = "batching" /\ n < Count /\ phase' = "awaiting"
      /\ UNCHANGED <<cfg, n, k, classes, tally, exit, observer, doubtful, stdout, jvm, faults>>
      BY DEF Generate, Request
<1>2. PICK cases \in [1..This -> Cases] :
        LET batch == [i \in 1..This |-> Prog(n + i, cases[i])]
        IN progs' = progs \o batch /\ Request(batch)
      BY DEF Generate
<1> DEFINE batch == [i \in 1..This |-> Prog(n + i, cases[i])]
<1>3. TypesOK /\ PlaceOK
      BY DEF FuzzInv
<1>4. /\ batch \in Seq(Program) /\ Len(batch) = This /\ This \in 1..Count - n
      /\ progs' \in Seq(Program) /\ Len(progs') = n + This
      /\ \A i \in DOMAIN progs : i \in DOMAIN progs' /\ progs'[i] = progs[i]
      /\ \A i \in DOMAIN progs' : progs'[i].name = i
      /\ \A j \in 1..This : n + j \in DOMAIN progs' /\ progs'[n + j] = batch[j]
      /\ DOMAIN progs = 1..n
      BY <1>1, <1>2, <1>3, BatchFacts
<1>5. stdin' = Append(stdin, batch)
      BY <1>2 DEF Request
<1> HIDE DEF batch
<1>6. n \in Nat /\ Count \in Nat /\ k = 0 /\ Settled = n /\ Settled' = n
      BY <1>1, <1>3, RunAssumption DEF TypesOK, PlaceOK, Settled, Undecided
<1>7. TypesOK'
      BY <1>1, <1>3, <1>4 DEF TypesOK
<1>8. PlaceOK'
      BY <1>1, <1>4, <1>6 DEF PlaceOK, This
<1>9. TalliesOK'
      <2>1. Promise!Total' = Promise!Total
            BY <1>1 DEF Promise!Total, Judged
      <2> QED BY <1>1, <1>6, <2>1 DEF FuzzInv, TalliesOK, Undecided
<1>10. StopsInTime'
      BY <1>1 DEF FuzzInv, StopsInTime, HasHardFindings
<1>11. HonestSoFar'
      <2>1. HasHardFindings' <=> HasHardFindings
            BY <1>1 DEF HasHardFindings
      <2>2. \A i \in Judgeable : i \in Judgeable' /\ progs'[i] = progs[i]
            BY <1>1, <1>4 DEF Judgeable
      <2>3. \A i \in 1..n : i \in Judgeable' => i \in Judgeable /\ progs'[i] = progs[i]
            BY <1>1, <1>4 DEF Judgeable
      <2> QED BY <1>1, <1>6, <2>1, <2>2, <2>3 DEF FuzzInv, HonestSoFar
<1>12. Conversation'
      <2>1. stdin = <<>> /\ stdout = <<>> /\ jvm \in {"reading", "dead"}
            BY <1>1 DEF FuzzInv, Conversation
      <2>2. stdin' = <<batch>> /\ Len(stdin') = 1 /\ stdin'[1] = batch
            BY <1>5, <2>1
      <2>3. batch \in Seq(ToSet(progs'))
            <3>1. \A j \in 1..This : batch[j] \in {progs'[i] : i \in DOMAIN progs'}
                  BY <1>4
            <3>2. batch \in [1..This -> {progs'[i] : i \in DOMAIN progs'}]
                  BY <3>1 DEF batch
            <3>3. This \in Nat
                  BY <1>4, <1>6
            <3> QED BY <3>2, <3>3 DEF ToSet
      <2>4. Len(batch) = Len(progs') - n /\ Len(progs') - Len(batch) = n
            BY <1>4, <1>6
      <2>5. \A j \in DOMAIN batch : batch[j] = progs'[Len(progs') - Len(batch) + j]
            BY <1>4, <2>4 DEF batch
      <2>6. Len(batch) <= Len(progs') - n'
            BY <1>1, <1>4, <1>6
      <2>7. IsRest(stdin[1])'
            BY <2>2, <2>3, <2>5, <2>6 DEF IsRest
      <2>8. Sent'
            BY <1>1, <2>1, <2>2, <2>4, <2>7 DEF Sent
      <2> QED BY <1>1, <2>8 DEF Conversation
<1>13. ClassesOK' /\ ObservationOK' /\ ExitHonest'
      BY <1>1, <1>3 DEF ClassesOK, ObservationOK, ExitHonest, TypesOK, Running, Panicked
<1> QED BY <1>7, <1>8, <1>9, <1>10, <1>11, <1>12, <1>13 DEF FuzzInv

(* The response names programs of the batch only, and is true of them      *)
(* unless javac failed.                                                    *)
LEMMA TakeKeeps ==
  ASSUME FuzzInv, TakeClasses
  PROVE  FuzzInv' /\ exit' = exit
<1>1. /\ phase = "awaiting" /\ stdout # <<>> /\ stdout' = Tail(stdout)
      /\ classes' = Collected(Head(stdout))
      /\ UNCHANGED <<cfg, progs, n, tally, observer, doubtful, stdin, jvm, faults>>
      BY DEF TakeClasses, Receive
<1>2. TypesOK /\ PlaceOK /\ Conversation
      BY DEF FuzzInv
<1>3. Back
      BY <1>1, <1>2 DEF Conversation, Sent, AtJavac
<1>4. /\ Head(stdout) = stdout[1] /\ stdout' = <<>> /\ stdin = <<>> /\ jvm \in {"reading", "dead"}
      <2>1. stdout = <<stdout[1]>>
            BY <1>3 DEF Back
      <2>2. Head(stdout) = stdout[1] /\ Tail(stdout) = <<>>
            BY <2>1, SMTT(30)
      <2> QED BY <1>1, <1>3, <2>2 DEF Back
<1> DEFINE out == stdout[1]
<1>5. ClassesUpTo(Len(progs) + 1, out)
      BY <1>3 DEF Back
<1>6. /\ n \in Nat /\ Count \in Nat /\ This \in 1..Count - n /\ Len(progs) = n + This /\ n < Count
      /\ Batch = n + 1..n + This /\ k = 0 /\ Len(progs) \in Nat
      BY <1>1, <1>2, RunAssumption, ThisBound DEF TypesOK, PlaceOK, Batch
<1>7. \A x \in DOMAIN out : out[x].name \in Batch /\ out[x].bytes \in {"ref", "empty"}
      BY <1>2, <1>5, OutFacts
<1>8. /\ \A i : i \in DOMAIN classes' <=> \E x \in DOMAIN out : out[x].name = i
      /\ \A i \in DOMAIN classes' : \E x \in DOMAIN out :
           out[x].name = i /\ classes'[i] = out[x].bytes
      <2>1. out \in Seq([name : Nat, bytes : {"ref", "empty"}])
            <3>1. out \in Seq([name : Batch, bytes : {"ref", "empty"}]) /\ Batch \subseteq Nat
                  BY <1>2, <1>5, OutFacts
            <3>2. [name : Batch, bytes : {"ref", "empty"}]
                    \subseteq [name : Nat, bytes : {"ref", "empty"}]
                  BY <3>1
            <3> QED BY <3>1, <3>2, SeqMonotonic
      <2>2. classes' = Collected(out)
            BY <1>1, <1>4
      <2> QED BY <2>1, <2>2, CollectedFacts
<1>9. DOMAIN classes' \subseteq n + 1..n + This
      BY <1>6, <1>7, <1>8
<1>10. phase' = "judging" /\ k' = 1 /\ exit' = exit
      BY <1>9 DEF TakeClasses
<1>11. TypesOK' /\ PlaceOK'
      <2>1. TypesOK'
            BY <1>1, <1>2, <1>10 DEF TypesOK
      <2>2. This' = This
            BY <1>1 DEF This
      <2>3. PlaceOK'
            BY <1>1, <1>2, <1>6, <1>10, <2>2 DEF PlaceOK
      <2> QED BY <2>1, <2>3
<1>12. Settled = n /\ Settled' = n /\ observer = "up"
      BY <1>1, <1>2, <1>6, <1>10 DEF Settled, Undecided, TypesOK
<1>13. TalliesOK'
      BY <1>1, <1>10, <1>12 DEF FuzzInv, TalliesOK, Undecided, Promise!Total, Judged
<1>14. StopsInTime' /\ HonestSoFar'
      BY <1>1, <1>10, <1>12 DEF FuzzInv, StopsInTime, HonestSoFar, HasHardFindings, Judgeable
<1>15. Conversation'
      BY <1>1, <1>4, <1>10 DEF Conversation
<1>16. ClassesOK'
      <2>1. \A i \in DOMAIN classes' : classes'[i] \in {"ref", "empty"}
            BY <1>7, <1>8
      <2>2. \A i \in DOMAIN classes' : progs[i].javac = "accepts"
            <3>1. \A x \in DOMAIN out : progs[out[x].name].javac = "accepts"
                  BY <1>5 DEF ClassesUpTo
            <3> QED BY <1>8, <3>1
      <2>3. ASSUME faults = 0, NEW i \in Batch, progs[i].javac = "accepts"
            PROVE  i \in DOMAIN classes' /\ classes'[i] = "ref"
            <3>1. \A x \in DOMAIN out : out[x].bytes = "ref"
                  <4>1. \A x \in DOMAIN out : out[x] # Opened(Len(progs) + 1)
                        BY <1>6, <1>7 DEF Opened
                  <4> QED BY <1>5, <2>3, <4>1 DEF ClassesUpTo
            <3>2. i \in n + 1..(Len(progs) + 1) - 1
                  BY <1>6, <2>3
            <3>3. \E x \in DOMAIN out : out[x].name = i
                  BY <1>5, <2>3, <3>2 DEF ClassesUpTo
            <3> QED BY <1>8, <3>1, <3>3
      <2> QED BY <1>1, <2>1, <2>2, <2>3 DEF ClassesOK, Batch
<1>17. ObservationOK' /\ ExitHonest'
      BY <1>10, <1>11 DEF ObservationOK, ExitHonest, TypesOK, Running, Panicked
<1> QED BY <1>10, <1>11, <1>13, <1>14, <1>15, <1>16, <1>17 DEF FuzzInv

(* The driver gives up when the worker died or the observer is lost; the   *)
(* program the observer had stays undecided.                               *)
LEMMA LoseKeeps ==
  ASSUME FuzzInv, LoseWorker \/ LoseObserver
  PROVE  FuzzInv' /\ Promise!Crash /\ Settled' = Settled
<1>1. /\ phase' = "over" /\ exit' = Panicked /\ phase # "over"
      /\ UNCHANGED <<cfg, progs, n, k, classes, tally, doubtful, workerVars>>
      BY DEF LoseWorker, LoseObserver, Panic
<1>2. /\ jvm = "dead" \/ observer' = "lost"
      /\ observer = "up" /\ observer' \in {"up", "lost"}
      /\ observer' = "lost" <=> phase = "observing"
      /\ phase \in {"awaiting", "observing"}
      BY DEF LoseWorker, LoseObserver, PipeBroken, FuzzInv, TypesOK
<1>3. TypesOK'
      BY <1>2, <1>1 DEF FuzzInv, TypesOK, workerVars, Running, Panicked
<1>4. Settled' = Settled /\ (Undecided' <=> Undecided)
      BY <1>2, <1>1 DEF Settled, Undecided
<1>5. TalliesOK' /\ StopsInTime' /\ HonestSoFar'
      BY <1>1, <1>4 DEF FuzzInv, TalliesOK, StopsInTime, HonestSoFar, HasHardFindings, Judgeable,
                        Promise!Total, Judged
<1>6. PlaceOK' /\ Conversation' /\ ClassesOK' /\ ObservationOK'
      BY <1>1 DEF FuzzInv, PlaceOK, Conversation, ClassesOK, ObservationOK
<1>7. ExitHonest'
      BY <1>2, <1>1 DEF ExitHonest, Infrastructure, Panicked, workerVars
<1>8. Promise!Crash
      <2>1. exit = Running
            BY <1>1 DEF FuzzInv, TypesOK
      <2> QED BY <1>1, <2>1 DEF Promise!Crash, Ended, Judged, Running, Panicked
<1> QED BY <1>3, <1>5, <1>6, <1>7, <1>8, <1>4 DEF FuzzInv

(* The assertion of the summary holds, and the exit code is the one meant. *)
LEMMA ExitKeeps ==
  ASSUME FuzzInv, FinishAndExit \/ Summarize
  PROVE  FuzzInv' /\ Promise!Exit
<1>1. /\ phase \in {"stopping", "batching"} /\ phase' = "over"
      /\ phase = "stopping" => HasHardFindings
      /\ phase = "batching" => n >= Count
      BY DEF FuzzInv, StopsInTime, FinishAndExit, Summarize, ExitWith
<1>2. tally.byteDivergent = tally.behaviorMatch + tally.findings
      <2>1. tally.behaviorMatch \in Nat /\ tally.findings \in Nat
            BY DEF FuzzInv, TypesOK, Tally
      <2>2. observer = "up"
            BY <1>1 DEF FuzzInv, TypesOK
      <2> QED BY <1>1, <2>1, <2>2 DEF FuzzInv, TalliesOK, Undecided
<1>3. /\ exit' = IF HasHardFindings THEN 1 ELSE 0
      /\ UNCHANGED <<cfg, progs, n, k, classes, tally, observer, doubtful, workerVars>>
      BY <1>1, <1>2 DEF FinishAndExit, Summarize, ExitWith
<1>4. TypesOK'
      BY <1>1, <1>3 DEF FuzzInv, TypesOK, workerVars, Running, Panicked
<1>5. TalliesOK' /\ StopsInTime' /\ HonestSoFar'
      BY <1>1, <1>3 DEF FuzzInv, TalliesOK, StopsInTime, HonestSoFar, HasHardFindings, Judgeable,
                        Settled, Undecided, Promise!Total, Judged
<1>6. PlaceOK' /\ Conversation' /\ ClassesOK' /\ ObservationOK'
      BY <1>1, <1>3 DEF FuzzInv, PlaceOK, Conversation, ClassesOK, ObservationOK
<1>7. ExitHonest'
      <2>1. CASE HasHardFindings
            BY <1>3, <2>1 DEF FuzzInv, HonestSoFar, ExitHonest, Judgeable, Panicked
      <2>2. CASE ~ HasHardFindings
            <3>1. phase = "batching" /\ n >= Count /\ n \in 0..Count /\ Count \in Nat
                  BY <1>1, <2>2, RunAssumption DEF FuzzInv, TypesOK
            <3>2. Len(progs) = Count /\ Settled = Count /\ DOMAIN progs = 1..Count
                  BY <3>1 DEF FuzzInv, PlaceOK, TypesOK, Settled, Undecided
            <3>3. \A i \in Judgeable : ~ HardCase(progs[i])
                  BY <2>2, <3>2 DEF FuzzInv, HonestSoFar, Judgeable
            <3> QED BY <1>3, <2>2, <3>2, <3>3 DEF ExitHonest, Judgeable, Panicked
      <2> QED BY <2>1, <2>2
<1>8. Promise!Exit
      <2>1. exit = Running
            BY <1>1 DEF FuzzInv, TypesOK
      <2>2. Judged.hard > 0 <=> HasHardFindings
            BY <1>3, JudgedFacts DEF FuzzInv, TypesOK
      <2>3. Ended = "running" /\ Ended' = IF Judged.hard > 0 THEN "failure" ELSE "success"
            BY <1>3, <2>1, <2>2 DEF Ended, Running
      <2>4. Promise!Over
            <3>1. CASE phase = "stopping"
                  BY <1>1, <2>2, <3>1 DEF FuzzInv, StopsInTime, Promise!Over
            <3>2. CASE phase = "batching"
                  <4>1. n \in 0..Count /\ n >= Count /\ Count \in Nat /\ k = 0 /\ Settled = n + k
                        BY <1>1, <3>2, RunAssumption DEF FuzzInv, TypesOK, PlaceOK, Settled,
                                                                      Undecided
                  <4> QED BY <4>1 DEF FuzzInv, TalliesOK, Promise!Over
            <3> QED BY <1>1, <3>1, <3>2
      <2> QED BY <1>3, <2>3, <2>4 DEF Promise!Exit, Judged
<1> QED BY <1>4, <1>5, <1>6, <1>7, <1>8 DEF FuzzInv

-----------------------------------------------------------------------------
(* The theorems. *)

(* A run begins in the invariant, where the promise begins.                *)
LEMMA InitKeeps ==
  ASSUME Init
  PROVE  FuzzInv /\ Promise!Init
<1>1. /\ cfg \in [batch : Batches, keepGoing : BOOLEAN]
      /\ phase = "batching" /\ progs = <<>> /\ n = 0 /\ k = 0 /\ tally = Tally
      /\ exit = Running /\ observer = "up" /\ doubtful = {}
      /\ stdin = <<>> /\ stdout = <<>> /\ jvm = "reading" /\ faults = 0
      BY DEF Init, WorkerInit
<1>2. cfg \in [batch : Nat \ {0}, keepGoing : BOOLEAN] /\ Count \in Nat
      BY <1>1, RunAssumption
<1>3. tally \in [DOMAIN Tally -> Nat] /\ \A f \in DOMAIN Tally : tally[f] = 0
      BY <1>1 DEF Tally
<1>4. progs \in Seq(Program) /\ DOMAIN progs = {} /\ Len(progs) = 0
      BY <1>1
<1>5. TypesOK
      BY <1>1, <1>2, <1>3, <1>4 DEF TypesOK, Running, Panicked
<1>6. PlaceOK
      BY <1>1, <1>4 DEF PlaceOK
<1>7. Judged = [pass |-> 0, telemetry |-> 0, hard |-> 0] /\ ~ HasHardFindings
      <2>1. DOMAIN Tally = {"scheduled", "scheduledFailures", "exact", "byteDivergent",
                            "behaviorMatch", "generatorInvalid", "unsupported", "syntax",
                            "panic", "findings"}
            BY DEF Tally
      <2> HIDE DEF Tally
      <2> QED BY <1>3, <2>1 DEF Judged, HasHardFindings
<1>8. TalliesOK
      BY <1>1, <1>3, <1>7 DEF TalliesOK, Promise!Total, Settled, Undecided, Tally
<1>9. StopsInTime /\ HonestSoFar
      BY <1>1, <1>7 DEF StopsInTime, HonestSoFar, Settled, Undecided
<1>10. Conversation /\ ClassesOK /\ ObservationOK
      BY <1>1 DEF Conversation, ClassesOK, ObservationOK
<1>11. ExitHonest
      BY <1>1 DEF ExitHonest, Running, Panicked
<1>12. Promise!Init
      BY <1>1, <1>2, <1>7 DEF Promise!Init, Ended, Running
<1> QED BY <1>5, <1>6, <1>8, <1>9, <1>10, <1>11, <1>12 DEF FuzzInv

(* Every step keeps the invariant and is one of the promise, or none.      *)
LEMMA StepKeeps ==
  ASSUME FuzzInv, [Next]_vars
  PROVE  FuzzInv' /\ [Promise!Next]_Promise!campaignVars
<1> DEFINE Stutter == UNCHANGED <<cfg, Judged, exit>>
<1>1. Stutter => [Promise!Next]_Promise!campaignVars
      BY DEF Promise!campaignVars, Ended
<1>2. CASE Generate
      BY <1>1, <1>2, GenerateKeeps DEF Generate, Judged
<1>3. CASE TakeClasses
      <2>1. UNCHANGED <<cfg, tally, exit>> /\ FuzzInv'
            BY <1>3, TakeKeeps DEF TakeClasses
      <2> QED BY <1>1, <2>1 DEF Judged
<1>4. CASE LoseWorker \/ LoseObserver
      BY <1>4, LoseKeeps DEF Promise!Next
<1>5. CASE JudgeInvalid
      BY <1>5, InvalidKeeps
<1>6. CASE JudgeUnsupported
      BY <1>6, UnsupportedKeeps
<1>7. CASE JudgeCompilerFinding
      BY <1>7, CompilerFindingKeeps
<1>8. CASE JudgeExact
      BY <1>8, ExactKeeps
<1>9. CASE ObserveDivergent
      BY <1>1, <1>9, DivergentKeeps
<1>10. CASE JudgeMatch
      BY <1>10, MatchKeeps
<1>11. CASE JudgeBehavior \/ LoseBehavior
      BY <1>11, BehaviorKeeps
<1>12. CASE FinishAndExit \/ Summarize
      BY <1>12, ExitKeeps DEF Promise!Next
<1>13. CASE AnswerPair
      BY <1>1, <1>13, AnswerKeeps DEF AnswerPair, runVars, Judged
<1>14. CASE Worker
      BY <1>1, <1>14, WorkerKeeps DEF Worker, runVars, Judged
<1>15. CASE UNCHANGED vars
      <2>1. UNCHANGED <<runVars, pairVars, workerVars>>
            BY <1>15 DEF vars
      <2>2. Conversation' /\ ObservationOK' /\ faults' \in Nat
            BY <2>1 DEF FuzzInv, TypesOK, Conversation, Sent, AtJavac, Back, IsRest, ClassesUpTo,
                        Batch, ObservationOK, Case, runVars, pairVars, workerVars
      <2> QED BY <1>1, <2>1, <2>2, RunUnchanged DEF runVars, pairVars, workerVars, Judged
<1> QED BY <1>2, <1>3, <1>4, <1>5, <1>6, <1>7, <1>8, <1>9, <1>10, <1>11, <1>12, <1>13, <1>14,
           <1>15 DEF Next, Driver

(* The invariant holds in every state of a run of the fuzzer.              *)
THEOREM FuzzInvariant == Spec => []FuzzInv
<1>1. Init => FuzzInv
      BY InitKeeps
<1>2. FuzzInv /\ [Next]_vars => FuzzInv'
      BY StepKeeps
<1> QED BY <1>1, <1>2, PTL DEF Spec

(* The exit code is true of the programs: success means that all were      *)
(* judged and none is hard, failure that one is, except for cases whose    *)
(* class was lost or that were observed late; and a panic that the worker  *)
(* died, the observer was lost, or the disk refused the source of a        *)
(* behavior finding (run, has_hard_findings, report_finding).              *)
THEOREM ExitIsHonest == Spec => []ExitHonest
<1>1. FuzzInv => ExitHonest
      BY DEF FuzzInv
<1> QED BY <1>1, FuzzInvariant, PTL

(* The safety half of Implements: each case is judged once, the first hard *)
(* finding stops a run not told to keep going, and the exit code is 1      *)
(* exactly after one (run).                                                *)
THEOREM KeepsItsPromise == Spec => Promise!Safety
<1>1. Init => Promise!Init
      BY InitKeeps
<1>2. FuzzInv /\ [Next]_vars => [Promise!Next]_Promise!campaignVars
      BY StepKeeps
<1> QED BY <1>1, <1>2, FuzzInvariant, PTL DEF Spec, Promise!Safety

-----------------------------------------------------------------------------
(* What is written down. *)

(* One more case of a signature is one more in the sum of the counts.      *)
LEMMA SigGrows ==
  ASSUME NEW sigs, SigsOK(sigs), NEW sig
  PROVE  /\ SigsOK(WithSig(sigs, sig))
         /\ SumOfCounts(sigs) \in Nat
         /\ SumOfCounts(WithSig(sigs, sig)) = SumOfCounts(sigs) + 1
         /\ DOMAIN WithSig(sigs, sig) = DOMAIN sigs \cup {sig}
         /\ \A s \in DOMAIN sigs : WithSig(sigs, sig)[s].example = sigs[s].example
         /\ sig \notin DOMAIN sigs => WithSig(sigs, sig)[sig].example = Case.name
<1> DEFINE more == WithSig(sigs, sig)
           old == IF sig \in DOMAIN sigs THEN sigs[sig].count ELSE 0
           S == DOMAIN sigs
<1>1. IsFiniteSet(S) /\ \A s \in S : sigs[s].count \in Nat
      BY DEF SigsOK
<1>2. /\ DOMAIN more = S \cup {sig}
      /\ \A s \in S : s # sig => more[s] = sigs[s]
      /\ more[sig].count = old + 1
      /\ more[sig].example = IF sig \in S THEN sigs[sig].example ELSE Case.name
      BY DEF WithSig
<1> HIDE DEF more
<1>3. IsFiniteSet(S \cup {sig})
      BY <1>1, FS_AddElement
<1>4. SigsOK(more)
      BY <1>1, <1>2, <1>3 DEF SigsOK
<1>5. /\ DOMAIN Counts(sigs) = S /\ DOMAIN Counts(more) = S \cup {sig}
      /\ \A s \in S : Counts(sigs)[s] = sigs[s].count
      /\ \A s \in S \cup {sig} : Counts(more)[s] = more[s].count
      BY <1>2 DEF Counts
<1>6. /\ \A s \in S : Counts(sigs)[s] \in Nat
      /\ \A s \in S : s # sig => Counts(more)[s] = Counts(sigs)[s]
      /\ Counts(more)[sig] = 1 + IF sig \in S THEN Counts(sigs)[sig] ELSE 0
      BY <1>1, <1>2, <1>5
<1>7. /\ SumOfCounts(sigs) = SumOver(Counts(sigs), S)
      /\ SumOfCounts(more) = SumOver(Counts(more), S \cup {sig})
      BY <1>5 DEF SumOfCounts, SumOver, SumFunction
<1> HIDE DEF S
<1>8. SumOver(Counts(more), S \cup {sig}) = SumOver(Counts(sigs), S) + 1
      <2> DEFINE c == Counts(sigs)
                 d == Counts(more)
      <2>1. /\ \A s \in S : c[s] \in Nat
            /\ \A s \in S : s # sig => d[s] = c[s]
            /\ d[sig] = 1 + IF sig \in S THEN c[sig] ELSE 0
            BY <1>6
      <2>2. 1 \in Nat
            OBVIOUS
      <2> HIDE DEF c, d
      <2>3. \A x : /\ \A y \in S : y # x => d[y] = c[y]
                   /\ d[x] = 1 + IF x \in S THEN c[x] ELSE 0
                   => SumOver(d, S \cup {x}) = SumOver(c, S) + 1
            <3>1. IsFiniteSet(S) /\ \A y \in S : c[y] \in Nat
                  BY <1>1, <2>1
            <3> QED BY <2>2, <3>1, SumGrows
      <2>4. SumOver(d, S \cup {sig}) = SumOver(c, S) + 1
            BY <2>1, <2>3
      <2> QED BY <2>4 DEF c, d
<1>9. SumOver(Counts(sigs), S) \in Nat
      BY <1>1, <1>6, SumType
<1> QED BY <1>2, <1>4, <1>7, <1>8, <1>9 DEF more, S

(* What a report writes, and what the disk refuses of it, is attempted.    *)
LEMMA AttemptFacts ==
  ASSUME NEW dirs, Report(dirs)
  PROVE  Attempts' = Attempts \cup FilesIn(dirs) /\ reports \subseteq reports'
<1>1. PICK refused \in SUBSET dirs :
        /\ reports' = reports \cup FilesIn(dirs \ refused)
        /\ unwritten' = unwritten \cup FilesIn(refused)
      BY DEF Report
<1>2. FilesIn(dirs \ refused) \cup FilesIn(refused) = FilesIn(dirs)
      BY DEF FilesIn
<1> QED BY <1>1, <1>2 DEF Attempts

(* A report of the program at hand is new; if it has a directory of its    *)
(* own, it is one more file of that kind.                                  *)
LEMMA ReportFacts ==
  ASSUME TypesOK, PlaceOK, ReportsOK, phase \in {"judging", "observing"},
         NEW a, NEW b, NEW dirs \in SUBSET {a, b}, b \notin OwnDirs,
         Attempts' = Attempts \cup FilesIn(dirs)
  PROVE  /\ IsFiniteSet(Attempts') /\ \A r \in Attempts' : r[2] \in 1..n + k
         /\ Cardinality(OwnFiles) \in Nat
         /\ Cardinality(OwnFiles') =
              Cardinality(OwnFiles) + IF a \in dirs /\ a \in OwnDirs THEN 1 ELSE 0
<1> DEFINE new == {<<d, Case.name>> : d \in dirs}
           mine == <<a, Case.name>>
<1>1. Attempts' = Attempts \cup new
      BY DEF FilesIn
<1>2. Settled = n + k - 1 /\ n \in Nat /\ k \in Nat \ {0} /\ Case.name = n + k
      BY CaseFacts DEF Settled, Undecided
<1>3. new \subseteq {mine, <<b, Case.name>>} /\ IsFiniteSet({mine, <<b, Case.name>>})
      <2>1. new \subseteq {mine, <<b, Case.name>>}
            OBVIOUS
      <2>2. ASSUME NEW x, NEW y PROVE IsFiniteSet({x, y})
            <3>1. {x, y} = ({} \cup {x}) \cup {y}
                  OBVIOUS
            <3>2. IsFiniteSet({} \cup {x})
                  BY FS_EmptySet, FS_AddElement
            <3>3. IsFiniteSet(({} \cup {x}) \cup {y})
                  BY <3>2, FS_AddElement
            <3> QED BY <3>1, <3>3
      <2> QED BY <2>1, <2>2
<1>4. IsFiniteSet(Attempts) /\ IsFiniteSet(new) /\ IsFiniteSet(Attempts')
      BY <1>1, <1>3, FS_Subset, FS_Union DEF ReportsOK
<1>5. \A r \in Attempts' : r[2] \in 1..n + k
      <2>1. \A r \in Attempts : r[2] \in 1..n + k - 1
            BY <1>2 DEF ReportsOK
      <2>2. \A r \in new : r[2] = n + k
            BY <1>2
      <2> QED BY <1>1, <1>2, <2>1, <2>2
<1>6. mine \notin OwnFiles
      <2>1. \A r \in Attempts : r[2] # n + k
            BY <1>2 DEF ReportsOK
      <2>2. mine[2] = n + k
            BY <1>2
      <2> QED BY <2>1, <2>2 DEF OwnFiles
<1>7. OwnFiles' = IF a \in dirs /\ a \in OwnDirs THEN OwnFiles \cup {mine} ELSE OwnFiles
      <2>1. \A r \in new : r[1] \in OwnDirs <=> r = mine /\ a \in dirs /\ a \in OwnDirs
            OBVIOUS
      <2>2. mine \in new <=> a \in dirs
            OBVIOUS
      <2>3. mine[1] = a
            OBVIOUS
      <2> HIDE DEF new, mine
      <2> QED BY <1>1, <2>1, <2>2, <2>3 DEF OwnFiles
<1>8. IsFiniteSet(OwnFiles) /\ Cardinality(OwnFiles) \in Nat
      BY <1>4, FS_Subset, FS_CardinalityType DEF OwnFiles
<1>9. Cardinality(OwnFiles \cup {mine}) = Cardinality(OwnFiles) + 1
      BY <1>6, <1>8, FS_AddElement
<1> QED BY <1>1, <1>4, <1>5, <1>7, <1>8, <1>9

(* What a step has to show that leaves the files and signatures alone.     *)
LEMMA NothingWritten ==
  ASSUME FindingsInv, FuzzInv', Settled' = Settled, exit = Panicked => exit' = Panicked,
         UNCHANGED <<reports, unwritten, byteSigs, behaviorSigs, tally>>
  PROVE  FindingsInv'
<1>1. ReportsOK' /\ SigsOK(byteSigs)' /\ SigsOK(behaviorSigs)'
      BY DEF FindingsInv, ReportsOK, Attempts, SigsOK
<1>2. ExamplesKept' /\ EachWritten' /\ SumsAgree'
      BY DEF FindingsInv, FindingsKept, ExamplesKept, EachWritten, OwnFiles, Attempts, SumsAgree,
             SumOfCounts, Counts
<1> QED BY <1>1, <1>2 DEF FindingsInv, FindingsKept

(* What a verdict has to show that meets no divergence: one more file of   *)
(* its own if it is a compiler finding or fails a scheduled case.          *)
LEMMA VerdictWritten ==
  ASSUME FindingsInv, FuzzInv', phase = "judging", NEW hard \in BOOLEAN, Proceed(hard),
         UNCHANGED <<cfg, progs, observer, byteSigs, behaviorSigs, tally.findings,
                     tally.byteDivergent>>,
         NEW a, NEW b, NEW dirs \in SUBSET {a, b}, b \notin OwnDirs, Report(dirs),
         tally'.syntax + tally'.panic + tally'.scheduledFailures =
           tally.syntax + tally.panic + tally.scheduledFailures
             + (IF a \in dirs /\ a \in OwnDirs THEN 1 ELSE 0)
  PROVE  FindingsInv'
<1>1. /\ TypesOK /\ PlaceOK /\ ReportsOK /\ SigsOK(byteSigs) /\ SigsOK(behaviorSigs)
      /\ ExamplesKept /\ EachWritten /\ SumsAgree /\ exit # Panicked
      BY DEF FindingsInv, FuzzInv, FindingsKept, TypesOK, Running, Panicked
<1>2. Settled' = n + k /\ reports \subseteq reports' /\ Attempts' = Attempts \cup FilesIn(dirs)
      BY <1>1, ProceedFacts, AttemptFacts
<1>3. /\ IsFiniteSet(Attempts') /\ \A r \in Attempts' : r[2] \in 1..n + k
      /\ Cardinality(OwnFiles') =
           Cardinality(OwnFiles) + IF a \in dirs /\ a \in OwnDirs THEN 1 ELSE 0
      BY <1>1, <1>2, ReportFacts
<1>4. ReportsOK' /\ SigsOK(byteSigs)' /\ SigsOK(behaviorSigs)'
      BY <1>1, <1>2, <1>3 DEF ReportsOK, SigsOK
<1>5. ExamplesKept'
      BY <1>1, <1>2 DEF ExamplesKept
<1>6. EachWritten'
      BY <1>1, <1>3 DEF EachWritten
<1>7. SumsAgree'
      BY <1>1 DEF SumsAgree, SumOfCounts, Counts
<1> QED BY <1>4, <1>5, <1>6, <1>7 DEF FindingsInv, FindingsKept

(* The four verdicts without an observation.                               *)
LEMMA VerdictsWritten ==
  ASSUME FindingsInv, FuzzInv',
         JudgeInvalid \/ JudgeUnsupported \/ JudgeCompilerFinding \/ JudgeExact
  PROVE  FindingsInv'
<1>1. tally \in [DOMAIN Tally -> Nat] /\ \A f \in DOMAIN Tally : tally[f] \in Nat
      BY DEF FindingsInv, FuzzInv, TypesOK
<1>2. CASE JudgeInvalid
      <2> DEFINE fields == {"generatorInvalid"} \cup Scheduled \cup CoverageFailed
                 dirs == IF Case.scheduled THEN {"scheduled-generator-invalid"} ELSE {}
      <2>1. /\ Judging("generatorInvalid") /\ tally' = Counted(fields) /\ Proceed(Case.scheduled)
            /\ Report(dirs) /\ UNCHANGED <<byteSigs, behaviorSigs>>
            BY <1>2 DEF JudgeInvalid
      <2>2. /\ phase = "judging" /\ UNCHANGED <<cfg, progs, observer>> /\ Case.scheduled \in BOOLEAN
            BY <2>1, JudgingFacts DEF FindingsInv
      <2>3. \A f \in DOMAIN Tally : tally'[f] = IF f \in fields THEN tally[f] + 1 ELSE tally[f]
            BY <1>1, <2>1, CountedFacts
      <2>4. /\ "scheduledFailures" \in fields <=> Case.scheduled
            /\ \A f \in {"byteDivergent", "findings", "syntax", "panic"} : f \notin fields
            BY DEF Scheduled, CoverageFailed
      <2> HIDE DEF fields
      <2>5. UNCHANGED <<tally.findings, tally.byteDivergent, tally.syntax, tally.panic>>
            /\ tally'.scheduledFailures = tally.scheduledFailures + IF Case.scheduled THEN 1 ELSE 0
            BY <1>1, <2>3, <2>4 DEF Tally
      <2>6. /\ dirs \in SUBSET {"scheduled-generator-invalid", "unsupported"}
            /\ "scheduled-generator-invalid" \in dirs <=> Case.scheduled
            /\ "scheduled-generator-invalid" \in OwnDirs /\ "unsupported" \notin OwnDirs
            BY DEF OwnDirs
      <2>7. tally'.syntax + tally'.panic + tally'.scheduledFailures =
              tally.syntax + tally.panic + tally.scheduledFailures
                + (IF Case.scheduled THEN 1 ELSE 0)
            BY <1>1, <2>5 DEF Tally
      <2> HIDE DEF dirs
      <2> QED BY <2>1, <2>2, <2>5, <2>6, <2>7, VerdictWritten
<1>3. CASE JudgeUnsupported
      <2> DEFINE fields == {"unsupported"} \cup Scheduled \cup CoverageFailed
                 dirs == (IF Cardinality(Dumped) < UnsupportedCap THEN {"unsupported"} ELSE {})
                           \cup (IF Case.scheduled THEN {"scheduled-unsupported"} ELSE {})
      <2>1. /\ Judging("unsupported") /\ tally' = Counted(fields) /\ Proceed(Case.scheduled)
            /\ Report(dirs) /\ UNCHANGED <<byteSigs, behaviorSigs>>
            BY <1>3 DEF JudgeUnsupported
      <2>2. /\ phase = "judging" /\ UNCHANGED <<cfg, progs, observer>> /\ Case.scheduled \in BOOLEAN
            BY <2>1, JudgingFacts DEF FindingsInv
      <2>3. \A f \in DOMAIN Tally : tally'[f] = IF f \in fields THEN tally[f] + 1 ELSE tally[f]
            BY <1>1, <2>1, CountedFacts
      <2>4. /\ "scheduledFailures" \in fields <=> Case.scheduled
            /\ \A f \in {"byteDivergent", "findings", "syntax", "panic"} : f \notin fields
            BY DEF Scheduled, CoverageFailed
      <2> HIDE DEF fields
      <2>5. UNCHANGED <<tally.findings, tally.byteDivergent, tally.syntax, tally.panic>>
            /\ tally'.scheduledFailures = tally.scheduledFailures + IF Case.scheduled THEN 1 ELSE 0
            BY <1>1, <2>3, <2>4 DEF Tally
      <2>6. /\ dirs \in SUBSET {"scheduled-unsupported", "unsupported"}
            /\ "scheduled-unsupported" \in dirs <=> Case.scheduled
            /\ "scheduled-unsupported" \in OwnDirs /\ "unsupported" \notin OwnDirs
            BY DEF OwnDirs
      <2>7. tally'.syntax + tally'.panic + tally'.scheduledFailures =
              tally.syntax + tally.panic + tally.scheduledFailures
                + (IF Case.scheduled THEN 1 ELSE 0)
            BY <1>1, <2>5 DEF Tally
      <2> HIDE DEF dirs
      <2> QED BY <2>1, <2>2, <2>5, <2>6, <2>7, VerdictWritten
<1>4. CASE JudgeCompilerFinding
      <2>1. PICK kind \in {"syntax", "panic"} :
              /\ Judging(kind) /\ tally' = Counted({kind} \cup Scheduled) /\ Report({kind})
              /\ Proceed(TRUE) /\ UNCHANGED <<byteSigs, behaviorSigs>>
            BY <1>4 DEF JudgeCompilerFinding
      <2>2. phase = "judging" /\ UNCHANGED <<cfg, progs, observer>>
            BY <2>1, JudgingFacts DEF FindingsInv
      <2> DEFINE fields == {kind} \cup Scheduled
      <2>3. \A f \in DOMAIN Tally : tally'[f] = IF f \in fields THEN tally[f] + 1 ELSE tally[f]
            BY <1>1, <2>1, CountedFacts
      <2>4. /\ \A f \in {"syntax", "panic"} : f \in fields <=> f = kind
            /\ \A f \in {"byteDivergent", "findings", "scheduledFailures"} : f \notin fields
            BY DEF Scheduled
      <2> HIDE DEF fields
      <2>5. /\ UNCHANGED <<tally.findings, tally.byteDivergent, tally.scheduledFailures>>
            /\ tally'.syntax = tally.syntax + IF kind = "syntax" THEN 1 ELSE 0
            /\ tally'.panic = tally.panic + IF kind = "panic" THEN 1 ELSE 0
            BY <1>1, <2>3, <2>4 DEF Tally
      <2>6. tally'.syntax + tally'.panic + tally'.scheduledFailures =
              tally.syntax + tally.panic + tally.scheduledFailures + 1
            BY <1>1, <2>1, <2>5 DEF Tally
      <2>7. {kind} \in SUBSET {kind, "unsupported"} /\ kind \in OwnDirs /\ "unsupported" \notin OwnDirs
            BY DEF OwnDirs
      <2> QED BY <2>1, <2>2, <2>5, <2>6, <2>7, VerdictWritten
<1>5. CASE JudgeExact
      <2>1. /\ Judging("exact") /\ tally' = Counted({"exact"} \cup Scheduled) /\ Proceed(FALSE)
            /\ UNCHANGED <<byteSigs, behaviorSigs, reports, unwritten>>
            BY <1>5 DEF JudgeExact
      <2>2. phase = "judging" /\ UNCHANGED <<cfg, progs, observer>>
            BY <2>1, JudgingFacts DEF FindingsInv
      <2> DEFINE fields == {"exact"} \cup Scheduled
      <2>3. \A f \in DOMAIN Tally : tally'[f] = IF f \in fields THEN tally[f] + 1 ELSE tally[f]
            BY <1>1, <2>1, CountedFacts
      <2>4. \A f \in {"byteDivergent", "findings", "scheduledFailures", "syntax", "panic"} :
              f \notin fields
            BY DEF Scheduled
      <2> HIDE DEF fields
      <2>5. UNCHANGED <<tally.findings, tally.byteDivergent, tally.scheduledFailures,
                        tally.syntax, tally.panic>>
            BY <1>1, <2>3, <2>4 DEF Tally
      <2>6. Report({})
            <3>1. {} \in SUBSET {} /\ FilesIn({}) = {} /\ FilesIn({} \ {}) = {}
                  BY DEF FilesIn
            <3> QED BY <2>1, <3>1 DEF Report
      <2>7. {} \in SUBSET {"unsupported"} /\ "unsupported" \notin OwnDirs
            BY DEF OwnDirs
      <2>8. tally'.syntax + tally'.panic + tally'.scheduledFailures =
              tally.syntax + tally.panic + tally.scheduledFailures
            BY <2>5
      <2>9. \A m \in Nat : m + 0 = m
            OBVIOUS
      <2>10. tally.syntax + tally.panic + tally.scheduledFailures \in Nat
            BY <1>1 DEF Tally
      <2> QED BY <2>1, <2>2, <2>5, <2>6, <2>7, <2>8, <2>9, <2>10, VerdictWritten
<1> QED BY <1>2, <1>3, <1>4, <1>5

(* A divergence is one more of its byte signature.                         *)
LEMMA DivergenceWritten ==
  ASSUME FindingsInv, FuzzInv', ObserveDivergent
  PROVE  FindingsInv'
<1> DEFINE fields == {"byteDivergent"} \cup Scheduled
           sig == Structure[Case.njavac]
<1>1. /\ Judging("divergent") /\ tally' = Counted(fields) /\ byteSigs' = WithSig(byteSigs, sig)
      /\ phase' = "observing" /\ UNCHANGED <<n, k, behaviorSigs, reports, unwritten>>
      BY DEF ObserveDivergent
<1>2. /\ ReportsOK /\ SigsOK(byteSigs) /\ SigsOK(behaviorSigs)
      /\ ExamplesKept /\ EachWritten /\ SumsAgree
      BY DEF FindingsInv, FindingsKept
<1>3. tally \in [DOMAIN Tally -> Nat] /\ phase = "judging" /\ UNCHANGED exit
      BY <1>1, JudgingFacts DEF FindingsInv
<1>4. \A f \in DOMAIN Tally : tally'[f] = IF f \in fields THEN tally[f] + 1 ELSE tally[f]
      BY <1>1, <1>3, CountedFacts
<1>5. "byteDivergent" \in fields
      /\ \A f \in {"findings", "scheduledFailures", "syntax", "panic"} : f \notin fields
      BY DEF Scheduled
<1> HIDE DEF fields, sig
<1>6. /\ tally'.byteDivergent = tally.byteDivergent + 1
      /\ UNCHANGED <<tally.findings, tally.scheduledFailures, tally.syntax, tally.panic>>
      BY <1>4, <1>5 DEF Tally
<1>7. Settled' = Settled
      BY <1>1, <1>3 DEF Settled, Undecided
<1>8. ReportsOK' /\ ExamplesKept' /\ EachWritten' /\ SigsOK(behaviorSigs)'
      BY <1>1, <1>2, <1>3, <1>6, <1>7 DEF ReportsOK, ExamplesKept, EachWritten, OwnFiles, Attempts,
                                          SigsOK
<1>9. SigsOK(byteSigs)' /\ SumOfCounts(byteSigs)' = SumOfCounts(byteSigs) + 1
      <2>1. SigsOK(WithSig(byteSigs, sig))
            /\ SumOfCounts(WithSig(byteSigs, sig)) = SumOfCounts(byteSigs) + 1
            BY <1>2, SigGrows
      <2> QED BY <1>1, <2>1 DEF SigsOK, SumOfCounts, Counts
<1>10. SumsAgree'
      BY <1>1, <1>2, <1>6, <1>9 DEF SumsAgree, SumOfCounts, Counts
<1> QED BY <1>8, <1>9, <1>10 DEF FindingsInv, FindingsKept

(* The verdicts on an observation: a finding is one more of its behavior   *)
(* signature, and the first of it is written down, or else the run panics. *)
LEMMA ObservationWritten ==
  ASSUME FindingsInv, FuzzInv', JudgeMatch \/ JudgeBehavior \/ LoseBehavior
  PROVE  FindingsInv'
<1>1. /\ ReportsOK /\ SigsOK(byteSigs) /\ SigsOK(behaviorSigs)
      /\ ExamplesKept /\ EachWritten /\ SumsAgree /\ TypesOK /\ PlaceOK
      BY DEF FindingsInv, FindingsKept, FuzzInv
<1>2. tally \in [DOMAIN Tally -> Nat]
      BY <1>1 DEF TypesOK
<1>3. CASE JudgeMatch
      <2>1. /\ Observing(TRUE) /\ tally' = Counted({"behaviorMatch"}) /\ Proceed(FALSE)
            /\ UNCHANGED <<behaviorSigs, reports, unwritten, exit>>
            BY <1>3 DEF JudgeMatch
      <2>2. phase = "observing" /\ UNCHANGED <<cfg, progs, observer, byteSigs>>
            BY <2>1 DEF Observing
      <2>3. \A f \in DOMAIN Tally :
              tally'[f] = IF f \in {"behaviorMatch"} THEN tally[f] + 1 ELSE tally[f]
            BY <1>2, <2>1, CountedFacts
      <2>4. UNCHANGED <<tally.findings, tally.byteDivergent, tally.scheduledFailures,
                        tally.syntax, tally.panic>>
            BY <2>3 DEF Tally
      <2>5. Settled = n + k - 1 /\ Settled' = n + k /\ n \in Nat /\ k \in Nat
            <3>1. Settled = n + k - 1 /\ Settled' = n + k
                  BY <1>1, <2>1, <2>2, ProceedFacts
            <3>2. n \in Nat /\ k \in Nat
                  BY <1>1, RunAssumption DEF TypesOK
            <3> QED BY <3>1, <3>2
      <2>6. ReportsOK'
            BY <1>1, <2>1, <2>5 DEF ReportsOK, Attempts
      <2>7. ExamplesKept' /\ EachWritten' /\ SigsOK(behaviorSigs)' /\ SigsOK(byteSigs)'
            BY <1>1, <2>1, <2>2, <2>4 DEF ExamplesKept, EachWritten, OwnFiles, Attempts, SigsOK
      <2>8. SumsAgree'
            BY <1>1, <2>1, <2>2, <2>4 DEF SumsAgree, SumOfCounts, Counts
      <2> QED BY <2>6, <2>7, <2>8 DEF FindingsInv, FindingsKept
<1>4. CASE JudgeBehavior \/ LoseBehavior
      <2> DEFINE sig == BehaviorSig
                 more == WithSig(behaviorSigs, sig)
                 dirs == IF sig \in DOMAIN behaviorSigs THEN {} ELSE {"behavior"}
      <2>1. Observing(FALSE) /\ tally' = Counted({"findings"}) /\ behaviorSigs' = more
            BY <1>4 DEF JudgeBehavior, LoseBehavior, CountBehavior
      <2>2. /\ phase = "observing" /\ UNCHANGED <<cfg, progs, observer, byteSigs>>
            /\ exit # Panicked
            BY <1>1, <2>1 DEF Observing, TypesOK, Running, Panicked
      <2>3. \A f \in DOMAIN Tally :
              tally'[f] = IF f \in {"findings"} THEN tally[f] + 1 ELSE tally[f]
            BY <1>2, <2>1, CountedFacts
      <2>4. /\ UNCHANGED <<tally.byteDivergent, tally.scheduledFailures, tally.syntax, tally.panic>>
            /\ tally'.findings = tally.findings + 1
            BY <2>3 DEF Tally
      <2>5. /\ Settled' = n + k /\ Attempts' = Attempts \cup FilesIn(dirs)
            /\ reports \subseteq reports'
            /\ sig \notin DOMAIN behaviorSigs =>
                 \/ <<"behavior", Case.name>> \in reports'
                 \/ <<"behavior", Case.name>> \in unwritten' /\ exit' = Panicked
            <3>1. CASE JudgeBehavior
                  <4>1. reports' = reports \cup FilesIn(dirs) /\ unwritten' = unwritten /\ Proceed(TRUE)
                        BY <3>1 DEF JudgeBehavior, NewBehavior
                  <4>2. "behavior" \in dirs => <<"behavior", Case.name>> \in FilesIn(dirs)
                        BY DEF FilesIn
                  <4> QED BY <1>1, <2>2, <4>1, <4>2, ProceedFacts DEF Attempts
            <3>2. CASE LoseBehavior
                  <4>1. /\ sig \notin DOMAIN behaviorSigs /\ dirs = {"behavior"} /\ Panic
                        /\ unwritten' = unwritten \cup FilesIn(dirs) /\ UNCHANGED <<n, k, reports>>
                        BY <3>2 DEF LoseBehavior, NewBehavior
                  <4>2. "behavior" \in dirs => <<"behavior", Case.name>> \in FilesIn(dirs)
                        BY DEF FilesIn
                  <4> HIDE DEF sig, dirs
                  <4>3. exit' = Panicked
                        BY <4>1 DEF Panic
                  <4> QED BY <1>1, <2>2, <4>1, <4>2, <4>3, PanicFacts DEF Attempts
            <3> QED BY <1>4, <3>1, <3>2
      <2>6. /\ dirs \in SUBSET {"behavior", "unsupported"}
            /\ "behavior" \notin OwnDirs /\ "unsupported" \notin OwnDirs
            BY DEF OwnDirs
      <2> HIDE DEF sig, dirs
      <2>7. /\ IsFiniteSet(Attempts') /\ \A r \in Attempts' : r[2] \in 1..n + k
            /\ Cardinality(OwnFiles) \in Nat
            /\ Cardinality(OwnFiles') = Cardinality(OwnFiles) + 0
            BY <1>1, <2>2, <2>5, <2>6, ReportFacts
      <2>8. ReportsOK'
            BY <2>5, <2>7 DEF ReportsOK
      <2>9. /\ SigsOK(more) /\ SumOfCounts(more) = SumOfCounts(behaviorSigs) + 1
            /\ DOMAIN more = DOMAIN behaviorSigs \cup {sig}
            /\ \A s \in DOMAIN behaviorSigs : more[s].example = behaviorSigs[s].example
            /\ sig \notin DOMAIN behaviorSigs => more[sig].example = Case.name
            BY <1>1, SigGrows
      <2> HIDE DEF more
      <2>10. ExamplesKept'
            BY <1>1, <2>1, <2>2, <2>5, <2>9 DEF ExamplesKept
      <2>11. EachWritten'
            BY <1>1, <2>4, <2>7 DEF EachWritten
      <2>12. SigsOK(behaviorSigs)' /\ SigsOK(byteSigs)'
            BY <1>1, <2>1, <2>2, <2>9 DEF SigsOK
      <2>13. SumsAgree'
            BY <1>1, <2>1, <2>2, <2>4, <2>9 DEF SumsAgree, SumOfCounts, Counts
      <2> QED BY <2>8, <2>10, <2>11, <2>12, <2>13 DEF FindingsInv, FindingsKept
<1> QED BY <1>3, <1>4

(* Every step keeps what is written down in order.                         *)
LEMMA StepWritten ==
  ASSUME FindingsInv, [Next]_vars
  PROVE  FindingsInv'
<1>1. FuzzInv' /\ TypesOK /\ PlaceOK
      BY StepKeeps DEF FindingsInv, FuzzInv
<1> DEFINE Quiet == UNCHANGED <<reports, unwritten, byteSigs, behaviorSigs, tally>>
                      /\ (exit = Panicked => exit' = Panicked)
<1>2. CASE Generate
      BY <1>1, <1>2, NothingWritten DEF Generate, Settled, Undecided
<1>3. CASE TakeClasses
      <2>1. /\ phase = "awaiting" /\ Quiet /\ n' = n /\ observer' = observer
            /\ \/ phase' = "judging" /\ k' = 1
               \/ phase' = "over" /\ k' = k
            BY <1>3 DEF TakeClasses, Panic
      <2>2. k = 0 /\ n \in Nat /\ observer = "up"
            BY <1>1, <2>1, RunAssumption DEF TypesOK, PlaceOK
      <2>3. Settled' = Settled
            BY <2>1, <2>2 DEF Settled, Undecided
      <2> QED BY <1>1, <2>1, <2>3, NothingWritten
<1>4. CASE LoseWorker \/ LoseObserver
      <2>1. Quiet
            BY <1>4 DEF LoseWorker, LoseObserver, Panic
      <2>2. Settled' = Settled
            BY <1>4, LoseKeeps DEF FindingsInv
      <2> QED BY <1>1, <2>1, <2>2, NothingWritten
<1>5. CASE JudgeInvalid \/ JudgeUnsupported \/ JudgeCompilerFinding \/ JudgeExact
      BY <1>1, <1>5, VerdictsWritten
<1>6. CASE ObserveDivergent
      BY <1>1, <1>6, DivergenceWritten
<1>7. CASE JudgeMatch \/ JudgeBehavior \/ LoseBehavior
      BY <1>1, <1>7, ObservationWritten
<1>8. CASE FinishAndExit \/ Summarize
      <2>1. /\ phase \in {"stopping", "batching"} /\ phase' = "over"
            /\ UNCHANGED <<n, k, observer, reports, unwritten, byteSigs, behaviorSigs, tally>>
            BY <1>8 DEF FinishAndExit, Summarize, ExitWith
      <2>2. Quiet
            BY <1>1, <2>1 DEF TypesOK, Running, Panicked
      <2>3. Settled' = Settled
            BY <2>1 DEF Settled, Undecided
      <2> QED BY <1>1, <2>3, <2>2, NothingWritten
<1>9. CASE AnswerPair \/ Worker \/ UNCHANGED vars
      <2>1. UNCHANGED runVars
            BY <1>9 DEF AnswerPair, Worker, vars
      <2>2. Quiet /\ UNCHANGED <<phase, n, k, observer>>
            BY <2>1 DEF runVars
      <2>3. Settled' = Settled
            BY <2>2 DEF Settled, Undecided
      <2> QED BY <1>1, <2>2, <2>3, NothingWritten
<1> QED BY <1>2, <1>3, <1>4, <1>5, <1>6, <1>7, <1>8, <1>9 DEF Next, Driver

(* What is counted as a finding is lost on disk only where the disk refuses *)
(* it, and the run panics where that is the example of a behavior; the     *)
(* signatures add up to the tallies (report_finding,                       *)
(* report_compiler_finding, print_sig_breakdown).                          *)
THEOREM NothingIsLost == Spec => []FindingsKept
<1>1. Init => FindingsInv
      <2> SUFFICES ASSUME Init PROVE FindingsInv
          OBVIOUS
      <2>1. /\ tally = Tally /\ byteSigs = <<>> /\ behaviorSigs = <<>> /\ Attempts = {}
            BY DEF Init, Attempts
      <2>2. DOMAIN byteSigs = {} /\ DOMAIN behaviorSigs = {} /\ OwnFiles = {}
            BY <2>1 DEF OwnFiles
      <2>3. IsFiniteSet({}) /\ Cardinality({}) = 0
            BY FS_EmptySet
      <2>4. ReportsOK /\ SigsOK(byteSigs) /\ SigsOK(behaviorSigs) /\ ExamplesKept
            BY <2>1, <2>2, <2>3 DEF ReportsOK, SigsOK, ExamplesKept
      <2>5. EachWritten
            BY <2>1, <2>2, <2>3 DEF EachWritten, Tally
      <2>6. \A c : SumOver(c, {}) = 0
            BY <2>3, SumEquation
      <2>7. SumOfCounts(byteSigs) = 0 /\ SumOfCounts(behaviorSigs) = 0
            BY <2>2, <2>6 DEF SumOfCounts, Counts, SumFunction, SumOver
      <2>8. SumsAgree
            BY <2>1, <2>7 DEF SumsAgree, Tally
      <2> QED BY <2>4, <2>5, <2>8, InitKeeps DEF FindingsInv, FindingsKept
<1>2. FindingsInv /\ [Next]_vars => FindingsInv'
      BY StepWritten
<1>3. FindingsInv => FindingsKept
      BY DEF FindingsInv
<1> QED BY <1>1, <1>2, <1>3, PTL DEF Spec

=============================================================================
