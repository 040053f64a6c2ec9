---------------------------- MODULE FiniteFolds ----------------------------
(***************************************************************************)
(* What the folds of the community modules return, by induction over the   *)
(* subsets of a finite set: FoldLeft over a sequence goes through it from  *)
(* the first element to the last, a sum over a finite set of numbers does  *)
(* not depend on the order in which they are picked, and FlattenSeq puts   *)
(* sequences in a row, where a reader of bytes finds them.                 *)
(***************************************************************************)
EXTENDS FiniteSetsExt, SequencesExt, FiniteSetTheorems, SequenceTheorems,
        WellFoundedInduction, TLAPS

(* Of a nonempty set of subsets of a finite set, one has no other below.   *)
LEMMA MinimalSet ==
  ASSUME NEW S, IsFiniteSet(S), NEW B, B \subseteq SUBSET S, B # {}
  PROVE  \E m \in B : \A t \in B : t \subseteq m => t = m
<1>1. B \subseteq FiniteSubsetsOf(S)
      BY FS_FiniteSubsetsOfFinite
<1>2. PICK m \in B : \A t \in B : ~ (<<t, m>> \in StrictSubsetOrdering(S))
      BY <1>1, FS_StrictSubsetOrderingWellFounded, WFMin
<1>3. \A t \in B : <<t, m>>[1] = t /\ <<t, m>>[2] = m /\ <<t, m>> \in (SUBSET S) \X (SUBSET S)
      OBVIOUS
<1>4. ASSUME NEW t \in B, t \subseteq m
      PROVE  t = m
      BY <1>2, <1>3, <1>4 DEF StrictSubsetOrdering
<1> QED BY <1>4

-----------------------------------------------------------------------------
(* Folds over a sequence.  FoldLeft removes the greatest index first; its  *)
(* step is given as a table from indices and results to results.           *)
IndexSet(N) == IsFiniteSet(N) /\ N \subseteq Int

(* A nonempty set of indices has a greatest one.                           *)
LEMMA GreatestIndex ==
  ASSUME NEW N, IndexSet(N), NEW s \in SUBSET N, s # {}
  PROVE  Max(s) \in s /\ Max(s) \in N /\ \A x \in s : Max(s) >= x
<1> DEFINE Has(t) == \E x \in t : \A y \in t : x >= y
           B == {t \in SUBSET N : t # {} /\ ~ Has(t)}
<1>1. B = {}
  <2>1. SUFFICES ASSUME B # {} PROVE FALSE
        OBVIOUS
  <2>2. B \subseteq SUBSET N /\ IsFiniteSet(N)
        BY DEF IndexSet
  <2>3. \E m \in B : \A t \in B : t \subseteq m => t = m
    <3> HIDE DEF B
    <3> QED BY <2>1, <2>2, MinimalSet
  <2>4. PICK m \in B : \A t \in B : t \subseteq m => t = m
        BY <2>3
  <2>5. m \in SUBSET N /\ m # {} /\ ~ Has(m)
        BY <2>4
  <2>6. PICK x \in m : TRUE
        BY <2>5
  <2>7. CASE m \ {x} = {}
    <3>1. x \in Int /\ \A y \in m : y = x
          BY <2>5, <2>6, <2>7 DEF IndexSet
    <3> QED BY <2>5, <2>6, <3>1
  <2>8. CASE m \ {x} # {}
    <3>1. m \ {x} \in SUBSET N /\ m \ {x} \subseteq m /\ m \ {x} # m
          BY <2>5, <2>6
    <3>2. Has(m \ {x})
          BY <2>4, <2>8, <3>1
    <3>3. PICK y \in m \ {x} : \A z \in m \ {x} : y >= z
          BY <3>2
    <3>4. x \in Int /\ y \in Int /\ y \in m /\ \A z \in m : z \in Int /\ (z = x \/ y >= z)
          BY <2>5, <2>6, <3>3 DEF IndexSet
    <3>5. CASE x >= y
          BY <2>5, <2>6, <3>4, <3>5
    <3>6. CASE y >= x
          BY <2>5, <3>4, <3>6
    <3> QED BY <3>4, <3>5, <3>6
  <2> QED BY <2>7, <2>8
<1>2. Has(s)
      BY <1>1
<1> QED BY <1>2 DEF Max

IsFold(g, F, base, S) ==
  g = [s \in SUBSET S |-> IF s = {} THEN base ELSE F[Max(s)][g[s \ {Max(s)}]]]

(* Two folds agree where both are defined.                                 *)
LEMMA FoldsCoincide ==
  ASSUME NEW N, IndexSet(N), NEW F, NEW base, NEW S \in SUBSET N, NEW T \in SUBSET S,
         NEW g, IsFold(g, F, base, S), NEW h, IsFold(h, F, base, T)
  PROVE  \A s \in SUBSET T : g[s] = h[s]
<1> DEFINE B == {s \in SUBSET T : g[s] # h[s]}
<1>1. SUFFICES ASSUME B # {} PROVE FALSE
      OBVIOUS
<1>2. IsFiniteSet(T) /\ T \in SUBSET N
      BY FS_Subset DEF IndexSet
<1>3. B \subseteq SUBSET T
      OBVIOUS
<1>4. \E m \in B : \A t \in B : t \subseteq m => t = m
      <2> HIDE DEF B
      <2> QED BY <1>1, <1>2, <1>3, MinimalSet
<1>5. PICK m \in B : \A t \in B : t \subseteq m => t = m
      BY <1>4
<1>6. /\ \A s \in SUBSET S : g[s] = IF s = {} THEN base ELSE F[Max(s)][g[s \ {Max(s)}]]
      /\ \A s \in SUBSET T : h[s] = IF s = {} THEN base ELSE F[Max(s)][h[s \ {Max(s)}]]
      BY DEF IsFold
<1>7. m # {} /\ m \in SUBSET T /\ m \in SUBSET S /\ g[m] # h[m]
      BY <1>5, <1>6
<1> DEFINE less == m \ {Max(m)}
<1>8. less \in SUBSET T /\ less \subseteq m /\ less # m
      BY <1>2, <1>7, GreatestIndex
<1>9. g[less] = h[less]
      BY <1>5, <1>8
<1> QED BY <1>6, <1>7, <1>9

(* The folds exist.                                                        *)
LEMMA FoldExists ==
  ASSUME NEW N, IndexSet(N), NEW F, NEW base
  PROVE  \E g : IsFold(g, F, base, N)
<1> DEFINE Fold(t) == (CHOOSE g : IsFold(g, F, base, t))[t]
           Body(t) == IF t = {} THEN base ELSE F[Max(t)][Fold(t \ {Max(t)})]
           B == {s \in SUBSET N : ~ \E g : IsFold(g, F, base, s)}
<1>1. SUFFICES ASSUME B # {} PROVE FALSE
      OBVIOUS
<1>2. B \subseteq SUBSET N /\ IsFiniteSet(N)
      BY DEF IndexSet
<1>3. \E m \in B : \A t \in B : t \subseteq m => t = m
      <2> HIDE DEF B
      <2> QED BY <1>1, <1>2, MinimalSet
<1>4. PICK m \in B : \A t \in B : t \subseteq m => t = m
      BY <1>3
<1>5. m \in SUBSET N /\ ~ \E g : IsFold(g, F, base, m)
      BY <1>4
<1>6. \A t \in SUBSET m : t # m => \E g : IsFold(g, F, base, t)
      BY <1>4, <1>5
<1>7. ASSUME NEW t \in SUBSET m, t # m
      PROVE  Fold(t) = Body(t)
      <2> DEFINE g == CHOOSE g : IsFold(g, F, base, t)
                 less == t \ {Max(t)}
                 h == CHOOSE h : IsFold(h, F, base, less)
      <2>1. IsFold(g, F, base, t)
            BY <1>6, <1>7
      <2>2. g[t] = IF t = {} THEN base ELSE F[Max(t)][g[less]]
            <3> HIDE DEF g
            <3> QED BY <2>1 DEF IsFold
      <2>3. less \in SUBSET m /\ less # m /\ less \in SUBSET t /\ t \in SUBSET N
            BY <1>5, <1>7
      <2>4. IsFold(h, F, base, less)
            <3>1. \E hh : IsFold(hh, F, base, less)
                  BY <1>6, <2>3
            <3> QED BY <3>1
      <2>5. g[less] = h[less]
            <3> HIDE DEF g, h, less
            <3> QED BY <2>1, <2>3, <2>4, FoldsCoincide
      <2> QED BY <2>2, <2>5
<1> DEFINE G == [t \in SUBSET m |-> Body(t)]
<1>8. ASSUME NEW t \in SUBSET m, t # {}
      PROVE  G[t \ {Max(t)}] = Fold(t \ {Max(t)})
      <2>1. t \in SUBSET N /\ Max(t) \in t
            BY <1>5, <1>8, GreatestIndex
      <2>2. t \ {Max(t)} \in SUBSET m /\ t \ {Max(t)} # m
            BY <2>1
      <2> HIDE DEF Fold
      <2> QED BY <1>7, <2>2
<1>9. IsFold(G, F, base, m)
      <2> HIDE DEF Fold
      <2>1. \A t \in SUBSET m : G[t] = Body(t)
            OBVIOUS
      <2>2. G = [t \in SUBSET m |-> IF t = {} THEN base ELSE F[Max(t)][G[t \ {Max(t)}]]]
            <3>1. \A t \in SUBSET m :
                    Body(t) = IF t = {} THEN base ELSE F[Max(t)][G[t \ {Max(t)}]]
                  BY <1>8
            <3> QED BY <3>1
      <2> HIDE DEF G
      <2> QED BY <2>2 DEF IsFold
<1> QED BY <1>5, <1>9

(* A table of steps within A gives results within A.                       *)
LEMMA FoldType ==
  ASSUME NEW N, IndexSet(N), NEW A, NEW F \in [N -> [A -> A]], NEW base \in A,
         NEW g, IsFold(g, F, base, N)
  PROVE  \A s \in SUBSET N : g[s] \in A
<1> DEFINE B == {s \in SUBSET N : g[s] \notin A}
<1>1. SUFFICES ASSUME B # {} PROVE FALSE
      OBVIOUS
<1>2. B \subseteq SUBSET N /\ IsFiniteSet(N)
      BY DEF IndexSet
<1>3. \E m \in B : \A t \in B : t \subseteq m => t = m
      <2> HIDE DEF B
      <2> QED BY <1>1, <1>2, MinimalSet
<1>4. PICK m \in B : \A t \in B : t \subseteq m => t = m
      BY <1>3
<1>5. m \in SUBSET N /\ g[m] \notin A
      BY <1>4
<1>6. g[m] = IF m = {} THEN base ELSE F[Max(m)][g[m \ {Max(m)}]]
      BY <1>5 DEF IsFold
<1>7. m # {} /\ Max(m) \in m /\ Max(m) \in N
      BY <1>5, <1>6, GreatestIndex
<1>8. g[m \ {Max(m)}] \in A
      <2>1. m \ {Max(m)} \in SUBSET N /\ m \ {Max(m)} \subseteq m /\ m \ {Max(m)} # m
            BY <1>5, <1>7
      <2> QED BY <1>4, <2>1
<1> QED BY <1>5, <1>6, <1>7, <1>8

(* The indices up to k, from which FoldLeft removes k.                     *)
LEMMA IndexPrefixes ==
  ASSUME NEW n \in Nat, NEW k \in 1..n
  PROVE  /\ 1..k \in SUBSET (1..n) /\ 1..k # {}
         /\ Max(1..k) = k /\ (1..k) \ {Max(1..k)} = 1..(k - 1)
<1>1. k \in 1..k /\ 1..k \in SUBSET (1..n) /\ 1..k # {} /\ IndexSet(1..n)
  <2>1. IsFiniteSet(1..n)
        BY FS_Interval
  <2>2. k \in 1..k /\ 1..k \subseteq 1..n /\ 1..n \subseteq Int
        OBVIOUS
  <2> QED BY <2>1, <2>2 DEF IndexSet
<1>2. Max(1..k) \in 1..k /\ \A x \in 1..k : Max(1..k) >= x
  <2> DEFINE s == 1..k
             N == 1..n
  <2>1. s \in SUBSET N /\ s # {} /\ IndexSet(N)
        BY <1>1
  <2> HIDE DEF s, N
  <2>2. Max(s) \in s /\ \A x \in s : Max(s) >= x
        BY <2>1, GreatestIndex
  <2> QED BY <2>2 DEF s
<1>3. Max(1..k) = k
      BY <1>2
<1> QED BY <1>1, <1>3

(* Induction up to n, with the set of the indices for which it holds.      *)
LEMMA IndexInduction ==
  ASSUME NEW n \in Nat, NEW G, 0 \in G, \A k \in 1..n : k - 1 \in G => k \in G
  PROVE  \A k \in 0..n : k \in G
<1> DEFINE N == 0..n
           bad == {k \in N : k \notin G}
           B == {0..k : k \in bad}
<1>1. SUFFICES ASSUME B # {} PROVE FALSE
      OBVIOUS
<1>2. IsFiniteSet(N) /\ B \subseteq SUBSET N
  <2>1. IsFiniteSet(N)
        BY FS_Interval
  <2>2. \A k \in N : 0..k \subseteq N
        OBVIOUS
  <2> HIDE DEF N
  <2> QED BY <2>1, <2>2
<1>3. \E m \in B : \A t \in B : t \subseteq m => t = m
      <2> HIDE DEF N, B
      <2> QED BY <1>1, <1>2, MinimalSet
<1>4. PICK k \in bad : \A j \in bad : 0..j \subseteq 0..k => 0..j = 0..k
  <2> HIDE DEF bad, N
  <2>1. PICK m \in B : \A t \in B : t \subseteq m => t = m
        BY <1>3
  <2>2. PICK k \in bad : m = 0..k
        BY <2>1
  <2>3. \A j \in bad : 0..j \in B
        OBVIOUS
  <2> QED BY <2>1, <2>2, <2>3
<1>5. k \in 1..n /\ k - 1 \notin G
      BY <1>4
<1>6. k - 1 \in bad /\ 0..(k - 1) \subseteq 0..k /\ k \in 0..k /\ k \notin 0..(k - 1)
      BY <1>5
<1> QED BY <1>4, <1>6

(* The tables of steps within A, and the folds from the left made of one.  *)
Steps(n, A) == [1..n -> [A -> A]]

IsLeftFold(g, F, base, n, A) ==
  /\ IsFold(g, F, base, 1..n)
  /\ \A s \in SUBSET (1..n) : g[s] \in A
  /\ g[{}] = base
  /\ \A k \in 1..n : g[1..k] = F[k][g[1..(k - 1)]]

(* FoldLeft is at index k one step from what it was at k - 1.              *)
LEMMA LeftFold ==
  ASSUME NEW n \in Nat, NEW A, NEW F \in Steps(n, A), NEW base \in A
  PROVE  \E g : IsLeftFold(g, F, base, n, A)
<1> DEFINE N == 1..n
<1>1. IndexSet(N)
      BY FS_Interval DEF IndexSet
<1>2. PICK g : IsFold(g, F, base, N)
  <2> HIDE DEF N
  <2> QED BY <1>1, FoldExists
<1>3. \A s \in SUBSET N : g[s] \in A
  <2>1. F \in [N -> [A -> A]]
        BY DEF Steps
  <2> HIDE DEF N
  <2> QED BY <1>1, <1>2, <2>1, FoldType
<1>4. \A s \in SUBSET N : g[s] = IF s = {} THEN base ELSE F[Max(s)][g[s \ {Max(s)}]]
      <2> HIDE DEF N
      <2> QED BY <1>2 DEF IsFold
<1>5. ASSUME NEW k \in 1..n
      PROVE  g[1..k] = F[k][g[1..(k - 1)]]
      BY <1>4, IndexPrefixes
<1>6. g[{}] = base
      BY <1>4
<1> QED BY <1>2, <1>3, <1>5, <1>6 DEF IsLeftFold

-----------------------------------------------------------------------------
(* Sums over a set. *)

(* The sum of c over S, and the sums over its subsets on which it rests.   *)
SumOver(c, S) == SumFunctionOnSet(c, S)

Picked(s) == CHOOSE x \in s : TRUE

IsSum(g, c, S) ==
  g = [s \in SUBSET S |-> IF s = {} THEN 0 ELSE c[Picked(s)] + g[s \ {Picked(s)}]]

(* The fold of the library is such a function of subsets, at S.            *)
LEMMA SumUnfolds == \A c, S : SumOver(c, S) = (CHOOSE g : IsSum(g, c, S))[S]
BY DEF SumOver, SumFunctionOnSet, FoldFunctionOnSet, MapThenFoldSet, IsSum, Picked

(* What is picked of a nonempty set is one of its elements.                *)
LEMMA PickedIn == \A s : s # {} => Picked(s) \in s
BY DEF Picked

(* Functions of sums agree where both are defined.                         *)
LEMMA SumsCoincide ==
  ASSUME NEW c, NEW S, IsFiniteSet(S), NEW T, T \subseteq S,
         NEW g, IsSum(g, c, S), NEW h, IsSum(h, c, T)
  PROVE  \A s \in SUBSET T : g[s] = h[s]
<1> DEFINE B == {s \in SUBSET T : g[s] # h[s]}
<1>1. SUFFICES ASSUME B # {} PROVE FALSE
      OBVIOUS
<1>2. IsFiniteSet(T)
      BY FS_Subset DEF IndexSet
<1>3. B \subseteq SUBSET T
      OBVIOUS
<1>4. \E m \in B : \A t \in B : t \subseteq m => t = m
      <2> HIDE DEF B
      <2> QED BY <1>1, <1>2, <1>3, MinimalSet
<1>5. PICK m \in B : \A t \in B : t \subseteq m => t = m
      BY <1>4
<1>6. /\ \A s \in SUBSET S : g[s] = IF s = {} THEN 0 ELSE c[Picked(s)] + g[s \ {Picked(s)}]
      /\ \A s \in SUBSET T : h[s] = IF s = {} THEN 0 ELSE c[Picked(s)] + h[s \ {Picked(s)}]
      BY DEF IsSum
<1>7. m # {} /\ m \in SUBSET T /\ m \in SUBSET S /\ g[m] # h[m]
      BY <1>5, <1>6
<1> DEFINE less == m \ {Picked(m)}
<1>8. less \in SUBSET T /\ less \subseteq m /\ less # m
      BY <1>7, PickedIn
<1>9. g[less] = h[less]
      BY <1>5, <1>8
<1> QED BY <1>6, <1>7, <1>9

(* The sums exist.                                                         *)
LEMMA SumExists ==
  ASSUME NEW c, NEW S, IsFiniteSet(S)
  PROVE  \E g : IsSum(g, c, S)
<1> DEFINE B == {s \in SUBSET S : ~ \E g : IsSum(g, c, s)}
<1>1. SUFFICES ASSUME B # {} PROVE FALSE
      OBVIOUS
<1>2. B \subseteq SUBSET S
      OBVIOUS
<1>3. \E m \in B : \A t \in B : t \subseteq m => t = m
      <2> HIDE DEF B
      <2> QED BY <1>1, <1>2, MinimalSet
<1>4. PICK m \in B : \A t \in B : t \subseteq m => t = m
      BY <1>3
<1>5. m \in SUBSET S /\ ~ \E g : IsSum(g, c, m)
      BY <1>4
<1>6. \A t \in SUBSET m : t # m => \E g : IsSum(g, c, t)
      BY <1>4, <1>5
<1>7. ASSUME NEW t \in SUBSET m, t # m
      PROVE  SumOver(c, t) = IF t = {} THEN 0 ELSE c[Picked(t)] + SumOver(c, t \ {Picked(t)})
      <2> DEFINE g == CHOOSE g : IsSum(g, c, t)
                 less == t \ {Picked(t)}
                 h == CHOOSE h : IsSum(h, c, less)
      <2>1. IsSum(g, c, t)
            BY <1>6, <1>7
      <2>2. SumOver(c, t) = g[t]
            BY SumUnfolds
      <2>3. g[t] = IF t = {} THEN 0 ELSE c[Picked(t)] + g[less]
            <3> HIDE DEF g
            <3> QED BY <2>1 DEF IsSum
      <2>4. less \in SUBSET m /\ less # m /\ less \subseteq t
            BY <1>7
      <2>5. IsSum(h, c, less)
            <3>1. \E hh : IsSum(hh, c, less)
                  BY <1>6, <2>4
            <3> QED BY <3>1
      <2>6. SumOver(c, less) = h[less]
            BY SumUnfolds
      <2>7. IsFiniteSet(t)
            <3>1. t \in SUBSET S
                  BY <1>5, <1>7
            <3> QED BY <3>1, FS_Subset
      <2>8. g[less] = h[less]
            <3> HIDE DEF g, h, less
            <3> QED BY <2>1, <2>4, <2>5, <2>7, SumsCoincide
      <2> QED BY <2>2, <2>3, <2>6, <2>8
<1> DEFINE G == [t \in SUBSET m |-> IF t = {} THEN 0
                                    ELSE c[Picked(t)] + SumOver(c, t \ {Picked(t)})]
<1>8. ASSUME NEW t \in SUBSET m, t # {}
      PROVE  G[t \ {Picked(t)}] = SumOver(c, t \ {Picked(t)})
      <2>1. t \ {Picked(t)} \in SUBSET m /\ t \ {Picked(t)} # m
            BY <1>8, PickedIn
      <2> QED BY <1>7, <2>1
<1>9. IsSum(G, c, m)
      BY <1>8 DEF IsSum
<1> QED BY <1>5, <1>9

(* The sum over no elements is 0, and over more it is one of them and the  *)
(* sum over the others.                                                    *)
LEMMA SumEquation ==
  ASSUME NEW c, NEW S, IsFiniteSet(S)
  PROVE  SumOver(c, S) = IF S = {} THEN 0 ELSE c[Picked(S)] + SumOver(c, S \ {Picked(S)})
<1> DEFINE less == S \ {Picked(S)}
           g == CHOOSE g : IsSum(g, c, S)
           h == CHOOSE h : IsSum(h, c, less)
<1>1. IsFiniteSet(less) /\ less \subseteq S
      BY FS_RemoveElement
<1>2. IsSum(g, c, S)
      BY SumExists
<1>3. IsSum(h, c, less)
      <2>1. \E hh : IsSum(hh, c, less)
            BY <1>1, SumExists
      <2> QED BY <2>1
<1>4. SumOver(c, S) = g[S] /\ SumOver(c, less) = h[less]
      BY SumUnfolds
<1> HIDE DEF g, h
<1>5. g[S] = IF S = {} THEN 0 ELSE c[Picked(S)] + g[less]
      BY <1>2 DEF IsSum
<1>6. g[less] = h[less]
      <2> HIDE DEF less
      <2> QED BY <1>1, <1>2, <1>3, SumsCoincide
<1> QED BY <1>4, <1>5, <1>6

(* A sum of naturals is one...                                             *)
LEMMA SumType ==
  ASSUME NEW c, NEW S, IsFiniteSet(S), \A x \in S : c[x] \in Nat
  PROVE  SumOver(c, S) \in Nat
<1> DEFINE B == {s \in SUBSET S : SumOver(c, s) \notin Nat}
<1>1. SUFFICES ASSUME B # {} PROVE FALSE
      OBVIOUS
<1>2. B \subseteq SUBSET S
      OBVIOUS
<1>3. \E m \in B : \A t \in B : t \subseteq m => t = m
      <2> HIDE DEF B
      <2> QED BY <1>1, <1>2, MinimalSet
<1>4. PICK m \in B : \A t \in B : t \subseteq m => t = m
      BY <1>3
<1>5. m \in SUBSET S /\ SumOver(c, m) \notin Nat /\ IsFiniteSet(m)
      BY <1>4, FS_Subset
<1>6. SumOver(c, m) = IF m = {} THEN 0 ELSE c[Picked(m)] + SumOver(c, m \ {Picked(m)})
      BY <1>5, SumEquation
<1>7. m # {} /\ Picked(m) \in m
      BY <1>5, <1>6, PickedIn
<1>8. SumOver(c, m \ {Picked(m)}) \in Nat
      <2>1. m \ {Picked(m)} \in SUBSET S /\ m \ {Picked(m)} \subseteq m /\ m \ {Picked(m)} # m
            BY <1>5, <1>7
      <2> QED BY <1>4, <2>1
<1>9. c[Picked(m)] \in Nat
      BY <1>5, <1>7
<1> QED BY <1>5, <1>6, <1>7, <1>8, <1>9

(* ... and of zeros zero...                                                *)
LEMMA SumOfZeros ==
  ASSUME NEW c, NEW S, IsFiniteSet(S), \A x \in S : c[x] = 0
  PROVE  SumOver(c, S) = 0
<1> DEFINE B == {s \in SUBSET S : SumOver(c, s) # 0}
<1>1. SUFFICES ASSUME B # {} PROVE FALSE
      OBVIOUS
<1>2. B \subseteq SUBSET S
      OBVIOUS
<1>3. \E m \in B : \A t \in B : t \subseteq m => t = m
      <2> HIDE DEF B
      <2> QED BY <1>1, <1>2, MinimalSet
<1>4. PICK m \in B : \A t \in B : t \subseteq m => t = m
      BY <1>3
<1>5. m \in SUBSET S /\ SumOver(c, m) # 0 /\ IsFiniteSet(m)
      BY <1>4, FS_Subset
<1>6. SumOver(c, m) = IF m = {} THEN 0 ELSE c[Picked(m)] + SumOver(c, m \ {Picked(m)})
      BY <1>5, SumEquation
<1>7. m # {} /\ Picked(m) \in m
      BY <1>5, <1>6, PickedIn
<1>8. SumOver(c, m \ {Picked(m)}) = 0
      <2>1. m \ {Picked(m)} \in SUBSET S /\ m \ {Picked(m)} \subseteq m /\ m \ {Picked(m)} # m
            BY <1>5, <1>7
      <2> QED BY <1>4, <2>1
<1>9. c[Picked(m)] = 0
      BY <1>5, <1>7
<1> QED BY <1>5, <1>6, <1>7, <1>8, <1>9

(* ... from which any element can be taken out.                            *)
LEMMA SumRemove ==
  ASSUME NEW c, NEW S, IsFiniteSet(S), \A x \in S : c[x] \in Nat, NEW y \in S
  PROVE  SumOver(c, S) = c[y] + SumOver(c, S \ {y})
<1> DEFINE B == {s \in SUBSET S : ~ \A z \in s : SumOver(c, s) = c[z] + SumOver(c, s \ {z})}
<1>1. SUFFICES ASSUME B # {} PROVE FALSE
      OBVIOUS
<1>2. B \subseteq SUBSET S
      OBVIOUS
<1>3. \E m \in B : \A t \in B : t \subseteq m => t = m
      <2> HIDE DEF B
      <2> QED BY <1>1, <1>2, MinimalSet
<1>4. PICK m \in B : \A t \in B : t \subseteq m => t = m
      BY <1>3
<1>5. m \in SUBSET S /\ IsFiniteSet(m)
      BY <1>4, FS_Subset
<1>6. PICK z \in m : SumOver(c, m) # c[z] + SumOver(c, m \ {z})
      BY <1>4
<1> DEFINE p == Picked(m)
           mp == m \ {p}
           mz == m \ {z}
           mpz == m \ {p, z}
<1>7. p \in m /\ SumOver(c, m) = c[p] + SumOver(c, mp) /\ p # z
      <2>1. m # {} /\ p \in m
            BY PickedIn
      <2>2. SumOver(c, m) = c[p] + SumOver(c, mp)
            BY <1>5, <2>1, SumEquation
      <2> QED BY <1>6, <2>1, <2>2
<1> HIDE DEF p
<1>8. /\ mp \in SUBSET S /\ mp \subseteq m /\ mp # m /\ z \in mp /\ mp \ {z} = mpz
      /\ mz \in SUBSET S /\ mz \subseteq m /\ mz # m /\ p \in mz /\ mz \ {p} = mpz
      /\ mpz \in SUBSET S
      BY <1>5, <1>7
<1>9. SumOver(c, mp) = c[z] + SumOver(c, mpz)
      <2>1. mp \notin B
            BY <1>4, <1>8
      <2> QED BY <1>8, <2>1
<1>10. SumOver(c, mz) = c[p] + SumOver(c, mpz)
      <2>1. mz \notin B
            BY <1>4, <1>8
      <2> QED BY <1>8, <2>1
<1>11. c[p] \in Nat /\ c[z] \in Nat /\ SumOver(c, mpz) \in Nat
      <2>1. IsFiniteSet(mpz) /\ \A x \in mpz : c[x] \in Nat
            BY <1>8, FS_Subset
      <2> QED BY <1>5, <1>7, <2>1, SumType
<1> QED BY <1>6, <1>7, <1>9, <1>10, <1>11

(* Only what is summed counts.                                             *)
LEMMA SumSame ==
  ASSUME NEW c, NEW d, NEW S, IsFiniteSet(S), \A x \in S : c[x] = d[x]
  PROVE  SumOver(c, S) = SumOver(d, S)
<1> DEFINE B == {s \in SUBSET S : SumOver(c, s) # SumOver(d, s)}
<1>1. SUFFICES ASSUME B # {} PROVE FALSE
      OBVIOUS
<1>2. B \subseteq SUBSET S
      OBVIOUS
<1>3. \E m \in B : \A t \in B : t \subseteq m => t = m
      <2> HIDE DEF B
      <2> QED BY <1>1, <1>2, MinimalSet
<1>4. PICK m \in B : \A t \in B : t \subseteq m => t = m
      BY <1>3
<1>5. m \in SUBSET S /\ SumOver(c, m) # SumOver(d, m) /\ IsFiniteSet(m)
      BY <1>4, FS_Subset
<1>6. /\ SumOver(c, m) = IF m = {} THEN 0 ELSE c[Picked(m)] + SumOver(c, m \ {Picked(m)})
      /\ SumOver(d, m) = IF m = {} THEN 0 ELSE d[Picked(m)] + SumOver(d, m \ {Picked(m)})
      BY <1>5, SumEquation
<1>7. m # {} /\ Picked(m) \in m
      BY <1>5, <1>6, PickedIn
<1>8. SumOver(c, m \ {Picked(m)}) = SumOver(d, m \ {Picked(m)})
      <2>1. m \ {Picked(m)} \in SUBSET S /\ m \ {Picked(m)} \subseteq m /\ m \ {Picked(m)} # m
            BY <1>5, <1>7
      <2> QED BY <1>4, <2>1
<1>9. c[Picked(m)] = d[Picked(m)]
      BY <1>5, <1>7
<1> QED BY <1>5, <1>6, <1>7, <1>8, <1>9

(* One element that is new or has grown makes the sum grow as much.        *)
LEMMA SumGrows ==
  ASSUME NEW c, NEW d, NEW S, NEW x, NEW more \in Nat, IsFiniteSet(S),
         \A y \in S : c[y] \in Nat,
         \A y \in S : y # x => d[y] = c[y],
         d[x] = more + IF x \in S THEN c[x] ELSE 0
  PROVE  SumOver(d, S \cup {x}) = SumOver(c, S) + more
<1> DEFINE T == S \cup {x}
           R == S \ {x}
<1>1. IsFiniteSet(T) /\ IsFiniteSet(R) /\ x \in T /\ T \ {x} = R
      BY FS_AddElement, FS_RemoveElement
<1>2. (\A y \in T : d[y] \in Nat) /\ \A y \in R : c[y] = d[y]
      OBVIOUS
<1>3. SumOver(d, T) = d[x] + SumOver(d, R)
      <2> HIDE DEF T
      <2> QED BY <1>1, <1>2, SumRemove
<1>4. SumOver(d, R) = SumOver(c, R)
      <2> HIDE DEF R
      <2> QED BY <1>1, <1>2, SumSame
<1>5. SumOver(c, R) \in Nat
      BY <1>1, SumType
<1>6. SumOver(c, S) = (IF x \in S THEN c[x] ELSE 0) + SumOver(c, R)
      <2>1. CASE x \in S
            BY <2>1, SumRemove
      <2>2. CASE x \notin S
            <3>1. R = S
                  BY <2>2
            <3> QED BY <1>5, <2>2, <3>1
      <2> QED BY <2>1, <2>2
<1>7. (IF x \in S THEN c[x] ELSE 0) \in Nat
      OBVIOUS
<1> QED BY <1>3, <1>4, <1>5, <1>6, <1>7

(* No element is more than the sum.                                        *)
LEMMA SumBounds ==
  ASSUME NEW c, NEW S, IsFiniteSet(S), \A y \in S : c[y] \in Nat, NEW x \in S
  PROVE  c[x] <= SumOver(c, S)
<1>1. SumOver(c, S) = c[x] + SumOver(c, S \ {x})
      BY SumRemove
<1>2. SumOver(c, S \ {x}) \in Nat
      BY SumType, FS_RemoveElement
<1> QED BY <1>1, <1>2

-----------------------------------------------------------------------------
(* Sequences in a row. *)

(* Reduction modulo a variable modulus. *)
LEMMA Modulo ==
  ASSUME NEW x \in Nat, NEW m \in Nat \ {0}
  PROVE  x % m \in 0..(m - 1) /\ (x < m => x % m = x) /\ x % m <= x
OBVIOUS

(* Appending to a sequence adds one element to its set. *)
LEMMA AppendSet ==
  ASSUME NEW S, NEW s \in Seq(S), NEW x \in S
  PROVE  /\ Append(s, x) \in Seq(S)
         /\ Len(Append(s, x)) = Len(s) + 1
         /\ \A k \in 1..Len(s) : Append(s, x)[k] = s[k]
         /\ Append(s, x)[Len(s) + 1] = x
         /\ ToSet(Append(s, x)) = ToSet(s) \cup {x}
BY DEF ToSet

(* Taking the head off a sequence removes at most that element. *)
LEMMA TailSet ==
  ASSUME NEW S, NEW s \in Seq(S), s # <<>>
  PROVE  /\ Head(s) \in S /\ Tail(s) \in Seq(S)
         /\ ToSet(s) = {Head(s)} \cup ToSet(Tail(s))
<1>1. /\ Len(s) \in Nat \ {0} /\ Head(s) = s[1] /\ s[1] \in S
      /\ Tail(s) \in Seq(S) /\ Len(Tail(s)) = Len(s) - 1
      /\ \A k \in 1..(Len(s) - 1) : Tail(s)[k] = s[k + 1]
  OBVIOUS
<1>2. ToSet(s) \subseteq {Head(s)} \cup ToSet(Tail(s))
  <2> SUFFICES ASSUME NEW k \in 1..Len(s), k # 1
               PROVE  s[k] \in ToSet(Tail(s))
    BY <1>1 DEF ToSet
  <2>1. k - 1 \in 1..Len(Tail(s)) /\ Tail(s)[k - 1] = s[k]
    BY <1>1
  <2>2. DOMAIN Tail(s) = 1..Len(Tail(s))
    BY <1>1
  <2> QED
    BY <2>1, <2>2, Zenon DEF ToSet
<1>3. ToSet(Tail(s)) \subseteq ToSet(s)
  BY <1>1 DEF ToSet
<1>4. Head(s) \in ToSet(s)
  BY <1>1 DEF ToSet
<1> QED
  BY <1>1, <1>2, <1>3, <1>4

(* Flattening one or two sequences is the first, or the two in a row.      *)
LEMMA FlattenShort ==
  ASSUME NEW S, NEW ss \in Seq(Seq(S))
  PROVE  /\ Len(ss) = 0 => FlattenSeq(ss) = <<>>
         /\ Len(ss) = 1 => FlattenSeq(ss) = ss[1]
         /\ Len(ss) = 2 => FlattenSeq(ss) = ss[1] \o ss[2]
<1> DEFINE IsFlat(f) == f = [i \in 1..Len(ss) |-> IF i = 1 THEN ss[i] ELSE f[i - 1] \o ss[i]]
           F == CHOOSE f : IsFlat(f)
<1>1. FlattenSeq(ss) = IF Len(ss) = 0 THEN ss ELSE F[Len(ss)]
  BY DEF FlattenSeq
<1>2. CASE Len(ss) = 0
  BY <1>1, <1>2
<1>3. CASE Len(ss) = 1
  <2> DEFINE g == [i \in 1..1 |-> ss[1]]
  <2>1. IsFlat(g)
    <3>1. \A i \in 1..1 : i = 1
      OBVIOUS
    <3> QED
      BY <1>3, <3>1
  <2>2. IsFlat(F)
    <3> HIDE DEF IsFlat, g
    <3> QED
      BY <2>1
  <2>3. F[1] = ss[1]
    <3> HIDE DEF F
    <3> QED
      BY <1>3, <2>2
  <2> HIDE DEF F, IsFlat, g
  <2> QED
    BY <1>1, <1>3, <2>3
<1>4. CASE Len(ss) = 2
  <2> DEFINE g == [i \in 1..2 |-> IF i = 1 THEN ss[1] ELSE ss[1] \o ss[2]]
  <2>1. IsFlat(g)
    <3>1. \A i \in 1..2 : i = 1 \/ i = 2
      OBVIOUS
    <3>2. g[1] = ss[1] /\ g[2 - 1] = ss[1]
      OBVIOUS
    <3>3. \A i \in 1..2 : g[i] = IF i = 1 THEN ss[i] ELSE g[i - 1] \o ss[i]
      BY <3>1, <3>2
    <3>4. g = [i \in 1..2 |-> g[i]]
      OBVIOUS
    <3> HIDE DEF g
    <3> QED
      BY <1>4, <3>3, <3>4
  <2>2. IsFlat(F)
    <3> HIDE DEF IsFlat, g
    <3> QED
      BY <2>1
  <2>3. F[2] = ss[1] \o ss[2]
    <3> HIDE DEF F
    <3>1. F[1] = ss[1] /\ 2 - 1 = 1
      BY <1>4, <2>2
    <3> QED
      BY <1>4, <2>2, <3>1
  <2> HIDE DEF F, IsFlat, g
  <2> QED
    BY <1>1, <1>4, <2>3
<1> HIDE DEF F, IsFlat
<1> QED
  BY <1>2, <1>3, <1>4, Zenon

(* The elements of three sequences in a row. *)
LEMMA InARow ==
  ASSUME NEW S, NEW a \in Seq(S), NEW b \in Seq(S), NEW c \in Seq(S)
  PROVE  /\ a \o b \o c \in Seq(S)
         /\ Len(a \o b \o c) = Len(a) + Len(b) + Len(c)
         /\ \A i \in 1..Len(a) : (a \o b \o c)[i] = a[i]
         /\ \A i \in 1..Len(b) : (a \o b \o c)[Len(a) + i] = b[i]
         /\ \A i \in 1..Len(c) : (a \o b \o c)[Len(a) + Len(b) + i] = c[i]
OBVIOUS

(* The end of a sequence, from one of its elements on. *)
LEMMA EndOf ==
  ASSUME NEW S, NEW s \in Seq(S), NEW l \in 1..Len(s)
  PROVE  /\ SubSeq(s, l, Len(s)) \in Seq(S)
         /\ Len(SubSeq(s, l, Len(s))) = Len(s) - l + 1
         /\ \A i \in 1..(Len(s) - l + 1) : SubSeq(s, l, Len(s))[i] = s[l + i - 1]
<1>1. l \in Int /\ Len(s) \in Int /\ l <= Len(s)
  OBVIOUS
<1>2. \A i \in l..Len(s) : s[i] \in S
  OBVIOUS
<1> QED
  BY <1>1, <1>2, SubSeqProperties

(* Sequences of one and two elements, taken apart and put together. *)
LEMMA ShortRow ==
  ASSUME NEW a, NEW b
  PROVE  /\ Head(<<a>>) = a /\ Tail(<<a>>) = <<>> /\ <<a>> # <<>>
         /\ Head(<<a, b>>) = a /\ Tail(<<a, b>>) = <<b>> /\ <<a, b>> # <<>>
         /\ Append(<<>>, a) = <<a>> /\ Append(<<a>>, b) = <<a, b>>
         /\ ToSet(<<>>) = {} /\ ToSet(<<a>>) = {a} /\ ToSet(<<a, b>>) = {a, b}
<1>1. ToSet(<<>>) = {} /\ ToSet(<<a>>) = {a} /\ ToSet(<<a, b>>) = {a, b}
  BY DEF ToSet
<1>2. Head(<<a>>) = a /\ Tail(<<a>>) = <<>> /\ <<a>> # <<>>
  OBVIOUS
<1>3. Head(<<a, b>>) = a /\ <<a, b>> # <<>>
  OBVIOUS
<1>4. Tail(<<a, b>>) = <<b>>
  OBVIOUS
<1>5. Append(<<>>, a) = <<a>>
  OBVIOUS
<1>6. Append(<<a>>, b) = <<a, b>>
  <2> DEFINE S == {a, b}
             x == Append(<<a>>, b)
             y == <<a, b>>
  <2>1. <<a>> \in Seq(S) /\ Len(<<a>>) = 1 /\ <<a>>[1] = a /\ b \in S
    OBVIOUS
  <2>2. x \in Seq(S) /\ Len(x) = 2 /\ x[1] = a /\ x[2] = b
    <3> HIDE DEF S
    <3>1. /\ x \in Seq(S) /\ Len(x) = Len(<<a>>) + 1
          /\ \A k \in 1..Len(<<a>>) : x[k] = <<a>>[k]
          /\ x[Len(<<a>>) + 1] = b
      BY <2>1, AppendSet
    <3> QED
      BY <2>1, <3>1
  <2>3. y \in Seq(S) /\ Len(y) = 2 /\ y[1] = a /\ y[2] = b
    OBVIOUS
  <2>4. \A k \in 1..2 : k = 1 \/ k = 2
    OBVIOUS
  <2> HIDE DEF S, x, y
  <2>5. x = y
    BY <2>2, <2>3, <2>4
  <2> QED
    BY <2>5 DEF x, y
<1> QED
  BY <1>1, <1>2, <1>3, <1>4, <1>5, <1>6

(* A recursion over 1..n is a sequence of steps. *)
Advances(f, go, base, n, A) ==
  /\ f \in [0..n -> A]
  /\ f[0] = base
  /\ \A k \in 1..n : f[k] = go[k][f[k - 1]]

(* There is such a sequence for every table of steps. *)
LEMMA StepsExist ==
  ASSUME NEW n \in Nat, NEW A, NEW go \in Steps(n, A), NEW base \in A
  PROVE  \E f : Advances(f, go, base, n, A)
<1>1. PICK g : IsLeftFold(g, go, base, n, A)
  BY LeftFold
<1> DEFINE f == [k \in 0..n |-> g[1..k]]
<1>2. 1..0 = {}
  OBVIOUS
<1>3. \A k \in 0..n : 1..k \in SUBSET (1..n)
  OBVIOUS
<1>4. f \in [0..n -> A]
  BY <1>1, <1>3 DEF IsLeftFold
<1>5. f[0] = base
  BY <1>1, <1>2 DEF IsLeftFold
<1>6. ASSUME NEW k \in 1..n
      PROVE  f[k] = go[k][f[k - 1]]
  <2>1. k \in 0..n /\ k - 1 \in 0..n
    OBVIOUS
  <2> QED
    BY <1>1, <2>1 DEF IsLeftFold
<1> HIDE DEF f
<1> QED
  BY <1>4, <1>5, <1>6 DEF Advances

(* Flattening puts the sequences after one another. *)
Builds(f, S, ss) ==
  /\ f \in [0..Len(ss) -> Seq(S)]
  /\ f[0] = <<>>
  /\ \A k \in 1..Len(ss) : f[k] = f[k - 1] \o ss[k]

(* FlattenSeq is the last of them. *)
LEMMA FlattenBuilds ==
  ASSUME NEW S, NEW ss \in Seq(Seq(S))
  PROVE  \E f : Builds(f, S, ss) /\ FlattenSeq(ss) = f[Len(ss)]
<1> DEFINE n == Len(ss)
           A == Seq(S)
           go == [k \in 1..n |-> [x \in A |-> x \o ss[k]]]
           IsFlat(h) == h = [i \in 1..n |-> IF i = 1 THEN ss[i] ELSE h[i - 1] \o ss[i]]
           F == CHOOSE h : IsFlat(h)
<1>0. n \in Nat /\ DOMAIN ss = 1..n /\ \A k \in 1..n : ss[k] \in A
  OBVIOUS
<1>1. FlattenSeq(ss) = IF n = 0 THEN ss ELSE F[n]
  BY DEF FlattenSeq
<1>2. \A x \in A, k \in 1..n : x \o ss[k] \in A
  BY <1>0
<1>3. go \in Steps(n, A)
  <2> HIDE DEF A
  <2> QED
    BY <1>2 DEF Steps
<1> DEFINE none == <<>>
<1>4. none \in A
  OBVIOUS
<1>5. PICK f : Advances(f, go, <<>>, n, A)
  <2>1. n \in Nat
    BY <1>0
  <2> HIDE DEF A, n, go, none
  <2>2. \E f : Advances(f, go, none, n, A)
    BY <2>1, <1>3, <1>4, StepsExist
  <2> QED
    BY <2>2 DEF none
<1>6. Builds(f, S, ss)
  <2>1. ASSUME NEW k \in 1..n
        PROVE  f[k] = f[k - 1] \o ss[k]
    <3>1. k - 1 \in 0..n
      OBVIOUS
    <3>2. f[k - 1] \in A
      BY <1>5, <3>1 DEF Advances
    <3> QED
      BY <1>5, <3>2 DEF Advances
  <2> QED
    BY <1>5, <2>1 DEF Advances, Builds
<1>7. CASE n = 0
  <2>1. ss = <<>> /\ f[n] = <<>>
    BY <1>5, <1>7 DEF Advances
  <2> QED
    BY <1>1, <1>6, <1>7, <2>1
<1>8. CASE n # 0
  <2> DEFINE g == [i \in 1..n |-> f[i]]
  <2>1. ASSUME NEW i \in 1..n
        PROVE  f[i] = IF i = 1 THEN ss[i] ELSE f[i - 1] \o ss[i]
    <3>1. f[i] = f[i - 1] \o ss[i]
      BY <1>6 DEF Builds
    <3>2. CASE i = 1
      <4>1. f[0] \o ss[1] = ss[1]
        BY <1>0, <1>5, <3>2 DEF Advances
      <4>2. i - 1 = 0
        BY <3>2
      <4>3. f[i] = ss[1]
        BY <3>1, <3>2, <4>1, <4>2, Zenon
      <4> QED
        BY <3>2, <4>3, Zenon
    <3>3. CASE i # 1
      BY <3>1, <3>3
    <3> QED
      BY <3>2, <3>3
  <2>2. \A i \in 1..n : i # 1 => g[i - 1] = f[i - 1]
    OBVIOUS
  <2>3. IsFlat(g)
    BY <2>1, <2>2
  <2>4. IsFlat(F)
    <3> HIDE DEF IsFlat, g
    <3> QED
      BY <2>3
  <2>5. ASSUME NEW i \in 1..n
        PROVE  F[i] = IF i = 1 THEN ss[i] ELSE F[i - 1] \o ss[i]
    <3> HIDE DEF F
    <3> QED
      BY <2>4
  <2> DEFINE G == {k \in 0..n : k = 0 \/ F[k] = f[k]}
  <2>6. \A k \in 0..n : k \in G
    <3> HIDE DEF F, IsFlat
    <3>1. 0 \in G
      OBVIOUS
    <3>2. ASSUME NEW k \in 1..n, k - 1 \in G
          PROVE  k \in G
      BY <2>1, <2>5, <3>2
    <3> HIDE DEF G, n
    <3> QED
      BY <1>0, <3>1, <3>2, IndexInduction
  <2>7. F[n] = f[n]
    <3>1. n \in 0..n
      BY <1>0
    <3> HIDE DEF F, n
    <3> QED
      BY <1>8, <2>6, <3>1
  <2> QED
    BY <1>1, <1>6, <1>8, <2>7
<1> QED
  BY <1>7, <1>8

(* Where each of the sequences starts in the flat one. *)
Piled(starts, flat, ss) ==
  /\ starts \in [1..(Len(ss) + 1) -> Nat]
  /\ starts[1] = 0
  /\ \A k \in 1..Len(ss) : starts[k + 1] = starts[k] + Len(ss[k])
  /\ Len(flat) = starts[Len(ss) + 1]
  /\ \A k \in 1..Len(ss) : \A j \in 1..Len(ss[k]) :
       starts[k] + j \in 1..Len(flat) /\ flat[starts[k] + j] = ss[k][j]

(* The flat sequence is made of the others, in a row. *)
LEMMA FlattenPiled ==
  ASSUME NEW S, NEW ss \in Seq(Seq(S))
  PROVE  FlattenSeq(ss) \in Seq(S) /\ \E starts : Piled(starts, FlattenSeq(ss), ss)
<1> DEFINE n == Len(ss)
<1>1. PICK f : Builds(f, S, ss) /\ FlattenSeq(ss) = f[n]
  BY FlattenBuilds
<1>2. n \in Nat /\ \A k \in 1..n : ss[k] \in Seq(S)
  OBVIOUS
<1>3. \A k \in 0..n : f[k] \in Seq(S) /\ Len(f[k]) \in Nat
  BY <1>1, SMTT(30) DEF Builds
<1>4. ASSUME NEW k \in 1..n
      PROVE  /\ Len(f[k]) = Len(f[k - 1]) + Len(ss[k])
             /\ \A j \in 1..Len(f[k - 1]) : f[k][j] = f[k - 1][j]
             /\ \A j \in 1..Len(ss[k]) : f[k][Len(f[k - 1]) + j] = ss[k][j]
  <2> DEFINE s == f[k - 1]
             t == ss[k]
  <2>1. f[k] = s \o t
    BY <1>1 DEF Builds
  <2>2. k - 1 \in 0..n
    OBVIOUS
  <2>3. s \in Seq(S) /\ t \in Seq(S)
    BY <1>2, <1>3, <2>2
  <2> HIDE DEF s, t
  <2>4. /\ Len(s \o t) = Len(s) + Len(t)
        /\ \A j \in 1..Len(s) : (s \o t)[j] = s[j]
        /\ \A j \in 1..Len(t) : (s \o t)[Len(s) + j] = t[j]
    BY <2>3
  <2> QED
    BY <2>1, <2>4 DEF s, t
<1> DEFINE At(m) == \A k \in 1..m : \A j \in 1..Len(ss[k]) :
                      /\ Len(f[k - 1]) + j \in 1..Len(f[m])
                      /\ f[m][Len(f[k - 1]) + j] = ss[k][j]
           G == {m \in 0..n : At(m)}
<1>5. \A m \in 0..n : m \in G
  <2>1. 0 \in G
    BY <1>2
  <2>2. ASSUME NEW m \in 1..n, m - 1 \in G
        PROVE  m \in G
    <3>0. m \in 0..n
      BY <1>2
    <3>1. SUFFICES ASSUME NEW k \in 1..m, NEW j \in 1..Len(ss[k])
                   PROVE  /\ Len(f[k - 1]) + j \in 1..Len(f[m])
                          /\ f[m][Len(f[k - 1]) + j] = ss[k][j]
      BY <3>0
    <3>2. /\ Len(f[m]) = Len(f[m - 1]) + Len(ss[m])
          /\ \A i \in 1..Len(f[m - 1]) : f[m][i] = f[m - 1][i]
          /\ \A i \in 1..Len(ss[m]) : f[m][Len(f[m - 1]) + i] = ss[m][i]
      BY <1>4
    <3>6. Len(f[m]) = Len(f[m - 1]) + Len(ss[m])
      BY <3>2
    <3>3. /\ k \in 1..n /\ k - 1 \in 0..n /\ m - 1 \in 0..n
          /\ Len(f[k - 1]) \in Nat /\ Len(f[m - 1]) \in Nat
          /\ Len(ss[k]) \in Nat /\ Len(ss[m]) \in Nat /\ j \in Nat /\ j >= 1 /\ j <= Len(ss[k])
          /\ Len(f[m]) \in Nat
      BY <1>2, <1>3, <3>0, SMTT(30)
    <3> DEFINE old == Len(f[m - 1])
               at == Len(f[k - 1])
               new == Len(f[m])
    <3>7. /\ old \in Nat /\ at \in Nat /\ new \in Nat /\ new = old + Len(ss[m])
          /\ Len(ss[m]) \in Nat /\ j \in Nat \ {0} /\ j <= Len(ss[k])
      <4>1. old \in Nat
        BY <3>3
      <4>2. at \in Nat
        BY <3>3
      <4>3. new \in Nat
        BY <3>3
      <4>4. new = old + Len(ss[m])
        BY <3>6
      <4>5. Len(ss[m]) \in Nat
        BY <3>3
      <4>6. j \in Nat \ {0}
        BY <3>3
      <4>7. j <= Len(ss[k])
        BY <3>3
      <4> QED
        BY <4>1, <4>2, <4>3, <4>4, <4>5, <4>6, <4>7
    <3>4. CASE k = m
      <4>1. at = old /\ j <= Len(ss[m])
        BY <3>4, <3>7
      <4> HIDE DEF old, at, new
      <4>2. at + j \in 1..new
        BY <3>7, <4>1
      <4> QED
        BY <3>2, <3>4, <4>2 DEF old, at, new
    <3>5. CASE k # m
      <4>1. k \in 1..(m - 1)
        BY <3>3, <3>5
      <4>2. at + j \in 1..old /\ f[m - 1][at + j] = ss[k][j]
        BY <2>2, <4>1
      <4> HIDE DEF old, at, new
      <4>3. at + j \in 1..new
        BY <3>7, <4>2
      <4> QED
        BY <3>2, <4>2, <4>3 DEF old, at, new
    <3> QED
      BY <3>4, <3>5
  <2> HIDE DEF G
  <2> QED
    BY <1>2, <2>1, <2>2, IndexInduction
<1> DEFINE starts == [k \in 1..(n + 1) |-> Len(f[k - 1])]
<1>6. \A k \in 1..(n + 1) : starts[k] = Len(f[k - 1])
  OBVIOUS
<1>7. Piled(starts, f[n], ss)
  <2>1. starts \in [1..(n + 1) -> Nat]
    <3>1. \A k \in 1..(n + 1) : k - 1 \in 0..n
      BY <1>2
    <3> QED
      BY <1>3, <3>1
  <2>2. starts[1] = 0
    <3>1. Len(f[0]) = 0
      BY <1>1 DEF Builds
    <3> QED
      BY <1>2, <3>1
  <2> HIDE DEF starts
  <2>3. ASSUME NEW k \in 1..n
        PROVE  starts[k + 1] = starts[k] + Len(ss[k])
    <3>1. k \in 1..(n + 1) /\ k + 1 \in 1..(n + 1) /\ (k + 1) - 1 = k
      BY <1>2
    <3> QED
      BY <1>4, <1>6, <3>1
  <2>4. Len(f[n]) = starts[n + 1]
    <3>1. n + 1 \in 1..(n + 1) /\ (n + 1) - 1 = n
      BY <1>2
    <3> QED
      BY <1>6, <3>1
  <2>5. ASSUME NEW k \in 1..n, NEW j \in 1..Len(ss[k])
        PROVE  starts[k] + j \in 1..Len(f[n]) /\ f[n][starts[k] + j] = ss[k][j]
    <3>1. k \in 1..(n + 1) /\ n \in 0..n
      BY <1>2
    <3>2. n \in G
      BY <1>5, <3>1
    <3> QED
      BY <1>6, <3>1, <3>2
  <2> QED
    BY <2>1, <2>2, <2>3, <2>4, <2>5 DEF Piled
<1> HIDE DEF starts
<1> QED
  BY <1>1, <1>2, <1>3, <1>7

(* What a file holds, and what a reader makes of it. *)
Octets == 0..255

(* The file b has the bytes s at position p. *)
Holds(b, p, s) ==
  /\ p \in Nat \ {0} /\ p + Len(s) <= Len(b) + 1
  /\ \A k \in 1..Len(s) : b[p + k - 1] = s[k]

(* Of two sequences in a row the second starts where the first ends. *)
LEMMA HoldsBoth ==
  ASSUME NEW b \in Seq(Octets), NEW p,
         NEW s \in Seq(Octets), NEW t \in Seq(Octets), Holds(b, p, s \o t)
  PROVE  Holds(b, p, s) /\ Holds(b, p + Len(s), t)
<1> DEFINE st == s \o t
<1>1. /\ Len(s) \in Nat /\ Len(t) \in Nat /\ Len(st) = Len(s) + Len(t)
      /\ \A j \in 1..Len(s) : st[j] = s[j]
      /\ \A j \in 1..Len(t) : st[Len(s) + j] = t[j]
  OBVIOUS
<1>2. /\ p \in Nat \ {0} /\ p + Len(st) <= Len(b) + 1
      /\ \A k \in 1..Len(st) : b[p + k - 1] = st[k]
  BY DEF Holds
<1> HIDE DEF st
<1>3. Len(b) \in Nat
  OBVIOUS
<1>4. \A j \in 1..Len(s) : b[p + j - 1] = s[j]
  BY <1>1, <1>2
<1>5. \A j \in 1..Len(t) : b[p + Len(s) + j - 1] = t[j]
  <2> SUFFICES ASSUME NEW j \in 1..Len(t)
               PROVE  b[p + Len(s) + j - 1] = t[j]
    OBVIOUS
  <2>1. Len(s) + j \in 1..Len(st) /\ p + (Len(s) + j) - 1 = p + Len(s) + j - 1
    BY <1>1, <1>2
  <2> QED
    BY <1>1, <1>2, <2>1
<1> QED
  BY <1>1, <1>2, <1>3, <1>4, <1>5 DEF Holds

(* The sequences of a flat one follow each other. *)
LEMMA HoldsEach ==
  ASSUME NEW b \in Seq(Octets), NEW ss \in Seq(Seq(Octets)), NEW starts, NEW flat,
         Piled(starts, flat, ss), NEW p, Holds(b, p, flat), NEW k \in 1..Len(ss)
  PROVE  Holds(b, p + starts[k], ss[k])
<1> DEFINE at == starts[k]
           s == ss[k]
           n == Len(ss)
<1>1. /\ p \in Nat \ {0} /\ p + Len(flat) <= Len(b) + 1
      /\ \A i \in 1..Len(flat) : b[p + i - 1] = flat[i]
  BY DEF Holds
<1>2. /\ n \in Nat /\ k \in 1..n /\ k \in 1..(n + 1) /\ Len(b) \in Nat
      /\ s \in Seq(Octets) /\ Len(s) \in Nat
  OBVIOUS
<1>3. at \in Nat
  BY <1>2 DEF Piled
<1>4. \A j \in 1..Len(s) : at + j \in 1..Len(flat) /\ flat[at + j] = s[j]
  BY DEF Piled
<1>5. Len(flat) \in Nat /\ at + Len(s) <= Len(flat)
  <2>1. n + 1 \in 1..(n + 1) /\ k + 1 \in 1..(n + 1)
    BY <1>2
  <2>2. Len(flat) = starts[n + 1] /\ starts[n + 1] \in Nat /\ starts[k + 1] = at + Len(s)
    BY <2>1 DEF Piled
  <2> DEFINE G == {i \in 0..n : i >= k => starts[i + 1] >= starts[k + 1]}
  <2>3. \A i \in 0..n : i \in G
    <3>1. 0 \in G
      BY <1>2
    <3>2. ASSUME NEW i \in 1..n, i - 1 \in G
          PROVE  i \in G
      <4>1. /\ i + 1 \in 1..(n + 1) /\ i \in 1..(n + 1) /\ (i - 1) + 1 = i /\ i \in 0..n
            /\ Len(ss[i]) \in Nat
        BY <1>2
      <4>2. starts[i + 1] = starts[i] + Len(ss[i]) /\ starts[i] \in Nat
        BY <4>1 DEF Piled
      <4>3. starts[k + 1] \in Nat /\ starts[i + 1] \in Nat
        BY <2>1, <4>1 DEF Piled
      <4>4. CASE i = k
        BY <4>1, <4>3, <4>4
      <4>5. CASE i > k
        <5>1. i - 1 >= k
          BY <1>2, <4>1, <4>5
        <5>2. starts[(i - 1) + 1] >= starts[k + 1]
          BY <3>2, <5>1
        <5>3. starts[i] >= starts[k + 1]
          BY <4>1, <5>2
        <5> DEFINE x == starts[i]
                   y == starts[i + 1]
                   z == starts[k + 1]
                   l == Len(ss[i])
        <5>4. x \in Nat /\ y \in Nat /\ z \in Nat /\ l \in Nat /\ y = x + l /\ x >= z
          BY <4>1, <4>2, <4>3, <5>3
        <5> HIDE DEF x, y, z, l
        <5>5. y >= z
          BY <5>4
        <5> QED
          BY <4>1, <5>5 DEF y, z
      <4>6. CASE i < k
        <5>1. ~ (i >= k)
          BY <1>2, <4>1, <4>6
        <5> QED
          BY <4>1, <5>1
      <4>7. i < k \/ i = k \/ i > k
        BY <1>2, <4>1
      <4> QED
        BY <4>4, <4>5, <4>6, <4>7
    <3> HIDE DEF G
    <3> QED
      BY <1>2, <3>1, <3>2, IndexInduction
  <2>4. starts[n + 1] >= starts[k + 1]
    <3>1. n \in 0..n /\ n >= k
      BY <1>2
    <3> QED
      BY <2>3, <3>1
  <2> QED
    BY <2>2, <2>4
<1> HIDE DEF at, s
<1>6. p + at \in Nat \ {0} /\ (p + at) + Len(s) <= Len(b) + 1
  BY <1>1, <1>2, <1>3, <1>5
<1>7. ASSUME NEW j \in 1..Len(s)
      PROVE  b[(p + at) + j - 1] = s[j]
  <2>1. (p + at) + j - 1 = p + (at + j) - 1
    BY <1>1, <1>2, <1>3
  <2> QED
    BY <1>1, <1>4, <2>1
<1> QED
  BY <1>6, <1>7 DEF Holds, at, s

(* Reading items in a row. *)

(* A sequence grows to its next prefix. *)
LEMMA PrefixGrows ==
  ASSUME NEW T, NEW ts \in Seq(T)
  PROVE  /\ SubSeq(ts, 1, 0) = <<>> /\ SubSeq(ts, 1, Len(ts)) = ts
         /\ \A i \in 1..Len(ts) : /\ SubSeq(ts, 1, i - 1) \in Seq(T)
                                  /\ SubSeq(ts, 1, i) = Append(SubSeq(ts, 1, i - 1), ts[i])
<1>1. SubSeq(ts, 1, 0) = <<>>
  OBVIOUS
<1>2. SubSeq(ts, 1, Len(ts)) = ts
  OBVIOUS
<1>3. ASSUME NEW i \in 1..Len(ts)
      PROVE  /\ SubSeq(ts, 1, i - 1) \in Seq(T)
             /\ SubSeq(ts, 1, i) = Append(SubSeq(ts, 1, i - 1), ts[i])
  <2>1. /\ Len(ts) \in Nat /\ i - 1 \in Nat /\ i - 1 <= Len(ts)
        /\ ts[i] \in T
    OBVIOUS
  <2>2. SubSeq(ts, 1, i - 1) \in Seq(T) /\ Len(SubSeq(ts, 1, i - 1)) = i - 1
        /\ \A j \in 1..(i - 1) : SubSeq(ts, 1, i - 1)[j] = ts[j]
    BY <2>1
  <2>3. SubSeq(ts, 1, i) \in Seq(T) /\ Len(SubSeq(ts, 1, i)) = i
        /\ \A j \in 1..i : SubSeq(ts, 1, i)[j] = ts[j]
    BY <2>1
  <2> DEFINE s == SubSeq(ts, 1, i - 1)
             t == SubSeq(ts, 1, i)
  <2>4. s \in Seq(T) /\ t \in Seq(T) /\ Len(t) = Len(s) + 1 /\ Len(s) = i - 1
        /\ \A j \in 1..Len(s) : t[j] = s[j]
    BY <2>1, <2>2, <2>3
  <2>5. t[Len(s) + 1] = ts[i]
    BY <2>2, <2>3
  <2> HIDE DEF s, t
  <2>6. t = Append(s, ts[i])
    BY <2>1, <2>4, <2>5
  <2> QED
    BY <2>4, <2>6 DEF s, t
<1> QED
  BY <1>1, <1>2, <1>3

(* The file b has the bytes s from position p to q, where the next start. *)
IsBytes(s) == s \in Seq(Octets)

Spans(b, p, s, q) == Holds(b, p, s) /\ q = p + Len(s)

(* Two sequences in a row are found one behind the other. *)
LEMMA SpansBoth ==
  ASSUME NEW b, IsBytes(b), NEW p, NEW q, NEW s, IsBytes(s), NEW t, IsBytes(t),
         Spans(b, p, s \o t, q)
  PROVE  \E r : Spans(b, p, s, r) /\ Spans(b, r, t, q)
<1>1. b \in Seq(Octets) /\ s \in Seq(Octets) /\ t \in Seq(Octets)
  BY DEF IsBytes
<1>2. Holds(b, p, s \o t) /\ q = p + Len(s \o t)
  BY DEF Spans
<1>3. Holds(b, p, s) /\ Holds(b, p + Len(s), t)
  BY <1>1, <1>2, HoldsBoth
<1>4. Len(s \o t) = Len(s) + Len(t) /\ Len(s) \in Nat /\ Len(t) \in Nat
  BY <1>1
<1>5. p \in Nat
  BY <1>2 DEF Holds
<1>6. q = (p + Len(s)) + Len(t)
  BY <1>2, <1>4, <1>5
<1> QED
  BY <1>3, <1>6 DEF Spans

(* They are bytes together. *)
LEMMA BytesBoth ==
  ASSUME NEW s, IsBytes(s), NEW t, IsBytes(t)
  PROVE  IsBytes(s \o t) /\ Len(s \o t) = Len(s) + Len(t)
<1>1. s \in Seq(Octets) /\ t \in Seq(Octets)
  BY DEF IsBytes
<1> HIDE DEF Octets
<1>2. s \o t \in Seq(Octets) /\ Len(s \o t) = Len(s) + Len(t)
  BY <1>1
<1> QED
  BY <1>2 DEF IsBytes

(* Each of these is a sequence of bytes. *)
AllBytes(ss) == ss \in Seq(Seq(Octets))

(* Sequences of bytes in a row are bytes. *)
LEMMA FlatBytes ==
  ASSUME NEW ss, AllBytes(ss)
  PROVE  IsBytes(FlattenSeq(ss))
BY FlattenPiled DEF AllBytes, IsBytes

(* Where each of the sequences in a row is found. *)
LEMMA SpansEach ==
  ASSUME NEW b, IsBytes(b), NEW p, NEW q, NEW ss, AllBytes(ss),
         Spans(b, p, FlattenSeq(ss), q)
  PROVE  /\ Len(ss) \in Nat /\ DOMAIN ss = 1..Len(ss) /\ \A k \in 1..Len(ss) : IsBytes(ss[k])
         /\ \E at \in [1..(Len(ss) + 1) -> Nat \ {0}] :
              /\ at[1] = p /\ at[Len(ss) + 1] = q
              /\ \A k \in 1..Len(ss) : Spans(b, at[k], ss[k], at[k + 1])
<1> DEFINE n == Len(ss)
           flat == FlattenSeq(ss)
<1>0. b \in Seq(Octets) /\ ss \in Seq(Seq(Octets)) /\ Holds(b, p, flat) /\ q = p + Len(flat)
  BY DEF IsBytes, AllBytes, Spans
<1>1. PICK starts : Piled(starts, flat, ss)
  BY <1>0, FlattenPiled
<1> HIDE DEF flat
<1>2. n \in Nat /\ p \in Nat \ {0}
  BY <1>0 DEF Holds
<1> DEFINE at == [k \in 1..(n + 1) |-> p + starts[k]]
<1>3. \A k \in 1..(n + 1) : starts[k] \in Nat /\ at[k] = p + starts[k]
  BY <1>1 DEF Piled
<1>4. at \in [1..(n + 1) -> Nat \ {0}]
  BY <1>2, <1>3
<1>5. ASSUME NEW k \in 1..n
      PROVE  Spans(b, at[k], ss[k], at[k + 1])
  <2>1. k \in 1..(n + 1) /\ k + 1 \in 1..(n + 1) /\ Len(ss[k]) \in Nat
    BY <1>0, <1>2
  <2>2. Holds(b, p + starts[k], ss[k])
    BY <1>0, <1>1, HoldsEach
  <2>3. starts[k + 1] = starts[k] + Len(ss[k])
    BY <1>1 DEF Piled
  <2>4. at[k + 1] = (p + starts[k]) + Len(ss[k])
    BY <1>2, <1>3, <2>1, <2>3
  <2>5. at[k] = p + starts[k]
    BY <1>3, <2>1
  <2> HIDE DEF at
  <2> QED
    BY <2>2, <2>4, <2>5 DEF Spans
<1>6. at[1] = p /\ at[n + 1] = q
  <2>1. 1 \in 1..(n + 1) /\ n + 1 \in 1..(n + 1)
    BY <1>2
  <2>2. starts[1] = 0 /\ starts[n + 1] = Len(flat)
    BY <1>1 DEF Piled
  <2>3. at[1] = p + starts[1] /\ at[n + 1] = p + starts[n + 1]
    BY <1>3, <2>1
  <2> HIDE DEF at
  <2> QED
    BY <1>0, <1>2, <2>2, <2>3
<1>7. DOMAIN ss = 1..n /\ \A k \in 1..n : IsBytes(ss[k])
  BY <1>0 DEF IsBytes
<1> HIDE DEF at, n
<1> QED
  BY <1>2, <1>4, <1>5, <1>6, <1>7 DEF n

(* A number is made of its last byte and the rest, *)
LEMMA ByteSplit ==
  ASSUME NEW v \in Int
  PROVE  v \div 256 \in Int /\ v % 256 \in 0..255 /\ v = 256 * (v \div 256) + (v % 256)
BY SMT

(* or of its halves. *)
LEMMA HalfSplit ==
  ASSUME NEW v \in Int
  PROVE  /\ v \div 65536 \in Int /\ v % 65536 \in Int /\ 0 <= v % 65536 /\ v % 65536 <= 65535
         /\ v = 65536 * (v \div 65536) + (v % 65536)
BY SMT

(* A byte is its own last byte. *)
LEMMA ByteRest == ASSUME NEW v \in 0..255 PROVE v % 256 = v
BY SMT

(* The rest of a number of bounded size is bounded. *)
LEMMA Quotient ==
  ASSUME NEW h \in Int, NEW l \in 0..255, NEW n \in Nat, 256 * h + l \in 0..(256 * n + 255)
  PROVE  h \in 0..n
<1>1. 256 * h + l >= 0 /\ 256 * h + l <= 256 * n + 255 /\ l >= 0 /\ l <= 255
  BY SMT
<1>2. h >= 0
  BY <1>1, SMT
<1>3. h <= n
  BY <1>1, SMT
<1> QED BY <1>2, <1>3, SMT

(* Numbers with the same halves are the same. *)
LEMMA SameHalves ==
  ASSUME NEW k \in Int, NEW w \in Int, NEW x \in Nat, x <= 65535, NEW y \in Nat, y <= 65535
  PROVE  65536 * k + x = 65536 * w + y => x = y /\ k = w
<1>1. x \in Int /\ y \in Int /\ x - y <= 65535 /\ y - x <= 65535
  BY SMT
<1> DEFINE d == w - k
           e == x - y
<1>2. e \in Int /\ e <= 65535 /\ 0 - e <= 65535 /\ d \in Int
  BY <1>1, SMT
<1>3. ASSUME 65536 * k + x = 65536 * w + y
      PROVE  65536 * d = e
  BY <1>1, <1>3, SMT
<1>4. d = 0 => k = w
  BY SMT
<1>5. e = 0 => x = y
  BY <1>1, SMT
<1> HIDE DEF d, e
<1>6. 65536 * d = e => d = 0 /\ e = 0
  BY <1>2, SMT
<1> QED BY <1>3, <1>4, <1>5, <1>6, SMT

(* Nothing adds nothing. *)
LEMMA WithNothing == \A s : IsBytes(s) => s \o <<>> = s /\ <<>> \o s = s
BY DEF IsBytes

(* The whole of a sequence, and its two parts. *)
LEMMA WholeSequence ==
  ASSUME NEW S, NEW s \in Seq(S)
  PROVE  SubSeq(s, 1, Len(s)) = s
<1>1. Len(s) \in Nat /\ s = [i \in 1..Len(s) |-> s[i]] /\ \A i \in 1..Len(s) : s[i] \in S
  OBVIOUS
<1>2. \A i \in 1..Len(s) : s[i] \in S
  BY <1>1
<1>3. SubSeq(s, 1, Len(s)) \in Seq(S) /\ Len(SubSeq(s, 1, Len(s))) = Len(s)
  BY <1>1
<1>4. \A i \in 1..Len(s) : SubSeq(s, 1, Len(s))[i] = s[i]
  BY <1>1
<1> QED
  BY <1>3, <1>4

(* Two sequences in a row, element by element. *)
LEMMA Concatenation ==
  ASSUME NEW S, NEW s \in Seq(S), NEW t \in Seq(S)
  PROVE  /\ s \o t \in Seq(S) /\ Len(s \o t) = Len(s) + Len(t)
         /\ \A k \in 1..(Len(s) + Len(t)) :
              (s \o t)[k] = IF k <= Len(s) THEN s[k] ELSE t[k - Len(s)]
OBVIOUS

(* Sequences with the same elements are the same. *)
LEMMA SameSequence ==
  ASSUME NEW S, NEW s \in Seq(S), NEW t \in Seq(S), Len(s) = Len(t),
         \A i \in 1..Len(t) : s[i] = t[i]
  PROVE  s = t
OBVIOUS

(* A prefix and the rest. *)
LEMMA PrefixParts ==
  ASSUME NEW S, NEW s \in Seq(S), NEW t \in Seq(S), IsPrefix(s, t)
  PROVE  /\ SubSeq(t, 1, Len(s)) = s
         /\ s \o SubSeq(t, Len(s) + 1, Len(t)) = t
         /\ Len(s) = Len(t) => s = t
         /\ Len(s) \in Nat /\ Len(t) \in Nat /\ Len(s) <= Len(t)
<1>1. Len(s) \in Nat /\ Len(t) \in Nat /\ Len(s) <= Len(t)
  BY DEF IsPrefix
<1>2. SubSeq(s, 1, Len(s)) = SubSeq(t, 1, Len(s))
  BY DEF IsPrefix
<1>3. SubSeq(t, 1, Len(s)) = s
  BY <1>2, WholeSequence
<1>4. SubSeq(t, 1, Len(t)) = t
  BY WholeSequence
<1>5. Len(s) = Len(t) => s = t
  BY <1>3, <1>4
<1> DEFINE u == SubSeq(t, Len(s) + 1, Len(t))
<1>6. u \in Seq(S) /\ Len(u) = Len(t) - Len(s)
  BY <1>1
<1>7. \A i \in 1..Len(u) : u[i] = t[Len(s) + i]
  BY <1>1, <1>6
<1>8. \A i \in 1..Len(s) : s[i] = t[i]
  <2> TAKE i \in 1..Len(s)
  <2>1. SubSeq(t, 1, Len(s))[i] = t[i]
    BY <1>1
  <2> QED
    BY <1>3, <2>1
<1> HIDE DEF u
<1> DEFINE w == s \o u
<1>9. w \in Seq(S) /\ Len(w) = Len(t)
  BY <1>1, <1>6, Concatenation
<1>10. ASSUME NEW i \in 1..Len(t)
       PROVE  w[i] = t[i]
  <2>0. i \in 1..(Len(s) + Len(u))
    BY <1>1, <1>6
  <2>1. w[i] = IF i <= Len(s) THEN s[i] ELSE u[i - Len(s)]
    BY <1>6, <2>0, Concatenation
  <2> HIDE DEF w
  <2>2. CASE i <= Len(s)
    BY <1>1, <1>8, <2>1, <2>2
  <2>3. CASE ~ (i <= Len(s))
    <3> DEFINE j == i - Len(s)
    <3>1. j \in 1..Len(u) /\ Len(s) + j = i
      BY <1>1, <1>6, <2>3
    <3> HIDE DEF j
    <3>2. u[j] = t[i]
      BY <1>7, <3>1
    <3> QED
      BY <2>1, <2>3, <3>2 DEF j
  <2> QED
    BY <2>2, <2>3
<1> HIDE DEF w
<1>11. w = t
  BY <1>9, <1>10, SameSequence
<1> QED
  BY <1>1, <1>3, <1>5, <1>11 DEF u, w

(* What is in one of the sequences is in the flat one. *)
LEMMA FlatElement ==
  ASSUME NEW S, NEW ss \in Seq(Seq(S)), NEW k \in 1..Len(ss), NEW x \in ToSet(ss[k])
  PROVE  x \in ToSet(FlattenSeq(ss))
<1> DEFINE flat == FlattenSeq(ss)
<1>1. flat \in Seq(S) /\ \E starts : Piled(starts, flat, ss)
  BY FlattenPiled
<1> HIDE DEF flat
<1>2. PICK starts : Piled(starts, flat, ss)
  BY <1>1
<1>3. ss[k] \in Seq(S)
  OBVIOUS
<1>4. PICK j \in 1..Len(ss[k]) : x = ss[k][j]
  BY <1>3 DEF ToSet
<1>5. starts[k] + j \in 1..Len(flat) /\ flat[starts[k] + j] = ss[k][j]
  BY <1>2 DEF Piled
<1>6. DOMAIN flat = 1..Len(flat)
  BY <1>1
<1> QED
  BY <1>4, <1>5, <1>6 DEF ToSet, flat

(* Modified UTF-8, a unit at a time. *)
LEMMA SixBits ==
  ASSUME NEW v \in Int
  PROVE  v \div 64 \in Int /\ v % 64 \in 0..63 /\ v = 64 * (v \div 64) + (v % 64)
BY SMT

(* Six bits, twice. *)
LEMMA TwelveBits ==
  ASSUME NEW v \in Nat
  PROVE  v \div 4096 = (v \div 64) \div 64
<1> DEFINE x == v \div 64
           y == x \div 64
           z == v \div 4096
<1>1. x \in Int /\ v = 64 * x + (v % 64) /\ v % 64 \in 0..63
  BY SixBits
<1>2. y \in Int /\ x = 64 * y + (x % 64) /\ x % 64 \in 0..63
  <2> HIDE DEF x
  <2> QED
    BY <1>1, SixBits
<1>3. z \in Int /\ v = 4096 * z + (v % 4096) /\ 0 <= v % 4096 /\ v % 4096 < 4096
  BY SMT
<1> DEFINE a == v % 64
           b == x % 64
           c == v % 4096
<1> HIDE DEF x, y, z, a, b, c
<1>4. a \in 0..63 /\ b \in 0..63 /\ v = 64 * x + a /\ x = 64 * y + b
      /\ c = v - 4096 * z
  BY <1>1, <1>2, <1>3, SMT DEF a, b, c
<1>5. z \in Int /\ 0 <= v - 4096 * z /\ v - 4096 * z < 4096
  BY <1>3, <1>4, SMT DEF c
<1>6. v = 4096 * y + (64 * b + a) /\ 0 <= 64 * b + a /\ 64 * b + a < 4096
  BY <1>1, <1>2, <1>4, SMT
<1> DEFINE d == z - y
           r == (64 * b + a) - (v - 4096 * z)
<1>7. d \in Int /\ r \in Int /\ r < 4096 /\ 0 - r < 4096 /\ 4096 * d = r
  <2>1. d \in Int /\ r \in Int
    BY <1>2, <1>4, <1>5, SMT
  <2>2. r < 4096 /\ 0 - r < 4096
    BY <1>4, <1>5, <1>6, SMT
  <2>3. 4096 * d = r
    BY <1>2, <1>4, <1>5, <1>6, SMT
  <2> QED
    BY <2>1, <2>2, <2>3
<1>8. d = 0 => z = y
  BY <1>2, <1>5, SMT
<1> HIDE DEF d, r
<1>9. d = 0
  BY <1>7, SMT
<1> QED
  BY <1>8, <1>9 DEF x, y, z

(* The low bits of the bytes of a unit. *)
LEMMA LowBits ==
  /\ \A x \in 0..31 : (192 + x) % 32 = x
  /\ \A x \in 0..15 : (224 + x) % 16 = x
  /\ \A x \in 0..63 : (128 + x) % 64 = x
BY SMT

(* Where the parts of three or four sequences in a row start.              *)
LEMMA SpansThree ==
  ASSUME NEW b, IsBytes(b), NEW p, NEW q, NEW s, IsBytes(s), NEW t, IsBytes(t),
         NEW u, IsBytes(u), Spans(b, p, s \o t \o u, q)
  PROVE  \E x, y : Spans(b, p, s, x) /\ Spans(b, x, t, y) /\ Spans(b, y, u, q)
<1> DEFINE st == s \o t
<1>1. IsBytes(st)
  BY BytesBoth
<1>2. Spans(b, p, st \o u, q)
  OBVIOUS
<1> HIDE DEF st
<1>3. PICK y : Spans(b, p, st, y) /\ Spans(b, y, u, q)
  BY <1>1, <1>2, SpansBoth
<1>4. PICK x : Spans(b, p, s, x) /\ Spans(b, x, t, y)
  BY <1>3, SpansBoth DEF st
<1> QED
  BY <1>3, <1>4

(* The same of four. *)
LEMMA SpansFour ==
  ASSUME NEW b, IsBytes(b), NEW p, NEW q, NEW s, IsBytes(s), NEW t, IsBytes(t),
         NEW u, IsBytes(u), NEW v, IsBytes(v), Spans(b, p, s \o t \o u \o v, q)
  PROVE  \E x, y, z : /\ Spans(b, p, s, x) /\ Spans(b, x, t, y)
                      /\ Spans(b, y, u, z) /\ Spans(b, z, v, q)
<1> DEFINE st == s \o t
<1>1. IsBytes(st)
  BY BytesBoth
<1>2. Spans(b, p, st \o u \o v, q)
  OBVIOUS
<1> HIDE DEF st
<1>3. PICK y, z : Spans(b, p, st, y) /\ Spans(b, y, u, z) /\ Spans(b, z, v, q)
  BY <1>1, <1>2, SpansThree
<1>4. PICK x : Spans(b, p, s, x) /\ Spans(b, x, t, y)
  BY <1>3, SpansBoth DEF st
<1> QED
  BY <1>3, <1>4

(* Four sequences in a row, taken together as two.                         *)
FourInARow(s, t, u, v) == s \o t \o u \o v

OneAndThree(s, t, u, v) == s \o (t \o (u \o v))

(* They are the same bytes. *)
LEMMA Regrouped ==
  ASSUME NEW s, IsBytes(s), NEW t, IsBytes(t), NEW u, IsBytes(u), NEW v, IsBytes(v)
  PROVE  FourInARow(s, t, u, v) = OneAndThree(s, t, u, v)
<1> DEFINE st == s \o t
           uv == u \o v
<1>1. IsBytes(st) /\ IsBytes(uv)
  BY BytesBoth
<1>2. st \o u \o v = st \o uv
  BY <1>1, ConcatAssociative, SMTT(30) DEF IsBytes
<1> HIDE DEF uv
<1>3. st \o uv = s \o (t \o uv)
  BY <1>1, ConcatAssociative, SMTT(30) DEF IsBytes
<1> QED
  BY <1>2, <1>3 DEF uv, FourInARow, OneAndThree

(* Two sequences that follow each other are one. *)
LEMMA SpansJoin ==
  ASSUME NEW b, IsBytes(b), NEW p, NEW x, NEW q, NEW s, IsBytes(s), NEW t, IsBytes(t),
         Spans(b, p, s, x), Spans(b, x, t, q)
  PROVE  Spans(b, p, s \o t, q)
<1> DEFINE st == s \o t
           m == Len(s)
           n == Len(t)
           len == Len(b)
<1>1. m \in Nat /\ n \in Nat /\ len \in Nat
  BY DEF IsBytes
<1>2. Len(st) = m + n /\ \A i \in 1..(m + n) : st[i] = IF i <= m THEN s[i] ELSE t[i - m]
  BY ConcatProperties DEF IsBytes
<1>3. /\ p \in Nat \ {0} /\ x = p + m /\ \A k \in 1..m : b[p + k - 1] = s[k]
      /\ x + n <= len + 1 /\ q = x + n /\ \A k \in 1..n : b[x + k - 1] = t[k]
  BY DEF Spans, Holds
<1> HIDE DEF st, m, n, len
<1>4. ASSUME NEW k \in 1..(m + n)
      PROVE  b[p + k - 1] = st[k]
  <2>1. CASE k <= m
    <3>1. k \in 1..m /\ st[k] = s[k]
      BY <1>1, <1>2, <2>1
    <3> QED
      BY <1>3, <3>1
  <2>2. CASE ~ (k <= m)
    <3>1. k - m \in 1..n /\ st[k] = t[k - m] /\ x + (k - m) - 1 = p + k - 1
      BY <1>1, <1>2, <1>3, <2>2
    <3>2. b[x + (k - m) - 1] = t[k - m]
      BY <1>3, <3>1
    <3> QED
      BY <3>1, <3>2
  <2> QED
    BY <2>1, <2>2
<1>5. p + (m + n) <= len + 1 /\ q = p + (m + n)
  BY <1>1, <1>3
<1>6. Spans(b, p, st, q)
  BY <1>2, <1>3, <1>4, <1>5 DEF Spans, Holds, len
<1> QED
  BY <1>6 DEF st

(* A file is found at its first position. *)
LEMMA SpansSelf ==
  ASSUME NEW b, IsBytes(b)
  PROVE  Spans(b, 1, b, Len(b) + 1)
<1> DEFINE n == Len(b)
<1>1. n \in Nat
  BY DEF IsBytes
<1> HIDE DEF n
<1>2. \A k \in 1..n : b[1 + k - 1] = b[k]
  <2> TAKE k \in 1..n
  <2>1. 1 + k - 1 = k
    BY <1>1
  <2> QED
    BY <2>1
<1>3. 1 + n <= n + 1 /\ n + 1 = 1 + n
  BY <1>1
<1> QED
  BY <1>1, <1>2, <1>3 DEF Spans, Holds, n

(* Bytes in a row, three times. *)
LEMMA RowOfThree ==
  ASSUME NEW s, IsBytes(s), NEW t, IsBytes(t), NEW u, IsBytes(u)
  PROVE  IsBytes(s \o t \o u)
<1>1. IsBytes(s \o t)
  BY BytesBoth
<1> QED
  BY <1>1, BytesBoth

(* And four times. *)
LEMMA RowOfFour ==
  ASSUME NEW s, IsBytes(s), NEW t, IsBytes(t), NEW u, IsBytes(u), NEW v, IsBytes(v)
  PROVE  IsBytes(s \o t \o u \o v)
<1>1. IsBytes(s \o t \o u)
  BY RowOfThree
<1> QED
  BY <1>1, BytesBoth

(* What is in one of two sequences in a row. *)
LEMMA InPair ==
  ASSUME NEW S, NEW s \in Seq(S), NEW t \in Seq(S)
  PROVE  s \o t \in Seq(S) /\ ToSet(s \o t) = ToSet(s) \cup ToSet(t)
<1>1. /\ s \o t \in Seq(S) /\ Len(s \o t) = Len(s) + Len(t)
      /\ Len(s) \in Nat /\ Len(t) \in Nat
      /\ \A i \in 1..Len(s) : (s \o t)[i] = s[i]
      /\ \A i \in 1..Len(t) : (s \o t)[Len(s) + i] = t[i]
  OBVIOUS
<1> DEFINE u == s \o t
<1>2. DOMAIN u = 1..(Len(s) + Len(t)) /\ DOMAIN s = 1..Len(s) /\ DOMAIN t = 1..Len(t)
  BY <1>1
<1> HIDE DEF u
<1>3. ASSUME NEW x \in ToSet(u)
      PROVE  x \in ToSet(s) \cup ToSet(t)
  <2>1. PICK i \in 1..(Len(s) + Len(t)) : u[i] = x
    BY <1>2 DEF ToSet
  <2>2. CASE i <= Len(s)
    BY <1>1, <1>2, <2>1, <2>2 DEF ToSet, u
  <2>3. CASE i > Len(s)
    <3> DEFINE j == i - Len(s)
    <3>1. j \in 1..Len(t) /\ Len(s) + j = i
      BY <1>1, <2>3
    <3> HIDE DEF j
    <3>2. t[j] = x
      BY <1>1, <2>1, <3>1 DEF u
    <3> QED
      BY <1>2, <3>1, <3>2 DEF ToSet
  <2> QED
    BY <1>1, <2>2, <2>3
<1>4. ASSUME NEW x \in ToSet(s)
      PROVE  x \in ToSet(u)
  <2>1. PICK i \in 1..Len(s) : s[i] = x
    BY <1>2 DEF ToSet
  <2>2. i \in DOMAIN u /\ u[i] = x
    BY <1>1, <1>2, <2>1 DEF u
  <2> QED
    BY <2>2 DEF ToSet
<1>5. ASSUME NEW x \in ToSet(t)
      PROVE  x \in ToSet(u)
  <2>1. PICK i \in 1..Len(t) : t[i] = x
    BY <1>2 DEF ToSet
  <2>2. Len(s) + i \in DOMAIN u /\ u[Len(s) + i] = x
    BY <1>1, <1>2, <2>1 DEF u
  <2> QED
    BY <2>2 DEF ToSet
<1> QED
  BY <1>1, <1>3, <1>4, <1>5 DEF u

=============================================================================
