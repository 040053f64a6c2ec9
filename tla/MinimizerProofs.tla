-------------------------- MODULE MinimizerProofs --------------------------
(***************************************************************************)
(* What is left of a program is a reduction of it that both compilers      *)
(* accept, and minimal, for any programs, number of tries and cap.         *)
(***************************************************************************)
EXTENDS Minimizer, TLAPS

-----------------------------------------------------------------------------
(* The two reductions. *)

(* Removing an element shifts the ones behind it.                          *)
LEMMA RemoveAtElements ==
  ASSUME NEW S, NEW s \in Seq(S), NEW k \in 1..Len(s)
  PROVE  /\ RemoveAt(s, k) \in Seq(S)
         /\ Len(RemoveAt(s, k)) = Len(s) - 1
         /\ \A j \in 1..(Len(s) - 1) : RemoveAt(s, k)[j] = s[IF j < k THEN j ELSE j + 1]
<1> DEFINE front == SubSeq(s, 1, k - 1)
           back == SubSeq(s, k + 1, Len(s))
<1>1. front \in Seq(S) /\ Len(front) = k - 1 /\ \A j \in 1..(k - 1) : front[j] = s[j]
      OBVIOUS
<1>2. back \in Seq(S) /\ Len(back) = Len(s) - k /\ \A j \in 1..(Len(s) - k) : back[j] = s[k + j]
      OBVIOUS
<1>3. RemoveAt(s, k) = front \o back
      BY DEF RemoveAt
<1> HIDE DEF front, back
<1>4. front \o back \in Seq(S) /\ Len(front \o back) = Len(s) - 1
      BY <1>1, <1>2
<1>5. ASSUME NEW j \in 1..(Len(s) - 1)
      PROVE  (front \o back)[j] = s[IF j < k THEN j ELSE j + 1]
  <2>1. CASE j < k
        BY <2>1, <1>1, <1>2
  <2>2. CASE ~ j < k
    <3>1. (front \o back)[j] = back[j - (k - 1)]
          BY <2>2, <1>1, <1>2
    <3>2. j - (k - 1) \in 1..(Len(s) - k) /\ k + (j - (k - 1)) = j + 1
          BY <2>2
    <3>3. (front \o back)[j] = s[j + 1]
          BY <3>1, <3>2, <1>2
    <3> QED BY <2>2, <3>3
  <2> QED BY <2>1, <2>2
<1> QED BY <1>3, <1>4, <1>5

(* In order, no two statements have the same number.                       *)
LEMMA SameStatement ==
  ASSUME NEW whole \in Seq(Statement), InOrder(whole),
         NEW l \in DOMAIN whole, NEW m \in DOMAIN whole, whole[l].id = whole[m].id
  PROVE  l = m
<1>1. l \in 1..Len(whole) /\ m \in 1..Len(whole)
      OBVIOUS
<1>2. whole[l].id \in Nat /\ whole[m].id \in Nat
  <2>1. whole[l] \in Statement /\ whole[m] \in Statement
        BY <1>1
  <2> QED BY <2>1 DEF Statement
<1>3. ~ l < m /\ ~ m < l
      BY <1>2 DEF InOrder
<1> QED BY <1>1, <1>3

(* A body without one of its other statements is a reduction of the whole. *)
LEMMA RemovalReduces ==
  ASSUME NEW whole \in Seq(Statement), InOrder(whole),
         NEW body \in Seq(Statement), ReductionOf(body, whole),
         NEW k \in 1..Len(body), ~ body[k].decl
  PROVE  RemoveAt(body, k) \in Seq(Statement) /\ ReductionOf(RemoveAt(body, k), whole)
<1> DEFINE less == RemoveAt(body, k)
           from(j) == IF j < k THEN j ELSE j + 1
<1>1. /\ less \in Seq(Statement) /\ Len(less) = Len(body) - 1
      /\ \A j \in 1..(Len(body) - 1) : less[j] = body[from(j)]
      BY RemoveAtElements
<1>2. DOMAIN less = 1..(Len(body) - 1) /\ DOMAIN body = 1..Len(body)
      BY <1>1
<1> HIDE DEF less
<1>3. \A j \in DOMAIN less : from(j) \in DOMAIN body /\ less[j] = body[from(j)]
      BY <1>1, <1>2
<1>4. InOrder(less)
  <2> SUFFICES ASSUME NEW j \in DOMAIN less, NEW m \in DOMAIN less, j < m
               PROVE  less[j].id < less[m].id
      BY DEF InOrder
  <2>1. from(j) < from(m)
        BY <1>2
  <2> QED BY <2>1, <1>3 DEF ReductionOf, InOrder
<1>5. \A j \in DOMAIN less : \E m \in DOMAIN whole :
        /\ less[j].id = whole[m].id /\ less[j].decl = whole[m].decl
        /\ less[j].parens \subseteq whole[m].parens
      BY <1>3 DEF ReductionOf
<1>6. ASSUME NEW m \in DOMAIN whole, whole[m].decl
      PROVE  \E j \in DOMAIN less : less[j].id = whole[m].id
  <2>1. PICK n \in DOMAIN body : body[n].id = whole[m].id
        BY <1>6 DEF ReductionOf
  <2>2. n # k
    <3>1. SUFFICES ASSUME n = k  PROVE FALSE
          OBVIOUS
    <3>2. PICK l \in DOMAIN whole : body[k].id = whole[l].id /\ body[k].decl = whole[l].decl
          BY <1>2 DEF ReductionOf
    <3>3. l = m
          BY <3>1, <3>2, <2>1, SameStatement
    <3> QED BY <3>2, <3>3, <1>6
  <2>3. CASE n < k
    <3>1. n \in DOMAIN less /\ from(n) = n
          BY <2>3, <1>2
    <3> QED BY <3>1, <2>1, <1>3
  <2>4. CASE ~ n < k
    <3>1. n - 1 \in DOMAIN less /\ from(n - 1) = n
          BY <2>2, <2>4, <1>2
    <3> QED BY <3>1, <2>1, <1>3
  <2> QED BY <2>3, <2>4
<1>7. ReductionOf(less, whole)
      BY <1>4, <1>5, <1>6 DEF ReductionOf
<1> QED BY <1>1, <1>7 DEF less

(* So is a body without a pair of its parentheses.                         *)
LEMMA UnparenReduces ==
  ASSUME NEW whole, NEW body \in Seq(Statement), ReductionOf(body, whole),
         NEW k \in 1..Len(body), NEW p
  PROVE  Unparen(body, k, p) \in Seq(Statement) /\ ReductionOf(Unparen(body, k, p), whole)
<1> DEFINE less == Unparen(body, k, p)
<1>1. less = [body EXCEPT ![k] = [body[k] EXCEPT !.parens = body[k].parens \ {p}]]
      BY DEF Unparen
<1>2. /\ body[k] \in Statement
      /\ [body[k] EXCEPT !.parens = body[k].parens \ {p}] \in Statement
  <2>1. body[k] \in Statement
        OBVIOUS
  <2> QED BY <2>1 DEF Statement
<1>3. less \in Seq(Statement) /\ DOMAIN less = DOMAIN body
      BY <1>1, <1>2
<1>4. \A j \in DOMAIN body : /\ less[j].id = body[j].id /\ less[j].decl = body[j].decl
                             /\ less[j].parens \subseteq body[j].parens
  <2> SUFFICES ASSUME NEW j \in DOMAIN body
               PROVE  /\ less[j].id = body[j].id /\ less[j].decl = body[j].decl
                      /\ less[j].parens \subseteq body[j].parens
      OBVIOUS
  <2>1. CASE j # k
        BY <2>1, <1>1
  <2>2. CASE j = k
    <3>1. less[j] = [body[k] EXCEPT !.parens = body[k].parens \ {p}]
          BY <2>2, <1>1
    <3> QED BY <3>1, <2>2, <1>2 DEF Statement
  <2> QED BY <2>1, <2>2
<1> HIDE DEF less
<1>5. InOrder(less)
      BY <1>3, <1>4 DEF ReductionOf, InOrder
<1>6. \A j \in DOMAIN less : \E m \in DOMAIN whole :
        /\ less[j].id = whole[m].id /\ less[j].decl = whole[m].decl
        /\ less[j].parens \subseteq whole[m].parens
  <2> SUFFICES ASSUME NEW j \in DOMAIN body
               PROVE  \E m \in DOMAIN whole :
                        /\ less[j].id = whole[m].id /\ less[j].decl = whole[m].decl
                        /\ less[j].parens \subseteq whole[m].parens
      BY <1>3
  <2>1. PICK m \in DOMAIN whole : /\ body[j].id = whole[m].id /\ body[j].decl = whole[m].decl
                                  /\ body[j].parens \subseteq whole[m].parens
        BY DEF ReductionOf
  <2> QED BY <2>1, <1>4
<1>7. \A m \in DOMAIN whole : whole[m].decl => \E j \in DOMAIN less : less[j].id = whole[m].id
      BY <1>3, <1>4 DEF ReductionOf
<1>8. ReductionOf(less, whole)
      BY <1>5, <1>6, <1>7 DEF ReductionOf
<1> QED BY <1>3, <1>8 DEF less

(* A program taken for accepted is accepted by both compilers: out/ holds  *)
(* no class file but the one of this call.                                 *)
LEMMA AcceptedByBoth ==
  ASSUME NEW body, NEW javac \in BOOLEAN, NEW njavac \in BOOLEAN, NEW accepted \in BOOLEAN,
         CompileBoth(body, javac, njavac, accepted)
  PROVE  accepted <=> javac /\ njavac
<1>1. <<body>> # None
      BY DEF None
<1> QED BY <1>1, ZenonT(30) DEF CompileBoth, ResetDir

-----------------------------------------------------------------------------
(* One test of a smaller program: it becomes the program, and the search   *)
(* starts over; or the search goes on, and it is refused.                  *)
LEMMA TestKeeps ==
  ASSUME MinimizerInv, Picked, NEW cand \in Seq(Statement), ReductionOf(cand, original),
         NEW Otherwise \in BOOLEAN, Test(cand, Otherwise)
  PROVE  /\ spawns' = spawns + 1 /\ tries' = tries /\ original' = original
         /\ genuine' /\ ReductionOf(cur', original')
         /\ \/ /\ phase' = "removing" /\ cur' = cand /\ i' = Len(cand)
            \/ /\ Otherwise /\ phase' = phase /\ cur' = cur
               /\ refused \subseteq refused'
               /\ spawns' < Cap => cand \in refused'
<1>1. PICK javac \in BOOLEAN, njavac \in BOOLEAN, accepted \in BOOLEAN :
        /\ CompileBoth(cand, javac, njavac, accepted)
        /\ IF accepted /\ spawns' < Cap
           THEN /\ phase' = "removing" /\ cur' = cand /\ i' = Len(cand) /\ tried' = {}
                /\ genuine' = (javac /\ njavac)
                /\ refused' = {}
           ELSE /\ Otherwise
                /\ refused' = IF accepted THEN refused ELSE refused \cup {cand}
                /\ UNCHANGED <<phase, cur, genuine>>
      BY DEF Test
<1>2. spawns' = spawns + 1 /\ tries' = tries /\ original' = original
      BY <1>1 DEF Test, CompileBoth
<1>3. genuine /\ ReductionOf(cur, original)
      BY DEF MinimizerInv, Kept
<1>4. CASE accepted /\ spawns' < Cap
  <2>1. genuine'
        BY <1>1, <1>4, AcceptedByBoth
  <2> QED BY <1>1, <1>2, <1>4, <2>1
<1>5. CASE ~ (accepted /\ spawns' < Cap)
      BY <1>1, <1>2, <1>3, <1>5
<1> QED BY <1>4, <1>5

-----------------------------------------------------------------------------
(* The inductive invariant. *)

(* The failing program as found is the best so far, and nothing is tried.  *)
LEMMA InvInitially == Init => MinimizerInv
<1> SUFFICES ASSUME Init PROVE MinimizerInv
    OBVIOUS
<1>1. TypeOK
      BY BoundsAssumption DEF Init, TypeOK
<1>2. OriginalOK
      BY DEF Init, OriginalOK, InOrder
<1>3. ~ Picked
      BY DEF Init, Picked
<1> QED BY <1>1, <1>2, <1>3 DEF MinimizerInv, Kept, Searched

(* The program first picked is kept as it is.                              *)
LEMMA PickKeeps == ASSUME MinimizerInv, Pick PROVE MinimizerInv'
<1>1. PICK body \in Bodies, javac \in BOOLEAN, njavac \in BOOLEAN, accepted \in BOOLEAN :
        /\ CompileBoth(body, javac, njavac, accepted)
        /\ IF accepted
           THEN /\ phase' = "removing" /\ cur' = body /\ i' = Len(body)
                /\ original' = body /\ genuine' = (javac /\ njavac)
                /\ UNCHANGED tries
           ELSE tries' = tries + 1 /\ UNCHANGED <<phase, cur, i, original, genuine>>
      BY DEF Pick
<1>2. /\ spawns' = spawns + 1 /\ refused' = refused /\ tried' = tried
      /\ tries < Tries /\ phase = "picking"
      BY <1>1 DEF Pick, CompileBoth
<1>3. TypeOK /\ OriginalOK
      BY DEF MinimizerInv
<1>4. body \in Seq(Statement) /\ InOrder(body) /\ Len(body) \in Nat
      BY BodiesAssumption
<1>5. CASE accepted
  <2>1. phase' = "removing" /\ cur' = body /\ i' = Len(body) /\ original' = body /\ tries' = tries
        BY <1>1, <1>5
  <2>2. genuine'
        BY <1>1, <1>5, AcceptedByBoth
  <2>3. ReductionOf(body, body)
        BY <1>4 DEF ReductionOf
  <2>4. TypeOK' /\ OriginalOK'
        BY <1>2, <1>3, <1>4, <2>1 DEF TypeOK, OriginalOK
  <2>5. Kept'
        BY <2>1, <2>2, <2>3 DEF Kept
  <2>6. Searched'
        BY <1>4, <2>1 DEF Searched
  <2> QED BY <2>4, <2>5, <2>6 DEF MinimizerInv
<1>6. CASE ~ accepted
  <2>1. /\ tries' = tries + 1 /\ phase' = "picking" /\ cur' = cur /\ i' = i
        /\ original' = original
        BY <1>1, <1>2, <1>6
  <2>2. TypeOK' /\ OriginalOK'
        BY <1>2, <1>3, <2>1, BoundsAssumption DEF TypeOK, OriginalOK
  <2>3. ~ Picked'
        BY <2>1 DEF Picked
  <2> QED BY <2>2, <2>3 DEF MinimizerInv, Kept, Searched
<1> QED BY <1>5, <1>6

(* What a successful test leaves: nothing has been searched yet.           *)
LEMMA StartsOver ==
  ASSUME MinimizerInv, NEW cand \in Seq(Statement),
         spawns' = spawns + 1, tries' = tries, original' = original,
         genuine', ReductionOf(cur', original'),
         phase' = "removing", cur' = cand, i' = Len(cand)
  PROVE  MinimizerInv'
<1>1. TypeOK' /\ OriginalOK'
      BY DEF MinimizerInv, TypeOK, OriginalOK
<1>2. Kept'
      BY DEF Kept
<1>3. Searched'
      BY DEF Searched
<1> QED BY <1>1, <1>2, <1>3 DEF MinimizerInv

(* A statement is dropped, or is refused and the one before it is next.    *)
LEMMA TryRemoveKeeps == ASSUME MinimizerInv, TryRemove PROVE MinimizerInv'
<1> DEFINE cand == RemoveAt(cur, i)
           Onwards == i' = i - 1 /\ UNCHANGED tried
<1>1. /\ TypeOK /\ OriginalOK /\ Searched /\ ReductionOf(cur, original)
      /\ phase = "removing" /\ Picked /\ i \in 1..Len(cur) /\ ~ cur[i].decl
      BY DEF MinimizerInv, TypeOK, Kept, Picked, TryRemove
<1>2. cand \in Seq(Statement) /\ ReductionOf(cand, original)
      BY <1>1, RemovalReduces DEF TypeOK, OriginalOK
<1>3. Onwards \in BOOLEAN /\ Test(cand, Onwards)
      BY DEF TryRemove
<1>4. Onwards => i' = i - 1
      OBVIOUS
<1>5. cand = RemoveAt(cur, i)
      OBVIOUS
<1> HIDE DEF cand, Onwards
<1>6. /\ spawns' = spawns + 1 /\ tries' = tries /\ original' = original
      /\ genuine' /\ ReductionOf(cur', original')
      /\ \/ /\ phase' = "removing" /\ cur' = cand /\ i' = Len(cand)
         \/ /\ Onwards /\ phase' = phase /\ cur' = cur
            /\ refused \subseteq refused'
            /\ spawns' < Cap => cand \in refused'
      BY <1>1, <1>2, <1>3, TestKeeps
<1>7. CASE phase' = "removing" /\ cur' = cand /\ i' = Len(cand)
      BY <1>2, <1>6, <1>7, StartsOver
<1>8. CASE /\ Onwards /\ phase' = phase /\ cur' = cur
           /\ refused \subseteq refused'
           /\ spawns' < Cap => cand \in refused'
  <2>1. TypeOK' /\ OriginalOK'
        BY <1>1, <1>4, <1>6, <1>8 DEF TypeOK, OriginalOK
  <2>2. Kept'
        BY <1>6 DEF Kept
  <2>3. ASSUME spawns' < Cap, NEW j \in DOMAIN cur, j > i', ~ cur[j].decl
        PROVE  RemoveAt(cur, j) \in refused'
    <3>1. CASE j = i
          BY <2>3, <3>1, <1>5, <1>8
    <3>2. CASE j # i
      <4>1. j > i
            BY <2>3, <3>2, <1>1, <1>4, <1>8
      <4>2. spawns < Cap
            BY <2>3, <1>1, <1>6, BoundsAssumption DEF TypeOK
      <4> QED BY <2>3, <4>1, <4>2, <1>1, <1>8 DEF Searched
    <3> QED BY <3>1, <3>2
  <2>4. Searched'
        BY <2>3, <1>1, <1>8 DEF Searched
  <2> QED BY <2>1, <2>2, <2>4 DEF MinimizerInv
<1> QED BY <1>6, <1>7, <1>8

(* A pair of parentheses is dropped, or is refused and counts as tried.    *)
LEMMA TryReduceKeeps == ASSUME MinimizerInv, TryReduce PROVE MinimizerInv'
<1>1. PICK paren \in Untried :
        Test(Unparen(cur, i, paren), tried' = tried \cup {paren} /\ UNCHANGED i)
      BY DEF TryReduce
<1> DEFINE cand == Unparen(cur, i, paren)
           Onwards == tried' = tried \cup {paren} /\ UNCHANGED i
<1>2. /\ TypeOK /\ OriginalOK /\ Searched /\ ReductionOf(cur, original)
      /\ phase = "reducing" /\ Picked /\ i \in 1..Len(cur)
      BY DEF MinimizerInv, TypeOK, Kept, Picked, TryReduce
<1>3. cand \in Seq(Statement) /\ ReductionOf(cand, original)
      BY <1>2, UnparenReduces DEF TypeOK
<1>4. Onwards \in BOOLEAN /\ Test(cand, Onwards)
      BY <1>1
<1>5. Onwards => tried' = tried \cup {paren} /\ i' = i
      OBVIOUS
<1>6. cand = Unparen(cur, i, paren)
      OBVIOUS
<1> HIDE DEF cand, Onwards
<1>7. /\ spawns' = spawns + 1 /\ tries' = tries /\ original' = original
      /\ genuine' /\ ReductionOf(cur', original')
      /\ \/ /\ phase' = "removing" /\ cur' = cand /\ i' = Len(cand)
         \/ /\ Onwards /\ phase' = phase /\ cur' = cur
            /\ refused \subseteq refused'
            /\ spawns' < Cap => cand \in refused'
      BY <1>2, <1>3, <1>4, TestKeeps
<1>8. CASE phase' = "removing" /\ cur' = cand /\ i' = Len(cand)
      BY <1>3, <1>7, <1>8, StartsOver
<1>9. CASE /\ Onwards /\ phase' = phase /\ cur' = cur
           /\ refused \subseteq refused'
           /\ spawns' < Cap => cand \in refused'
  <2>1. TypeOK' /\ OriginalOK'
        BY <1>2, <1>5, <1>7, <1>9 DEF TypeOK, OriginalOK
  <2>2. Kept'
        BY <1>7 DEF Kept
  <2>3. spawns' < Cap => spawns < Cap
        BY <1>2, <1>7, BoundsAssumption DEF TypeOK
  <2>4. ASSUME spawns' < Cap, NEW j \in DOMAIN cur, ~ cur[j].decl
        PROVE  RemoveAt(cur, j) \in refused'
        BY <2>3, <2>4, <1>2, <1>9 DEF Searched
  <2>5. ASSUME spawns' < Cap, NEW j \in DOMAIN cur, NEW p \in cur[j].parens,
               j < i \/ (j = i /\ p \in tried \cup {paren})
        PROVE  Unparen(cur, j, p) \in refused'
    <3>1. CASE j = i /\ p = paren
          BY <2>5, <3>1, <1>6, <1>9
    <3>2. CASE j < i \/ (j = i /\ p \in tried)
          BY <2>3, <2>5, <3>2, <1>2, <1>9 DEF Searched
    <3> QED BY <2>5, <3>1, <3>2
  <2>6. Searched'
        BY <2>4, <2>5, <1>2, <1>5, <1>9 DEF Searched
  <2> QED BY <2>1, <2>2, <2>6 DEF MinimizerInv
<1> QED BY <1>7, <1>8, <1>9

(* The steps between two tests only move the point the search is at.       *)
LEMMA MoveKeeps ==
  ASSUME MinimizerInv, SkipDecl \/ EndRemovals \/ NextStatement \/ EndPass
  PROVE  MinimizerInv'
<1>1. /\ TypeOK /\ OriginalOK /\ Searched /\ genuine /\ ReductionOf(cur, original) /\ Picked
      /\ UNCHANGED <<tries, cur, spawns, original, genuine, refused>>
      BY DEF MinimizerInv, Kept, Picked, SkipDecl, EndRemovals, NextStatement, EndPass
<1>2. OriginalOK' /\ Kept'
      BY <1>1 DEF OriginalOK, Kept
<1>3. CASE SkipDecl
  <2>1. phase = "removing" /\ phase' = "removing" /\ i' = i - 1 /\ i > 0 /\ cur[i].decl
        BY <1>3 DEF SkipDecl
  <2>2. TypeOK'
        BY <2>1, <1>1 DEF TypeOK
  <2>3. ASSUME NEW j \in DOMAIN cur, j > i', ~ cur[j].decl
        PROVE  j > i
        BY <2>1, <2>3, <1>1 DEF TypeOK
  <2>4. Searched'
        BY <2>1, <2>3, <1>1 DEF Searched, Picked
  <2> QED BY <2>2, <2>4, <1>2 DEF MinimizerInv
<1>4. CASE EndRemovals
  <2>1. phase = "removing" /\ i = 0 /\ phase' = "reducing" /\ i' = 1 /\ tried' = {}
        BY <1>4 DEF EndRemovals
  <2>2. TypeOK'
        BY <2>1, <1>1 DEF TypeOK
  <2>3. \A j \in DOMAIN cur : j > i /\ ~ j < i'
        BY <2>1, <1>1 DEF TypeOK
  <2>4. Searched'
        BY <2>1, <2>3, <1>1 DEF Searched, Picked
  <2> QED BY <2>2, <2>4, <1>2 DEF MinimizerInv
<1>5. CASE NextStatement
  <2>1. /\ phase = "reducing" /\ phase' = "reducing" /\ i' = i + 1 /\ tried' = {}
        /\ cur[i].parens \subseteq tried
        BY <1>5 DEF NextStatement, Untried
  <2>2. TypeOK'
        BY <2>1, <1>1 DEF TypeOK
  <2>3. \A j \in DOMAIN cur : j < i' => j < i \/ j = i
        BY <2>1, <1>1 DEF TypeOK
  <2>4. Searched'
        BY <2>1, <2>3, <1>1 DEF Searched, Picked
  <2> QED BY <2>2, <2>4, <1>2 DEF MinimizerInv
<1>6. CASE EndPass
  <2>1. phase = "reducing" /\ phase' = "emitting" /\ i > Len(cur) /\ i' = i
        BY <1>6 DEF EndPass
  <2>2. TypeOK'
        BY <2>1, <1>1 DEF TypeOK
  <2>3. \A j \in DOMAIN cur : j < i
        BY <2>1, <1>1 DEF TypeOK
  <2>4. Searched'
        BY <2>1, <2>3, <1>1 DEF Searched, Picked
  <2> QED BY <2>2, <2>4, <1>2 DEF MinimizerInv
<1> QED BY <1>3, <1>4, <1>5, <1>6

(* Once it is over nothing is claimed of the program.                      *)
LEMMA EndKeeps == ASSUME MinimizerInv, GiveUp \/ EmitResult PROVE MinimizerInv'
<1>1. TypeOK /\ OriginalOK
      BY DEF MinimizerInv
<1>2. /\ phase' = "over" /\ UNCHANGED <<tries, cur, i, original>>
      /\ spawns' = spawns \/ spawns' = spawns + 1
      BY DEF GiveUp, EmitResult, CompileBoth
<1>3. TypeOK' /\ OriginalOK'
      BY <1>1, <1>2 DEF TypeOK, OriginalOK
<1>4. ~ Picked'
      BY <1>2 DEF Picked
<1> QED BY <1>3, <1>4 DEF MinimizerInv, Kept, Searched

(* Every step of the search keeps the invariant.                           *)
LEMMA InvKept == MinimizerInv /\ [Next]_vars => MinimizerInv'
<1> SUFFICES ASSUME MinimizerInv, [Next]_vars PROVE MinimizerInv'
    OBVIOUS
<1>1. CASE Pick
      BY <1>1, PickKeeps
<1>2. CASE TryRemove
      BY <1>2, TryRemoveKeeps
<1>3. CASE TryReduce
      BY <1>3, TryReduceKeeps
<1>4. CASE SkipDecl \/ EndRemovals \/ NextStatement \/ EndPass
      BY <1>4, MoveKeeps
<1>5. CASE GiveUp \/ EmitResult
      BY <1>5, EndKeeps
<1>6. CASE UNCHANGED vars
      BY <1>6 DEF vars, MinimizerInv, TypeOK, OriginalOK, Kept, Searched, Picked
<1> QED BY <1>1, <1>2, <1>3, <1>4, <1>5, <1>6 DEF Next

(* The inductive invariant: types, the reduction, and how far the search   *)
(* for a smaller program has come.                                         *)
THEOREM MinimizerInvariant == Spec => []MinimizerInv
BY InvInitially, InvKept, PTL DEF Spec

-----------------------------------------------------------------------------
(* The theorems. *)

(* Types, whatever the programs, the number of tries and the cap           *)
(* (minimize_selftest).                                                    *)
THEOREM TypeCorrect == Spec => []TypeOK
<1>1. MinimizerInv => TypeOK
      BY DEF MinimizerInv
<1> QED BY <1>1, MinimizerInvariant, PTL

(* What is left is a reduction of the program picked, and both compilers   *)
(* accepted it: no class file of an earlier attempt vouches for it         *)
(* (compile_both, reset_dir).                                              *)
THEOREM KeptHolds == Spec => []Kept
<1>1. MinimizerInv => Kept
      BY DEF MinimizerInv
<1> QED BY <1>1, MinimizerInvariant, PTL

(* The program written out is minimal unless the cap was reached           *)
(* (minimize_selftest starts over after every success).                    *)
THEOREM MinimalHolds == Spec => []Minimal
<1>1. MinimizerInv => Minimal
  <2> SUFFICES ASSUME MinimizerInv, phase = "emitting", spawns < Cap,
                      NEW cand \in Removed(cur) \cup Unparenthesized(cur)
               PROVE  cand \in refused
      BY DEF Minimal
  <2>1. Searched /\ Picked
        BY DEF MinimizerInv, Picked
  <2>2. CASE cand \in Removed(cur)
        BY <2>1, <2>2 DEF Searched, Removed
  <2>3. CASE cand \in Unparenthesized(cur)
        BY <2>1, <2>3 DEF Searched, Unparenthesized
  <2> QED BY <2>2, <2>3
<1> QED BY <1>1, MinimizerInvariant, PTL

=============================================================================
