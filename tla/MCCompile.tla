----------------------------- MODULE MCCompile -----------------------------
(***************************************************************************)
(* The program families the runs of Compile compile.                       *)
(***************************************************************************)
EXTENDS Compile

a == Name("a")
b == Name("b")
z == Name("z")
T == Lit(TRUE)
F == Lit(FALSE)

P(at, n) == Println(at, Str(n))
Local(at, x, v) == Decl(at, x, "Integer", <<Lit(v)>>)
Blank(at, x, ty) == Decl(at, x, ty, <<>>)

Unary(S) == {Not(e) : e \in S} \cup {Paren(e) : e \in S} \cup {Cast(e) : e \in S}
Logical(S, R) == UNION {{And(l, r), Or(l, r)} : l \in S, r \in R}
Strict(S, R) == UNION {{Binary("iand", l, r), Compare("eq", l, r)} : l \in S, r \in R}
Binaries(S, R) == Logical(S, R) \cup Strict(S, R)

-----------------------------------------------------------------------------
(* Conditions: every expression of depth 1 over two locals and the two     *)
(* literals; at depth 2, every unary operator on one of those, and && and  *)
(* || with a leaf on either side.  Each is tested, stored and printed.     *)

Leaves == {T, F, a, b}
Depth1 == Leaves \cup Unary(Leaves) \cup Binaries(Leaves, Leaves)
Depth2 == Unary(Depth1) \cup Logical(Depth1 \ Leaves, {F, a}) \cup Logical({T, b}, Depth1 \ Leaves)

TestProg(va, vb, e) ==
  << Local(10, "a", va), Local(20, "b", vb),
     If(30, e, <<P(40, 11)>>, << <<P(50, 12)>> >>),
     Decl(60, "x", "Integer", <<e>>),
     Println(70, Name("x")) >>

ConditionPrograms ==
  {TestProg(v, ~ v, e) : v \in BOOLEAN, e \in Depth1 \cup Depth2}

(* Values above a live stack: what preflight has to refuse, and must not.  *)
ValueProgram(e) == << Local(10, "a", TRUE), Local(20, "b", FALSE), Println(30, e) >>
ValuePrograms ==
  {ValueProgram(e) : e \in Depth1 \cup Unary(Depth1)
                             \cup Binaries(Depth1, Leaves) \cup Binaries(Leaves, Depth1)}

-----------------------------------------------------------------------------
(* Nesting: ifs inside ifs, first, last or alone in an arm, with live,     *)
(* statically decided and code-free conditions; an unassigned long leaves  *)
(* a hole in every snapshot.  Every statement has a line of its own.       *)

Flip(at) == Assign(at, "z", Not(z))

Inner(at, conds) ==
  {If(at, c, <<t>>, e) : c \in conds,
                         t \in {P(at + 10, 1), Flip(at + 10)},
                         e \in {NoElse, << <<P(at + 20, 2)>> >>}}

Arms(at, conds) ==
  { <<>>, <<P(at, 3)>>, <<Flip(at)>> }
    \cup {<<i>> : i \in Inner(at, conds)}
    \cup {<<i, P(at + 30, 4)>> : i \in Inner(at, conds)}

Body(va, vb, ifStmt) ==
  << Local(10, "a", va), Local(20, "b", vb), Blank(30, "w", "Long"),
     Local(40, "z", TRUE), ifStmt, P(200, 5), Println(210, z) >>

NegatedShortcut == Not(Or(T, a))

NestedPrograms ==
  {Body(TRUE, vb, If(50, c, t, e)) :
     vb \in BOOLEAN,
     c \in {a, Not(a), Or(a, T), And(a, F), NegatedShortcut},
     t \in Arms(60, {b, T, NegatedShortcut}),
     e \in {NoElse, << <<P(110, 6)>> >>, << <<Flip(110)>> >>}
             \cup {<< <<i>> >> : i \in Inner(110, {b})}}

-----------------------------------------------------------------------------
(* Late initialization: z and the long w are declared without a value,     *)
(* assigned on some paths and read where Java may or may not allow it.     *)

SetZ(at) == Assign(at, "z", T)
SetW(at) == Assign(at, "w", LongZero)
ReadZ(at) == Println(at, z)

LateArms(at) ==
  { <<>>, <<SetZ(at)>>, <<SetW(at)>>, <<SetW(at), SetZ(at + 10)>>, <<ReadZ(at)>>,
    <<SetZ(at), If(at + 10, a, <<P(at + 20, 1)>>, NoElse), P(at + 30, 2)>> }

LateConditions ==
  {a, T, F, And(a, F), Or(a, T), Not(And(a, F)), And(F, z), Or(Paren(Or(a, T)), z),
   Compare("eq", T, F), Binary("ior", T, a)}

LatePrograms ==
  {<< Local(10, "a", va), Blank(20, "w", "Long"), Blank(30, "z", "Integer"),
      If(40, c, t, e) >> \o second \o <<last>> :
     va \in BOOLEAN, c \in LateConditions, t \in LateArms(50),
     e \in {NoElse} \cup {<<s>> : s \in LateArms(100) \ {<<>>}},
     second \in { <<>>, << If(150, Not(a), <<SetZ(160)>>, NoElse) >> },
     last \in {ReadZ(190), P(190, 3)}}

-----------------------------------------------------------------------------
(* Joins: the arms assign z, so that the frames of an arm and of the join  *)
(* differ.  With a MaxOffset of 26 most of these, and the longer ones of   *)
(* the nested and the late programs, do not fit narrow branches.           *)

JoinPrograms ==
  {<< Local(10, "a", va), Local(20, "b", vb), Blank(30, "z", "Integer"),
      If(40, c, <<SetZ(50), inner, P(90, 1)>>, << <<P(100, 7), SetZ(130), P(140, 2)>> >>),
      P(150, 3) >> :
     va, vb \in BOOLEAN, c \in {a, Or(a, b)},
     inner \in {j \in Inner(60, {b}) : j.then[1].k = "println"}}

(* One run compiles them all. *)
EveryProgram ==
  ConditionPrograms \cup ValuePrograms \cup NestedPrograms \cup LatePrograms \cup JoinPrograms

-----------------------------------------------------------------------------
(* The programs of the violation runs. *)

(* fixtures/branches/NestedIf.java: an if ends the then arm of another.    *)
NestedIfPrograms ==
  {<< Local(10, "a", va), Local(20, "b", vb),
      If(30, a, <<If(40, b, <<P(50, 1)>>, NoElse)>>, NoElse) >> : va, vb \in BOOLEAN}

(* boolean z; if (a) { z = true; if (b) println } println                  *)
LastIfPrograms ==
  {<< Local(10, "a", va), Local(20, "b", vb), Blank(30, "z", "Integer"),
      If(40, a, <<SetZ(50), If(60, b, <<P(70, 1)>>, NoElse)>>, NoElse), P(80, 2) >> :
     va, vb \in BOOLEAN}

=============================================================================
