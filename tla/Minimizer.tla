----------------------------- MODULE Minimizer -----------------------------
(***************************************************************************)
(* The self test of the fuzzer's minimizer (fuzz/minimize.rs): pick the    *)
(* first random program both compilers accept, then drop statements and    *)
(* parentheses greedily while both still accept it, under a cap of         *)
(* compilations, and write down what is left.                              *)
(*                                                                         *)
(* A statement stands for the parentheses in it: stmt_paren_reductions     *)
(* yields one candidate for each, without it and otherwise the same.       *)
(***************************************************************************)
EXTENDS Integers, Sequences, SequencesExt

CONSTANTS
  Bodies,   \* the bodies of the generated programs
  Tries,    \* programs tried before giving up (200)
  Cap       \* compilations after which nothing is accepted (800)

Statement == [id : Nat, decl : BOOLEAN, parens : SUBSET Nat]

InOrder(body) == \A j, m \in DOMAIN body : j < m => body[j].id < body[m].id
ASSUME BodiesAssumption == Bodies \subseteq {body \in Seq(Statement) : InOrder(body)}
ASSUME BoundsAssumption == Tries \in Nat /\ Cap \in Nat

VARIABLES
  phase,     \* "picking", "removing", "reducing", "emitting" or "over"
  tries,
  cur,       \* the program, so far
  i,         \* the statement at hand
  tried,     \* its parentheses tried
  spawns,
  outDir,    \* the class file under out/: the body it was compiled from
  exit,      \* -1 while running
  original,  \* history: the body first picked
  genuine,   \* history: both compilers really accept cur
  refused    \* history: the candidates turned down since cur changed

vars == <<phase, tries, cur, i, tried, spawns, outDir, exit, original, genuine, refused>>

None == <<>>

Init ==
  /\ phase = "picking" /\ tries = 0
  /\ cur = <<>> /\ i = 0 /\ tried = {} /\ spawns = 0 /\ outDir = None
  /\ exit = -1
  /\ original = <<>> /\ genuine = FALSE /\ refused = {}

-----------------------------------------------------------------------------

ResetDirKept(dir) == dir   \* mutant: the old class stays
ResetDir(dir) == None

(* Both compilers on one body.  javac's verdict is the class file found    *)
(* under out/ afterwards, so what an earlier call left must be gone.       *)
CompileBoth(body, javac, njavac, accepted) ==
  /\ spawns' = spawns + 1
  /\ outDir' = IF javac THEN <<body>> ELSE ResetDir(outDir)
  /\ accepted <=> outDir' # None /\ njavac

Pick ==
  /\ phase = "picking" /\ tries < Tries
  /\ \E body \in Bodies, javac, njavac, accepted \in BOOLEAN :
       /\ CompileBoth(body, javac, njavac, accepted)
       /\ IF accepted
          THEN /\ phase' = "removing" /\ cur' = body /\ i' = Len(body)
               /\ original' = body /\ genuine' = (javac /\ njavac)
               /\ UNCHANGED tries
          ELSE tries' = tries + 1 /\ UNCHANGED <<phase, cur, i, original, genuine>>
  /\ UNCHANGED <<tried, exit, refused>>

GiveUp ==
  /\ phase = "picking" /\ tries = Tries
  /\ phase' = "over" /\ exit' = 1
  /\ UNCHANGED <<tries, cur, i, tried, spawns, outDir, original, genuine, refused>>

(* Mutants: a success does not start over; nor does it reset the index.     *)
TestOnwards(cand, Otherwise) ==
  /\ \E javac, njavac, accepted \in BOOLEAN :
       /\ CompileBoth(cand, javac, njavac, accepted)
       /\ Otherwise
       /\ IF accepted /\ spawns' < Cap
          THEN cur' = cand /\ refused' = {} /\ genuine' = (javac /\ njavac)
          ELSE /\ refused' = IF accepted THEN refused ELSE refused \cup {cand}
               /\ UNCHANGED <<cur, genuine>>
  /\ UNCHANGED <<phase, tries, exit, original>>
TestKeepsIndex(cand, Otherwise) ==
  /\ \E javac, njavac, accepted \in BOOLEAN :
       /\ CompileBoth(cand, javac, njavac, accepted)
       /\ IF accepted /\ spawns' < Cap
          THEN phase' = "removing" /\ cur' = cand /\ refused' = {} /\ UNCHANGED <<i, tried>>
          ELSE Otherwise /\ UNCHANGED <<phase, cur, refused>>
  /\ UNCHANGED <<tries, exit, original, genuine>>

(* Go over the statements from the last to the first, again after every    *)
(* success; Otherwise tells where to go on after a failure.                *)
Test(cand, Otherwise) ==
  /\ \E javac, njavac, accepted \in BOOLEAN :
       /\ CompileBoth(cand, javac, njavac, accepted)
       /\ IF accepted /\ spawns' < Cap
          THEN /\ phase' = "removing" /\ cur' = cand /\ i' = Len(cand) /\ tried' = {}
               /\ genuine' = (javac /\ njavac)
               /\ refused' = {}
          ELSE /\ Otherwise
               /\ refused' = IF accepted THEN refused ELSE refused \cup {cand}
               /\ UNCHANGED <<phase, cur, genuine>>
  /\ UNCHANGED <<tries, exit, original>>

TryRemove ==
  /\ phase = "removing" /\ i > 0 /\ ~ cur[i].decl
  /\ Test(RemoveAt(cur, i), i' = i - 1 /\ UNCHANGED tried)

(* Mutant: on to the next round before the index is decremented.            *)
SkipDeclStuck ==
  /\ phase = "removing" /\ i > 0 /\ cur[i].decl
  /\ UNCHANGED vars

SkipDecl ==
  /\ phase = "removing" /\ i > 0 /\ cur[i].decl
  /\ i' = i - 1
  /\ UNCHANGED <<phase, tries, cur, tried, spawns, outDir, exit, original, genuine, refused>>

EndRemovals ==
  /\ phase = "removing" /\ i = 0
  /\ phase' = "reducing" /\ i' = 1 /\ tried' = {}
  /\ UNCHANGED <<tries, cur, spawns, outDir, exit, original, genuine, refused>>

Untried == cur[i].parens \ tried
Unparen(body, at, paren) == [body EXCEPT ![at].parens = @ \ {paren}]

TryReduce ==
  /\ phase = "reducing" /\ i <= Len(cur) /\ Untried # {}
  /\ \E paren \in Untried :
       /\ \A p \in Untried : paren <= p
       /\ Test(Unparen(cur, i, paren), tried' = tried \cup {paren} /\ UNCHANGED i)

NextStatement ==
  /\ phase = "reducing" /\ i <= Len(cur) /\ Untried = {}
  /\ i' = i + 1 /\ tried' = {}
  /\ UNCHANGED <<phase, tries, cur, spawns, outDir, exit, original, genuine, refused>>

EndPass ==
  /\ phase = "reducing" /\ i > Len(cur)
  /\ phase' = "emitting"
  /\ UNCHANGED <<tries, cur, i, tried, spawns, outDir, exit, original, genuine, refused>>

(* The result is written whether or not it compiles once more.             *)
EmitResult ==
  /\ phase = "emitting"
  /\ \E javac, njavac, accepted \in BOOLEAN : CompileBoth(cur, javac, njavac, accepted)
  /\ phase' = "over" /\ exit' = 0
  /\ UNCHANGED <<tries, cur, i, tried, original, genuine, refused>>

Next ==
  \/ Pick \/ GiveUp
  \/ TryRemove \/ SkipDecl \/ EndRemovals
  \/ TryReduce \/ NextStatement \/ EndPass
  \/ EmitResult

(* One thread, and both compilers come back.                               *)
Spec == Init /\ [][Next]_vars /\ WF_vars(Next)

-----------------------------------------------------------------------------
(* Properties. *)

Picked == phase \in {"removing", "reducing", "emitting"}

(* The one type invariant.                                                 *)
TypeOK ==
  /\ phase \in {"picking", "removing", "reducing", "emitting", "over"}
  /\ cur \in Seq(Statement)
  /\ i \in Nat
  /\ spawns \in Nat /\ tries \in 0..Tries
  /\ phase = "removing" => i <= Len(cur)
  /\ phase = "reducing" => i > 0

(* What is left is the picked program with statements and parentheses      *)
(* missing and nothing else: in order, with every declaration.  And both   *)
(* compilers accepted it as it stands: it was not taken for accepted       *)
(* because of a class file an earlier attempt left behind (compile_both,   *)
(* reset_dir, minimize_selftest).                                          *)
ReductionOf(body, whole) ==
  /\ \A j \in DOMAIN body : \E m \in DOMAIN whole :
       /\ body[j].id = whole[m].id /\ body[j].decl = whole[m].decl
       /\ body[j].parens \subseteq whole[m].parens
  /\ InOrder(body)
  /\ \A m \in DOMAIN whole : whole[m].decl => \E j \in DOMAIN body : body[j].id = whole[m].id
Kept == Picked => genuine /\ ReductionOf(cur, original)

(* Unless the cap was reached the result is minimal: each statement that   *)
(* is not a declaration and each pair of parentheses was tried on exactly  *)
(* this program, and refused (minimize_selftest starts over after every    *)
(* success).                                                               *)
Removed(body) == {RemoveAt(body, j) : j \in {m \in DOMAIN body : ~ body[m].decl}}
Unparenthesized(body) ==
  UNION {{Unparen(body, j, p) : p \in body[j].parens} : j \in DOMAIN body}
Minimal ==
  phase = "emitting" /\ spawns < Cap =>
    Removed(cur) \cup Unparenthesized(cur) \subseteq refused

(* How far the search for a smaller program has come: what it has passed   *)
(* was refused.                                                            *)
Searched ==
  Picked /\ spawns < Cap =>
    /\ \A j \in DOMAIN cur :
         (phase = "removing" => j > i) /\ ~ cur[j].decl => RemoveAt(cur, j) \in refused
    /\ phase # "removing" =>
         \A j \in DOMAIN cur : \A p \in cur[j].parens :
           (phase = "reducing" => j < i \/ (j = i /\ p \in tried))
             => Unparen(cur, j, p) \in refused

OriginalOK == original \in Seq(Statement) /\ InOrder(original)
MinimizerInv == TypeOK /\ OriginalOK /\ Kept /\ Searched

(* It ends, however the compilers answer.                                  *)
Ends == <>(phase = "over")

=============================================================================
