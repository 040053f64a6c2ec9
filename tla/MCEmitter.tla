----------------------------- MODULE MCEmitter -----------------------------
(***************************************************************************)
(* A small instance of Emitter: one way to push a word and one to pop it.  *)
(***************************************************************************)
EXTENDS Emitter

SomeStraight == {Simple("iconst_0"), Instr("istore", 1)}
SomeLocals == { <<"Integer">> }

(* Lines multiply the recordings: those that have any are kept shorter.    *)
HasLines == em.lineEvents # <<>> \/ em.pendingLine # NoLine
ShortWithLines ==
  stage = "recording" /\ HasLines => Count(em) <= 4 /\ Len(em.labels) <= 1
=============================================================================
