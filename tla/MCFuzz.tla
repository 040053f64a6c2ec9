------------------------------- MODULE MCFuzz -------------------------------
(* Candidates that drift harmlessly, print something else, or throw.       *)
EXTENDS FuzzRun

SomeClasses == {"ref", "empty", "drift", "wrong", "thrower"}
SomeCases ==
  [javac : {"accepts"},
   njavac : {"unsupported", "syntax", "panic", "ref", "drift", "wrong", "thrower"}]
    \cup [javac : {"rejects"}, njavac : {"ref", "panic"}]
SomePrints == [c \in SomeClasses |-> IF c = "empty" THEN 0 ELSE 1]
SomeEndings == [c \in SomeClasses |-> CASE c = "empty" -> "LoadFailed"
                                        [] c = "thrower" -> "Threw"
                                        [] OTHER -> "Returned"]
SomeText == [c \in SomeClasses |-> IF c = "wrong" THEN "b" ELSE "a"]
SomeStructure == [c \in SomeClasses |-> IF c \in {"drift", "wrong"} THEN "code" ELSE "pool"]
=============================================================================
