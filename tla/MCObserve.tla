----------------------------- MODULE MCObserve -----------------------------
(* One class of each ending; the hanging one prints first. *)
EXTENDS ObserveWorker

AllClasses == {"quick", "thrower", "invalid", "looper"}
SomePrints == [c \in AllClasses |-> CASE c = "quick" -> 2 [] c = "invalid" -> 0 [] OTHER -> 1]
SomeEndings == [c \in AllClasses |-> CASE c = "quick" -> "Returned" [] c = "thrower" -> "Threw"
                                       [] c = "invalid" -> "LoadFailed" [] OTHER -> "Hangs"]

=============================================================================
