----------------------------- MODULE SlotTable -----------------------------
(***************************************************************************)
(* What a constant pool promises its users, whatever it stores: a slot is  *)
(* handed out once, slots are contiguous, and an item keeps the slot it    *)
(* was given.  The promise ends when the slots have run out.               *)
(***************************************************************************)
EXTENDS Naturals

CONSTANTS
  ItemWidth(_),   \* how many slots an item takes
  Slots           \* slots are below this number

VARIABLES
  slot,        \* the slot of each stored item
  free,        \* the next slot
  exhausted    \* TRUE once an item did not fit

slotVars == <<slot, free, exhausted>>

Init ==
  /\ slot = <<>>
  /\ free = 1
  /\ exhausted = FALSE

Store ==
  \E item \in DOMAIN slot' \ DOMAIN slot :
    /\ free + ItemWidth(item) < Slots
    /\ slot' = [i \in DOMAIN slot \cup {item} |-> IF i = item THEN free ELSE slot[i]]
    /\ free' = free + ItemWidth(item)
    /\ exhausted = FALSE
    /\ UNCHANGED exhausted

Exhaust ==
  \E item \in DOMAIN slot' \ DOMAIN slot :
    /\ free + ItemWidth(item) >= Slots
    /\ exhausted' = TRUE

AfterExhaustion == exhausted /\ exhausted'

Next == Store \/ Exhaust \/ AfterExhaustion

Spec == Init /\ [][Next]_slotVars

=============================================================================
