------------------------------ MODULE Mailbox ------------------------------
(***************************************************************************)
(* What a mailbox of ExtRqManager promises: one slot per command and a put *)
(* that replaces what the slot holds, in one step; a pop that is not one   *)
(* step, but takes the item of the least command all the same, unless a    *)
(* put to a slot that was empty comes too late to be seen by this pop.     *)
(***************************************************************************)
EXTENDS Integers

CONSTANTS
  Commands,   \* how many commands there are
  Items       \* what can be put; 0, an empty slot, is not among them

VARIABLES
  slots,
  popping,    \* whether a pop has begun and not yet taken anything
  overlooked  \* the slots filled too late for it

vars == <<slots, popping, overlooked>>

Cmds == 0 .. Commands - 1
Filled(c) == slots[c] # 0 /\ c \notin overlooked

Init ==
  /\ slots = [c \in Cmds |-> 0]
  /\ popping \in BOOLEAN
  /\ overlooked = {}

\* Too late comes only what is put into an empty slot, and only if the pop has
\* nothing to take before it.
Put(c, item) ==
  /\ slots' = [slots EXCEPT ![c] = item]
  /\ \/ UNCHANGED overlooked
     \/ /\ popping /\ slots[c] = 0 /\ \A d \in 0 .. c : ~Filled(d)
        /\ overlooked' = overlooked \cup {c}
  /\ UNCHANGED popping

Begin ==
  /\ ~popping
  /\ popping' = TRUE
  /\ UNCHANGED <<slots, overlooked>>

Pop(c) ==
  /\ popping
  /\ Filled(c) /\ \A d \in 0 .. c - 1 : ~Filled(d)
  /\ slots' = [slots EXCEPT ![c] = 0]
  /\ popping' = FALSE
  /\ overlooked' = {}

\* There is nothing to take.
Miss ==
  /\ popping
  /\ \A c \in Cmds : ~Filled(c)
  /\ popping' = FALSE
  /\ overlooked' = {}
  /\ UNCHANGED slots

Next ==
  \/ Begin \/ Miss
  \/ \E c \in Cmds : Pop(c) \/ \E item \in Items : Put(c, item)

Spec == Init /\ [][Next]_vars
=============================================================================
