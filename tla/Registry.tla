------------------------------ MODULE Registry ------------------------------
(***************************************************************************)
(* What the head's table of nodes promises about addresses, whatever the   *)
(* nodes are doing: a key that registers gets the lowest address nobody    *)
(* has, keeps it, and shares it with no other key, until the whole         *)
(* registry is forgotten.  The registry is a function from the addresses   *)
(* given out, which are always 0 .. n - 1, to the keys they were given to. *)
(***************************************************************************)
EXTENDS Integers

CONSTANTS MaxNodes, Keys

VARIABLE registry

Empty == [a \in {} |-> 0]

Init == registry = Empty

Register(key) ==
  \E n \in 0 .. MaxNodes - 1 :
    /\ DOMAIN registry = 0 .. n - 1
    /\ \A a \in DOMAIN registry : registry[a] # key
    /\ registry' = [a \in 0 .. n |-> IF a = n THEN key ELSE registry[a]]

Forget == registry' = Empty

Next == Forget \/ \E key \in Keys : Register(key)

Spec == Init /\ [][Next]_registry
=============================================================================
