------------------------------- MODULE LeafMap -------------------------------
(***************************************************************************)
(* What a store of leaves promises: a leaf is kept with all that belongs   *)
(* to it or is not kept, storing leaves loses none, and a call that fails  *)
(* has stored a beginning of what it was given.                            *)
(***************************************************************************)
EXTENDS Integers

CONSTANT Item

VARIABLES volatile,  \* what is kept ends with the process, and no call fails
          calls,     \* the items of each call there may be, numbered in its order
          kept       \* the items that are kept

vars == <<volatile, calls, kept>>

Init == volatile \in BOOLEAN /\ kept = {}

\* The callers have other items.
Prepare == UNCHANGED <<volatile, kept>>

Beginnings(call) == {s \in SUBSET DOMAIN call :
                        \A i \in s, j \in DOMAIN call : call[j] <= call[i] => j \in s}

Store == /\ \E call \in calls :
               \E s \in IF volatile THEN {DOMAIN call} ELSE Beginnings(call) :
                   kept' = kept \cup s
         /\ UNCHANGED <<volatile, calls>>

Delete == /\ \E i \in Item : kept' = kept \ {i}
          /\ UNCHANGED <<volatile, calls>>

End == /\ volatile /\ kept' = {}
       /\ UNCHANGED <<volatile, calls>>

Next == Prepare \/ Store \/ Delete \/ End

Spec == Init /\ [][Next]_vars
=============================================================================
