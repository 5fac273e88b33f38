------------------------------ MODULE LeafSync ------------------------------
(***************************************************************************)
(* What a transfer promises its receiver: the leaves it holds grow from    *)
(* the root downwards, each below a parent that commits to it, until it    *)
(* holds what the sender holds.  How leaves are packed, proved and merged  *)
(* is not said here.                                                       *)
(***************************************************************************)
EXTENDS Naturals

CONSTANTS Leaf, Root, Shapes

VARIABLES g,       \* the links each leaf was built with
          target,  \* the leaves the sender holds
          held     \* the leaves the receiver holds

vars == <<g, target, held>>

\* The root, and only leaves below other leaves of the set.
Anchored(S) == /\ Root \in S
               /\ \A l \in S \ {Root} : \E p \in S : l \in g[p]

Init == /\ g \in Shapes
        /\ target \subseteq Leaf
        /\ Anchored(target)
        /\ held = {}

Receive == /\ held' \subseteq target
           /\ held \subseteq held'
           /\ Anchored(held')
           /\ UNCHANGED <<g, target>>

Spec == Init /\ [][Receive]_vars
=============================================================================
