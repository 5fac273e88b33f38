-------------------------------- MODULE Wire --------------------------------
(***************************************************************************)
(* What can happen to a leaf on its way.  Three kinds of damage differ in  *)
(* what a receiver can notice of them:                                     *)
(*   leaf      content, or fields that the leaf's hash covers, change      *)
(*   proof     a proof changes that is there to be checked                 *)
(*   unhashed  what no hash covers changes: the Links of the leaf, the     *)
(*             Proofs that it brings along, the parent it is declared      *)
(*             under                                                       *)
(* A changed hash names no leaf that anyone has.                           *)
(***************************************************************************)
EXTENDS LeafSequence

DamageKinds == {"leaf", "proof", "unhashed"}

Unknown == -1   \* a hash that names no leaf

\* VerifyLeaf and VerifyRootLeaf notice this.
Garbled(copy) == [copy EXCEPT !.intact = FALSE]

Broken(proofs, S) ==
    [c \in DOMAIN proofs |-> IF c \in S THEN [leaf |-> c, tree |-> {}] ELSE proofs[c]]

\* An entry of the Links is lost, or changes.
Relinked(copy) ==
    {[copy EXCEPT !.links = (@ \ {c}) \cup new] : c \in copy.links, new \in {{}, {Unknown}}}
=============================================================================
