--------------------------- MODULE UpdateExchange ---------------------------
(***************************************************************************)
(* DagUpdate with its senders: Diff and CreatePartialDag of                *)
(* src/diff/diff.go.  Whoever holds two versions may send the leaves that  *)
(* lead from one to the other; the receiver gets leaves of such parcels,   *)
(* from any of them, in any order.                                         *)
(***************************************************************************)
EXTENDS DagUpdate

\* The operators of a DAG with leaves L and root R.
InDag(L, R) == INSTANCE PartialDag WITH Leaf <- L, Root <- R
Version(v) == InDag(Contents(v), v)!FullDag(g)

\* Diff of two DAGs.
Diff(first, second) ==
    [added   |-> [l \in DOMAIN second \ DOMAIN first |-> second[l]],
     removed |-> DOMAIN first \ DOMAIN second]

\* Mutant: only the root is asked for.
PartialOfRoot(diff, v) == InDag(Contents(v), v)!GetPartial(g, {v}, FALSE)

\* CreatePartialDag: what was added, with the way up to the root.
CreatePartialDag(diff, v) ==
    InDag(Contents(v), v)!GetPartial(g, DOMAIN diff.added, FALSE)

Parcel(base, v) == CreatePartialDag(Diff(Version(base), Version(v)), v)

ReceiveFromParcel ==
    \E base, v \in Roots :
        /\ base # v
        /\ \E l \in DOMAIN Parcel(base, v) : ReceiveLeaf(l, Parcel(base, v)[l].proofs)

NextExchange == ReceiveFromParcel \/ Discard \/ Update \/ Restart
SpecExchange == Init /\ [][NextExchange]_vars

-----------------------------------------------------------------------------
(* Properties *)

\* Sender and receiver see the same update: of a whole parcel made for its
\* version, the receiver's DiffFromNewLeaves adds and removes what the sender's
\* Diff did, and brings no leaf in vain.
DiffsAgree ==
    \A v \in Roots \ {root} :
        LET parcel == Parcel(root, v)
            sent == Diff(Version(root), Version(v))
            seen == DiffFromNewLeaves(leafs, parcel)
        IN  /\ DOMAIN seen.added = DOMAIN sent.added
            /\ seen.removed = sent.removed
            /\ DOMAIN parcel = DOMAIN sent.added

\* And applied, it yields that version and nothing else, which verifies.
CompleteUpdates ==
    \A v \in Roots \ {root} :
        LET results == ApplyToDAG(DiffFromNewLeaves(leafs, Parcel(root, v)), root, leafs)
        IN  /\ results # {}
            /\ \A d \in results : /\ d.root = v
                                  /\ DOMAIN d.leafs = Contents(v)
                                  /\ InDag(Contents(v), v)!Verify(g, d.leafs)

\* A parcel verifies by itself, as any DAG that is received should.
ParcelsVerify ==
    \A v \in Roots \ {root} : InDag(Contents(v), v)!Verify(g, Parcel(root, v))

\* It does verify unless its root has several children and brings none of them:
\* Verify wants a proof at such a root, and a parcel has proofs of new leaves only.
ParcelsVerifyWithAChild ==
    \A v \in Roots \ {root} :
        InDag(Contents(v), v)!Verify(g, Parcel(root, v)) <=>
            (CurrentLinkCount(g, v) <= 1 \/ g[v] \cap DOMAIN Parcel(root, v) # {})
=============================================================================
