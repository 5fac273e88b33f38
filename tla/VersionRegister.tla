-------------------------- MODULE VersionRegister --------------------------
(***************************************************************************)
(* What an update by diff promises: a holder of versions has one of them   *)
(* at every moment, with all of its items and no others, and takes another *)
(* as a whole, once each of its items is held already or has arrived.      *)
(***************************************************************************)
CONSTANTS Item, Version

VARIABLES contents,  \* [Version -> SUBSET Item]
          version,   \* the version that is held
          held,      \* the items that are held
          arrived    \* the items that have come since

vars == <<contents, version, held, arrived>>

Init == /\ contents \in [Version -> SUBSET Item]
        /\ version \in Version
        /\ held = contents[version]
        /\ arrived = {}

Arrive == /\ \E i \in Item : arrived' = arrived \cup {i}
          /\ UNCHANGED <<contents, version, held>>

Forget == arrived' = {} /\ UNCHANGED <<contents, version, held>>

Take == /\ \E v \in Version : /\ contents[v] \subseteq held \cup arrived
                              /\ version' = v
                              /\ held' = contents[v]
        /\ UNCHANGED <<contents, arrived>>

Next == Arrive \/ Forget \/ Take

Spec == Init /\ [][Next]_vars
=============================================================================
