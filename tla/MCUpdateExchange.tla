-------------------------- MODULE MCUpdateExchange --------------------------
(* Three versions of a small DAG.                                          *)
EXTENDS UpdateExchange

\* Two files, a directory and three roots.  The hashes of the roots lie below,
\* between and above the others.
SixLeaves == 1..6
ThreeRoots == {1, 4, 6}

\* The versions may have the directory, parts of it, a file of it beside it, or
\* nothing at all: from one to another leaves are only added, only removed, or
\* come up a level.
ThreeVersions ==
    {s \in [SixLeaves -> {{}, {3}, {5}, {2, 3}, {2, 5}, {3, 5}}] :
        /\ s[2] = {} /\ s[3] = {} /\ s[5] = {2, 3}
        /\ s[1] \in {{}, {5}}
        /\ s[4] \in {{5}, {2, 5}, {3}}
        /\ s[6] \in {{2, 3}, {3, 5}}}
=============================================================================
