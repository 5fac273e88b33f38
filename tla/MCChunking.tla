------------------------------ MODULE MCChunking ------------------------------
(* Short files over two bytes, and a hash of four bits.                      *)
EXTENDS Chunking

MCGear == [byte \in {"a", "b"} |-> IF byte = "a" THEN 7 ELSE 12]

\* Every file of up to seven bytes, and longer ones whose chunks repeat, or
\* number more than ten.
MCContents ==
    UNION {[1..n -> DOMAIN MCGear] : n \in 0..7} \cup
    {[i \in 1..12 |-> "a"], [i \in 1..12 |-> "b"],
     [i \in 1..12 |-> IF i % 3 = 0 THEN "a" ELSE "b"]}

MCFixedSizes == {-1, 1, 3}
===============================================================================
