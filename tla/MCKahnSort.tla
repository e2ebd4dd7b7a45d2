----------------------------- MODULE MCKahnSort -----------------------------
(* All 4096 graphs without self loops on four steps (the smallest number   *)
(* with diamonds, two disjoint cycles, and a cycle with a tail), and two   *)
(* malformed ones.                                                         *)
EXTENDS KahnSort, TLC

CONSTANTS n1, n2, n3, n4, ghost

MCDeclared == <<n1, n2, n3, n4>>
MCNodes == {n1, n2, n3, n4}
NoDeps == [n \in MCNodes |-> {}]

MCGraphs ==
    {g \in [MCNodes -> SUBSET MCNodes] : \A n \in MCNodes : n \notin g[n]}
    \cup {[NoDeps EXCEPT ![n2] = {n2}], [NoDeps EXCEPT ![n3] = {ghost}]}
=============================================================================
