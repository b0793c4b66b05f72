------------------------------- MODULE MCRanging -------------------------------
(* Small instances of Ranging.                                             *)
EXTENDS Ranging, TLC

(* All nodes on; all networks of two tags or two anchors.                  *)
Everybody == {Node}
Threes == {on \in SUBSET Node : Cardinality(on) = 3}

NodeSymmetry == Permutations(Tags) \cup Permutations(Anchors)
================================================================================
