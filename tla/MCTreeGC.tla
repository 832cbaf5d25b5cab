------------------------------ MODULE MCTreeGC ------------------------------
(***************************************************************************)
(* TreeGC for TLC: the constants a configuration file cannot spell.        *)
(***************************************************************************)
EXTENDS TreeGC, TLC

AnyContent == SUBSET Tree
SomeContent == SUBSET Tree \ {{}}
AllTrees == {Tree}
NoOffset == [c \in Client |-> 0]
AheadOffset == [c \in Client |-> 1]

Symmetry == Permutations(Client)
=============================================================================
