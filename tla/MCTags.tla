------------------------------ MODULE MCTags ------------------------------
(***************************************************************************)
(* Instances of Tags for TLC.                                              *)
(***************************************************************************)
EXTENDS Tags, TLC

\* Messages, names and goroutines are interchangeable.
Symmetry == Permutations(Messages) \union Permutations(Names) \union Permutations(Workers)
============================================================================
