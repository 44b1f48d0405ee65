-------------------------- MODULE MCRacingDispatch --------------------------
(* Instances of RacingDispatch for TLC: stacks and readers are model values  *)
(* that no definition tells apart.                                           *)
EXTENDS RacingDispatch, TLC

Symmetry == Permutations(Stacks) \cup Permutations(Readers)
=============================================================================
