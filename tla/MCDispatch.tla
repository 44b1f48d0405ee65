----------------------------- MODULE MCDispatch -----------------------------
(* Instances of Dispatch for TLC: stacks and readers are model values that   *)
(* no definition tells apart.                                                *)
EXTENDS Dispatch, TLC

Symmetry == Permutations(Stacks) \cup Permutations(Readers)
=============================================================================
