--------------------------- MODULE MCRacingReader ---------------------------
(* Instances of RacingReader for TLC: two stack threads.                     *)
EXTENDS RacingReader, TLC

CONSTANTS s1, s2, fits, tooLong

Symmetry == Permutations(Stacks)
=============================================================================
