--------------------------- MODULE MCStreamReader ---------------------------
(* Instances of StreamReader for TLC: two stack threads, and an APDU that    *)
(* converts to the DDS type or does not.                                     *)
EXTENDS StreamReader

CONSTANTS s1, s2, fits, tooLong
=============================================================================
