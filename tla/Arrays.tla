------------------------------- MODULE Arrays -------------------------------
(***************************************************************************)
(* The RTIDNP3_ARRAY_* macros of dnp3msgbus/Utils.h.  An array is the      *)
(* sequence of its first currentSize slots; indices are the code's, from   *)
(* 0, so slot i is element i + 1 of the sequence.  The spare capacity and  *)
(* its growth (RTIDNP3_Array_expand) are abstracted away: every array the  *)
(* message bus and the adapter create has no maximum size, and running out *)
(* of memory is not modelled, so adding an element is Append.              *)
(***************************************************************************)
EXTENDS Integers, SequencesExt

Indices(arr) == 0 .. Len(arr) - 1

\* Each slot behind the index gets the element of the next one.  The comparison of
\* the macro is unsigned: a negative index is out of range
\* like one past the end, and nothing is removed.
RemoveByIndex(arr, i) ==
    IF i \in Indices(arr)
    THEN [k \in 1 .. Len(arr) - 1 |-> IF k <= i THEN arr[k] ELSE arr[k + 1]]
    ELSE arr
=============================================================================
