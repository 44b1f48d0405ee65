------------------------------ MODULE Listeners ------------------------------
(* What Dispatch and RacingDispatch, the two granularities of the callbacks  *)
(* of the message bus, are about.                                            *)
EXTENDS Arrays

CONSTANTS
    Stacks,        \* threads that call back into the bus, one for each proxy
    Readers,       \* stream readers that can be created, each once
    NoListener     \* a null pointer, and the loop's listener outside its body

\* A listener that was fetched can be told from none.
ASSUME NoListenerAssumption == NoListener \notin Readers

\* The array of listeners has a last slot.
ASSUME FiniteReadersAssumption == IsFiniteSet(Readers)
=============================================================================
