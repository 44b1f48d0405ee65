--------------------------- MODULE ReaderParameters ---------------------------
(* What StreamReader and RacingReader, the two granularities of a stream     *)
(* reader, are about.                                                        *)
EXTENDS Integers, FiniteSets, Sequences

CONSTANTS
    Stacks,        \* threads that deliver APDUs, one for each DNP3 proxy
    APDUs,         \* what an APDU that passes the filter can contain
    Convertible,   \* the APDUs whose buffer fits the DDS type
    MaxReceived    \* bound on the APDUs received

ASSUME ReaderAssumption ==
    Convertible \subseteq APDUs /\ MaxReceived \in Nat
=============================================================================
