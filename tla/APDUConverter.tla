--------------------------- MODULE APDUConverter ---------------------------
(***************************************************************************)
(* The two conversions of the adapter: an APDU of the bus to the DDS type  *)
(* SimpleAPDU (APDUConverter_convertToDDS_simple) and back (_convertToDNP3 *)
(* _simple).  Addresses are int in an APDU and short in a sample; the      *)
(* types of an APDU are three, those of a sample two; a buffer of more     *)
(* than MaxBuffer octets does not fit in a sample.                         *)
(***************************************************************************)
EXTENDS Integers

CONSTANTS
    HalfShort,   \* 2^15: a short is in -HalfShort .. HalfShort - 1
    MaxBuffer    \* APDU_MAX_BUFFER_SIZE

ASSUME ConverterAssumption == HalfShort \in Nat \ {0} /\ MaxBuffer \in Nat

Shorts == -HalfShort .. HalfShort - 1
UShorts == 0 .. 2 * HalfShort - 1

\* An int that is a short, or an unsigned short, assigned to a short.
Short(n) == IF n < HalfShort THEN n ELSE n - 2 * HalfShort

APDUTypes == {"REQUEST", "RESPONSE", "UNSOL_RESPONSE"}
NoType == "-1"   \* what a type that has no counterpart is converted to

\* Both switches of the converter: unsolicited responses are commented out.
ConvertAPDUType(type) == IF type \in {"REQUEST", "RESPONSE"} THEN type ELSE NoType

Fits(apdu) == apdu.buffer_size <= MaxBuffer

ConvertToDDS(apdu) ==
    [src  |-> [address |-> Short(apdu.src), is_master |-> apdu.master],
     dest |-> [address |-> Short(apdu.dest), is_master |-> ~ apdu.master],
     type |-> ConvertAPDUType(apdu.type),
     buffer_size |-> apdu.buffer_size,
     buffer |-> apdu.buffer]

\* Mutants of ConvertToDNP3: the addresses are exchanged, or read as unsigned.
SwappedConvertToDNP3(sample) ==
    [src |-> sample.dest.address, dest |-> sample.src.address,
     master |-> sample.src.is_master, type |-> ConvertAPDUType(sample.type),
     buffer_size |-> sample.buffer_size, buffer |-> sample.buffer]

UnsignedConvertToDNP3(sample) ==
    [src |-> sample.src.address % (2 * HalfShort),
     dest |-> sample.dest.address % (2 * HalfShort),
     master |-> sample.src.is_master, type |-> ConvertAPDUType(sample.type),
     buffer_size |-> sample.buffer_size, buffer |-> sample.buffer]

ConvertToDNP3(sample) ==
    [src |-> sample.src.address, dest |-> sample.dest.address,
     master |-> sample.src.is_master,
     type |-> ConvertAPDUType(sample.type),
     buffer_size |-> sample.buffer_size,
     buffer |-> sample.buffer]
=============================================================================
