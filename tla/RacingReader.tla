---------------------------- MODULE RacingReader ----------------------------
(***************************************************************************)
(* The stream reader of StreamReader, one access to shared memory at a     *)
(* time: the array macros that onAPDU and read expand, which read and      *)
(* write currentSize and the slots with no lock.  Under Spec the threads   *)
(* interleave as they may in the program.  Under SerialSpec a thread that  *)
(* is inside a macro is not interrupted, which is what a lock around each  *)
(* macro would give: then StreamReader describes the code.                 *)
(*                                                                         *)
(* The array has spare capacity for MaxReceived elements (10 in the code), *)
(* so it is never reallocated here.                                        *)
(***************************************************************************)
EXTENDS ReaderParameters

VARIABLES
    received,      \* the APDUs stored in the array so far: copy k is of received[k]
    slots,         \* reader->apdus[0 .. MaxReceived - 1], 0 for a null pointer
    currentSize,   \* reader->apdusData->currentSize
    freed,
    stackPc,       \* per stack thread: where it is in onAPDU
    stackSize,     \* per stack thread: the currentSize its increment has read
    notified,
    pc,            \* the session thread, inside read: "idle", "convert", "remove",
                   \* then "shift" and "store" of a removal, or "loan"
    samplesSize, i, output,
    apdu,          \* the copy the second loop removes
    shifted,       \* rm_el_byi_i
    size,          \* the currentSize its decrement has read
    taken, delivered, doubleFree,
    fault          \* "none", or the undefined behaviour met

stackVars == <<stackPc, stackSize>>
session == <<pc, samplesSize, i, output, apdu, shifted, size, taken, delivered,
             doubleFree>>
vars == <<received, slots, currentSize, freed, stackVars, notified, session, fault>>

Adding(s) == stackPc[s] \in {"store", "slot"}
Removing == pc \in {"shift", "store"}

-----------------------------------------------------------------------------
(* DNP3Reader_onAPDU.                                                      *)

\* The copy is made and currentSize read, to be incremented.
OnAPDU(s) ==
    /\ stackPc[s] = "idle"
    /\ Len(received) + Cardinality({t \in Stacks : Adding(t)}) < MaxReceived
    /\ stackPc' = [stackPc EXCEPT ![s] = "store"]
    /\ stackSize' = [stackSize EXCEPT ![s] = currentSize]
    /\ UNCHANGED <<received, slots, currentSize, freed, notified, session, fault>>

Increment(s) ==
    /\ stackPc[s] = "store"
    /\ currentSize' = stackSize[s] + 1
    /\ stackPc' = [stackPc EXCEPT ![s] = "slot"]
    /\ UNCHANGED <<received, slots, freed, stackSize, notified, session, fault>>

\* currentSize is read again for the slot to write.
StoreSlot(s) ==
    /\ stackPc[s] = "slot"
    /\ \E a \in APDUs : received' = Append(received, a)
    /\ IF currentSize - 1 \in DOMAIN slots
       THEN /\ slots' = [slots EXCEPT ![currentSize - 1] = Len(received')]
            /\ UNCHANGED fault
       ELSE /\ fault' = "outOfArray"
            /\ UNCHANGED slots
    /\ stackPc' = [stackPc EXCEPT ![s] = "notify"]
    /\ UNCHANGED <<currentSize, freed, stackSize, notified, session>>

Notify(s) ==
    /\ stackPc[s] = "notify"
    /\ stackPc' = [stackPc EXCEPT ![s] = "idle"]
    /\ notified' = TRUE
    /\ UNCHANGED <<received, slots, currentSize, freed, stackSize, session, fault>>

-----------------------------------------------------------------------------
(* DNP3StreamReader_read and _returnLoan.                                  *)

ReadStart ==
    /\ pc = "idle"
    /\ pc' = "convert"
    /\ samplesSize' = currentSize
    /\ i' = 0 /\ output' = << >>
    /\ notified' = FALSE
    /\ UNCHANGED <<received, slots, currentSize, freed, stackVars, apdu, shifted, size,
                   taken, delivered, doubleFree, fault>>

\* A copy that does not convert gives no sample.  A slot that was counted but not
\* written holds a null pointer, or a copy freed by an earlier read.
ReadConvert ==
    /\ pc = "convert" /\ i < samplesSize
    /\ IF slots[i] = 0 \/ slots[i] \in freed
       THEN /\ fault' = "badAPDU"
            /\ UNCHANGED <<i, output>>
       ELSE /\ i' = i + 1
            /\ output' = IF received[slots[i]] \in Convertible
                         THEN Append(output, slots[i]) ELSE output
            /\ UNCHANGED fault
    /\ UNCHANGED <<received, slots, currentSize, freed, stackVars, notified, pc,
                   samplesSize, apdu, shifted, size, taken, delivered, doubleFree>>

ReadConverted ==
    /\ pc = "convert" /\ i >= samplesSize
    /\ pc' = "remove"
    /\ UNCHANGED <<received, slots, currentSize, freed, stackVars, notified,
                   samplesSize, i, output, apdu, shifted, size, taken, delivered,
                   doubleFree, fault>>

\* The copy is fetched, and the removal begins if the index is in the array; the
\* copy is freed in any case.
ReadRemove ==
    /\ pc = "remove" /\ i > 0
    /\ apdu' = slots[i - 1]
    /\ IF i - 1 < currentSize
       THEN /\ pc' = "shift" /\ shifted' = i - 1
            /\ UNCHANGED <<i, freed, doubleFree>>
       ELSE /\ i' = i - 1
            /\ freed' = freed \cup {apdu'}
            /\ doubleFree' = (doubleFree \/ apdu' \in freed)
            /\ UNCHANGED <<pc, shifted>>
    /\ UNCHANGED <<received, slots, currentSize, stackVars, notified, samplesSize,
                   output, size, taken, delivered, fault>>

\* An iteration of the loop of the removal.
Shift ==
    /\ pc = "shift" /\ shifted < currentSize - 1
    /\ slots' = [slots EXCEPT ![shifted] = slots[shifted + 1]]
    /\ shifted' = shifted + 1
    /\ UNCHANGED <<received, currentSize, freed, stackVars, notified, pc, samplesSize,
                   i, output, apdu, size, taken, delivered, doubleFree, fault>>

\* The last test of the loop, and the read of the decrement.
Shifted ==
    /\ pc = "shift" /\ shifted >= currentSize - 1
    /\ pc' = "store"
    /\ size' = currentSize
    /\ UNCHANGED <<received, slots, currentSize, freed, stackVars, notified,
                   samplesSize, i, output, apdu, shifted, taken, delivered,
                   doubleFree, fault>>

\* currentSize is written, and the copy is freed.
Decrement ==
    /\ pc = "store"
    /\ pc' = "remove"
    /\ currentSize' = size - 1
    /\ i' = i - 1
    /\ freed' = freed \cup {apdu}
    /\ doubleFree' = (doubleFree \/ apdu \in freed)
    /\ UNCHANGED <<received, slots, stackVars, notified, samplesSize, output, apdu,
                   shifted, size, taken, delivered, fault>>

ReadReturn ==
    /\ pc = "remove" /\ i = 0
    /\ pc' = "loan"
    /\ taken' = taken + samplesSize
    /\ delivered' = delivered \o output
    /\ UNCHANGED <<received, slots, currentSize, freed, stackVars, notified,
                   samplesSize, i, output, apdu, shifted, size, doubleFree, fault>>

ReturnLoan ==
    /\ pc = "loan"
    /\ pc' = "idle"
    /\ samplesSize' = 0 /\ output' = << >>
    /\ UNCHANGED <<received, slots, currentSize, freed, stackVars, notified, i, apdu,
                   shifted, size, taken, delivered, doubleFree, fault>>

-----------------------------------------------------------------------------
Init ==
    /\ received = << >> /\ slots = [k \in 0 .. MaxReceived - 1 |-> 0]
    /\ currentSize = 0 /\ freed = {}
    /\ stackPc = [s \in Stacks |-> "idle"] /\ stackSize = [s \in Stacks |-> 0]
    /\ notified = FALSE
    /\ pc = "idle" /\ samplesSize = 0 /\ i = 0 /\ output = << >>
    /\ apdu = 0 /\ shifted = 0 /\ size = 0
    /\ taken = 0 /\ delivered = << >> /\ doubleFree = FALSE
    /\ fault = "none"

StackStep(s) == OnAPDU(s) \/ Increment(s) \/ StoreSlot(s) \/ Notify(s)

SessionStep == ReadStart \/ ReadConvert \/ ReadConverted \/ ReadRemove \/ Shift
               \/ Shifted \/ Decrement \/ ReadReturn \/ ReturnLoan

Next == fault = "none" /\ ((\E s \in Stacks : StackStep(s)) \/ SessionStep)

SerialNext ==
    /\ fault = "none"
    /\ \/ \E s \in Stacks : /\ ~ Removing
                            /\ \A t \in Stacks \ {s} : ~ Adding(t)
                            /\ StackStep(s)
       \/ (\A s \in Stacks : ~ Adding(s)) /\ SessionStep

Spec == Init /\ [][Next]_vars
SerialSpec == Init /\ [][SerialNext]_vars

-----------------------------------------------------------------------------
(* Properties.                                                             *)

\* The array as it was when the macro that is running, if any, began.
Array ==
    IF Removing
    THEN [k \in 1 .. currentSize |->
             IF k = i THEN apdu
             ELSE IF k > i /\ k <= shifted + 1 THEN slots[k - 2] ELSE slots[k - 1]]
    ELSE IF \E s \in Stacks : stackPc[s] = "slot"
    THEN [k \in 1 .. currentSize - 1 |-> slots[k - 1]]
    ELSE [k \in 1 .. currentSize |-> slots[k - 1]]

\* When the macros do not overlap, their loops, loads and stores amount to the single
\* steps of StreamReader: appending an element, removing the one at an index.
Macros == INSTANCE StreamReader
    WITH apdus <- Array,
         notifying <- {s \in Stacks : stackPc[s] = "notify"},
         pc <- IF Removing THEN "remove" ELSE pc
MacrosImplemented == Macros!Spec

\* The APDUs that pass the filter "will be propagated to the route's reader"
\* (USERS_MANUAL.md:400-402): when no thread is inside the reader, each one stored
\* is in the array or was read.
NoAPDULost ==
    (pc = "idle" /\ \A s \in Stacks : stackPc[s] = "idle")
    => \A k \in 1 .. Len(received) :
          k \in freed \/ \E j \in 0 .. currentSize - 1 : slots[j] = k
=============================================================================
