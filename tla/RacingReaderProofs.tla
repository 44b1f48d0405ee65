------------------------- MODULE RacingReaderProofs -------------------------
(***************************************************************************)
(* Proofs about RacingReader under SerialSpec: if threads inside an array  *)
(* macro are not interrupted, the loads, stores and loops of the macros    *)
(* are the single steps of StreamReader.  The theorems about StreamReader  *)
(* are then instantiated with the array that Array computes, and hold of   *)
(* the slots and currentSize of the code.                                  *)
(***************************************************************************)
EXTENDS RacingReader, FiniteSetTheorems, TLAPS

\* StreamReader and what is proved of it, for the array of this module: the same
\* substitution as Macros.
Serial == INSTANCE StreamReaderProofs
    WITH apdus <- Array,
         notifying <- {s \in Stacks : stackPc[s] = "notify"},
         pc <- IF Removing THEN "remove" ELSE pc

InSlot == \E s \in Stacks : stackPc[s] = "slot"

\* How many slots of the array are counted and written.
Held == IF InSlot THEN currentSize - 1 ELSE currentSize

SlotsTypeOK ==
    /\ slots \in [0 .. MaxReceived - 1 -> Nat] /\ currentSize \in Nat
    /\ stackPc \in [Stacks -> {"idle", "store", "slot", "notify"}]
    /\ stackSize \in [Stacks -> Nat]
    /\ pc \in {"idle", "convert", "remove", "shift", "store", "loan"}
    /\ shifted \in Nat /\ size \in Nat

\* At most one thread is inside a macro.
Exclusive ==
    \A s \in Stacks :
       Adding(s) => ~ Removing /\ \A t \in Stacks \ {s} : ~ Adding(t)

\* What a thread inside a macro knows: the size it has read is the size, there is
\* room for the element it adds, and the loop of a removal stays in the array.
InMacros ==
    /\ Len(received) <= MaxReceived
    /\ \A s \in Stacks : Adding(s) => Len(received) < MaxReceived
    /\ \A s \in Stacks : stackPc[s] = "store" => stackSize[s] = currentSize
    /\ \A s \in Stacks : stackPc[s] = "slot" => currentSize > 0
    /\ Removing => i \in 1 .. currentSize /\ shifted \in i - 1 .. currentSize - 1
    /\ pc = "store" => size = currentSize /\ shifted = currentSize - 1

Local == SlotsTypeOK /\ Exclusive /\ InMacros /\ fault = "none"

\* The inductive invariant: that of StreamReader, for the array, and what the macros
\* rely on.
SInv == Local /\ Serial!Inv

-----------------------------------------------------------------------------
(* The array in terms of the slots.                                        *)

LEMMA ArrayShape ==
    ASSUME SInv
    PROVE  /\ Held \in Nat /\ currentSize \in Nat /\ Len(received) \in Nat
           /\ Len(Array) = Held /\ DOMAIN Array = 1 .. Held
           /\ Held <= Len(received) /\ currentSize <= MaxReceived
           /\ MaxReceived \in Nat
           /\ ~ Removing => Array = [k \in 1 .. Held |-> slots[k - 1]]
           /\ Removing =>
                 /\ Held = currentSize
                 /\ Array = [k \in 1 .. currentSize |->
                               IF k = i THEN apdu
                               ELSE IF k > i /\ k <= shifted + 1 THEN slots[k - 2]
                               ELSE slots[k - 1]]
<1>1. /\ currentSize \in Nat
      /\ InSlot => currentSize > 0 /\ Len(received) < MaxReceived
      /\ Removing => ~ InSlot
      /\ Len(received) <= MaxReceived
  BY DEF SInv, Local, SlotsTypeOK, InMacros, Exclusive, InSlot, Adding
<1>2. Held \in Nat
  BY <1>1 DEF Held
<1>3. ~ Removing => Array = [k \in 1 .. Held |-> slots[k - 1]]
  BY DEF Array, Held, InSlot
<1>4. Removing => Held = currentSize
  BY <1>1 DEF Held
<1>5. Removing => Array = [k \in 1 .. currentSize |->
                             IF k = i THEN apdu
                             ELSE IF k > i /\ k <= shifted + 1 THEN slots[k - 2]
                             ELSE slots[k - 1]]
  BY DEF Array
<1>6. DOMAIN Array = 1 .. Held
  BY <1>3, <1>4, <1>5
<1>7. /\ Array \in Seq(Serial!Copies) /\ received \in Seq(APDUs)
      /\ taken \in Nat /\ samplesSize \in Nat /\ i \in Nat /\ i <= samplesSize
      /\ Len(Array) = Len(received) - taken - Serial!Gap
  BY DEF SInv, Serial!Inv, Serial!TypeOK, Serial!Queue
<1>8. Len(received) \in Nat /\ Len(Array) \in Nat /\ DOMAIN Array = 1 .. Len(Array)
  BY <1>7
<1>9. Len(Array) = Held
  BY <1>2, <1>6, <1>8
<1>10. Serial!Gap \in Nat
  BY <1>7 DEF Serial!Gap
<1>11. Held <= Len(received)
  BY <1>2, <1>7, <1>8, <1>9, <1>10
<1>12. MaxReceived \in Nat
  BY ReaderAssumption
<1>13. currentSize <= MaxReceived
  BY <1>1, <1>8, <1>11, <1>12 DEF Held
<1>. QED  BY <1>1, <1>2, <1>3, <1>4, <1>5, <1>6, <1>8, <1>9, <1>11, <1>12, <1>13

\* A change of the state that leaves the array alone leaves the reader as it is.
LEMMA SameReader ==
    ASSUME Array' = Array,
           {s \in Stacks : stackPc[s] = "notify"}' = {s \in Stacks : stackPc[s] = "notify"},
           (IF Removing THEN "remove" ELSE pc)' = IF Removing THEN "remove" ELSE pc,
           UNCHANGED <<received, freed, notified, samplesSize, i, output, taken,
                       delivered, doubleFree>>
    PROVE  UNCHANGED Serial!vars
BY DEF Serial!vars

-----------------------------------------------------------------------------
(* The steps of the stack threads, one at a time inside a macro.           *)

LEMMA OnAPDUStep ==
    ASSUME SInv, NEW s \in Stacks, ~ Removing, \A t \in Stacks \ {s} : ~ Adding(t),
           OnAPDU(s)
    PROVE  Local' /\ UNCHANGED Serial!vars
<1>. USE DEF OnAPDU, session
<1>1. \A t \in Stacks : ~ Adding(t)
  BY DEF Adding
<1>2. Len(received) < MaxReceived
  <2>1. {t \in Stacks : Adding(t)} = {}
    BY <1>1
  <2>2. Cardinality({t \in Stacks : Adding(t)}) = 0
    BY <2>1, FS_EmptySet
  <2>. QED  BY <2>2, ArrayShape
<1>3. \A t \in Stacks : stackPc'[t] = IF t = s THEN "store" ELSE stackPc[t]
  BY DEF SInv, Local, SlotsTypeOK
<1>4. \A t \in Stacks : Adding(t)' <=> t = s
  BY <1>1, <1>3 DEF Adding
<1>5. SlotsTypeOK'
  BY DEF SInv, Local, SlotsTypeOK
<1>6. Exclusive'
  BY <1>4 DEF Exclusive, Removing
<1>7. InMacros'
  BY <1>2, <1>3 DEF SInv, Local, SlotsTypeOK, InMacros, Adding, Removing
<1>8. Local'
  BY <1>5, <1>6, <1>7 DEF SInv, Local
<1>9. Array' = Array
  BY <1>3 DEF Array, Removing
<1>10. {t \in Stacks : stackPc[t] = "notify"}' = {t \in Stacks : stackPc[t] = "notify"}
  BY <1>3
<1>. QED  BY <1>8, <1>9, <1>10, SameReader DEF Removing

LEMMA IncrementStep ==
    ASSUME SInv, NEW s \in Stacks, ~ Removing, \A t \in Stacks \ {s} : ~ Adding(t),
           Increment(s)
    PROVE  Local' /\ UNCHANGED Serial!vars
<1>. USE DEF Increment, session
<1>1. \A t \in Stacks : stackPc'[t] = IF t = s THEN "slot" ELSE stackPc[t]
  BY DEF SInv, Local, SlotsTypeOK
<1>2. \A t \in Stacks : (Adding(t)' <=> t = s) /\ (Adding(t) <=> t = s)
  BY <1>1 DEF Adding
<1>3. /\ currentSize' = currentSize + 1 /\ currentSize \in Nat
      /\ Len(received) < MaxReceived
  BY <1>2 DEF SInv, Local, SlotsTypeOK, InMacros
<1>4. SlotsTypeOK'
  BY <1>3 DEF SInv, Local, SlotsTypeOK
<1>5. Exclusive'
  BY <1>2 DEF Exclusive, Removing
<1>6. InMacros'
  BY <1>1, <1>2, <1>3 DEF SInv, Local, InMacros, Removing, Adding
<1>7. Local'
  BY <1>4, <1>5, <1>6 DEF SInv, Local
<1>8. Array' = Array
  <2>1. ~ InSlot /\ InSlot'
    BY <1>1, <1>2 DEF InSlot, Adding
  <2>2. Array = [k \in 1 .. currentSize |-> slots[k - 1]]
    BY <2>1, ArrayShape DEF Held
  <2>3. Array' = [k \in 1 .. currentSize' - 1 |-> slots[k - 1]]
    BY <2>1 DEF Array, InSlot, Removing
  <2>4. currentSize' - 1 = currentSize
    BY <1>3
  <2>. QED  BY <2>2, <2>3, <2>4
<1>9. {t \in Stacks : stackPc[t] = "notify"}' = {t \in Stacks : stackPc[t] = "notify"}
  BY <1>1
<1>. QED  BY <1>7, <1>8, <1>9, SameReader DEF Removing

LEMMA StoreSlotStep ==
    ASSUME SInv, NEW s \in Stacks, ~ Removing, \A t \in Stacks \ {s} : ~ Adding(t),
           StoreSlot(s)
    PROVE  Local' /\ \E a \in APDUs : Serial!OnAPDUAppend(s, a)
<1>. USE DEF StoreSlot, session
<1>. DEFINE n == currentSize - 1
            c == Len(received) + 1
<1>1. \A t \in Stacks : stackPc'[t] = IF t = s THEN "notify" ELSE stackPc[t]
  BY DEF SInv, Local, SlotsTypeOK
<1>2. \A t \in Stacks : ~ Adding(t)' /\ (Adding(t) <=> t = s)
  BY <1>1 DEF Adding
<1>3. /\ Len(received) < MaxReceived /\ currentSize > 0 /\ InSlot /\ ~ InSlot'
  BY <1>1, <1>2 DEF SInv, Local, InMacros, InSlot, Adding
<1>4. Held = n /\ n \in 0 .. MaxReceived - 1 /\ n \in Nat
  BY <1>3, ArrayShape DEF Held
<1>5. PICK a \in APDUs : received' = Append(received, a)
  OBVIOUS
<1>6. Len(received') = c /\ c \in Nat
  BY <1>5 DEF SInv, Serial!Inv, Serial!TypeOK
<1>7. slots' = [slots EXCEPT ![n] = c] /\ fault' = fault
  BY <1>4, <1>6 DEF SInv, Local, SlotsTypeOK
<1>8. SlotsTypeOK'
  BY <1>6, <1>7 DEF SInv, Local, SlotsTypeOK
<1>9. InMacros'
  BY <1>1, <1>2, <1>3, <1>6, ArrayShape DEF SInv, Local, InMacros, Removing, Adding
<1>10. Local'
  BY <1>2, <1>7, <1>8, <1>9 DEF SInv, Local, Exclusive
<1>11. Array' = Append(Array, c)
  <2>1. Array = [k \in 1 .. n |-> slots[k - 1]]
    BY <1>4, ArrayShape
  <2>2. Array' = [k \in 1 .. currentSize |-> slots'[k - 1]]
    BY <1>3 DEF Array, InSlot, Removing
  <2>3. Array \in Seq(Serial!Copies) /\ Len(Array) = n
    BY <1>4, ArrayShape DEF SInv, Serial!Inv, Serial!TypeOK
  <2>4. Append(Array, c) = [k \in 1 .. n + 1 |-> IF k <= n THEN Array[k] ELSE c]
    BY <1>4, <2>3
  <2>5. n + 1 = currentSize
    BY ArrayShape
  <2>6. \A k \in 1 .. currentSize : slots'[k - 1] = IF k <= n THEN Array[k] ELSE c
    BY <1>4, <1>7, <2>1, ArrayShape DEF SInv, Local, SlotsTypeOK
  <2>. QED  BY <2>2, <2>4, <2>5, <2>6
<1>12. {t \in Stacks : stackPc[t] = "notify"}'
          = {t \in Stacks : stackPc[t] = "notify"} \cup {s}
  BY <1>1
<1>13. s \notin {t \in Stacks : stackPc[t] = "notify"}
  OBVIOUS
<1>14. Serial!OnAPDUAppend(s, a)
  BY <1>3, <1>5, <1>11, <1>12, <1>13 DEF Serial!OnAPDUAppend, Serial!locals, Removing
<1>. QED  BY <1>10, <1>14

LEMMA NotifyStep ==
    ASSUME SInv, NEW s \in Stacks, ~ Removing, \A t \in Stacks \ {s} : ~ Adding(t),
           Notify(s)
    PROVE  Local' /\ Serial!OnAPDUNotify(s)
<1>. USE DEF Notify, session
<1>1. \A t \in Stacks : stackPc'[t] = IF t = s THEN "idle" ELSE stackPc[t]
  BY DEF SInv, Local, SlotsTypeOK
<1>2. \A t \in Stacks : ~ Adding(t)' /\ ~ Adding(t)
  BY <1>1 DEF Adding
<1>3. SlotsTypeOK'
  BY DEF SInv, Local, SlotsTypeOK
<1>4. InMacros'
  BY <1>1, <1>2 DEF SInv, Local, InMacros, Removing, Adding
<1>5. Local'
  BY <1>2, <1>3, <1>4 DEF SInv, Local, Exclusive
<1>6. Array' = Array
  BY <1>2 DEF Array, Removing, Adding
<1>7. {t \in Stacks : stackPc[t] = "notify"}'
         = {t \in Stacks : stackPc[t] = "notify"} \ {s}
  BY <1>1
<1>8. s \in {t \in Stacks : stackPc[t] = "notify"}
  OBVIOUS
<1>9. Serial!OnAPDUNotify(s)
  BY <1>6, <1>7, <1>8 DEF Serial!OnAPDUNotify, Serial!locals, Removing
<1>. QED  BY <1>5, <1>9

-----------------------------------------------------------------------------
(* The steps of the session thread, when no stack thread is inside a       *)
(* macro.                                                                  *)

\* Outside the macros the session thread leaves alone what they rely on.
LEMMA OutsideMacros ==
    ASSUME SInv, \A s \in Stacks : ~ Adding(s),
           ~ Removing', pc' \in {"idle", "convert", "remove", "loan"},
           UNCHANGED <<received, slots, currentSize, stackVars, shifted, size, fault>>
    PROVE  Local'
<1>1. \A s \in Stacks : ~ Adding(s)'
  BY DEF Adding, stackVars
<1>2. SlotsTypeOK'
  BY DEF SInv, Local, SlotsTypeOK, stackVars
<1>3. InMacros'
  BY <1>1 DEF SInv, Local, InMacros, Removing, Adding, stackVars
<1>. QED  BY <1>1, <1>2, <1>3 DEF SInv, Local, Exclusive

\* The array depends on nothing else while no macro runs.
LEMMA SameArray ==
    ASSUME ~ Removing, ~ Removing', UNCHANGED <<slots, currentSize, stackPc>>
    PROVE  /\ Array' = Array
           /\ {s \in Stacks : stackPc[s] = "notify"}' = {s \in Stacks : stackPc[s] = "notify"}
BY DEF Array

LEMMA ReadStartStep ==
    ASSUME SInv, \A s \in Stacks : ~ Adding(s), ReadStart
    PROVE  Local' /\ Serial!ReadStart
<1>. USE DEF ReadStart, stackVars
<1>1. ~ Removing /\ ~ Removing'
  BY DEF Removing
<1>2. Local'
  BY <1>1, OutsideMacros
<1>3. Len(Array) = currentSize
  BY ArrayShape DEF Held, InSlot, Adding
<1>. QED  BY <1>1, <1>2, <1>3, SameArray DEF Serial!ReadStart, Removing

LEMMA ReadConvertStep ==
    ASSUME SInv, \A s \in Stacks : ~ Adding(s), ReadConvert
    PROVE  Local' /\ Serial!ReadConvert
<1>. USE DEF ReadConvert, stackVars
<1>1. ~ Removing /\ ~ Removing'
  BY DEF Removing
<1>2. /\ i \in Nat /\ samplesSize \in Nat /\ samplesSize <= currentSize
      /\ taken \in Nat
  BY <1>1, ArrayShape DEF Held, InSlot, Adding, SInv, Serial!Inv, Serial!TypeOK,
                          Serial!Queue
<1>3. PICK k \in DOMAIN Array : k = i + 1
  BY <1>2, ArrayShape DEF Held, InSlot, Adding
<1>4. Array[k] = slots[i]
  BY <1>1, <1>2, <1>3, ArrayShape
<1>5. Array[k] = taken + k
  BY <1>1, Zenon DEF SInv, Serial!Inv, Serial!Queue
<1>6. slots[i] # 0 /\ slots[i] \notin freed
  BY <1>1, <1>2, <1>3, <1>4, <1>5 DEF SInv, Serial!Inv, Serial!Queue
<1>7. /\ i' = i + 1 /\ UNCHANGED fault
      /\ output' = IF received[Array[k]] \in Convertible
                   THEN Append(output, Array[k]) ELSE output
  BY <1>4, <1>6
<1>8. Local'
  BY <1>1, <1>7, OutsideMacros DEF SInv, Local, SlotsTypeOK
<1>9. Array' = Array /\ {s \in Stacks : stackPc[s] = "notify"}'
                         = {s \in Stacks : stackPc[s] = "notify"}
  BY <1>1, SameArray
<1>. QED  BY <1>1, <1>3, <1>7, <1>8, <1>9 DEF Serial!ReadConvert, Removing

LEMMA ReadConvertedStep ==
    ASSUME SInv, \A s \in Stacks : ~ Adding(s), ReadConverted
    PROVE  Local' /\ Serial!ReadConverted
<1>. USE DEF ReadConverted, stackVars
<1>1. ~ Removing /\ ~ Removing'
  BY DEF Removing
<1>2. Local'
  BY <1>1, OutsideMacros
<1>. QED  BY <1>1, <1>2, SameArray DEF Serial!ReadConverted, Removing

\* The removal finds its index in the array, and begins.
LEMMA ReadRemoveStep ==
    ASSUME SInv, \A s \in Stacks : ~ Adding(s), ReadRemove
    PROVE  Local' /\ UNCHANGED Serial!vars
<1>. USE DEF ReadRemove, stackVars
<1>1. ~ Removing /\ ~ InSlot /\ Held = currentSize
  BY DEF Removing, InSlot, Adding, Held
<1>2. i \in Nat /\ i > 0 /\ i <= currentSize /\ currentSize \in Nat
  BY <1>1, ArrayShape DEF SInv, Serial!Inv, Serial!TypeOK, Serial!Queue
<1>3. /\ pc' = "shift" /\ shifted' = i - 1 /\ apdu' = slots[i - 1]
      /\ UNCHANGED <<i, freed, doubleFree>>
  BY <1>2
<1>4. \A s \in Stacks : ~ Adding(s)'
  BY DEF Adding
<1>5. SlotsTypeOK'
  BY <1>2, <1>3 DEF SInv, Local, SlotsTypeOK
<1>6. InMacros'
  <2>1. i' \in 1 .. currentSize' /\ shifted' \in i' - 1 .. currentSize' - 1
    BY <1>2, <1>3
  <2>. QED  BY <1>3, <1>4, <2>1 DEF SInv, Local, InMacros, Removing, Adding
<1>7. Local'
  BY <1>4, <1>5, <1>6 DEF SInv, Local, Exclusive
<1>8. Array' = Array
  <2>1. Array = [k \in 1 .. currentSize |-> slots[k - 1]]
    BY <1>1, ArrayShape
  <2>2. Array' = [k \in 1 .. currentSize |->
                    IF k = i THEN slots[i - 1]
                    ELSE IF k > i /\ k <= (i - 1) + 1 THEN slots[k - 2]
                    ELSE slots[k - 1]]
    BY <1>3 DEF Array, Removing
  <2>3. \A k \in 1 .. currentSize : ~ (k > i /\ k <= (i - 1) + 1)
    BY <1>2
  <2>. QED  BY <2>1, <2>2, <2>3
<1>9. (IF Removing THEN "remove" ELSE pc)' = IF Removing THEN "remove" ELSE pc
  BY <1>1, <1>3 DEF Removing
<1>. QED  BY <1>3, <1>7, <1>8, <1>9, SameReader

\* An iteration moves one element down, and the array is still the one before the
\* removal.
LEMMA ShiftStep ==
    ASSUME SInv, \A s \in Stacks : ~ Adding(s), Shift
    PROVE  Local' /\ UNCHANGED Serial!vars
<1>. USE DEF Shift, stackVars
<1>1. Removing /\ Removing'
  BY DEF Removing
<1>2. /\ i \in 1 .. currentSize /\ shifted \in i - 1 .. currentSize - 2
      /\ currentSize \in Nat /\ i \in Nat /\ shifted \in Nat
      /\ shifted \in 0 .. MaxReceived - 1 /\ shifted + 1 \in 0 .. MaxReceived - 1
  BY <1>1, ArrayShape DEF SInv, Local, SlotsTypeOK, InMacros
<1>3. \A j \in 0 .. MaxReceived - 1 :
         slots'[j] = IF j = shifted THEN slots[shifted + 1] ELSE slots[j]
  BY DEF SInv, Local, SlotsTypeOK
<1>4. \A s \in Stacks : ~ Adding(s)'
  BY DEF Adding
<1>5. SlotsTypeOK'
  BY <1>2 DEF SInv, Local, SlotsTypeOK
<1>6. InMacros'
  <2>1. i' \in 1 .. currentSize' /\ shifted' \in i' - 1 .. currentSize' - 1
    BY <1>2
  <2>. QED  BY <1>1, <1>4, <2>1 DEF SInv, Local, InMacros, Removing, Adding
<1>7. Local'
  BY <1>4, <1>5, <1>6 DEF SInv, Local, Exclusive
<1>8. Array' = Array
  <2>. DEFINE at(k) == IF k = i THEN apdu
                       ELSE IF k > i /\ k <= shifted + 1 THEN slots[k - 2]
                       ELSE slots[k - 1]
              to(k) == IF k = i THEN apdu
                       ELSE IF k > i /\ k <= (shifted + 1) + 1 THEN slots'[k - 2]
                       ELSE slots'[k - 1]
  <2>1. Array = [k \in 1 .. currentSize |-> at(k)]
    BY <1>1, ArrayShape
  <2>2. Array' = [k \in 1 .. currentSize |-> to(k)]
    BY <1>1 DEF Array
  <2>3. ASSUME NEW k \in 1 .. currentSize PROVE to(k) = at(k)
    <3>0. k - 1 \in 0 .. MaxReceived - 1 /\ currentSize <= MaxReceived
      <4>1. currentSize \in Nat /\ MaxReceived \in Nat /\ currentSize <= MaxReceived
        BY ArrayShape
      <4>. QED  BY <4>1
    <3>1. CASE k = shifted + 2
      <4>1. k > i /\ k - 2 = shifted /\ k - 1 = shifted + 1
        BY <1>2, <3>1
      <4>2. slots'[k - 2] = slots[k - 1]
        BY <1>2, <1>3, <4>1
      <4>. QED  BY <1>2, <3>1, <4>1, <4>2
    <3>2. CASE k > i /\ k < shifted + 2
      <4>1. k - 2 \in 0 .. MaxReceived - 1 /\ k - 2 # shifted
        <5>1. k \in Nat /\ k >= 2 /\ k - 2 < shifted /\ MaxReceived \in Nat
          BY <1>2, <3>2, ArrayShape
        <5>. QED  BY <1>2, <5>1
      <4>. QED  BY <1>2, <1>3, <3>2, <4>1
    <3>3. CASE k = i
      BY <3>3
    <3>4. CASE k < i \/ k > shifted + 2
      <4>1. k - 1 # shifted
        BY <1>2, <3>4
      <4>. QED  BY <1>2, <1>3, <3>0, <3>4, <4>1
    <3>. QED  BY <1>2, <3>1, <3>2, <3>3, <3>4
  <2>. HIDE DEF at, to
  <2>. QED  BY <2>1, <2>2, <2>3
<1>. QED  BY <1>1, <1>7, <1>8, SameReader

LEMMA ShiftedStep ==
    ASSUME SInv, \A s \in Stacks : ~ Adding(s), Shifted
    PROVE  Local' /\ UNCHANGED Serial!vars
<1>. USE DEF Shifted, stackVars
<1>1. Removing /\ Removing'
  BY DEF Removing
<1>2. \A s \in Stacks : ~ Adding(s)'
  BY DEF Adding
<1>3. SlotsTypeOK'
  BY DEF SInv, Local, SlotsTypeOK
<1>4. InMacros'
  <2>1. /\ i' \in 1 .. currentSize' /\ shifted' \in i' - 1 .. currentSize' - 1
        /\ shifted' = currentSize' - 1
    BY <1>1 DEF SInv, Local, SlotsTypeOK, InMacros
  <2>. QED  BY <1>1, <1>2, <2>1 DEF SInv, Local, InMacros, Removing, Adding
<1>5. Local'
  BY <1>2, <1>3, <1>4 DEF SInv, Local, Exclusive
<1>6. Array' = Array
  BY <1>1 DEF Array
<1>. QED  BY <1>1, <1>5, <1>6, SameReader

\* The removal ends: the slots and the smaller size are the array without the element.
LEMMA DecrementStep ==
    ASSUME SInv, \A s \in Stacks : ~ Adding(s), Decrement
    PROVE  Local' /\ Serial!ReadRemove
<1>. USE DEF Decrement, stackVars
<1>1. Removing /\ ~ Removing' /\ ~ InSlot'
  BY DEF Removing, InSlot, Adding
<1>2. /\ i \in 1 .. currentSize /\ shifted = currentSize - 1 /\ size = currentSize
      /\ currentSize \in Nat /\ i \in Nat
  BY <1>1 DEF SInv, Local, SlotsTypeOK, InMacros
<1>3. PICK n \in Nat : n = currentSize - 1
  BY <1>2
<1>4. currentSize' = n
  BY <1>2, <1>3
<1>5. \A s \in Stacks : ~ Adding(s)'
  BY DEF Adding
<1>6. SlotsTypeOK'
  BY <1>4 DEF SInv, Local, SlotsTypeOK
<1>7. InMacros'
  BY <1>1, <1>5 DEF SInv, Local, InMacros, Removing, Adding
<1>8. Local'
  BY <1>5, <1>6, <1>7 DEF SInv, Local, Exclusive
<1>9. /\ Array \in Seq(Serial!Copies) /\ Len(Array) = currentSize
      /\ Array = [k \in 1 .. currentSize |->
                    IF k = i THEN apdu
                    ELSE IF k > i /\ k <= currentSize THEN slots[k - 2]
                    ELSE slots[k - 1]]
  <2>1. shifted + 1 = currentSize
    BY <1>2
  <2>. QED  BY <1>1, <2>1, ArrayShape DEF SInv, Serial!Inv, Serial!TypeOK
<1>10. Array[i] = apdu
  BY <1>2, <1>9
<1>11. PICK j \in Nat : j = i - 1
  BY <1>2
<1>12. j \in Serial!Indices(Array)
  BY <1>2, <1>9, <1>11 DEF Serial!Indices
<1>13. Array' = Serial!RemoveByIndex(Array, j)
  <2>. DEFINE rest == Serial!RemoveByIndex(Array, j)
  <2>1. Array' = [k \in 1 .. n |-> slots[k - 1]]
    BY <1>1, <1>4 DEF Array, InSlot
  <2>2. /\ rest \in Seq(Serial!Copies) /\ Len(rest) = Len(Array) - 1
        /\ \A k \in 1 .. Len(Array) - 1 :
              rest[k] = IF k <= j THEN Array[k] ELSE Array[k + 1]
    <3>1. Array \in Seq(Serial!Copies)
      BY <1>9
    <3>. QED  BY ONLY <1>12, <3>1, Serial!RemoveByIndexSlots, ReaderAssumption
  <2>. HIDE DEF rest
  <2>3. /\ rest \in Seq(Serial!Copies) /\ Len(rest) = n
        /\ \A k \in 1 .. n : rest[k] = IF k <= j THEN Array[k] ELSE Array[k + 1]
    BY <1>3, <1>9, <2>2
  <2>4. rest = [k \in 1 .. n |-> rest[k]]
    BY <2>3
  <2>5. ASSUME NEW k \in 1 .. n PROVE rest[k] = slots[k - 1]
    <3>1. CASE k <= j
      <4>1. k \in 1 .. currentSize /\ k < i
        BY <1>2, <1>3, <1>11, <3>1
      <4>2. Array[k] = slots[k - 1]
        BY <1>2, <1>9, <4>1
      <4>. QED  BY <2>3, <3>1, <4>2
    <3>2. CASE k > j
      <4>1. PICK m \in 1 .. currentSize : m = k + 1
        BY <1>2, <1>3
      <4>2. Array[m] = slots[m - 2]
        BY <1>2, <1>9, <1>11, <3>2, <4>1
      <4>3. m - 2 = k - 1
        BY <4>1
      <4>. QED  BY <1>11, <2>3, <3>2, <4>1, <4>2, <4>3
    <3>. QED  BY <1>11, <3>1, <3>2
  <2>6. rest = [k \in 1 .. n |-> slots[k - 1]]
    BY <2>4, <2>5
  <2>. QED  BY <2>1, <2>6 DEF rest
<1>14. Serial!ReadRemove
  <2>1. i > 0 /\ i' = i - 1 /\ Array' = Serial!RemoveByIndex(Array, i - 1)
    BY <1>2, <1>11, <1>13
  <2>2. /\ freed' = freed \cup {Array[i]}
        /\ doubleFree' = (doubleFree \/ Array[i] \in freed)
    BY <1>10
  <2>. QED  BY <1>1, <2>1, <2>2 DEF Serial!ReadRemove, Removing
<1>. QED  BY <1>8, <1>14

LEMMA ReadReturnStep ==
    ASSUME SInv, \A s \in Stacks : ~ Adding(s), ReadReturn
    PROVE  Local' /\ Serial!ReadReturn
<1>. USE DEF ReadReturn, stackVars
<1>1. ~ Removing /\ ~ Removing'
  BY DEF Removing
<1>2. Local'
  BY <1>1, OutsideMacros
<1>. QED  BY <1>1, <1>2, SameArray DEF Serial!ReadReturn, Removing

LEMMA ReturnLoanStep ==
    ASSUME SInv, \A s \in Stacks : ~ Adding(s), ReturnLoan
    PROVE  Local' /\ Serial!ReturnLoan
<1>. USE DEF ReturnLoan, stackVars
<1>1. ~ Removing /\ ~ Removing'
  BY DEF Removing
<1>2. Local'
  BY <1>1, OutsideMacros
<1>. QED  BY <1>1, <1>2, SameArray DEF Serial!ReturnLoan, Removing

-----------------------------------------------------------------------------
(* The refinement, and what follows from it.                               *)

LEMMA SerialInit == Init => Local /\ Serial!Init
<1>. SUFFICES ASSUME Init PROVE Local /\ Serial!Init
  OBVIOUS
<1>. USE DEF Init
<1>1. ~ Removing /\ \A s \in Stacks : stackPc[s] = "idle"
  BY DEF Removing
<1>2. Local
  BY <1>1, ReaderAssumption DEF Local, SlotsTypeOK, Exclusive, InMacros, Adding, Removing
<1>3. Array = << >>
  BY <1>1 DEF Array
<1>4. {s \in Stacks : stackPc[s] = "notify"} = {}
  BY <1>1
<1>. QED  BY <1>1, <1>2, <1>3, <1>4 DEF Serial!Init

\* A step keeps the local part of the invariant, and is a step of StreamReader or
\* leaves its state as it is.
LEMMA StepImplements ==
    ASSUME SInv, [SerialNext]_vars
    PROVE  Local' /\ [Serial!Next]_(Serial!vars)
<1>1. CASE UNCHANGED vars
  <2>1. Local'
    BY <1>1 DEF vars, stackVars, session, SInv, Local, SlotsTypeOK, Exclusive, InMacros,
                Adding, Removing
  <2>2. Array' = Array
    BY <1>1 DEF vars, stackVars, session, Array, Removing
  <2>. QED  BY <1>1, <2>1, <2>2, SameReader DEF vars, stackVars, session, Removing
<1>2. ASSUME NEW s \in Stacks, ~ Removing, \A t \in Stacks \ {s} : ~ Adding(t),
             StackStep(s)
      PROVE  Local' /\ [Serial!Next]_(Serial!vars)
  <2>1. CASE OnAPDU(s)
    BY <1>2, <2>1, OnAPDUStep
  <2>2. CASE Increment(s)
    BY <1>2, <2>2, IncrementStep
  <2>3. CASE StoreSlot(s)
    BY <1>2, <2>3, StoreSlotStep DEF Serial!Next
  <2>4. CASE Notify(s)
    BY <1>2, <2>4, NotifyStep DEF Serial!Next
  <2>. QED  BY <1>2, <2>1, <2>2, <2>3, <2>4 DEF StackStep
<1>3. ASSUME \A s \in Stacks : ~ Adding(s), SessionStep
      PROVE  Local' /\ [Serial!Next]_(Serial!vars)
  <2>. USE <1>3 DEF Serial!Next, Serial!ReadStep
  <2>1. CASE ReadStart
    BY <2>1, ReadStartStep
  <2>2. CASE ReadConvert
    BY <2>2, ReadConvertStep
  <2>3. CASE ReadConverted
    BY <2>3, ReadConvertedStep
  <2>4. CASE ReadRemove
    BY <2>4, ReadRemoveStep
  <2>5. CASE Shift
    BY <2>5, ShiftStep
  <2>6. CASE Shifted
    BY <2>6, ShiftedStep
  <2>7. CASE Decrement
    BY <2>7, DecrementStep
  <2>8. CASE ReadReturn
    BY <2>8, ReadReturnStep
  <2>9. CASE ReturnLoan
    BY <2>9, ReturnLoanStep
  <2>. QED
    BY <2>1, <2>2, <2>3, <2>4, <2>5, <2>6, <2>7, <2>8, <2>9 DEF SessionStep
<1>. QED  BY <1>1, <1>2, <1>3 DEF SerialNext

LEMMA SInvHolds == SerialSpec => []SInv
<1>1. Init => SInv
  BY SerialInit, Serial!InitInv, ReaderAssumption DEF SInv
<1>2. SInv /\ [SerialNext]_vars => SInv'
  <2>. SUFFICES ASSUME SInv, [SerialNext]_vars PROVE SInv'
    OBVIOUS
  <2>1. Local' /\ [Serial!Next]_(Serial!vars)
    BY StepImplements
  <2>2. Serial!Inv
    BY DEF SInv
  <2>3. Serial!Inv'
    BY <2>1, <2>2, Serial!NextInv, ReaderAssumption
  <2>. QED  BY <2>1, <2>3 DEF SInv
<1>. QED  BY <1>1, <1>2, PTL DEF SerialSpec

\* If threads inside a macro are not interrupted, the loads, stores and loops of
\* RTIDNP3_ARRAY_ADD_ELEMENT_EXPAND and RTIDNP3_ARRAY_REMOVE_ELEMENT_BY_INDEX append
\* an element and remove the one at an index: every step is one of StreamReader.
THEOREM MacrosRight == SerialSpec => MacrosImplemented
<1>1. Init => Macros!Init
  BY SerialInit DEF Serial!Init, Macros!Init
<1>2. SInv /\ [SerialNext]_vars => [Macros!Next]_(Macros!vars)
  <2>1. [Serial!Next]_(Serial!vars) => [Macros!Next]_(Macros!vars)
    BY Zenon DEF Serial!Next, Macros!Next, Serial!vars, Macros!vars,
       Serial!locals, Macros!locals, Serial!ReadStep, Macros!ReadStep,
       Serial!OnAPDUAppend, Macros!OnAPDUAppend,
       Serial!OnAPDUNotify, Macros!OnAPDUNotify, Serial!ReadStart, Macros!ReadStart,
       Serial!ReadConvert, Macros!ReadConvert, Serial!ReadConverted, Macros!ReadConverted,
       Serial!ReadRemove, Macros!ReadRemove, Serial!RemoveByIndex, Macros!RemoveByIndex,
       Serial!Indices, Macros!Indices,
       Serial!ReadReturn, Macros!ReadReturn, Serial!ReturnLoan, Macros!ReturnLoan
  <2>. QED  BY <2>1, StepImplements
<1>. QED  BY SInvHolds, <1>1, <1>2, PTL DEF SerialSpec, MacrosImplemented, Macros!Spec

\* Without interruptions inside the macros the reader is a mailbox: the samples of
\* DNP3StreamReader_read are those of the APDUs given to DNP3Reader_onAPDU, in order
\* and each once.
THEOREM LockedReaderIsMailbox == SerialSpec => Serial!ImplementsMailbox
<1>1. Init => Serial!Init
  BY SerialInit
<1>2. SInv /\ [SerialNext]_vars => [Serial!Next]_(Serial!vars)
  BY StepImplements
<1>3. SerialSpec => Serial!Spec
  BY SInvHolds, <1>1, <1>2, PTL DEF SerialSpec, Serial!Spec
<1>4. Serial!Spec => Serial!ImplementsMailbox
  BY Serial!ReaderIsMailbox, ReaderAssumption
<1>. QED  BY <1>3, <1>4, PTL

\* Nor is an access outside the array made, a null or freed copy converted, a copy
\* freed twice, or an APDU lost: what NoAPDULost loses under Spec, it loses to an
\* interruption inside a macro.
THEOREM LockedReaderSafe ==
    SerialSpec => [](fault = "none" /\ NoAPDULost /\ ~ doubleFree)
<1>1. ASSUME SInv PROVE fault = "none" /\ ~ doubleFree
  BY <1>1 DEF SInv, Local, Serial!Inv, Serial!Queue
<1>2. ASSUME SInv PROVE NoAPDULost
  <2>. SUFFICES ASSUME pc = "idle", \A s \in Stacks : stackPc[s] = "idle",
                       NEW k \in 1 .. Len(received), k \notin freed
                PROVE  \E j \in 0 .. currentSize - 1 : slots[j] = k
    BY DEF NoAPDULost
  <2>1. ~ Removing /\ ~ InSlot /\ Held = currentSize
    BY DEF Removing, InSlot, Held
  <2>2. /\ taken \in Nat /\ Len(Array) = Len(received) - taken /\ k > taken
        /\ \A m \in DOMAIN Array : Array[m] = taken + m
    BY <1>2, <2>1, ArrayShape DEF SInv, Serial!Inv, Serial!TypeOK, Serial!Queue,
                                  Serial!Gap, Serial!Copies
  <2>3. PICK m \in 1 .. currentSize : k = taken + m
    <3>1. k - taken \in 1 .. currentSize /\ k = taken + (k - taken)
      BY <1>2, <2>1, <2>2, ArrayShape
    <3>. QED  BY <3>1
  <2>4. Array[m] = slots[m - 1] /\ Array[m] = k
    BY <1>2, <2>1, <2>2, <2>3, ArrayShape
  <2>5. m - 1 \in 0 .. currentSize - 1
    BY <1>2, ArrayShape
  <2>. QED  BY <2>4, <2>5
<1>. QED  BY SInvHolds, <1>1, <1>2, PTL
=============================================================================
