------------------------ MODULE RacingDispatchProofs ------------------------
(***************************************************************************)
(* Proofs about RacingDispatch under SerialSpec: if nothing happens inside *)
(* an array macro, nor between the test and the fetch of a callback's      *)
(* loop, the loads, stores and loops of the macros are the single steps of *)
(* Dispatch.  The theorems about Dispatch are then instantiated with the   *)
(* array that Array computes, and hold of the slots and currentSize of the *)
(* code.                                                                   *)
(***************************************************************************)
EXTENDS RacingDispatch, FiniteSetTheorems, TLAPS

\* Dispatch and what is proved of it, for the array of this module: the same
\* substitution as Atomic.
Serial == INSTANCE DispatchProofs
    WITH listeners <- Array, removed <- Removed, pc <- LoopPc

SlotsTypeOK ==
    /\ listeners \in [0 .. Cardinality(Readers) - 1 -> Readers \cup {NoListener}]
    /\ currentSize \in Nat
    /\ rsPc \in {"idle", "slot", "shift"}
    /\ rsIndex \in Nat
    /\ pc \in [Stacks -> {"idle", "loop", "fetch", "filter", "onAPDU"}]

\* What a thread inside a macro, or between a test and its fetch, knows.
InMacros ==
    /\ rsPc = "slot" =>
          currentSize > 0 /\ rsReader \in Readers \ (ToSet(Array) \cup removed)
    /\ rsPc = "shift" => rsIndex \in 0 .. currentSize - 1 /\ rsReader \in Readers
    /\ \A s \in Stacks : pc[s] = "fetch" => rsPc = "idle" /\ i[s] < currentSize

Local == SlotsTypeOK /\ InMacros /\ fault # "nullListener"

\* The inductive invariant: that of Dispatch, for the array, and what the macros rely
\* on.
SInv == Local /\ Serial!IInv

-----------------------------------------------------------------------------
(* The array in terms of the slots.                                        *)

LEMMA AppendSlots ==
    ASSUME NEW S, NEW arr \in Seq(S), NEW e \in S
    PROVE  Append(arr, e) = [k \in 1 .. Len(arr) + 1 |->
                                IF k <= Len(arr) THEN arr[k] ELSE e]
<1>. DEFINE n == Len(arr) + 1
            new == Append(arr, e)
<1>1. new \in Seq(S) /\ Len(new) = n
  OBVIOUS
<1>2. ASSUME NEW k \in 1 .. n
      PROVE  new[k] = IF k <= Len(arr) THEN arr[k] ELSE e
  OBVIOUS
<1>. HIDE DEF new, n
<1>3. new = [k \in 1 .. n |-> new[k]]
  BY <1>1
<1>4. new = [k \in 1 .. n |-> IF k <= Len(arr) THEN arr[k] ELSE e]
  BY <1>2, <1>3
<1>. QED  BY <1>4 DEF new, n

LEMMA SInvTypes ==
    ASSUME SInv
    PROVE  /\ currentSize \in Nat /\ rsIndex \in Nat
           /\ Array \in Seq(Readers) /\ Serial!IsInjective(Array)
           /\ Removed \subseteq Readers \ ToSet(Array)
           /\ \A s \in Stacks : i[s] \in Nat
           /\ DOMAIN pc = Stacks /\ DOMAIN i = Stacks
           /\ \A s \in Stacks : pc[s] \in {"idle", "loop", "fetch", "filter", "onAPDU"}
BY DEF SInv, Local, SlotsTypeOK, Serial!IInv, Serial!TypeOK, Serial!ToSet, ToSet

LEMMA CountedShape ==
    ASSUME SInv
    PROVE  /\ DOMAIN Counted = 1 .. currentSize
           /\ Counted = [k \in 1 .. currentSize |-> listeners[k - 1]]
BY DEF Counted

\* Outside the macros the array is the slots that count.
LEMMA IdleArray ==
    ASSUME SInv, rsPc = "idle"
    PROVE  /\ Array = Counted /\ Len(Array) = currentSize /\ Removed = removed
           /\ \A k \in 0 .. currentSize - 1 :
                 k + 1 \in 1 .. currentSize /\ Array[k + 1] = listeners[k]
<1>1. Array = Counted /\ Removed = removed
  BY DEF Array, Removed
<1>2. DOMAIN Array = 1 .. currentSize /\ currentSize \in Nat /\ Array \in Seq(Readers)
  BY <1>1, SInvTypes, CountedShape
<1>3. Len(Array) = currentSize
  BY <1>2
<1>4. ASSUME NEW k \in 0 .. currentSize - 1
      PROVE  k + 1 \in 1 .. currentSize /\ Array[k + 1] = listeners[k]
  <2>1. k + 1 \in 1 .. currentSize /\ (k + 1) - 1 = k
    BY <1>2
  <2>. QED  BY <1>1, <2>1, CountedShape
<1>. QED  BY <1>1, <1>3, <1>4

\* There is a slot for every reader.
LEMMA RoomForReader ==
    ASSUME SInv, NEW r \in Readers \ ToSet(Array)
    PROVE  Len(Array) \in Nat /\ Len(Array) < Cardinality(Readers)
<1>1. /\ Array \in Seq(Readers) /\ Serial!IsInjective(Array) /\ Len(Array) \in Nat
      /\ DOMAIN Array = 1 .. Len(Array)
  BY SInvTypes
<1>2. ExistsBijection(1 .. Len(Array), ToSet(Array))
  <2>1. Array \in [1 .. Len(Array) -> ToSet(Array)]
    BY <1>1 DEF ToSet
  <2>2. Array \in Bijection(1 .. Len(Array), ToSet(Array))
    BY <1>1, <2>1, Zenon
       DEF Bijection, Injection, Surjection, IsInjective, ToSet, Serial!IsInjective
  <2>. QED  BY <2>2, Zenon DEF ExistsBijection
<1>3. IsFiniteSet(1 .. Len(Array)) /\ Cardinality(1 .. Len(Array)) = Len(Array)
  BY <1>1, FS_Interval
<1>4. Cardinality(ToSet(Array)) = Len(Array)
  BY <1>2, <1>3, FS_Bijection, Zenon
<1>5. ToSet(Array) \subseteq Readers /\ ToSet(Array) # Readers
  BY <1>1 DEF ToSet
<1>6. IsFiniteSet(Readers)
  BY FiniteReadersAssumption
<1>7. Cardinality(ToSet(Array)) < Cardinality(Readers)
  BY <1>5, <1>6, FS_Subset, FS_CardinalityType
<1>. QED  BY <1>1, <1>4, <1>7

-----------------------------------------------------------------------------
(* The steps of the Routing Service, no callback being between its test    *)
(* and its fetch.                                                          *)

\* A change of the state that leaves the array alone leaves the bus as it is.
LEMMA SameDispatch ==
    ASSUME Array' = Array, Removed' = Removed, deleted' = deleted, stack' = stack,
           fault' = fault
    PROVE  UNCHANGED Serial!vars
BY DEF Serial!vars, Serial!readers, Serial!stack, stack, LoopPc

LEMMA CreateStep ==
    ASSUME SInv, \A s \in Stacks : pc[s] # "fetch", NEW r \in Readers, CreateStreamReader(r)
    PROVE  Local' /\ UNCHANGED Serial!vars
<1>. USE DEF CreateStreamReader
<1>1. rsPc = "idle" /\ rsPc' = "slot" /\ rsReader' = r /\ currentSize' = currentSize + 1
      /\ UNCHANGED <<listeners, removed, deleted, rsIndex, stack, fault>>
  OBVIOUS
<1>2. currentSize \in Nat /\ currentSize' - 1 = currentSize /\ currentSize' > 0
  BY <1>1, SInvTypes
<1>3. Array' = [k \in 1 .. currentSize' - 1 |-> listeners[k - 1]]
  BY <1>1 DEF Array
<1>4. Array' = Array
  BY <1>1, <1>2, <1>3, IdleArray, CountedShape
<1>5. Removed' = Removed
  BY <1>1 DEF Removed
<1>6. SlotsTypeOK'
  BY <1>1, <1>2 DEF SInv, Local, SlotsTypeOK, stack
<1>7. r \notin ToSet(Array) \cup removed
  BY <1>1, IdleArray
<1>8. InMacros'
  BY <1>1, <1>2, <1>4, <1>7 DEF InMacros, stack
<1>9. Local'
  BY <1>1, <1>6, <1>8 DEF SInv, Local
<1>. QED  BY <1>1, <1>4, <1>5, <1>9, SameDispatch

LEMMA StoreSlotStep ==
    ASSUME SInv, \A s \in Stacks : pc[s] # "fetch", StoreSlot
    PROVE  Local' /\ \E r \in Readers : Serial!CreateStreamReader(r)
<1>. USE DEF StoreSlot
<1>. DEFINE n == currentSize - 1
<1>1. /\ rsPc = "slot" /\ rsPc' = "idle" /\ listeners' = [listeners EXCEPT ![n] = rsReader]
      /\ UNCHANGED <<currentSize, removed, deleted, rsIndex, stack, fault>>
  OBVIOUS
<1>2. /\ currentSize \in Nat /\ currentSize > 0 /\ n \in Nat /\ n + 1 = currentSize
      /\ rsReader \in Readers \ (ToSet(Array) \cup removed)
  BY <1>1, SInvTypes DEF SInv, Local, InMacros
<1>3. Array = [k \in 1 .. n |-> listeners[k - 1]]
  BY <1>1 DEF Array
<1>4. Len(Array) = n /\ Array \in Seq(Readers)
  BY <1>2, <1>3, SInvTypes
<1>5. n \in 0 .. Cardinality(Readers) - 1
  <2>1. n < Cardinality(Readers)
    BY <1>2, <1>4, RoomForReader
  <2>2. Cardinality(Readers) \in Nat
    BY FiniteReadersAssumption, FS_CardinalityType
  <2>. QED  BY <1>2, <2>1, <2>2
<1>6. \A k \in 0 .. n - 1 : listeners'[k] = listeners[k]
  BY <1>1 DEF SInv, Local, SlotsTypeOK
<1>7. listeners'[n] = rsReader
  BY <1>1, <1>5 DEF SInv, Local, SlotsTypeOK
<1>8. Array' = [k \in 1 .. n + 1 |-> listeners'[k - 1]]
  BY <1>1, <1>2 DEF Array, Counted
<1>9. Array' = Append(Array, rsReader)
  <2>1. Append(Array, rsReader) = [k \in 1 .. n + 1 |-> IF k <= n THEN Array[k] ELSE rsReader]
    <3>1. rsReader \in Readers /\ Array \in Seq(Readers)
      BY <1>2, <1>4
    <3>. QED  BY <1>4, <3>1, AppendSlots
  <2>2. ASSUME NEW k \in 1 .. n + 1
        PROVE  listeners'[k - 1] = IF k <= n THEN Array[k] ELSE rsReader
    <3>1. CASE k <= n
      <4>1. k - 1 \in 0 .. n - 1 /\ k \in 1 .. n
        BY <1>2, <3>1
      <4>. QED  BY <1>3, <1>6, <3>1, <4>1
    <3>2. CASE ~ (k <= n)
      <4>1. k - 1 = n
        BY <1>2, <3>2
      <4>. QED  BY <1>7, <3>2, <4>1
    <3>. QED  BY <3>1, <3>2
  <2>. QED  BY <1>8, <2>1, <2>2
<1>. HIDE DEF n
<1>10. Removed' = Removed /\ Removed = removed
  BY <1>1 DEF Removed
<1>11. LoopPc' = LoopPc
  BY <1>1 DEF LoopPc, stack
<1>12. rsReader \in Readers \ Serial!Known
  BY <1>2, <1>10 DEF Serial!Known, Serial!ToSet, ToSet
<1>13. Serial!CreateStreamReader(rsReader)
  BY <1>1, <1>9, <1>10, <1>11, <1>12 DEF Serial!CreateStreamReader, Serial!stack, stack
<1>14. SlotsTypeOK'
  BY <1>1, <1>2, <1>5 DEF SInv, Local, SlotsTypeOK, stack
<1>15. InMacros'
  BY <1>1 DEF InMacros, stack
<1>16. Local'
  BY <1>1, <1>14, <1>15 DEF SInv, Local
<1>. QED  BY <1>2, <1>13, <1>16

\* The removal begins: the array is the one without the listener from now on.
LEMMA RemoveStep ==
    ASSUME SInv, \A s \in Stacks : pc[s] # "fetch", NEW r \in Readers, RemoveListener(r)
    PROVE  Local' /\ Serial!RemoveListener(r)
<1>. USE DEF RemoveListener
<1>1. /\ rsPc = "idle" /\ rsPc' = "shift" /\ rsReader' = r
      /\ UNCHANGED <<listeners, currentSize, removed, deleted, stack, fault>>
  BY DEF readers
<1>2. PICK k \in Indices(Counted) : listeners[k] = r /\ rsIndex' = k
  OBVIOUS
<1>3. /\ Array = Counted /\ Len(Array) = currentSize /\ Removed = removed
      /\ currentSize \in Nat /\ Array \in Seq(Readers) /\ Serial!IsInjective(Array)
  BY <1>1, IdleArray, SInvTypes
<1>4. k \in 0 .. currentSize - 1 /\ k \in Nat
  BY <1>2, <1>3 DEF Indices
<1>5. k + 1 \in DOMAIN Array /\ Array[k + 1] = r
  BY <1>1, <1>2, <1>3, <1>4, IdleArray, CountedShape
<1>6. r \in ToSet(Array)
  BY <1>5 DEF ToSet
<1>7. Serial!IndexOf(r) = k
  <2>1. k \in Serial!Indices(Array) /\ Array[k + 1] = r
    BY <1>3, <1>4, <1>5 DEF Serial!Indices
  <2>2. \E j \in Serial!Indices(Array) : Array[j + 1] = r
    BY <2>1
  <2>3. PICK j : j = Serial!IndexOf(r) /\ j \in Serial!Indices(Array) /\ Array[j + 1] = r
    BY <2>2, Zenon DEF Serial!IndexOf
  <2>4. j \in Int /\ j + 1 \in DOMAIN Array
    BY <1>3, <2>3 DEF Serial!Indices
  <2>5. j + 1 = k + 1
    BY <1>3, <1>5, <2>3, <2>4, Zenon DEF Serial!IsInjective
  <2>. QED  BY <1>4, <2>3, <2>4, <2>5
<1>8. Counted' = Counted
  BY <1>1 DEF Counted
<1>9. Array' = RemoveByIndex(Array, k)
  BY <1>1, <1>2, <1>3, <1>8 DEF Array
<1>10. Array' = Serial!RemoveByIndex(Array, Serial!IndexOf(r))
  BY <1>7, <1>9, Zenon DEF RemoveByIndex, Serial!RemoveByIndex, Indices, Serial!Indices
<1>11. Removed' = Removed \cup {r}
  BY <1>1, <1>3 DEF Removed
<1>12. LoopPc' = LoopPc
  BY <1>1 DEF LoopPc, stack
<1>13. Serial!RemoveListener(r)
  BY <1>1, <1>6, <1>10, <1>11, <1>12
     DEF Serial!RemoveListener, Serial!stack, stack, Serial!ToSet, ToSet
<1>14. SlotsTypeOK'
  BY <1>1, <1>2, <1>4 DEF SInv, Local, SlotsTypeOK, stack
<1>15. InMacros'
  BY <1>1, <1>2, <1>4 DEF InMacros, stack
<1>16. Local'
  BY <1>1, <1>14, <1>15 DEF SInv, Local
<1>. QED  BY <1>13, <1>16

\* The array after the removal, while the removal runs.
LEMMA ShiftingArray ==
    ASSUME SInv, rsPc = "shift"
    PROVE  /\ currentSize \in Nat /\ rsIndex \in 0 .. currentSize - 1
           /\ Array = [k \in 1 .. currentSize - 1 |->
                          IF k <= rsIndex THEN listeners[k - 1] ELSE listeners[k]]
<1>1. currentSize \in Nat /\ rsIndex \in 0 .. currentSize - 1 /\ rsIndex \in Nat
  BY SInvTypes DEF SInv, Local, InMacros
<1>2. Counted = [k \in 1 .. currentSize |-> listeners[k - 1]]
  BY DEF Counted
<1>3. Len(Counted) = currentSize /\ rsIndex \in Indices(Counted)
  BY <1>1, <1>2 DEF Indices
<1>4. Array = [k \in 1 .. currentSize - 1 |->
                  IF k <= rsIndex THEN Counted[k] ELSE Counted[k + 1]]
  BY <1>3 DEF Array, RemoveByIndex
<1>5. ASSUME NEW k \in 1 .. currentSize - 1
      PROVE  Counted[k] = listeners[k - 1] /\ Counted[k + 1] = listeners[k]
  <2>1. k \in 1 .. currentSize /\ k + 1 \in 1 .. currentSize /\ (k + 1) - 1 = k
    BY <1>1
  <2>. QED  BY <1>2, <2>1
<1>. QED  BY <1>1, <1>4, <1>5

\* An iteration moves one listener down; the array is that after the removal still.
LEMMA ShiftStep ==
    ASSUME SInv, \A s \in Stacks : pc[s] # "fetch", Shift
    PROVE  Local' /\ UNCHANGED Serial!vars
<1>. USE DEF Shift
<1>1. /\ rsPc = "shift" /\ rsPc' = "shift" /\ rsIndex' = rsIndex + 1
      /\ listeners' = [listeners EXCEPT ![rsIndex] = listeners[rsIndex + 1]]
      /\ UNCHANGED <<currentSize, removed, deleted, rsReader, stack, fault>>
      /\ rsIndex < currentSize - 1
  OBVIOUS
<1>2. /\ currentSize \in Nat /\ rsIndex \in 0 .. currentSize - 1
      /\ rsIndex' \in 0 .. currentSize' - 1 /\ rsIndex' \in Nat
  BY <1>1, ShiftingArray
<1>3. /\ \A k \in Int : k # rsIndex => listeners'[k] = listeners[k]
      /\ listeners'[rsIndex] = listeners[rsIndex + 1]
      /\ SlotsTypeOK'
  <2>1. rsIndex \in DOMAIN listeners /\ rsIndex + 1 \in DOMAIN listeners
    <3>1. Array \in Seq(Readers) /\ Len(Array) = currentSize - 1 /\ rsReader \in Readers
      BY <1>1, <1>2, ShiftingArray, SInvTypes DEF SInv, Local, InMacros
    <3>2. rsReader \notin ToSet(Array)
      BY <1>1, SInvTypes DEF Removed
    <3>3. currentSize - 1 < Cardinality(Readers) /\ Cardinality(Readers) \in Nat
      BY <3>1, <3>2, RoomForReader, FiniteReadersAssumption, FS_CardinalityType
    <3>. QED  BY <1>1, <1>2, <3>3 DEF SInv, Local, SlotsTypeOK
  <2>2. SlotsTypeOK'
    BY <1>1, <1>2, <2>1 DEF SInv, Local, SlotsTypeOK, stack
  <2>. QED  BY <1>1, <2>1, <2>2
<1>4. InMacros'
  BY <1>1, <1>2 DEF SInv, Local, InMacros, stack
<1>5. Local'
  BY <1>1, <1>3, <1>4 DEF SInv, Local
<1>6. Array' = Array
  <2>. DEFINE at(k) == IF k <= rsIndex THEN listeners[k - 1] ELSE listeners[k]
              to(k) == IF k <= rsIndex' THEN listeners'[k - 1] ELSE listeners'[k]
  <2>1. Array = [k \in 1 .. currentSize - 1 |-> at(k)]
    BY <1>1, ShiftingArray
  <2>2. Array' = [k \in 1 .. currentSize - 1 |-> to(k)]
    <3>1. Counted' = [k \in 1 .. currentSize |-> listeners'[k - 1]]
      BY <1>1 DEF Counted
    <3>2. Len(Counted') = currentSize /\ rsIndex' \in Indices(Counted')
      BY <1>1, <1>2, <3>1 DEF Indices
    <3>3. Array' = [k \in 1 .. currentSize - 1 |->
                       IF k <= rsIndex' THEN Counted'[k] ELSE Counted'[k + 1]]
      BY <1>1, <3>2 DEF Array, RemoveByIndex
    <3>4. ASSUME NEW k \in 1 .. currentSize - 1
          PROVE  Counted'[k] = listeners'[k - 1] /\ Counted'[k + 1] = listeners'[k]
      <4>1. k \in 1 .. currentSize /\ k + 1 \in 1 .. currentSize /\ (k + 1) - 1 = k
        BY <1>2
      <4>. QED  BY <3>1, <4>1
    <3>. QED  BY <3>3, <3>4
  <2>3. ASSUME NEW k \in 1 .. currentSize - 1 PROVE to(k) = at(k)
    <3>1. CASE k <= rsIndex
      <4>1. k - 1 # rsIndex /\ k - 1 \in Int /\ k <= rsIndex'
        BY <1>1, <1>2, <3>1
      <4>. QED  BY <1>3, <3>1, <4>1
    <3>2. CASE k = rsIndex + 1
      <4>1. k - 1 = rsIndex /\ k <= rsIndex' /\ ~ (k <= rsIndex)
        BY <1>1, <1>2, <3>2
      <4>. QED  BY <1>3, <3>2, <4>1
    <3>3. CASE k > rsIndex + 1
      <4>1. k # rsIndex /\ k \in Int /\ ~ (k <= rsIndex') /\ ~ (k <= rsIndex)
        BY <1>1, <1>2, <3>3
      <4>. QED  BY <1>3, <4>1
    <3>. QED  BY <1>2, <3>1, <3>2, <3>3
  <2>. HIDE DEF at, to
  <2>. QED  BY <2>1, <2>2, <2>3
<1>7. Removed' = Removed
  BY <1>1 DEF Removed
<1>. QED  BY <1>1, <1>5, <1>6, <1>7, SameDispatch

LEMMA DecrementStep ==
    ASSUME SInv, \A s \in Stacks : pc[s] # "fetch", Decrement
    PROVE  Local' /\ UNCHANGED Serial!vars
<1>. USE DEF Decrement
<1>1. /\ rsPc = "shift" /\ rsPc' = "idle" /\ rsIndex' = 0 /\ currentSize' = currentSize - 1
      /\ removed' = removed \cup {rsReader} /\ rsIndex >= currentSize - 1
      /\ UNCHANGED <<listeners, deleted, stack, fault>>
  OBVIOUS
<1>2. /\ currentSize \in Nat /\ rsIndex = currentSize - 1 /\ currentSize' \in Nat
      /\ Array = [k \in 1 .. currentSize - 1 |->
                     IF k <= rsIndex THEN listeners[k - 1] ELSE listeners[k]]
  BY <1>1, ShiftingArray
<1>3. Array' = [k \in 1 .. currentSize - 1 |-> listeners[k - 1]]
  BY <1>1 DEF Array, Counted
<1>4. \A k \in 1 .. currentSize - 1 : k <= rsIndex
  BY <1>2
<1>5. Array' = Array
  BY <1>2, <1>3, <1>4
<1>6. Removed' = Removed
  BY <1>1 DEF Removed
<1>7. SlotsTypeOK'
  BY <1>1, <1>2 DEF SInv, Local, SlotsTypeOK, stack
<1>8. InMacros'
  BY <1>1 DEF InMacros, stack
<1>9. Local'
  BY <1>1, <1>7, <1>8 DEF SInv, Local
<1>. QED  BY <1>1, <1>5, <1>6, <1>9, SameDispatch

LEMMA DeleteStep ==
    ASSUME SInv, \A s \in Stacks : pc[s] # "fetch", DeleteReader
    PROVE  Local' /\ \E r \in Readers : Serial!DeleteReader(r)
<1>. USE DEF DeleteReader
<1>1. rsPc = "idle" /\ UNCHANGED <<listeners, currentSize, removed, service, stack, fault>>
  OBVIOUS
<1>2. PICK r \in removed \ deleted : deleted' = deleted \cup {r}
  OBVIOUS
<1>3. Removed = removed /\ Removed \subseteq Readers
  BY <1>1, IdleArray, SInvTypes
<1>4. Array' = Array /\ Removed' = Removed /\ LoopPc' = LoopPc
  BY <1>1 DEF Array, Counted, Removed, LoopPc, service, stack
<1>5. r \in Readers /\ Serial!DeleteReader(r)
  BY <1>1, <1>2, <1>3, <1>4 DEF Serial!DeleteReader, Serial!stack, stack
<1>6. Local'
  BY <1>1 DEF SInv, Local, SlotsTypeOK, InMacros, service, stack
<1>. QED  BY <1>5, <1>6
-----------------------------------------------------------------------------
(* The steps of the callbacks, no macro being inside.                      *)

\* The test of the loop is not seen by the bus: "fetch" is "loop" there.
LEMMA LoopPcStep ==
    ASSUME SInv, NEW s \in Stacks, NEW x, pc' = [pc EXCEPT ![s] = x]
    PROVE  LoopPc' = [LoopPc EXCEPT ![s] = IF x = "fetch" THEN "loop" ELSE x]
BY SInvTypes DEF LoopPc

\* A callback does not write the array.
LEMMA CallbackArray ==
    ASSUME SInv, UNCHANGED readers, UNCHANGED service
    PROVE  /\ Array' = Array /\ Removed' = Removed /\ deleted' = deleted
           /\ UNCHANGED Serial!readers
BY DEF readers, service, Array, Counted, Removed, Serial!readers

\* What is left to show of a callback's step for the local part of the invariant.
LEMMA CallbackLocal ==
    ASSUME SInv, rsPc = "idle", UNCHANGED readers, UNCHANGED service,
           NEW s \in Stacks, NEW x \in {"idle", "loop", "fetch", "filter", "onAPDU"},
           pc' = [pc EXCEPT ![s] = x], x = "fetch" => i'[s] < currentSize,
           \A t \in Stacks \ {s} : i'[t] = i[t], fault' # "nullListener"
    PROVE  Local'
<1>1. SlotsTypeOK'
  BY DEF SInv, Local, SlotsTypeOK, readers, service
<1>2. \A t \in Stacks : pc'[t] = IF t = s THEN x ELSE pc[t]
  BY SInvTypes
<1>3. InMacros'
  BY <1>2 DEF SInv, Local, InMacros, readers, service
<1>. QED  BY <1>1, <1>3 DEF Local

LEMMA NewAPDUStep ==
    ASSUME SInv, rsPc = "idle", NEW s \in Stacks, NewAPDU(s)
    PROVE  Local' /\ \E w \in SUBSET Readers : Serial!NewAPDU(s, w)
<1>. USE DEF NewAPDU
<1>1. pc[s] = "idle" /\ LoopPc[s] = "idle"
  BY DEF LoopPc
<1>2. PICK w \in SUBSET Readers : wanted' = [wanted EXCEPT ![s] = w]
  OBVIOUS
<1>3. Local'
  BY CallbackLocal DEF SInv, Local
<1>4. LoopPc' = [LoopPc EXCEPT ![s] = "loop"]
  BY LoopPcStep
<1>5. began' = [began EXCEPT ![s] = [listeners |-> Serial!ToSet(Array), removed |-> Removed]]
  BY IdleArray DEF Serial!ToSet, ToSet
<1>6. Serial!NewAPDU(s, w)
  BY <1>1, <1>2, <1>4, <1>5, CallbackArray DEF Serial!NewAPDU
<1>. QED  BY <1>3, <1>6

LEMMA TestStep ==
    ASSUME SInv, rsPc = "idle", NEW s \in Stacks, Test(s)
    PROVE  Local' /\ UNCHANGED Serial!vars
<1>. USE DEF Test
<1>1. Local'
  BY CallbackLocal DEF SInv, Local
<1>2. LoopPc' = [LoopPc EXCEPT ![s] = "loop"]
  BY LoopPcStep
<1>3. LoopPc[s] = "loop" /\ DOMAIN LoopPc = Stacks
      /\ LoopPc = [t \in Stacks |-> LoopPc[t]]
  BY DEF LoopPc
<1>4. LoopPc' = LoopPc
  BY <1>2, <1>3
<1>. QED  BY <1>1, <1>4, CallbackArray DEF Serial!vars, Serial!stack

\* The slot that is fetched is one of the array's, and so holds a reader.
LEMMA FetchStep ==
    ASSUME SInv, rsPc = "idle", NEW s \in Stacks, Fetch(s)
    PROVE  Local' /\ Serial!Fetch(s)
<1>. USE DEF Fetch
<1>1. /\ i[s] \in 0 .. currentSize - 1 /\ i[s] < Len(Array)
      /\ i[s] + 1 \in 1 .. currentSize /\ Array[i[s] + 1] = listeners[i[s]]
  BY SInvTypes, IdleArray DEF SInv, Local, InMacros
<1>2. listeners[i[s]] # NoListener
  <2>1. Array[i[s] + 1] \in Readers
    BY <1>1, SInvTypes, IdleArray
  <2>. QED  BY <1>1, <2>1, NoListenerAssumption
<1>3. /\ pc' = [pc EXCEPT ![s] = "filter"] /\ UNCHANGED fault
      /\ listener' = [listener EXCEPT ![s] = listeners[i[s]]]
  BY <1>2
<1>4. Local'
  BY <1>3, CallbackLocal DEF SInv, Local
<1>5. LoopPc' = [LoopPc EXCEPT ![s] = "filter"] /\ LoopPc[s] = "loop"
  BY <1>3, LoopPcStep DEF LoopPc
<1>6. Serial!Fetch(s)
  BY <1>1, <1>3, <1>5, CallbackArray DEF Serial!Fetch
<1>. QED  BY <1>4, <1>6

LEMMA FilterPassStep ==
    ASSUME SInv, rsPc = "idle", NEW s \in Stacks, FilterPass(s)
    PROVE  Local' /\ Serial!FilterPass(s)
<1>. USE DEF FilterPass
<1>1. Local'
  BY CallbackLocal DEF SInv, Local
<1>2. LoopPc' = [LoopPc EXCEPT ![s] = "onAPDU"] /\ LoopPc[s] = "filter"
  BY LoopPcStep DEF LoopPc
<1>. QED  BY <1>1, <1>2, CallbackArray DEF Serial!FilterPass

\* The end of a turn, for the two actions that end one.
LEMMA AdvanceStep ==
    ASSUME SInv, rsPc = "idle", NEW s \in Stacks, Advance(s)
    PROVE  /\ Local' /\ UNCHANGED Serial!readers
           /\ LoopPc' = [LoopPc EXCEPT ![s] = "loop"]
<1>. USE DEF Advance
<1>1. \A t \in Stacks \ {s} : i'[t] = i[t]
  BY SInvTypes
<1>2. Local'
  BY <1>1, CallbackLocal DEF SInv, Local
<1>3. LoopPc' = [LoopPc EXCEPT ![s] = "loop"]
  BY LoopPcStep
<1>. QED  BY <1>2, <1>3, CallbackArray

LEMMA FilterExcludeStep ==
    ASSUME SInv, rsPc = "idle", NEW s \in Stacks, FilterExclude(s)
    PROVE  Local' /\ Serial!FilterExclude(s)
<1>. USE DEF FilterExclude
<1>1. LoopPc[s] = "filter"
  BY DEF LoopPc
<1>. QED  BY <1>1, AdvanceStep DEF Advance, Serial!FilterExclude

LEMMA OnAPDUStep ==
    ASSUME SInv, rsPc = "idle", NEW s \in Stacks, OnAPDU(s)
    PROVE  Local' /\ Serial!OnAPDU(s)
<1>. USE DEF OnAPDU
<1>1. LoopPc[s] = "onAPDU"
  BY DEF LoopPc
<1>. QED  BY <1>1, AdvanceStep DEF Advance, Serial!OnAPDU

LEMMA OnAPDUDeletedStep ==
    ASSUME SInv, rsPc = "idle", NEW s \in Stacks, OnAPDUDeleted(s)
    PROVE  Local' /\ Serial!OnAPDUDeleted(s)
<1>. USE DEF OnAPDUDeleted
<1>1. LoopPc[s] = "onAPDU" /\ LoopPc' = LoopPc
  BY DEF LoopPc, stack
<1>2. Local'
  BY DEF SInv, Local, SlotsTypeOK, InMacros, readers, service, stack
<1>. QED  BY <1>1, <1>2, CallbackArray DEF Serial!OnAPDUDeleted, Serial!stack, stack

LEMMA FinishStep ==
    ASSUME SInv, rsPc = "idle", NEW s \in Stacks, Finish(s)
    PROVE  Local' /\ Serial!Finish(s)
<1>. USE DEF Finish
<1>1. \A t \in Stacks \ {s} : i'[t] = i[t]
  BY SInvTypes
<1>2. Local'
  BY <1>1, CallbackLocal DEF SInv, Local
<1>3. LoopPc' = [LoopPc EXCEPT ![s] = "idle"] /\ LoopPc[s] = "loop"
  BY LoopPcStep DEF LoopPc
<1>4. i[s] >= Len(Array)
  BY IdleArray
<1>. QED  BY <1>2, <1>3, <1>4, CallbackArray DEF Serial!Finish

-----------------------------------------------------------------------------
(* The refinement, and what follows from it.                               *)

LEMMA SerialInit == Init => Local /\ Serial!Init
<1>. SUFFICES ASSUME Init PROVE Local /\ Serial!Init
  OBVIOUS
<1>. USE DEF Init
<1>1. Local
  BY DEF Local, SlotsTypeOK, InMacros
<1>2. Array = << >>
  BY DEF Array, Counted
<1>3. Removed = {} /\ LoopPc = [s \in Stacks |-> "idle"]
  BY DEF Removed, LoopPc
<1>. QED  BY <1>1, <1>2, <1>3 DEF Serial!Init

\* A step keeps the local part of the invariant, and is a step of Dispatch or leaves
\* its state as it is.
LEMMA StepImplements ==
    ASSUME SInv, [SerialNext]_vars
    PROVE  Local' /\ [Serial!Next]_(Serial!vars)
<1>1. CASE UNCHANGED vars
  <2>. USE <1>1 DEF vars, readers, service, stack
  <2>1. Array' = Array /\ Removed' = Removed
    BY DEF Array, Counted, Removed
  <2>2. Local'
    BY <2>1 DEF SInv, Local, SlotsTypeOK, InMacros
  <2>. QED  BY <2>1, <2>2, SameDispatch
<1>2. ASSUME fault = "none", \A s \in Stacks : pc[s] # "fetch", ServiceStep
      PROVE  Local' /\ [Serial!Next]_(Serial!vars)
  <2>. USE <1>2 DEF Serial!Next, Serial!RoutingService
  <2>1. ASSUME NEW r \in Readers, CreateStreamReader(r)
        PROVE  Local' /\ UNCHANGED Serial!vars
    BY <2>1, CreateStep
  <2>2. ASSUME NEW r \in Readers, RemoveListener(r)
        PROVE  Local' /\ Serial!Next
    BY <2>2, RemoveStep
  <2>3. CASE StoreSlot
    BY <2>3, StoreSlotStep
  <2>4. CASE Shift
    BY <2>4, ShiftStep
  <2>5. CASE Decrement
    BY <2>5, DecrementStep
  <2>6. CASE DeleteReader
    BY <2>6, DeleteStep
  <2>. QED  BY <2>1, <2>2, <2>3, <2>4, <2>5, <2>6 DEF ServiceStep
<1>3. ASSUME fault = "none", rsPc = "idle", NEW s \in Stacks, Callback(s)
      PROVE  Local' /\ [Serial!Next]_(Serial!vars)
  <2>. USE <1>3 DEF Serial!Next, Serial!Callback
  <2>1. CASE NewAPDU(s)
    BY <2>1, NewAPDUStep
  <2>2. CASE Test(s)
    BY <2>2, TestStep
  <2>3. CASE Fetch(s)
    BY <2>3, FetchStep
  <2>4. CASE FilterPass(s)
    BY <2>4, FilterPassStep
  <2>5. CASE FilterExclude(s)
    BY <2>5, FilterExcludeStep
  <2>6. CASE OnAPDU(s)
    BY <2>6, OnAPDUStep
  <2>7. CASE OnAPDUDeleted(s)
    BY <2>7, OnAPDUDeletedStep
  <2>8. CASE Finish(s)
    BY <2>8, FinishStep
  <2>. QED  BY <2>1, <2>2, <2>3, <2>4, <2>5, <2>6, <2>7, <2>8 DEF Callback
<1>. QED  BY <1>1, <1>2, <1>3 DEF SerialNext

LEMMA SInvHolds == SerialSpec => []SInv
<1>1. Init => SInv
  BY SerialInit, Serial!IInvInit, NoListenerAssumption, FiniteReadersAssumption
     DEF SInv, IsFiniteSet, Serial!IsFiniteSet
<1>2. SInv /\ [SerialNext]_vars => SInv'
  <2>. SUFFICES ASSUME SInv, [SerialNext]_vars PROVE SInv'
    OBVIOUS
  <2>1. Local' /\ [Serial!Next]_(Serial!vars)
    BY StepImplements
  <2>2. Serial!IInv
    BY DEF SInv
  <2>3. Serial!IInv'
    BY <2>1, <2>2, Serial!IInvStep, NoListenerAssumption, FiniteReadersAssumption
       DEF IsFiniteSet, Serial!IsFiniteSet
  <2>. QED  BY <2>1, <2>3 DEF SInv
<1>. QED  BY <1>1, <1>2, PTL DEF SerialSpec

\* Under a lock around each array macro, and each test and fetch of the callbacks'
\* loop, the loads, stores and shift loop of RTIDNP3_ARRAY_ADD_ELEMENT_EXPAND and
\* RTIDNP3_ARRAY_REMOVE_ELEMENT_BY_INDEX add and remove a listener in one step: every
\* step of the code is one of Dispatch.
THEOREM ListenersRight == SerialSpec => ListenersImplemented
<1>1. Init => Atomic!Init
  BY SerialInit DEF Serial!Init, Atomic!Init
<1>2. SInv /\ [SerialNext]_vars => [Atomic!Next]_(Atomic!vars)
  <2>1. [Serial!Next]_(Serial!vars) => [Atomic!Next]_(Atomic!vars)
    BY Zenon DEF Serial!Next, Atomic!Next, Serial!vars, Atomic!vars,
       Serial!readers, Atomic!readers, Serial!stack, Atomic!stack,
       Serial!RoutingService, Atomic!RoutingService, Serial!Callback, Atomic!Callback,
       Serial!CreateStreamReader, Atomic!CreateStreamReader, Serial!Known, Atomic!Known,
       Serial!ToSet, Atomic!ToSet, Serial!RemoveListener, Atomic!RemoveListener,
       Serial!RemoveByIndex, Atomic!RemoveByIndex, Serial!IndexOf, Atomic!IndexOf,
       Serial!Indices, Atomic!Indices, Serial!DeleteReader, Atomic!DeleteReader,
       Serial!NewAPDU, Atomic!NewAPDU, Serial!Fetch, Atomic!Fetch,
       Serial!FilterPass, Atomic!FilterPass, Serial!FilterExclude, Atomic!FilterExclude,
       Serial!OnAPDU, Atomic!OnAPDU, Serial!OnAPDUDeleted, Atomic!OnAPDUDeleted,
       Serial!Finish, Atomic!Finish
  <2>. QED  BY <2>1, StepImplements
<1>. QED  BY SInvHolds, <1>1, <1>2, PTL DEF SerialSpec, ListenersImplemented, Atomic!Spec

\* Under such a lock no listener is given an APDU twice, none is called that was
\* removed before the APDU came, a removal costs at most one other listener the APDU,
\* and no callback fetches the null pointer of a slot not yet written: what the run
\* without the lock violates is lost to an interruption inside a macro.
THEOREM LockedListenersPropagate ==
    SerialSpec => [](PropagatedOnce /\ fault # "nullListener")
<1>1. Init => Serial!Init
  BY SerialInit
<1>2. SInv /\ [SerialNext]_vars => [Serial!Next]_(Serial!vars)
  BY StepImplements
<1>3. SerialSpec => Serial!Spec
  BY SInvHolds, <1>1, <1>2, PTL DEF SerialSpec, Serial!Spec
<1>4. /\ Serial!Spec => []Serial!DeliveredOnce
      /\ Serial!Spec => []Serial!RemovedNotCalled
      /\ Serial!Spec => []Serial!OneMissPerRemoval
  <2>. USE NoListenerAssumption, FiniteReadersAssumption DEF IsFiniteSet, Serial!IsFiniteSet
  <2>1. Serial!Spec => []Serial!DeliveredOnce
    BY Serial!NoReaderCalledTwice
  <2>2. Serial!Spec => []Serial!RemovedNotCalled
    BY Serial!RemovedReadersSilent
  <2>3. Serial!Spec => []Serial!OneMissPerRemoval
    BY Serial!RemovalsCostOneMiss
  <2>. QED  BY <2>1, <2>2, <2>3
<1>5. ASSUME SInv, Serial!DeliveredOnce, Serial!RemovedNotCalled, Serial!OneMissPerRemoval
      PROVE  PropagatedOnce /\ fault # "nullListener"
  <2>1. \A s \in Stacks : /\ InHand(s) <=> Serial!InHand(s)
                          /\ pc[s] = "idle" <=> LoopPc[s] = "idle"
    BY DEF InHand, Serial!InHand, LoopPc
  <2>2. DeliveredOnce
    BY <1>5, <2>1 DEF DeliveredOnce, Serial!DeliveredOnce, Serial!IsInjective, IsInjective,
                      Serial!ToSet, ToSet
  <2>3. RemovedNotCalled
    BY <1>5, <2>1 DEF RemovedNotCalled, Serial!RemovedNotCalled, Serial!ToSet, ToSet
  <2>4. OneMissPerRemoval
    <3>. SUFFICES ASSUME NEW s \in Stacks, pc[s] = "loop", i[s] >= currentSize
                  PROVE  Cardinality((wanted[s] \cap began[s].listeners)
                                       \ (Removed \cup ToSet(delivered[s])))
                             <= Cardinality(Removals(s))
      BY DEF OneMissPerRemoval
    <3>1. i[s] >= Len(Array) /\ LoopPc[s] = "loop"
      <4>1. Len(Array) \in Nat /\ Len(Array) <= currentSize
        <5>1. CASE rsPc = "idle"
          BY <1>5, <5>1, IdleArray, SInvTypes
        <5>2. CASE rsPc = "shift"
          <6>1. DOMAIN Array = 1 .. currentSize - 1 /\ currentSize - 1 \in Nat
            BY <1>5, <5>2, ShiftingArray
          <6>2. Len(Array) = currentSize - 1
            BY <1>5, <6>1, SInvTypes
          <6>. QED  BY <1>5, <6>1, <6>2, SInvTypes
        <5>3. CASE rsPc = "slot"
          <6>1. DOMAIN Array = 1 .. currentSize - 1 /\ currentSize - 1 \in Nat
            BY <1>5, <5>3, SInvTypes DEF SInv, Local, InMacros, Array
          <6>2. Len(Array) = currentSize - 1
            BY <1>5, <6>1, SInvTypes
          <6>. QED  BY <1>5, <6>1, <6>2, SInvTypes
        <5>. QED  BY <1>5, <5>1, <5>2, <5>3 DEF SInv, Local, SlotsTypeOK
      <4>2. i[s] \in Nat /\ currentSize \in Nat
        BY <1>5, SInvTypes
      <4>. QED  BY <4>1, <4>2 DEF LoopPc
    <3>. QED
      BY <1>5, <3>1 DEF Serial!OneMissPerRemoval, Serial!Removals, Removals,
                        Serial!ToSet, ToSet, Serial!Cardinality, Cardinality
  <2>. QED  BY <1>5, <2>2, <2>3, <2>4 DEF PropagatedOnce, SInv, Local
<1>. QED  BY SInvHolds, <1>3, <1>4, <1>5, PTL
=============================================================================
