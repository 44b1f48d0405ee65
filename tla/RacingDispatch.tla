--------------------------- MODULE RacingDispatch ---------------------------
(***************************************************************************)
(* The callbacks and the listeners of Dispatch, one access to the array at *)
(* a time: the stack threads read currentSize and the slots while the      *)
(* macros that add and remove a listener write them, with no lock.  Under  *)
(* Spec the threads interleave as they may in the program.  Under          *)
(* SerialSpec nothing happens inside a macro, nor between the test and the *)
(* fetch of a callback's loop, which is what a lock around each would      *)
(* give: then Dispatch describes the code.                                 *)
(*                                                                         *)
(* Only the Routing Service writes the array, here one reader at a time,   *)
(* so its own loads, such as those of the search, are not steps.  The      *)
(* array has room for all the readers and is never reallocated here.       *)
(***************************************************************************)
EXTENDS Listeners

VARIABLES
    listeners,     \* MessageBus::listeners, with its spare slots
    currentSize,   \* listenersData->currentSize
    removed, deleted,   \* as in Dispatch
    rsPc,          \* the Routing Service: "idle", "slot" in an addition, or "shift"
    rsReader,      \* the reader it adds or removes
    rsIndex,       \* rm_el_byi_i
    pc,            \* per stack: as in Dispatch, and "fetch" after the loop's test
    i, listener, wanted, delivered, began,   \* as in Dispatch
    fault          \* "none", "deletedReader" or "nullListener"

readers == <<listeners, currentSize, removed, deleted>>
service == <<rsPc, rsReader, rsIndex>>
stack == <<pc, i, listener, wanted, delivered, began>>
vars == <<readers, service, stack, fault>>

\* The slots that count.
Counted == [k \in 1 .. currentSize |-> listeners[k - 1]]

-----------------------------------------------------------------------------
(* The Routing Service: DNP3Connection_createStreamReader and _delete.     *)

\* The slot is counted before it is written.
CreateStreamReader(r) ==
    /\ rsPc = "idle" /\ r \in Readers \ (ToSet(Counted) \cup removed)
    /\ currentSize' = currentSize + 1
    /\ rsPc' = "slot" /\ rsReader' = r
    /\ UNCHANGED <<listeners, removed, deleted, rsIndex, stack, fault>>

StoreSlot ==
    /\ rsPc = "slot"
    /\ listeners' = [listeners EXCEPT ![currentSize - 1] = rsReader]
    /\ rsPc' = "idle" /\ rsReader' = NoListener
    /\ UNCHANGED <<currentSize, removed, deleted, rsIndex, stack, fault>>

\* The search has found the listener.
RemoveListener(r) ==
    /\ rsPc = "idle"
    /\ \E k \in Indices(Counted) : listeners[k] = r /\ rsIndex' = k
    /\ rsPc' = "shift" /\ rsReader' = r
    /\ UNCHANGED <<readers, stack, fault>>

\* An iteration of the loop of the removal.
Shift ==
    /\ rsPc = "shift" /\ rsIndex < currentSize - 1
    /\ listeners' = [listeners EXCEPT ![rsIndex] = listeners[rsIndex + 1]]
    /\ rsIndex' = rsIndex + 1
    /\ UNCHANGED <<currentSize, removed, deleted, rsPc, rsReader, stack, fault>>

\* The last slot keeps what it holds.
Decrement ==
    /\ rsPc = "shift" /\ rsIndex >= currentSize - 1
    /\ currentSize' = currentSize - 1
    /\ removed' = removed \cup {rsReader}
    /\ rsPc' = "idle" /\ rsReader' = NoListener /\ rsIndex' = 0
    /\ UNCHANGED <<listeners, deleted, stack, fault>>

\* DNP3Reader_delete.
DeleteReader ==
    /\ rsPc = "idle"
    /\ \E r \in removed \ deleted : deleted' = deleted \cup {r}
    /\ UNCHANGED <<listeners, currentSize, removed, service, stack, fault>>

-----------------------------------------------------------------------------
(* A stack: the three callbacks.                                           *)

NewAPDU(s) ==
    /\ pc[s] = "idle"
    /\ pc' = [pc EXCEPT ![s] = "loop"]
    /\ \E w \in SUBSET Readers : wanted' = [wanted EXCEPT ![s] = w]
    /\ began' = [began EXCEPT ![s] = [listeners |-> ToSet(Counted), removed |-> removed]]
    /\ UNCHANGED <<readers, service, i, listener, delivered, fault>>

\* The test of the loop.
Test(s) ==
    /\ pc[s] = "loop" /\ i[s] < currentSize
    /\ pc' = [pc EXCEPT ![s] = "fetch"]
    /\ UNCHANGED <<readers, service, i, listener, wanted, delivered, began, fault>>

\* The filter of the listener is called next: not with a null pointer.
Fetch(s) ==
    /\ pc[s] = "fetch"
    /\ IF listeners[i[s]] = NoListener
       THEN /\ fault' = "nullListener"
            /\ UNCHANGED <<pc, listener>>
       ELSE /\ pc' = [pc EXCEPT ![s] = "filter"]
            /\ listener' = [listener EXCEPT ![s] = listeners[i[s]]]
            /\ UNCHANGED fault
    /\ UNCHANGED <<readers, service, i, wanted, delivered, began>>

FilterPass(s) ==
    /\ pc[s] = "filter" /\ listener[s] \in wanted[s]
    /\ pc' = [pc EXCEPT ![s] = "onAPDU"]
    /\ UNCHANGED <<readers, service, i, listener, wanted, delivered, began, fault>>

\* The turn of the loop is over.
Advance(s) ==
    /\ pc' = [pc EXCEPT ![s] = "loop"]
    /\ i' = [i EXCEPT ![s] = @ + 1]
    /\ listener' = [listener EXCEPT ![s] = NoListener]
    /\ UNCHANGED <<readers, service, wanted, began, fault>>

FilterExclude(s) ==
    /\ pc[s] = "filter" /\ listener[s] \notin wanted[s]
    /\ Advance(s)
    /\ UNCHANGED delivered

OnAPDU(s) ==
    /\ pc[s] = "onAPDU" /\ listener[s] \notin deleted
    /\ Advance(s)
    /\ delivered' = [delivered EXCEPT ![s] = Append(@, listener[s])]

OnAPDUDeleted(s) ==
    /\ pc[s] = "onAPDU" /\ listener[s] \in deleted
    /\ fault' = "deletedReader"
    /\ UNCHANGED <<readers, service, stack>>

Finish(s) ==
    /\ pc[s] = "loop" /\ i[s] >= currentSize
    /\ pc' = [pc EXCEPT ![s] = "idle"]
    /\ i' = [i EXCEPT ![s] = 0]
    /\ wanted' = [wanted EXCEPT ![s] = {}]
    /\ delivered' = [delivered EXCEPT ![s] = << >>]
    /\ began' = [began EXCEPT ![s] = [listeners |-> {}, removed |-> {}]]
    /\ UNCHANGED <<readers, service, listener, fault>>

-----------------------------------------------------------------------------
Init ==
    /\ listeners = [k \in 0 .. Cardinality(Readers) - 1 |-> NoListener]
    /\ currentSize = 0 /\ removed = {} /\ deleted = {}
    /\ rsPc = "idle" /\ rsReader = NoListener /\ rsIndex = 0
    /\ pc = [s \in Stacks |-> "idle"]
    /\ i = [s \in Stacks |-> 0]
    /\ listener = [s \in Stacks |-> NoListener]
    /\ wanted = [s \in Stacks |-> {}]
    /\ delivered = [s \in Stacks |-> << >>]
    /\ began = [s \in Stacks |-> [listeners |-> {}, removed |-> {}]]
    /\ fault = "none"

ServiceStep ==
    \/ \E r \in Readers : CreateStreamReader(r) \/ RemoveListener(r)
    \/ StoreSlot \/ Shift \/ Decrement \/ DeleteReader

Callback(s) ==
    \/ NewAPDU(s) \/ Test(s) \/ Fetch(s) \/ FilterPass(s) \/ FilterExclude(s)
    \/ OnAPDU(s) \/ OnAPDUDeleted(s) \/ Finish(s)

Next == fault = "none" /\ (ServiceStep \/ \E s \in Stacks : Callback(s))

SerialNext ==
    /\ fault = "none"
    /\ \/ (\A s \in Stacks : pc[s] # "fetch") /\ ServiceStep
       \/ rsPc = "idle" /\ \E s \in Stacks : Callback(s)

Spec == Init /\ [][Next]_vars
SerialSpec == Init /\ [][SerialNext]_vars

-----------------------------------------------------------------------------
(* Properties.                                                             *)

\* The array as it was before an addition that is running, and as it is after a
\* removal that is: the slot at the index is the one the loop has yet to overwrite.
Array ==
    IF rsPc = "slot" THEN [k \in 1 .. currentSize - 1 |-> listeners[k - 1]]
    ELSE IF rsPc = "shift" THEN RemoveByIndex(Counted, rsIndex)
    ELSE Counted

\* The readers removed, or whose removal has begun.
Removed == IF rsPc = "shift" THEN removed \cup {rsReader} ELSE removed

\* The test of the loop and the fetch as one step.
LoopPc == [s \in Stacks |-> IF pc[s] = "fetch" THEN "loop" ELSE pc[s]]

Atomic == INSTANCE Dispatch
    WITH listeners <- Array,
         removed <- Removed,
         pc <- LoopPc

\* When nothing happens inside a macro, nor between a test and its fetch, the stores
\* and the loop of the macros amount to the single steps of Dispatch.
ListenersImplemented == Atomic!Spec

InHand(s) == pc[s] \in {"filter", "onAPDU"}

\* No reader is given an APDU twice.
DeliveredOnce ==
    \A s \in Stacks : pc[s] # "idle" =>
        /\ IsInjective(delivered[s])
        /\ InHand(s) => listener[s] \notin ToSet(delivered[s])

\* No reader is called that was removed before the APDU came.
RemovedNotCalled ==
    \A s \in Stacks : pc[s] # "idle" =>
        /\ InHand(s) => listener[s] \notin began[s].removed
        /\ ToSet(delivered[s]) \cap began[s].removed = {}

Removals(s) == Removed \ began[s].removed

\* When a callback ends, the readers that were to get its APDU and did not are no
\* more than those whose removal has begun since it began.
OneMissPerRemoval ==
    \A s \in Stacks : pc[s] = "loop" /\ i[s] >= currentSize =>
        Cardinality((wanted[s] \cap began[s].listeners)
                        \ (Removed \cup ToSet(delivered[s])))
            <= Cardinality(Removals(s))

\* The APDUs that pass the filter "will be propagated to the route's reader"
\* (USERS_MANUAL.md:400-402): once, to readers that have a route, and past no more
\* of them than a loop must miss whose array loses elements under it.  This is what
\* Dispatch promises of the same loop, its use of the array being undisturbed.
PropagatedOnce == DeliveredOnce /\ RemovedNotCalled /\ OneMissPerRemoval
=============================================================================
