------------------------------ MODULE Dispatch ------------------------------
(***************************************************************************)
(* How the message bus gives an APDU to its listeners, the stream readers  *)
(* of the adapter, while the Routing Service creates and deletes readers.  *)
(*                                                                         *)
(* The callbacks newRequestAPDU, newResponseAPDU and newUnsolResponseAPDU  *)
(* run in the threads of the DNP3 stacks, and the functions that create    *)
(* and delete readers in threads of the Routing Service; all walk or       *)
(* change the array of listeners, with no lock.  As in StreamReader, each  *)
(* use of an array macro, and each test and fetch of the callbacks' loop,  *)
(* is one step: the code as it would be with a lock around each of them.   *)
(* RacingDispatch takes the array one access at a time, and shows that     *)
(* its macros implement these steps under such a lock, and what breaks     *)
(* without it.                                                             *)
(*                                                                         *)
(* DNP3Reader_delete does not free the reader itself: its filter can still *)
(* be read, but its array of APDUs is null, and adding to it is undefined. *)
(***************************************************************************)
EXTENDS Listeners

VARIABLES
    listeners,     \* MessageBus::listeners
    removed,       \* the readers taken out of listeners by deleteStreamReader
    deleted,       \* those of them that DNP3Reader_delete has disposed of
    pc,            \* per stack: "idle", or where it is in the loop of a callback
    i,             \* per stack: the index of the loop
    listener,      \* per stack: the listener fetched, inside the loop
    wanted,        \* per stack: the readers whose filter its APDU passes
    delivered,     \* per stack: the readers its APDU was given to, in order
    began,         \* per stack: listeners and removed when its callback began
    fault          \* "none", or "deletedReader"

readers == <<listeners, removed, deleted>>
stack == <<pc, i, listener, wanted, delivered, began>>
vars == <<readers, stack, fault>>

-----------------------------------------------------------------------------
(* The Routing Service: DNP3Connection_createStreamReader and _delete.     *)

Known == ToSet(listeners) \cup removed

\* Mutant of CreateStreamReader: the new listener goes to the front.
FrontCreateStreamReader(r) ==
    /\ r \in Readers \ Known
    /\ listeners' = <<r>> \o listeners
    /\ UNCHANGED <<removed, deleted, stack, fault>>

CreateStreamReader(r) ==
    /\ r \in Readers \ Known
    /\ listeners' = Append(listeners, r)
    /\ UNCHANGED <<removed, deleted, stack, fault>>

IndexOf(r) == CHOOSE k \in Indices(listeners) : listeners[k + 1] = r

\* Mutant of RemoveListener: the listener stays in the array.
KeepRemoveListener(r) ==
    /\ r \in ToSet(listeners)
    /\ removed' = removed \cup {r}
    /\ UNCHANGED <<listeners, deleted, stack, fault>>

\* The first half of deleteStreamReader.
RemoveListener(r) ==
    /\ r \in ToSet(listeners)
    /\ listeners' = RemoveByIndex(listeners, IndexOf(r))
    /\ removed' = removed \cup {r}
    /\ UNCHANGED <<deleted, stack, fault>>

\* The second half: the APDUs that wait are freed, and the array with them.
DeleteReader(r) ==
    /\ r \in removed \ deleted
    /\ deleted' = deleted \cup {r}
    /\ UNCHANGED <<listeners, removed, stack, fault>>

-----------------------------------------------------------------------------
(* A stack: the three callbacks, which differ in the type of the APDU only. *)

\* Mutant of NewAPDU: the loop begins with the second listener.
SecondNewAPDU(s, w) ==
    /\ pc[s] = "idle"
    /\ pc' = [pc EXCEPT ![s] = "loop"]
    /\ i' = [i EXCEPT ![s] = 1]
    /\ wanted' = [wanted EXCEPT ![s] = w]
    /\ began' = [began EXCEPT ![s] = [listeners |-> ToSet(listeners), removed |-> removed]]
    /\ UNCHANGED <<readers, listener, delivered, fault>>

\* An APDU that passes the filters of the readers in w arrives, and is copied.
NewAPDU(s, w) ==
    /\ pc[s] = "idle"
    /\ pc' = [pc EXCEPT ![s] = "loop"]
    /\ wanted' = [wanted EXCEPT ![s] = w]
    /\ began' = [began EXCEPT ![s] = [listeners |-> ToSet(listeners), removed |-> removed]]
    /\ UNCHANGED <<readers, i, listener, delivered, fault>>

Fetch(s) ==
    /\ pc[s] = "loop" /\ i[s] < Len(listeners)
    /\ listener' = [listener EXCEPT ![s] = listeners[i[s] + 1]]
    /\ pc' = [pc EXCEPT ![s] = "filter"]
    /\ UNCHANGED <<readers, i, wanted, delivered, began, fault>>

FilterPass(s) ==
    /\ pc[s] = "filter" /\ listener[s] \in wanted[s]
    /\ pc' = [pc EXCEPT ![s] = "onAPDU"]
    /\ UNCHANGED <<readers, i, listener, wanted, delivered, began, fault>>

FilterExclude(s) ==
    /\ pc[s] = "filter" /\ listener[s] \notin wanted[s]
    /\ pc' = [pc EXCEPT ![s] = "loop"]
    /\ i' = [i EXCEPT ![s] = @ + 1]
    /\ listener' = [listener EXCEPT ![s] = NoListener]
    /\ UNCHANGED <<readers, wanted, delivered, began, fault>>

\* The reader queues a copy and tells the Routing Service (see StreamReader).
OnAPDU(s) ==
    /\ pc[s] = "onAPDU" /\ listener[s] \notin deleted
    /\ pc' = [pc EXCEPT ![s] = "loop"]
    /\ i' = [i EXCEPT ![s] = @ + 1]
    /\ listener' = [listener EXCEPT ![s] = NoListener]
    /\ delivered' = [delivered EXCEPT ![s] = Append(@, listener[s])]
    /\ UNCHANGED <<readers, wanted, began, fault>>

\* The array of the reader is gone.
OnAPDUDeleted(s) ==
    /\ pc[s] = "onAPDU" /\ listener[s] \in deleted
    /\ fault' = "deletedReader"
    /\ UNCHANGED <<readers, stack>>

\* The callback returns, and its variables with it.
Finish(s) ==
    /\ pc[s] = "loop" /\ i[s] >= Len(listeners)
    /\ pc' = [pc EXCEPT ![s] = "idle"]
    /\ i' = [i EXCEPT ![s] = 0]
    /\ wanted' = [wanted EXCEPT ![s] = {}]
    /\ delivered' = [delivered EXCEPT ![s] = << >>]
    /\ began' = [began EXCEPT ![s] = [listeners |-> {}, removed |-> {}]]
    /\ UNCHANGED <<readers, listener, fault>>

-----------------------------------------------------------------------------
Init ==
    /\ listeners = << >> /\ removed = {} /\ deleted = {}
    /\ pc = [s \in Stacks |-> "idle"]
    /\ i = [s \in Stacks |-> 0]
    /\ listener = [s \in Stacks |-> NoListener]
    /\ wanted = [s \in Stacks |-> {}]
    /\ delivered = [s \in Stacks |-> << >>]
    /\ began = [s \in Stacks |-> [listeners |-> {}, removed |-> {}]]
    /\ fault = "none"

RoutingService ==
    \E r \in Readers : CreateStreamReader(r) \/ RemoveListener(r) \/ DeleteReader(r)

Callback(s) == Fetch(s) \/ FilterPass(s) \/ FilterExclude(s) \/ OnAPDU(s)
               \/ OnAPDUDeleted(s) \/ Finish(s)

Next ==
    /\ fault = "none"
    /\ \/ RoutingService
       \/ \E s \in Stacks : Callback(s) \/ \E w \in SUBSET Readers : NewAPDU(s, w)

Spec == Init /\ [][Next]_vars

-----------------------------------------------------------------------------
(* Properties.  All hold only while the uses of the array macros do not     *)
(* overlap: see DeliveredOnce and RemovedNotCalled of RacingDispatch.      *)

\* The type of the state; a reader is in the array, once, or was removed.
TypeOK ==
    /\ listeners \in Seq(Readers) /\ IsInjective(listeners)
    /\ removed \subseteq Readers \ ToSet(listeners) /\ IsFiniteSet(removed)
    /\ deleted \subseteq removed
    /\ pc \in [Stacks -> {"idle", "loop", "filter", "onAPDU"}]
    /\ i \in [Stacks -> Nat]
    /\ listener \in [Stacks -> Readers \cup {NoListener}]
    /\ wanted \in [Stacks -> SUBSET Readers]
    /\ delivered \in [Stacks -> Seq(Readers)]
    /\ began \in [Stacks -> [listeners : SUBSET Readers, removed : SUBSET Readers]]
    /\ fault \in {"none", "deletedReader"}

InHand(s) == pc[s] \in {"filter", "onAPDU"}
Removals(s) == removed \ began[s].removed

\* No reader is given an APDU twice, though removals move the listeners under the
\* loop and new readers join during it.
DeliveredOnce ==
    \A s \in Stacks : pc[s] # "idle" =>
        /\ IsInjective(delivered[s])
        /\ InHand(s) => listener[s] \notin ToSet(delivered[s])

\* A reader whose removal precedes the arrival of an APDU is not called for it: the
\* fault needs a removal during the very callback that meets it.
RemovedNotCalled ==
    \A s \in Stacks : pc[s] # "idle" =>
        /\ InHand(s) => listener[s] \notin began[s].removed
        /\ ToSet(delivered[s]) \cap began[s].removed = {}

\* A removal costs at most one other reader the APDU: when a callback ends, the
\* readers that were listeners all along, and whose filter passes, but were not
\* given the APDU, are no more than the removals during the callback.  With no
\* removal every such reader was given it.
OneMissPerRemoval ==
    \A s \in Stacks : pc[s] = "loop" /\ i[s] >= Len(listeners) =>
        Cardinality((wanted[s] \cap began[s].listeners)
                        \ (removed \cup ToSet(delivered[s])))
            <= Cardinality(Removals(s))
=============================================================================
