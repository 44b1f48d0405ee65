---------------------------- MODULE StreamReader ----------------------------
(***************************************************************************)
(* One DNP3 stream reader (DNP3StreamReader.c): the threads of the DNP3    *)
(* stacks append copies of APDUs to its array, and the session thread of   *)
(* the Routing Service reads the array and empties it.                     *)
(*                                                                         *)
(* Each use of an array macro is one step, and the statements of the       *)
(* threads interleave between the macros.  The code takes no lock, so this *)
(* is what the reader does when its macros do not overlap; RacingReader    *)
(* has the single accesses inside them.                                    *)
(***************************************************************************)
EXTENDS ReaderParameters, Arrays

VARIABLES
    received,      \* the APDUs onAPDU copied, in order: copy k is of received[k]
    apdus,         \* reader->apdus: the copies that wait
    freed,         \* the copies that were finalized and freed
    notifying,     \* the stack threads between the append and on_data_available
    notified,      \* the Routing Service was told since the last read began
    pc,            \* the session thread: "idle", a loop of read, or "loan"
    samplesSize,   \* its local variables
    i,
    output,        \* the copies that were converted to samples, in order
    taken,         \* how many APDUs the reads so far removed (history variable)
    delivered,     \* the samples of the reads so far (history variable)
    doubleFree     \* whether a copy was freed twice

locals == <<pc, samplesSize, i, output>>
vars == <<received, apdus, freed, notifying, notified, pc, samplesSize, i, output,
          taken, delivered, doubleFree>>

-----------------------------------------------------------------------------
(* The stack threads: DNP3Reader_onAPDU.                                   *)

\* The APDU is copied and the copy appended.
OnAPDUAppend(s, a) ==
    /\ s \notin notifying
    /\ Len(received) < MaxReceived
    /\ received' = Append(received, a)
    /\ apdus' = Append(apdus, Len(received) + 1)
    /\ notifying' = notifying \cup {s}
    /\ UNCHANGED <<freed, notified, locals, taken, delivered, doubleFree>>

\* Mutant of OnAPDUNotify: a reader that is being read is not notified.
BusyOnAPDUNotify(s) ==
    /\ s \in notifying
    /\ notifying' = notifying \ {s}
    /\ notified' = (notified \/ pc = "idle")
    /\ UNCHANGED <<received, apdus, freed, locals, taken, delivered, doubleFree>>

\* on_data_available.
OnAPDUNotify(s) ==
    /\ s \in notifying
    /\ notifying' = notifying \ {s}
    /\ notified' = TRUE
    /\ UNCHANGED <<received, apdus, freed, locals, taken, delivered, doubleFree>>

-----------------------------------------------------------------------------
(* The session thread: DNP3StreamReader_read and _returnLoan.              *)

\* The Routing Service reads when it was notified; nothing stops it from reading
\* at other times.  samplesSize is the size of the array now.
ReadStart ==
    /\ pc = "idle"
    /\ pc' = "convert"
    /\ samplesSize' = Len(apdus)
    /\ i' = 0
    /\ output' = << >>
    /\ notified' = FALSE
    /\ UNCHANGED <<received, apdus, freed, notifying, taken, delivered, doubleFree>>

\* An iteration of the first loop: a copy that does not convert gives no sample.
ReadConvert ==
    /\ pc = "convert" /\ i < samplesSize
    /\ i' = i + 1
    /\ output' = IF received[apdus[i + 1]] \in Convertible
                 THEN Append(output, apdus[i + 1])
                 ELSE output
    /\ UNCHANGED <<received, apdus, freed, notifying, notified, pc, samplesSize,
                   taken, delivered, doubleFree>>

\* Mutant of ReadConverted: everything in the array now is removed.
AllReadConverted ==
    /\ pc = "convert" /\ i >= samplesSize
    /\ pc' = "remove"
    /\ samplesSize' = Len(apdus)
    /\ i' = Len(apdus)
    /\ UNCHANGED <<received, apdus, freed, notifying, notified, output, taken,
                   delivered, doubleFree>>

ReadConverted ==
    /\ pc = "convert" /\ i >= samplesSize
    /\ pc' = "remove"
    /\ UNCHANGED <<received, apdus, freed, notifying, notified, samplesSize, i,
                   output, taken, delivered, doubleFree>>

\* Mutants of ReadRemove: the copy is not removed from the array; the slot is read
\* after the array was compacted.
KeepReadRemove ==
    /\ pc = "remove" /\ i > 0
    /\ i' = i - 1
    /\ freed' = freed \cup {apdus[i]}
    /\ doubleFree' = (doubleFree \/ apdus[i] \in freed)
    /\ UNCHANGED <<received, apdus, notifying, notified, pc, samplesSize, output,
                   taken, delivered>>

LateReadRemove ==
    LET rest == RemoveByIndex(apdus, i - 1)
        copy == IF i \in DOMAIN rest THEN rest[i] ELSE apdus[i]
    IN  /\ pc = "remove" /\ i > 0
        /\ i' = i - 1
        /\ apdus' = rest
        /\ freed' = freed \cup {copy}
        /\ doubleFree' = (doubleFree \/ copy \in freed)
        /\ UNCHANGED <<received, notifying, notified, pc, samplesSize, output,
                       taken, delivered>>

\* An iteration of the second loop, which runs down: the copy at index i - 1 is
\* removed from the array and freed.
ReadRemove ==
    /\ pc = "remove" /\ i > 0
    /\ i' = i - 1
    /\ apdus' = RemoveByIndex(apdus, i - 1)
    /\ freed' = freed \cup {apdus[i]}
    /\ doubleFree' = (doubleFree \/ apdus[i] \in freed)
    /\ UNCHANGED <<received, notifying, notified, pc, samplesSize, output, taken,
                   delivered>>

\* The samples go to the Routing Service, on loan until it returns them.
ReadReturn ==
    /\ pc = "remove" /\ i = 0
    /\ pc' = "loan"
    /\ taken' = taken + samplesSize
    /\ delivered' = delivered \o output
    /\ UNCHANGED <<received, apdus, freed, notifying, notified, samplesSize, i,
                   output, doubleFree>>

ReturnLoan ==
    /\ pc = "loan"
    /\ pc' = "idle"
    /\ samplesSize' = 0
    /\ output' = << >>
    /\ UNCHANGED <<received, apdus, freed, notifying, notified, i, taken, delivered,
                   doubleFree>>

-----------------------------------------------------------------------------
Init ==
    /\ received = << >> /\ apdus = << >> /\ freed = {}
    /\ notifying = {} /\ notified = FALSE
    /\ pc = "idle" /\ samplesSize = 0 /\ i = 0 /\ output = << >>
    /\ taken = 0 /\ delivered = << >> /\ doubleFree = FALSE

ReadStep == ReadConvert \/ ReadConverted \/ ReadRemove \/ ReadReturn \/ ReturnLoan

Next == \/ \E s \in Stacks : OnAPDUNotify(s) \/ \E a \in APDUs : OnAPDUAppend(s, a)
        \/ ReadStart \/ ReadStep

Spec == Init /\ [][Next]_vars

\* A thread that entered onAPDU, or read, runs to its end; the Routing Service
\* reads after it was notified.
Fairness == /\ \A s \in Stacks : WF_vars(OnAPDUNotify(s))
            /\ WF_vars(ReadStep)
            /\ WF_vars(notified /\ ReadStart)

FairSpec == Spec /\ Fairness

-----------------------------------------------------------------------------
(* Properties.                                                             *)

Copies == 1 .. Len(received)

\* The type of the reader's state.
TypeOK ==
    /\ received \in Seq(APDUs) /\ apdus \in Seq(Copies) /\ freed \subseteq Copies
    /\ notifying \subseteq Stacks /\ notified \in BOOLEAN
    /\ pc \in {"idle", "convert", "remove", "loan"}
    /\ samplesSize \in Nat /\ i \in 0 .. samplesSize
    /\ output \in Seq(Copies)
    /\ taken \in 0 .. Len(received) /\ delivered \in Seq(Copies)
    /\ doubleFree \in BOOLEAN

\* No copy is lost, leaked or freed twice, whatever arrives while a read runs: each
\* one waits in the array, once, or was freed, once.
CopiesAccounted ==
    /\ ToSet(apdus) = Copies \ freed
    /\ IsInjective(apdus)
    /\ ~ doubleFree

\* No wake-up is lost: an APDU that the read now running, if any, will not remove
\* has been announced to the Routing Service, or the thread that appended an APDU
\* is about to announce it (the append precedes on_data_available, and read takes
\* the size of the array after it was woken).
NoLostWakeup ==
    LET covered == IF pc = "convert" THEN samplesSize
                   ELSE IF pc = "remove" THEN i ELSE 0
    IN  Len(apdus) > covered => notified \/ notifying # {}

\* The reader is a mailbox: the samples handed out are those of the APDUs received,
\* in order and each once, but for the ones that do not convert.
Mbox == INSTANCE Mailbox
ImplementsMailbox == Mbox!MailboxSpec

\* Every APDU received is read: its copy is eventually removed and freed.
EveryAPDURead == \A k \in 1 .. MaxReceived : k <= Len(received) ~> k \in freed
=============================================================================
