------------------------------ MODULE Mailbox ------------------------------
(***************************************************************************)
(* What a stream reader promises the route it feeds.  APDUs that passed    *)
(* its filter are accepted in some order; the samples it hands out are     *)
(* those of the accepted APDUs that convert to the DDS type, each once and *)
(* in the order of acceptance.                                             *)
(***************************************************************************)
EXTENDS Integers, SequencesExt

CONSTANTS
    APDUs,         \* what an APDU can contain
    Convertible    \* those of them that fit the DDS type

VARIABLES
    received,      \* the APDUs accepted, in order
    taken,         \* how many of them have been handed out or dropped
    delivered      \* the positions in received of the samples handed out, in order

mailbox == <<received, taken, delivered>>

\* The positions up to n that convert.
ConvertibleUpTo(n) == {k \in 1 .. n : received[k] \in Convertible}

Increasing(s) == \A j, k \in DOMAIN s : j < k => s[j] < s[k]

MailboxInit == received = << >> /\ taken = 0 /\ delivered = << >>

Accept(a) == received' = Append(received, a) /\ UNCHANGED <<taken, delivered>>

\* Some of the waiting APDUs are taken, from the front; those that convert follow
\* what was delivered before.
Take ==
    /\ taken' \in taken .. Len(received)
    /\ IsPrefix(delivered, delivered')
    /\ Increasing(delivered')
    /\ ToSet(delivered') = ConvertibleUpTo(taken')
    /\ UNCHANGED received

MailboxNext == (\E a \in APDUs : Accept(a)) \/ Take
MailboxSpec == MailboxInit /\ [][MailboxNext]_mailbox
=============================================================================
