------------------------------- MODULE Route -------------------------------
(***************************************************************************)
(* The way of APDUs from DNP3 through DDS back to DNP3: the stack of a     *)
(* connection receives an APDU, the stream reader of a route filters it    *)
(* and converts it to a sample; DDS takes the samples to the routes whose  *)
(* stream writers convert them back and send them over the bus.            *)
(*                                                                         *)
(* Each writer is used by a session thread of its own; all share the bus,  *)
(* and so the one APDU object of each connection.  A step of a writer uses *)
(* shared state once.  What happens between the callback of the stack and  *)
(* the sample is one step here: Dispatch and StreamReader are about it.    *)
(*                                                                         *)
(* DDS (external) loses nothing and keeps the order; which writer gets a   *)
(* sample is up to the content filters of the routes.                      *)
(***************************************************************************)
EXTENDS ReaderFilter, APDUConverter, FiniteSets

CONSTANTS
    Writers,       \* stream writers, one for each route to DNP3
    Conns,         \* connections with an open stack
    LocalAddr,     \* their addresses, as in the configuration file
    RemoteAddr,
    Incoming,      \* the APDUs the stacks can receive, without their contents
    Null,          \* no connection, no buffer
    MaxAPDUs       \* bound on the APDUs received

Pair(c) == <<LocalAddr[c], RemoteAddr[c]>>

\* The contents of an APDU are told apart by a number: when it was received.
Contents == 1 .. MaxAPDUs
Samples == [src : [address : Shorts, is_master : BOOLEAN],
            dest : [address : Shorts, is_master : BOOLEAN],
            type : {"REQUEST", "RESPONSE", NoType}, buffer_size : Nat, buffer : Contents]
APDUs == [src : Shorts, dest : Shorts, master : BOOLEAN,
          type : {"REQUEST", "RESPONSE", NoType}, buffer_size : Nat, buffer : Contents]

\* The addresses of DNP3 have 16 bits, and no two connections have the same pair.
ASSUME RouteAssumption ==
    /\ LocalAddr \in [Conns -> UShorts] /\ RemoteAddr \in [Conns -> UShorts]
    /\ \A c, d \in Conns : Pair(c) = Pair(d) => c = d
    /\ Null \notin Conns \cup Nat \cup APDUs
    /\ MaxAPDUs \in Nat
    /\ Incoming \subseteq [src : UShorts, dest : UShorts, master : BOOLEAN,
                           type : APDUTypes, buffer_size : Nat]

VARIABLES
    user,          \* the entries of the filter of the reader, Null before it is created
    plain,         \* whether that filter keeps to what the parser knows (history variable)
    received,      \* the APDUs received (history variable)
    routed,        \* the contents of those that the reader made a sample of (history)
    inbox,         \* per writer: the samples DDS has for it
    pc,            \* per writer: where its thread is in DNP3StreamWriter_write
    batch,         \* per writer: sample_list
    i,             \* per writer: the index of the loop
    retcode,       \* per writer: of the conversion
    apdu,          \* per writer: the local apdu, Null when its buffer is
    conn,          \* per writer: the connection Send uses
    connAPDU,      \* per connection: the contents of its APDU object
    heap,          \* the buffers allocated by a writer's conversion and not freed
    fault,         \* "none", or "doubleFree"
    count,         \* per writer: what its last write returned
    tried,         \* per writer: the contents it passed to Send (history variable)
    sent,          \* what the stacks were given (history variable)
    alone          \* per writer: no other used its connection since it wrote (history)

reading == <<user, plain, parser, received, routed>>
thread == <<pc, batch, i, retcode, apdu, conn>>
shared == <<connAPDU, heap, fault>>
outcome == <<count, tried, sent, alone>>
vars == <<reading, inbox, thread, shared, outcome>>

-----------------------------------------------------------------------------
(* From DNP3 to DDS.                                                       *)

\* createStreamReader: the reader parses its filter before it is a listener.
CreateReader ==
    /\ user = Null
    /\ \E f \in Filters : user' = f.entries /\ plain' = Plain(f) /\ ParseStart(f.text)
    /\ UNCHANGED <<received, routed, inbox, thread, shared, outcome>>

ParseFilter ==
    /\ ParseStep
    /\ UNCHANGED <<user, plain, received, routed, inbox, thread, shared, outcome>>

\* A stack receives an APDU: the callback of the bus copies it and gives it to the
\* reader; if it passes and converts, DDS takes the sample to the writers of some routes.
Receive ==
    /\ parsing = "done" /\ Len(received) < MaxAPDUs
    /\ \E a \in Incoming :
          LET new == [src |-> a.src, dest |-> a.dest, master |-> a.master, type |-> a.type,
                      buffer_size |-> a.buffer_size, buffer |-> Len(received) + 1]
          IN  /\ received' = Append(received, new)
              /\ IF Passes(new) /\ Fits(new)
                 THEN /\ routed' = routed \cup {new.buffer}
                      /\ \E ws \in SUBSET Writers :
                            inbox' = [w \in Writers |-> IF w \in ws
                                         THEN Append(inbox[w], ConvertToDDS(new)) ELSE inbox[w]]
                 ELSE UNCHANGED <<routed, inbox>>
    /\ UNCHANGED <<user, plain, parser, thread, shared, outcome>>

-----------------------------------------------------------------------------
(* From DDS to DNP3: DNP3StreamWriter_write.                               *)

\* The Routing Service passes some of the samples that wait.
WriteStart(w) ==
    /\ pc[w] = "idle"
    /\ \E n \in 1 .. Len(inbox[w]) :
          /\ batch' = [batch EXCEPT ![w] = SubSeq(inbox[w], 1, n)]
          /\ inbox' = [inbox EXCEPT ![w] = SubSeq(@, n + 1, Len(@))]
    /\ i' = [i EXCEPT ![w] = 0]
    /\ pc' = [pc EXCEPT ![w] = "convert"]
    /\ UNCHANGED <<reading, retcode, apdu, conn, shared, outcome>>

\* The next sample converts: its buffer is allocated last.
ConvertOK(w) ==
    /\ pc[w] = "convert" /\ i[w] < Len(batch[w])
    /\ LET a == ConvertToDNP3(batch[w][i[w] + 1])
       IN  /\ apdu' = [apdu EXCEPT ![w] = a]
           /\ heap' = heap \cup {<<w, a.buffer>>}
    /\ retcode' = [retcode EXCEPT ![w] = "OK"]
    /\ pc' = [pc EXCEPT ![w] = "send"]
    /\ UNCHANGED <<reading, inbox, batch, i, conn, connAPDU, fault, outcome>>

\* Mutant of ConvertError: a member is missed after the buffer was allocated; the
\* error path frees it, and leaves the pointer.
LateConvertError(w) ==
    /\ pc[w] = "convert" /\ i[w] < Len(batch[w])
    /\ apdu' = [apdu EXCEPT ![w] = ConvertToDNP3(batch[w][i[w] + 1])]
    /\ retcode' = [retcode EXCEPT ![w] = "ERROR"]
    /\ pc' = [pc EXCEPT ![w] = "finalize"]
    /\ UNCHANGED <<reading, inbox, batch, i, conn, shared, outcome>>

\* A member of the sample cannot be read, which DDS decides: nothing was allocated.
ConvertError(w) ==
    /\ pc[w] = "convert" /\ i[w] < Len(batch[w])
    /\ apdu' = [apdu EXCEPT ![w] = Null]
    /\ retcode' = [retcode EXCEPT ![w] = "ERROR"]
    /\ pc' = [pc EXCEPT ![w] = "finalize"]
    /\ UNCHANGED <<reading, inbox, batch, i, conn, shared, outcome>>

\* MessageBus::GetConnection: addresses of the configuration are short, too.
GetConnection(src, dest) ==
    IF \E c \in Conns : Short(LocalAddr[c]) = src /\ Short(RemoteAddr[c]) = dest
    THEN CHOOSE c \in Conns : Short(LocalAddr[c]) = src /\ Short(RemoteAddr[c]) = dest
    ELSE Null

\* Send finds no connection: the writer goes on as if it had.  The writer ignores
\* what Send returns, here and below, so that the model does not keep it.
SendNowhere(w) ==
    /\ pc[w] = "send" /\ GetConnection(apdu[w].src, apdu[w].dest) = Null
    /\ pc' = [pc EXCEPT ![w] = "finalize"]
    /\ tried' = [tried EXCEPT ![w] = Append(@, apdu[w].buffer)]
    /\ UNCHANGED <<reading, inbox, batch, i, retcode, apdu, conn, shared, count, sent, alone>>

\* The other writers between SendWrite and SendCall on a connection.
Others(w, c) == {v \in Writers \ {w} : pc[v] = "call" /\ conn[v] = c}

\* Mutant of SendWrite: an APDU object that is in use is left to its user.
PoliteSendWrite(w) ==
    LET c == GetConnection(apdu[w].src, apdu[w].dest)
    IN  /\ pc[w] = "send" /\ c # Null
        /\ conn' = [conn EXCEPT ![w] = c]
        /\ connAPDU' = [connAPDU EXCEPT ![c] = IF @ = Null THEN apdu[w].buffer ELSE @]
        /\ alone' = [v \in Writers |-> IF v = w THEN Others(w, c) = {}
                                      ELSE alone[v] /\ v \notin Others(w, c)]
        /\ tried' = [tried EXCEPT ![w] = Append(@, apdu[w].buffer)]
        /\ pc' = [pc EXCEPT ![w] = "call"]
        /\ UNCHANGED <<reading, inbox, batch, i, retcode, apdu, heap, fault, count, sent>>

\* The APDU object of the connection takes the contents of the APDU.
SendWrite(w) ==
    LET c == GetConnection(apdu[w].src, apdu[w].dest)
    IN  /\ pc[w] = "send" /\ c # Null
        /\ conn' = [conn EXCEPT ![w] = c]
        /\ connAPDU' = [connAPDU EXCEPT ![c] = apdu[w].buffer]
        /\ alone' = [v \in Writers |-> IF v = w THEN Others(w, c) = {}
                                      ELSE alone[v] /\ v \notin Others(w, c)]
        /\ tried' = [tried EXCEPT ![w] = Append(@, apdu[w].buffer)]
        /\ pc' = [pc EXCEPT ![w] = "call"]
        /\ UNCHANGED <<reading, inbox, batch, i, retcode, apdu, heap, fault, count, sent>>

\* The end of Send, whose locals are gone.
SendReturns(w) ==
    /\ conn' = [conn EXCEPT ![w] = Null]
    /\ alone' = [alone EXCEPT ![w] = FALSE]
    /\ pc' = [pc EXCEPT ![w] = "finalize"]

\* The stack is given the APDU object, and takes it or not.
SendCall(w) ==
    /\ pc[w] = "call" /\ apdu[w].type # NoType
    /\ sent' = Append(sent, [writer |-> w, conn |-> conn[w], type |-> apdu[w].type,
                             given |-> apdu[w].buffer, contents |-> connAPDU[conn[w]],
                             alone |-> alone[w]])
    /\ SendReturns(w)
    /\ UNCHANGED <<reading, inbox, batch, i, retcode, apdu, shared, count, tried>>

\* An APDU that was an unsolicited response is not sent; the status that decides
\* what Send returns is not initialized.
SendNoType(w) ==
    /\ pc[w] = "call" /\ apdu[w].type = NoType
    /\ SendReturns(w)
    /\ UNCHANGED <<reading, inbox, batch, i, retcode, apdu, shared, count, tried, sent>>

\* RTIDNP3_APDU_finalize.
Finalize(w) ==
    IF apdu[w] = Null THEN UNCHANGED <<apdu, heap, fault>>
    ELSE /\ apdu' = [apdu EXCEPT ![w] = Null]
         /\ heap' = heap \ {<<w, apdu[w].buffer>>}
         /\ fault' = IF <<w, apdu[w].buffer>> \in heap THEN fault ELSE "doubleFree"

\* Mutant of WriteNext: the loop does not move on to the next sample.
StayWriteNext(w) ==
    /\ pc[w] = "finalize" /\ retcode[w] = "OK"
    /\ Finalize(w)
    /\ pc' = [pc EXCEPT ![w] = "convert"]
    /\ UNCHANGED <<reading, inbox, batch, i, retcode, conn, connAPDU, outcome>>

WriteNext(w) ==
    /\ pc[w] = "finalize" /\ retcode[w] = "OK"
    /\ Finalize(w)
    /\ i' = [i EXCEPT ![w] = @ + 1]
    /\ pc' = [pc EXCEPT ![w] = "convert"]
    /\ UNCHANGED <<reading, inbox, batch, retcode, conn, connAPDU, outcome>>

\* Mutant of WriteError: the sample is skipped, and the loop goes on.
SkipWriteError(w) ==
    /\ pc[w] = "finalize" /\ retcode[w] = "ERROR"
    /\ Finalize(w)
    /\ i' = [i EXCEPT ![w] = @ + 1]
    /\ pc' = [pc EXCEPT ![w] = "convert"]
    /\ UNCHANGED <<reading, inbox, batch, retcode, conn, connAPDU, outcome>>

\* Mutant of WriteError: the sample is tried again.
RetryWriteError(w) ==
    /\ pc[w] = "finalize" /\ retcode[w] = "ERROR"
    /\ Finalize(w)
    /\ pc' = [pc EXCEPT ![w] = "convert"]
    /\ UNCHANGED <<reading, inbox, batch, i, retcode, conn, connAPDU, outcome>>

\* A sample did not convert: the rest of the batch is given up.
WriteError(w) ==
    /\ pc[w] = "finalize" /\ retcode[w] = "ERROR"
    /\ Finalize(w)
    /\ i' = [i EXCEPT ![w] = @ - 1]
    /\ count' = [count EXCEPT ![w] = i[w] - 1]
    /\ pc' = [pc EXCEPT ![w] = "idle"]
    /\ UNCHANGED <<reading, inbox, batch, retcode, conn, connAPDU, tried, sent, alone>>

WriteEnd(w) ==
    /\ pc[w] = "convert" /\ i[w] = Len(batch[w])
    /\ count' = [count EXCEPT ![w] = i[w]]
    /\ pc' = [pc EXCEPT ![w] = "idle"]
    /\ UNCHANGED <<reading, inbox, batch, i, retcode, apdu, conn, shared, tried, sent, alone>>

-----------------------------------------------------------------------------
Init ==
    /\ user = Null /\ plain = FALSE /\ ParseInit
    /\ received = << >> /\ routed = {}
    /\ inbox = [w \in Writers |-> << >>]
    /\ pc = [w \in Writers |-> "idle"]
    /\ batch = [w \in Writers |-> << >>]
    /\ i = [w \in Writers |-> 0]
    /\ retcode = [w \in Writers |-> "ERROR"]
    /\ apdu = [w \in Writers |-> Null]
    /\ conn = [w \in Writers |-> Null]
    /\ connAPDU = [c \in Conns |-> Null]
    /\ heap = {} /\ fault = "none"
    /\ count = [w \in Writers |-> 0]
    /\ tried = [w \in Writers |-> << >>]
    /\ sent = << >>
    /\ alone = [w \in Writers |-> FALSE]

WriteStep(w) ==
    \/ ConvertOK(w) \/ ConvertError(w)
    \/ SendNowhere(w) \/ SendWrite(w) \/ SendCall(w) \/ SendNoType(w)
    \/ WriteNext(w) \/ WriteError(w) \/ WriteEnd(w)

Next ==
    \/ CreateReader \/ ParseFilter \/ Receive
    \/ \E w \in Writers : WriteStart(w) \/ WriteStep(w)

Spec == Init /\ [][Next]_vars

\* The session threads of the Routing Service write what waits, and run.
FairSpec == Spec /\ \A w \in Writers : WF_vars(WriteStart(w) \/ WriteStep(w))

-----------------------------------------------------------------------------
TypeOK ==
    /\ user \in {f.entries : f \in Filters} \cup {Null} /\ plain \in BOOLEAN /\ FilterTypeOK
    /\ received \in Seq([src : UShorts, dest : UShorts, master : BOOLEAN, type : APDUTypes,
                         buffer_size : Nat, buffer : Contents])
    /\ Len(received) <= MaxAPDUs
    /\ routed \subseteq 1 .. Len(received)
    /\ inbox \in [Writers -> Seq(Samples)] /\ batch \in [Writers -> Seq(Samples)]
    /\ pc \in [Writers -> {"idle", "convert", "send", "call", "finalize"}]
    /\ i \in [Writers -> Int] /\ count \in [Writers -> Int]
    /\ retcode \in [Writers -> {"OK", "ERROR"}]
    /\ apdu \in [Writers -> APDUs \cup {Null}]
    /\ conn \in [Writers -> Conns \cup {Null}]
    /\ connAPDU \in [Conns -> Contents \cup {Null}]
    /\ heap \subseteq Writers \X Contents /\ fault \in {"none", "doubleFree"}
    /\ tried \in [Writers -> Seq(Contents)] /\ alone \in [Writers -> BOOLEAN]
    /\ sent \in Seq([writer : Writers, conn : Conns, type : {"REQUEST", "RESPONSE"},
                     given : Contents, contents : Contents, alone : BOOLEAN])

\* The filter of a reader selects the APDUs that the entries written in its text
\* select: "White spaces are ignored, but parsing is case-sensitive"
\* (USERS_MANUAL.md:425), and NUM and TYPE_VAL are those of the grammar above it.
FilterAsWritten ==
    parsing = "done" => \A a \in Incoming :
        Passes(a) <=> \A k \in DOMAIN user : Selected(user[k], a)

\* If the text has no blanks but spaces, no key twice, no number that strtol takes
\* for octal or too large, and not the type unsol-response, then no entry is lost,
\* overwritten or read into another (parseFilter and filter).
PlainFilterAsWritten == plain => FilterAsWritten

\* Whatever writers race for the APDU object of a connection, the contents a stack
\* is given came from an APDU between the two endpoints of that connection: the
\* addresses survive both conversions, those that no short can hold included.
SentToRightConnection ==
    \A k \in DOMAIN sent :
        LET origin == received[sent[k].contents]
        IN  <<origin.src, origin.dest>> = Pair(sent[k].conn)

\* A writer that was alone on its connection between Write and the call of the stack
\* has sent the APDU it was given, as a request or a response, as it was received.
LoneSendIntact ==
    \A k \in DOMAIN sent :
        sent[k].alone =>
            /\ sent[k].contents = sent[k].given
            /\ sent[k].type = received[sent[k].given].type

\* When Send is through with an APDU between the endpoints of a connection, a stack
\* was given it, unless its type was lost: unsolicited responses are never sent.
ConnectedAPDUSent ==
    \A w \in Writers :
        pc[w] = "finalize" /\ retcode[w] = "OK" =>
            LET origin == received[apdu[w].buffer]
            IN  (\E k \in DOMAIN sent : sent[k].writer = w /\ sent[k].given = apdu[w].buffer)
                <=> /\ \E c \in Conns : Pair(c) = <<origin.src, origin.dest>>
                    /\ origin.type # "UNSOL_RESPONSE"

\* On every path of the loop, with and without conversion errors, the buffers not
\* freed are those that the threads still hold, and none is freed twice.
BuffersFreed ==
    /\ heap = {<<w, apdu[w].buffer>> : w \in {v \in Writers : apdu[v] # Null}}
    /\ \A w \in Writers : pc[w] \in {"idle", "convert"} => apdu[w] = Null
    /\ fault = "none"

\* A writer passes samples to Send in the order the APDUs were received, each once,
\* across the samples and batches that fail.
SentInOrder ==
    \A w \in Writers : \A k, l \in DOMAIN tried[w] : k < l => tried[w][k] < tried[w][l]

\* The number a write returns never exceeds the samples of the batch it passed to
\* Send, so that none it gave up counts as written (it may be one less, or -1).
NeverOverReported ==
    \A w \in Writers :
        pc[w] = "idle" =>
            count[w] <= Cardinality({k \in DOMAIN batch[w] : batch[w][k].buffer \in Range(tried[w])})

\* Every sample that DDS has for a writer is written, or given up with its batch:
\* the loop ends on every path.
Waits(w, n) == \E k \in DOMAIN inbox[w] : inbox[w][k].buffer = n
InWork(w, n) == pc[w] # "idle" /\ \E k \in DOMAIN batch[w] : batch[w][k].buffer = n
EverySampleHandled ==
    \A w \in Writers, n \in Contents : Waits(w, n) ~> ~ Waits(w, n) /\ ~ InWork(w, n)
=============================================================================
