---------------------------- MODULE RouteProofs ----------------------------
(***************************************************************************)
(* The safety of the way from DNP3 through DDS back to DNP3, for any       *)
(* number of writers, connections and APDUs and any filter.                *)
(*                                                                         *)
(* The argument has four layers, each inductive given the ones before it:  *)
(* what the threads hold; what the connections hold and the stacks were    *)
(* given; the order of the samples; what was sent when Send returns.       *)
(***************************************************************************)
EXTENDS Route, SequenceTheorems, FiniteSetTheorems, TLAPS

\* What the stacks receive.
Arrivals == [src : UShorts, dest : UShorts, master : BOOLEAN, type : APDUTypes,
             buffer_size : Nat, buffer : Contents]
Origins == 1 .. Len(received)

-----------------------------------------------------------------------------
(* The conversions.                                                        *)

\* Converting an unsigned short to a short loses nothing.
LEMMA ShortProperties ==
    ASSUME NEW m \in UShorts, NEW n \in UShorts
    PROVE  Short(m) \in Shorts /\ (Short(m) = Short(n) => m = n)
BY ConverterAssumption DEF UShorts, Shorts, Short

LEMMA ConvertToDDSProperties ==
    ASSUME NEW a \in Arrivals
    PROVE  ConvertToDDS(a) \in Samples /\ ConvertToDDS(a).buffer = a.buffer
<1>1. Short(a.src) \in Shorts /\ Short(a.dest) \in Shorts
  BY ShortProperties DEF Arrivals
<1>2. ConvertAPDUType(a.type) \in {"REQUEST", "RESPONSE", NoType}
  BY DEF ConvertAPDUType
<1>. QED  BY <1>1, <1>2 DEF ConvertToDDS, Samples, Arrivals

LEMMA ConvertToDNP3Properties ==
    ASSUME NEW s \in Samples
    PROVE  /\ ConvertToDNP3(s) \in APDUs /\ ConvertToDNP3(s) # Null
           /\ ConvertToDNP3(s).buffer = s.buffer
<1>1. ConvertAPDUType(s.type) \in {"REQUEST", "RESPONSE", NoType}
  BY DEF ConvertAPDUType
<1>2. ConvertToDNP3(s) \in APDUs
  BY <1>1 DEF ConvertToDNP3, Samples, APDUs
<1>3. ConvertToDNP3(s) # Null
  BY <1>2, RouteAssumption
<1>. QED  BY <1>2, <1>3 DEF ConvertToDNP3

\* What is left of an APDU that went through both conversions.
LEMMA BothConversions ==
    ASSUME NEW a \in Arrivals
    PROVE  LET b == ConvertToDNP3(ConvertToDDS(a))
           IN  /\ b.src = Short(a.src) /\ b.dest = Short(a.dest) /\ b.buffer = a.buffer
               /\ b.type # NoType => b.type = a.type
               /\ b.type = NoType <=> a.type = "UNSOL_RESPONSE"
BY DEF ConvertToDNP3, ConvertToDDS, ConvertAPDUType, NoType, Arrivals, APDUTypes

-----------------------------------------------------------------------------
(* First layer: what the threads hold comes from the APDUs received, and   *)
(* the buffers.                                                            *)

Genuine(s) == s.buffer \in Origins /\ s = ConvertToDDS(received[s.buffer])
Carried(a) == a.buffer \in Origins /\ a = ConvertToDNP3(ConvertToDDS(received[a.buffer]))

SamplesGenuine ==
    \A w \in Writers :
        /\ \A k \in 1 .. Len(inbox[w]) : Genuine(inbox[w][k])
        /\ \A k \in 1 .. Len(batch[w]) : Genuine(batch[w][k])

APDUsCarried ==
    \A w \in Writers :
        /\ apdu[w] # Null => Carried(apdu[w])
        /\ pc[w] \in {"send", "call"} => apdu[w] # Null /\ retcode[w] = "OK"
        /\ pc[w] = "finalize" /\ retcode[w] = "OK" => apdu[w] # Null

\* The loop of a writer: a sample is in work from its conversion to its end.
LoopRight ==
    \A w \in Writers :
        /\ pc[w] # "idle" => i[w] \in 0 .. Len(batch[w])
        /\ pc[w] \in {"send", "call", "finalize"} => i[w] < Len(batch[w])

\* Between Write and the call of the stack, there is an APDU object.
CallsRight ==
    \A w \in Writers : pc[w] = "call" => conn[w] # Null /\ connAPDU[conn[w]] # Null

Numbered == \A n \in Origins : received[n].buffer = n

HeldInv ==
    /\ TypeOK /\ Numbered /\ SamplesGenuine
    /\ LoopRight /\ CallsRight /\ APDUsCarried /\ BuffersFreed

LEMMA HeldFacts ==
    ASSUME HeldInv
    PROVE  /\ Len(received) \in Nat /\ Origins \subseteq Contents
           /\ \A n \in Origins : received[n] \in Arrivals /\ received[n].buffer = n
           /\ \A w \in Writers :
                 /\ Len(inbox[w]) \in Nat /\ Len(batch[w]) \in Nat /\ Len(tried[w]) \in Nat
                 /\ inbox[w] \in Seq(Samples) /\ batch[w] \in Seq(Samples)
                 /\ tried[w] \in Seq(Contents)
                 /\ DOMAIN batch[w] = 1 .. Len(batch[w]) /\ DOMAIN tried[w] = 1 .. Len(tried[w])
                 /\ \A k \in 1 .. Len(inbox[w]) : inbox[w][k] \in Samples
                 /\ \A k \in 1 .. Len(batch[w]) : batch[w][k] \in Samples
<1>1. received \in Seq(Arrivals) /\ Len(received) <= MaxAPDUs /\ MaxAPDUs \in Nat
  BY RouteAssumption DEF HeldInv, TypeOK, Arrivals
<1>2. Len(received) \in Nat /\ \A n \in Origins : received[n] \in Arrivals
  BY <1>1, LenProperties, ElementOfSeq DEF Origins
<1>3. Origins \subseteq Contents
  BY <1>1, <1>2 DEF Origins, Contents
<1>4. \A n \in Origins : received[n].buffer = n
  BY DEF HeldInv, Numbered
<1>5. ASSUME NEW w \in Writers
      PROVE  /\ Len(inbox[w]) \in Nat /\ Len(batch[w]) \in Nat /\ Len(tried[w]) \in Nat
             /\ inbox[w] \in Seq(Samples) /\ batch[w] \in Seq(Samples)
             /\ tried[w] \in Seq(Contents)
             /\ DOMAIN batch[w] = 1 .. Len(batch[w]) /\ DOMAIN tried[w] = 1 .. Len(tried[w])
             /\ \A k \in 1 .. Len(inbox[w]) : inbox[w][k] \in Samples
             /\ \A k \in 1 .. Len(batch[w]) : batch[w][k] \in Samples
  <2>1. inbox[w] \in Seq(Samples) /\ batch[w] \in Seq(Samples) /\ tried[w] \in Seq(Contents)
    BY DEF HeldInv, TypeOK
  <2>. QED  BY <2>1, LenProperties, ElementOfSeq
<1>. QED  BY <1>2, <1>3, <1>4, <1>5

\* A step that receives nothing and moves no sample keeps what depends on them.
LEMMA SameSamples ==
    ASSUME HeldInv, UNCHANGED <<received, inbox, batch>>
    PROVE  Numbered' /\ SamplesGenuine'
BY DEF HeldInv, Numbered, SamplesGenuine, Genuine, Origins

\* A turn of the parser keeps the types of its state.
LEMMA ParseTyped ==
    ASSUME FilterTypeOK, ParseStep
    PROVE  FilterTypeOK'
<1>1. Symbol \in STRING \/ AtEnd
  <2>1. SUFFICES ASSUME ~ AtEnd PROVE Symbol \in STRING
    OBVIOUS
  <2>2. cursor + 1 \in 1 .. Len(filterStr) /\ filterStr \in Seq(STRING)
    BY <2>1, LenProperties DEF FilterTypeOK, AtEnd
  <2>. QED  BY <2>2, ElementOfSeq DEF Symbol
<1>2. ASSUME NEW buff \in Seq(STRING), ~ AtEnd PROVE Copied(buff) \in Seq(STRING)
  BY <1>1, <1>2, AppendProperties DEF Copied
<1>3. << >> \in Seq(STRING) /\ cursor + 1 \in Nat
  BY EmptySeq DEF FilterTypeOK
<1>4. Strtol(valueBuff) \in Int
  <2>1. \A w \in DOMAIN Number : Number[w] \in Int
    BY NumberAssumption
  <2>. QED  BY <2>1 DEF Strtol
<1>5. Entered \in [src : Int, dest : Int, type : {"REQUEST", "RESPONSE", "ANY"}]
  BY <1>4 DEF Entered, FilterTypeOK
<1>6. CASE KeySymbol
  BY <1>2, <1>3, <1>6 DEF KeySymbol, FilterTypeOK
<1>7. CASE KeyEnd
  BY <1>3, <1>7 DEF KeyEnd, FilterTypeOK
<1>8. CASE ValueSymbol
  BY <1>2, <1>3, <1>8 DEF ValueSymbol, FilterTypeOK
<1>9. CASE ValueEnd
  BY <1>3, <1>5, <1>9 DEF ValueEnd, FilterTypeOK
<1>10. CASE ParseEnd
  BY <1>3, <1>10 DEF ParseEnd, FilterTypeOK
<1>. QED  BY <1>6, <1>7, <1>8, <1>9, <1>10 DEF ParseStep

LEMMA ReaderHeld ==
    ASSUME HeldInv, CreateReader \/ ParseFilter
    PROVE  HeldInv'
<1>1. UNCHANGED <<received, routed, inbox, thread, shared, outcome>>
  BY DEF CreateReader, ParseFilter
<1>2. user' \in {f.entries : f \in Filters} \cup {Null} /\ plain' \in BOOLEAN /\ FilterTypeOK'
  <2>1. CASE CreateReader
    <3>1. PICK f \in Filters : user' = f.entries /\ plain' = Plain(f) /\ ParseStart(f.text)
      BY <2>1 DEF CreateReader
    <3>3. Plain(f) \in BOOLEAN
      BY DEF Plain
    <3>2. f.text \in Seq(STRING) /\ << >> \in Seq(STRING)
      BY FiltersAssumption, EmptySeq
    <3>. QED  BY <3>1, <3>2, <3>3 DEF ParseStart, NoFilter, AnyValue, FilterTypeOK
  <2>2. CASE ParseFilter
    BY <2>2, ParseTyped DEF ParseFilter, HeldInv, TypeOK
  <2>. QED  BY <2>1, <2>2
<1>3. TypeOK'
  BY <1>1, <1>2 DEF HeldInv, TypeOK, thread, shared, outcome
<1>4. Numbered' /\ SamplesGenuine'
  BY <1>1, SameSamples DEF thread
<1>5. LoopRight' /\ CallsRight' /\ APDUsCarried' /\ BuffersFreed'
  BY <1>1 DEF HeldInv, LoopRight, CallsRight, APDUsCarried, Carried, Origins, BuffersFreed, thread, shared
<1>. QED  BY <1>3, <1>4, <1>5 DEF HeldInv

\* What a stack receives changes nothing of what was received before.
LEMMA ReceivedGrows ==
    ASSUME HeldInv, Receive
    PROVE  \E new \in Arrivals :
              /\ new.buffer = Len(received) + 1 /\ new.buffer \in Contents
              /\ received' = Append(received, new) /\ received' \in Seq(Arrivals)
              /\ Len(received') = Len(received) + 1
              /\ Origins' = 1 .. Len(received) + 1 /\ Origins \subseteq Origins'
              /\ \A n \in Origins : received'[n] = received[n]
              /\ received'[Len(received) + 1] = new
              /\ routed' \subseteq routed \cup {new.buffer}
              /\ \E ws \in SUBSET Writers :
                    inbox' = [w \in Writers |-> IF w \in ws
                                 THEN Append(inbox[w], ConvertToDDS(new)) ELSE inbox[w]]
<1>1. Len(received) < MaxAPDUs /\ Len(received) \in Nat /\ MaxAPDUs \in Nat
  BY HeldFacts, RouteAssumption DEF Receive
<1>2. PICK a \in Incoming :
         LET new == [src |-> a.src, dest |-> a.dest, master |-> a.master, type |-> a.type,
                     buffer_size |-> a.buffer_size, buffer |-> Len(received) + 1]
         IN  /\ received' = Append(received, new)
             /\ IF Passes(new) /\ Fits(new)
                THEN /\ routed' = routed \cup {new.buffer}
                     /\ \E ws \in SUBSET Writers :
                           inbox' = [w \in Writers |-> IF w \in ws
                                        THEN Append(inbox[w], ConvertToDDS(new)) ELSE inbox[w]]
                ELSE UNCHANGED <<routed, inbox>>
  BY DEF Receive
<1>. DEFINE new == [src |-> a.src, dest |-> a.dest, master |-> a.master, type |-> a.type,
                    buffer_size |-> a.buffer_size, buffer |-> Len(received) + 1]
<1>3. new.buffer = Len(received) + 1 /\ Len(received) + 1 \in Contents
  BY <1>1 DEF Contents
<1>4. new \in Arrivals
  BY <1>3, RouteAssumption DEF Arrivals
<1>5. received' = Append(received, new)
  BY <1>2
<1>6. received \in Seq(Arrivals)
  BY DEF HeldInv, TypeOK, Arrivals
<1>7. routed' \subseteq routed \cup {new.buffer}
  BY <1>2
<1>8. \E ws \in SUBSET Writers :
         inbox' = [w \in Writers |-> IF w \in ws
                      THEN Append(inbox[w], ConvertToDDS(new)) ELSE inbox[w]]
  <2>1. CASE Passes(new) /\ Fits(new)
    BY <1>2, <2>1
  <2>2. CASE ~ (Passes(new) /\ Fits(new))
    <3>1. inbox' = inbox /\ inbox \in [Writers -> Seq(Samples)]
      BY <1>2, <2>2 DEF HeldInv, TypeOK
    <3>2. inbox' = [w \in Writers |-> IF w \in {}
                       THEN Append(inbox[w], ConvertToDDS(new)) ELSE inbox[w]]
      BY <3>1
    <3>. HIDE DEF new
    <3>3. {} \in SUBSET Writers
      OBVIOUS
    <3>. QED  BY <3>2, <3>3
  <2>. QED  BY <2>1, <2>2
<1>. HIDE DEF new
<1>9. /\ received' \in Seq(Arrivals) /\ Len(received') = Len(received) + 1
      /\ \A n \in 1 .. Len(received) : received'[n] = received[n]
      /\ received'[Len(received) + 1] = new
  BY <1>4, <1>5, <1>6, AppendProperties
<1>10. Origins' = 1 .. Len(received) + 1 /\ Origins \subseteq Origins'
  BY <1>1, <1>9 DEF Origins
<1>. QED  BY <1>3, <1>4, <1>5, <1>7, <1>8, <1>9, <1>10 DEF Origins

LEMMA ReceiveHeld == HeldInv /\ Receive => HeldInv'
<1>. SUFFICES ASSUME HeldInv, Receive PROVE HeldInv'
  OBVIOUS
<1>1. PICK new \in Arrivals :
         /\ new.buffer = Len(received) + 1 /\ new.buffer \in Contents
         /\ received' \in Seq(Arrivals)
         /\ Len(received') = Len(received) + 1
         /\ Origins' = 1 .. Len(received) + 1 /\ Origins \subseteq Origins'
         /\ \A n \in Origins : received'[n] = received[n]
         /\ received'[Len(received) + 1] = new
         /\ routed' \subseteq routed \cup {new.buffer}
         /\ \E ws \in SUBSET Writers :
               inbox' = [w \in Writers |-> IF w \in ws
                            THEN Append(inbox[w], ConvertToDDS(new)) ELSE inbox[w]]
  BY ReceivedGrows
<1>2. PICK ws \in SUBSET Writers :
         inbox' = [w \in Writers |-> IF w \in ws
                      THEN Append(inbox[w], ConvertToDDS(new)) ELSE inbox[w]]
  BY <1>1
<1>3. UNCHANGED <<user, plain, parser, thread, shared, outcome>> /\ Len(received) < MaxAPDUs
  BY DEF Receive
<1>4. Len(received) \in Nat /\ MaxAPDUs \in Nat
  BY HeldFacts, RouteAssumption
<1>5. ConvertToDDS(new) \in Samples /\ ConvertToDDS(new).buffer = new.buffer
  BY ConvertToDDSProperties
<1>6. ASSUME NEW w \in Writers
      PROVE  /\ inbox'[w] \in Seq(Samples)
             /\ \A k \in 1 .. Len(inbox'[w]) :
                   \/ k \in 1 .. Len(inbox[w]) /\ inbox'[w][k] = inbox[w][k]
                   \/ inbox'[w][k] = ConvertToDDS(new)
  <2>1. inbox[w] \in Seq(Samples) /\ Len(inbox[w]) \in Nat
    BY HeldFacts
  <2>2. CASE w \in ws
    <3>1. inbox'[w] = Append(inbox[w], ConvertToDDS(new))
      BY <1>2, <2>2
    <3>. QED  BY <1>5, <2>1, <3>1, AppendProperties
  <2>3. CASE w \notin ws
    BY <1>2, <2>1, <2>3
  <2>. QED  BY <2>2, <2>3
<1>7. TypeOK'
  <2>1. inbox' \in [Writers -> Seq(Samples)]
    BY <1>2, <1>6
  <2>2. Len(received') <= MaxAPDUs
    BY <1>1, <1>3, <1>4
  <2>3. routed' \subseteq 1 .. Len(received')
    <3>1. routed \subseteq 1 .. Len(received)
      BY DEF HeldInv, TypeOK
    <3>2. 1 .. Len(received) \subseteq 1 .. Len(received) + 1
      BY <1>4
    <3>3. new.buffer \in 1 .. Len(received) + 1
      BY <1>1, <1>4
    <3>. QED  BY <1>1, <3>1, <3>2, <3>3
  <2>4. FilterTypeOK'
    BY <1>3 DEF HeldInv, TypeOK, FilterTypeOK, parser
  <2>. QED  BY <1>1, <1>3, <2>1, <2>2, <2>3, <2>4
       DEF HeldInv, TypeOK, thread, shared, outcome, Arrivals
<1>8. Numbered'
  <2>. SUFFICES ASSUME NEW n \in Origins' PROVE received'[n].buffer = n
    BY DEF Numbered
  <2>. QED  BY <1>1, <1>4 DEF HeldInv, Numbered, Origins
<1>9. SamplesGenuine'
  <2>1. \A s : Genuine(s) => Genuine(s)'
    BY <1>1 DEF Genuine
  <2>2. Genuine(ConvertToDDS(new))'
    BY <1>1, <1>4, <1>5 DEF Genuine
  <2>3. ASSUME NEW w \in Writers, NEW k \in 1 .. Len(inbox'[w]) PROVE Genuine(inbox[w][k])'
    BY <1>6, <2>1, <2>2 DEF HeldInv, SamplesGenuine
  <2>4. ASSUME NEW w \in Writers, NEW k \in 1 .. Len(batch'[w]) PROVE Genuine(batch[w][k])'
    BY <1>3, <2>1 DEF HeldInv, SamplesGenuine, thread
  <2>. QED  BY <2>3, <2>4 DEF SamplesGenuine
<1>10. APDUsCarried'
  <2>1. \A a : Carried(a) => Carried(a)'
    BY <1>1 DEF Carried
  <2>. QED  BY <1>3, <2>1 DEF HeldInv, APDUsCarried, thread
<1>11. LoopRight' /\ CallsRight' /\ BuffersFreed'
  BY <1>3 DEF HeldInv, LoopRight, CallsRight, BuffersFreed, thread, shared
<1>. QED  BY <1>7, <1>8, <1>9, <1>10, <1>11 DEF HeldInv

LEMMA WriteStartMoves ==
    ASSUME HeldInv, NEW w \in Writers, WriteStart(w)
    PROVE  \E n \in 1 .. Len(inbox[w]) :
              /\ batch'[w] \in Seq(Samples) /\ Len(batch'[w]) = n
              /\ \A k \in 1 .. n : batch'[w][k] = inbox[w][k]
              /\ inbox'[w] \in Seq(Samples) /\ Len(inbox'[w]) = Len(inbox[w]) - n
              /\ \A k \in 1 .. Len(inbox[w]) - n : inbox'[w][k] = inbox[w][n + k]
              /\ \A v \in Writers \ {w} : batch'[v] = batch[v] /\ inbox'[v] = inbox[v]
              /\ batch' \in [Writers -> Seq(Samples)] /\ inbox' \in [Writers -> Seq(Samples)]
<1>1. PICK n \in 1 .. Len(inbox[w]) :
         /\ batch' = [batch EXCEPT ![w] = SubSeq(inbox[w], 1, n)]
         /\ inbox' = [inbox EXCEPT ![w] = SubSeq(@, n + 1, Len(@))]
  BY DEF WriteStart
<1>2. inbox \in [Writers -> Seq(Samples)] /\ batch \in [Writers -> Seq(Samples)]
  BY DEF HeldInv, TypeOK
<1>. DEFINE l == Len(inbox[w])
<1>3. l \in Nat /\ n \in 1 .. l /\ \A k \in 1 .. l : inbox[w][k] \in Samples
  BY HeldFacts
<1>4. batch'[w] = SubSeq(inbox[w], 1, n) /\ inbox'[w] = SubSeq(inbox[w], n + 1, l)
  BY <1>1, <1>2
<1>5. /\ SubSeq(inbox[w], 1, n) \in Seq(Samples) /\ Len(SubSeq(inbox[w], 1, n)) = n
      /\ \A k \in 1 .. n : SubSeq(inbox[w], 1, n)[k] = inbox[w][k]
  <2>. HIDE DEF l
  <2>1. 1 \in Int /\ n \in Int /\ (\A k \in 1 .. n : inbox[w][k] \in Samples)
    BY <1>3
  <2>2. n - 1 + 1 = n /\ 1 <= n /\ \A k \in 1 .. n : 1 + k - 1 = k
    BY <1>3
  <2>3. /\ SubSeq(inbox[w], 1, n) \in Seq(Samples)
        /\ Len(SubSeq(inbox[w], 1, n)) = IF 1 <= n THEN n - 1 + 1 ELSE 0
        /\ \A k \in 1 .. n - 1 + 1 : SubSeq(inbox[w], 1, n)[k] = inbox[w][1 + k - 1]
    BY <2>1, SubSeqProperties
  <2>. QED  BY <2>2, <2>3
<1>6. /\ SubSeq(inbox[w], n + 1, l) \in Seq(Samples) /\ Len(SubSeq(inbox[w], n + 1, l)) = l - n
      /\ \A k \in 1 .. l - n : SubSeq(inbox[w], n + 1, l)[k] = inbox[w][n + k]
  <2>. HIDE DEF l
  <2>1. n + 1 \in Int /\ l \in Int /\ (\A k \in n + 1 .. l : inbox[w][k] \in Samples)
    BY <1>3
  <2>2. l - (n + 1) + 1 = l - n /\ (~ n + 1 <= l => l - n = 0)
        /\ \A k \in 1 .. l - n : n + 1 + k - 1 = n + k
    BY <1>3
  <2>3. /\ SubSeq(inbox[w], n + 1, l) \in Seq(Samples)
        /\ Len(SubSeq(inbox[w], n + 1, l)) = IF n + 1 <= l THEN l - (n + 1) + 1 ELSE 0
        /\ \A k \in 1 .. l - (n + 1) + 1 :
              SubSeq(inbox[w], n + 1, l)[k] = inbox[w][n + 1 + k - 1]
    BY <2>1, SubSeqProperties
  <2>. QED  BY <2>2, <2>3
<1>7. \A v \in Writers \ {w} : batch'[v] = batch[v] /\ inbox'[v] = inbox[v]
  BY <1>1, <1>2
<1>8. batch' \in [Writers -> Seq(Samples)] /\ inbox' \in [Writers -> Seq(Samples)]
  <2>1. SubSeq(inbox[w], 1, n) \in Seq(Samples) /\ SubSeq(inbox[w], n + 1, l) \in Seq(Samples)
    BY <1>5, <1>6
  <2>2. /\ batch' = [batch EXCEPT ![w] = SubSeq(inbox[w], 1, n)]
        /\ inbox' = [inbox EXCEPT ![w] = SubSeq(inbox[w], n + 1, l)]
    BY <1>1, <1>2
  <2>. HIDE DEF l
  <2>. QED  BY <1>2, <2>1, <2>2
<1>. QED
  <2>1. /\ batch'[w] \in Seq(Samples) /\ Len(batch'[w]) = n
        /\ \A k \in 1 .. n : batch'[w][k] = inbox[w][k]
    BY <1>4, <1>5
  <2>2. /\ inbox'[w] \in Seq(Samples) /\ Len(inbox'[w]) = l - n
        /\ \A k \in 1 .. l - n : inbox'[w][k] = inbox[w][n + k]
    BY <1>4, <1>6
  <2>. QED  BY <1>7, <1>8, <2>1, <2>2

LEMMA WriteStartHeld ==
    ASSUME HeldInv, NEW w \in Writers, WriteStart(w)
    PROVE  HeldInv'
<1>1. PICK n \in 1 .. Len(inbox[w]) :
         /\ batch'[w] \in Seq(Samples) /\ Len(batch'[w]) = n
         /\ \A k \in 1 .. n : batch'[w][k] = inbox[w][k]
         /\ inbox'[w] \in Seq(Samples) /\ Len(inbox'[w]) = Len(inbox[w]) - n
         /\ \A k \in 1 .. Len(inbox[w]) - n : inbox'[w][k] = inbox[w][n + k]
         /\ \A v \in Writers \ {w} : batch'[v] = batch[v] /\ inbox'[v] = inbox[v]
         /\ batch' \in [Writers -> Seq(Samples)] /\ inbox' \in [Writers -> Seq(Samples)]
  BY WriteStartMoves
<1>2. /\ pc[w] = "idle" /\ i' = [i EXCEPT ![w] = 0] /\ pc' = [pc EXCEPT ![w] = "convert"]
      /\ UNCHANGED <<reading, retcode, apdu, conn, shared, outcome>>
  BY DEF WriteStart
<1>3. TypeOK'
  <2>1. i' \in [Writers -> Int]
    BY <1>2 DEF HeldInv, TypeOK
  <2>2. pc' \in [Writers -> {"idle", "convert", "send", "call", "finalize"}]
    BY <1>2 DEF HeldInv, TypeOK
  <2>. QED  BY <1>1, <1>2, <2>1, <2>2 DEF HeldInv, TypeOK, FilterTypeOK, reading, parser, shared, outcome
<1>4. Numbered'
  BY <1>2 DEF HeldInv, Numbered, Origins, reading
<1>5. SamplesGenuine'
  <2>1. \A s : Genuine(s) => Genuine(s)'
    BY <1>2 DEF Genuine, Origins, reading
  <2>2. Len(inbox[w]) \in Nat
    BY HeldFacts
  <2>3. ASSUME NEW k \in 1 .. Len(batch'[w]) PROVE Genuine(batch[w][k])'
    <3>1. k \in 1 .. n /\ k \in 1 .. Len(inbox[w])
      BY <1>1, <2>2
    <3>2. Genuine(inbox[w][k]) /\ batch'[w][k] = inbox[w][k]
      BY <1>1, <3>1 DEF HeldInv, SamplesGenuine
    <3>. QED  BY <2>1, <3>2 DEF Genuine
  <2>4. ASSUME NEW k \in 1 .. Len(inbox'[w]) PROVE Genuine(inbox[w][k])'
    <3>1. n + k \in 1 .. Len(inbox[w]) /\ k \in 1 .. Len(inbox[w]) - n
      BY <1>1, <2>2
    <3>2. Genuine(inbox[w][n + k]) /\ inbox'[w][k] = inbox[w][n + k]
      BY <1>1, <3>1 DEF HeldInv, SamplesGenuine
    <3>. QED  BY <2>1, <3>2 DEF Genuine
  <2>5. ASSUME NEW v \in Writers \ {w}
        PROVE  /\ \A k \in 1 .. Len(inbox'[v]) : Genuine(inbox[v][k])'
               /\ \A k \in 1 .. Len(batch'[v]) : Genuine(batch[v][k])'
    BY <1>1, <2>1 DEF HeldInv, SamplesGenuine
  <2>. QED  BY <2>3, <2>4, <2>5 DEF SamplesGenuine
<1>6. APDUsCarried'
  BY <1>2 DEF HeldInv, TypeOK, FilterTypeOK, APDUsCarried, Carried, Origins, reading, parser
<1>7. BuffersFreed'
  BY <1>2 DEF HeldInv, TypeOK, BuffersFreed, shared
<1>8. LoopRight'
  <2>1. i'[w] = 0 /\ 0 \in 0 .. Len(batch'[w]) /\ pc'[w] = "convert"
    BY <1>1, <1>2, HeldFacts DEF HeldInv, TypeOK
  <2>2. ASSUME NEW v \in Writers \ {w}
        PROVE i'[v] = i[v] /\ pc'[v] = pc[v] /\ batch'[v] = batch[v]
    BY <1>1, <1>2 DEF HeldInv, TypeOK
  <2>. QED  BY <2>1, <2>2 DEF HeldInv, LoopRight
<1>9. CallsRight'
  BY <1>2 DEF HeldInv, TypeOK, CallsRight, shared
<1>. QED  BY <1>3, <1>4, <1>5, <1>6, <1>7, <1>8, <1>9 DEF HeldInv

\* The types of what only Send and the end of a write change.
SendTypes ==
    /\ conn \in [Writers -> Conns \cup {Null}] /\ connAPDU \in [Conns -> Contents \cup {Null}]
    /\ count \in [Writers -> Int] /\ tried \in [Writers -> Seq(Contents)]
    /\ alone \in [Writers -> BOOLEAN]
    /\ sent \in Seq([writer : Writers, conn : Conns, type : {"REQUEST", "RESPONSE"},
                      given : Contents, contents : Contents, alone : BOOLEAN])

\* What a step of the loop keeps that moves no sample: it is about its writer only.
LEMMA LoopStep ==
    ASSUME HeldInv, NEW w \in Writers, UNCHANGED <<reading, inbox, batch>>,
           apdu' \in [Writers -> APDUs \cup {Null}],
           i' \in [Writers -> Int], retcode' \in [Writers -> {"OK", "ERROR"}],
           pc' \in [Writers -> {"idle", "convert", "send", "call", "finalize"}],
           \A v \in Writers \ {w} : /\ pc'[v] = pc[v] /\ i'[v] = i[v]
                                    /\ retcode'[v] = retcode[v] /\ apdu'[v] = apdu[v],
           pc'[w] # "idle" => i'[w] \in 0 .. Len(batch[w]),
           pc'[w] \in {"send", "call", "finalize"} => i'[w] < Len(batch[w]),
           apdu'[w] # Null => Carried(apdu'[w]),
           pc'[w] \in {"send", "call"} => apdu'[w] # Null /\ retcode'[w] = "OK",
           pc'[w] = "finalize" /\ retcode'[w] = "OK" => apdu'[w] # Null,
           pc'[w] \in {"idle", "convert"} => apdu'[w] = Null,
           heap' = {<<v, apdu'[v].buffer>> : v \in {u \in Writers : apdu'[u] # Null}},
           fault' = "none", SendTypes', CallsRight'
    PROVE  HeldInv'
<1>1. UNCHANGED <<user, plain, received, routed>>
  BY DEF reading
<1>2. Numbered' /\ SamplesGenuine'
  BY <1>1, SameSamples
<1>3. LoopRight'
  BY DEF HeldInv, LoopRight
<1>4. \A a : Carried(a)' <=> Carried(a)
  BY <1>1 DEF Carried, Origins
<1>5. APDUsCarried'
  <2>1. ASSUME NEW v \in Writers
        PROVE  /\ apdu'[v] # Null => Carried(apdu'[v])
               /\ pc'[v] \in {"send", "call"} => apdu'[v] # Null /\ retcode'[v] = "OK"
               /\ pc'[v] = "finalize" /\ retcode'[v] = "OK" => apdu'[v] # Null
    <3>1. CASE v = w
      BY <3>1
    <3>2. CASE v # w
      BY <3>2 DEF HeldInv, APDUsCarried
    <3>. QED  BY <3>1, <3>2
  <2>2. ASSUME NEW v \in Writers, apdu'[v] # Null PROVE Carried(apdu[v])'
    BY <1>1, <2>1, <2>2 DEF Carried, Origins
  <2>. QED  BY <2>1, <2>2 DEF APDUsCarried
<1>6. BuffersFreed'
  BY DEF HeldInv, BuffersFreed
<1>7. heap' \subseteq Writers \X Contents
  <2>1. ASSUME NEW v \in Writers, apdu'[v] # Null PROVE apdu'[v].buffer \in Contents
    BY <2>1 DEF APDUs
  <2>. QED  BY <2>1
<1>8. TypeOK'
  <2>1. FilterTypeOK'
    BY DEF HeldInv, TypeOK, FilterTypeOK, reading, parser
  <2>. QED  BY <1>1, <1>7, <2>1 DEF HeldInv, TypeOK, SendTypes
<1>. QED  BY <1>2, <1>3, <1>5, <1>6, <1>8 DEF HeldInv

LEMMA ConvertOKHeld ==
    ASSUME HeldInv, NEW w \in Writers, ConvertOK(w)
    PROVE  HeldInv' /\ apdu'[w].buffer = batch[w][i[w] + 1].buffer
<1>. DEFINE a == ConvertToDNP3(batch[w][i[w] + 1])
<1>1. /\ pc[w] = "convert" /\ i[w] < Len(batch[w])
      /\ apdu' = [apdu EXCEPT ![w] = a] /\ heap' = heap \cup {<<w, a.buffer>>}
      /\ retcode' = [retcode EXCEPT ![w] = "OK"] /\ pc' = [pc EXCEPT ![w] = "send"]
      /\ UNCHANGED <<reading, inbox, batch, i, conn, connAPDU, fault, outcome>>
  BY DEF ConvertOK
<1>2. i[w] \in 0 .. Len(batch[w]) /\ Len(batch[w]) \in Nat /\ i[w] + 1 \in 1 .. Len(batch[w])
  BY <1>1, HeldFacts DEF HeldInv, LoopRight
<1>3. batch[w][i[w] + 1] \in Samples /\ Genuine(batch[w][i[w] + 1])
  BY <1>2, HeldFacts DEF HeldInv, SamplesGenuine
<1>4. a \in APDUs /\ a # Null /\ a.buffer = batch[w][i[w] + 1].buffer
  BY <1>3, ConvertToDNP3Properties
<1>5. Carried(a)
  BY <1>3, <1>4 DEF Carried, Genuine
<1>. HIDE DEF a
<1>6. /\ apdu' \in [Writers -> APDUs \cup {Null}] /\ apdu[w] = Null /\ apdu'[w] = a
      /\ retcode' \in [Writers -> {"OK", "ERROR"}] /\ retcode'[w] = "OK"
      /\ pc' \in [Writers -> {"idle", "convert", "send", "call", "finalize"}]
      /\ pc'[w] = "send" /\ i' = i
      /\ \A v \in Writers \ {w} : /\ pc'[v] = pc[v] /\ i'[v] = i[v]
                                  /\ retcode'[v] = retcode[v] /\ apdu'[v] = apdu[v]
  BY <1>1, <1>4 DEF HeldInv, TypeOK, BuffersFreed
<1>7. heap' = {<<v, apdu'[v].buffer>> : v \in {u \in Writers : apdu'[u] # Null}}
  BY <1>1, <1>4, <1>6 DEF HeldInv, BuffersFreed
<1>8. fault' = "none" /\ SendTypes' /\ CallsRight' /\ i' \in [Writers -> Int]
  BY <1>1 DEF HeldInv, TypeOK, BuffersFreed, SendTypes, CallsRight, outcome
<1>9. HeldInv'
  BY <1>1, <1>2, <1>4, <1>5, <1>6, <1>7, <1>8, LoopStep
<1>. QED  BY <1>4, <1>6, <1>9

LEMMA ConvertErrorHeld ==
    ASSUME HeldInv, NEW w \in Writers, ConvertError(w)
    PROVE  HeldInv'
<1>1. /\ pc[w] = "convert" /\ i[w] < Len(batch[w])
      /\ apdu' = [apdu EXCEPT ![w] = Null]
      /\ retcode' = [retcode EXCEPT ![w] = "ERROR"] /\ pc' = [pc EXCEPT ![w] = "finalize"]
      /\ UNCHANGED <<reading, inbox, batch, i, conn, shared, outcome>>
  BY DEF ConvertError
<1>2. /\ apdu' = apdu /\ apdu[w] = Null /\ i' = i
      /\ retcode' \in [Writers -> {"OK", "ERROR"}] /\ retcode'[w] = "ERROR"
      /\ pc' \in [Writers -> {"idle", "convert", "send", "call", "finalize"}]
      /\ pc'[w] = "finalize"
      /\ \A v \in Writers \ {w} : pc'[v] = pc[v] /\ retcode'[v] = retcode[v]
  BY <1>1 DEF HeldInv, TypeOK, BuffersFreed
<1>3. /\ fault' = "none" /\ SendTypes' /\ CallsRight' /\ i' \in [Writers -> Int]
      /\ apdu' \in [Writers -> APDUs \cup {Null}]
      /\ heap' = {<<v, apdu'[v].buffer>> : v \in {u \in Writers : apdu'[u] # Null}}
  BY <1>1, <1>2 DEF HeldInv, TypeOK, BuffersFreed, SendTypes, CallsRight, shared, outcome
<1>4. i[w] \in 0 .. Len(batch[w])
  BY <1>1 DEF HeldInv, LoopRight
<1>. QED  BY <1>1, <1>2, <1>3, <1>4, LoopStep

\* The thread that is in Send, or behind it, holds an APDU.
LEMMA SendFacts ==
    ASSUME HeldInv, NEW w \in Writers, pc[w] \in {"send", "call"}
    PROVE  /\ apdu[w] # Null /\ apdu[w] \in APDUs /\ Carried(apdu[w]) /\ retcode[w] = "OK"
           /\ apdu[w].buffer \in Contents /\ i[w] \in 0 .. Len(batch[w]) /\ i[w] < Len(batch[w])
           /\ received[apdu[w].buffer] \in Arrivals
<1>1. apdu[w] # Null /\ apdu[w] \in APDUs /\ Carried(apdu[w]) /\ retcode[w] = "OK"
  BY DEF HeldInv, TypeOK, APDUsCarried
<1>2. i[w] \in 0 .. Len(batch[w]) /\ i[w] < Len(batch[w])
  BY DEF HeldInv, LoopRight
<1>3. apdu[w].buffer \in Contents /\ received[apdu[w].buffer] \in Arrivals
  BY <1>1, HeldFacts DEF Carried
<1>. QED  BY <1>1, <1>2, <1>3

LEMMA GetConnectionProperties ==
    ASSUME NEW src, NEW dest
    PROVE  GetConnection(src, dest) # Null =>
              /\ GetConnection(src, dest) \in Conns
              /\ Short(LocalAddr[GetConnection(src, dest)]) = src
              /\ Short(RemoteAddr[GetConnection(src, dest)]) = dest
BY DEF GetConnection

LEMMA SendNowhereHeld ==
    ASSUME HeldInv, NEW w \in Writers, SendNowhere(w)
    PROVE  HeldInv'
<1>1. /\ pc[w] = "send" /\ pc' = [pc EXCEPT ![w] = "finalize"]
      /\ tried' = [tried EXCEPT ![w] = Append(@, apdu[w].buffer)]
      /\ UNCHANGED <<reading, inbox, batch, i, retcode, apdu, conn, shared, count, sent, alone>>
  BY DEF SendNowhere
<1>2. /\ apdu[w] # Null /\ Carried(apdu[w]) /\ retcode[w] = "OK" /\ apdu[w].buffer \in Contents
      /\ i[w] \in 0 .. Len(batch[w]) /\ i[w] < Len(batch[w])
  BY <1>1, SendFacts
<1>3. /\ pc' \in [Writers -> {"idle", "convert", "send", "call", "finalize"}]
      /\ pc'[w] = "finalize" /\ \A v \in Writers \ {w} : pc'[v] = pc[v]
  BY <1>1 DEF HeldInv, TypeOK
<1>4. tried' \in [Writers -> Seq(Contents)]
  BY <1>1, <1>2, AppendProperties DEF HeldInv, TypeOK
<1>5. /\ fault' = "none" /\ SendTypes' /\ CallsRight' /\ i' \in [Writers -> Int]
      /\ apdu' \in [Writers -> APDUs \cup {Null}] /\ retcode' \in [Writers -> {"OK", "ERROR"}]
      /\ heap' = {<<v, apdu'[v].buffer>> : v \in {u \in Writers : apdu'[u] # Null}}
  BY <1>1, <1>3, <1>4 DEF HeldInv, TypeOK, BuffersFreed, SendTypes, CallsRight, shared
<1>. QED  BY <1>1, <1>2, <1>3, <1>5, LoopStep

LEMMA SendWriteHeld ==
    ASSUME HeldInv, NEW w \in Writers, SendWrite(w)
    PROVE  HeldInv'
<1>. DEFINE c == GetConnection(apdu[w].src, apdu[w].dest)
<1>1. /\ pc[w] = "send" /\ c # Null /\ pc' = [pc EXCEPT ![w] = "call"]
      /\ conn' = [conn EXCEPT ![w] = c]
      /\ connAPDU' = [connAPDU EXCEPT ![c] = apdu[w].buffer]
      /\ alone' = [v \in Writers |-> IF v = w THEN Others(w, c) = {}
                                    ELSE alone[v] /\ v \notin Others(w, c)]
      /\ tried' = [tried EXCEPT ![w] = Append(@, apdu[w].buffer)]
      /\ UNCHANGED <<reading, inbox, batch, i, retcode, apdu, heap, fault, count, sent>>
  BY DEF SendWrite
<1>2. c \in Conns
  BY <1>1, GetConnectionProperties
<1>. HIDE DEF c
<1>3. /\ apdu[w] # Null /\ Carried(apdu[w]) /\ retcode[w] = "OK" /\ apdu[w].buffer \in Contents
      /\ i[w] \in 0 .. Len(batch[w]) /\ i[w] < Len(batch[w])
  BY <1>1, SendFacts
<1>4. /\ pc' \in [Writers -> {"idle", "convert", "send", "call", "finalize"}]
      /\ pc'[w] = "call" /\ \A v \in Writers \ {w} : pc'[v] = pc[v]
  BY <1>1 DEF HeldInv, TypeOK
<1>5. tried' \in [Writers -> Seq(Contents)]
  BY <1>1, <1>3, AppendProperties DEF HeldInv, TypeOK
<1>6. alone' \in [Writers -> BOOLEAN]
  BY <1>1 DEF HeldInv, TypeOK
<1>7. apdu[w].buffer # Null
  BY <1>3, RouteAssumption DEF Contents
<1>8. CallsRight'
  <2>1. /\ conn'[w] = c /\ connAPDU'[c] = apdu[w].buffer /\ c # Null
        /\ \A v \in Writers \ {w} : conn'[v] = conn[v]
        /\ \A d \in Conns \ {c} : connAPDU'[d] = connAPDU[d]
    BY <1>1, <1>2 DEF HeldInv, TypeOK
  <2>2. \A v \in Writers : conn[v] \in Conns \cup {Null}
    BY DEF HeldInv, TypeOK
  <2>. QED  BY <1>4, <1>7, <2>1, <2>2 DEF HeldInv, CallsRight
<1>9. SendTypes'
  BY <1>1, <1>2, <1>3, <1>5, <1>6 DEF HeldInv, TypeOK, SendTypes
<1>10. /\ fault' = "none" /\ i' \in [Writers -> Int]
       /\ apdu' \in [Writers -> APDUs \cup {Null}] /\ retcode' \in [Writers -> {"OK", "ERROR"}]
       /\ heap' = {<<v, apdu'[v].buffer>> : v \in {u \in Writers : apdu'[u] # Null}}
  BY <1>1 DEF HeldInv, TypeOK, BuffersFreed
<1>. QED  BY <1>1, <1>3, <1>4, <1>8, <1>9, <1>10, LoopStep

\* What Send gives to a stack.
LEMMA CallFacts ==
    ASSUME HeldInv, NEW w \in Writers, pc[w] = "call"
    PROVE  conn[w] \in Conns /\ connAPDU[conn[w]] \in Contents
BY DEF HeldInv, TypeOK, CallsRight

LEMMA SendReturnsHeld ==
    ASSUME HeldInv, NEW w \in Writers, pc[w] = "call", SendReturns(w),
           UNCHANGED <<reading, inbox, batch, i, retcode, apdu, shared, count, tried>>,
           sent' \in Seq([writer : Writers, conn : Conns, type : {"REQUEST", "RESPONSE"},
                          given : Contents, contents : Contents, alone : BOOLEAN])
    PROVE  HeldInv'
<1>1. /\ conn' = [conn EXCEPT ![w] = Null] /\ alone' = [alone EXCEPT ![w] = FALSE]
      /\ pc' = [pc EXCEPT ![w] = "finalize"]
  BY DEF SendReturns
<1>2. /\ apdu[w] # Null /\ Carried(apdu[w]) /\ retcode[w] = "OK"
      /\ i[w] \in 0 .. Len(batch[w]) /\ i[w] < Len(batch[w])
  BY SendFacts
<1>3. /\ pc' \in [Writers -> {"idle", "convert", "send", "call", "finalize"}]
      /\ pc'[w] = "finalize" /\ \A v \in Writers \ {w} : pc'[v] = pc[v]
  BY <1>1 DEF HeldInv, TypeOK
<1>4. CallsRight'
  BY <1>1, <1>3 DEF HeldInv, TypeOK, CallsRight, shared
<1>5. SendTypes'
  BY <1>1 DEF HeldInv, TypeOK, SendTypes, shared
<1>6. /\ fault' = "none" /\ i' \in [Writers -> Int]
      /\ apdu' \in [Writers -> APDUs \cup {Null}] /\ retcode' \in [Writers -> {"OK", "ERROR"}]
      /\ heap' = {<<v, apdu'[v].buffer>> : v \in {u \in Writers : apdu'[u] # Null}}
  BY DEF HeldInv, TypeOK, BuffersFreed, shared
<1>. QED  BY <1>2, <1>3, <1>4, <1>5, <1>6, LoopStep

SentBy(w) == [writer |-> w, conn |-> conn[w], type |-> apdu[w].type, given |-> apdu[w].buffer,
              contents |-> connAPDU[conn[w]], alone |-> alone[w]]
Sendings == [writer : Writers, conn : Conns, type : {"REQUEST", "RESPONSE"},
             given : Contents, contents : Contents, alone : BOOLEAN]

\* The history of what the stacks were given grows at its end.
LEMMA SendCallAppends ==
    ASSUME HeldInv, NEW w \in Writers, SendCall(w)
    PROVE  /\ SentBy(w) \in Sendings /\ sent' \in Seq(Sendings)
           /\ DOMAIN sent = 1 .. Len(sent) /\ Len(sent) \in Nat
           /\ DOMAIN sent' = 1 .. Len(sent) + 1
           /\ \A k \in DOMAIN sent : sent'[k] = sent[k]
           /\ sent'[Len(sent) + 1] = SentBy(w)
<1>1. pc[w] = "call" /\ apdu[w].type # NoType /\ sent' = Append(sent, SentBy(w))
  BY DEF SendCall, SentBy
<1>2. apdu[w].type \in {"REQUEST", "RESPONSE"} /\ apdu[w].buffer \in Contents
  BY <1>1, SendFacts DEF APDUs
<1>3. alone[w] \in BOOLEAN
  BY DEF HeldInv, TypeOK
<1>4. SentBy(w) \in Sendings
  BY <1>1, <1>2, <1>3, CallFacts DEF SentBy, Sendings
<1>5. sent \in Seq(Sendings)
  BY DEF HeldInv, TypeOK, Sendings
<1>. HIDE DEF SentBy
<1>6. DOMAIN sent = 1 .. Len(sent) /\ Len(sent) \in Nat
  BY <1>5, LenProperties
<1>7. /\ sent' \in Seq(Sendings) /\ Len(sent') = Len(sent) + 1
      /\ \A k \in 1 .. Len(sent) : sent'[k] = sent[k]
      /\ sent'[Len(sent) + 1] = SentBy(w)
  BY <1>1, <1>4, <1>5, AppendProperties
<1>8. DOMAIN sent' = 1 .. Len(sent) + 1
  BY <1>7, LenProperties
<1>. QED  BY <1>4, <1>6, <1>7, <1>8

LEMMA SendCallHeld ==
    ASSUME HeldInv, NEW w \in Writers, SendCall(w)
    PROVE  HeldInv'
<1>1. /\ pc[w] = "call" /\ SendReturns(w)
      /\ UNCHANGED <<reading, inbox, batch, i, retcode, apdu, shared, count, tried>>
  BY DEF SendCall
<1>2. sent' \in Seq(Sendings)
  BY SendCallAppends
<1>. QED  BY <1>1, <1>2, SendReturnsHeld DEF Sendings

LEMMA SendNoTypeHeld ==
    ASSUME HeldInv, NEW w \in Writers, SendNoType(w)
    PROVE  HeldInv'
<1>1. /\ pc[w] = "call" /\ SendReturns(w)
      /\ UNCHANGED <<reading, inbox, batch, i, retcode, apdu, shared, count, tried, sent>>
  BY DEF SendNoType
<1>2. sent' \in Seq(Sendings)
  BY <1>1 DEF HeldInv, TypeOK, Sendings
<1>. QED  BY <1>1, <1>2, SendReturnsHeld DEF Sendings

\* The buffer of the thread is freed, if there is one.
LEMMA FinalizeFrees ==
    ASSUME HeldInv, NEW w \in Writers, Finalize(w)
    PROVE  /\ apdu' \in [Writers -> APDUs \cup {Null}] /\ apdu'[w] = Null
           /\ \A v \in Writers \ {w} : apdu'[v] = apdu[v]
           /\ heap' = {<<v, apdu'[v].buffer>> : v \in {u \in Writers : apdu'[u] # Null}}
           /\ fault' = "none"
<1>1. CASE apdu[w] = Null
  BY <1>1 DEF HeldInv, TypeOK, BuffersFreed, Finalize
<1>2. CASE apdu[w] # Null
  <2>1. /\ apdu' = [apdu EXCEPT ![w] = Null] /\ heap' = heap \ {<<w, apdu[w].buffer>>}
        /\ fault' = IF <<w, apdu[w].buffer>> \in heap THEN fault ELSE "doubleFree"
    BY <1>2 DEF Finalize
  <2>2. /\ apdu' \in [Writers -> APDUs \cup {Null}] /\ apdu'[w] = Null
        /\ \A v \in Writers \ {w} : apdu'[v] = apdu[v]
    BY <2>1 DEF HeldInv, TypeOK
  <2>3. /\ heap = {<<v, apdu[v].buffer>> : v \in {u \in Writers : apdu[u] # Null}}
        /\ fault = "none"
    BY DEF HeldInv, BuffersFreed
  <2>4. fault' = "none"
    BY <1>2, <2>1, <2>3
  <2>5. heap' = {<<v, apdu'[v].buffer>> : v \in {u \in Writers : apdu'[u] # Null}}
    BY <2>1, <2>2, <2>3
  <2>. QED  BY <2>2, <2>4, <2>5
<1>. QED  BY <1>1, <1>2

LEMMA WriteNextHeld ==
    ASSUME HeldInv, NEW w \in Writers, WriteNext(w)
    PROVE  HeldInv'
<1>1. /\ pc[w] = "finalize" /\ Finalize(w) /\ i' = [i EXCEPT ![w] = @ + 1]
      /\ pc' = [pc EXCEPT ![w] = "convert"]
      /\ UNCHANGED <<reading, inbox, batch, retcode, conn, connAPDU, outcome>>
  BY DEF WriteNext
<1>2. i[w] \in 0 .. Len(batch[w]) /\ i[w] < Len(batch[w]) /\ Len(batch[w]) \in Nat
  BY <1>1, HeldFacts DEF HeldInv, LoopRight
<1>3. /\ i' \in [Writers -> Int] /\ i'[w] = i[w] + 1
      /\ pc' \in [Writers -> {"idle", "convert", "send", "call", "finalize"}]
      /\ pc'[w] = "convert" /\ \A v \in Writers \ {w} : pc'[v] = pc[v] /\ i'[v] = i[v]
  BY <1>1 DEF HeldInv, TypeOK
<1>4. i'[w] \in 0 .. Len(batch[w])
  BY <1>2, <1>3
<1>5. SendTypes' /\ CallsRight' /\ retcode' \in [Writers -> {"OK", "ERROR"}]
  BY <1>1, <1>3 DEF HeldInv, TypeOK, SendTypes, CallsRight, outcome
<1>6. /\ apdu' \in [Writers -> APDUs \cup {Null}] /\ apdu'[w] = Null
      /\ \A v \in Writers \ {w} : apdu'[v] = apdu[v]
      /\ heap' = {<<v, apdu'[v].buffer>> : v \in {u \in Writers : apdu'[u] # Null}}
      /\ fault' = "none"
  BY <1>1, FinalizeFrees
<1>. QED  BY <1>1, <1>3, <1>4, <1>5, <1>6, LoopStep

LEMMA WriteErrorHeld ==
    ASSUME HeldInv, NEW w \in Writers, WriteError(w)
    PROVE  HeldInv'
<1>1. /\ pc[w] = "finalize" /\ Finalize(w) /\ i' = [i EXCEPT ![w] = @ - 1]
      /\ count' = [count EXCEPT ![w] = i[w] - 1]
      /\ pc' = [pc EXCEPT ![w] = "idle"]
      /\ UNCHANGED <<reading, inbox, batch, retcode, conn, connAPDU, tried, sent, alone>>
  BY DEF WriteError
<1>2. /\ i' \in [Writers -> Int] /\ count' \in [Writers -> Int]
      /\ pc' \in [Writers -> {"idle", "convert", "send", "call", "finalize"}]
      /\ pc'[w] = "idle" /\ \A v \in Writers \ {w} : pc'[v] = pc[v] /\ i'[v] = i[v]
  BY <1>1 DEF HeldInv, TypeOK
<1>3. SendTypes' /\ CallsRight' /\ retcode' \in [Writers -> {"OK", "ERROR"}]
  BY <1>1, <1>2 DEF HeldInv, TypeOK, SendTypes, CallsRight
<1>4. /\ apdu' \in [Writers -> APDUs \cup {Null}] /\ apdu'[w] = Null
      /\ \A v \in Writers \ {w} : apdu'[v] = apdu[v]
      /\ heap' = {<<v, apdu'[v].buffer>> : v \in {u \in Writers : apdu'[u] # Null}}
      /\ fault' = "none"
  BY <1>1, FinalizeFrees
<1>. QED  BY <1>1, <1>2, <1>3, <1>4, LoopStep

LEMMA WriteEndHeld ==
    ASSUME HeldInv, NEW w \in Writers, WriteEnd(w)
    PROVE  HeldInv'
<1>1. /\ pc[w] = "convert" /\ count' = [count EXCEPT ![w] = i[w]]
      /\ pc' = [pc EXCEPT ![w] = "idle"]
      /\ UNCHANGED <<reading, inbox, batch, i, retcode, apdu, conn, shared, tried, sent, alone>>
  BY DEF WriteEnd
<1>2. /\ i' \in [Writers -> Int] /\ count' \in [Writers -> Int]
      /\ pc' \in [Writers -> {"idle", "convert", "send", "call", "finalize"}]
      /\ pc'[w] = "idle" /\ \A v \in Writers \ {w} : pc'[v] = pc[v]
  BY <1>1 DEF HeldInv, TypeOK
<1>3. SendTypes' /\ CallsRight' /\ retcode' \in [Writers -> {"OK", "ERROR"}]
  BY <1>1, <1>2 DEF HeldInv, TypeOK, SendTypes, CallsRight, shared
<1>4. /\ apdu' \in [Writers -> APDUs \cup {Null}] /\ apdu'[w] = Null
      /\ heap' = {<<v, apdu'[v].buffer>> : v \in {u \in Writers : apdu'[u] # Null}}
      /\ fault' = "none"
  BY <1>1 DEF HeldInv, TypeOK, BuffersFreed, shared
<1>. QED  BY <1>1, <1>2, <1>3, <1>4, LoopStep

LEMMA HeldInit == Init => HeldInv
<1>. SUFFICES ASSUME Init PROVE HeldInv
  OBVIOUS
<1>1. TypeOK
  <2>1. FilterTypeOK
    BY EmptySeq DEF Init, ParseInit, NoFilter, AnyValue, FilterTypeOK
  <2>2. << >> \in Seq(Contents) /\ << >> \in Seq(Samples) /\ Len(received) = 0
    BY EmptySeq DEF Init
  <2>3. user \in {f.entries : f \in Filters} \cup {Null} /\ plain \in BOOLEAN
    BY DEF Init
  <2>4. /\ received \in Seq([src : UShorts, dest : UShorts, master : BOOLEAN, type : APDUTypes,
                             buffer_size : Nat, buffer : Contents])
        /\ sent \in Seq([writer : Writers, conn : Conns, type : {"REQUEST", "RESPONSE"},
                         given : Contents, contents : Contents, alone : BOOLEAN])
    BY EmptySeq DEF Init
  <2>5. Len(received) <= MaxAPDUs /\ routed \subseteq 1 .. Len(received)
    BY <2>2, RouteAssumption DEF Init
  <2>. QED  BY <2>1, <2>2, <2>3, <2>4, <2>5 DEF Init, TypeOK
<1>2. Numbered /\ SamplesGenuine
  BY EmptySeq DEF Init, Numbered, SamplesGenuine, Origins
<1>3. LoopRight /\ CallsRight /\ APDUsCarried /\ BuffersFreed
  BY DEF Init, LoopRight, CallsRight, APDUsCarried, BuffersFreed
<1>. QED  BY <1>1, <1>2, <1>3 DEF HeldInv

LEMMA HeldNext == HeldInv /\ [Next]_vars => HeldInv'
<1>. SUFFICES ASSUME HeldInv, [Next]_vars PROVE HeldInv'
  OBVIOUS
<1>1. CASE CreateReader \/ ParseFilter
  BY <1>1, ReaderHeld
<1>2. CASE Receive
  BY <1>2, ReceiveHeld
<1>3. ASSUME NEW w \in Writers, WriteStart(w) PROVE HeldInv'
  BY <1>3, WriteStartHeld
<1>4. ASSUME NEW w \in Writers, WriteStep(w) PROVE HeldInv'
  BY <1>4, ConvertOKHeld, ConvertErrorHeld, SendNowhereHeld, SendWriteHeld, SendCallHeld,
     SendNoTypeHeld, WriteNextHeld, WriteErrorHeld, WriteEndHeld DEF WriteStep
<1>5. CASE UNCHANGED vars
  <2>1. UNCHANGED <<reading, inbox, thread, shared, outcome>>
    BY <1>5 DEF vars
  <2>2. Numbered' /\ SamplesGenuine'
    BY <2>1, SameSamples DEF reading, thread
  <2>3. TypeOK'
    BY <2>1 DEF HeldInv, TypeOK, FilterTypeOK, reading, parser, thread, shared, outcome
  <2>4. LoopRight' /\ CallsRight' /\ APDUsCarried' /\ BuffersFreed'
    BY <2>1 DEF HeldInv, LoopRight, CallsRight, APDUsCarried, Carried, Origins, BuffersFreed,
                reading, thread, shared
  <2>. QED  BY <2>2, <2>3, <2>4 DEF HeldInv
<1>. QED  BY <1>1, <1>2, <1>3, <1>4, <1>5 DEF Next

LEMMA HeldAlways == Spec => []HeldInv
BY HeldInit, HeldNext, PTL DEF Spec

\* Every variable has the values it is made for, whatever the threads do.
THEOREM RouteTypeCorrect == Spec => []TypeOK
<1>1. HeldInv => TypeOK
  BY DEF HeldInv
<1>. QED  BY <1>1, HeldAlways, PTL

\* DNP3StreamWriter_write frees each buffer it allocated once, on the paths with and
\* without conversion errors.
THEOREM RouteBuffersFreed == Spec => []BuffersFreed
<1>1. HeldInv => BuffersFreed
  BY DEF HeldInv
<1>. QED  BY <1>1, HeldAlways, PTL

-----------------------------------------------------------------------------
(* Second layer: the APDU object of a connection holds an APDU between its *)
(* endpoints, and that of a caller that was alone.                         *)

Ends(n) == <<received[n].src, received[n].dest>>

SharedRight ==
    \A c \in Conns : connAPDU[c] # Null => connAPDU[c] \in Origins /\ Ends(connAPDU[c]) = Pair(c)

CallersRight ==
    \A w \in Writers :
        pc[w] = "call" =>
            /\ Ends(apdu[w].buffer) = Pair(conn[w])
            /\ alone[w] => connAPDU[conn[w]] = apdu[w].buffer

SentOrigins == \A k \in DOMAIN sent : sent[k].contents \in Origins /\ sent[k].given \in Origins

SharedInv == SharedRight /\ CallersRight /\ SentOrigins /\ SentToRightConnection /\ LoneSendIntact

\* A step that writes no APDU object, and calls no stack.
LEMMA SharedFrame ==
    ASSUME HeldInv, SharedInv,
           Origins \subseteq Origins', \A n \in Origins : received'[n] = received[n],
           UNCHANGED <<connAPDU, sent>>,
           \A w \in Writers : pc'[w] = "call" => /\ pc[w] = "call" /\ alone'[w] = alone[w]
                                                 /\ apdu'[w] = apdu[w] /\ conn'[w] = conn[w]
    PROVE  SharedInv'
<1>1. \A n \in Origins : Ends(n)' = Ends(n)
  BY DEF Ends
<1>2. SharedRight'
  BY <1>1 DEF SharedInv, SharedRight, Pair, Ends
<1>3. CallersRight'
  <2>. SUFFICES ASSUME NEW w \in Writers, pc'[w] = "call"
                PROVE  /\ Ends(apdu[w].buffer)' = Pair(conn[w])'
                       /\ alone'[w] => connAPDU'[conn'[w]] = apdu'[w].buffer
    BY DEF CallersRight
  <2>1. pc[w] = "call" /\ alone'[w] = alone[w] /\ apdu'[w] = apdu[w] /\ conn'[w] = conn[w]
    OBVIOUS
  <2>2. apdu[w].buffer \in Origins
    BY <2>1, SendFacts DEF Carried
  <2>. QED  BY <2>1, <2>2 DEF SharedInv, CallersRight, Pair, Ends
<1>4. SentOrigins'
  BY DEF SharedInv, SentOrigins
<1>5. SentToRightConnection'
  BY DEF SharedInv, SentOrigins, SentToRightConnection, Pair
<1>6. LoneSendIntact'
  BY DEF SharedInv, SentOrigins, LoneSendIntact
<1>. QED  BY <1>2, <1>3, <1>4, <1>5, <1>6 DEF SharedInv

\* The addresses of an APDU lead to the connection between its endpoints, and to none
\* if there is none: the conversions to short lose nothing.
LEMMA ConnectionFound ==
    ASSUME HeldInv, NEW w \in Writers, pc[w] = "send"
    PROVE  LET c == GetConnection(apdu[w].src, apdu[w].dest)
           IN  /\ c # Null => c \in Conns /\ Pair(c) = Ends(apdu[w].buffer)
               /\ c = Null => ~ \E d \in Conns : Pair(d) = Ends(apdu[w].buffer)
<1>. DEFINE a == received[apdu[w].buffer]
            c == GetConnection(apdu[w].src, apdu[w].dest)
<1>1. apdu[w].buffer \in Origins /\ a \in Arrivals
  BY SendFacts DEF Carried
<1>2. apdu[w].src = Short(a.src) /\ apdu[w].dest = Short(a.dest)
  BY <1>1, SendFacts, BothConversions DEF Carried
<1>3. a.src \in UShorts /\ a.dest \in UShorts /\ Ends(apdu[w].buffer) = <<a.src, a.dest>>
  BY <1>1 DEF Arrivals, Ends
<1>4. \A d \in Conns : LocalAddr[d] \in UShorts /\ RemoteAddr[d] \in UShorts
  BY RouteAssumption
<1>5. ASSUME c # Null PROVE c \in Conns /\ Pair(c) = Ends(apdu[w].buffer)
  <2>1. c \in Conns /\ Short(LocalAddr[c]) = apdu[w].src /\ Short(RemoteAddr[c]) = apdu[w].dest
    BY <1>5, GetConnectionProperties
  <2>. HIDE DEF c, a
  <2>2. LocalAddr[c] = a.src /\ RemoteAddr[c] = a.dest
    BY <1>2, <1>3, <1>4, <2>1, ShortProperties
  <2>. QED  BY <1>3, <2>1, <2>2 DEF Pair
<1>6. ASSUME c = Null, NEW d \in Conns, Pair(d) = Ends(apdu[w].buffer) PROVE FALSE
  <2>1. Short(LocalAddr[d]) = apdu[w].src /\ Short(RemoteAddr[d]) = apdu[w].dest
    BY <1>2, <1>3, <1>6 DEF Pair
  <2>2. c \in Conns
    BY <2>1 DEF GetConnection
  <2>. QED  BY <1>6, <2>2, RouteAssumption
<1>. QED  BY <1>5, <1>6

LEMMA SendWriteShared ==
    ASSUME HeldInv, SharedInv, NEW w \in Writers, SendWrite(w)
    PROVE  SharedInv'
<1>. DEFINE c == GetConnection(apdu[w].src, apdu[w].dest)
<1>1. /\ pc[w] = "send" /\ c # Null /\ pc' = [pc EXCEPT ![w] = "call"]
      /\ conn' = [conn EXCEPT ![w] = c]
      /\ connAPDU' = [connAPDU EXCEPT ![c] = apdu[w].buffer]
      /\ alone' = [v \in Writers |-> IF v = w THEN Others(w, c) = {}
                                    ELSE alone[v] /\ v \notin Others(w, c)]
      /\ UNCHANGED <<reading, apdu, sent>>
  BY DEF SendWrite
<1>2. c \in Conns /\ Pair(c) = Ends(apdu[w].buffer)
  BY <1>1, ConnectionFound
<1>. HIDE DEF c
<1>3. apdu[w].buffer \in Origins
  BY <1>1, SendFacts DEF Carried
<1>4. /\ connAPDU'[c] = apdu[w].buffer /\ \A d \in Conns \ {c} : connAPDU'[d] = connAPDU[d]
      /\ conn'[w] = c /\ \A v \in Writers \ {w} : conn'[v] = conn[v] /\ pc'[v] = pc[v]
      /\ \A v \in Writers \ {w} : alone'[v] <=> alone[v] /\ v \notin Others(w, c)
  BY <1>1, <1>2 DEF HeldInv, TypeOK
<1>5. UNCHANGED <<received, sent>> /\ Origins' = Origins /\ \A n : Ends(n)' = Ends(n)
  BY <1>1 DEF reading, Origins, Ends
<1>6. SharedRight'
  <2>. SUFFICES ASSUME NEW d \in Conns, connAPDU'[d] # Null
                PROVE  connAPDU'[d] \in Origins' /\ Ends(connAPDU[d])' = Pair(d)
    BY DEF SharedRight, Pair
  <2>1. CASE d = c
    BY <1>1, <1>2, <1>3, <1>4, <1>5, <2>1 DEF Ends, reading
  <2>2. CASE d # c
    BY <1>1, <1>4, <1>5, <2>2 DEF SharedInv, SharedRight, Ends, reading
  <2>. QED  BY <2>1, <2>2
<1>7. CallersRight'
  <2>. SUFFICES ASSUME NEW v \in Writers, pc'[v] = "call"
                PROVE  /\ Ends(apdu[v].buffer)' = Pair(conn'[v])
                       /\ alone'[v] => connAPDU'[conn'[v]] = apdu'[v].buffer
    BY DEF CallersRight, Pair
  <2>1. CASE v = w
    BY <1>1, <1>2, <1>4, <1>5, <2>1 DEF Ends
  <2>2. CASE v # w
    <3>1. pc[v] = "call" /\ conn'[v] = conn[v] /\ conn[v] \in Conns
      BY <1>4, <2>2, CallFacts
    <3>2. Ends(apdu[v].buffer)' = Pair(conn'[v])
      BY <1>1, <1>5, <3>1 DEF SharedInv, CallersRight, Ends
    <3>3. ASSUME alone'[v] PROVE connAPDU'[conn'[v]] = apdu'[v].buffer
      <4>1. alone[v] /\ v \notin Others(w, c)
        BY <1>4, <2>2, <3>3
      <4>2. conn[v] # c
        BY <2>2, <3>1, <4>1 DEF Others
      <4>. QED  BY <1>1, <1>4, <3>1, <4>1, <4>2 DEF SharedInv, CallersRight
    <3>. QED  BY <3>2, <3>3
  <2>. QED  BY <2>1, <2>2
<1>8. SentOrigins' /\ SentToRightConnection' /\ LoneSendIntact'
  BY <1>5 DEF SharedInv, SentOrigins, SentToRightConnection, LoneSendIntact, Pair
<1>. QED  BY <1>6, <1>7, <1>8 DEF SharedInv

LEMMA SendCallShared ==
    ASSUME HeldInv, SharedInv, NEW w \in Writers, SendCall(w)
    PROVE  SharedInv'
<1>1. /\ pc[w] = "call" /\ apdu[w].type # NoType /\ SendReturns(w)
      /\ UNCHANGED <<reading, apdu, shared>>
  BY DEF SendCall
<1>2. /\ DOMAIN sent = 1 .. Len(sent) /\ Len(sent) \in Nat /\ DOMAIN sent' = 1 .. Len(sent) + 1
      /\ \A k \in DOMAIN sent : sent'[k] = sent[k]
      /\ sent'[Len(sent) + 1] = SentBy(w)
  BY SendCallAppends
<1>3. UNCHANGED <<received, connAPDU>> /\ Origins' = Origins /\ \A n : Ends(n)' = Ends(n)
  BY <1>1 DEF reading, shared, Origins, Ends
<1>4. /\ pc'[w] = "finalize"
      /\ \A v \in Writers \ {w} : conn'[v] = conn[v] /\ pc'[v] = pc[v] /\ alone'[v] = alone[v]
  BY <1>1 DEF HeldInv, TypeOK, SendReturns
<1>5. SharedRight'
  BY <1>3 DEF SharedInv, SharedRight, Pair, Ends
<1>6. CallersRight'
  <2>. SUFFICES ASSUME NEW v \in Writers, pc'[v] = "call"
                PROVE  /\ Ends(apdu[v].buffer)' = Pair(conn'[v])
                       /\ alone'[v] => connAPDU'[conn'[v]] = apdu'[v].buffer
    BY DEF CallersRight, Pair
  <2>1. v # w
    BY <1>4
  <2>. QED  BY <1>1, <1>3, <1>4, <2>1 DEF SharedInv, CallersRight, Ends
<1>7. conn[w] \in Conns /\ connAPDU[conn[w]] # Null
  BY <1>1, CallFacts DEF HeldInv, CallsRight
<1>8. connAPDU[conn[w]] \in Origins /\ Ends(connAPDU[conn[w]]) = Pair(conn[w])
  BY <1>7 DEF SharedInv, SharedRight
<1>9. apdu[w].buffer \in Origins /\ apdu[w].type = received[apdu[w].buffer].type
  <2>1. Carried(apdu[w]) /\ received[apdu[w].buffer] \in Arrivals
    BY <1>1, SendFacts
  <2>. QED  BY <1>1, <2>1, BothConversions DEF Carried
<1>10. alone[w] => connAPDU[conn[w]] = apdu[w].buffer
  BY <1>1 DEF SharedInv, CallersRight
<1>11. /\ SentBy(w).contents \in Origins /\ SentBy(w).given \in Origins
       /\ Ends(SentBy(w).contents) = Pair(SentBy(w).conn)
       /\ SentBy(w).alone => /\ SentBy(w).contents = SentBy(w).given
                             /\ SentBy(w).type = received[SentBy(w).given].type
  BY <1>8, <1>9, <1>10 DEF SentBy
<1>12. \A k \in DOMAIN sent' : (k \in DOMAIN sent /\ sent'[k] = sent[k]) \/ sent'[k] = SentBy(w)
  BY <1>2
<1>13. SentOrigins'
  BY <1>3, <1>11, <1>12 DEF SharedInv, SentOrigins
<1>14. SentToRightConnection'
  <2>. HIDE DEF SentBy
  <2>. SUFFICES ASSUME NEW k \in DOMAIN sent'
                PROVE  <<received[sent'[k].contents].src, received[sent'[k].contents].dest>>
                          = Pair(sent'[k].conn)
    BY <1>3 DEF SentToRightConnection, Pair
  <2>. QED  BY <1>11, <1>12 DEF SharedInv, SentToRightConnection, Ends
<1>15. LoneSendIntact'
  BY <1>3, <1>11, <1>12 DEF SharedInv, LoneSendIntact
<1>. QED  BY <1>5, <1>6, <1>13, <1>14, <1>15 DEF SharedInv

LEMMA SharedInit == Init => SharedInv
BY DEF Init, SharedInv, SharedRight, CallersRight, SentOrigins, SentToRightConnection,
       LoneSendIntact

LEMMA SharedNext == HeldInv /\ SharedInv /\ [Next]_vars => SharedInv'
<1>. SUFFICES ASSUME HeldInv, SharedInv, [Next]_vars PROVE SharedInv'
  OBVIOUS
<1>1. CASE Receive
  <2>1. Origins \subseteq Origins' /\ \A n \in Origins : received'[n] = received[n]
    BY <1>1, ReceivedGrows
  <2>2. UNCHANGED <<thread, shared, outcome>>
    BY <1>1 DEF Receive
  <2>. QED  BY <2>1, <2>2, SharedFrame DEF thread, shared, outcome
<1>2. ASSUME NEW w \in Writers, SendWrite(w) PROVE SharedInv'
  BY <1>2, SendWriteShared
<1>3. ASSUME NEW w \in Writers, SendCall(w) PROVE SharedInv'
  BY <1>3, SendCallShared
<1>4. ASSUME UNCHANGED <<received, connAPDU, sent>>,
             \A w \in Writers : pc'[w] = "call" =>
                /\ pc[w] = "call" /\ alone'[w] = alone[w]
                /\ apdu'[w] = apdu[w] /\ conn'[w] = conn[w]
      PROVE  SharedInv'
  BY <1>4, SharedFrame DEF Origins
<1>5. CASE CreateReader \/ ParseFilter \/ UNCHANGED vars
  BY <1>4, <1>5 DEF CreateReader, ParseFilter, vars, reading, thread, shared, outcome
<1>6. ASSUME NEW w \in Writers,
             \/ WriteStart(w) \/ ConvertOK(w) \/ ConvertError(w) \/ SendNowhere(w)
             \/ SendNoType(w) \/ WriteNext(w) \/ WriteError(w) \/ WriteEnd(w)
      PROVE  SharedInv'
  <2>1. UNCHANGED <<received, connAPDU, sent>>
    BY <1>6 DEF WriteStart, ConvertOK, ConvertError, SendNowhere, SendNoType, WriteNext,
                WriteError, WriteEnd, reading, shared, outcome
  <2>2. /\ pc'[w] # "call"
        /\ \A v \in Writers \ {w} : pc'[v] = pc[v] /\ conn'[v] = conn[v] /\ alone'[v] = alone[v]
    BY <1>6 DEF HeldInv, TypeOK, WriteStart, ConvertOK, ConvertError, SendNowhere, SendNoType,
                SendReturns, WriteNext, WriteError, WriteEnd, outcome
  <2>3. \A v \in Writers \ {w} : apdu'[v] = apdu[v]
    BY <1>6 DEF HeldInv, TypeOK, WriteStart, ConvertOK, ConvertError, SendNowhere, SendNoType,
                WriteNext, WriteError, WriteEnd, Finalize
  <2>. QED  BY <1>4, <2>1, <2>2, <2>3
<1>. QED  BY <1>1, <1>2, <1>3, <1>5, <1>6 DEF Next, WriteStep

LEMMA SharedAlways == Spec => []SharedInv
<1>1. Spec => []HeldInv
  BY HeldAlways
<1>. QED  BY <1>1, SharedInit, SharedNext, PTL DEF Spec

\* Whichever writers race for the APDU object of a connection, a stack is given contents
\* of an APDU between its own endpoints, 16-bit addresses included.
THEOREM RoutedToRightConnection == Spec => []SentToRightConnection
<1>1. SharedInv => SentToRightConnection
  BY DEF SharedInv
<1>. QED  BY <1>1, SharedAlways, PTL

\* MessageBusImpl::Send is sound for a thread that is alone on its connection.
THEOREM LoneSendsIntact == Spec => []LoneSendIntact
<1>1. SharedInv => LoneSendIntact
  BY DEF SharedInv
<1>. QED  BY <1>1, SharedAlways, PTL

-----------------------------------------------------------------------------
(* Third layer: the samples of a writer are in the order in which the      *)
(* APDUs were received; those it passed to Send are before those it has    *)
(* still to pass.                                                          *)

\* How many samples of the batch were passed to Send.
Passed(w) ==
    IF pc[w] = "call" \/ (pc[w] = "finalize" /\ retcode[w] = "OK") THEN i[w] + 1 ELSE i[w]

WaitingOrder(w) ==
    \A k, l \in 1 .. Len(inbox[w]) : k < l => inbox[w][k].buffer < inbox[w][l].buffer

BatchOrder(w) ==
    /\ \A k, l \in 1 .. Len(batch[w]) : k < l => batch[w][k].buffer < batch[w][l].buffer
    /\ pc[w] # "idle" => \A k \in 1 .. Len(batch[w]), l \in 1 .. Len(inbox[w]) :
                            batch[w][k].buffer < inbox[w][l].buffer

TriedOrder(w) ==
    /\ \A k, l \in 1 .. Len(tried[w]) : k < l => tried[w][k] < tried[w][l]
    /\ \A k \in 1 .. Len(tried[w]) :
          /\ tried[w][k] \in Origins
          /\ \A l \in 1 .. Len(inbox[w]) : tried[w][k] < inbox[w][l].buffer
          /\ pc[w] # "idle" => \A l \in 1 .. Len(batch[w]) :
                                  l > Passed(w) => tried[w][k] < batch[w][l].buffer

\* The APDU of a thread is that of the sample in work.
APDUInWork(w) == apdu[w] # Null => apdu[w].buffer = batch[w][i[w] + 1].buffer

PassedTried(w) ==
    pc[w] # "idle" => \A k \in 1 .. Len(batch[w]) :
                         k <= Passed(w) => batch[w][k].buffer \in Range(tried[w])

Counted(w) ==
    pc[w] = "idle" =>
        count[w] <= Cardinality({k \in DOMAIN batch[w] : batch[w][k].buffer \in Range(tried[w])})

Order(w) ==
    /\ WaitingOrder(w) /\ BatchOrder(w) /\ TriedOrder(w)
    /\ APDUInWork(w) /\ PassedTried(w) /\ Counted(w)

OrderInv == \A w \in Writers : Order(w)

\* A writer that takes no step keeps its order.
LEMMA OrderFrame ==
    ASSUME NEW v \in Writers, Order(v), Origins' = Origins,
           inbox'[v] = inbox[v], batch'[v] = batch[v], tried'[v] = tried[v],
           pc'[v] = pc[v], i'[v] = i[v], retcode'[v] = retcode[v], apdu'[v] = apdu[v],
           count'[v] = count[v]
    PROVE  Order(v)'
<1>1. WaitingOrder(v)' /\ BatchOrder(v)'
  BY DEF Order, WaitingOrder, BatchOrder
<1>2. Passed(v)' = Passed(v)
  BY DEF Passed
<1>3. TriedOrder(v)'
  BY <1>2 DEF Order, TriedOrder
<1>4. APDUInWork(v)' /\ PassedTried(v)' /\ Counted(v)'
  BY <1>2 DEF Order, APDUInWork, PassedTried, Counted, Range
<1>. QED  BY <1>1, <1>3, <1>4 DEF Order

\* Nor does a step of its loop that passes nothing to Send, or only counts what it did.
LEMMA OrderLoop ==
    ASSUME NEW w \in Writers, Order(w), Origins' = Origins,
           inbox'[w] = inbox[w], batch'[w] = batch[w], tried'[w] = tried[w],
           pc[w] # "idle", pc'[w] # "idle", Passed(w)' = Passed(w),
           apdu'[w] # Null => apdu'[w].buffer = batch[w][i'[w] + 1].buffer
    PROVE  Order(w)'
<1>1. WaitingOrder(w)' /\ BatchOrder(w)' /\ TriedOrder(w)'
  BY DEF Order, WaitingOrder, BatchOrder, TriedOrder
<1>2. APDUInWork(w)' /\ PassedTried(w)' /\ Counted(w)'
  BY DEF Order, APDUInWork, PassedTried, Counted, Range
<1>. QED  BY <1>1, <1>2 DEF Order

LEMMA ReceiveOrder ==
    ASSUME HeldInv, NEW v \in Writers, Order(v), Receive
    PROVE  Order(v)'
<1>1. PICK new \in Arrivals :
         /\ new.buffer = Len(received) + 1
         /\ Origins' = 1 .. Len(received) + 1 /\ Origins \subseteq Origins'
         /\ \E ws \in SUBSET Writers :
               inbox' = [w \in Writers |-> IF w \in ws
                            THEN Append(inbox[w], ConvertToDDS(new)) ELSE inbox[w]]
  BY ReceivedGrows
<1>2. PICK ws \in SUBSET Writers :
         inbox' = [w \in Writers |-> IF w \in ws
                      THEN Append(inbox[w], ConvertToDDS(new)) ELSE inbox[w]]
  BY <1>1
<1>. DEFINE m == Len(received)
            l == Len(inbox[v])
<1>3. /\ m \in Nat /\ l \in Nat /\ inbox[v] \in Seq(Samples) /\ Len(batch[v]) \in Nat
      /\ Len(tried[v]) \in Nat
  BY HeldFacts
<1>4. ConvertToDDS(new) \in Samples /\ ConvertToDDS(new).buffer = m + 1
  BY <1>1, ConvertToDDSProperties
<1>5. /\ Len(inbox'[v]) \in Nat
      /\ \A k \in 1 .. Len(inbox'[v]) : \/ k \in 1 .. l /\ inbox'[v][k] = inbox[v][k]
                                        \/ k = l + 1 /\ inbox'[v][k].buffer = m + 1
  <2>1. CASE v \in ws
    <3>1. inbox'[v] = Append(inbox[v], ConvertToDDS(new))
      BY <1>2, <2>1
    <3>2. /\ Len(Append(inbox[v], ConvertToDDS(new))) = l + 1
          /\ \A k \in 1 .. l :
                Append(inbox[v], ConvertToDDS(new))[k] = inbox[v][k]
          /\ Append(inbox[v], ConvertToDDS(new))[l + 1] = ConvertToDDS(new)
      BY <1>3, <1>4, AppendProperties
    <3>3. \A k \in 1 .. l + 1 : k \in 1 .. l \/ k = l + 1
      BY <1>3
    <3>. HIDE DEF m, l
    <3>. QED  BY <1>3, <1>4, <3>1, <3>2, <3>3
  <2>2. CASE v \notin ws
    <3>1. inbox'[v] = inbox[v]
      BY <1>2, <2>2
    <3>. QED  BY <1>3, <3>1
  <2>. QED  BY <2>1, <2>2
<1>6. UNCHANGED <<batch, tried, pc, i, retcode, apdu, count>>
  BY DEF Receive, thread, outcome
<1>7. \A k \in 1 .. l : inbox[v][k].buffer \in 1 .. m
  BY DEF HeldInv, SamplesGenuine, Genuine, Origins
<1>8. \A k \in 1 .. Len(batch[v]) : batch[v][k].buffer \in 1 .. m
  BY DEF HeldInv, SamplesGenuine, Genuine, Origins
<1>9. \A k \in 1 .. Len(tried[v]) : tried[v][k] \in 1 .. m
  BY DEF Order, TriedOrder, Origins
<1>10. \A x \in 1 .. m : x < m + 1
  BY <1>3
<1>11. WaitingOrder(v)'
  <2>. SUFFICES ASSUME NEW j \in 1 .. Len(inbox'[v]), NEW k \in 1 .. Len(inbox'[v]), j < k
                PROVE  inbox'[v][j].buffer < inbox'[v][k].buffer
    BY DEF WaitingOrder
  <2>1. \A x, y \in 1 .. l : x < y => inbox[v][x].buffer < inbox[v][y].buffer
    BY DEF Order, WaitingOrder
  <2>2. CASE k \in 1 .. l /\ inbox'[v][k] = inbox[v][k]
    <3>1. j \in 1 .. l /\ j # l + 1
      BY <1>3, <1>5, <2>2
    <3>. QED  BY <1>5, <2>1, <2>2, <3>1
  <2>3. CASE k = l + 1 /\ inbox'[v][k].buffer = m + 1
    <3>1. j \in 1 .. l /\ inbox'[v][j] = inbox[v][j]
      BY <1>3, <1>5, <2>3
    <3>. QED  BY <1>7, <1>10, <2>3, <3>1
  <2>. QED  BY <1>5, <2>2, <2>3
<1>12. BatchOrder(v)'
  <2>1. \A k \in 1 .. Len(batch[v]), j \in 1 .. Len(inbox'[v]) :
           pc[v] # "idle" => batch[v][k].buffer < inbox'[v][j].buffer
    <3>. HIDE DEF m, l
    <3>1. \A k \in 1 .. Len(batch[v]), j \in 1 .. l :
             pc[v] # "idle" => batch[v][k].buffer < inbox[v][j].buffer
      BY DEF Order, BatchOrder, l
    <3>. QED  BY <1>5, <1>8, <1>10, <3>1
  <2>. QED  BY <1>6, <2>1 DEF Order, BatchOrder
<1>13. TriedOrder(v)'
  <2>1. \A k \in 1 .. Len(tried[v]), j \in 1 .. Len(inbox'[v]) :
           tried[v][k] < inbox'[v][j].buffer
    <3>. HIDE DEF m, l
    <3>1. \A k \in 1 .. Len(tried[v]), j \in 1 .. l : tried[v][k] < inbox[v][j].buffer
      BY DEF Order, TriedOrder, l
    <3>. QED  BY <1>5, <1>9, <1>10, <3>1
  <2>2. Passed(v)' = Passed(v)
    BY <1>6 DEF Passed
  <2>3. /\ \A k, j \in 1 .. Len(tried[v]) : k < j => tried[v][k] < tried[v][j]
        /\ \A k \in 1 .. Len(tried[v]) : tried[v][k] \in Origins'
    BY <1>1 DEF Order, TriedOrder
  <2>4. pc[v] # "idle" =>
           \A k \in 1 .. Len(tried[v]), j \in 1 .. Len(batch[v]) :
              j > Passed(v) => tried[v][k] < batch[v][j].buffer
    BY DEF Order, TriedOrder
  <2>5. UNCHANGED <<batch, tried, pc>>
    BY <1>6
  <2>. QED  BY <2>1, <2>2, <2>3, <2>4, <2>5 DEF TriedOrder
<1>14. APDUInWork(v)' /\ PassedTried(v)' /\ Counted(v)'
  <2>1. Passed(v)' = Passed(v)
    BY <1>6 DEF Passed
  <2>. QED  BY <1>6, <2>1 DEF Order, APDUInWork, PassedTried, Counted, Range
<1>. QED  BY <1>11, <1>12, <1>13, <1>14 DEF Order

LEMMA WriteStartOrder ==
    ASSUME HeldInv, NEW w \in Writers, Order(w), WriteStart(w)
    PROVE  Order(w)'
<1>1. PICK n \in 1 .. Len(inbox[w]) :
         /\ batch'[w] \in Seq(Samples) /\ Len(batch'[w]) = n
         /\ \A k \in 1 .. n : batch'[w][k] = inbox[w][k]
         /\ inbox'[w] \in Seq(Samples) /\ Len(inbox'[w]) = Len(inbox[w]) - n
         /\ \A k \in 1 .. Len(inbox[w]) - n : inbox'[w][k] = inbox[w][n + k]
  BY WriteStartMoves
<1>. DEFINE l == Len(inbox[w])
<1>2. l \in Nat /\ n \in 1 .. l
  BY HeldFacts
<1>3. /\ i'[w] = 0 /\ pc'[w] = "convert" /\ pc[w] = "idle"
      /\ UNCHANGED <<received, apdu, tried>>
  BY DEF WriteStart, HeldInv, TypeOK, FilterTypeOK, reading, parser, outcome
<1>4. /\ \A k \in 1 .. n : k \in 1 .. l /\ batch'[w][k] = inbox[w][k]
      /\ \A k \in 1 .. l - n : n + k \in 1 .. l /\ inbox'[w][k] = inbox[w][n + k]
  BY <1>1, <1>2
<1>5. \A j, k \in 1 .. l : j < k => inbox[w][j].buffer < inbox[w][k].buffer
  BY DEF Order, WaitingOrder
<1>6. Len(inbox'[w]) = l - n /\ Len(batch'[w]) = n
  BY <1>1
<1>7. WaitingOrder(w)'
  <2>. SUFFICES ASSUME NEW j \in 1 .. l - n, NEW k \in 1 .. l - n, j < k
                PROVE  inbox'[w][j].buffer < inbox'[w][k].buffer
    BY <1>6 DEF WaitingOrder
  <2>1. n + j < n + k
    BY <1>2
  <2>. QED  BY <1>4, <1>5, <2>1
<1>8. BatchOrder(w)'
  <2>1. \A j, k \in 1 .. n : j < k => batch'[w][j].buffer < batch'[w][k].buffer
    BY <1>4, <1>5
  <2>2. ASSUME NEW j \in 1 .. n, NEW k \in 1 .. l - n
        PROVE  batch'[w][j].buffer < inbox'[w][k].buffer
    <3>1. j < n + k
      BY <1>2
    <3>. QED  BY <1>4, <1>5, <3>1
  <2>. QED  BY <1>6, <2>1, <2>2 DEF BatchOrder
<1>9. TriedOrder(w)'
  <2>1. \A j \in 1 .. Len(tried[w]) :
           /\ tried[w][j] \in Origins'
           /\ \A k \in 1 .. l - n : tried[w][j] < inbox'[w][k].buffer
           /\ \A k \in 1 .. n : tried[w][j] < batch'[w][k].buffer
    <3>. SUFFICES ASSUME NEW j \in 1 .. Len(tried[w])
                  PROVE  /\ tried[w][j] \in Origins'
                         /\ \A k \in 1 .. l - n : tried[w][j] < inbox'[w][k].buffer
                         /\ \A k \in 1 .. n : tried[w][j] < batch'[w][k].buffer
      OBVIOUS
    <3>1. tried[w][j] \in Origins /\ \A k \in 1 .. l : tried[w][j] < inbox[w][k].buffer
      BY DEF Order, TriedOrder
    <3>2. Origins' = Origins
      BY <1>3 DEF Origins
    <3>. HIDE DEF l
    <3>. QED  BY <1>4, <3>1, <3>2
  <2>. QED  BY <1>3, <1>6, <2>1 DEF Order, TriedOrder
<1>10. APDUInWork(w)'
  BY <1>3 DEF HeldInv, BuffersFreed, APDUInWork
<1>11. PassedTried(w)'
  <2>1. Passed(w)' = 0
    BY <1>3 DEF Passed
  <2>. QED  BY <1>6, <2>1 DEF PassedTried
<1>12. Counted(w)'
  BY <1>3 DEF Counted
<1>. QED  BY <1>7, <1>8, <1>9, <1>10, <1>11, <1>12 DEF Order

LEMMA ConvertOrder ==
    ASSUME HeldInv, NEW w \in Writers, Order(w), ConvertOK(w) \/ ConvertError(w)
    PROVE  Order(w)'
<1>1. /\ pc[w] = "convert" /\ pc'[w] \in {"send", "finalize"} /\ i'[w] = i[w]
      /\ pc'[w] = "finalize" => retcode'[w] = "ERROR"
      /\ UNCHANGED <<reading, inbox, batch, tried>>
  BY DEF ConvertOK, ConvertError, HeldInv, TypeOK, outcome
<1>2. apdu'[w] # Null => apdu'[w].buffer = batch[w][i'[w] + 1].buffer
  <2>1. CASE ConvertOK(w)
    BY <1>1, <2>1, ConvertOKHeld
  <2>2. CASE ConvertError(w)
    BY <2>2 DEF ConvertError, HeldInv, TypeOK
  <2>. QED  BY <2>1, <2>2
<1>3. Passed(w)' = Passed(w)
  BY <1>1 DEF Passed
<1>. QED  BY <1>1, <1>2, <1>3, OrderLoop DEF reading, Origins

\* The sample in work is passed to Send: all before it were, and none after it.
LEMMA SendOrder ==
    ASSUME HeldInv, NEW w \in Writers, Order(w), SendNowhere(w) \/ SendWrite(w)
    PROVE  Order(w)'
<1>. DEFINE n == i[w] + 1
            b == apdu[w].buffer
            t == Len(tried[w])
<1>1. /\ pc[w] = "send" /\ pc'[w] \in {"call", "finalize"} /\ i'[w] = i[w]
      /\ retcode' = retcode /\ apdu' = apdu /\ tried'[w] = Append(tried[w], b)
      /\ UNCHANGED <<reading, inbox, batch>>
  BY DEF SendNowhere, SendWrite, HeldInv, TypeOK
<1>2. /\ apdu[w] # Null /\ Carried(apdu[w]) /\ retcode[w] = "OK" /\ b \in Contents
      /\ i[w] \in 0 .. Len(batch[w]) /\ i[w] < Len(batch[w])
  BY <1>1, SendFacts
<1>3. Passed(w) = i[w] /\ Passed(w)' = n
  BY <1>1, <1>2 DEF Passed
<1>4. /\ Len(batch[w]) \in Nat /\ t \in Nat /\ tried[w] \in Seq(Contents)
      /\ n \in 1 .. Len(batch[w])
  BY <1>2, HeldFacts
<1>5. b = batch[w][n].buffer /\ b \in Origins
  BY <1>2 DEF Order, APDUInWork, Carried
<1>6. /\ Len(tried'[w]) = t + 1 /\ DOMAIN tried'[w] = 1 .. t + 1 /\ DOMAIN tried[w] = 1 .. t
      /\ \A k \in 1 .. t : tried'[w][k] = tried[w][k]
      /\ tried'[w][t + 1] = b
  <2>. HIDE DEF b
  <2>1. /\ Append(tried[w], b) \in Seq(Contents) /\ Len(Append(tried[w], b)) = t + 1
        /\ \A k \in 1 .. t : Append(tried[w], b)[k] = tried[w][k]
        /\ Append(tried[w], b)[t + 1] = b
    BY <1>2, <1>4, AppendProperties
  <2>2. DOMAIN Append(tried[w], b) = 1 .. t + 1 /\ DOMAIN tried[w] = 1 .. t
    BY <1>4, <2>1, LenProperties
  <2>. QED  BY <1>1, <2>1, <2>2
<1>7. \A k \in 1 .. t + 1 : \/ k \in 1 .. t /\ tried'[w][k] = tried[w][k]
                            \/ k = t + 1 /\ tried'[w][k] = b
  BY <1>4, <1>6
<1>8. Origins' = Origins
  BY <1>1 DEF reading, Origins
<1>9. \A k \in 1 .. t : tried[w][k] < b
  <2>1. n > Passed(w) /\ pc[w] # "idle"
    BY <1>1, <1>2, <1>3
  <2>2. \A k \in 1 .. t : tried[w][k] < batch[w][n].buffer
    <3>. HIDE DEF n
    <3>. QED  BY <1>4, <2>1 DEF Order, TriedOrder
  <2>. QED  BY <1>5, <2>2
<1>10. \A k \in 1 .. Len(batch[w]) : n < k => b < batch[w][k].buffer
  BY <1>4, <1>5 DEF Order, BatchOrder
<1>11. \A k \in 1 .. Len(inbox[w]) : b < inbox[w][k].buffer
  BY <1>1, <1>4, <1>5 DEF Order, BatchOrder
<1>12. WaitingOrder(w)' /\ BatchOrder(w)'
  BY <1>1 DEF Order, WaitingOrder, BatchOrder
<1>13. TriedOrder(w)'
  <2>1. ASSUME NEW j \in 1 .. t + 1, NEW k \in 1 .. t + 1, j < k
        PROVE  tried'[w][j] < tried'[w][k]
    <3>1. j \in 1 .. t /\ tried'[w][j] = tried[w][j]
      BY <1>4, <1>7, <2>1
    <3>2. CASE k \in 1 .. t /\ tried'[w][k] = tried[w][k]
      BY <2>1, <3>1, <3>2 DEF Order, TriedOrder
    <3>3. CASE k = t + 1 /\ tried'[w][k] = b
      BY <1>9, <3>1, <3>3
    <3>. QED  BY <1>7, <3>2, <3>3
  <2>2. ASSUME NEW k \in 1 .. t + 1
        PROVE  /\ tried'[w][k] \in Origins
               /\ \A l \in 1 .. Len(inbox[w]) : tried'[w][k] < inbox[w][l].buffer
               /\ \A l \in 1 .. Len(batch[w]) : l > n => tried'[w][k] < batch[w][l].buffer
    <3>1. CASE k \in 1 .. t /\ tried'[w][k] = tried[w][k]
      <4>1. \A l \in 1 .. Len(batch[w]) : l > n => l > i[w]
        BY <1>2, <1>4
      <4>. QED  BY <1>1, <1>3, <3>1, <4>1 DEF Order, TriedOrder
    <3>2. CASE k = t + 1 /\ tried'[w][k] = b
      <4>1. \A l \in 1 .. Len(batch[w]) : l > n => n < l
        BY <1>4
      <4>. QED  BY <1>5, <1>10, <1>11, <3>2, <4>1
    <3>. QED  BY <1>7, <3>1, <3>2
  <2>. HIDE DEF n, b, t
  <2>. QED  BY <1>1, <1>3, <1>6, <1>8, <2>1, <2>2 DEF TriedOrder
<1>14. APDUInWork(w)'
  BY <1>1, <1>5 DEF APDUInWork
<1>15. PassedTried(w)'
  <2>. SUFFICES ASSUME NEW k \in 1 .. Len(batch[w]), k <= n
                PROVE  batch[w][k].buffer \in Range(tried'[w])
    BY <1>1, <1>3 DEF PassedTried, Range
  <2>1. \A x \in Range(tried[w]) : x \in Range(tried'[w])
    BY <1>4, <1>6 DEF Range
  <2>2. CASE k <= i[w]
    BY <1>1, <1>3, <2>1, <2>2 DEF Order, PassedTried
  <2>3. CASE k = n
    <3>1. t + 1 \in DOMAIN tried'[w] /\ tried'[w][t + 1] = batch[w][k].buffer
      BY <1>4, <1>5, <1>6, <2>3
    <3>. QED  BY <3>1 DEF Range
  <2>. QED  BY <1>2, <1>4, <2>2, <2>3
<1>16. Counted(w)'
  BY <1>1 DEF Counted
<1>. QED  BY <1>12, <1>13, <1>14, <1>15, <1>16 DEF Order

LEMMA SendReturnsOrder ==
    ASSUME HeldInv, NEW w \in Writers, Order(w), SendCall(w) \/ SendNoType(w)
    PROVE  Order(w)'
<1>1. /\ pc[w] = "call" /\ pc'[w] = "finalize" /\ UNCHANGED <<i, retcode, apdu>>
      /\ UNCHANGED <<reading, inbox, batch, tried>>
  BY DEF SendCall, SendNoType, SendReturns, HeldInv, TypeOK
<1>2. retcode[w] = "OK"
  BY <1>1, SendFacts
<1>3. Passed(w)' = Passed(w)
  BY <1>1, <1>2 DEF Passed
<1>. QED  BY <1>1, <1>3, OrderLoop DEF reading, Origins, Order, APDUInWork

LEMMA WriteNextOrder ==
    ASSUME HeldInv, NEW w \in Writers, Order(w), WriteNext(w)
    PROVE  Order(w)'
<1>1. /\ pc[w] = "finalize" /\ retcode[w] = "OK" /\ pc'[w] = "convert" /\ i'[w] = i[w] + 1
      /\ apdu'[w] = Null /\ UNCHANGED <<reading, inbox, batch, tried>>
  BY FinalizeFrees DEF WriteNext, HeldInv, TypeOK, outcome
<1>2. Passed(w)' = Passed(w)
  BY <1>1 DEF Passed
<1>. QED  BY <1>1, <1>2, OrderLoop DEF reading, Origins

\* The samples of the batch that were passed to Send are as many as were counted.
LEMMA PassedCounted ==
    ASSUME HeldInv, NEW w \in Writers, Order(w), pc[w] # "idle", Passed(w) = i[w],
           i[w] \in 0 .. Len(batch[w])
    PROVE  i[w] <= Cardinality({k \in DOMAIN batch[w] : batch[w][k].buffer \in Range(tried[w])})
<1>. DEFINE S == {k \in DOMAIN batch[w] : batch[w][k].buffer \in Range(tried[w])}
            N == 1 .. i[w]
            D == 1 .. Len(batch[w])
<1>1. Len(batch[w]) \in Nat /\ DOMAIN batch[w] = D /\ i[w] \in Nat
  BY HeldFacts
<1>2. N \subseteq S
  <2>. SUFFICES ASSUME NEW k \in N PROVE k \in S
    OBVIOUS
  <2>1. k \in 1 .. Len(batch[w]) /\ k <= i[w]
    BY <1>1
  <2>2. PassedTried(w)
    BY DEF Order
  <2>3. batch[w][k].buffer \in Range(tried[w])
    BY <2>1, <2>2 DEF PassedTried
  <2>4. k \in DOMAIN batch[w]
    BY <1>1, <2>1
  <2>. QED  BY <2>3, <2>4
<1>3. S \subseteq D /\ IsFiniteSet(D)
  <2>1. S \subseteq D
    BY <1>1
  <2>2. 1 \in Int /\ Len(batch[w]) \in Int
    BY <1>1
  <2>3. IsFiniteSet(D)
    BY <2>2, FS_Interval
  <2>. QED  BY <2>1, <2>3
<1>4. Cardinality(N) = i[w]
  <2>1. 1 \in Int /\ i[w] \in Int
    BY <1>1
  <2>2. Cardinality(1 .. i[w]) = IF 1 > i[w] THEN 0 ELSE i[w] - 1 + 1
    BY <2>1, FS_Interval
  <2>. QED  BY <1>1, <2>2
<1>. HIDE DEF S, N, D
<1>5. IsFiniteSet(S)
  BY <1>3, FS_Subset
<1>6. Cardinality(N) <= Cardinality(S)
  BY <1>2, <1>5, FS_Subset
<1>7. i[w] <= Cardinality(S)
  BY <1>4, <1>6
<1>. QED  BY <1>7 DEF S

LEMMA WriteDoneOrder ==
    ASSUME HeldInv, NEW w \in Writers, Order(w), WriteError(w) \/ WriteEnd(w)
    PROVE  Order(w)'
<1>1. /\ pc[w] \in {"convert", "finalize"} /\ (pc[w] = "finalize" => retcode[w] = "ERROR")
      /\ pc'[w] = "idle" /\ count'[w] \in {i[w], i[w] - 1}
      /\ UNCHANGED <<reading, inbox, batch, tried>>
  BY DEF WriteError, WriteEnd, HeldInv, TypeOK
<1>2. apdu'[w] = Null
  <2>1. CASE WriteError(w)
    BY <2>1, FinalizeFrees DEF WriteError
  <2>2. CASE WriteEnd(w)
    BY <2>2 DEF WriteEnd, HeldInv, BuffersFreed
  <2>. QED  BY <2>1, <2>2
<1>3. i[w] \in 0 .. Len(batch[w]) /\ Len(batch[w]) \in Nat
  BY <1>1, HeldFacts DEF HeldInv, LoopRight
<1>4. Passed(w) = i[w]
  BY <1>1 DEF Passed
<1>. DEFINE S == {k \in DOMAIN batch[w] : batch[w][k].buffer \in Range(tried[w])}
<1>5. i[w] <= Cardinality(S)
  BY <1>1, <1>3, <1>4, PassedCounted
<1>6. Cardinality(S) \in Nat
  <2>1. DOMAIN batch[w] = 1 .. Len(batch[w])
    BY HeldFacts
  <2>2. S \in SUBSET (1 .. Len(batch[w]))
    BY <2>1
  <2>3. IsFiniteSet(1 .. Len(batch[w]))
    BY <1>3, FS_Interval
  <2>. HIDE DEF S
  <2>. QED  BY <2>2, <2>3, FS_Subset, FS_CardinalityType
<1>7. Counted(w)'
  <2>1. Counted(w)' = (pc'[w] = "idle" => count'[w] <= Cardinality(S))
    BY <1>1 DEF Counted, Range
  <2>2. count'[w] <= Cardinality(S)
    <3>. HIDE DEF S
    <3>. QED  BY <1>1, <1>3, <1>5, <1>6
  <2>. HIDE DEF S
  <2>. QED  BY <2>1, <2>2
<1>8. WaitingOrder(w)' /\ BatchOrder(w)'
  BY <1>1 DEF Order, WaitingOrder, BatchOrder
<1>9. TriedOrder(w)'
  BY <1>1 DEF Order, TriedOrder, Origins, reading
<1>10. APDUInWork(w)' /\ PassedTried(w)'
  BY <1>1, <1>2 DEF APDUInWork, PassedTried
<1>. QED  BY <1>7, <1>8, <1>9, <1>10 DEF Order

LEMMA OrderInit == Init => OrderInv
<1>. SUFFICES ASSUME Init, NEW w \in Writers PROVE Order(w)
  BY DEF OrderInv
<1>1. WaitingOrder(w) /\ BatchOrder(w) /\ TriedOrder(w) /\ APDUInWork(w) /\ PassedTried(w)
  BY EmptySeq DEF Init, WaitingOrder, BatchOrder, TriedOrder, APDUInWork, PassedTried
<1>2. count[w] = 0 /\ batch[w] = << >>
  BY DEF Init
<1>3. {k \in DOMAIN batch[w] : batch[w][k].buffer \in Range(tried[w])} = {}
  BY <1>2
<1>4. Counted(w)
  BY <1>2, <1>3, FS_EmptySet DEF Counted
<1>. QED  BY <1>1, <1>4 DEF Order

\* A step of a writer changes what is its own and what all share, and nothing else.
LEMMA OthersKeep ==
    ASSUME HeldInv, NEW w \in Writers, WriteStart(w) \/ WriteStep(w), NEW v \in Writers \ {w}
    PROVE  /\ inbox'[v] = inbox[v] /\ batch'[v] = batch[v] /\ tried'[v] = tried[v]
           /\ pc'[v] = pc[v] /\ i'[v] = i[v] /\ retcode'[v] = retcode[v]
           /\ apdu'[v] = apdu[v] /\ count'[v] = count[v] /\ received' = received
<1>1. CASE WriteStart(w)
  BY <1>1 DEF WriteStart, HeldInv, TypeOK, FilterTypeOK, reading, parser, outcome
<1>2. CASE ConvertOK(w) \/ ConvertError(w)
  BY <1>2 DEF ConvertOK, ConvertError, HeldInv, TypeOK, FilterTypeOK, reading, parser, outcome
<1>3. CASE SendNowhere(w) \/ SendWrite(w)
  BY <1>3 DEF SendNowhere, SendWrite, HeldInv, TypeOK, FilterTypeOK, reading, parser
<1>4. CASE SendCall(w) \/ SendNoType(w)
  BY <1>4 DEF SendCall, SendNoType, SendReturns, HeldInv, TypeOK, FilterTypeOK, reading, parser
<1>5. CASE WriteNext(w) \/ WriteError(w)
  <2>1. apdu'[v] = apdu[v]
    BY <1>5, FinalizeFrees DEF WriteNext, WriteError
  <2>. QED  BY <1>5, <2>1 DEF WriteNext, WriteError, HeldInv, TypeOK, FilterTypeOK, reading, parser, outcome
<1>6. CASE WriteEnd(w)
  BY <1>6 DEF WriteEnd, HeldInv, TypeOK, FilterTypeOK, reading, parser
<1>. QED  BY <1>1, <1>2, <1>3, <1>4, <1>5, <1>6 DEF WriteStep

LEMMA OrderNext == HeldInv /\ OrderInv /\ [Next]_vars => OrderInv'
<1>. SUFFICES ASSUME HeldInv, OrderInv, [Next]_vars, NEW v \in Writers PROVE Order(v)'
  BY DEF OrderInv
<1>1. Order(v)
  BY DEF OrderInv
<1>2. CASE CreateReader \/ ParseFilter \/ UNCHANGED vars
  BY <1>1, <1>2, OrderFrame
     DEF CreateReader, ParseFilter, vars, reading, thread, shared, outcome, Origins
<1>3. CASE Receive
  BY <1>1, <1>3, ReceiveOrder
<1>4. ASSUME NEW w \in Writers, WriteStart(w) \/ WriteStep(w) PROVE Order(v)'
  <2>1. CASE v = w
    BY <1>1, <1>4, <2>1, WriteStartOrder, ConvertOrder, SendOrder, SendReturnsOrder,
       WriteNextOrder, WriteDoneOrder DEF WriteStep
  <2>2. CASE v # w
    BY <1>1, <1>4, <2>2, OthersKeep, OrderFrame DEF Origins
  <2>. QED  BY <2>1, <2>2
<1>. QED  BY <1>2, <1>3, <1>4 DEF Next

LEMMA OrderAlways == Spec => []OrderInv
<1>1. Spec => []HeldInv
  BY HeldAlways
<1>. QED  BY <1>1, OrderInit, OrderNext, PTL DEF Spec

\* A writer passes samples to Send in the order the APDUs were received, and each once,
\* whatever fails in between.
THEOREM RouteKeepsOrder == Spec => []SentInOrder
<1>1. HeldInv /\ OrderInv => SentInOrder
  BY HeldFacts DEF OrderInv, Order, TriedOrder, SentInOrder
<1>2. Spec => []HeldInv
  BY HeldAlways
<1>. QED  BY <1>1, <1>2, OrderAlways, PTL

\* What DNP3StreamWriter_write returns never counts a sample that was given up.
THEOREM RouteCountsNoLost == Spec => []NeverOverReported
<1>1. OrderInv => NeverOverReported
  BY DEF OrderInv, Order, Counted, NeverOverReported
<1>. QED  BY <1>1, OrderAlways, PTL

-----------------------------------------------------------------------------
(* Fourth layer: what a writer has sent when Send returns.                 *)

SentIs(w, n) == \E k \in DOMAIN sent : sent[k].writer = w /\ sent[k].given = n
SendExpected(n) ==
    (\E c \in Conns : Pair(c) = Ends(n)) /\ received[n].type # "UNSOL_RESPONSE"

SentTried == \A k \in DOMAIN sent : sent[k].given \in Range(tried[sent[k].writer])

\* In Send, the APDU of the thread is not sent yet; behind it, it is, if it should be.
SentAsExpected(w) ==
    /\ pc[w] = "call" => ~ SentIs(w, apdu[w].buffer)
    /\ pc[w] = "finalize" /\ retcode[w] = "OK" =>
          (SentIs(w, apdu[w].buffer) <=> SendExpected(apdu[w].buffer))

SentInv == SentTried /\ \A w \in Writers : SentAsExpected(w)

\* A step of another writer, or one that does not end in Send or behind it.
LEMMA SentFrame ==
    ASSUME HeldInv, NEW v \in Writers, SentAsExpected(v),
           \A n \in Origins : received'[n] = received[n],
           \A n : SentIs(v, n)' <=> SentIs(v, n),
           pc'[v] = "call" \/ (pc'[v] = "finalize" /\ retcode'[v] = "OK") =>
              pc'[v] = pc[v] /\ retcode'[v] = retcode[v] /\ apdu'[v] = apdu[v]
    PROVE  SentAsExpected(v)'
<1>1. CASE pc'[v] = "call"
  <2>1. pc[v] = "call" /\ apdu'[v] = apdu[v]
    BY <1>1
  <2>2. ~ SentIs(v, apdu[v].buffer)
    BY <2>1 DEF SentAsExpected
  <2>3. ~ SentIs(v, apdu[v].buffer)'
    <3>. DEFINE n == apdu[v].buffer
    <3>1. ~ SentIs(v, n) /\ apdu'[v].buffer = n
      BY <2>1, <2>2
    <3>2. SentIs(v, apdu[v].buffer)' <=>
             \E k \in DOMAIN sent' : sent'[k].writer = v /\ sent'[k].given = n
      BY <3>1 DEF SentIs
    <3>3. (\E k \in DOMAIN sent' : sent'[k].writer = v /\ sent'[k].given = n)
             <=> SentIs(v, n)
      BY DEF SentIs
    <3>. QED  BY <3>1, <3>2, <3>3
  <2>. QED  BY <1>1, <2>3 DEF SentAsExpected
<1>2. CASE pc'[v] = "finalize" /\ retcode'[v] = "OK"
  <2>. DEFINE n == apdu[v].buffer
  <2>1. pc[v] = "finalize" /\ retcode[v] = "OK" /\ apdu'[v] = apdu[v] /\ apdu'[v].buffer = n
    BY <1>2
  <2>2. n \in Origins
    BY <2>1 DEF HeldInv, APDUsCarried, Carried
  <2>3. SendExpected(n) <=>
           (\E c \in Conns : Pair(c) = <<received'[n].src, received'[n].dest>>)
           /\ received'[n].type # "UNSOL_RESPONSE"
    BY <2>2 DEF SendExpected, Ends
  <2>4. (\E k \in DOMAIN sent' : sent'[k].writer = v /\ sent'[k].given = n) <=> SentIs(v, n)
    BY DEF SentIs
  <2>5. SentIs(v, n) <=> SendExpected(n)
    BY <2>1 DEF SentAsExpected
  <2>6. /\ SentIs(v, apdu[v].buffer)' <=>
              \E k \in DOMAIN sent' : sent'[k].writer = v /\ sent'[k].given = n
        /\ SendExpected(apdu[v].buffer)' <=>
              (\E c \in Conns : Pair(c) = <<received'[n].src, received'[n].dest>>)
              /\ received'[n].type # "UNSOL_RESPONSE"
    BY <2>1 DEF SentIs, SendExpected, Ends, Pair
  <2>. QED  BY <1>2, <2>3, <2>4, <2>5, <2>6 DEF SentAsExpected
<1>3. CASE ~ (pc'[v] = "call" \/ (pc'[v] = "finalize" /\ retcode'[v] = "OK"))
  BY <1>3 DEF SentAsExpected
<1>. QED  BY <1>1, <1>2, <1>3

\* What was sent was passed to Send before, and the sample in work was not.
LEMMA NotSentYet ==
    ASSUME HeldInv, NEW w \in Writers, Order(w), SentTried, pc[w] = "send"
    PROVE  ~ SentIs(w, apdu[w].buffer)
<1>. DEFINE b == apdu[w].buffer
            n == i[w] + 1
<1>1. /\ apdu[w] # Null /\ retcode[w] = "OK" /\ b \in Contents
      /\ i[w] \in 0 .. Len(batch[w]) /\ i[w] < Len(batch[w])
  BY SendFacts
<1>2. n \in 1 .. Len(batch[w]) /\ n > Passed(w) /\ b = batch[w][n].buffer
  <2>1. Len(batch[w]) \in Nat
    BY HeldFacts
  <2>2. Passed(w) = i[w]
    BY DEF Passed
  <2>. QED  BY <1>1, <2>1, <2>2 DEF Order, APDUInWork
<1>3. DOMAIN tried[w] = 1 .. Len(tried[w])
  BY HeldFacts
<1>4. \A k \in 1 .. Len(tried[w]) : tried[w][k] \in Origins /\ tried[w][k] < batch[w][n].buffer
  <2>. HIDE DEF n
  <2>. QED  BY <1>2 DEF Order, TriedOrder
<1>5. ASSUME b \in Range(tried[w]) PROVE FALSE
  <2>1. PICK k \in 1 .. Len(tried[w]) : tried[w][k] = b
    BY <1>3, <1>5 DEF Range
  <2>2. b < b /\ b \in Nat
    BY <1>1, <1>2, <1>4, <2>1 DEF Contents
  <2>. QED  BY <2>2
<1>. QED  BY <1>5 DEF SentIs, SentTried

LEMMA SendNowhereSent ==
    ASSUME HeldInv, NEW w \in Writers, Order(w), SentInv, SendNowhere(w)
    PROVE  SentAsExpected(w)'
<1>. DEFINE n == apdu[w].buffer
<1>1. /\ pc[w] = "send" /\ GetConnection(apdu[w].src, apdu[w].dest) = Null
      /\ pc'[w] = "finalize" /\ UNCHANGED <<received, apdu, sent>>
  BY DEF SendNowhere, HeldInv, TypeOK, FilterTypeOK, reading, parser
<1>2. ~ SentIs(w, n)
  BY <1>1, NotSentYet DEF SentInv
<1>3. ~ SendExpected(n)
  BY <1>1, ConnectionFound DEF SendExpected
<1>. QED  BY <1>1, <1>2, <1>3 DEF SentAsExpected, SentIs, SendExpected, Ends, Pair

LEMMA SendWriteSent ==
    ASSUME HeldInv, NEW w \in Writers, Order(w), SentInv, SendWrite(w)
    PROVE  SentAsExpected(w)'
<1>1. pc[w] = "send" /\ pc'[w] = "call" /\ UNCHANGED <<apdu, sent>>
  BY DEF SendWrite, HeldInv, TypeOK
<1>2. ~ SentIs(w, apdu[w].buffer)
  BY <1>1, NotSentYet DEF SentInv
<1>. QED  BY <1>1, <1>2 DEF SentAsExpected, SentIs

\* A thread that reached the stack holds an APDU that is to be sent, unless it lost its type.
LEMMA CallExpected ==
    ASSUME HeldInv, SharedInv, NEW w \in Writers, pc[w] = "call"
    PROVE  SendExpected(apdu[w].buffer) <=> apdu[w].type # NoType
<1>1. conn[w] \in Conns /\ Pair(conn[w]) = Ends(apdu[w].buffer)
  BY CallFacts DEF SharedInv, CallersRight
<1>2. Carried(apdu[w]) /\ received[apdu[w].buffer] \in Arrivals
  BY SendFacts
<1>3. apdu[w].type = NoType <=> received[apdu[w].buffer].type = "UNSOL_RESPONSE"
  BY <1>2, BothConversions DEF Carried
<1>. QED  BY <1>1, <1>3 DEF SendExpected

LEMMA SendCallSent ==
    ASSUME HeldInv, SharedInv, NEW w \in Writers, SendCall(w)
    PROVE  /\ SentAsExpected(w)'
           /\ \A v \in Writers \ {w} : \A n : SentIs(v, n)' <=> SentIs(v, n)
<1>. DEFINE n == apdu[w].buffer
<1>1. /\ pc[w] = "call" /\ apdu[w].type # NoType /\ pc'[w] = "finalize"
      /\ UNCHANGED <<received, apdu>>
  BY DEF SendCall, SendReturns, HeldInv, TypeOK, FilterTypeOK, reading, parser
<1>2. /\ DOMAIN sent = 1 .. Len(sent) /\ Len(sent) \in Nat /\ DOMAIN sent' = 1 .. Len(sent) + 1
      /\ \A k \in DOMAIN sent : sent'[k] = sent[k]
      /\ sent'[Len(sent) + 1] = SentBy(w)
  BY SendCallAppends
<1>3. SentBy(w).writer = w /\ SentBy(w).given = n
  BY DEF SentBy
<1>4. SentIs(w, n)'
  <2>1. Len(sent) + 1 \in DOMAIN sent' /\ sent'[Len(sent) + 1].writer = w
        /\ sent'[Len(sent) + 1].given = n /\ apdu'[w].buffer = n
    BY <1>1, <1>2, <1>3
  <2>. QED  BY <2>1 DEF SentIs
<1>5. SendExpected(n)'
  BY <1>1, CallExpected DEF SendExpected, Ends, Pair
<1>6. SentAsExpected(w)'
  BY <1>1, <1>4, <1>5 DEF SentAsExpected
<1>7. ASSUME NEW v \in Writers \ {w}, NEW m PROVE SentIs(v, m)' <=> SentIs(v, m)
  <2>1. \A k \in DOMAIN sent' : sent'[k].writer = v => k \in DOMAIN sent
    BY <1>2, <1>3
  <2>2. \A k \in DOMAIN sent : k \in DOMAIN sent'
    BY <1>2
  <2>. QED  BY <1>2, <2>1, <2>2 DEF SentIs
<1>. QED  BY <1>6, <1>7

LEMMA SendNoTypeSent ==
    ASSUME HeldInv, SharedInv, NEW w \in Writers, SentInv, SendNoType(w)
    PROVE  SentAsExpected(w)'
<1>1. /\ pc[w] = "call" /\ apdu[w].type = NoType /\ pc'[w] = "finalize"
      /\ UNCHANGED <<received, apdu, sent>>
  BY DEF SendNoType, SendReturns, HeldInv, TypeOK, FilterTypeOK, reading, parser
<1>2. ~ SentIs(w, apdu[w].buffer)
  BY <1>1 DEF SentInv, SentAsExpected
<1>3. ~ SendExpected(apdu[w].buffer)
  BY <1>1, CallExpected
<1>. QED  BY <1>1, <1>2, <1>3 DEF SentAsExpected, SentIs, SendExpected, Ends, Pair

\* The samples passed to Send are never forgotten.
LEMMA TriedGrows ==
    ASSUME HeldInv, [Next]_vars, NEW v \in Writers
    PROVE  Range(tried[v]) \subseteq Range(tried'[v])
<1>1. ASSUME NEW w \in Writers, SendNowhere(w) \/ SendWrite(w)
      PROVE  Range(tried[v]) \subseteq Range(tried'[v])
  <2>1. CASE v = w
    <3>1. tried'[v] = Append(tried[v], apdu[v].buffer) /\ tried[v] \in Seq(Contents)
      BY <1>1, <2>1 DEF SendNowhere, SendWrite, HeldInv, TypeOK
    <3>2. apdu[v].buffer \in Contents
      BY <1>1, <2>1, SendFacts DEF SendNowhere, SendWrite
    <3>. DEFINE b == apdu[v].buffer
                t == tried[v]
    <3>3. /\ Append(t, b) \in Seq(Contents) /\ Len(Append(t, b)) = Len(t) + 1
          /\ \A k \in 1 .. Len(t) : Append(t, b)[k] = t[k]
      <4>. HIDE DEF b, t
      <4>. QED  BY <3>1, <3>2, AppendProperties DEF t, b
    <3>4. /\ DOMAIN t = 1 .. Len(t) /\ Len(t) \in Nat
          /\ DOMAIN Append(t, b) = 1 .. Len(t) + 1
      <4>. HIDE DEF b
      <4>. QED  BY <3>1, <3>3, LenProperties
    <3>. HIDE DEF b
    <3>. QED  BY <3>1, <3>3, <3>4 DEF Range, b
  <2>2. CASE v # w
    BY <1>1, <2>2, OthersKeep DEF WriteStep
  <2>. QED  BY <2>1, <2>2
<1>2. ASSUME NEW w \in Writers, WriteStart(w) \/ WriteStep(w),
             ~ (SendNowhere(w) \/ SendWrite(w))
      PROVE  tried' = tried
  BY <1>2 DEF WriteStart, WriteStep, ConvertOK, ConvertError, SendCall, SendNoType, WriteNext,
              WriteError, WriteEnd, outcome
<1>3. CASE CreateReader \/ ParseFilter \/ Receive \/ UNCHANGED vars
  BY <1>3 DEF CreateReader, ParseFilter, Receive, vars, outcome
<1>. QED  BY <1>1, <1>2, <1>3 DEF Next

LEMMA SentTriedNext == HeldInv /\ OrderInv /\ SentTried /\ [Next]_vars => SentTried'
<1>. SUFFICES ASSUME HeldInv, OrderInv, SentTried, [Next]_vars PROVE SentTried'
  OBVIOUS
<1>1. ASSUME NEW k \in DOMAIN sent
      PROVE  sent[k].writer \in Writers /\ sent[k].given \in Range(tried'[sent[k].writer])
  <2>1. sent \in Seq(Sendings)
    BY DEF HeldInv, TypeOK, Sendings
  <2>2. sent[k] \in Sendings
    BY <2>1, LenProperties, ElementOfSeq
  <2>3. sent[k].writer \in Writers
    BY <2>2 DEF Sendings
  <2>. QED  BY <2>3, TriedGrows DEF SentTried
<1>2. ASSUME NEW w \in Writers, SendCall(w) PROVE SentTried'
  <2>1. /\ DOMAIN sent = 1 .. Len(sent) /\ Len(sent) \in Nat
        /\ DOMAIN sent' = 1 .. Len(sent) + 1
        /\ \A k \in DOMAIN sent : sent'[k] = sent[k]
        /\ sent'[Len(sent) + 1] = SentBy(w)
    BY <1>2, SendCallAppends
  <2>2. pc[w] = "call" /\ tried' = tried
    BY <1>2 DEF SendCall
  <2>3. apdu[w].buffer \in Range(tried[w])
    <3>. DEFINE n == i[w] + 1
    <3>1. /\ apdu[w] # Null /\ i[w] \in 0 .. Len(batch[w]) /\ i[w] < Len(batch[w])
      BY <2>2, SendFacts
    <3>2. Len(batch[w]) \in Nat
      BY HeldFacts
    <3>3. n \in 1 .. Len(batch[w]) /\ n <= Passed(w)
      BY <2>2, <3>1, <3>2 DEF Passed
    <3>4. apdu[w].buffer = batch[w][n].buffer
      BY <3>1 DEF OrderInv, Order, APDUInWork
    <3>. HIDE DEF n
    <3>5. batch[w][n].buffer \in Range(tried[w])
      BY <2>2, <3>3 DEF OrderInv, Order, PassedTried
    <3>. QED  BY <3>4, <3>5
  <2>4. SentBy(w).writer = w /\ SentBy(w).given = apdu[w].buffer
    BY DEF SentBy
  <2>5. \A k \in DOMAIN sent' : k \in DOMAIN sent \/ k = Len(sent) + 1
    BY <2>1
  <2>. QED  BY <1>1, <2>1, <2>2, <2>3, <2>4, <2>5 DEF SentTried
<1>3. CASE sent' = sent
  BY <1>1, <1>3 DEF SentTried
<1>4. ASSUME NEW w \in Writers, WriteStart(w) \/ WriteStep(w), ~ SendCall(w) PROVE sent' = sent
  BY <1>4 DEF WriteStart, WriteStep, ConvertOK, ConvertError, SendNowhere, SendWrite,
              SendNoType, WriteNext, WriteError, WriteEnd, outcome
<1>5. CASE CreateReader \/ ParseFilter \/ Receive \/ UNCHANGED vars
  BY <1>3, <1>5 DEF CreateReader, ParseFilter, Receive, vars, outcome
<1>. QED  BY <1>2, <1>3, <1>4, <1>5 DEF Next

LEMMA SentNext ==
    HeldInv /\ SharedInv /\ OrderInv /\ SentInv /\ [Next]_vars => SentInv'
<1>. SUFFICES ASSUME HeldInv, SharedInv, OrderInv, SentInv, [Next]_vars, NEW v \in Writers
              PROVE  SentAsExpected(v)'
  BY SentTriedNext DEF SentInv
<1>1. SentAsExpected(v)
  BY DEF SentInv
<1>2. ASSUME sent' = sent, \A n \in Origins : received'[n] = received[n],
             pc'[v] = "call" \/ (pc'[v] = "finalize" /\ retcode'[v] = "OK") =>
                pc'[v] = pc[v] /\ retcode'[v] = retcode[v] /\ apdu'[v] = apdu[v]
      PROVE  SentAsExpected(v)'
  <2>1. \A n : SentIs(v, n)' <=> SentIs(v, n)
    BY <1>2 DEF SentIs
  <2>. QED  BY <1>1, <1>2, <2>1, SentFrame
<1>3. CASE CreateReader \/ ParseFilter \/ UNCHANGED vars
  BY <1>2, <1>3 DEF CreateReader, ParseFilter, vars, reading, thread, shared, outcome
<1>4. CASE Receive
  <2>1. \A n \in Origins : received'[n] = received[n]
    BY <1>4, ReceivedGrows
  <2>. QED  BY <1>2, <1>4, <2>1 DEF Receive, thread, outcome
<1>5. ASSUME NEW w \in Writers, SendCall(w) PROVE SentAsExpected(v)'
  <2>1. CASE v = w
    BY <1>5, <2>1, SendCallSent
  <2>2. CASE v # w
    <3>1. \A n : SentIs(v, n)' <=> SentIs(v, n)
      BY <1>5, <2>2, SendCallSent
    <3>2. /\ pc'[v] = pc[v] /\ retcode'[v] = retcode[v] /\ apdu'[v] = apdu[v]
          /\ received' = received
      BY <1>5, <2>2, OthersKeep DEF WriteStep
    <3>. QED  BY <1>1, <3>1, <3>2, SentFrame
  <2>. QED  BY <2>1, <2>2
<1>6. ASSUME NEW w \in Writers, WriteStart(w) \/ WriteStep(w), ~ SendCall(w)
      PROVE  SentAsExpected(v)'
  <2>1. sent' = sent /\ received' = received
    BY <1>6 DEF WriteStart, WriteStep, ConvertOK, ConvertError, SendNowhere, SendWrite,
                SendNoType, WriteNext, WriteError, WriteEnd, reading, outcome
  <2>2. CASE v # w
    BY <1>2, <1>6, <2>1, <2>2, OthersKeep
  <2>3. CASE v = w /\ (SendNowhere(w) \/ SendWrite(w) \/ SendNoType(w))
    BY <2>3, SendNowhereSent, SendWriteSent, SendNoTypeSent DEF OrderInv
  <2>4. CASE v = w /\ ~ (SendNowhere(w) \/ SendWrite(w) \/ SendNoType(w))
    <3>1. ~ (pc'[w] = "call" \/ (pc'[w] = "finalize" /\ retcode'[w] = "OK"))
      BY <1>6, <2>4 DEF WriteStart, WriteStep, ConvertOK, ConvertError, WriteNext, WriteError,
                        WriteEnd, HeldInv, TypeOK
    <3>. QED  BY <1>2, <2>1, <2>4, <3>1
  <2>. QED  BY <2>2, <2>3, <2>4
<1>. QED  BY <1>3, <1>4, <1>5, <1>6 DEF Next

LEMMA SentInit == Init => SentInv
BY DEF Init, SentInv, SentTried, SentAsExpected

\* Send drops no APDU between the endpoints of a connection but those whose type the
\* converter lost, whatever other writers do on the connection.
THEOREM RouteSendsConnected == Spec => []ConnectedAPDUSent
<1>1. HeldInv /\ SentInv => ConnectedAPDUSent
  <2>. SUFFICES ASSUME HeldInv, SentInv, NEW w \in Writers,
                       pc[w] = "finalize" /\ retcode[w] = "OK"
                PROVE  (\E k \in DOMAIN sent : sent[k].writer = w
                                               /\ sent[k].given = apdu[w].buffer)
                       <=> /\ \E c \in Conns : Pair(c) = <<received[apdu[w].buffer].src,
                                                            received[apdu[w].buffer].dest>>
                           /\ received[apdu[w].buffer].type # "UNSOL_RESPONSE"
    BY DEF ConnectedAPDUSent
  <2>. QED  BY DEF SentInv, SentAsExpected, SentIs, SendExpected, Ends
<1>2. Spec => []HeldInv
  BY HeldAlways
<1>3. Spec => []SharedInv
  BY SharedAlways
<1>4. Spec => []OrderInv
  BY OrderAlways
<1>. QED  BY <1>1, <1>2, <1>3, <1>4, SentInit, SentNext, PTL DEF Spec

-----------------------------------------------------------------------------
(* The filter.  Between two turns of its loop the parser stands within a   *)
(* text that is still as it was written: the number of symbols behind the  *)
(* cursor says which entry it is in and what its buffers hold, and the     *)
(* entries before that one are in the filter.                              *)

Keys == {"src", "dest", "type"}

\* What an entry makes of the part of the filter that its key names.
Meant(e) ==
    IF e.key = "type"
    THEN CASE e.value = "request" -> "REQUEST"
           [] e.value = "response" -> "RESPONSE"
           [] OTHER -> "ANY"
    ELSE Number[e.value]

EnteredUpTo(k) ==
    /\ \A j \in 1 .. k : filter[user[j].key] = Meant(user[j])
    /\ \A key \in Keys : (\A j \in 1 .. k : user[j].key # key) => filter[key] = NoFilter[key]

\* The parser is before entry k + 1, or in it.
Within(k) ==
    LET ink == Ink(filterStr, cursor)
    IN  \/ /\ parsing = "key" /\ keyBuff = << >> /\ valueBuff = << >>
           /\ ink = 4 * k \/ (k = Len(user) /\ AtEnd)
        \/ /\ k < Len(user) /\ keyBuff = <<user[k + 1].key>>
           /\ \/ /\ parsing = "key" /\ valueBuff = << >>
                 /\ ink = 4 * k + 1
              \/ /\ parsing = "value" /\ valueBuff = << >>
                 /\ ink = 4 * k + 2
              \/ /\ parsing = "value" /\ valueBuff = <<user[k + 1].value>>
                 /\ ink = 4 * k + 3

PlainFilters == {f \in Filters : Plain(f)}

ParserInv ==
    plain =>
        /\ parsing # "none" => user \in {f.entries : f \in PlainFilters}
        /\ parsing \in {"key", "value"} =>
              /\ \E f \in PlainFilters : user = f.entries /\ filterStr = f.text
              /\ \E k \in 0 .. Len(user) : Within(k) /\ EnteredUpTo(k)
        /\ parsing = "done" => EnteredUpTo(Len(user))

LEMMA InkProperties ==
    ASSUME NEW text \in Seq(STRING), NEW p \in 0 .. Len(text)
    PROVE  /\ Ink(text, 0) = 0 /\ Ink(text, p) \in Nat
           /\ Ink(text, p) <= Ink(text, Len(text))
           /\ p < Len(text) =>
                 Ink(text, p + 1) = IF text[p + 1] \in Blanks THEN Ink(text, p) ELSE Ink(text, p) + 1
<1>. DEFINE Inked(q) == {r \in 1 .. Len(text) : r <= q /\ text[r] \notin Blanks}
<1>1. DOMAIN text = 1 .. Len(text) /\ Len(text) \in Nat /\ p \in Nat
  BY LenProperties
<1>2. IsFiniteSet(1 .. Len(text))
  BY <1>1, FS_Interval
<1>3. \A q : IsFiniteSet(Inked(q))
  <2>. SUFFICES ASSUME NEW q PROVE IsFiniteSet(Inked(q))
    OBVIOUS
  <2>1. Inked(q) \subseteq 1 .. Len(text)
    BY <1>1
  <2>. QED  BY <1>2, <2>1, FS_Subset
<1>4. Inked(0) = {}
  BY <1>1
<1>5. Inked(p) \subseteq Inked(Len(text))
  BY <1>1
<1>6. ASSUME p < Len(text)
      PROVE  Inked(p + 1) = IF text[p + 1] \in Blanks THEN Inked(p) ELSE Inked(p) \cup {p + 1}
  BY <1>1, <1>6
<1>7. p + 1 \notin Inked(p)
  BY <1>1
<1>8. \A q : Ink(text, q) = Cardinality(Inked(q))
  BY DEF Ink
<1>. HIDE DEF Inked
<1>9. Ink(text, 0) = 0
  BY <1>4, <1>8, FS_EmptySet
<1>10. Ink(text, p) \in Nat
  BY <1>3, <1>8, FS_CardinalityType
<1>11. Ink(text, p) <= Ink(text, Len(text))
  BY <1>3, <1>5, <1>8, FS_Subset
<1>12. p < Len(text) =>
          Ink(text, p + 1) = IF text[p + 1] \in Blanks THEN Ink(text, p) ELSE Ink(text, p) + 1
  BY <1>3, <1>6, <1>7, <1>8, FS_AddElement
<1>. QED  BY <1>9, <1>10, <1>11, <1>12

\* The parser's reading of a value is the manual's.
AsMeant(e) ==
    /\ e.value \in DOMAIN Decimal => Number[e.value] = Decimal[e.value]
    /\ e.value # "unsol-response"

LEMMA FilterFacts ==
    ASSUME NEW f \in PlainFilters
    PROVE  /\ f.text \in Seq(STRING) /\ Len(f.text) \in Nat
           /\ f.entries \in Seq(Entries) /\ Len(f.entries) \in Nat
           /\ DOMAIN f.entries = 1 .. Len(f.entries)
           /\ \A k \in 1 .. Len(f.entries) : f.entries[k] \in Entries
           /\ \A j, k \in 1 .. Len(f.entries) : f.entries[j].key = f.entries[k].key => j = k
           /\ Spells(f.text, f.entries)
           /\ \A p \in 1 .. Len(f.text) : f.text[p] \in Blanks <=> f.text[p] = Space
           /\ \A k \in 1 .. Len(f.entries) : AsMeant(f.entries[k])
<1>1. f \in Filters /\ Plain(f)
  BY DEF PlainFilters
<1>2. f.text \in Seq(STRING) /\ f.entries \in Seq(Entries) /\ Spells(f.text, f.entries)
  BY <1>1, FiltersAssumption
<1>3. /\ Len(f.text) \in Nat /\ DOMAIN f.text = 1 .. Len(f.text)
      /\ Len(f.entries) \in Nat /\ DOMAIN f.entries = 1 .. Len(f.entries)
  BY <1>2, LenProperties
<1>4. \A k \in 1 .. Len(f.entries) : f.entries[k] \in Entries
  BY <1>2, ElementOfSeq
<1>5. \A p \in 1 .. Len(f.text) : f.text[p] \in Blanks <=> f.text[p] = Space
  BY <1>1, <1>3 DEF Plain, Blanks
<1>6. \A j, k \in 1 .. Len(f.entries) : f.entries[j].key = f.entries[k].key => j = k
  BY <1>1, <1>3 DEF Plain
<1>7. \A k \in 1 .. Len(f.entries) : AsMeant(f.entries[k])
  BY <1>1, <1>3 DEF Plain, AsMeant
<1>. QED  BY <1>2, <1>3, <1>4, <1>5, <1>6, <1>7

\* No word of an entry is a separator.
LEMMA EntryWords ==
    ASSUME NEW e \in Entries
    PROVE  e.key \in Keys /\ e.key # "=" /\ e.value # Semicolon /\ e.value \notin Blanks
<1>1. \A w \in DOMAIN Decimal : w # Semicolon /\ w \notin Blanks
  BY Zenon, NumberAssumption
<1>2. \A w \in {"request", "response", "unsol-response", ANY} : w # Semicolon /\ w \notin Blanks
  BY Zenon DEF Semicolon, Blanks, Space, ANY
<1>. QED  BY <1>1, <1>2 DEF Entries, Keys

LEMMA Separators == Space # "=" /\ Space # Semicolon
BY Zenon DEF Space, Semicolon

\* The four symbols of an entry.
LEMMA WrittenProperties ==
    ASSUME NEW entries, NEW k \in Nat
    PROVE  /\ Written(entries, 4 * k + 1) = entries[k + 1].key
           /\ Written(entries, 4 * k + 2) = "="
           /\ Written(entries, 4 * k + 3) = entries[k + 1].value
           /\ Written(entries, 4 * k + 4) = Semicolon
<1>1. /\ (4 * k + 4) \div 4 = k + 1 /\ (4 * k + 5) \div 4 = k + 1
      /\ (4 * k + 6) \div 4 = k + 1 /\ (4 * k + 7) \div 4 = k + 1
  OBVIOUS
<1>2. /\ (4 * k + 1) % 4 = 1 /\ (4 * k + 2) % 4 = 2
      /\ (4 * k + 3) % 4 = 3 /\ (4 * k + 4) % 4 = 0
  OBVIOUS
<1>. QED  BY <1>1, <1>2 DEF Written

\* What the symbol behind the cursor can be, and where the text can end.
LEMMA SymbolRead ==
    ASSUME NEW f \in PlainFilters, filterStr = f.text, cursor \in Nat
    PROVE  /\ Ink(filterStr, cursor) \in Nat
           /\ ~ AtEnd /\ Symbol = Space => Ink(filterStr, cursor + 1) = Ink(filterStr, cursor)
           /\ ~ AtEnd /\ Symbol # Space =>
                 /\ Ink(filterStr, cursor + 1) = Ink(filterStr, cursor) + 1
                 /\ Ink(filterStr, cursor) + 1 <= 4 * Len(f.entries)
                 /\ Symbol = Written(f.entries, Ink(filterStr, cursor) + 1)
           /\ AtEnd => Ink(filterStr, cursor) \in {4 * Len(f.entries) - 1, 4 * Len(f.entries)}
<1>1. /\ filterStr \in Seq(STRING) /\ Len(filterStr) \in Nat /\ Len(f.entries) \in Nat
      /\ Spells(filterStr, f.entries) /\ DOMAIN filterStr = 1 .. Len(filterStr)
  BY FilterFacts, LenProperties
<1>2. Ink(filterStr, Len(filterStr)) \in {4 * Len(f.entries) - 1, 4 * Len(f.entries)}
  BY <1>1 DEF Spells
<1>3. CASE AtEnd
  <2>1. {q \in 1 .. Len(filterStr) : q <= cursor /\ filterStr[q] \notin Blanks}
          = {q \in 1 .. Len(filterStr) : q <= Len(filterStr) /\ filterStr[q] \notin Blanks}
    BY <1>1, <1>3 DEF AtEnd
  <2>2. Ink(filterStr, cursor) = Ink(filterStr, Len(filterStr))
    BY <2>1 DEF Ink
  <2>3. Ink(filterStr, Len(filterStr)) \in Nat
    <3>1. Len(filterStr) \in 0 .. Len(filterStr)
      BY <1>1
    <3>. QED  BY <1>1, <3>1, InkProperties
  <2>. QED  BY <1>2, <1>3, <2>2, <2>3
<1>4. CASE ~ AtEnd
  <2>1. cursor < Len(filterStr) /\ cursor \in 0 .. Len(filterStr) /\ cursor + 1 \in 0 .. Len(filterStr)
    BY <1>1, <1>4 DEF AtEnd
  <2>2. /\ Ink(filterStr, cursor) \in Nat
        /\ Ink(filterStr, cursor + 1)
             = IF Symbol = Space THEN Ink(filterStr, cursor) ELSE Ink(filterStr, cursor) + 1
    <3>1. Symbol \in Blanks <=> Symbol = Space
      <4>1. cursor + 1 \in 1 .. Len(filterStr)
        BY <2>1
      <4>. QED  BY <4>1, FilterFacts DEF Symbol
    <3>2. /\ Ink(filterStr, cursor) \in Nat
          /\ Ink(filterStr, cursor + 1)
               = IF Symbol \in Blanks THEN Ink(filterStr, cursor) ELSE Ink(filterStr, cursor) + 1
      BY <1>1, <2>1, InkProperties DEF Symbol
    <3>. QED  BY <3>1, <3>2
  <2>3. Ink(filterStr, cursor + 1) <= Ink(filterStr, Len(filterStr))
    BY <1>1, <2>1, InkProperties
  <2>4. Symbol # Space => Symbol = Written(f.entries, Ink(filterStr, cursor + 1))
    <3>1. cursor + 1 \in 1 .. Len(filterStr)
      BY <2>1
    <3>2. Symbol # Space => Symbol \notin Blanks
      BY <3>1, FilterFacts DEF Symbol
    <3>. QED  BY <1>1, <3>1, <3>2 DEF Spells, Symbol
  <2>. HIDE DEF Symbol
  <2>. QED  BY <1>1, <1>2, <1>4, <2>2, <2>3, <2>4
<1>. QED  BY <1>3, <1>4

\* An entry, once it is read, sets the part of the filter that its key names.
LEMMA EnteredProperties ==
    ASSUME FilterTypeOK, NEW e \in Entries, keyBuff = <<e.key>>, valueBuff = <<e.value>>,
           filter[e.key] = NoFilter[e.key]
    PROVE  /\ Entered[e.key] = Meant(e)
           /\ \A key \in Keys \ {e.key} : Entered[key] = filter[key]
<1>1. e.key \in Keys /\ e.value \notin Blanks
  BY EntryWords
<1>2. /\ keyBuff = <<"src">> <=> e.key = "src"
      /\ keyBuff = <<"dest">> <=> e.key = "dest"
      /\ keyBuff = <<"type">> <=> e.key = "type"
      /\ valueBuff = <<"request">> <=> e.value = "request"
      /\ valueBuff = <<"response">> <=> e.value = "response"
  OBVIOUS
<1>3. filter \in [src : Int, dest : Int, type : {"REQUEST", "RESPONSE", "ANY"}]
  BY DEF FilterTypeOK
<1>4. CASE e.key = "type"
  <2>1. filter.type = "ANY" /\ Meant(e) \in {"REQUEST", "RESPONSE", "ANY"}
    BY <1>4 DEF NoFilter, Meant
  <2>. QED  BY <1>2, <1>3, <1>4, <2>1 DEF Entered, Meant, Keys
<1>5. CASE e.key # "type"
  <2>1. e.value \in DOMAIN Number
    BY <1>5, NumberAssumption DEF Entries
  <2>2. Strtol(valueBuff) = Number[e.value]
    <3>1. {k \in DOMAIN valueBuff : valueBuff[k] \notin Blanks} = {1}
      BY <1>1
    <3>2. Min({1}) = 1
      BY DEF Min
    <3>. QED  BY <2>1, <3>1, <3>2 DEF Strtol
  <2>. QED  BY <1>1, <1>2, <1>3, <1>5, <2>2 DEF Entered, Meant, Keys
<1>. QED  BY <1>4, <1>5

LEMMA EnteredOneMore ==
    ASSUME HeldInv, NEW f \in PlainFilters, user = f.entries, NEW k \in 0 .. Len(user) - 1, EnteredUpTo(k),
           keyBuff = <<user[k + 1].key>>, valueBuff = <<user[k + 1].value>>,
           filter' = Entered, UNCHANGED user
    PROVE  EnteredUpTo(k + 1)'
<1>. DEFINE e == user[k + 1]
<1>1. /\ Len(user) \in Nat /\ k + 1 \in 1 .. Len(user) /\ e \in Entries
      /\ \A j \in 1 .. k : j \in 1 .. Len(user) /\ user[j] \in Entries /\ user[j].key # e.key
  <2>1. /\ Len(user) \in Nat /\ \A j \in 1 .. Len(user) : user[j] \in Entries
        /\ \A j, l \in 1 .. Len(user) : user[j].key = user[l].key => j = l
    BY FilterFacts
  <2>2. k + 1 \in 1 .. Len(user) /\ \A j \in 1 .. k : j \in 1 .. Len(user) /\ j # k + 1
    BY <2>1
  <2>. QED  BY <2>1, <2>2
<1>2. e.key \in Keys /\ \A j \in 1 .. k : user[j].key \in Keys
  BY <1>1, EntryWords
<1>3. filter[e.key] = NoFilter[e.key]
  BY <1>1, <1>2 DEF EnteredUpTo
<1>4. /\ filter'[e.key] = Meant(e)
      /\ \A key \in Keys \ {e.key} : filter'[key] = filter[key]
  BY <1>1, <1>3, EnteredProperties DEF HeldInv, TypeOK
<1>. HIDE DEF e
<1>5. ASSUME NEW j \in 1 .. k + 1 PROVE filter'[user[j].key] = Meant(user[j])
  <2>1. CASE j = k + 1
    BY <1>4, <2>1 DEF e
  <2>2. CASE j \in 1 .. k
    BY <1>1, <1>2, <1>4, <2>2 DEF EnteredUpTo
  <2>. QED  BY <2>1, <2>2
<1>6. ASSUME NEW key \in Keys, \A j \in 1 .. k + 1 : user[j].key # key
      PROVE  filter'[key] = NoFilter[key]
  <2>1. key # e.key /\ \A j \in 1 .. k : user[j].key # key
    BY <1>6 DEF e
  <2>. QED  BY <1>4, <2>1 DEF EnteredUpTo
<1>. QED  BY <1>5, <1>6 DEF EnteredUpTo, Meant, NoFilter, AnyValue

\* A turn that copies a symbol, or none, stays in the entry.
LEMMA ParserWithin ==
    ASSUME HeldInv, NEW f \in PlainFilters, user = f.entries, filterStr = f.text,
           NEW k \in 0 .. Len(user), Within(k), UNCHANGED user,
           KeySymbol \/ KeyEnd \/ ValueSymbol
    PROVE  Within(k)'
<1>. DEFINE ink == Ink(filterStr, cursor)
            more == Ink(filterStr, cursor + 1)
            read == Symbol
<1>1. Len(user) \in Nat /\ cursor \in Nat /\ UNCHANGED filterStr /\ cursor' = cursor + 1
  BY FilterFacts DEF HeldInv, TypeOK, FilterTypeOK, KeySymbol, KeyEnd, ValueSymbol
<1>2. /\ ink \in Nat
      /\ ~ AtEnd /\ read = Space => more = ink
      /\ ~ AtEnd /\ read # Space =>
            more = ink + 1 /\ ink + 1 <= 4 * Len(user) /\ read = Written(user, ink + 1)
      /\ AtEnd => ink \in {4 * Len(user) - 1, 4 * Len(user)}
  BY <1>1, SymbolRead
<1>3. /\ Written(user, 4 * k + 1) = user[k + 1].key
      /\ Written(user, 4 * k + 2) = "="
      /\ Written(user, 4 * k + 3) = user[k + 1].value
      /\ Written(user, 4 * k + 4) = Semicolon
  <2>1. k \in Nat
    BY <1>1
  <2>. QED  BY <2>1, WrittenProperties
<1>4. Ink(filterStr, cursor)' = more
  BY <1>1 DEF Ink
<1>. HIDE DEF ink, more, read
<1>5. CASE KeySymbol
  <2>1. ~ AtEnd /\ read # "=" /\ parsing' = "key" /\ valueBuff' = valueBuff
        /\ keyBuff' = IF read = Space THEN keyBuff ELSE Append(keyBuff, read)
    BY <1>5 DEF KeySymbol, Copied, read
  <2>2. CASE keyBuff = << >> /\ valueBuff = << >> /\ ink = 4 * k
    <3>1. CASE read = Space
      BY <1>2, <1>4, <2>1, <2>2, <3>1 DEF Within
    <3>2. CASE read # Space
      <4>0. more = ink + 1 /\ ink + 1 <= 4 * Len(user) /\ read = Written(user, ink + 1)
        BY <1>2, <2>1, <3>2
      <4>1. more = 4 * k + 1 /\ k < Len(user) /\ read = user[k + 1].key
        BY <1>1, <1>3, <2>2, <4>0
      <4>2. keyBuff' = <<user[k + 1].key>>
        BY <2>1, <2>2, <3>2, <4>1
      <4>. QED  BY <1>4, <2>1, <2>2, <4>1, <4>2 DEF Within
    <3>. QED  BY <3>1, <3>2
  <2>3. CASE /\ k < Len(user) /\ keyBuff = <<user[k + 1].key>>
             /\ valueBuff = << >> /\ ink = 4 * k + 1
    <3>1. read = Space
      BY <1>1, <1>2, <1>3, <2>1, <2>3
    <3>. QED  BY <1>2, <1>4, <2>1, <2>3, <3>1 DEF Within
  <2>4. parsing = "key"
    BY <1>5 DEF KeySymbol
  <2>. QED  BY <2>1, <2>2, <2>3, <2>4 DEF Within, ink
<1>6. CASE KeyEnd
  <2>1. /\ parsing = "key" /\ (~ AtEnd => read = "=") /\ keyBuff # << >>
        /\ parsing' = "value" /\ keyBuff' = keyBuff /\ valueBuff' = valueBuff
    BY <1>6 DEF KeyEnd, read
  <2>2. /\ k < Len(user) /\ keyBuff = <<user[k + 1].key>>
        /\ valueBuff = << >> /\ ink = 4 * k + 1
    BY <2>1 DEF Within, ink
  <2>3. ~ AtEnd
    BY <1>1, <1>2, <2>2
  <2>4. more = 4 * k + 2
    BY <1>1, <1>2, <2>1, <2>2, <2>3, Separators
  <2>. QED  BY <1>4, <2>1, <2>2, <2>4 DEF Within
<1>7. CASE ValueSymbol
  <2>1. ~ AtEnd /\ read # Semicolon /\ parsing' = "value" /\ keyBuff' = keyBuff
        /\ valueBuff' = IF read = Space THEN valueBuff ELSE Append(valueBuff, read)
    BY <1>7 DEF ValueSymbol, Copied, read
  <2>2. k < Len(user) /\ keyBuff = <<user[k + 1].key>>
    BY <1>7 DEF ValueSymbol, Within
  <2>3. CASE valueBuff = << >> /\ ink = 4 * k + 2
    <3>1. CASE read = Space
      BY <1>2, <1>4, <2>1, <2>2, <2>3, <3>1 DEF Within
    <3>2. CASE read # Space
      <4>0. more = ink + 1 /\ read = Written(user, ink + 1)
        BY <1>2, <2>1, <3>2
      <4>1. more = 4 * k + 3 /\ read = user[k + 1].value
        <5>1. (4 * k + 2) + 1 = 4 * k + 3
          BY <1>1
        <5>. QED  BY <1>3, <2>3, <4>0, <5>1
      <4>2. valueBuff' = <<user[k + 1].value>>
        BY <2>1, <2>3, <3>2, <4>1
      <4>. QED  BY <1>4, <2>1, <2>2, <4>1, <4>2 DEF Within
    <3>. QED  BY <3>1, <3>2
  <2>4. CASE valueBuff = <<user[k + 1].value>> /\ ink = 4 * k + 3
    <3>1. read = Space
      BY <1>1, <1>2, <1>3, <2>1, <2>2, <2>4
    <3>. QED  BY <1>2, <1>4, <2>1, <2>2, <2>4, <3>1 DEF Within
  <2>. QED  BY <1>7, <2>3, <2>4 DEF ValueSymbol, Within, ink
<1>. QED  BY <1>5, <1>6, <1>7

\* A value ends behind its symbols, and the parser goes on to the next entry.
LEMMA ParserNext ==
    ASSUME HeldInv, NEW f \in PlainFilters, user = f.entries, filterStr = f.text,
           NEW k \in 0 .. Len(user), Within(k), UNCHANGED user, ValueEnd
    PROVE  /\ k < Len(user) /\ Within(k + 1)' /\ filter' = Entered
           /\ keyBuff = <<user[k + 1].key>> /\ valueBuff = <<user[k + 1].value>>
<1>. DEFINE ink == Ink(filterStr, cursor)
            more == Ink(filterStr, cursor + 1)
            read == Symbol
<1>1. Len(user) \in Nat /\ cursor \in Nat /\ UNCHANGED filterStr
  BY FilterFacts DEF HeldInv, TypeOK, FilterTypeOK, ValueEnd
<1>2. /\ ink \in Nat
      /\ ~ AtEnd /\ read = Space => more = ink
      /\ ~ AtEnd /\ read # Space =>
            more = ink + 1 /\ ink + 1 <= 4 * Len(user) /\ read = Written(user, ink + 1)
      /\ AtEnd => ink \in {4 * Len(user) - 1, 4 * Len(user)}
  BY <1>1, SymbolRead
<1>3. /\ parsing = "value" /\ (~ AtEnd => read = Semicolon)
      /\ valueBuff # << >> => cursor' = cursor + 1 /\ filter' = Entered
      /\ parsing' = "key" /\ keyBuff' = << >> /\ valueBuff' = << >>
  BY DEF ValueEnd
<1>4. Ink(filterStr, cursor)' = Ink(filterStr, cursor')
  BY <1>1 DEF Ink
<1>. HIDE DEF ink, more, read
<1>5. k < Len(user) /\ keyBuff = <<user[k + 1].key>>
  BY <1>3 DEF Within
<1>6. valueBuff = <<user[k + 1].value>> /\ ink = 4 * k + 3
  <2>1. CASE valueBuff = << >> /\ ink = 4 * k + 2
    <3>1. ~ AtEnd
      BY <1>1, <1>2, <1>5, <2>1
    <3>2. read = Written(user, 4 * k + 3)
      BY <1>1, <1>2, <1>3, <2>1, <3>1, Separators
    <3>3. read = user[k + 1].value
      <4>1. k \in Nat
        BY <1>1
      <4>. QED  BY <3>2, <4>1, WrittenProperties
    <3>4. user[k + 1] \in Entries
      BY <1>1, <1>5, FilterFacts
    <3>5. read # Semicolon
      BY <3>3, <3>4, EntryWords
    <3>. QED  BY <1>3, <3>1, <3>5
  <2>. QED  BY <1>3, <2>1 DEF Within, ink
<1>7. cursor' = cursor + 1 /\ filter' = Entered
  BY <1>3, <1>6
<1>8. CASE ~ AtEnd
  <2>1. more = 4 * (k + 1)
    BY <1>1, <1>2, <1>3, <1>6, <1>8, Separators
  <2>2. Ink(filterStr, cursor)' = 4 * (k + 1)
    BY <1>4, <1>7, <2>1 DEF more
  <2>. QED  BY <1>3, <1>5, <1>6, <1>7, <2>2 DEF Within
<1>9. CASE AtEnd
  <2>1. k + 1 = Len(user)
    BY <1>1, <1>2, <1>5, <1>6, <1>9
  <2>2. AtEnd'
    BY <1>1, <1>7, <1>9, FilterFacts DEF AtEnd
  <2>. QED  BY <1>3, <1>5, <1>6, <1>7, <2>1, <2>2 DEF Within
<1>. QED  BY <1>8, <1>9

\* The parser stops nowhere but behind the last entry.
LEMMA ParserStops ==
    ASSUME HeldInv, NEW f \in PlainFilters, user = f.entries, filterStr = f.text,
           NEW k \in 0 .. Len(user), Within(k), ParseEnd
    PROVE  k = Len(user)
<1>. DEFINE ink == Ink(filterStr, cursor)
            read == Symbol
<1>1. Len(user) \in Nat /\ cursor \in Nat
  BY FilterFacts DEF HeldInv, TypeOK, FilterTypeOK
<1>2. /\ ink \in Nat
      /\ ~ AtEnd /\ read # Space => ink + 1 <= 4 * Len(user) /\ read = Written(user, ink + 1)
      /\ AtEnd => ink \in {4 * Len(user) - 1, 4 * Len(user)}
  BY <1>1, SymbolRead
<1>3. parsing = "key" /\ (~ AtEnd => read = "=") /\ keyBuff = << >>
  BY DEF ParseEnd
<1>. HIDE DEF ink, read
<1>4. SUFFICES ASSUME ink = 4 * k PROVE k = Len(user)
  BY <1>3 DEF Within, ink
<1>5. CASE AtEnd
  BY <1>1, <1>2, <1>4, <1>5
<1>6. CASE ~ AtEnd
  <2>1. k < Len(user) /\ read = Written(user, 4 * k + 1)
    BY <1>1, <1>2, <1>3, <1>4, <1>6, Separators
  <2>2. user[k + 1] \in Entries /\ read = user[k + 1].key
    BY <1>1, <2>1, FilterFacts, WrittenProperties
  <2>. QED  BY <1>3, <1>6, <2>2, EntryWords
<1>. QED  BY <1>5, <1>6

\* What is in the filter is about the filter only.
LEMMA EnteredFrame ==
    ASSUME NEW k, EnteredUpTo(k), UNCHANGED <<user, filter>>
    PROVE  EnteredUpTo(k)'
BY DEF EnteredUpTo, Meant, NoFilter, AnyValue

LEMMA ParserTurn ==
    ASSUME HeldInv, ParserInv, ParseFilter
    PROVE  ParserInv'
<1>0. UNCHANGED plain
  BY DEF ParseFilter
<1>. SUFFICES ASSUME plain PROVE ParserInv'
  BY <1>0 DEF ParserInv
<1>1. UNCHANGED user /\ ParseStep /\ parsing \in {"key", "value"}
  BY DEF ParseFilter, ParseStep, KeySymbol, KeyEnd, ValueSymbol, ValueEnd, ParseEnd
<1>2. PICK f \in PlainFilters : user = f.entries /\ filterStr = f.text
  BY <1>1 DEF ParserInv
<1>3. PICK k \in 0 .. Len(user) : Within(k) /\ EnteredUpTo(k)
  BY <1>1 DEF ParserInv
<1>4. Len(user) \in Nat /\ user \in {g.entries : g \in PlainFilters}
  BY <1>2, FilterFacts
<1>5. CASE KeySymbol \/ KeyEnd \/ ValueSymbol
  <2>1. Within(k)'
    BY <1>1, <1>2, <1>3, <1>5, ParserWithin
  <2>2. UNCHANGED <<filterStr, filter>> /\ parsing' \in {"key", "value"}
    BY <1>1, <1>5 DEF KeySymbol, KeyEnd, ValueSymbol
  <2>3. EnteredUpTo(k)'
    BY <1>1, <1>3, <2>2, EnteredFrame
  <2>. QED  BY <1>1, <1>2, <1>4, <2>1, <2>2, <2>3 DEF ParserInv
<1>6. CASE ValueEnd
  <2>1. /\ k < Len(user) /\ Within(k + 1)' /\ filter' = Entered
        /\ keyBuff = <<user[k + 1].key>> /\ valueBuff = <<user[k + 1].value>>
    BY <1>1, <1>2, <1>3, <1>6, ParserNext
  <2>2. k \in 0 .. Len(user) - 1 /\ k + 1 \in 0 .. Len(user)
    BY <1>4, <2>1
  <2>3. EnteredUpTo(k + 1)'
    BY <1>1, <1>2, <1>3, <2>1, <2>2, EnteredOneMore
  <2>4. UNCHANGED filterStr /\ parsing' = "key"
    BY <1>6 DEF ValueEnd
  <2>. QED  BY <1>1, <1>2, <1>4, <2>1, <2>2, <2>3, <2>4 DEF ParserInv
<1>7. CASE ParseEnd
  <2>1. k = Len(user)
    BY <1>2, <1>3, <1>7, ParserStops
  <2>2. UNCHANGED filter /\ parsing' = "done"
    BY <1>7 DEF ParseEnd
  <2>3. EnteredUpTo(Len(user))'
    BY <1>1, <1>3, <2>1, <2>2, EnteredFrame
  <2>. QED  BY <1>1, <1>4, <2>2, <2>3 DEF ParserInv
<1>. QED  BY <1>1, <1>5, <1>6, <1>7 DEF ParseStep

LEMMA CreateReaderParser ==
    ASSUME CreateReader
    PROVE  ParserInv'
<1>0. SUFFICES ASSUME plain' PROVE ParserInv'
  BY DEF ParserInv
<1>1. PICK f \in PlainFilters : user' = f.entries /\ ParseStart(f.text)
  BY <1>0 DEF CreateReader, PlainFilters
<1>2. /\ parsing' = "key" /\ filterStr' = f.text /\ cursor' = 0
      /\ keyBuff' = << >> /\ valueBuff' = << >> /\ filter' = NoFilter
  BY <1>1 DEF ParseStart
<1>3. f.text \in Seq(STRING) /\ Len(f.text) \in Nat /\ Len(f.entries) \in Nat
  BY FilterFacts
<1>4. Ink(filterStr, cursor)' = 0
  <2>1. Ink(f.text, 0) = 0
    BY <1>3, InkProperties
  <2>. QED  BY <1>2, <2>1 DEF Ink
<1>5. Within(0)'
  BY <1>2, <1>4 DEF Within
<1>6. EnteredUpTo(0)'
  BY <1>2 DEF EnteredUpTo, NoFilter, AnyValue
<1>7. 0 \in 0 .. Len(user)'
  BY <1>1, <1>3
<1>. QED  BY <1>1, <1>2, <1>5, <1>6, <1>7 DEF ParserInv

LEMMA ParserNextStep == HeldInv /\ ParserInv /\ [Next]_vars => ParserInv'
<1>. SUFFICES ASSUME HeldInv, ParserInv, [Next]_vars PROVE ParserInv'
  OBVIOUS
<1>1. CASE CreateReader
  BY <1>1, CreateReaderParser
<1>2. CASE ParseFilter
  BY <1>2, ParserTurn
<1>3. CASE UNCHANGED <<user, plain, parser>>
  <2>1. \A k : Within(k)' <=> Within(k)
    BY <1>3 DEF Within, Ink, AtEnd, parser
  <2>2. \A k : EnteredUpTo(k)' <=> EnteredUpTo(k)
    BY <1>3 DEF EnteredUpTo, Meant, NoFilter, AnyValue, parser
  <2>. QED  BY <1>3, <2>1, <2>2 DEF ParserInv, parser
<1>4. CASE Receive \/ UNCHANGED vars
  BY <1>3, <1>4 DEF Receive, vars, reading
<1>5. ASSUME NEW w \in Writers, WriteStart(w) \/ WriteStep(w) PROVE ParserInv'
  <2>1. UNCHANGED reading
    BY <1>5 DEF WriteStart, WriteStep, ConvertOK, ConvertError, SendNowhere, SendWrite, SendCall,
                SendNoType, WriteNext, WriteError, WriteEnd
  <2>. QED  BY <1>3, <2>1 DEF reading
<1>. QED  BY <1>1, <1>2, <1>4, <1>5 DEF Next

LEMMA ParserAlways == Spec => []ParserInv
<1>1. Init => ParserInv
  BY DEF Init, ParseInit, ParserInv
<1>. QED  BY <1>1, HeldAlways, ParserNextStep, PTL DEF Spec

\* An entry selects an APDU by the part of the filter it sets.
LEMMA SelectedMeant ==
    ASSUME NEW e \in Entries, AsMeant(e), NEW a \in Incoming
    PROVE  Selected(e, a) <=> Meant(e) = NoFilter[e.key] \/ a[e.key] = Meant(e)
<1>1. \A w \in DOMAIN Decimal : Decimal[w] \in Nat
  BY NumberAssumption
<1>2. CASE e.key \in {"src", "dest"} /\ e.value = ANY
  <2>1. Meant(e) = -1
    BY <1>2, NumberAssumption DEF Meant
  <2>. QED  BY <1>2, <2>1 DEF Selected, NoFilter, AnyValue
<1>3. CASE e.key \in {"src", "dest"} /\ e.value # ANY
  <2>1. e.value \in DOMAIN Decimal
    BY <1>3 DEF Entries
  <2>2. Meant(e) = Decimal[e.value] /\ Decimal[e.value] # -1
    BY <1>1, <1>3, <2>1 DEF AsMeant, Meant
  <2>. QED  BY <1>3, <2>1, <2>2 DEF Selected, NoFilter, AnyValue
<1>4. CASE e.key = "type"
  <2>1. e.value \in {"request", "response", ANY}
    BY <1>4 DEF Entries, AsMeant
  <2>. QED  BY <1>4, <2>1 DEF Selected, Meant, NoFilter, ANY
<1>. QED  BY <1>2, <1>3, <1>4, EntryWords DEF Keys

\* The filter of a reader, once parsed, passes the APDUs that all the entries of its
\* text select, whatever the order of the entries and the spaces between them, if the
\* text keeps to what the parser knows: the manual's grammar allows more
\* (DNP3Reader_parseFilter, DNP3Reader_filter).
THEOREM RouteFiltersAsWritten == Spec => []PlainFilterAsWritten
<1>1. ASSUME HeldInv, ParserInv, plain, parsing = "done", NEW a \in Incoming
      PROVE  Passes(a) <=> \A k \in DOMAIN user : Selected(user[k], a)
  <2>1. PICK f \in PlainFilters : user = f.entries
    BY <1>1 DEF ParserInv
  <2>2. /\ DOMAIN user = 1 .. Len(user)
        /\ \A k \in DOMAIN user : user[k] \in Entries /\ AsMeant(user[k]) /\ user[k].key \in Keys
    BY <2>1, FilterFacts, EntryWords
  <2>3. EnteredUpTo(Len(user))
    BY <1>1 DEF ParserInv
  <2>4. Passes(a) <=> \A key \in Keys : filter[key] = NoFilter[key] \/ a[key] = filter[key]
    BY DEF Passes, Keys, NoFilter
  <2>5. \A k \in DOMAIN user :
           Selected(user[k], a)
             <=> LET key == user[k].key IN filter[key] = NoFilter[key] \/ a[key] = filter[key]
    BY <2>2, <2>3, SelectedMeant DEF EnteredUpTo
  <2>6. \A key \in Keys : filter[key] = NoFilter[key] \/ \E k \in DOMAIN user : user[k].key = key
    BY <2>2, <2>3 DEF EnteredUpTo
  <2>. QED  BY <2>2, <2>4, <2>5, <2>6
<1>2. HeldInv /\ ParserInv => PlainFilterAsWritten
  BY <1>1 DEF PlainFilterAsWritten, FilterAsWritten
<1>. QED  BY <1>2, HeldAlways, ParserAlways, PTL

-----------------------------------------------------------------------------
(* The sixth part: a write goes on.  That it ends is a matter of fairness,  *)
(* and of TLC; that no turn of its loop leaves as much to do is not.       *)

\* How much of a batch a thread has left: the samples, and of each what follows.
PhaseLeft(w) == CASE pc[w] = "convert" -> 4 [] pc[w] = "send" -> 3 [] pc[w] = "call" -> 2
                  [] OTHER -> 1
WorkLeft(w) == IF pc[w] = "idle" THEN 0 ELSE 4 * (Len(batch[w]) - i[w]) + PhaseLeft(w)

LEMMA WorkFacts ==
    ASSUME HeldInv, NEW w \in Writers
    PROVE  /\ WorkLeft(w) \in Nat /\ PhaseLeft(w) \in 1 .. 4
           /\ Len(batch[w]) \in Nat /\ i[w] \in Int
           /\ pc[w] # "idle" => i[w] <= Len(batch[w]) /\ WorkLeft(w) > 0
<1>1. Len(batch[w]) \in Nat /\ i[w] \in Int
  BY HeldFacts DEF HeldInv, TypeOK
<1>2. pc[w] # "idle" => i[w] \in 0 .. Len(batch[w])
  BY DEF HeldInv, LoopRight
<1>3. PhaseLeft(w) \in 1 .. 4
  BY DEF PhaseLeft
<1>. HIDE DEF PhaseLeft
<1>. QED  BY <1>1, <1>2, <1>3 DEF WorkLeft

\* The steps on one sample.
LEMMA SampleWorked ==
    ASSUME HeldInv, NEW w \in Writers,
           \/ ConvertOK(w) \/ ConvertError(w)
           \/ SendNowhere(w) \/ SendWrite(w) \/ SendCall(w) \/ SendNoType(w)
    PROVE  WorkLeft(w)' \in Int /\ WorkLeft(w)' < WorkLeft(w)
<1>1. batch'[w] = batch[w] /\ i'[w] = i[w]
  BY DEF ConvertOK, ConvertError, SendNowhere, SendWrite, SendCall, SendNoType
<1>2. /\ pc[w] # "idle" /\ pc'[w] # "idle"
      /\ \/ pc[w] = "convert" /\ pc'[w] \in {"send", "finalize"}
         \/ pc[w] = "send" /\ pc'[w] \in {"call", "finalize"}
         \/ pc[w] = "call" /\ pc'[w] = "finalize"
  BY DEF ConvertOK, ConvertError, SendNowhere, SendWrite, SendCall, SendNoType, SendReturns,
         HeldInv, TypeOK
<1>3. PhaseLeft(w)' < PhaseLeft(w)
  BY <1>2 DEF PhaseLeft
<1>4. PhaseLeft(w)' \in Int /\ PhaseLeft(w) \in Int
  BY DEF PhaseLeft
<1>. DEFINE n == 4 * (Len(batch[w]) - i[w])
<1>5. n \in Int
  BY WorkFacts
<1>6. WorkLeft(w) = n + PhaseLeft(w) /\ WorkLeft(w)' = n + PhaseLeft(w)'
  BY <1>1, <1>2 DEF WorkLeft
<1>. HIDE DEF n
<1>. QED  BY <1>3, <1>4, <1>5, <1>6

\* The end of a sample, and of the batch.
LEMMA LoopWorked ==
    ASSUME HeldInv, NEW w \in Writers, WriteNext(w) \/ WriteError(w) \/ WriteEnd(w)
    PROVE  WorkLeft(w)' \in Int /\ WorkLeft(w)' < WorkLeft(w)
<1>1. CASE WriteError(w) \/ WriteEnd(w)
  <2>1. pc[w] # "idle" /\ pc'[w] = "idle"
    BY <1>1 DEF WriteError, WriteEnd, HeldInv, TypeOK
  <2>2. WorkLeft(w)' = 0
    BY <2>1 DEF WorkLeft
  <2>. QED  BY <2>1, <2>2, WorkFacts
<1>2. CASE WriteNext(w)
  <2>1. /\ pc[w] = "finalize" /\ pc'[w] = "convert" /\ i'[w] = i[w] + 1
        /\ batch'[w] = batch[w]
    BY <1>2 DEF WriteNext, HeldInv, TypeOK
  <2>2. PhaseLeft(w) = 1 /\ PhaseLeft(w)' = 4
    BY <2>1 DEF PhaseLeft
  <2>3. /\ WorkLeft(w) = 4 * (Len(batch[w]) - i[w]) + 1
        /\ WorkLeft(w)' = 4 * (Len(batch[w]) - (i[w] + 1)) + 4
    BY <2>1, <2>2 DEF WorkLeft
  <2>. DEFINE n == Len(batch[w])
              at == i[w]
  <2>4. n \in Int /\ at \in Int
    BY WorkFacts
  <2>5. WorkLeft(w) = 4 * (n - at) + 1 /\ WorkLeft(w)' = 4 * (n - (at + 1)) + 4
    BY <2>3
  <2>. HIDE DEF n, at
  <2>. QED  BY <2>4, <2>5
<1>. QED  BY <1>1, <1>2

\* Whatever the other threads, the reader and DDS do, the work of a write in hand
\* never grows, and every step of its thread leaves less of it: the loop of
\* DNP3StreamWriter_write circles on no batch, with samples that convert or not,
\* are sent, refused, or for nobody.
THEOREM WritesNeverCircle ==
    Spec => /\ [](\A w \in Writers : WorkLeft(w) \in Nat)
            /\ [][\A w \in Writers : /\ WriteStep(w) => WorkLeft(w)' < WorkLeft(w)
                                     /\ pc[w] # "idle" => WorkLeft(w)' <= WorkLeft(w)]_vars
<1>1. ASSUME HeldInv, NEW w \in Writers, WriteStep(w)
      PROVE  WorkLeft(w)' \in Int /\ WorkLeft(w)' < WorkLeft(w)
  BY <1>1, SampleWorked, LoopWorked DEF WriteStep
<1>2. ASSUME HeldInv, Next, NEW w \in Writers, pc[w] # "idle"
      PROVE  WorkLeft(w)' <= WorkLeft(w)
  <2>1. CASE UNCHANGED <<pc[w], batch[w], i[w]>>
    <3>1. WorkLeft(w)' = WorkLeft(w)
      BY <2>1 DEF WorkLeft, PhaseLeft
    <3>. QED  BY <1>2, <3>1, WorkFacts
  <2>2. CASE CreateReader \/ ParseFilter \/ Receive
    BY <2>1, <2>2 DEF CreateReader, ParseFilter, Receive, thread
  <2>3. ASSUME NEW v \in Writers, WriteStart(v) \/ WriteStep(v)
        PROVE  WorkLeft(w)' <= WorkLeft(w)
    <3>1. CASE v # w
      BY <1>2, <2>1, <2>3, <3>1, OthersKeep
    <3>2. CASE v = w
      <4>1. WriteStep(w)
        BY <1>2, <2>3, <3>2 DEF WriteStart
      <4>2. WorkLeft(w)' \in Int /\ WorkLeft(w)' < WorkLeft(w) /\ WorkLeft(w) \in Nat
        BY <1>1, <1>2, <4>1, WorkFacts
      <4>. QED  BY <4>2
    <3>. QED  BY <3>1, <3>2
  <2>. QED  BY <1>2, <2>2, <2>3 DEF Next
<1>3. HeldInv /\ [Next]_vars =>
          [\A w \in Writers : /\ WriteStep(w) => WorkLeft(w)' < WorkLeft(w)
                              /\ pc[w] # "idle" => WorkLeft(w)' <= WorkLeft(w)]_vars
  BY <1>1, <1>2
<1>4. HeldInv => \A w \in Writers : WorkLeft(w) \in Nat
  BY WorkFacts
<1>. QED  BY <1>3, <1>4, HeldAlways, PTL DEF Spec
=============================================================================
