------------------------------ MODULE MCRoute ------------------------------
(* Instance of Route for TLC.                                              *)
EXTENDS Route

\* Shorts are -2 .. 1: the addresses 2 and 3 are negative as a short.  The two
\* connections join the same addresses in both directions.
MCDecimal == "1" :> 1 @@ "2" :> 2 @@ "03" :> 3 @@ "08" :> 8
MCNumber == [w \in {"1", "2", "03"} |-> MCDecimal[w]] @@ "08" :> 0 @@ "-1" :> -1

MCLocalAddr == "a" :> 1 @@ "b" :> 3
MCRemoteAddr == "a" :> 3 @@ "b" :> 1

From(src, dest, type, size) ==
    [src |-> src, dest |-> dest, master |-> TRUE, type |-> type, buffer_size |-> size]

\* APDUs between the endpoints of a connection, of all types; one between others;
\* and one that is too large.
MCIncoming ==
    {From(1, 3, "REQUEST", 1), From(1, 3, "UNSOL_RESPONSE", 1), From(3, 1, "RESPONSE", 1),
     From(1, 2, "RESPONSE", 1), From(3, 1, "REQUEST", 2)}

Entry(key, value) == [key |-> key, value |-> value]

\* One filter that lets all through; the others select one APDU or two, by entries in
\* different orders.
MCEntries ==
    {<<Entry("src", "-1")>>,
     <<Entry("src", "1"), Entry("dest", "03"), Entry("type", "request")>>,
     <<Entry("type", "response"), Entry("src", "03"), Entry("dest", "1")>>,
     <<Entry("dest", "2"), Entry("type", "-1"), Entry("src", "1")>>}

\* Their texts: without blanks, with spaces around all symbols, without spaces but
\* with a ";" at the end, and with a line break before and after all.
Spelled(entries, style) ==
    LET gap == IF style \in {"spaced", "lines"} THEN <<" ">> ELSE << >>
        end == IF style = "lines" THEN <<"\n">> ELSE << >>
        text[k \in 0 .. Len(entries)] ==
            IF k = 0 THEN end
            ELSE text[k - 1] \o (IF k > 1 THEN <<";">> \o gap ELSE << >>)
                   \o gap \o <<entries[k].key>> \o gap \o <<"=">> \o gap \o <<entries[k].value>> \o gap
    IN  text[Len(entries)] \o (IF style = "closed" THEN <<";">> ELSE << >>) \o end

Filter(entries, style) == [entries |-> entries, text |-> Spelled(entries, style)]

\* The filter of the manual's example, which has line breaks; filters with a number
\* that strtol takes for octal, with the type that is not parsed, and with a key twice.
Example == Filter(<<Entry("src", "1"), Entry("dest", "03"), Entry("type", "response")>>, "lines")
NotPlain ==
    {Example, Filter(<<Entry("src", "08")>>, "spaced"),
     Filter(<<Entry("type", "unsol-response"), Entry("src", "1")>>, "compact"),
     Filter(<<Entry("src", "1"), Entry("src", "2")>>, "compact")}

MCFilters ==
    NotPlain \cup {Filter(entries, style) :
                      entries \in MCEntries, style \in {"compact", "spaced", "closed"}}
=============================================================================
