---------------------------- MODULE MCConfigFile ----------------------------
(* Instance of ConfigExtract, and so of ConfigFile, for TLC.               *)
EXTENDS ConfigExtract

MCDecimal == [n \in 0 .. 3 |-> ToString(n)]

\* Words of identifiers: those that begin one, and those that continue one.
MCLetters == {"a", "b", "n", "t", "r", "x", "proxy-", "P", "Q", "L", "M"}
MCDigits == {"0", "1", "2", "3", "-", "-is-master", "-address", "-log-level", "-phys-port-",
             "-connection-", "-type", "-timeout", "-port"}
            \cup PortSettings("serial") \cup ConnectionSettings
MCSymbols == MCLetters \cup MCDigits \cup Blanks \cup DOMAIN Punctuation
    \cup {"\"", "\\", "/", "*", "#", "NUL", "0x1", "0x2", "0x3", "old", "ser", "server", "tcp", "warn",
       "even", "none"}
MCHexSymbol == [p \in MCSymbols \X MCSymbols |-> IF p = <<"0", "0">> THEN NUL ELSE "a"]

MCNumeric == "0x1" :> 1 @@ "0x2" :> 2 @@ "0x3" :> 3
MCSpells == {<<"ser", "serial">>, <<"ser", "server">>, <<"server", "server">>,
             <<"warn", "WARNING">>, <<"even", "even">>, <<"even", "EVENT">>, <<"none", "none">>}
MCSpelling == "serial" :> "ser" @@ "server" :> "server" @@ "unknown" :> "tcp"
    @@ "WARNING" :> "warn" @@ "even" :> "even" @@ "none" :> "none"

-----------------------------------------------------------------------------
A == <<"a">>
B == <<"b", "1">>
Is(key, string) == Statement(key, String(string))

\* Escapes, a NUL, an empty string and a comment in strings; nested lists and maps,
\* empty ones and a key that is there twice.
Strings == <<Is(A, <<"a", "\"", "\n", "\\">>), Is(B, <<NUL, "b">>), Is(A, <<"/", "*">>), Is(B, << >>)>>
Nested == <<Statement(A, List(<<List(<<String(A), String(B)>>), Map(<<Is(B, A)>>), String(B)>>)),
            Statement(A, Map(<<Is(A, B), Statement(B, List(<<String(A)>>))>>))>>
Empty == <<Statement(A, List(<< >>)), Statement(B, Map(<< >>)), Is(A, B)>>
Deep == <<Statement(A, Map(<<Statement(B, List(<<List(<<Map(<<Is(A, A)>>)>>)>>))>>)), Is(B, B)>>

Port(name, type, config) == [name |-> name, type |-> type, timeout |-> 1, config |-> config]
Connection(remote, port) ==
    [remote |-> remote, settings |-> [s \in ConnectionSettings |-> IF s = "-phys-port" THEN port ELSE remote]]
Serial == Port(<<"L">>, "serial", [s \in PortSettings("serial") |->
    CASE s = "-device" -> <<"a">> [] s = "-flow-type" -> "none" [] s = "-parity" -> "even" [] OTHER -> 2])
Server == Port(<<"M">>, "server", "-address" :> <<"b">> @@ "-port" :> 3)
Unknown == Port(<<"L">>, "unknown", << >>)
Proxy(name, addr, ports) == [name |-> name, isMaster |-> 1, localAddr |-> addr, logLevel |-> "WARNING", ports |-> ports]

MCConfigs ==
    {<<[proxy |-> Proxy(<<"P">>, 1, <<Serial, Server>>),
        connections |-> <<Connection(2, <<"L">>), Connection(3, <<"M">>)>>],
       [proxy |-> Proxy(<<"Q">>, 2, << >>), connections |-> <<Connection(3, <<"M">>)>>]>>,
     <<[proxy |-> Proxy(<<"P">>, 1, <<Unknown, Server>>), connections |-> << >>]>>}

MCWritten == {Strings, Nested, Empty, Deep}
MCDocuments == MCWritten \cup {<< >>} \cup {ConfigDocument(c) : c \in MCConfigs}
=============================================================================
