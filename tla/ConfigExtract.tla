--------------------------- MODULE ConfigExtract ---------------------------
(***************************************************************************)
(* From the map of a configuration file to the entries that loadConfig     *)
(* creates proxies and connections of (the RTIDNP3_ExtConfig_extract       *)
(* functions), and to the ports that a proxy opens.  LoadConfig begins     *)
(* where this module ends: its files are sequences of such entries.        *)
(*                                                                         *)
(* The configurations here miss no key that is converted: a missing one    *)
(* ends the program, see LoadConfig.                                       *)
(***************************************************************************)
EXTENDS ConfigDocuments

CONSTANTS
    Decimal,   \* what sprintf makes of a number: a function on 0 .. some bound
    Numeric,   \* what strtol makes of the words that are numbers
    Spells,    \* strncasecmp: the pairs of a word and a name it is taken for
    Spelling,  \* how users write the names: a word for each
    Configs    \* the configurations, in the form that ExtractFile gives them

Key(parts) == <<Word(parts)>>
Get(map, name, suffix) == Map_get(map, Key(name \o suffix))
Strtol(value) == IF value # << >> /\ Head(value) \in DOMAIN Numeric THEN Numeric[Head(value)] ELSE 0

\* All the fromString functions: the first name of which the value is a beginning,
\* or that is one of the value; an empty value is the first name.
FromString(value, names, none) ==
    LET matches == {k \in DOMAIN names : value = << >> \/ <<Head(value), names[k]>> \in Spells}
    IN  IF value = NoValue \/ matches = {} THEN none
        ELSE names[CHOOSE k \in matches : \A j \in matches : k <= j]

LogLevels == <<"EVENT", "ERROR", "WARNING", "INFO", "INTERPRET", "COMM", "DEBUG">>

\* The loops over numbered keys end at the first number that is missing.
CountUp(map, prefix) ==
    CHOOSE n \in DOMAIN Decimal :
        /\ Get(map, prefix, <<Decimal[n]>>) = NoValue
        /\ \A k \in 0 .. n - 1 : Get(map, prefix, <<Decimal[k]>>) # NoValue

-----------------------------------------------------------------------------
PortSettings(type) ==
    CASE type = "serial" -> {"-baud", "-data-bits", "-device", "-flow-type", "-parity", "-stop-bits"}
      [] type \in {"server", "client"} -> {"-address", "-port"}

PortSetting(suffix, value) ==
    CASE suffix \in {"-device", "-address"} -> value
      [] suffix = "-flow-type" -> FromString(value, <<"none", "hardware", "xonxoff">>, "none")
      [] suffix = "-parity" -> FromString(value, <<"none", "even", "odd">>, "none")
      [] suffix \in {"-baud", "-data-bits", "-stop-bits", "-port"} -> Strtol(value)

\* A port, under the name that the key of the proxy gives it.  For an unknown type
\* the settings are never allocated, and garbage is freed when the entry is.
ExtractPort(map, proxyName, n) ==
    LET name == Get(map, proxyName, <<"-phys-port-", Decimal[n]>>)
        type == FromString(Get(map, name, <<"-type">>), <<"serial", "server", "client">>, "unknown")
    IN  [name |-> name, type |-> type, timeout |-> Strtol(Get(map, name, <<"-timeout">>)),
         config |-> IF type = "unknown" THEN << >>
                    ELSE [s \in PortSettings(type) |-> PortSetting(s, Get(map, name, <<s>>))]]

ConnectionSettings ==
    {"-timeout-app", "-timeout-link", "-frag-size", "-retries", "-phys-port", "-use-confirms"}

\* The keys of a connection have the remote address in decimal, however it is written.
ExtractConnection(map, proxyName, n) ==
    LET remote == Strtol(Get(map, proxyName, <<"-connection-", Decimal[n]>>))
    IN  [remote |-> remote,
         settings |-> [s \in ConnectionSettings |->
            LET value == Get(map, proxyName, <<"-", Decimal[remote], s>>)
            IN  IF s = "-phys-port" THEN value ELSE Strtol(value)]]

ExtractProxy(map, n) ==
    LET name == Get(map, <<"proxy-">>, <<Decimal[n]>>)
    IN  [name |-> name,
         isMaster |-> Strtol(Get(map, name, <<"-is-master">>)),
         localAddr |-> Strtol(Get(map, name, <<"-address">>)),
         logLevel |-> FromString(Get(map, name, <<"-log-level">>), LogLevels, "NONE"),
         ports |-> [k \in 1 .. CountUp(map, Append(name, "-phys-port-")) |-> ExtractPort(map, name, k - 1)]]

\* The extraction in the two loops of loadConfig.
ExtractFile(map) ==
    [n \in 1 .. CountUp(map, <<"proxy-">>) |->
        LET proxy == ExtractProxy(map, n - 1)
        IN  [proxy |-> proxy,
             connections |-> [k \in 1 .. CountUp(map, Append(proxy.name, "-connection-")) |->
                                ExtractConnection(map, proxy.name, k - 1)]]]

\* Proxy::CreatePhysicalConnections: ports of an unknown type are left out.
OpenedPorts(proxy) == SelectSeq(proxy.ports, LAMBDA p : p.type # "unknown")

-----------------------------------------------------------------------------
(* How users write a configuration: a statement for each setting.          *)

Number(n) == <<CHOOSE w \in DOMAIN Numeric : Numeric[w] = n>>
Name(name) == <<Spelling[name]>>
Setting(key, value) == Statement(key, String(value))

\* The statements of the settings f of name; suffixes in strings hold their value.
Settings(name, f) ==
    Joined([k \in 1 .. Cardinality(DOMAIN f) |->
        LET s == SetToSeq(DOMAIN f)[k]
        IN  <<Setting(Append(name, s),
                CASE s \in {"-device", "-address", "-phys-port"} -> f[s]
                  [] s \in {"-flow-type", "-parity"} -> Name(f[s])
                  [] OTHER -> Number(f[s]))>>])

PortStatements(proxyName, n, p) ==
    <<Setting(proxyName \o <<"-phys-port-", Decimal[n]>>, p.name),
      Setting(Append(p.name, "-type"), Name(p.type)),
      Setting(Append(p.name, "-timeout"), Number(p.timeout))>> \o Settings(p.name, p.config)

ConnectionStatements(proxyName, n, c) ==
    <<Setting(proxyName \o <<"-connection-", Decimal[n]>>, Number(c.remote))>>
        \o Settings(proxyName \o <<"-", Decimal[c.remote]>>, c.settings)

EntryStatements(n, e) ==
    <<Setting(<<"proxy-", Decimal[n]>>, e.proxy.name),
      Setting(Append(e.proxy.name, "-is-master"), Number(e.proxy.isMaster)),
      Setting(Append(e.proxy.name, "-address"), Number(e.proxy.localAddr)),
      Setting(Append(e.proxy.name, "-log-level"), Name(e.proxy.logLevel))>>
    \o Joined([k \in DOMAIN e.proxy.ports |->
                     PortStatements(e.proxy.name, k - 1, e.proxy.ports[k])])
    \o Joined([k \in DOMAIN e.connections |->
                     ConnectionStatements(e.proxy.name, k - 1, e.connections[k])])

\* A file of a configuration, in which every setting has an older value above it.
ConfigDocument(config) ==
    LET sts == Joined([n \in DOMAIN config |-> EntryStatements(n - 1, config[n])])
    IN  [k \in DOMAIN sts |-> Setting(sts[k].key, <<"old">>)] \o Reverse(sts)

\* The files of the configurations.
ConfigTexts == {<<Text(ConfigDocument(config), "compact"), config>> : config \in Configs}

\* The entries the loader gets of a configuration file that is accepted are those
\* that were written, though what a statement refers to stands above it, and with the
\* later value of each setting that is there twice; and the ports that are opened are
\* those of a known type.
ExtractsAsWritten ==
    pc = "done" /\ status = "ok" =>
        \A written \in ConfigTexts :
            file = written[1] =>
                /\ ExtractFile(configMap) = written[2]
                /\ \A n \in DOMAIN written[2] : \A p \in Range(written[2][n].proxy.ports) :
                      p \in Range(OpenedPorts(ExtractFile(configMap)[n].proxy))
                          <=> p.type \in {"serial", "server", "client"}
=============================================================================
