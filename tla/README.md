# TLA+ models of the DNP3 message bus and its Routing Service adapter

The repository has two programs' worth of code:

- `dnp3_message_bus`, a C++ library with a C API. A *bus* owns *proxies* (a
  local DNP3 address with its physical ports and an OpenDNP3 stack manager); a
  proxy owns *connections* (a remote DNP3 address, reached over one of the
  ports, with an APDU proxy stack). APDUs that the stacks receive are given to
  the *listeners* of the bus; `send` finds the connection for a pair of
  addresses and gives it an APDU.
- `rs_adapter`, a plugin of the RTI Routing Service. It has one bus; each
  Routing Service connection loads a configuration file into it; a stream
  reader is a listener that queues the APDUs that pass its filter; a stream
  writer sends.

Paths below are relative to the repository. `.cpp` files are in
`dnp3_message_bus/src`, `Utils.h` in `dnp3_message_bus/include/dnp3msgbus`,
`DNP3*.c` and `APDUConverter.cxx` in `rs_adapter/src/adapter`.

## 1. Inventory

| component | state | operations | what makes it correct |
|---|---|---|---|
| array macros (`Utils.h`, `Utils.cpp`) | slots, `currentSize`, capacity | add, remove by index, get, iterate, free deep | removing keeps the order of the rest; used by one thread at a time |
| bus registry (`MessageBus.cpp`, `MessageBusC.cpp`) | `proxies`, `connections` | new/delete proxy, new/delete connection, lookups, destructor | pointers lead to live objects; ids name their objects; agrees with the proxies' own arrays |
| proxy (`Proxy.cpp`) | its `connections`, ports, stack manager | new/delete connection, destructor | owns every stack it opened |
| connection (`Connection.cpp`) | its stack, `APDU` buffer | open and close the stack | the stack is open as long as the connection lives |
| loader (`MessageBusC.cpp:271-683`) | position in the file, `proxyId`, ids loaded | `loadConfig` | creates exactly what the file has and the bus has not; ends |
| dispatch (`MessageBus.cpp:204-232, 318-411`) | `listeners` | add and remove a listener, the three APDU callbacks | each listener sees each APDU, once; none is called after it was removed |
| send (`MessageBus.cpp:234-295`) | the connection's `APDU` | `Send` | the APDU given is the APDU sent; the result is that of the send |
| stream reader (`DNP3StreamReader.c`) | `apdus`, samples on loan | `onAPDU`, `read`, `returnLoan` | each APDU that passes is read once, in order; nothing leaks |
| reader filter (`DNP3StreamReader.c`) | addresses and type to let pass | parse the text, filter an APDU | selects what the user wrote |
| stream writer (`DNP3StreamWriter.c`) | none between calls | `write` | sends each sample once, in order; frees what it converts; counts no sample it gave up |
| converter (`APDUConverter.cxx:1269-1539`) | none | to DDS, to DNP3 | an APDU comes back as it was |
| configuration file parser (`lcfg_static.cpp`) | buffer, scanner, parser and its stack, key path, map | `lcfg_parse`, `lcfg_accept` with the visitor of the loader | no symbol lost over a refill; exactly documents are accepted; the map has the pairs they mean |
| adapter (`DNP3Adapter.c`, `DNP3Connection.c`) | the bus, ids per connection | create and delete plugin, connections, readers, writers | order of creation and deletion |
| testers (`MessageBusTester.c`, `DNP3Tester.cpp`) | | | clients of the library |
| outside: OpenDNP3, RTI Routing Service, DDS | | | |

How they interact: the adapter calls the bus through the C API, from the
threads of the Routing Service; OpenDNP3 calls the bus from one thread per
stack manager (so per proxy), and the bus calls the listeners, which are the
stream readers, in that thread; a reader calls `on_data_available` of the
Routing Service, which answers with `read` in a session thread. **No lock is
taken anywhere.** What is hard, then: ids that go stale when arrays compact, two
arrays of the same connections changed by different operations, stacks that are
open before the bus subscribes and after it has unsubscribed, destructors that
remove from the array they walk, a loader whose `proxyId` outlives its entry,
readers and an array of listeners used by several threads at once, writers that
share the APDU object of a connection, a cleanup path for each way a conversion
can fail, and a scanner whose tokens lie over the end of its buffer and whose
reads may fail. `PROJECT.json` lists each hazard at its line.

## 2. Modules

| module | models | correspondence |
|---|---|---|
| `Arrays` | the array macros | an array is the sequence of its used slots; indices from 0 as in the code |
| `MessageBus` | registry, proxies, connections | `proxies`, `connections` are the arrays; `proxy`, `conn` the objects ever allocated with their fields; `live` those not deleted; `stacks`, `listening` what OpenDNP3 keeps; `call` the creation or deletion of a connection that is half done |
| `Directory` | what the bus promises: a table of nodes and routes from which every lookup is answered | abstract |
| `LoadConfig` (extends `MessageBus`) | the loader and the plugin | the locals of `loadConfig`; a step per iteration of either loop, two if it creates a connection |
| `ReaderParameters` | the constants of a reader and what is assumed of them | shared by the two modules of a reader |
| `Mailbox` | what a reader promises | abstract |
| `StreamReader` | a reader; each array macro is a step | `apdus`, the locals of `read`, what the Routing Service was told |
| `RacingReader` | a reader; each load and store is a step | the slots, `currentSize`, a program counter per thread |
| `Listeners` | the constants of the listeners and what is assumed of them | shared by the two modules of the listeners |
| `Dispatch` | the callbacks of the bus and the creation and deletion of readers; each array macro is a step | `listeners`; the locals of a callback per stack; what was removed and deleted |
| `RacingDispatch` | the same; each access to the array is a step | the slots, `currentSize`, a program counter for the Routing Service and one per stack |
| `ReaderFilter` | parsing and applying a filter | the cursor, the two buffers and the filter that `parseFilter` fills; a step per turn of the loops over a key or a value, or what follows a loop; a text is a sequence of words, punctuation and blanks |
| `APDUConverter` | the two conversions in use | pure operators; shorts have the width `HalfShort` |
| `Route` (extends both) | reader, DDS, writers and bus together | per writer the locals of `write` and `Send`; `connAPDU` the APDU objects; `heap` the buffers of conversions |
| `ConfigFile` | buffer, scanner, parser and visitor | the fields of the three structures; a step per read and per turn of the loops of the scanner and the parser |
| `ConfigDocuments` | what a document means | reference: documents as trees, the files that spell them and the pairs they stand for |
| `ConfigExtract` | from the map to the entries that `LoadConfig` has | `extractProxyConfig` and the operations it calls, as operators over the map |
| `MessageBusProofs`, `LoadConfigProofs`, `StreamReaderProofs`, `RacingReaderProofs`, `DispatchProofs`, `RacingDispatchProofs`, `RouteProofs`, `ConfigFileProofs` | theorems | |
| `MC*` | values of the constants for TLC | |

`MessageBus` has two sets of clients. `Spec` lets a client pass any id it was
ever given, in any order. `RepositorySpec` has the clients in this repository:
the adapter only creates, and `MessageBusTester` closes and deletes, when it
fails, what it created last. Operations of the API do not overlap (callers of
this repository make them from one thread), but the creation and the deletion of
a connection are two steps each, since APDUs arrive meanwhile: its constructor
opens the stack (`NewConnection`) before the bus subscribes (`Subscribe`), and
the bus unsubscribes (`DeleteConnection`) before the proxy closes the stack
(`CloseStack`). Each iteration of the destructors' loops is a step, because what
the loops leave behind is the point. A proxy can have any set of ports, and a
connection any port, one its proxy lacks too: OpenDNP3 refuses the stack then,
and the bus calls a null pointer (the fault `unknownPort`). Undefined
behaviour (a freed object, a slot past the end, a null stack, a freed bus) sets
`fault` and ends the run of the program. Objects are allocated once: a freed
object is never handed out again, so a stale pointer is always visible.

`Directory` is what is left of the bus when its two records of the connections, its arrays
and its destructors are taken away: nodes (proxies) and routes (connections) known by their
positions, and four questions: which node does a name lead to (`getProxyId`), which pairs of
addresses does the loader take as existing (`getConnectionId`), for which can `Send` find a
connection (`GetConnection`), and from which do APDUs come in (the stacks the bus is subscribed
to). The last three have one answer, the table of routes, except that the route
in hand, whose creation or deletion is half done, can be sent to already, or
still. `ImplementsDirectory` maps the bus to
it: `Up`, `Nodes`, `Routes`, `Named`, `Found`, `Sendable` and `Heard` are the answers the code
would give in a state. From `BusDelete` on the directory is closed, and the steps of the
destructors are stutters.

A file in `LoadConfig` is a sequence of proxy entries with their connection
entries, as `extractProxyConfig` and `extractConnectionConfig` number them.
The keys of an entry are built from its name (and remote address), so two
entries with one name have one content: `Readable`. A missing key is the flag
`complete`. The registry actions are those of `MessageBus`.

`StreamReader` and `RacingReader` are the same code at two granularities.
`StreamReader` treats a use of an array macro as a step, which is what the code
does if macros never overlap. `RacingReader` has the accesses inside the macros:
under `SerialSpec`, where a thread inside a macro is not interrupted, it
implements `StreamReader` (so the macros' loops, loads and stores are right);
under `Spec`, which is the code, it does not, and loses APDUs.

`Dispatch` has the other side of a reader: the three callbacks of the bus, one
at a time per stack, walk `listeners` with an index, a step per test and fetch,
filter and call, while the Routing Service creates readers (appended) and
deletes them (removed from the array, then disposed of, two steps). The filter
is abstracted to the set of readers an APDU passes. `began` remembers what was
there when a callback began; the properties are about it.

`Dispatch` and `RacingDispatch` are again the same code at two granularities.
`Dispatch` takes a use of an array macro, and the test and fetch of a callback's
loop, for one step. That is the code **with a lock around each of them, which
it does not have**, and what `Dispatch` promises is promised under that lock
only. `RacingDispatch` has the single accesses: an addition counts its slot
before it writes it, a removal shifts slot by slot, the test and the fetch are
apart. Under `SerialSpec`, the lock, it implements `Dispatch`; under `Spec`,
which is the code, none of the three promises holds (finding 5), and a callback
may fetch the null pointer of a slot in which no reader was before (the fault
`nullListener`). Readers are added and removed one at a time there, though the
Routing Service may do it in several threads: two of those at once would break the
array further, as two stacks do in `RacingReader`.

`Route` composes the rest of the adapter: an APDU that a stack receives is
filtered (with the filter whose text `ReaderFilter` parses, turn by turn, before the
reader is a listener), converted, and
waits in DDS for the writers of some routes; each writer runs in a session
thread of its own, converts back, looks the connection up, writes its APDU
object (`SendWrite`) and calls the stack (`SendCall`), two steps with those of
other writers in between. The contents of an APDU are told apart by the number
of its arrival, so that a mix-up is visible. The text of a filter is any
that the manual's grammar has: blanks of any kind between the words, any NUM,
with what it means in decimal (`Decimal`) beside what `strtol` makes of it
(`Number`), any type, a key twice. `Plain` tells the texts that the parser reads as
written from those it does not. What happens between the callback
and the sample is one step: `Dispatch` and `StreamReader` are about it. Which
conversion fails is up to DDS (`ConvertError`).

`ConfigFile` is the way of a file to the map of strings the loader uses. A
symbol is a character, or a word of characters that the scanner treats alike
(it must not lie over the end of the buffer: tokens of several symbols do). The
components of a key path are kept apart instead of joined with dots. Any read
may fail (`ReadError`), which nothing in the code looks at: the model goes on as
the code does, with `size` at -1, up to `fault`, a look behind the buffer.
`ConfigDocuments` says independently, from the form of trees, which files are
documents and what they mean; `ConfigExtract` reads out of the map what
`LoadConfig` starts from, with all its settings.

## 3. Runs

| run | specification and instance | shows |
|---|---|---|
| `bus_any` | `Spec`; 2 proxies, 3 connections, 2 addresses | pointers in the arrays of live proxies and of the bus's proxies never dangle; no stack is orphaned while its proxy lives; `Send` picks only usable connections |
| `bus_repository` | `RepositorySpec`; 3 proxies, each with or without the port, 3 connections, 2 addresses, 1 name | with the repository's clients: ids resolve, the two records agree, an open stack is unheard only while its own creation or deletion is half done, no fault before the bus is deleted but that of an unknown port, and the bus implements `Directory`: the lookups of the loader, of `Send` and by name and the subscriptions answer from one table |
| `bus_stale_handle` (violation) | `Spec` | ids go stale when objects are deleted in another order |
| `bus_late_callback` (violation) | `RepositorySpec` | deleting a bus of two proxies leaves stacks calling it |
| `load_config` | `FairLoadSpec`; files of at most 2 of 7 entries, 3 proxies, 5 connections | a proxy of an earlier load loses nothing, and is not touched by entries for others; the ids returned are right, new proxies get their connections, loading what exists with all its connections creates nothing; every load ends or meets a fault |
| `load_additional` (violation) | `LoadSpec`, same files | connections added to an existing proxy are dropped or misplaced |
| `reader_mailbox` | `FairSpec` of `StreamReader`; 2 stacks, 4 APDUs of 2 kinds | no copy lost or freed twice, no lost wake-up, a mailbox; every APDU is read |
| `dispatch` | `Spec` of `Dispatch`; 2 stacks, 3 readers, each created once | with each use of an array macro as one step: no APDU is given twice to a reader, or to one removed before it came; a removal costs at most one other reader the APDU |
| `route` | `FairSpec` of `Route`; 2 writers, 2 connections, 5 kinds of APDUs, 4 filters in 3 styles and 4 that the parser gets wrong, 2 APDUs received | filters that keep to what the parser knows select what is written; APDUs reach the connection of their addresses, whole if the writer is alone on it, and are dropped only as the converter says; order, count and buffers on every path; every sample is handled |
| `config_file` | `FairSpec` of `ConfigFile` with `ConfigExtract`; buffer of 3 symbols, stack of 2, room for 1 value; documents in 3 styles, their prefixes and broken variants; any read may fail | no symbol lost or read twice; path and stack agree; exactly documents are accepted and mean what they say; the entries read out are those written; reading ends |
| `reader_race` (violation) | `Spec` of `RacingReader`; 3 APDUs | without a lock an APDU is lost |
| `dispatch_race` (violation) | `Spec` of `RacingDispatch`; 1 stack, 2 readers | without a lock what `dispatch` shows is lost: here, a reader is called for an APDU that came after it was removed |

Bounds. Stale ids need an object removed before another and one created after:
three connections and two proxies. In `bus_repository` all proxies share one
name: to which of them it leads is part of `Directory`, and the loader's run has
two names. One port suffices for proxies that have the port of a connection and
proxies that have not. The skipped iteration of a destructor needs two elements, and
three show that every other one is skipped. The loader's cases are pairs of
entries (same name, same address, connection already there, port not of the
proxy, missing key), over several loads in a row until the heap is used up:
`HeapSuffices` stops a load that could not be allocated. For a reader, four
APDUs let two wait, one arrive during a read and one after it; two kinds are one
that converts and one that does not (its buffer exceeds the bound of the DDS
type). A removal under the loop of a callback can touch the listener before its
index, at it, or after it: three readers have all three, and two stacks a
removal seen by one callback and not by another. In `RacingDispatch` stacks only
read the array, so one is enough, and two readers are for a slot that is used again. The array of a reader starts with 10 slots, so with at most
four APDUs it is never reallocated, nor is that of the listeners. In `route`, shorts are -2 .. 1, so that two of
the four addresses are negative as a short; the filters the parser gets wrong
have line breaks, an octal number, an unsolicited type and a key twice; the two connections have the same addresses in
opposite directions, so that swapping them leads to the wrong one; two writers
and two APDUs give a race on one APDU object, a batch of two, a batch that fails at either sample
and a batch after it; the APDUs have all three types, one fits no connection and one does not
fit in a sample. In `config_file`, a buffer of three symbols puts a refill inside every
kind of token; a stack of two and one value make both grow; nested lists
and maps go four deep; the broken files lack a token, have a wrong one or one too many
at any place. Symmetry sets are used only in
runs without liveness properties, over objects, names and addresses no definition tells apart
(`ImplementsDirectory` is a property of initial states and of steps).

`CHECK_DEADLOCK FALSE` is given to the runs of `MessageBus`, `LoadConfig`,
`Dispatch` and `RacingDispatch`, which stop when the bus is deleted or a fault was
met, to `route`, which stops when all APDUs of the bound are written, and to
`config_file`, which stops when the file is read or a fault was met. The readers run for ever
and deadlock is checked in their passing runs.

Fairness. `FairLoadSpec`: a thread in `loadConfig` keeps executing its loops
(they block on nothing). `FairSpec` of `StreamReader`: a thread that has entered
`onAPDU` or `read` finishes it, as neither blocks, and the Routing Service calls `read`
after `on_data_available`, its contract (external). `FairSpec` of `Route`: the session
thread of a route calls `write` when samples wait (external, what a session does) and
finishes what it began; per writer, as each has a thread. `FairSpec` of `ConfigFile`: one thread
that blocks on nothing, whichever of its reads fail. Nothing forces APDUs to
arrive, or reads without notification.

Every property of a passing run has a mutant, an operator next to the definition it replaces,
that a run with the mutant in its place rejects.

## 4. Findings

1. `MessageBus.cpp:162` (and 92, 129): ids are used as indexes after the arrays were compacted.
2. `MessageBus.cpp:49`: `~MessageBus` skips every other proxy; their stacks go on calling the bus.
3. `MessageBusC.cpp:609`: connections added to an existing proxy go to no proxy, or to another;
   ports added to it are not created.
4. `DNP3StreamReader.c:247`: the reader's array is shared between threads with no lock.
5. `Utils.h:103`, `Utils.h:122`: so is the array of listeners. `PropagatedOnce` of `RacingDispatch`
   has three parts, and TLC finds each violated under `Spec`. While an addition has counted its slot and not
   yet written it, a callback fetches a removed reader that the slot still holds (`RemovedNotCalled`:
   two readers; this is what `dispatch_race` shows). While a removal shifts the array, a
   listener is in two slots and gets an APDU twice (`DeliveredOnce`: two readers), and one removal
   makes two others miss an APDU (`OneMissPerRemoval`: four readers).

Met while modelling, in the models as the code has it, and not shown by a run of its own; where a
property of a passing run would be violated it excepts the case by name:

- A connection on a port that its proxy lacks gets no stack. `CreateAPDUProxy` says so, the
  constructor ignores it (`Connection.cpp:55`), and the bus calls the null pointer at once
  (`MessageBus.cpp:148`), though the callers expect an id that says no (`MessageBusC.cpp:655-659`). The adapter gets
  there by loading such a file. This is the fault `unknownPort`, the exception in `NoFaultWhileUp`.
- Between its opening and the subscription, and between the end of that and its closing, nobody
  hears what a stack receives (`MessageBus.cpp:147`, `:178`). `EveryStackHeard` says that this is
  so for no longer.
- The array of connections of the bus may point to freed ones after a proxy was deleted that had any
  (`MessageBus.cpp:96`), which no client of the repository does. `RegistryLive` does not cover that array.
- Even with a lock around each use of the listeners, a removal during a callback moves the ones
  behind it down, and one that stays and whose filter the APDU passes may miss it
  (`MessageBus.cpp:340`); `OneMissPerRemoval` bounds that.
- Even with that lock, a callback that has fetched a reader calls it after it was removed and disposed
  of (`DNP3Connection.c:85`), and adds to an array that is gone: the fault `deletedReader`.
  `RemovedNotCalled` says that this takes a removal during that callback.
- The parser of filters skips spaces only (`DNP3StreamReader.c:118`, `:141`), while the manual says "White
  spaces are ignored" (`USERS_MANUAL.md:425`) and its example (`:438-440`) has line breaks: the first
  key of the example is not recognised and its entry ignored. It also takes a NUM that begins with 0 for octal
  (`:177`), and ignores the manual's type `unsol-response` (`:188`). `FilterAsWritten` is what the manual says, and fails for
  such filters; `PlainFilterAsWritten` is for the rest.
- Two writers on one connection share its APDU object (`MessageBus.cpp:263`): one APDU is sent twice,
  the other not at all. What holds is `SentToRightConnection` and `LoneSendIntact`.
- An unsolicited response loses its type in the converter (`APDUConverter.cxx:1521`), so it is never
  sent on, and what `Send` returns then is not initialized (`MessageBus.cpp:283`).
- After a sample that does not convert, `write` returns one less than the samples before it, -1 for the
  first (`DNP3StreamWriter.c:50`), and gives up the rest of the batch.
- A filter with an empty value, which the grammar does not have, takes its `;` for the begin of the next key.
- An error of `read` is ignored (`lcfg_static.cpp:583`), and `size` is -1. At the end of a full buffer no
  test for the end holds then, and the read is repeated in the same turn. If that fails too, the scanner
  looks behind the buffer (`fault`); if it finds the end, the last symbol is taken a second time
  (`lost`, where `ReadsDocuments` does not say what an accepted file means unless it is a document); if it succeeds, nothing is lost. A first read that fails, as that
  of a directory, is rejected cleanly by chance: the scanner sees the NUL the buffer was cleared to,
  which begins no token.
- A bad hexadecimal escape sets an error and goes on (`lcfg_static.cpp:785`); a `//` comment in the last
  line needs its line break (`lcfg_static.cpp:828`); of a key that is there twice the later value wins.
- A port type is compared up to the length of the value, so the empty one is `serial`; the
  configuration of an unknown type of port is freed without having been allocated
  (`MessageBusC.cpp:402`; `ConfigExtract` has such ports as *unknown*). An unknown log level is `NONE`
  (`Utils.cpp:145-185`).

## 5. Proofs

`MessageBusProofs` proves, for every value of the constants (assumed: null is no
object, and proxies and connections are different objects), that `Spec` keeps `TypeOK`,
`RegistryLive`, `StacksOwned` and `SendTargetsUsable`. The inductive invariant is
`TypeOK /\ RegistryLive /\ StacksOwned /\ DyingForgotten /\ CallOK`. `DyingForgotten` says that the
proxy whose destructor runs is still live but no longer in the array of the bus; `CallOK`, that none runs in the
middle of a creation or deletion of a connection, whose stack is open meanwhile. The first is needed because
the steps of the destructor change the proxy's array and free the proxy,
which would break `RegistryLive` if the bus still had it; and
`RegistryLive` and `StacksOwned` need each other, since removing a connection
must remove exactly its stack, and only uniqueness of names within a
proxy says so. `SendTargetsUsable` then follows from the invariant
without another induction. The first lemmas of the module are the facts about removal the
proof rests on: what remains, in which order, and that it is without duplicates
if the array was.

Its second part proves the five properties of `RepositorySpec`, under the same assumptions. The
inductive invariant is that of the first part with `Disciplined`: the bus is subscribed to the
open stacks but that of the connection in hand (`InHand`), whose creation or deletion is half done; no
undefined behaviour was met but the late callback and the null stack of an unknown port; and while the bus is up
ids are indices (`IdsAreIndices`), the open stacks are those of the connections in the array of the bus and the
one in hand, and their proxies are in its other array (`StacksKnown`), and the one in hand has the id of the slot
it will have, or had (`HandIsNext`). Removing the last slot moves no other (`RemoveLastSlot`), which is why
closing in the reverse order keeps ids right; since ids are right, the proxy deletes the connection
that was meant and no stack name is ever in use; and since a proxy is deleted without connections, its destructor
closes nothing. The one stack that may be null is that of a port the proxy lacks: no assumption is made
about the ports of proxies or connections. `HandlesAlwaysResolve`, `RecordsAgree`, `NoStackIsDeaf`,
`BothLookupsAgree` and `NoUndefinedBehaviour` follow without another induction. `bus_stale_handle` and
`bus_late_callback` show that neither the discipline nor the exception for the late callback can be left out.
These clients are clients of the API (`RepositoryIsAClient`), so the theorems about `Spec` hold for them too.

Its third part proves that under this discipline the bus implements `Directory` (`BusIsADirectory`),
which has `LookupsAgree` in it and more: not only do the lookups agree in every state, each
operation changes all answers together, and by one row of the table. The proof goes over `Mirrored`,
a state predicate: the nodes and routes are the slots of the arrays with the fields of their
objects, every lookup by pair gives the table, and a name leads to the first proxy that has it. It
holds in every state that is `InOrder`, which is the invariant above without the parts that are about
faults (`UpMirrored`), so that a step only has to show what happens to the arrays: one lemma per
step of an operation (`NewProxyAddsNode`, `OpenConnectionOpensRoute`, `SubscribeAddsRoute`,
`CloseLastDropsRoute`, `CloseStackClosesRoute`, `RemoveLastDropsNode`, `BusDeleteCloses`) and one for what does not show (`DestructorsHidden`: while the bus is up only
proxies without connections are destroyed). For other clients it does not hold: when they close in
another order, another connection goes than the one they meant (`bus_stale_handle`).

What the bus leaves behind is exact: `HalfTheProxiesStay` says, for any number of proxies and any
client, that a deleted bus has as many proxies in its array as its destructor deleted, or one fewer.
The invariant (`IndexMeetsEnd`) is that the index, which goes up by one while the array gets shorter
by one, passes the end by at most one. It is finding 2 in general.

`LoadConfigProofs` proves all safety properties of `LoadSpec` that hold, for any files, number of loads and
heap (assumed besides: files hold entries, and entries of one name are equal). The inductive invariant has
these parts besides the types. `SoundRegistry`: until a fault, the invariant of `MessageBusProofs` with
`IdsAreIndices` and `StacksKnown`. `Position` and `Opening`: where the loops are, and that the only
call that is ever half done creates a connection of a proxy of this load. `Growth`: the arrays of the bus
begin with what they held before the load, the two lists name exactly the slots added, and `proxyId` is one of them: it is
this that keeps a load away from older proxies (`OldProxiesKept`), makes the lists right after a fault
too (`ListsNameWhatWasMade`) and makes `proxyId` none when all the proxies of a file exist
(`NothingIfNamed`). These two say more than the properties they are for, because the loader does less than the
manual says (finding 3): `OldProxiesStay` and `ReloadCreatesNothing` hold of a loader that adds
what a file has for an existing proxy, too. `Progress`: a new proxy comes from an entry that was passed, or is the one `proxyId` names, and
one with an address of its own has the connections of every entry passed (`FreshProxiesServed`).
`LoadsFillTheDirectory` proves that `LoadSpec` implements `Directory` as well: the states of a load
are `InOrder` until a fault (`SoundRegistry`), so
the lemmas about the bus serve again, and every step adds one row, shows nothing, or closes. It
holds for all files, those with clashes too: what a clash loses (`load_additional`) is a route that
is never added, not one that some lookup finds and another does not.

`StreamReaderProofs` proves that `Spec` of `StreamReader` keeps `TypeOK`,
`CopiesAccounted` and `NoLostWakeup`, and implements `Mailbox`. The inductive
invariant is `TypeOK /\ Queue /\ Samples`: `Queue` says that the array holds
consecutive copies, but for the gap behind the second loop of `read`, and that
what was freed is everything before them, and that gap; `Samples` says which copies the first
loop has converted so far. Both are needed for the mailbox: it is `Queue` that
makes what `read` removes the same as what it converted, though the array grew
in between. Assumed: the convertible APDUs are APDUs, and the bound is a natural number.

`RacingReaderProofs` proves that `SerialSpec` of `RacingReader` implements `StreamReader`
(`MacrosRight`), for any threads and APDUs: a step inside a macro maps to a stutter, but for the one
that makes its effect visible. The inductive invariant is `Local`, what a thread inside
a macro knows (no other is inside one; the size it read is the size; the loop of a removal stays
in the array), with the invariant of `StreamReaderProofs`, instantiated with the array that the slots, the
size and a removal in progress stand for. So the theorems of `StreamReader` carry over: with a lock
around each macro, which the code lacks, the reader would be a mailbox (`LockedReaderIsMailbox`)
and lose nothing, free nothing twice and touch no slot outside (`LockedReaderSafe`). `reader_race` shows that the lock cannot be left out.
Assumed: as for `StreamReader`.

`DispatchProofs` proves the four properties of `Dispatch`, so for a use of an array macro as one step, for any
stacks and readers. A callback splits the readers that were there when it began into those
it called (`Called`), those its index has yet to reach (`Ahead`) and the rest
(`Passed`). The inductive invariant says, per callback, that `Called` and `Ahead` are
disjoint, which gives `DeliveredOnce` since a fetch takes from `Ahead`; that what
it remembers is of the past, which gives `RemovedNotCalled`; and that
`Passed` has no more elements than there were removals, as each removal moves
at most one listener below the index. When the loop ends `Ahead` is empty, and
`Passed` is what `OneMissPerRemoval` counts. Assumed: the listener outside
the loop's body is no reader, and the readers are finitely many.

`RacingDispatchProofs` says what the lock is worth. It proves that `SerialSpec` of `RacingDispatch` implements
`Dispatch` (`ListenersRight`), for any stacks and readers, with the array that the slots, `currentSize` and an
addition or removal in progress stand for: an addition shows when its slot is written, a removal when its search has
found the index, and the shift and the decrement are stutters. The inductive invariant is `Local`, what a thread inside a macro
or between test and fetch knows, with that of `DispatchProofs` instantiated with this array; that there is a slot for
every reader (`RoomForReader`) follows from the array holding none twice. Composed with the theorems about
`Dispatch` it gives `LockedListenersPropagate`: under a lock the code keeps exactly the property that
`dispatch_race` violates, and fetches no null pointer. Assumed: as for `Dispatch`.

`RouteProofs` proves all safety properties of `Route` for any writers, connections,
addresses of 16 bits, filters and APDUs, in five layers, each inductive given those below.
`HeldInv`: every sample and every APDU a thread holds is a conversion of one received, and
the heap is what the threads hold (`RouteTypeCorrect`, `RouteBuffersFreed`). `SharedInv`: the APDU object
of a connection holds an APDU between its endpoints, and that of a caller that is alone
(`RoutedToRightConnection`, `LoneSendsIntact`); it rests on `ShortProperties`, that cutting an
unsigned short to a short is injective. `OrderInv`: what a writer passed to `Send` is before what is left of the
batch, and that before what waits (`RouteKeepsOrder`, `RouteCountsNoLost`). `SentInv`: what was sent was
passed to `Send` before, so that the APDU in work cannot have been sent already, which gives both
directions of `RouteSendsConnected`. `ParserInv`: the number of symbols behind the cursor that are
not spaces (`Ink`) says which entry the parser is in and what its two buffers hold, and the
entries before that one are in the filter; at the end all are, each under its key, which gives
`RouteFiltersAsWritten`. Assumed: no two connections have one pair of
addresses, addresses have 16 bits, and null is neither a connection, a number nor an APDU
(`RouteAssumption`); a filter is a text of the manual's grammar, with any blanks between the words, line breaks and
tabs too, and with or without a `;` at the end (`FiltersAssumption`); a NUM means a natural number, whatever `strtol`
makes of it (`NumberAssumption`). `RouteFiltersAsWritten` is about the filters that are `Plain`: no blanks but spaces, no
key twice, no number `strtol` reads otherwise, not `unsol-response`. The manual's
promise is false of line breaks, of such numbers and of that type (section 4); of a key that is there twice it says nothing.

`ConfigFileProofs` proves, for any file, symbols, buffer and initial memory, and whichever reads fail, that `Spec` of
`ConfigFile` keeps `TypeOK`, `ScansTheFile` and `PathMatchesStack`. The inductive invariant adds
`BufferRight` (the buffer holds the last symbols read, and the offset is where the scanner is in
them; a short read is the end), `ErrorRight` (after a failed read the scanner is at the end of the buffer, where it reads again, or
still at its begin; a stale symbol is only looked at behind the end of the file) and `WordsRight` (identifiers are not empty, so that a
word is never taken for an index). `TypeOK` has the bounds of the stack and of the values in it: no access is outside
them, and none is outside the buffer but the one that two failed reads lead to, which is the state `fault`.

That a loop ends is a matter of fairness in one part only, that its steps are taken. The other part is
proved for the loops of the code whose turns are steps of a model: a natural number, or a pair in
lexicographic order, that each step lowers.

| theorem | loops | what is lowered, and what others can do to it |
|---|---|---|
| `ReadingNeverCircles` | scanner, buffer, parser | `StepsLeft`, a weight for each symbol not yet taken, a token not yet parsed, an identifier begun, a buffer that can still be filled and the place in the loops; at most about eight steps per symbol |
| `LoadNeverCircles` | both loops of `loadConfig` | `EntriesLeft`, or else `ConnectionsLeft`; no other step is possible in a load |
| `DeletionNeverCircles` | `~MessageBus`, `~Proxy` | `ProxiesToGo`, or else `ConnectionsToGo`; no client gets in between |
| `ArrivalsDoNotProlongReads` | both loops of `read`, the loan | `ToDo`, by exactly one: two steps per APDU in the array at the beginning and three more, whatever arrives |
| `CallbacksNeverCircle` | the loop over the listeners | `CallLeft`, per callback; a removal never raises it, a reader that joins does, by three at most |
| `WritesNeverCircle` | the loop of `write` | `WorkLeft`, per writer; no other thread raises it |

The parser of filters (`ReaderFilter`) is left to TLC.

Proved, and not run: that under a lock the single accesses of `RacingReader` and `RacingDispatch` implement
`StreamReader` and `Dispatch`.

Only model-checked: the four liveness properties themselves (`LoadTerminates`, `EveryAPDURead`,
`EverySampleHandled`, `ReadingEnds`), as fairness is out of reach of the prover, and `ReadsDocuments` and
`ExtractsAsWritten`, which are about what recursion over a file and over a map computes.

## 6. Not modelled

- The libraries outside the repository appear only as what they do to this code: OpenDNP3 as stacks that open,
  close, receive and send; DDS as queues that lose nothing; the Routing Service as its sessions.
- The trees of liblcfg (`lcfgx_*`) and `lcfg_value_get`: the message bus never calls them.
- The growth of an array by `realloc` (`Utils.cpp:127`): a reader's array would need more than ten waiting
  APDUs, that of the listeners more than ten readers; without a lock it is as broken as `reader_race` and `dispatch_race` show
  the smaller steps to be. The buffers the callbacks never free (`MessageBus.cpp:330`) are listed as a hazard.
- The compiled-out part of `APDUConverter.cxx` (52-1267), `DNP3Tester.cpp` (it exercises OpenDNP3 without the
  bus), logging, the command line of the tester, build files.
- The settings of ports and timeouts are read by `ConfigExtract` and go to OpenDNP3 unchanged.

What would come next: the growth of the arrays in `RacingReader` and `RacingDispatch`, and a number that every turn of the
filter's parser lowers.
