# Verification of access_svr

TLA+ models of `acc_svr`, the access server that stands between game clients
and game servers, and of `acc_driver`, the library game servers link to talk to
it; TLC configurations that check them on small instances; and proofs, checked
by TLAPS, for instances of every size: the invariants of `acc_svr` and of the
driver, what `acc_svr` sends and in which order, that packets are cut correctly
from any stream and messages arrive as they were sent or not at all, that
`acc_svr` implements an abstract specification of what may become of a client,
alone and with real servers and restarts, and that servers know exactly the
clients it has let in.

## 1. The system

    clients --- acc_svr --- servers, each with acc_driver
                (one or more accs; a server connects to all of them)

`acc_svr` accepts clients on one port and servers on another. The first packet
of a client goes to a *verify* server, chosen round robin; when that server
answers "yes" the client has a *session*, of which every registered server is
told, and further packets are routed to a server by their command. Servers may
set the route, broadcast to clients, disconnect them, set their uin, or have
their packets kept for a while (to move a player from one server to another).
It keeps nothing on disk.

`acc_svr` is a single thread that runs one event loop, and so is a server with
its driver. A callback is therefore atomic and is one step of the model. What
can go wrong is the order of callbacks: timers against answers, the end of a
connection against its deletion and against messages about it, two servers that
ask for contradictory things, messages still on their way when either process
starts anew.

| Component | State it keeps | Operations | Hard part | What makes it correct |
|---|---|---|---|---|
| `ExternalSvrCon`, a client connection (`acc_svr/external_con.*`) | state INIT / WAIT_VERIFY / VERIFYED, four timers, uin, cache, active server per group | connect, packet, four time-outs, break, destructor; called by the handlers below | timers left over, packets cut after a disconnect, answers that come twice or late | timers fit the state, a client asks once, is routed only when verified, lives in one order, is let in or dropped in the end |
| its read buffer: `OnRawRecv`, `ParsePacket`, `HandleSeed`, `CheckEncrypted` | bytes not consumed, `Seeded` | a read callback with any number of bytes | TCP splits anywhere; a seed that is counted but not skipped; bytes read as `char` | packets are cut at their own length fields, nobody is dropped for how bytes came |
| `InnerSvrCon` and the dispatch table, a server connection (`acc_svr/inner_con.*`) | server id, verify flag | eleven requests, connect, break, destructor | registration against logins; send-buffer overflow inside a handler that sends to many | sessions are announced exactly once; a server hears nothing before its registration is answered |
| `RegSvrMgr`, `VerifySvrMgr` (`acc_svr/inner_con.*`) | raw pointers by id; set of raw pointers, round-robin index | insert, remove, find, next | dangling pointers, takeover of an id | they hold exactly the live connections that say so |
| `AccSeting` (`acc_svr/external_con.h`) | limits, heartbeat, default group; command-to-group map | replaced or extended by any server | read by connections that started under other settings | as above |
| `ADClientCon`, a link of the driver (`acc_driver/src/connect.*`) | registered or not, sessions, reconnect timer | connected, disconnected, eight messages | reconnection, sessions of an earlier connection | no session outlives its connection |
| `ConMgr` (`acc_driver/src/connect.*`) | the links, server id, settings, "fatal" | Init, AddAcc, registration results | several accs, Init that fails half way | the result is told once; a failure is final |
| `ADFacadeMgr` (`acc_driver/src/acc_driver.cpp`) | none | the calls of a server; the virtual functions it overrides | guards against unregistered links and unknown sessions; callbacks in the middle of handlers | no call names a client acc has not let in; a server knows its sessions by the callbacks |
| `acc_proto` | none | `Serialize` and `Parse` of each message | limits that count different layers, results nobody looks at, fixed-size against variable messages | what is sent is what is read, or nothing is |

They interact through messages on TCP connections (acc and servers), through
direct calls within acc (a handler of `InnerSvrCon` finds an `ExternalSvrCon`
by cid and calls it, the destructor of an `ExternalSvrCon` goes through
`RegSvrMgr`), and through the callbacks of libevent_cpp. That library and
svr_util are git submodules whose code is not in the repository; they are
modelled from how the code uses them and marked external.

The hazards, each at its line with the properties that would catch it, are in
`PROJECT.json`.

## 2. Modules

| Module | Models | Composes |
|---|---|---|
| `UoPacket` | a client's packet as it is read through `char`: ids, length field | |
| `Framing` | the byte stream of one client: `OnRawRecv` down to `HandleSeed` | extends `UoPacket` |
| `Proto` | the messages between acc and servers, as fields | |
| `BytesProof` | theorems about `Framing` and `Proto` | extends `Framing`, `Proto`, `TLAPS` |
| `AccState` | the state of acc, records of a client and of a server connection, deferred deletion, bounded send buffers, the registries' lookups | extends `UoPacket` |
| `ExternalCon` | `ExternalSvrCon` | extends `AccState` |
| `InnerCon` | `InnerSvrCon`, its handlers, the registries' changes | extends `ExternalCon` |
| `ClientLife` | abstract: what acc promises about the life of a client | |
| `AccSvr` | the acc process with arbitrary clients and servers: `Init`, `Next`, `Spec`, properties | extends `InnerCon`, instantiates `ClientLife` |
| `AccSvrProof` | theorems about `AccSvr` | extends `AccSvr`, `TLAPS` |
| `LifeProof` | `AccSvr` implements `ClientLife` | extends `AccSvrProof` |
| `ChannelProof` | theorems about what lies in the sockets of `AccSvr` | extends `LifeProof` |
| `NoticeProof` | lemmas: what each step of `AccSvr` tells servers of sessions | extends `ChannelProof` |
| `ADClientCon` | `ADClientCon`, `ConMgr`, `ADFacadeMgr` and its callbacks as operators on a record | |
| `AccDriver` | one driver with several accs that may send anything, and the server's view of its sessions | extends `ADClientCon` |
| `AccDriverProof` | theorems about `AccDriver` | extends `AccDriver`, `TLAPS` |
| `AccSystem` | acc and its servers, each with a driver, over FIFO connections | extends `AccSvr`, instantiates `ADClientCon` |
| `SystemProof` | theorems about requests and answers in `AccSystem`, and about acc within it | extends `AccSystem`, `NoticeProof` |
| `MirrorProof` | `SessionMirror` and `UinMirror` of `AccSystem` | extends `SystemProof` |
| `MCAccSvr`, `MCAccDriver`, `MCAccSystem`, `MCBytes` | instances for TLC | |

How state corresponds to code:

* `cli[c]` is the `ExternalSvrCon` with connection id `c`. Ids are handed out in
  order and never again by one run of acc, so `con` goes from `none` (not yet
  accepted) through `open` and `closing` (disconnected, waiting for the loop to
  delete it) to `gone`. `tm` is the set of armed timers, `pend` the number of
  messages the client's socket has not taken.
* `inner[k]` is the `InnerSvrCon` at address `k`; an address is used again after
  the object there was destroyed, which is what makes dangling pointers
  visible. `regSvr`, `verifySvr`, `blIdx`, `seting` and `cmd2Grp` are the members
  of the singletons. `std::set` orders pointers, so addresses are numbers.
* `toSvr[k]` is what acc has sent on a connection and the server has not read.
  A message beyond `SendBufMax` is lost and breaks the connection, as a full
  `ACC_SVR_MAX_SEND_BUF_SIZE` does.
* `reading` is the client whose read callback is on the stack: `OnRawRecv` cuts
  several packets from one buffer, and while it does so nothing else runs, but
  a packet may already have disconnected the client.
* In `AccSystem`, `drv[s]` is the driver of server `s`, `sock[s]` the object of
  acc at the other end of its link, `toAcc[k]` the requests acc has not read and
  `ask[s]` the verify requests the server has still to answer, each with the run
  of acc it came from. `answered`, `runs` and `breaks` are history and bounds.

* In `AccDriver`, `view` is what a server makes of its callbacks: it adds a
  session at `OnClientConnect`, changes the uin at `OnRevBroadcastUinToSession`,
  removes one at `OnClientDisCon` and all of an acc at `OnAccDisCon`.
* In `Framing`, `used` is how far `pMsg` has moved, `got` the end of what has
  come, and `len` their difference, less four in the call that reads the seed.
  One pass of the loop in `OnRawRecv` is one step (`ParsePacket`).
* In `Proto`, a string is its size, which `std::string` keeps and the limits look at,
  and its fields `[w, v]`; `s ++ t` is `s.append(t)` and adds up both. A read finds the
  value if it stands on a field of the width it takes, and `Beyond` if it is misplaced
  or behind the end, which stands for whatever the memory holds there.
* `ClientLife` sees of a client its stage (`StageOf`: INIT is "connected",
  WAIT_VERIFY "asked", VERIFYED "in") and whether its connection was closed.

Every handler is one operator with the name it has in the code, and contains
all it does: `Parse_CMD_REQ_REG` registers, sets the verify flag (also of a
server that was refused), answers, and repeats the sessions; `SetCache(false)`
forwards what was kept before it clears it. A handler that sends to a set of
connections is one step, with the overflow of each decided on its own. `Foreach`
visits in any order, as the code leaves it to a hash map.

Data that no property distinguishes is left out: payloads, addresses, response
commands. A packet is its first byte and its length: the first decides over
`CheckEncrypted` and the command (`Cmd32`), the second over what is refused. A
setting of zero switches a limit or timer off, as in the code.

`CharSigned` says how the compiler takes `char`; no build file sets it. Where it
is signed no client gets past its first packet, because every id in
`CheckEncrypted` is above 127 (`found_seed_packet`), and nothing else could be
seen; so the other runs have it FALSE. The proofs hold for both.

Two facts about the library cannot be read from this repository. Whether a
connection that waits for deletion is still found by `FindConn`, `Foreach` and
`GetConSize` is the constant `FindClosing`; both values are used in runs, and the
proofs hold for either. That `DisConnect` defers the deletion is taken from
the code's own use of it within `OnRawRecv` and within `Foreach`.

## 3. Runs

Passing runs:

| Run | Shows | Instance |
|---|---|---|
| `acc_sessions` | registries exact, no id taken over, the registration answer comes first, a login is announced once to each server | 1 client, 2 server connections that come and go, three registrations, one of them with an id of more than 16 bits |
| `acc_clients` | timers fit the state, a client asks once, is routed only when verified, and is not heard of after its NTF_DISCON; its life is that of `ClientLife` (a refinement: each step of acc is one of the abstract steps or none) | 2 clients, 1 server connection, all requests, short send buffers, two packets to a read |
| `acc_routing` | packets are kept only while the cache is on; the types | 1 verified client, 2 registered servers; routes, heartbeat, kept packets |
| `driver` | result told once, no session without a registration, every acc configured, callbacks enough to know the sessions and none about an unknown one | 2 accs, 2 clients, every message, breaks without bound |
| `sys_mirror` | what a server in service holds, with what is on its way, is exactly the set of clients acc has let in, with the uin set last | 2 servers, one of which verifies and sets two uins, 1 client, 3 connections that overflow or break |
| `sys_calls` | no call of the driver names a client acc has not let in, each client was let in by an answer to its own request, and the server knows exactly these, also when acc is restarted | 1 server making every call, 1 client, 1 connection, a break and a restart of acc; steps are `Timely` |
| `sys_live` | a link that is down is registered again or the server has given up; a client that waits for an answer, or is over the limit, does not stay so | 1 server that verifies, answers or not, and sets a limit of 0; 1 client, 2 connections, a break and a restart of acc |
| `bytes` | a client's stream is cut by its own length fields and refused for its bytes only; each message arrives as it was or not at all | every stream of three out of eight pieces, split anywhere; every message with lengths and counts on both sides of every limit |

Each passing run has for each of its properties a mutant, a plausible bug
written as an operator beside the one it would replace (`..._NoTimer`,
`..._Keeps`), under which TLC finds the property violated.

Runs that find a statement of the repository's documents, comments or tests
violated by the code (`Found*.cfg`); what they found is under "findings":

| Run | Statement | What the code does |
|---|---|---|
| `found_cache_pause` | while the cache is on, forwarding is suspended | the packet is kept *and* forwarded, then forwarded again |
| `found_seed_packet` | a client that starts with packet 0xEF needs no seed | where `char` is signed it is dropped, as is every client whose first id is above 127 |
| `found_fatal` | only ids configured twice are refused for good | also a reconnection that acc sees before the end of the old connection |
| `found_mapping` | `SetMainCmd2GrpId` maps commands | it sends the bytes of an object with pointers |

Other things met while modelling, which the models reproduce but which have no run of their own:

* A refused client stays in WAIT_VERIFY, where its packets are ignored, until the
  timer drops it: the handler returns before `SetVerify(false)`
  (`inner_con.cpp:89`, against external_con.h:40 "失败->INIT").
* A successful answer for a client that never asked lets nobody in
  (`ClientLivesOnce`) but announces a session to every server (`inner_con.cpp:99-123`).
* A client whose account name has more than MAX_NAME_LEN characters is let in
  before the name is refused, so no server gets its session
  (`inner_con.cpp:99-109`, against doc.md:87). `VerifiedIsAnnounced` is violated when
  `ClientRequests`, which has a long name, replaces `SessionRequests`.
* The uin of a login is announced and not stored, so a server that registers
  later gets the session with uin 0 (`inner_con.cpp:104` and `:362`, against doc.md:69).
* A client over `max_num` can log in within the second before it is closed
  (`external_con.cpp:293-300`).
* The short overload of `ReqVerifyRet` drops `is_success` (`acc_driver.cpp:68-75`,
  against its use at `test/com/base_follow.cpp:108`).
* Cids start anew with acc and the driver keeps no note of what it was asked, so an
  answer from before a restart admits whoever now has the cid (`acc_driver.cpp:44-66`):
  `AdmittedWasAnswered` is false then. So is `SessionMirror`, since an answer about a
  client that has not asked announces a session all the same, and with it
  `CallsNameClients`, since the driver lets the server call about that session. All
  three hold in `sys_calls` because its steps are `Timely`: a server answers no question
  of an earlier run of acc. Without `ACTION_CONSTRAINT Timely` in `AccSystemCalls.cfg`
  each is violated. So it is an obligation of the application to forget the questions
  of an acc at `OnAccDisCon`; no document says so.
* When a registration fails the driver drops every link with `OnRegResult(0)` and no
  callback about the sessions over the others (`connect.cpp:378`): `CallBacksSuffice`
  speaks of a driver that has not given up.
* The failure answer to SET_ACTIVE_SVR names a client the driver has no session of
  any more, so the server is never called with it (`inner_con.cpp:200`, `connect.cpp:226`).
* A verify answer whose response `Serialize` refuses (command 0, or too long) is sent
  without it, and acc parses a response behind the end (`acc_driver.cpp:62`,
  `proto.cpp:259`); what it says of the client is right all the same
  (`VerifyRetArrives`).
* `BroadCastToClient` with a list of clients sends the same list to every acc, though
  cids are counted by each acc for itself, so a client of another acc with the same
  cid gets the message too; an empty list, or one of 65536 clients, is one for all
  (`acc_driver.cpp:141`, `inner_con.cpp:258`).
* The seed is not skipped: the first packet starts in its first byte, and is held back
  until four more bytes have come (`external_con.cpp:119`; `OnlyFirstHeldBack`).
* With a default route and a send buffer of two messages, a client that keeps sending
  to a server that is slow breaks its link again and again, so that it never gets
  back into service. `LinkComesBack` is therefore checked without a default route.

### Bounds

`SendBufMax`, `CliBufMax` (0: unlimited), `MaxPerRead`, `MaxCache`, `ToAccMax`,
`MaxBreaks`, `MaxRestarts` and `MaxResults` are constants. The first two are limits
of the program made small, so that overflow happens; the rest only keep the
state space finite and appear as guards of the environment's actions. Two server
connections are what a conflict over an id needs, three addresses what a
reconnection in the presence of another server needs. One client is enough
where the property speaks of one client at a time and clients do not interact;
limits, broadcasts and kicks do make them interact, and there the runs have two.
`acc_routing` starts where two servers are registered and one client is in,
a state acc reaches by two registrations, a setting and a login, to spend its
states on routing. In
`acc_routing` and `acc_clients` requests come from servers of any kind, also those a
driver would not send: acc does not rely on the driver's guards.

Deadlock is checked for acc alone. A single driver stops at its bound on
results, and the system stops where all clients are gone and all breaks used;
these runs say `CHECK_DEADLOCK FALSE`.

The bounds of `sys_live` are small because liveness is checked on the whole graph:
one break shows every loss that either end sees first, two connections let the
new one overtake the old, one restart makes acc forget everything, and one
client is enough for a wait and for a limit of 0. In `bytes` a stream of three
pieces has a packet before and one after any other, and the lengths are those
next to each limit: 4096 less the 2, 6, 8, 14 or 25 bytes in front, 400 and 512 clients, 16
bits. A behaviour is a stream or a message; the two share nothing.

### Fairness

`SysFairSpec` (`sys_live`) assumes of acc that a read callback returns (weak
fairness of `ReadDone`) and that its loop comes round to every client and every
connection: a timer that is due fires, what has arrived is read, the end of a
connection is noticed, an object that waits for deletion is deleted. These are
strongly fair, for each client and each connection (`ClientDue`, `SvrDue`), since
they are disabled for as long as some read callback is on the stack, and that
recurs. Of a driver it assumes that it reads what arrives and notices the end of
its connection, and that its reconnect timer (10 seconds, repeated) in the end
finds acc listening and an address free. Nothing is assumed of clients, of
packets, or of what servers call or answer; breaks and restarts are not fair,
and finitely many.

## 4. Proofs

Every invariant and action property of a passing run has its theorem. Those of acc
with its servers are proved for the first run of acc, and for all of its runs when
servers are `Timely`, as `sys_calls` checks them. TLC was used before the proofs to
check the properties on the instances of section 3.

### acc

`AccSvrProof` proves, for every value of the constants that satisfies the
assumptions in `AccState` and `AccSvr`:

| Theorem | Statement |
|---|---|
| `TypeCorrect` | the state of acc without the contents of the sockets keeps its type |
| `RegistryCorrect` | `Spec => []RegistryExact` |
| `TimersCorrect` | `Spec => []TimersMatchState` |
| `CacheCorrect` | `Spec => []CacheOnlyWhileOn` |
| `NoTakeoverCorrect` | `Spec => NoTakeover`, an action property |

The assumptions are that clients and connections are finitely many, addresses
and ids are numbers, cid 0 is not handed out, and what servers may send has the type
of a request. There is no bound on the number of clients, servers, buffered
messages or packets to a read.

The inductive invariant `IInv` says that every client record is *good* - it
has its type, its timers fit its state and what it keeps fits its cache flag -
that the connections and the other variables have their types, and that the
registries are exact. The parts are needed together: timers can be followed
through a handler only if the client's state is one of the three known ones;
`DestroySvr` removes exactly one entry only because no two ids lead to one
connection, which is what exactness says; and `Parse_CMD_REQ_REG` keeps
exactness only because a fresh object at an old address has id 0 and no verify
flag. The proof first treats the operators on one client record
(`DisConnectGood`, `SendToClientGood`, `AfterForward2SvrGood`, `SetCacheGood`,
...), then sending (`SendExact`: whatever overflows, the registries stay
exact, since a connection that breaks is alive until it is destroyed), then each
action and handler in a lemma of its own, and puts them together in
`StepIInv`. `NoTakeover` (`IdIsKept`) follows from `OnlyRegistryMoves`: of all actions only
registration and destruction change `regSvr`.

`LifeProof` proves `LifeCorrect == Spec => ClientLivesOnce`, that `AccSvr` implements
`ClientLife`: `Init` is an abstract initial state, and each action of `AccSvr` is, under
`IInv`, an abstract step or leaves the abstract variables alone. The argument goes
by what an operator does to one client record: most keep its stage and at most
close its connection (`Same`), a few move it one stage on (`Advances`), and only
accept and the destructor do anything else; a step then changes all records so
(`NoneMoves`) or all but one (`OneMoves`). `IInv` is needed for the types of the
records.

`ChannelProof` adds the sockets (`toSvr`):

| Theorem | Statement |
|---|---|
| `AllTypesCorrect` | `Spec => []TypeOK` |
| `RegAnswerFirstCorrect` | `Spec => []RegAnswerFirst` |
| `VerifyBeforeForwardCorrect` | `Spec => []VerifyBeforeForward` |
| `NothingAfterDisconCorrect` | `Spec => []NothingAfterDiscon` |
| `AsksOnceCorrect` | `Spec => []AsksOnce` |
| `AnnouncedCorrect` | `NamesFit => (Spec => VerifiedIsAnnounced)`, an action property |

A message outlives the state it was sent in. The invariant (`CInv`) is that what each
message in a socket says still stands (`Stands`: a client that was asked about has got
at least that far, one that is reported gone is gone, a connection with traffic on it
has an id), that any two messages of one socket are in an order they may have
(`InOrder`), and that no two sockets hold a verify request for one client. It is
inductive because clients only move on, which is `LifeCorrect`'s step lemma, and ids stay
with a connection: so what stood stands (`StepMoves`), and a handler has only to show
that what it sends fits behind all that is there. `AsksOnce` needs that the client was
in INIT when it was asked about; `NothingAfterDiscon` that nothing is sent about a
client that is gone. `NamesFit` says that answers have names of legal length. Without
it the theorem is false (section 3: a name that is too long is found after the client
was let in).

### Bytes

`BytesProof` is about a client's stream (`Framing`), for any set of streams of bytes, any
split and either sign of `char`, and about the messages between acc and servers
(`Proto`), for any lengths of up to 16 bits (`ProtoAssumption`: the members that hold
them are uint16) and any numbers of clients and commands:

| Theorem | Statement |
|---|---|
| `FramingTypeCorrect` | `Spec => []FramingTypeOK` |
| `CutCorrect` | `Spec => []CutByLength` |
| `HeldBackCorrect` | `Spec => []OnlyFirstHeldBack` |
| `RefusedCorrect` | `Spec => []RefusedForItsBytes` |
| `ForwardCorrect` | `ProtoSpec => []ForwardArrives` |
| `VerifyRetCorrect` | `ProtoSpec => []VerifyRetArrives` |
| `BroadcastCorrect` | `ProtoSpec => []BroadcastReaches` |
| `SetingCorrect` | `ProtoSpec => []SetingArrives` |
| `MappingCorrect` | `ProtoSpec => []MappingArrives` |

For the stream the invariant (`FramingInv`) is the conjunction of the four with two
facts a step relies on: a seed is missing only before the first packet, and a refusal
ends the reading.

For the messages there is little to an invariant: what has come of a call, once it is
read, is what the parsers make of the bytes its `Serialize` wrote (`ProtoInv`, `Outcome`).
The proof is about what the parsers find. What is appended to a string is found behind
what was there, and what was there is still found (`AppendIs`, `FieldAppended`); so each
message is known field by field with its size (`ForwardIs`, `VerifyRetIs`, `CidListIs`,
`SetingIs`, `MappingIs`, `RawMappingIs`), and so is what is missing from it when one of the
`Serialize` functions refused its part. From that follows for each kind which lengths
pass all limits and arrive, and what is read otherwise (`ForwardOutcome` and the other
four). Without a limit of 65535 on lengths the size of a part could not be read back
from its two bytes, which is why the assumption is needed.

### The driver

`AccDriverProof` proves six theorems about a driver with any number of accs,
clients and ids:

| Theorem | Statement |
|---|---|
| `DriverTypeCorrect` | `Spec => []DriverTypeOK` |
| `ResultToldCorrect` | `Spec => []ResultToldOnce` |
| `SessionsCorrect` | `Spec => []SessionsNeedReg` |
| `CallBacksCorrect` | `Spec => []CallBacksSuffice` |
| `CalledCorrect` | `Spec => []CalledAboutKnown` |
| `ConfiguredCorrect` | `Spec => []AccsAreConfigured` |

The invariant (`DInv`): links are *good* (registered only when up, sessions only
when registered), the results told are one of four sequences, each of which says
what the flags are (`Told`), the addresses of links differ (`Distinct`), and the
server's view of an acc is the sessions of the one link with its address
(`Mirrors`). `Distinct` is what lets the view be kept by address: it holds because
`Init` is called with different addresses, as the environment does here, and
`AddAcc` refuses a second link to one.

`ConfiguredCorrect` has an invariant of its own beside `DInv` (`SentInv`): what was sent
over a link that is up begins with the registration and, if settings were chosen, ends
with these. `Distinct` is needed here too, since what was sent is kept by address.

### acc with its servers

`SystemProof` and `MirrorProof` are about any number of servers, clients and
connections, any verifiers, any calls and any number of breaks:

| Theorem | Statement |
|---|---|
| `AdmittedCorrect` | `SysSpec => [](runs = 0 => AdmittedWasAnswered)` |
| `CallsCorrect` | `SysSpec => [](runs = 0 => CallsNameClients)` |
| `MirrorCorrect` | `"ann" \notin LongNames => (SysSpec => [](runs = 0 => SessionMirror))` |
| `UinCorrect` | `"ann" \notin LongNames => (SysSpec => [](runs = 0 => UinMirror))` |
| `AdmittedTimely` | `SysSpec /\ [][Timely]_sysVars => []AdmittedWasAnswered` |
| `CallsTimely` | `SysSpec /\ [][Timely]_sysVars => []CallsNameClients` |
| `MirrorTimely` | `"ann" \notin LongNames => (SysSpec /\ [][Timely]_sysVars => []SessionMirror)` |
| `UinTimely` | `"ann" \notin LongNames => (SysSpec /\ [][Timely]_sysVars => []UinMirror)` |
| `AccInSystem` | `SysSpec => [](TypeOK /\ RegistryExact /\ TimersMatchState /\ CacheOnlyWhileOn)` |
| `ChannelsInSystem` | `SysSpec => [](RegAnswerFirst /\ VerifyBeforeForward /\ NothingAfterDiscon /\ AsksOnce)` |
| `NoTakeoverInSystem` | `SysSpec => NoTakeover` |
| `LifeInSystem` | `SysSpec => [][AccRestart \/ Life!LifeNext]_sysVars` |

The first four say what holds in the first run of acc of any servers, the next four
what holds in all of its runs, over any number of restarts, if servers are `Timely`: a
server gives no answer to a question of an earlier run. In the first run every step is
(`FirstIsTimely`), so that both come from one inductive step (`BaseForth`). Without `Timely`
they are false after a restart (section 3). `Timely` is about answers alone: calls about
a session need no such condition, because the driver forgets its sessions with the
link, and one that has not yet noticed its end has no connection to send over. `"ann"`
is the name of every login in `AccSystem`; if it does not fit, the login is not announced
(section 3 as well).

The last four need nothing of servers. They carry the results about `AccSvr`, in which
requests come from a given set, over to acc as it runs: with drivers that greet,
reconnect and are started with other settings, with requests that wait in the sockets
while connections end, and with restarts. The reason is that each step of the system is
for acc one that it takes in any environment (`AccStep`) or a restart, which leaves acc as
it starts (`NextWire`); and for this it is enough that what lies in the sockets to acc has
the type of a request (`Wire`).

The invariant (`Base`) is that of acc (`IInv`, `CInv`) with four parts about the two
ends:

* `LinkInv`: a driver with a connection is up, the connection at its other end is
  there, and no two drivers share one; a driver that is not registered has no session.
* `SentInv`: what a request that acc has not read says of clients is true (`Claims`):
  a client it calls about is in or gone, one it lets in was asked about and answered
  for. A registration is the first thing on its connection, and acc has sent nothing
  there yet (`FirstThing`).
* `AskInv`: a verify request of this run of acc that a server has still to answer is of a
  client that was asked about; those let in were answered for.
* `HeldInv`: the sessions that drivers with a connection hold, and those on their way,
  are of clients that are in or gone. A driver that has not noticed the end of its link
  may hold others.

Each says of a message or a session what it says of a client, and stands because clients
only move on (`Onward`). The two ends depend on each other: that acc may trust a
driver's call needs `HeldInv`, and this needs that acc begins only sessions of clients
that are in, which needs that answers name clients that were asked about (`Claims`).
A driver refuses calls without a session, and the proof of `OtherCallBase` uses this guard.

`SessionMirror` needs one more invariant, `ServeInv`. For a server in service, the answer
to its registration is behind it or the first message to it (`AnswerAhead`), and the
sessions it holds together with the messages to it (`Known`) are the clients that are
in (`Mirrors`). There are three arguments. Whatever acc changes of its clients it
adds to the messages of every registered server (`Informs`, from `NoticeProof`), unless the
connection breaks, and then the server is not in service (`KnownBehind`,
`InformedServes`). What a driver reads moves from the messages to the sessions and
leaves the sum as it is (`KnownTail`, `DriverRecvServes`). And at a registration the
connection is empty and the server holds nothing, so that the answer and the sessions
behind it are the whole sum (`FirstAnswer`); this is where `FirstThing` is needed. A
closing client may or may not be among these (`FindClosing`), and `SessionMirror` allows both.

`UinMirror` is not inductive either, and `ServeInv` says nothing of uins. `UinInv` says it
of every client, known or not, for the servers that set no uin (`UinSvrs` are those
that do). If acc has a uin of a client, the last message that tells the server of one
tells this one, and without such a message the session held, if any, has it
(`LastUin`). A message that begins a session brings nothing new where the server
already holds one or has been told before (`FreshUin`); without it `DriverRecv` could
lose a uin, since `HandleCreateSession` keeps the session there is. Only clients that
are in have a uin or are told of (`UinsIn`), so that the message that begins a
client's session is the first about it. And such a server has no broadcast of its own
under way (`SetsNoUin`): acc tells a new uin to all registered servers but the one
that set it, which has to know it already. The proof has the steps of that of
`ServeInv`: what acc adds (`TellsItsUin`, `UinBehind`), what the driver takes
(`UinTail`), and the answer to a registration, whose sessions carry the uins acc has
(`FirstAnswerUin`).

### Only model-checked

* `sys_live`: liveness under fairness is beyond this prover.
* The statements of section 3 that the code violates: a counterexample is TLC's.

## 5. Not modelled

* Messages of fixed length (`CtrlMsgProto::Parse`): an object is sent as its bytes and
  read as such, on both ends with the same packing.
* Packets of 64 KB and more between acc and a server: `ASMsg::Parse` takes the length
  as a uint16, and what the event library does before that is not in this
  repository. `Proto` refuses them as it does every packet over the limit.
* Reads behind the end of a message are not given values: `Beyond` stands for all.
* A heartbeat interval that a server changes to 0 while a timer runs, and a call of
  the driver from within one of its callbacks.
* Several accs beside several servers at once: `AccDriver` has two accs without
  their inside, `AccSystem` one.
* Start-up, configuration, logging, the stop command, samples and tests: no state
  that outlives them is read by the rest.

## 6. Plan

Done: the modules of section 2, and the proofs of section 4. What is left, in order:

1. `AccSystem` with two accs and with a mapping that is serialised as `Proto` has it, to
   state what a restart of acc does to routes.
2. The round robin of `VerifySvrMgr` while verify servers come and go.
