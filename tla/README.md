# Verification of tun-video

TLA+ models of the programs of tun-video, the TLC runs that check them on small
instances, and proofs, checked by TLAPS, that hold for every instance.  Paths
are those of the repository; `gpsd/` stands for `gpsd-3.16/`.  `PROJECT.json`
lists every run, every mutant that shows that a property can fail, the lines each
definition models (`map`), the disagreements found (`findings`), the hazards and
the main theorems.

## 1. The system

The repository has four programs that carry IP packets of local applications
(video, in the authors' use) over UDP, and the gpsd 3.16 that gives the vehicles
their positions.

| component | state | operations | interacts with |
|---|---|---|---|
| **Routing node** `IRtestWLAN/ir.cc`, `ir.h`, `Entry.*` | `m_forward_table` (destination -> next hop, time, position), `m_neighbor_table` (vehicle -> position, speed, time, trace), `broadcast_addr`, `begin_time` | `recv_tun`, `recv_beacon`/`build_neighbor`, `recv_data`/`Forwarding`/`RouteMakeup`/`IsLegal`, `send_beacon` | applications through a tun device; other vehicles through a beacon and a data socket |
| **Threads and timer** `IRtestWLAN/main.cc`, `get_gps`, `init_timer`, `build_beacon` | `mutex`, `g_gps`, `g_speed`, `m_gps`, `m_speed`, `q_gps` | `gps_thread`, the SIGALRM handler, the main loop | gpsd; each other through shared variables |
| **Ages and prediction** `build_neighbor`, `RouteMakeup`, `AdvancedPredict`, `gaussrand`, `SpeedChange` | timestamps, `gpsq`, `k[20]` | ages over the wall clock, extrapolation of a neighbour's trace | the neighbour table |
| **Conversions** `GPS.cc`, `Speed.cc` | none | floats to and from 32-bit integers | messages |
| **Setup** `get_ip`, `tun_alloc`, `init` | descriptors | system calls | the kernel |
| **Tunnel** `tunudp.c` | descriptors, one buffer | select loop | applications through tun; its peer through a connected UDP socket |
| **Tap tunnel** `tapudp.c` | the same | the same, with a filter on the ethertype | the same |
| **IR** `IR/ir.cc` | two buffers | `schedule()` is a tunnel; its routing functions are called from nowhere | the same |
| **IRtest** | as the routing node | an earlier state of IRtestWLAN: no gps thread, no ttl, timer not started | the same |
| **Bridge** `br_select.c` | one buffer | joins two tun devices | the kernel |
| **gpsd, client sessions** `gpsd/gpsd.c` | `subscribers[]` (descriptor, time, policy, mutex), `all_fds`, `maxfd` | accept, `all_reports`, `handle_gpsd_request`, `throttled_write`, `detach_client` | clients; the PPS thread of a device |
| **gpsd, device pool** `gpsd/gpsd.c`, `libgpsd_core.c` | `devices[]` (path, descriptor, packet type, `releasetime`, `zerokill`, `reawake`), `all_fds` | `gpsd_add_device`, `awaken`, `gpsd_multipoll`, `deactivate_device`, the timeouts of the main loop, `handle_control`, SIGHUP | sources; clients |
| **gpsd, packet lexer** `gpsd/packet.c` | `inbuffer`, `state`, `length`, `json_depth`, `outbuffer` | `packet_get`, `packet_parse`, `nextstate` | one per device |
| gpsd, the rest | | drivers and JSON (decoding, formatting), NTP, shared memory, client library and programs | |
| Makefiles, scripts | | command lines | |

What is hard here.  In IRtestWLAN, `send_beacon` is a signal handler that takes a
mutex and touches a `std::queue` without one; the two tables are related, but
purged by three functions at two ages; ages are differences of a wall clock in an
`int`; one `broadcast_addr` serves two ports.  In the tunnels, one buffer serves
both directions of a select loop with blocking calls.  Datagrams are lost,
repeated and reordered.  In gpsd, two threads drop clients and share `all_fds`,
`maxfd` and the slots without a lock, while the kernel gives closed descriptors
out again; devices vanish, pause and return, and every timeout needs something
else to wake the loop; the lexer recognizes sixteen protocols in one stream with
errors.

What makes each part correct: of the node, that packets are only relayed to
vehicles that were heard recently, within their hops, and that the tables stay
related; of the threads, that positions are never mixed and that a started
handler ends; of the prediction, that it uses recent neighbours and its index
stays in bounds; of the tunnels, that the pair is a pipe and neither side
starves; of the sessions and devices, that every descriptor has one owner, is
listened to, and is closed for a reason only; of the lexer, that it returns,
always can read on, and recovers.

## 2. The modules

| module | models | kind |
|---|---|---|
| `IRNode` | the routing node | one vehicle against every environment |
| `IRNodeProofs` | | proofs about `IRNode` |
| `BeaconThreads` | threads and timer | one process, word by word |
| `BeaconThreadsProofs` | | proofs about `BeaconThreads` |
| `PredictionProofs`, `TunnelProofs`, `SubscribersProofs`, `DevicesProofs`, `PacketLexerProofs` | | proofs about the module each is named for |
| `NaturalLemmas` | | the least and the greatest elements of sets of numbers, which the proofs about gpsd use |
| `Prediction` | ages and the slopes' index | one neighbour table and a clock that is set |
| `DatagramPipe` | what a tunnel promises | abstract specification |
| `Tunnel` | tunudp, and with other constants tapudp | two processes and the network; implements `DatagramPipe` |
| `TapFrame` | the frames and the filter of tapudp | data |
| `Subscribers` | gpsd's client sessions | two threads and the clients |
| `Devices` | gpsd's device pool | the main loop, the sources, the watches, and the PPS threads' writes to `all_fds` |
| `PacketLexer` | gpsd's packet lexer | one device's stream, byte by byte |
| `MC...` | | the constants' values for TLC |

**IRNode.**  A handler of the select loop is one step, with everything it calls:
`RecvBeacon` is `recv_beacon` with `build_neighbor` (both purges, the entry of
the route, the entry or update of the neighbour), `RecvTun` is `recv_tun`, and
`RecvData` is `recv_data` with `Forwarding`, whose three branches (`RouteUnknown`,
`RouteStale`, `RouteFresh`) and the flood keep the code's order: `RouteMakeup`
erases expired neighbours first and chooses among the rest.  Geometry is
abstracted to what it decides: for each live neighbour whether it lies ahead and
how far it is from the destination; every combination is considered.  A position
is a value or the mark (0,90) that means "unknown".  The positions in the tables
are those that the receiver decodes, so the conversions are not in this module.
Reading through the end iterator (`ir.cc:713`) is undefined: the process crashes
or enters an arbitrary position.  A beacon that reaches the data port is read
as a packet (`Misread`).  `lastHeard`, `out` and `crashedOn` are history.

**BeaconThreads.**  Each context (main, gps thread, and the handler on top of
either) has a program counter; a thread does not move while its handler runs.
Copies of positions go word by word, so that a mixture would be seen; the mutex
is not recursive; a race on `q_gps`, of which every test of its size and every
copy of it is a part, yields any length or a crash.  `q_gps` is copied by value
and the handler prints, so it may also want the lock of malloc or stdio that the
context it has interrupted holds (`Hang`); which threads may be inside them is
`Allocating`, which handler steps want them is `Allocates`.
`raced`, `onGps` and `disturbed` are history that says when mixtures are excused.

**Prediction.**  `IRNode`'s clock is exact; here `wall` is the system's clock,
which is set once at any moment, and timestamps, ages and the argument of
`AdvancedPredict` have their types (`AsInt`, `AsUint`).  An entry is its timestamp
and the length of its trace; `Overruns` is a store past `k[20]`.

**Tunnel.**  Each process is at one of the calls of its loop: `Select`,
`ReadTun`, `WriteSock`, `ReadSock`, `WriteTun`, every one of which can fail.  The
environment offers frames, loses, repeats and delivers datagrams, answers
datagrams for a process that is down with an ICMP error, and kills and restarts
processes.  The pending error is the one piece of kernel state that matters:
it makes the socket readable, and the next read *or write* takes it.
`Outgoing`, `Incoming` and `Relayed` say what a read leaves to be written and
what passes: the identity for tunudp, truncation and the IP/ARP filter for
tapudp.  In `ImplementsPipe`, what is on its way to an end is computed from the
queues, the buffers and the network.

**Subscribers.**  The two threads are cut store by store: whatever one of them
writes that the other reads or writes is a step of its own.  Accepting a client
is `Accept`, `Install` (the bit of `all_fds`), `Raise` and `Store` (the test and
the store of `maxfd`), `Fill` (the slot's descriptor), `Activate` and `Greet`;
`detach_client` is `Detach` (up to the close), `Clear` (the bit), `Lower`,
`Count` and `Settle` (`adjust_max_fd`), `Deactivate`, `Unsubscribe` and `Free`
(the slot's `active`, policy and descriptor).  A word of `all_fds` that is changed
is read in the step before (`copy`).  `adjust_max_fd` sets `maxfd` to 0 and counts
it anew: in between it is 0 or any descriptor found so far.  Select is `Call`,
which looks at no descriptor beyond `maxfd`, and `Wake`, when it returns.  The
system gives out the lowest free descriptor, so a number comes back at once.
`race` is history, and names the five ways the threads get across: `request` (the
PPS thread is inside `detach_client` of the slot, or has just freed it, when the
main thread stores a request's time or policy), `fill` (the same, when it stores
the descriptor or time of a new client), `bits` (two updates of `all_fds`), `maxfd`
(the main thread uses or raises it while it is being counted) and `reuse` (a
descriptor or slot changes hands while somebody holds its number).  Properties
say precisely which of them excuses what.

**Devices.**  The main loop is phases (select, poll, clients, awaken, release) that go
slot by slot.  A source sends, pauses, signs off (`# EOF`), or sends garbage until
the hunt for its speed fails, as it likes, and any opening may fail: before the
descriptor is open, or after, when `gpsd_serial_open` loses it (`leaked`).  All
time that matters passes in select, so a timer is only set or not, and `late`
says whether it has run out.  `Multipoll` has the outcomes of `gpsd_multipoll` and
what the loop does with them; `typed` is what `lexer.type` says of the last
packet and goes back.  `PpsRead` and `PpsWrite` are the `FD_CLR` of a PPS thread
that drops a client: `copies` is what such threads have read of `all_fds`, `undone`
the devices' bits that their writes have taken out.  `Restart` is SIGHUP, and
gives the free slots in order to the devices of the command line.

**PacketLexer.**  `nextstate` is a relation: `Moves` are the bytes that only move
the machine, in tables named for the part of the switch they translate;
the `...Size` operators are the bytes that make a length; `Json` counts braces.
What is none of these is `Unexpected`.  A byte is taken, pushed back and looked
at again, or (where the code calls `character_pushback` and then breaks, without
the return) pushed back and treated as taken.  `Settle` is the rest of
`packet_parse` and keeps that order.  The bytes that a prover would read as
punctuation have names (`OpenBrace`, `Comma`, ...).  RTCM2 words are made of the
low six bits of bytes of any kind: the bits are not kept, so with a device of
`Corrections` each such byte may end a message, be in one, or not.

## 3. The runs

| run | shows | size and bounds |
|---|---|---|
| `node` | types; the tables stay related; relays go to live vehicles within their hops; neighbours do not crash the process and their packets carry positions | 3 vehicles, so that routes lead through a third; ages 0 and 1, clock to 2: every entry can be fresh, purgeable, expired and heard again; ttl 2, so a packet arrives fresh, with its last hop or with none |
| `threads` | mutual exclusion, no mixtures, queue bounded, deadlock is final, handlers end | 2 fixes, enough for a mixture; queue to 3, one above the length the code tests; 414 000 states |
| `prediction` | recent neighbours only, slopes only after a stall and within their array | the unit is a second, an int reaches from -5 to 4, the ttl is 3, `k` has 5 slots of which 2 come from the trace; the clock runs to 11 and is set by up to 3, so it passes the largest int and the largest uint32_t; 2 vehicles; 660 000 states |
| `tunnel` | frames come out unchanged, the pair implements the pipe, `read()` only waits after a refusal, neither descriptor starves | one frame from each end, queues of 1, any order of starting; 125 000 states |
| `tap` | tapudp is a pipe for IP and ARP that cuts long frames, also across a kill and restart | an oversized, a filtered and an ARP frame; 190 000 states |
| `subscribers` | one owner per descriptor, whole slots, everyone listened to, nobody dropped without reason, requests read, connections taken | 2 slots and 3 connections, 2 at a time, so that a slot and a descriptor are reused while the other lives; one client may stop reading or close (`Fickle`), which is enough for both threads to drop it together; 1 140 000 states |
| `devices` | one owner, nobody deaf, no path twice, kept while watched, reopened | 2 devices, 1 on the command line, a pool of 2, one PPS thread changing `all_fds` at a time (`MaxCopies`); 3 280 000 states |
| `lexer` | returns, has room to read, does not count for ever, cut sentences do not spoil the next | 18 devices, one for each protocol or confusable pair, of 2 to 5 bytes; buffer of 9, packets of 4, reads of 0 to 2: every length can be too long, zero, and swallow the next packet; 670 000 states |
| `node_beacon_port`, `threads_beacons`, `subscribers_stuck`, `lexer_garbage` | violated, see 5 | |

The ages, the ttl, buffer sizes and table sizes are constants of the models: the
code only compares them, and the proofs are for all values that the named
assumptions allow.  `MaxTime`, `MaxConns`, `MaxCopies` and `MaxDepth` bound clocks,
connections, PPS threads and braces, and `Fickle` the clients that misbehave.
`Resyncs` says that the state is back in the ground state, or at the end of a
packet, again and again; it does not say that every packet is recognized from
there, and after JSON that was cut short no object is.

The deadlock check is off where the system may stop: the node may exit or crash and its clock ends, the threads may wait for themselves, and when
`Subscribers` has made its connections both threads may wait for ever.

**Fairness.**  `BeaconThreads` (`ScheduledSpec`): the scheduler runs whoever can
run (weak fairness of each context's steps); a mutex that becomes free again and
again is eventually got (strong fairness of `Lock`, as the alternation of the
threads needs).  `BeaconsForever` adds the interval timer (`TimerFairness`).  No
packet and no fix needs to come.  `Tunnel`: a process that can take a step does,
and reads of the device do not fail for ever (strong fairness of `ReadTun`).  The
network, the applications and the operator owe nothing.  `Subscribers`: the
system runs both threads where they can run, and pselect, which has no timeout
(`libgpsd_core.c:1021`), returns for a client or a connection that it was asked
for; whether a device or the PPS signal ever comes is not the system's (only
`StuckAreDropped`, whose watcher needs something to be reported, supposes that
devices report).  `Devices` has no liveness property: the timers are only looked
at when something stirs the loop, and nothing need.  A paused device may stay
paused, which is a hazard in `PROJECT.json`; what `Reconnects` says is what a turn
of the loop that comes after a long time has done when it ends.  `PacketLexer`:
the loop runs on, and the device sends on.

## 4. What is proved

Every safety invariant and every action property of the runs, and type
correctness of every module, for all values of the constants that the named
assumptions allow: `AddressAssumption` (distinct physical addresses, disjoint
from virtual ones), `NumberAssumption`, `QueueAssumption`, `FixAssumption`,
`PredictionAssumption`, `TunnelAssumption`, `SubscribersAssumption`,
`DevicesAssumption` and `LexerAssumption`.  Two theorems have a hypothesis more,
named below.  `PROJECT.json` lists the theorems with the property each states.

**`IRNodeProofs`**: `TypeCorrect`, `NeighborsHaveRoutes`,
`RoutesThroughHeardVehicles`, `CrashesOnlyOnStrangers`, `RelaysGoToLiveVehicles`,
`RelaysAreDisciplined` and `NeighborPacketsHavePositions`.  They rest on the
inductive invariant `TablesInv`.  That a neighbour has a route is not inductive
alone: both tables are purged by age, so it needs that the neighbour's time is no
later than its route's, which needs that no time is in the future and that the
neighbour's time is that of its last beacon (`ClocksAgree`).  That a route goes
through a vehicle heard in time needs, of `RouteMakeup`, that it answers with a
live neighbour or with nobody (`RouteMakeupAnswer`).  There is one lemma for each
branch of `Forwarding`.

**`BeaconThreadsProofs`**: `TypeCorrect`, `MutexIsOwned`,
`SnapshotsAreConsistent`, `BeaconsAreWhole`, `DataIsWhole`, `DeadlockIsFinal` and
`QueueStaysBounded`.  `LockInv` adds to mutual exclusion what the owner has
copied so far (`Writing`, `Copying`): the words before its program counter are
new, the others are all from one older fix.  `QueueInv` says that before a push
at most one position is left, unless two handlers met.  What a beacon or a packet
carries needs, too, that nobody writes the copies while they are read: as long as
no handler ran on the gps thread, a handler past the lock found the main thread
outside of its own critical section, and the queue it reads is not empty
(`BeaconInv`); and while no handler runs, the main thread alone writes (`DataInv`).
So `BeaconsAreWhole` and `DataIsWhole` say how far the code's luck reaches, not
that it needs none: nothing is promised of a beacon after a handler ran on the gps
thread, nor of a packet whose position was taken as a handler ran.

**`PredictionProofs`**: `PredictionTypeCorrect`, `RouteMakeupUsesRecent`,
`PredictionNeedsBacklog` and `PredictionStaysInBounds`.  `PredictionInv` says that
until the clock is set the table has the time each neighbour was heard
(`Stamped`), that until two beacons are handled at once every trace has one
position (`NoTraces`), and that until the clock goes back or an int overflows no
stamp is of the future (`NoFuture`).  The index of `k` needs no more than the age
that the purge lets pass.  That no prediction happens without a backlog is true
only if a trace of one position is too short for one: the assumption says
`LAGS > 0` and `LAGS < MINTRACE`, as 7 and 8 in the code.

**`TunnelProofs`**: `TunnelTypeCorrect`, `BlockedAfterRefusal`,
`TunnelImplementsPipe`, `OnlyAcceptedFrames` and `TunnelIsTransparent`.  The
refinement is step by step: the frames on their way to an end (`Flight`) are those
in the queue and the buffer of the other end, in the network and in the socket,
and each step of `Loop`, of the network and of the operator offers, loses,
repeats or delivers one, or changes none.  It needs of the types that what a
process is about to write is something it lets pass (`Loaded`).  From the pipe's
own invariant, `PipeInv`, follows that only frames of the other end come out;
that they come out unchanged supposes that the read at one end undoes that of the
other (`Incoming[Outgoing[f]] = f`), as tunudp's do and tapudp's, which cuts long
frames, do not.  `RefusalInv` says that what select promised is still there when
the process gets to it, unless an ICMP error was what made the socket ready.

**`SubscribersProofs`**: `SubscribersTypeCorrect`, `SessionsHaveOneOwner`,
`SessionsAreWhole`, `SessionsAreWatched` and `SessionsEndForAReason`.
`SessionsInv` is in layers, as the races are.  `Descriptors` holds whatever
the threads do: they never free one slot together, the descriptor of a slot that
nobody frees is open and its own, and the one that accept is about to install is
nobody's.  So `OneOwner` is excused by no race: it only leaves out the slots that
are being freed, whose number accept may have given out again, and the number 0
that a slot has while accept fills it.  `BitsInv` holds until two updates of
`all_fds` cross: no thread's copy of the word is out of date.  `WholeInv` holds until
the main thread stores to a slot that the PPS thread is freeing (`request`, `fill`);
it says how far each thread is with the slot's three stores.  The last,
`DropInv`, is about why a session ends: what select said of a descriptor is still
true of the slots the loop has not come to (`InputsInv`), a thread that goes to
drop a client saw that it does not read or does not watch (`ReasonsInv`), and the
PPS thread works on a slot that is active or that the main thread has freed
(`PlacesInv`); all of that only until a slot or descriptor changes hands.  It also
follows that `fill` never happens first: a `request` or `reuse` comes before it.

**`DevicesProofs`**: `DevicesTypeCorrect`, `DescriptorsHaveOneOwner`,
`NoDeviceIsDeaf`, `PathsAreUnique`, `WatchedDevicesAreKept` and
`WatchedDevicesReconnect`.  `DevicesInv` adds to `OneOwner` that, whatever the main loop is doing, an open
device is in `all_fds`, `undone` or paused (`Listening`); while the loop polls the
slots, that those to come are still as select saw them (`Polling`); and that after a
long time the release phase leaves no slot behind it watched and closed (`Visited`).
`PathsAreUnique` supposes that no device is named twice
on the command line: neither `main` nor `gpsd_add_device` looks for a name that
is there already.  Where the code takes the first free slot or descriptor, the
proofs use `MinIsLeast` of `NaturalLemmas`.

**`PacketLexerProofs`**: `LexerTypeCorrect`, `LexerHasRoom`,
`SentencesAreNotMixed` and `RoundsComeToAnEnd`, for any device.  `BufferInv` says
that after `packet_parse` the buffer is not full, and that a state that is not the
start of something has bytes in the buffer.  `SentenceInv` ties the state to the
bytes looked at: inside a sentence of a satellite system or a vendor, there is no
second `$`, and the states on the way to `$PASHR` have exactly the bytes that led to
them.  Both go table by table through `Moves`.  `RoundsComeToAnEnd` is the safety part
of `Returns`: each round has fewer bytes to keep, or fewer to look at, or a lower
`Rank`, the number of times the state may still push a byte back.

Only model-checked: liveness, which is out of the prover's reach
(`HandlersFinish`, `TunServed`, `SockServed`, `RequestsAreRead`, `AlwaysOpen`,
`Returns`, `Resyncs`), and what is violated, in 5.

## 5. Where the code differs from what it says

| run | what the source says | what the code does |
|---|---|---|
| `node_beacon_port` | the beacon socket's address is set to BEACON_PORT | the first flood sets the shared `broadcast_addr` to DATA_PORT for ever |
| `threads_beacons` | the timer's interval | a signal inside a critical section of its own thread waits for itself, and no beacon follows |
| `subscribers_stuck` | clients that do not read are dropped (`gpsd.c:69`, `gpsd.xml:673`) | `EAGAIN` returns 0 before the test of `EWOULDBLOCK`, its other name, and `NOREAD_TIMEOUT` |
| `lexer_garbage` | leading garbage is discarded (`packet.c:16`, `test_packet.c:45`) | the rejected prefix of another protocol's packet stays in front of the next packet |

Seen while modelling, and without a run because one line shows them: the result of
`read()` in `recv_tun` is kept in a `uint16_t`, so `die("reading tun")`
(`ir.cc:412`) is unreachable; `IsLegal` (`ir.cc:745`) searches virtual addresses
for a physical one; `IR/ir.cc:301` sends another buffer than the one it read;
`json_depth` is never reset (`packet.c:1339`); the Tripmate's ASTRAL goes from
`ASTRAL_3` past `ASTRAL_4` (`packet.c:654`), so that the word itself is never
recognized; `releasetime` is only reset when a device is opened, so that one that
was released, watched again and released once more may be closed at once, without
the time that `RELEASE_TIMEOUT` gives clients to come back (`gpsd.c:73`).

In `tunudp.c:189`, an ICMP error that the write of the same pass consumes leaves the process in `read()` with frames waiting on its device:
`BlockedOnlyAfterRefusal` states that this is the only way.

## 6. Not modelled, and the plan

Not modelled: the values of slopes, positions and geometry (floating point,
random; their outcome is nondeterministic), `SpeedChange`, the conversions of
`GPS.cc` and `Speed.cc`, setup, the IRtest variant, `br_select.c`, `IR/ir.cc`
beyond the loop that it shares with the tunnels, printing.  `CalNexHop` is called
from nowhere.  Of gpsd's sessions, requests other than WATCH and the flags of a
policy that neither thread tests; of its devices, network sources, NTRIP, the
relaying of corrections and `/dev/ppsX`, and `maxfd`, which is in `Subscribers`;
of the lexer, the arithmetic of checksums and parity.

The rest of gpsd, four fifths of the implementation, is drivers that decode fields,
generators that print them, and programs that show them: sequential functions
without shared state, which the regression logs of gpsd test better than a model
would.  Modelled line by line they would be transliterations.  This keeps the
share of mapped lines low: what is mapped is where state, order and time matter.

In this order:

1. Proofs of what the liveness properties rest on: that a request waits in a
   descriptor below a `maxfd` that select is given, and that the tunnels' loop
   comes back to select after a bounded number of calls.
2. `IRMesh`: several `IRNode`s and the ether between them, with loss and
   repetition; loops between vehicles that route through each other, the number
   of copies of a flood, packets sent to BROADCASTADDRESS, and an abstract
   specification of delivery (a packet arrives only at its destination and was
   sent by its source).
3. `Bridge` (`br_select.c`), the IRtest variant as an instance of the node, and
   setup with its ignored result; the pause of a device as an abstract
   specification that `Devices` implements.
