------------------------------- MODULE IRNode -------------------------------
(***************************************************************************)
(* One vehicle of the mesh, as IRtestWLAN builds it: the IR object of      *)
(* ir.cc, its two tables m_forward_table and m_neighbor_table, and the     *)
(* handlers that its select loop and its SIGALRM timer run.  The other     *)
(* vehicles, the applications behind the tun device and the clock are the  *)
(* environment: a handler's input is chosen from what they can send.       *)
(*                                                                         *)
(* A handler is one step: SIGALRM can interrupt one, but send_beacon only  *)
(* reads the port a broadcast goes to and touches neither table (the       *)
(* threads and the mutex are the subject of BeaconThreads).                *)
(*                                                                         *)
(* Positions are abstracted to what the handlers test, whether a message   *)
(* carries the "position unknown" mark (0,90).  The geometry of            *)
(* RouteMakeup (AdvancedPredict, CalTheate, CalModule: floating point and  *)
(* a random acceleration) is abstracted to what it decides for each        *)
(* neighbour: whether it lies ahead, and how far from the destination.     *)
(***************************************************************************)
EXTENDS Naturals, Functions

CONSTANTS
  Vip,              \* addresses of the tun devices, the keys of both tables
  Me,               \* m_vir_ip, this vehicle's own
  Phy,              \* the wlan0 address each vehicle announces, by its Vip
  Stray,            \* an address no vehicle has, such as a beacon's bytes spell
  Pos, NoPos,       \* positions a message may carry; NoPos is the mark (0,90)
  BROADCASTADDRESS, \* RouteMakeup's "no next hop"
  TTLNEIGHBORTABLE, \* age in ms above which an entry is expired
  PurgeAge,         \* the literal 5 of build_neighbor, also an age in ms
  MAXDISTANCE,      \* distance at which a neighbour is no use
  InitTtl,          \* hops a new packet may take, 16 in recv_tun
  U32,              \* 2^32, the modulus of DataMessage.ttl
  MaxTrace,         \* capacity of gpsq, 10 in build_neighbor
  MaxTime           \* bound on the clock, for model checking

ASSUME AddressAssumption ==
  /\ Vip \subseteq Nat /\ Me \in Vip
  /\ Phy \in [Vip -> Nat]
  /\ \A u, v \in Vip : u # v => Phy[u] # Phy[v]
  /\ \A v \in Vip : Phy[v] \notin Vip /\ Phy[v] # BROADCASTADDRESS
  /\ BROADCASTADDRESS \in Nat \ Vip
  /\ Stray \in Nat \ Vip

ASSUME NumberAssumption ==
  /\ TTLNEIGHBORTABLE \in Nat /\ PurgeAge \in Nat /\ MAXDISTANCE \in Nat
  /\ InitTtl \in Nat \ {0} /\ U32 \in Nat /\ InitTtl < U32
  /\ MaxTrace \in Nat \ {0} /\ MaxTime \in Nat
  /\ NoPos \notin Pos /\ Pos # {}

VARIABLES
  now,        \* until_time: ms since schedule() began
  fwd,        \* m_forward_table: destination -> next hop, time, position
  nbr,        \* m_neighbor_table: vehicle -> time of its beacon, trace length
  port,       \* broadcast_addr.sin_port
  status,     \* "running", "exited" (exit(1)) or "crashed"
  crashedOn,  \* the destination whose packet crashed it, in a set, or {}
  lastHeard,  \* history: the time of each vehicle's last beacon
  out         \* what the last handler sent or met, one record in a set, or {}

vars == <<now, fwd, nbr, port, status, crashedOn, lastHeard, out>>
tables == <<fwd, nbr>>
ghosts == <<crashedOn, lastHeard>>

BEACON_PORT == 5555
DATA_PORT == 4000

Dest == Vip \cup {Stray}
Hop == {Phy[v] : v \in Vip} \cup {BROADCASTADDRESS}
Time == 0..MaxTime
ForwardTableEntry == [hop : Hop, ts : Time, gps : Pos \cup {NoPos}]
NeighborEntry == [ts : Time, trace : 1..MaxTrace]
DataMessage == [src : Dest, dst : Dest, gps : Pos \cup {NoPos}, ttl : 0..U32-1]

Put(table, key, entry) ==
  [k \in DOMAIN table \cup {key} |-> IF k = key THEN entry ELSE table[k]]

Age(entry) == now - entry.ts
Expired(entry) == Age(entry) > TTLNEIGHBORTABLE

-----------------------------------------------------------------------------
(* What the environment can put on a socket or on the tun device.          *)

\* A packet some vehicle built in recv_tun, or forwarded since.
Genuine == {p \in DataMessage : /\ p.src \in Vip
                                /\ p.src # p.dst
                                /\ p.ttl \in 1..InitTtl}

\* A beacon that reached the data port: both messages are 24 bytes long, and
\* the address and ttl fields of recv_data fall on speed and position bits.
Misread == {p \in DataMessage : p.src = Stray /\ p.dst = Stray /\ p.gps \in Pos}

-----------------------------------------------------------------------------
(* The choice of a next hop.                                               *)

\* Mutant: RouteMakeup erases nothing.
LiveWithoutErase == DOMAIN nbr

Live == {v \in DOMAIN nbr : ~Expired(nbr[v])}

\* What prediction and geometry say of each neighbour, as seen from here.
Sight == [ahead : BOOLEAN, dist : 0..MAXDISTANCE]

\* The first neighbour, in the order of the map, at the least distance.
Closest(view, S) ==
  CHOOSE v \in S : \A u \in S : \/ view[v].dist < view[u].dist
                                \/ view[v].dist = view[u].dist /\ v <= u

\* The closest neighbour in the cone of the destination, else the closest
\* one at all, else nobody.  MAXDISTANCE stands for every distance that
\* fails the test dis < disMax, NaN included.
BestHop(view) ==
  LET near == {v \in Live : view[v].dist < MAXDISTANCE}
      cone == {v \in near : view[v].ahead}
  IN  IF near = {} THEN BROADCASTADDRESS
      ELSE Phy[Closest(view, IF cone # {} THEN cone ELSE near)]

\* The answers that some geometry leads to.
RouteMakeup == {BestHop(view) : view \in [Live -> Sight]}

\* The erase loop at the head of RouteMakeup.
EraseExpired == nbr' = Restrict(nbr, Live)

\* Looks the next hop up among the neighbours, whose keys are virtual.
IsLegal(hop, ahead) ==
  /\ hop \in DOMAIN nbr
  /\ ~Expired(nbr[hop])
  /\ ahead

-----------------------------------------------------------------------------
Init ==
  /\ now = 0
  /\ fwd = << >> /\ nbr = << >>
  /\ port = BEACON_PORT
  /\ status = "running" /\ crashedOn = {}
  /\ lastHeard = << >>
  /\ out = {}

\* Time passes between two handlers.
Tick ==
  /\ status = "running"
  /\ now < MaxTime
  /\ now' = now + 1
  /\ out' = {}
  /\ UNCHANGED <<fwd, nbr, port, status, crashedOn, lastHeard>>

\* The handler of SIGALRM broadcasts to whatever port broadcast_addr holds.
SendBeacon ==
  /\ status = "running"
  /\ out' = {[kind |-> "beacon", to |-> BROADCASTADDRESS, port |-> port]}
  /\ UNCHANGED <<now, fwd, nbr, port, status, crashedOn, lastHeard>>

\* Mutants of BuildNeighbor: the neighbour table purged by the age that the
\* rest of the code uses; the route entered with insert(), which keeps an
\* entry that is there; the trace never shortened.
BuildNeighborTtlPurge(v, g) ==
  LET keptNbr == {u \in DOMAIN nbr : ~Expired(nbr[u])}
      keptFwd == {d \in DOMAIN fwd : Age(fwd[d]) <= PurgeAge}
  IN  /\ fwd' = Put(Restrict(fwd, keptFwd), v, [hop |-> Phy[v], ts |-> now, gps |-> g])
      /\ nbr' = Put(Restrict(nbr, keptNbr), v, [ts |-> now, trace |-> 1])

BuildNeighborInsert(v, g) ==
  LET keptNbr == {u \in DOMAIN nbr : Age(nbr[u]) <= PurgeAge}
      keptFwd == {d \in DOMAIN fwd : Age(fwd[d]) <= PurgeAge}
      routes == Restrict(fwd, keptFwd)
  IN  /\ fwd' = IF v \in keptFwd THEN routes
                ELSE Put(routes, v, [hop |-> Phy[v], ts |-> now, gps |-> g])
      /\ nbr' = Put(Restrict(nbr, keptNbr), v, [ts |-> now, trace |-> 1])

BuildNeighborLongTrace(v, g) ==
  LET keptNbr == {u \in DOMAIN nbr : Age(nbr[u]) <= PurgeAge}
      keptFwd == {d \in DOMAIN fwd : Age(fwd[d]) <= PurgeAge}
      trace == IF v \notin keptNbr THEN 1 ELSE nbr[v].trace + 1
  IN  /\ fwd' = Put(Restrict(fwd, keptFwd), v, [hop |-> Phy[v], ts |-> now, gps |-> g])
      /\ nbr' = Put(Restrict(nbr, keptNbr), v, [ts |-> now, trace |-> trace])

\* build_neighbor: drop what is older than PurgeAge from both tables, then
\* enter the sender, in the route table as its own next hop.
BuildNeighbor(v, g) ==
  LET keptNbr == {u \in DOMAIN nbr : Age(nbr[u]) <= PurgeAge}
      keptFwd == {d \in DOMAIN fwd : Age(fwd[d]) <= PurgeAge}
      trace == IF v \notin keptNbr THEN 1
               ELSE IF nbr[v].trace = MaxTrace THEN MaxTrace
               ELSE nbr[v].trace + 1
  IN  /\ fwd' = Put(Restrict(fwd, keptFwd), v, [hop |-> Phy[v], ts |-> now, gps |-> g])
      /\ nbr' = Put(Restrict(nbr, keptNbr), v, [ts |-> now, trace |-> trace])

\* A beacon of another vehicle; recv_beacon ignores this one's own.
RecvBeacon(v, g) ==
  /\ status = "running"
  /\ v # Me
  /\ BuildNeighbor(v, g)
  /\ lastHeard' = Put(lastHeard, v, now)
  /\ out' = {}
  /\ UNCHANGED <<now, port, status, crashedOn>>

-----------------------------------------------------------------------------
(* recv_tun: a packet of a local application.                              *)

NewPacket(d, g) == [src |-> Me, dst |-> d, gps |-> g, ttl |-> InitTtl]

\* The destination is in the forward table: gps_by_ip does not look at the
\* age of the entry, nor at whether its next hop is one.  (A sendto that
\* fails without consequence is a packet lost on the way.)
TunUnicast(d) ==
  /\ d \in DOMAIN fwd
  /\ out' = {[kind |-> "originated", to |-> fwd[d].hop,
              pkt |-> NewPacket(d, fwd[d].gps)]}
  /\ UNCHANGED <<port, status>>

\* It is not: the packet is flooded without a position, and a failing
\* sendto ends the process.
TunBroadcast(d) ==
  /\ d \notin DOMAIN fwd
  /\ port' = DATA_PORT
  /\ \/ /\ out' = {[kind |-> "originated", to |-> BROADCASTADDRESS,
                    pkt |-> NewPacket(d, NoPos)]}
        /\ UNCHANGED status
     \/ /\ out' = {}
        /\ status' = "exited"

RecvTun(d) ==
  /\ status = "running"
  /\ d # Me
  /\ TunUnicast(d) \/ TunBroadcast(d)
  /\ UNCHANGED <<now, tables, ghosts>>

\* A failing read stores -1 in the unsigned 16-bit nread, so that the test
\* for an error fails and the old contents of tun_buffer, a packet for d, go
\* out as 65535 bytes.  No datagram can be that long: sendto fails, which is
\* ignored on the unicast path and ends the process on the other.
RecvTunError(d) ==
  /\ status = "running"
  /\ out' = {[kind |-> "read_error"]}
  /\ \/ d \in DOMAIN fwd /\ UNCHANGED <<port, status>>
     \/ d \notin DOMAIN fwd /\ port' = DATA_PORT /\ status' = "exited"
  /\ UNCHANGED <<now, tables, ghosts>>

-----------------------------------------------------------------------------
(* Forwarding, once recv_data has decremented the ttl of the packet.       *)

\* Mutant: the test before my_send is forgotten.
EmitAnywhere(hop, p) == out' = {[kind |-> "forwarded", to |-> hop, pkt |-> p]}

Emit(hop, p) ==
  out' = IF hop = BROADCASTADDRESS THEN {}
         ELSE {[kind |-> "forwarded", to |-> hop, pkt |-> p]}

NoRoute(d) == d \notin DOMAIN fwd
StaleRoute(d) == d \in DOMAIN fwd /\ Expired(fwd[d])
FreshRoute(d) == d \in DOMAIN fwd /\ ~Expired(fwd[d])

\* A route with a new next hop and timestamp, and its old position.
Renewed(d, hop) == Put(fwd, d, [hop |-> hop, ts |-> now, gps |-> fwd[d].gps])

\* Neither a route nor a position: pass the flood on.
Flood(p) ==
  /\ NoRoute(p.dst) \/ StaleRoute(p.dst)
  /\ p.gps = NoPos
  /\ port' = DATA_PORT
  /\ out' = {[kind |-> "forwarded", to |-> BROADCASTADDRESS, pkt |-> p]}
  /\ UNCHANGED <<tables, status, crashedOn>>

\* A position but no route.  After RouteMakeup the code reads through the
\* end iterator: it crashes, or it enters a route with an arbitrary position.
RouteUnknown(p, hop) ==
  /\ NoRoute(p.dst) /\ p.gps # NoPos
  /\ EraseExpired
  /\ \/ /\ status' = "crashed" /\ crashedOn' = {p.dst}
        /\ out' = {}
        /\ UNCHANGED fwd
     \/ /\ \E g \in Pos \cup {NoPos} :
             fwd' = IF hop = BROADCASTADDRESS THEN fwd
                    ELSE Put(fwd, p.dst, [hop |-> hop, ts |-> now, gps |-> g])
        /\ Emit(hop, p)
        /\ UNCHANGED <<status, crashedOn>>
  /\ UNCHANGED port

\* An expired route is renewed, unless there is no next hop.
RouteStale(p, hop) ==
  /\ StaleRoute(p.dst) /\ p.gps # NoPos
  /\ EraseExpired
  /\ fwd' = IF hop = BROADCASTADDRESS THEN fwd
            ELSE Renewed(p.dst, hop)
  /\ Emit(hop, p)
  /\ UNCHANGED <<port, status, crashedOn>>

\* A fresh route is used when IsLegal, and else recomputed: here the answer
\* "no next hop" is stored too.
RouteFresh(p, ahead, makeup) ==
  LET legal == IsLegal(fwd[p.dst].hop, ahead)
      hop == IF legal THEN fwd[p.dst].hop ELSE makeup
  IN
  /\ FreshRoute(p.dst)
  /\ IF legal THEN UNCHANGED tables
     ELSE /\ EraseExpired
          /\ fwd' = Renewed(p.dst, hop)
  /\ Emit(hop, p)
  /\ UNCHANGED <<port, status, crashedOn>>

Forwarding(p) ==
  \/ Flood(p)
  \/ \E hop \in RouteMakeup :
       \/ RouteUnknown(p, hop)
       \/ RouteStale(p, hop)
       \/ \E ahead \in BOOLEAN : RouteFresh(p, ahead, hop)

-----------------------------------------------------------------------------
(* recv_data: a datagram on the data port.                                 *)

\* The packet has arrived; a failing write to the tun device is fatal.
Deliver(p) ==
  /\ \/ out' = {[kind |-> "delivered", pkt |-> p]} /\ UNCHANGED status
     \/ out' = {} /\ status' = "exited"
  /\ UNCHANGED <<tables, port, crashedOn>>

\* Mutant: the decrement is forgotten.
DecrementForgotten(p) == p

\* uint32_t ttl-- : 0 wraps around to the largest value.
Decrement(p) == [p EXCEPT !.ttl = IF @ = 0 THEN U32 - 1 ELSE @ - 1]

Drop == out' = {} /\ UNCHANGED <<tables, port, status, crashedOn>>

RecvData(p) ==
  /\ status = "running"
  /\ \/ p.src = Me /\ Drop
     \/ p.src # Me /\ p.dst = Me /\ Deliver(p)
     \/ /\ p.src # Me /\ p.dst # Me
        /\ IF Decrement(p).ttl > 0 THEN Forwarding(Decrement(p)) ELSE Drop
  /\ UNCHANGED <<now, lastHeard>>

Next ==
  \/ Tick
  \/ SendBeacon
  \/ \E v \in Vip, g \in Pos : RecvBeacon(v, g)
  \/ \E d \in Dest : RecvTun(d) \/ RecvTunError(d)
  \/ \E p \in Genuine \cup Misread : RecvData(p)

Spec == Init /\ [][Next]_vars

-----------------------------------------------------------------------------
(* Invariants.                                                             *)

\* The tables hold what the code can store in them, the clock and the
\* counters stay in range.
TypeOK ==
  /\ now \in Time
  /\ DOMAIN fwd \subseteq Dest /\ fwd \in [DOMAIN fwd -> ForwardTableEntry]
  /\ DOMAIN nbr \subseteq Vip /\ nbr \in [DOMAIN nbr -> NeighborEntry]
  /\ port \in {BEACON_PORT, DATA_PORT}
  /\ status \in {"running", "exited", "crashed"}
  /\ crashedOn \subseteq Dest
  /\ DOMAIN lastHeard \subseteq Vip /\ lastHeard \in [DOMAIN lastHeard -> Time]

\* Every vehicle in the neighbour table also has a route, at least as new:
\* the two tables are purged separately (build_neighbor, RouteMakeup,
\* IsLegal), and Forwarding relies on the route being there.
NeighborHasRoute ==
  \A v \in DOMAIN nbr : v \in DOMAIN fwd /\ nbr[v].ts <= fwd[v].ts

\* When a route was entered or renewed, the vehicle it goes through had been
\* heard within TTLNEIGHBORTABLE: RouteMakeup and Forwarding never store a
\* next hop that had already left.
RouteThroughHeardVehicle ==
  \A d \in DOMAIN fwd :
    fwd[d].hop # BROADCASTADDRESS =>
      \E v \in DOMAIN lastHeard :
        /\ Phy[v] = fwd[d].hop
        /\ fwd[d].ts <= lastHeard[v] + TTLNEIGHBORTABLE

\* A relayed packet either is a flood, carrying no position, or goes to one
\* vehicle that was heard within TTLNEIGHBORTABLE: unlike recv_tun,
\* Forwarding never uses a dead hop nor the "no next hop" address.
RelayGoesToLiveVehicle ==
  \A o \in out :
    o.kind = "forwarded" =>
      \/ o.to = BROADCASTADDRESS /\ o.pkt.gps = NoPos
      \/ \E v \in DOMAIN lastHeard :
            /\ Phy[v] = o.to
            /\ now <= lastHeard[v] + TTLNEIGHBORTABLE

\* A packet that recv_data relays has a vehicle's address as its source only
\* if it is another's packet, not yet at its destination, with hops left and
\* fewer than it set out with: floods have no other protection from going
\* round for ever.
RelayDiscipline ==
  \A o \in out :
    o.kind = "forwarded" /\ o.pkt.src \in Vip =>
      /\ o.pkt.src # Me /\ o.pkt.dst # Me
      /\ o.pkt.ttl \in 1..InitTtl-1

\* Packets for a neighbour are sent with its position, never flooded:
\* the route that recv_tun finds was entered by the neighbour's beacon, not
\* by the branch of Forwarding that stores an arbitrary position.
NeighborPacketsCarryPosition ==
  \A o \in out :
    o.kind = "originated" /\ o.pkt.dst \in DOMAIN nbr => o.pkt.gps \in Pos

\* Reading through the end iterator (Forwarding, no route) happens only for
\* a destination that is not a neighbour: traffic between neighbours cannot
\* crash the process.
CrashOnlyOnStrangers == crashedOn \cap DOMAIN nbr = {}

\* What the tables' properties rest on.  No timestamp is in the future, the
\* neighbour table's are those of the last beacons, a neighbour's route holds
\* a position, and nothing runs after a crash.
ClocksAgree ==
  /\ \A v \in DOMAIN lastHeard : lastHeard[v] <= now
  /\ \A d \in DOMAIN fwd : fwd[d].ts <= now
  /\ \A v \in DOMAIN nbr : v \in DOMAIN lastHeard /\ nbr[v].ts = lastHeard[v]

NeighborRouteHasPosition ==
  \A v \in DOMAIN nbr : v \in DOMAIN fwd => fwd[v].gps \in Pos

CrashStops == crashedOn # {} => status = "crashed"

\* The inductive invariant of the two tables.
TablesInv ==
  /\ TypeOK
  /\ ClocksAgree
  /\ NeighborHasRoute
  /\ NeighborRouteHasPosition
  /\ RouteThroughHeardVehicle
  /\ CrashStops
  /\ CrashOnlyOnStrangers

-----------------------------------------------------------------------------
(* What the source says of itself and the code does not do.                *)

\* "create a UDP socket for beacon" (ir.cc:260), bound to BEACON_PORT like
\* broadcast_addr: beacons go to the port where beacons are received.
BeaconsOnBeaconPort ==
  \A o \in out : o.kind = "beacon" => o.port = BEACON_PORT
=============================================================================
