---------------------------- MODULE IRNodeProofs ----------------------------
(***************************************************************************)
(* Proofs about one vehicle: TablesInv is an inductive invariant of IRNode *)
(* for all values of the constants, and the safety properties that the     *)
(* runs check on small instances follow from it.                           *)
(***************************************************************************)
EXTENDS IRNode, NaturalLemmas, TLAPS

(* Closest picks a member of the set of vehicles it is given. *)
LEMMA ClosestIsMember ==
  ASSUME NEW view, NEW S, S \subseteq Nat, S # {},
         \A v \in S : view[v].dist \in Nat
  PROVE  Closest(view, S) \in S
<1> DEFINE Dists == {view[v].dist : v \in S}
<1>1. PICK m \in Dists : \A k \in Dists : m <= k
  <2>1. Dists \subseteq Nat /\ Dists # {}
    OBVIOUS
  <2> QED
    BY <2>1, LeastNatural
<1> DEFINE Nearest == {v \in S : view[v].dist = m}
<1>2. PICK v \in Nearest : \A k \in Nearest : v <= k
  <2>1. Nearest \subseteq Nat /\ Nearest # {}
    OBVIOUS
  <2> QED
    BY <2>1, LeastNatural
<1>3. \A u \in S : \/ view[v].dist < view[u].dist
                   \/ view[v].dist = view[u].dist /\ v <= u
  <2> SUFFICES ASSUME NEW u \in S
               PROVE  \/ view[v].dist < view[u].dist
                      \/ view[v].dist = view[u].dist /\ v <= u
    OBVIOUS
  <2>1. m <= view[u].dist /\ m \in Nat /\ view[u].dist \in Nat
    BY <1>1
  <2>2. view[v].dist = m
    BY <1>2
  <2>3. CASE view[u].dist = m
    BY <1>2, <2>2, <2>3
  <2>4. CASE view[u].dist # m
    BY <2>1, <2>2, <2>4
  <2> QED
    BY <2>3, <2>4
<1>4. v \in S
  BY <1>2
<1> QED
  BY <1>3, <1>4 DEF Closest

(* RouteMakeup answers "no next hop" or the address of a live neighbour. *)
LEMMA RouteMakeupAnswer ==
  ASSUME TypeOK, NEW hop \in RouteMakeup
  PROVE  hop = BROADCASTADDRESS \/ \E v \in Live : hop = Phy[v]
<1>1. PICK view \in [Live -> Sight] : hop = BestHop(view)
  BY DEF RouteMakeup
<1> DEFINE near == {v \in Live : view[v].dist < MAXDISTANCE}
           cone == {v \in near : view[v].ahead}
           S == IF cone # {} THEN cone ELSE near
<1>2. CASE near = {}
  BY <1>1, <1>2 DEF BestHop
<1>3. CASE near # {}
  <2>1. S \subseteq near /\ S # {}
    BY <1>3
  <2>2. near \subseteq Live /\ Live \subseteq Vip /\ Vip \subseteq Nat
    BY AddressAssumption DEF Live, TypeOK
  <2>3. \A v \in S : view[v].dist \in Nat
    <3>1. \A v \in Live : view[v] \in Sight
      OBVIOUS
    <3> QED
      BY <2>1, <2>2, <3>1, NumberAssumption DEF Sight
  <2>4. S \subseteq Nat
    BY <2>1, <2>2
  <2> HIDE DEF S
  <2>5. Closest(view, S) \in S
    BY <2>1, <2>3, <2>4, ClosestIsMember
  <2>6. hop = Phy[Closest(view, S)]
    BY <1>1, <1>3 DEF BestHop, S
  <2> QED
    BY <2>1, <2>2, <2>5, <2>6
<1> QED
  BY <1>2, <1>3

-----------------------------------------------------------------------------
(* How the tables may change.                                              *)

(* A step that leaves the tables, the clock and the history alone.         *)
LEMMA QuietStep ==
  ASSUME TablesInv, UNCHANGED <<now, fwd, nbr, lastHeard, crashedOn>>,
         port' \in {BEACON_PORT, DATA_PORT},
         status' \in {"running", "exited", "crashed"},
         crashedOn # {} => status' = status
  PROVE  TablesInv'
<1>1. TypeOK'
  BY DEF TablesInv, TypeOK
<1>2. ClocksAgree' /\ NeighborHasRoute' /\ NeighborRouteHasPosition'
      /\ RouteThroughHeardVehicle' /\ CrashOnlyOnStrangers'
  BY DEF TablesInv, ClocksAgree, NeighborHasRoute, NeighborRouteHasPosition,
         RouteThroughHeardVehicle, CrashOnlyOnStrangers
<1>3. CrashStops'
  BY DEF TablesInv, CrashStops
<1> QED
  BY <1>1, <1>2, <1>3 DEF TablesInv

(* The routes after Forwarding: each is as it was, or was stored now, with *)
(* a next hop that RouteMakeup answered and, if the destination had a      *)
(* route, its position.                                                    *)
RoutesStored ==
  /\ DOMAIN fwd \subseteq DOMAIN fwd'
  /\ DOMAIN fwd' \subseteq Dest /\ fwd' \in [DOMAIN fwd' -> ForwardTableEntry]
  /\ \A d \in DOMAIN fwd' :
       \/ d \in DOMAIN fwd /\ fwd'[d] = fwd[d]
       \/ /\ fwd'[d].ts = now
          /\ fwd'[d].hop \in RouteMakeup
          /\ d \in DOMAIN fwd => fwd'[d].gps = fwd[d].gps

(* A step of Forwarding that erases the expired neighbours and stores      *)
(* routes keeps the invariant of the tables.                               *)
LEMMA ForwardingStep ==
  ASSUME TablesInv, RoutesStored, EraseExpired,
         UNCHANGED <<now, lastHeard, port>>,
         status' \in {"running", "exited", "crashed"},
         crashedOn' \subseteq Dest, crashedOn' # {} => status' = "crashed",
         crashedOn' \cap DOMAIN nbr' = {}
  PROVE  TablesInv'
<1> USE DEF TablesInv
<1>1. /\ DOMAIN nbr' = Live /\ Live \subseteq DOMAIN nbr
      /\ \A v \in Live : nbr'[v] = nbr[v]
      /\ nbr' = [v \in Live |-> nbr[v]]
  BY DEF EraseExpired, Restrict, Live
<1>2. TypeOK'
  <2>1. nbr' \in [DOMAIN nbr' -> NeighborEntry] /\ DOMAIN nbr' \subseteq Vip
    BY <1>1 DEF TypeOK
  <2>2. Time' = Time /\ ForwardTableEntry' = ForwardTableEntry
    BY DEF Time, ForwardTableEntry
  <2> QED
    BY <2>1, <2>2 DEF TypeOK, RoutesStored
<1>3. now \in Nat /\ \A d \in DOMAIN fwd : fwd[d].ts \in Nat
  <2>1. Time \subseteq Nat
    BY NumberAssumption DEF Time
  <2> QED
    BY <2>1 DEF TypeOK, ForwardTableEntry
<1>4. ClocksAgree'
  BY <1>1, <1>3 DEF ClocksAgree, RoutesStored
<1>5. NeighborHasRoute'
  <2> SUFFICES ASSUME NEW v \in DOMAIN nbr'
               PROVE  v \in DOMAIN fwd' /\ nbr'[v].ts <= fwd'[v].ts
    BY DEF NeighborHasRoute
  <2>1. v \in DOMAIN fwd /\ nbr[v].ts <= fwd[v].ts /\ nbr'[v].ts = nbr[v].ts
    BY <1>1 DEF NeighborHasRoute
  <2>2. nbr[v].ts <= now
    BY <1>1 DEF ClocksAgree
  <2> QED
    BY <2>1, <2>2 DEF RoutesStored
<1>6. NeighborRouteHasPosition'
  <2> SUFFICES ASSUME NEW v \in DOMAIN nbr', v \in DOMAIN fwd'
               PROVE  fwd'[v].gps \in Pos
    BY DEF NeighborRouteHasPosition
  <2>1. v \in DOMAIN fwd /\ fwd[v].gps \in Pos
    BY <1>1 DEF NeighborHasRoute, NeighborRouteHasPosition
  <2> QED
    BY <2>1 DEF RoutesStored
<1>7. RouteThroughHeardVehicle'
  <2> SUFFICES ASSUME NEW d \in DOMAIN fwd', fwd'[d].hop # BROADCASTADDRESS
               PROVE  \E v \in DOMAIN lastHeard :
                        /\ Phy[v] = fwd'[d].hop
                        /\ fwd'[d].ts <= lastHeard[v] + TTLNEIGHBORTABLE
    BY DEF RouteThroughHeardVehicle
  <2>1. CASE d \in DOMAIN fwd /\ fwd'[d] = fwd[d]
    BY <2>1 DEF RouteThroughHeardVehicle
  <2>2. CASE fwd'[d].ts = now /\ fwd'[d].hop \in RouteMakeup
    <3>1. PICK v \in Live : fwd'[d].hop = Phy[v]
      BY <2>2, RouteMakeupAnswer
    <3>2. v \in DOMAIN lastHeard /\ nbr[v].ts = lastHeard[v]
      BY <1>1 DEF ClocksAgree
    <3>3. lastHeard[v] \in Nat
      BY <3>2, NumberAssumption DEF TypeOK, Time
    <3>4. ~ (now - nbr[v].ts > TTLNEIGHBORTABLE)
      BY DEF Live, Expired, Age
    <3>5. now <= lastHeard[v] + TTLNEIGHBORTABLE
      BY <1>3, <3>2, <3>3, <3>4, NumberAssumption
    <3> QED
      BY <2>2, <3>1, <3>2, <3>5
  <2> QED
    BY <2>1, <2>2 DEF RoutesStored
<1>8. CrashStops' /\ CrashOnlyOnStrangers'
  BY DEF CrashStops, CrashOnlyOnStrangers
<1> QED
  BY <1>2, <1>4, <1>5, <1>6, <1>7, <1>8

(* A beacon: what is purged from one table stays covered in the other.     *)
LEMMA BeaconStep ==
  ASSUME TablesInv, NEW w \in Vip, NEW g \in Pos, RecvBeacon(w, g)
  PROVE  TablesInv'
<1> USE DEF TablesInv
<1> DEFINE keptNbr == {u \in DOMAIN nbr : Age(nbr[u]) <= PurgeAge}
           keptFwd == {d \in DOMAIN fwd : Age(fwd[d]) <= PurgeAge}
           trace == IF w \notin keptNbr THEN 1
                    ELSE IF nbr[w].trace = MaxTrace THEN MaxTrace
                    ELSE nbr[w].trace + 1
           route == [hop |-> Phy[w], ts |-> now, gps |-> g]
           entry == [ts |-> now, trace |-> trace]
<1>1. /\ fwd' = [d \in keptFwd \cup {w} |-> IF d = w THEN route ELSE fwd[d]]
      /\ nbr' = [u \in keptNbr \cup {w} |-> IF u = w THEN entry ELSE nbr[u]]
      /\ lastHeard' = [u \in DOMAIN lastHeard \cup {w} |->
                         IF u = w THEN now ELSE lastHeard[u]]
  BY DEF RecvBeacon, BuildNeighbor, Put, Restrict
<1>2. /\ UNCHANGED <<now, port, status, crashedOn>>
      /\ status = "running" /\ crashedOn = {}
  BY DEF RecvBeacon, CrashStops
<1>3. now \in Time /\ Time \subseteq Nat
  BY NumberAssumption DEF TypeOK, Time
<1>4. trace \in 1..MaxTrace
  <2>1. \A u \in keptNbr : nbr[u].trace \in 1..MaxTrace
    BY DEF TypeOK, NeighborEntry
  <2> QED
    BY <2>1, NumberAssumption
<1> HIDE DEF trace
<1>5. route \in ForwardTableEntry /\ entry \in NeighborEntry
  <2>1. Phy[w] \in Hop
    BY DEF Hop
  <2> QED
    BY <1>3, <1>4, <2>1 DEF ForwardTableEntry, NeighborEntry
<1> HIDE DEF route, entry
<1>6. TypeOK'
  <2>1. /\ DOMAIN fwd' \subseteq Dest
        /\ fwd' \in [DOMAIN fwd' -> ForwardTableEntry]
    BY <1>1, <1>5 DEF TypeOK, Dest
  <2>2. DOMAIN nbr' \subseteq Vip /\ nbr' \in [DOMAIN nbr' -> NeighborEntry]
    BY <1>1, <1>5 DEF TypeOK
  <2>3. DOMAIN lastHeard' \subseteq Vip /\ lastHeard' \in [DOMAIN lastHeard' -> Time]
    BY <1>1, <1>3 DEF TypeOK
  <2> QED
    BY <1>2, <2>1, <2>2, <2>3 DEF TypeOK
<1>7. ClocksAgree'
  <2>1. route.ts = now /\ entry.ts = now
    BY DEF route, entry
  <2> QED
    BY <1>1, <1>2, <1>3, <2>1 DEF ClocksAgree
<1>8. NeighborHasRoute'
  <2> SUFFICES ASSUME NEW v \in DOMAIN nbr'
               PROVE  v \in DOMAIN fwd' /\ nbr'[v].ts <= fwd'[v].ts
    BY DEF NeighborHasRoute
  <2>1. CASE v = w
    BY <1>1, <1>3, <2>1 DEF route, entry
  <2>2. CASE v # w
    <3>1. v \in keptNbr /\ nbr'[v] = nbr[v]
      BY <1>1, <2>2
    <3>2. v \in DOMAIN fwd /\ nbr[v].ts <= fwd[v].ts
      BY <3>1 DEF NeighborHasRoute
    <3>3. nbr[v].ts \in Nat /\ fwd[v].ts \in Nat
      BY <1>3, <3>1, <3>2 DEF TypeOK, NeighborEntry, ForwardTableEntry
    <3>4. v \in keptFwd
      <4>1. now - nbr[v].ts <= PurgeAge
        BY <3>1 DEF Age
      <4>2. now \in Nat
        BY <1>3
      <4>3. now - fwd[v].ts <= PurgeAge
        BY <3>2, <3>3, <4>1, <4>2, NumberAssumption
      <4> QED
        BY <3>2, <4>3 DEF Age
    <3> QED
      BY <1>1, <2>2, <3>1, <3>2, <3>4
  <2> QED
    BY <2>1, <2>2
<1>9. NeighborRouteHasPosition'
  <2> SUFFICES ASSUME NEW v \in DOMAIN nbr', v \in DOMAIN fwd'
               PROVE  fwd'[v].gps \in Pos
    BY DEF NeighborRouteHasPosition
  <2>1. CASE v = w
    BY <1>1, <2>1 DEF route
  <2>2. CASE v # w
    BY <1>1, <2>2 DEF NeighborRouteHasPosition
  <2> QED
    BY <2>1, <2>2
<1>10. RouteThroughHeardVehicle'
  <2> SUFFICES ASSUME NEW d \in DOMAIN fwd', fwd'[d].hop # BROADCASTADDRESS
               PROVE  \E v \in DOMAIN lastHeard' :
                        /\ Phy[v] = fwd'[d].hop
                        /\ fwd'[d].ts <= lastHeard'[v] + TTLNEIGHBORTABLE
    BY DEF RouteThroughHeardVehicle
  <2>1. CASE d = w
    BY <1>1, <1>3, <2>1, NumberAssumption DEF route
  <2>2. CASE d # w
    <3>1. d \in keptFwd /\ fwd'[d] = fwd[d]
      BY <1>1, <2>2
    <3>2. PICK v \in DOMAIN lastHeard :
               /\ Phy[v] = fwd[d].hop
               /\ fwd[d].ts <= lastHeard[v] + TTLNEIGHBORTABLE
      BY <3>1 DEF RouteThroughHeardVehicle
    <3>3. fwd[d].ts \in Nat /\ fwd[d].ts <= now
      BY <1>3, <3>1 DEF TypeOK, ForwardTableEntry, ClocksAgree
    <3>4. fwd[d].ts <= lastHeard'[v] + TTLNEIGHBORTABLE /\ v \in DOMAIN lastHeard'
      BY <1>1, <1>3, <3>2, <3>3, NumberAssumption
    <3> QED
      BY <3>1, <3>2, <3>4
  <2> QED
    BY <2>1, <2>2
<1>11. CrashStops' /\ CrashOnlyOnStrangers'
  BY <1>2 DEF CrashStops, CrashOnlyOnStrangers
<1> QED
  BY <1>6, <1>7, <1>8, <1>9, <1>10, <1>11

-----------------------------------------------------------------------------
(* recv_data, branch by branch.                                            *)

(* The three branches of Forwarding that consult RouteMakeup.              *)
LEMMA RouteUnknownStep ==
  ASSUME TablesInv, NEW p \in DataMessage, NEW hop \in RouteMakeup,
         status = "running", RouteUnknown(p, hop), UNCHANGED <<now, lastHeard>>
  PROVE  TablesInv'
<1>1. p.dst \in Dest /\ p.dst \notin DOMAIN fwd /\ EraseExpired /\ UNCHANGED port
  BY DEF RouteUnknown, NoRoute, DataMessage
<1>2. DOMAIN nbr' \subseteq DOMAIN nbr
  BY <1>1 DEF EraseExpired, Restrict, Live
<1>3. now \in Time /\ hop \in Hop
  <2>1. \A v \in Live : Phy[v] \in Hop
    BY DEF Live, TablesInv, TypeOK, Hop
  <2>2. TypeOK /\ BROADCASTADDRESS \in Hop
    BY DEF TablesInv, Hop
  <2> QED
    BY <2>1, <2>2, RouteMakeupAnswer DEF TypeOK
<1>4. CASE status' = "crashed" /\ crashedOn' = {p.dst} /\ UNCHANGED fwd
  <2>1. RoutesStored
    BY <1>4 DEF RoutesStored, TablesInv, TypeOK
  <2>2. crashedOn' \cap DOMAIN nbr' = {}
    BY <1>1, <1>2, <1>4 DEF TablesInv, NeighborHasRoute
  <2> QED
    BY <1>1, <1>4, <2>1, <2>2, ForwardingStep
<1>5. ASSUME NEW g \in Pos \cup {NoPos},
             fwd' = IF hop = BROADCASTADDRESS THEN fwd
                    ELSE Put(fwd, p.dst, [hop |-> hop, ts |-> now, gps |-> g]),
             UNCHANGED <<status, crashedOn>>
      PROVE  TablesInv'
  <2> DEFINE route == [hop |-> hop, ts |-> now, gps |-> g]
  <2>1. route \in ForwardTableEntry
    BY <1>3 DEF ForwardTableEntry
  <2>2. RoutesStored
    <3>1. CASE hop = BROADCASTADDRESS
      BY <1>5, <3>1 DEF RoutesStored, TablesInv, TypeOK
    <3>2. CASE hop # BROADCASTADDRESS
      <4>1. fwd' = [k \in DOMAIN fwd \cup {p.dst} |->
                      IF k = p.dst THEN route ELSE fwd[k]]
        BY <1>5, <3>2 DEF Put
      <4> QED
        BY <1>1, <2>1, <4>1 DEF RoutesStored, TablesInv, TypeOK
    <3> QED
      BY <3>1, <3>2
  <2>3. crashedOn = {}
    BY DEF TablesInv, CrashStops
  <2> QED
    BY <1>1, <1>5, <2>2, <2>3, ForwardingStep
<1> QED
  BY <1>4, <1>5 DEF RouteUnknown

LEMMA RouteRenewed ==
  ASSUME TablesInv, NEW d \in DOMAIN fwd, NEW hop \in RouteMakeup,
         status = "running", EraseExpired,
         fwd' = Renewed(d, hop),
         UNCHANGED <<now, lastHeard, port, status, crashedOn>>
  PROVE  TablesInv'
<1>1. now \in Time /\ hop \in Hop
  <2>1. \A v \in Live : Phy[v] \in Hop
    BY DEF Live, TablesInv, TypeOK, Hop
  <2>2. TypeOK /\ BROADCASTADDRESS \in Hop
    BY DEF TablesInv, Hop
  <2> QED
    BY <2>1, <2>2, RouteMakeupAnswer DEF TypeOK
<1>2. fwd \in [DOMAIN fwd -> ForwardTableEntry]
  BY DEF TablesInv, TypeOK
<1>3. fwd[d] \in ForwardTableEntry
  BY <1>2
<1> DEFINE route == [hop |-> hop, ts |-> now, gps |-> fwd[d].gps]
<1>4. /\ fwd' = [k \in DOMAIN fwd |-> IF k = d THEN route ELSE fwd[k]]
      /\ route \in ForwardTableEntry
  BY <1>1, <1>2, <1>3 DEF ForwardTableEntry, Renewed, Put
<1>5. RoutesStored
  BY <1>2, <1>4 DEF RoutesStored, TablesInv, TypeOK
<1>6. crashedOn = {}
  BY DEF TablesInv, CrashStops
<1> QED
  BY <1>5, <1>6, ForwardingStep

LEMMA RouteStaleStep ==
  ASSUME TablesInv, NEW p \in DataMessage, NEW hop \in RouteMakeup,
         status = "running", RouteStale(p, hop), UNCHANGED <<now, lastHeard>>
  PROVE  TablesInv'
<1>1. /\ p.dst \in DOMAIN fwd /\ EraseExpired
      /\ UNCHANGED <<port, status, crashedOn>>
  BY DEF RouteStale, StaleRoute
<1>2. CASE hop = BROADCASTADDRESS
  <2>1. RoutesStored
    BY <1>2 DEF RouteStale, RoutesStored, TablesInv, TypeOK
  <2>2. crashedOn = {}
    BY DEF TablesInv, CrashStops
  <2> QED
    BY <1>1, <2>1, <2>2, ForwardingStep
<1>3. CASE hop # BROADCASTADDRESS
  BY <1>1, <1>3, RouteRenewed DEF RouteStale
<1> QED
  BY <1>2, <1>3

LEMMA RouteFreshStep ==
  ASSUME TablesInv, NEW p \in DataMessage, NEW ahead \in BOOLEAN,
         NEW hop \in RouteMakeup,
         status = "running", RouteFresh(p, ahead, hop), UNCHANGED <<now, lastHeard>>
  PROVE  TablesInv'
<1>1. p.dst \in DOMAIN fwd /\ UNCHANGED <<port, status, crashedOn>>
  BY DEF RouteFresh, FreshRoute
<1>2. CASE IsLegal(fwd[p.dst].hop, ahead)
  <2>1. UNCHANGED <<fwd, nbr>>
    BY <1>2 DEF RouteFresh, tables
  <2> QED
    BY <1>1, <2>1, QuietStep DEF TablesInv, TypeOK
<1>3. CASE ~IsLegal(fwd[p.dst].hop, ahead)
  BY <1>1, <1>3, RouteRenewed DEF RouteFresh
<1> QED
  BY <1>2, <1>3

(* A relayed packet is a data message with one hop fewer.                  *)
LEMMA DecrementType ==
  ASSUME NEW p \in DataMessage
  PROVE  Decrement(p) \in DataMessage
BY NumberAssumption DEF Decrement, DataMessage

LEMMA RecvDataStep ==
  ASSUME TablesInv, NEW p \in DataMessage, RecvData(p)
  PROVE  TablesInv'
<1>1. status = "running" /\ UNCHANGED <<now, lastHeard>> /\ TypeOK /\ crashedOn = {}
  BY DEF RecvData, TablesInv, CrashStops
<1>2. CASE Drop
  BY <1>1, <1>2, QuietStep DEF Drop, tables, TypeOK
<1>3. CASE Deliver(p)
  BY <1>1, <1>3, QuietStep DEF Deliver, tables, TypeOK
<1>4. CASE Forwarding(Decrement(p))
  <2> DEFINE q == Decrement(p)
  <2>1. q \in DataMessage
    BY DecrementType
  <2> HIDE DEF q
  <2>2. CASE Flood(q)
    BY <1>1, <2>2, QuietStep DEF Flood, tables, TypeOK
  <2>3. ASSUME NEW hop \in RouteMakeup, RouteUnknown(q, hop) PROVE TablesInv'
    BY <1>1, <2>1, <2>3, RouteUnknownStep
  <2>4. ASSUME NEW hop \in RouteMakeup, RouteStale(q, hop) PROVE TablesInv'
    BY <1>1, <2>1, <2>4, RouteStaleStep
  <2>5. ASSUME NEW hop \in RouteMakeup, NEW ahead \in BOOLEAN, RouteFresh(q, ahead, hop)
        PROVE  TablesInv'
    BY <1>1, <2>1, <2>5, RouteFreshStep
  <2>6. Forwarding(q)
    BY <1>4 DEF q
  <2> QED
    BY <2>2, <2>3, <2>4, <2>5, <2>6 DEF Forwarding
<1> QED
  BY <1>2, <1>3, <1>4 DEF RecvData

-----------------------------------------------------------------------------
(* The tables' invariant.                                                  *)

LEMMA InitTables == Init => TablesInv
<1> SUFFICES ASSUME Init PROVE TablesInv
  OBVIOUS
<1>1. DOMAIN fwd = {} /\ DOMAIN nbr = {} /\ DOMAIN lastHeard = {}
  BY DEF Init
<1>2. TypeOK
  <2>1. /\ fwd \in [DOMAIN fwd -> ForwardTableEntry]
        /\ nbr \in [DOMAIN nbr -> NeighborEntry]
        /\ lastHeard \in [DOMAIN lastHeard -> Time]
    BY <1>1 DEF Init
  <2>2. now \in Time
    BY NumberAssumption DEF Init, Time
  <2> QED
    BY <1>1, <2>1, <2>2 DEF Init, TypeOK
<1>3. ClocksAgree /\ NeighborHasRoute /\ NeighborRouteHasPosition
      /\ RouteThroughHeardVehicle
  BY <1>1 DEF ClocksAgree, NeighborHasRoute, NeighborRouteHasPosition,
              RouteThroughHeardVehicle
<1>4. CrashStops /\ CrashOnlyOnStrangers
  BY DEF Init, CrashStops, CrashOnlyOnStrangers
<1> QED
  BY <1>2, <1>3, <1>4 DEF TablesInv

LEMMA TickStep == TablesInv /\ Tick => TablesInv'
<1> SUFFICES ASSUME TablesInv, Tick PROVE TablesInv'
  OBVIOUS
<1> USE DEF TablesInv
<1>1. /\ now \in Nat /\ now' = now + 1 /\ now' \in Time
      /\ UNCHANGED <<fwd, nbr, port, status, crashedOn, lastHeard>>
  BY NumberAssumption DEF Tick, TypeOK, Time
<1>2. TypeOK'
  BY <1>1 DEF TypeOK
<1>3. ClocksAgree'
  <2>1. \A v \in DOMAIN lastHeard : lastHeard[v] \in Nat
    BY NumberAssumption DEF TypeOK, Time
  <2>2. \A d \in DOMAIN fwd : fwd[d].ts \in Nat
    BY NumberAssumption DEF TypeOK, ForwardTableEntry, Time
  <2> QED
    BY <1>1, <2>1, <2>2 DEF ClocksAgree
<1>4. NeighborHasRoute' /\ NeighborRouteHasPosition' /\ RouteThroughHeardVehicle'
      /\ CrashStops' /\ CrashOnlyOnStrangers'
  BY <1>1 DEF NeighborHasRoute, NeighborRouteHasPosition, RouteThroughHeardVehicle,
              CrashStops, CrashOnlyOnStrangers
<1> QED
  BY <1>2, <1>3, <1>4

LEMMA NextTables == TablesInv /\ [Next]_vars => TablesInv'
<1> SUFFICES ASSUME TablesInv, [Next]_vars PROVE TablesInv'
  OBVIOUS
<1>1. TypeOK /\ (status = "running" => crashedOn = {})
  BY DEF TablesInv, CrashStops
<1>2. CASE Tick
  BY <1>2, TickStep
<1>3. CASE SendBeacon
  BY <1>1, <1>3, QuietStep DEF SendBeacon, TypeOK
<1>4. ASSUME NEW v \in Vip, NEW g \in Pos, RecvBeacon(v, g) PROVE TablesInv'
  BY <1>4, BeaconStep
<1>5. ASSUME NEW d \in Dest, RecvTun(d) PROVE TablesInv'
  BY <1>1, <1>5, QuietStep
     DEF RecvTun, TunUnicast, TunBroadcast, tables, ghosts, TypeOK
<1>6. ASSUME NEW d \in Dest, RecvTunError(d) PROVE TablesInv'
  BY <1>1, <1>6, QuietStep DEF RecvTunError, tables, ghosts, TypeOK
<1>7. ASSUME NEW p \in Genuine \cup Misread, RecvData(p) PROVE TablesInv'
  BY <1>7, RecvDataStep DEF Genuine, Misread
<1>8. CASE UNCHANGED vars
  BY <1>1, <1>8, QuietStep DEF vars, TypeOK
<1> QED
  BY <1>2, <1>3, <1>4, <1>5, <1>6, <1>7, <1>8 DEF Next

(* TablesInv holds in every reachable state, for any vehicles, addresses,  *)
(* ages and clock bound.                                                   *)
THEOREM TablesInvariant == Spec => []TablesInv
BY InitTables, NextTables, PTL DEF Spec

(* The handlers of ir.cc keep the two tables well-formed.                  *)
THEOREM TypeCorrect == Spec => []TypeOK
<1>1. TablesInv => TypeOK
  BY DEF TablesInv
<1> QED
  BY <1>1, TablesInvariant, PTL

(* Each neighbour has a route at least as new as its entry.                *)
THEOREM NeighborsHaveRoutes == Spec => []NeighborHasRoute
<1>1. TablesInv => NeighborHasRoute
  BY DEF TablesInv
<1> QED
  BY <1>1, TablesInvariant, PTL

(* Each route was stored while its next hop was within its time to live.   *)
THEOREM RoutesThroughHeardVehicles == Spec => []RouteThroughHeardVehicle
<1>1. TablesInv => RouteThroughHeardVehicle
  BY DEF TablesInv
<1> QED
  BY <1>1, TablesInvariant, PTL

(* The read through the end iterator needs a packet for a stranger.        *)
THEOREM CrashesOnlyOnStrangers == Spec => []CrashOnlyOnStrangers
<1>1. TablesInv => CrashOnlyOnStrangers
  BY DEF TablesInv
<1> QED
  BY <1>1, TablesInvariant, PTL

-----------------------------------------------------------------------------
(* What a handler emits.                                                   *)

(* The fields of a packet after recv_data's decrement.                     *)
LEMMA DecrementFields ==
  ASSUME NEW p \in DataMessage
  PROVE  /\ Decrement(p).src = p.src /\ Decrement(p).dst = p.dst
         /\ Decrement(p).ttl = IF p.ttl = 0 THEN U32 - 1 ELSE p.ttl - 1
BY NumberAssumption DEF Decrement, DataMessage

(* A step emits a relayed packet only from Forwarding: as a flood without  *)
(* a position, or to a next hop that RouteMakeup answered (IsLegal never   *)
(* keeps the entry's, whose address is no key of the neighbour table).     *)
LEMMA RelayedBy ==
  ASSUME TablesInv, Next, NEW o \in out', o.kind = "forwarded"
  PROVE  /\ UNCHANGED <<now, lastHeard>>
         /\ \E p \in Genuine \cup Misread :
              /\ o.pkt = Decrement(p) /\ p.src # Me /\ p.dst # Me
              /\ Decrement(p).ttl > 0
         /\ \/ o.to = BROADCASTADDRESS /\ o.pkt.gps = NoPos
            \/ o.to \in RouteMakeup \ {BROADCASTADDRESS}
<1>1. PICK p \in Genuine \cup Misread : RecvData(p)
  <2>1. ~Tick /\ ~SendBeacon
    BY DEF Tick, SendBeacon
  <2>2. ASSUME NEW v, NEW g, RecvBeacon(v, g) PROVE FALSE
    BY <2>2 DEF RecvBeacon
  <2>3. ASSUME NEW d, RecvTun(d) PROVE FALSE
    BY <2>3 DEF RecvTun, TunUnicast, TunBroadcast
  <2>4. ASSUME NEW d, RecvTunError(d) PROVE FALSE
    BY <2>4 DEF RecvTunError
  <2> QED
    BY <2>1, <2>2, <2>3, <2>4 DEF Next
<1> DEFINE q == Decrement(p)
<1>2. ~Drop /\ ~Deliver(p)
  BY DEF Drop, Deliver
<1>3. p.src # Me /\ p.dst # Me /\ q.ttl > 0 /\ Forwarding(q)
  BY <1>1, <1>2 DEF RecvData
<1>4. UNCHANGED <<now, lastHeard>>
  BY <1>1 DEF RecvData
<1> HIDE DEF q
<1>5. CASE Flood(q)
  <2>1. o.to = BROADCASTADDRESS /\ o.pkt = q /\ q.gps = NoPos
    BY <1>5 DEF Flood
  <2> QED
    BY <1>3, <1>4, <2>1 DEF q
<1>6. ASSUME NEW hop, Emit(hop, q) PROVE o.to = hop /\ hop # BROADCASTADDRESS /\ o.pkt = q
  BY <1>6 DEF Emit
<1>7. ASSUME NEW hop \in RouteMakeup, RouteUnknown(q, hop) \/ RouteStale(q, hop)
      PROVE  Emit(hop, q)
  BY <1>7 DEF RouteUnknown, RouteStale
<1>8. ASSUME NEW hop \in RouteMakeup, NEW ahead \in BOOLEAN, RouteFresh(q, ahead, hop)
      PROVE  Emit(hop, q)
  <2>1. q.dst \in DOMAIN fwd
    BY <1>8 DEF RouteFresh, FreshRoute
  <2>2. fwd[q.dst].hop \in Hop
    BY <2>1 DEF TablesInv, TypeOK, ForwardTableEntry
  <2>3. fwd[q.dst].hop \notin DOMAIN nbr
    BY <2>2, AddressAssumption DEF TablesInv, TypeOK, Hop
  <2>4. ~IsLegal(fwd[q.dst].hop, ahead)
    BY <2>3 DEF IsLegal
  <2> QED
    BY <1>8, <2>4 DEF RouteFresh
<1>9. CASE \E hop \in RouteMakeup : Emit(hop, q)
  BY <1>3, <1>4, <1>6, <1>9 DEF q
<1> QED
  BY <1>3, <1>5, <1>7, <1>8, <1>9 DEF Forwarding

LEMMA RelayGoesToLiveVehicleStep ==
  TablesInv /\ RelayGoesToLiveVehicle /\ [Next]_vars => RelayGoesToLiveVehicle'
<1> SUFFICES ASSUME TablesInv, RelayGoesToLiveVehicle, [Next]_vars
             PROVE  RelayGoesToLiveVehicle'
  OBVIOUS
<1>1. CASE UNCHANGED vars
  BY <1>1 DEF RelayGoesToLiveVehicle, vars
<1>2. CASE Next
  <2> SUFFICES ASSUME NEW o \in out', o.kind = "forwarded",
                      ~(o.to = BROADCASTADDRESS /\ o.pkt.gps = NoPos)
               PROVE  \E v \in DOMAIN lastHeard' :
                        /\ Phy[v] = o.to
                        /\ now' <= lastHeard'[v] + TTLNEIGHBORTABLE
    BY DEF RelayGoesToLiveVehicle
  <2>1. UNCHANGED <<now, lastHeard>> /\ o.to \in RouteMakeup /\ o.to # BROADCASTADDRESS
    BY <1>2, RelayedBy
  <2>2. PICK v \in Live : o.to = Phy[v]
    BY <2>1, RouteMakeupAnswer DEF TablesInv
  <2>3. /\ v \in DOMAIN lastHeard /\ nbr[v].ts = lastHeard[v]
        /\ ~ (now - nbr[v].ts > TTLNEIGHBORTABLE)
    BY DEF Live, Expired, Age, TablesInv, ClocksAgree
  <2>4. now \in Nat /\ lastHeard[v] \in Nat
    BY <2>3, NumberAssumption DEF TablesInv, TypeOK, Time
  <2>5. now <= lastHeard[v] + TTLNEIGHBORTABLE
    BY <2>3, <2>4, NumberAssumption
  <2> QED
    BY <2>1, <2>2, <2>3, <2>5
<1> QED
  BY <1>1, <1>2

(* A relayed packet is a positionless flood or goes to a vehicle heard     *)
(* within TTLNEIGHBORTABLE.                                                *)
THEOREM RelaysGoToLiveVehicles == Spec => []RelayGoesToLiveVehicle
<1>1. Init => RelayGoesToLiveVehicle
  BY DEF Init, RelayGoesToLiveVehicle
<1> QED
  BY <1>1, TablesInvariant, RelayGoesToLiveVehicleStep, PTL DEF Spec

LEMMA RelayDisciplineStep ==
  TablesInv /\ RelayDiscipline /\ [Next]_vars => RelayDiscipline'
<1> SUFFICES ASSUME TablesInv, RelayDiscipline, [Next]_vars
             PROVE  RelayDiscipline'
  OBVIOUS
<1>1. CASE UNCHANGED vars
  BY <1>1 DEF RelayDiscipline, vars
<1>2. CASE Next
  <2> SUFFICES ASSUME NEW o \in out', o.kind = "forwarded", o.pkt.src \in Vip
               PROVE  /\ o.pkt.src # Me /\ o.pkt.dst # Me
                      /\ o.pkt.ttl \in 1..InitTtl-1
    BY DEF RelayDiscipline
  <2>1. PICK p \in Genuine \cup Misread :
               /\ o.pkt = Decrement(p) /\ p.src # Me /\ p.dst # Me
               /\ Decrement(p).ttl > 0
    BY <1>2, RelayedBy
  <2>2. p \in DataMessage
    BY DEF Genuine, Misread
  <2>3. /\ o.pkt.src = p.src /\ o.pkt.dst = p.dst
        /\ o.pkt.ttl = IF p.ttl = 0 THEN U32 - 1 ELSE p.ttl - 1
    BY <2>1, <2>2, DecrementFields
  <2>4. p.src \in Vip
    BY <2>3
  <2>5. p \in Genuine
    BY <2>4, AddressAssumption DEF Misread
  <2>6. p.ttl \in 1..InitTtl
    BY <2>5 DEF Genuine
  <2>7. o.pkt.ttl = p.ttl - 1 /\ o.pkt.ttl > 0
    BY <2>1, <2>3, <2>6, NumberAssumption
  <2> QED
    BY <2>1, <2>3, <2>6, <2>7, NumberAssumption
<1> QED
  BY <1>1, <1>2

(* A vehicle relays neither its own packets nor those that have arrived,   *)
(* and each with fewer hops left than it set out with.                     *)
THEOREM RelaysAreDisciplined == Spec => []RelayDiscipline
<1>1. Init => RelayDiscipline
  BY DEF Init, RelayDiscipline
<1> QED
  BY <1>1, TablesInvariant, RelayDisciplineStep, PTL DEF Spec

LEMMA NeighborPacketsStep ==
  TablesInv /\ NeighborPacketsCarryPosition /\ [Next]_vars
    => NeighborPacketsCarryPosition'
<1> SUFFICES ASSUME TablesInv, NeighborPacketsCarryPosition, [Next]_vars
             PROVE  NeighborPacketsCarryPosition'
  OBVIOUS
<1>1. CASE UNCHANGED vars
  BY <1>1 DEF NeighborPacketsCarryPosition, vars
<1>2. CASE Next
  <2> SUFFICES ASSUME NEW o \in out', o.kind = "originated",
                      o.pkt.dst \in DOMAIN nbr'
               PROVE  o.pkt.gps \in Pos
    BY DEF NeighborPacketsCarryPosition
  <2>1. ASSUME NEW p \in Genuine \cup Misread, RecvData(p) PROVE FALSE
    BY <2>1 DEF RecvData, Drop, Deliver, Forwarding, Flood, RouteUnknown,
                RouteStale, RouteFresh, Emit
  <2>2. PICK d \in Dest : RecvTun(d)
    <3>1. ~Tick /\ ~SendBeacon
      BY DEF Tick, SendBeacon
    <3>2. ASSUME NEW v, NEW g, RecvBeacon(v, g) PROVE FALSE
      BY <3>2 DEF RecvBeacon
    <3>3. ASSUME NEW d, RecvTunError(d) PROVE FALSE
      BY <3>3 DEF RecvTunError
    <3> QED
      BY <1>2, <2>1, <3>1, <3>2, <3>3 DEF Next
  <2>3. UNCHANGED nbr
    BY <2>2 DEF RecvTun, tables
  <2>4. o.pkt.dst = d
    BY <2>2 DEF RecvTun, TunUnicast, TunBroadcast, NewPacket
  <2>5. d \in DOMAIN fwd /\ fwd[d].gps \in Pos
    BY <2>3, <2>4 DEF TablesInv, NeighborHasRoute, NeighborRouteHasPosition
  <2>6. o.pkt.gps = fwd[d].gps
    BY <2>2, <2>5 DEF RecvTun, TunUnicast, TunBroadcast, NewPacket
  <2> QED
    BY <2>5, <2>6
<1> QED
  BY <1>1, <1>2

(* Packets for a neighbour always set out with its position.               *)
THEOREM NeighborPacketsHavePositions == Spec => []NeighborPacketsCarryPosition
<1>1. Init => NeighborPacketsCarryPosition
  BY DEF Init, NeighborPacketsCarryPosition
<1> QED
  BY <1>1, TablesInvariant, NeighborPacketsStep, PTL DEF Spec
=============================================================================
