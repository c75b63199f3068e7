----------------------------- MODULE Prediction -----------------------------
(***************************************************************************)
(* Time in the neighbour table of IRtestWLAN, and what AdvancedPredict     *)
(* makes of it.  IRNode's clock is exact; here it is what the code has:    *)
(* an int of milliseconds derived from gettimeofday, that whoever sets the *)
(* system's clock (gpsd's users do) moves back and forth, and that passes  *)
(* 2^31 after 24 days.  A timestamp is kept as uint32_t, an age is the int *)
(* difference, and RouteMakeup hands it to AdvancedPredict as uint32_t.    *)
(*                                                                         *)
(* AdvancedPredict extrapolates from the last position while the trace of  *)
(* a neighbour has fewer than MINTRACE positions.  From then on it enters  *)
(* one slope per whole second of age into k, after the first LAGS ones.    *)
(* Slopes and positions are left out: only the indices matter here.        *)
(***************************************************************************)
EXTENDS Integers, Functions

CONSTANTS
  Vehicle,          \* the other vehicles, keys of m_neighbor_table
  HALF,             \* 2^31: an int is in -HALF..HALF-1, a uint32_t below 2*HALF
  SECOND,           \* 1000, in ms
  TTLNEIGHBORTABLE, \* 3000, in ms
  PurgeAge,         \* the literal 5 of build_neighbor, in ms
  SLOTS, LAGS,      \* 20 elements of k, the first 7 from the trace
  MINTRACE,         \* 8 positions
  MAXTRACE,         \* 10 positions, in gpsq
  MaxStep,          \* how far the clock is set, for model checking
  MaxTime           \* bound on the time, for model checking

ASSUME PredictionAssumption ==
  /\ HALF \in Nat /\ SECOND \in Nat \ {0} /\ MaxTime \in Nat /\ MaxStep \in Nat
  /\ PurgeAge \in 0..SECOND - 1
  /\ TTLNEIGHBORTABLE \in PurgeAge..HALF - 1
  /\ SLOTS \in Nat /\ LAGS \in Nat \ {0}
  /\ MINTRACE \in Nat /\ MAXTRACE \in Nat /\ MINTRACE <= MAXTRACE
  \* what the constants of ir.h and ir.cc satisfy
  /\ LAGS < MINTRACE
  /\ LAGS + TTLNEIGHBORTABLE \div SECOND <= SLOTS
  /\ LAGS + HALF \div SECOND > SLOTS

VARIABLES
  time,      \* ms since schedule() began, as they really passed
  wall,      \* ms since begin_time by the system's clock
  nbr,       \* m_neighbor_table: timestamp and length of gpsq
  heard,     \* history: when the last beacon of each vehicle was handled
  used,      \* the neighbours of the last RouteMakeup
  overrun,   \* history: an index of k was out of bounds
  regressed, \* history: AdvancedPredict got past its early return
  backlog,   \* history: two beacons of a vehicle were handled at once
  set        \* history: the ways the clock has been set, "back" and "forth"

vars == <<time, wall, nbr, heard, used, overrun, regressed, backlog, set>>
ghosts == <<overrun, regressed, backlog, set>>

AsInt(n) == ((n + HALF) % (2 * HALF)) - HALF
AsUint(n) == n % (2 * HALF)

NeighborEntry == [ts : 0..2 * HALF - 1, trace : 1..MAXTRACE]

\* until_time - (int)GetTimestamp(), which wraps around as the int sums do.
Age(entry) == AsInt(AsInt(wall) - AsInt(entry.ts))

Init ==
  /\ time = 0 /\ wall = 0
  /\ nbr = << >> /\ heard = << >> /\ used = {}
  /\ overrun = FALSE /\ regressed = FALSE /\ backlog = FALSE
  /\ set = {}

Tick ==
  /\ time < MaxTime
  /\ time' = time + 1 /\ wall' = wall + 1
  /\ used' = {}
  /\ UNCHANGED <<nbr, heard, ghosts>>

\* Somebody sets the system's clock; the code never notices.
SetClock(d) ==
  /\ set = {} /\ d # 0
  /\ wall' = wall + d
  /\ set' = set \cup {IF d < 0 THEN "back" ELSE "forth"}
  /\ used' = {}
  /\ UNCHANGED <<time, nbr, heard, overrun, regressed, backlog>>

-----------------------------------------------------------------------------
\* Mutant: the neighbours are purged by the age of RouteMakeup.
OlderByTtl(entry, limit) == Age(entry) > TTLNEIGHBORTABLE

Older(entry, limit) == Age(entry) > limit

\* A position more, or the first one of a new entry.
Pushed(v, kept) ==
  IF v \notin kept THEN 1
  ELSE IF nbr[v].trace = MAXTRACE THEN MAXTRACE ELSE nbr[v].trace + 1

\* build_neighbor, its part on m_neighbor_table.
BuildNeighbor(v) ==
  LET kept == {u \in DOMAIN nbr : ~Older(nbr[u], PurgeAge)}
  IN  nbr' = [u \in kept \cup {v} |->
                IF u = v THEN [ts |-> AsUint(wall), trace |-> Pushed(v, kept)]
                         ELSE nbr[u]]

RecvBeacon(v) ==
  /\ BuildNeighbor(v)
  /\ heard' = [u \in DOMAIN heard \cup {v} |-> IF u = v THEN time ELSE heard[u]]
  /\ backlog' = (backlog \/ (v \in DOMAIN heard /\ time - heard[v] <= PurgeAge))
  /\ used' = {}
  /\ UNCHANGED <<time, wall, overrun, regressed, set>>

-----------------------------------------------------------------------------
\* Mutant: RouteMakeup keeps whoever is in the table.
LiveAll == DOMAIN nbr

\* Whom RouteMakeup keeps.
Live == {v \in DOMAIN nbr : ~Older(nbr[v], TTLNEIGHBORTABLE)}

\* AdvancedPredict uses the slopes of the trace.
Regresses(v) == nbr[v].trace >= MINTRACE

\* case_num = int(time/1000.0), the number of slopes added after the first.
CaseNum(v) == AsUint(Age(nbr[v])) \div SECOND

\* Its last slope goes to an element that k does not have.
Overruns(v) == Regresses(v) /\ LAGS + CaseNum(v) > SLOTS

\* The erase loop and the predictions of RouteMakeup; what a store past k's
\* end destroys is the stack, and the process may or may not go on.
RouteMakeup ==
  /\ used' = Live
  /\ nbr' = Restrict(nbr, Live)
  /\ regressed' = (regressed \/ \E v \in Live : Regresses(v))
  /\ overrun' = (overrun \/ \E v \in Live : Overruns(v))
  /\ UNCHANGED <<time, wall, heard, backlog, set>>

Next ==
  \/ Tick
  \/ \E d \in -MaxStep..MaxStep : SetClock(d)
  \/ \E v \in Vehicle : RecvBeacon(v)
  \/ RouteMakeup

Spec == Init /\ [][Next]_vars

-----------------------------------------------------------------------------
(* Invariants.                                                             *)

\* The table holds what the code can store in it.
TypeOK ==
  /\ time \in 0..MaxTime
  /\ wall \in time - MaxStep..time + MaxStep
  /\ DOMAIN nbr \subseteq Vehicle /\ nbr \in [DOMAIN nbr -> NeighborEntry]
  /\ heard \in [DOMAIN heard -> 0..MaxTime] /\ DOMAIN heard \subseteq Vehicle
  /\ DOMAIN nbr \subseteq DOMAIN heard /\ used \subseteq DOMAIN nbr
  /\ overrun \in BOOLEAN /\ regressed \in BOOLEAN /\ backlog \in BOOLEAN
  /\ set \subseteq {"back", "forth"}

TrueAge(v) == time - heard[v]

\* An entry that nothing purged for 2^31 ms looks as if it came from the
\* future, and its age is negative.
Ancient(v) == TrueAge(v) >= HALF

\* RouteMakeup uses a neighbour only within TTLNEIGHBORTABLE of its last
\* beacon, also while until_time passes 2^31, unless the clock was set or
\* the entry is so old that its age has wrapped around.
UsedAreRecent ==
  set = {} => \A v \in used : TrueAge(v) <= TTLNEIGHBORTABLE \/ Ancient(v)

\* The slopes of a trace are used at all only if two beacons of a vehicle
\* were handled within PurgeAge, as after a stall of the main thread, or the
\* clock was set or passed 2^31: otherwise every beacon starts a new trace.
RegressionNeedsBacklog == regressed => backlog \/ set # {} \/ time >= HALF

\* AdvancedPredict stays within k as long as the clock was not set back and
\* until_time has not passed 2^31 (a clock set forth from 1970 does): the
\* erase loop before it is what bounds ptr.
SlopesInBounds == overrun => "back" \in set \/ wall >= HALF
=============================================================================
