-------------------------- MODULE PredictionProofs --------------------------
(***************************************************************************)
(* Proofs about time in the neighbour table: that the 32-bit ages are the  *)
(* true ones as long as the clock was left alone and no entry is older     *)
(* than an int can say, and what follows for RouteMakeup and               *)
(* AdvancedPredict.                                                        *)
(***************************************************************************)
EXTENDS Prediction, TLAPS

LEMMA Constants ==
  /\ HALF \in Nat \ {0} /\ SECOND \in Nat \ {0} /\ MaxTime \in Nat /\ MaxStep \in Nat
  /\ PurgeAge \in Nat /\ TTLNEIGHBORTABLE \in Nat
  /\ PurgeAge <= TTLNEIGHBORTABLE /\ TTLNEIGHBORTABLE < HALF
  /\ SLOTS \in Nat /\ LAGS \in Nat /\ MINTRACE \in Nat /\ MAXTRACE \in Nat
  /\ 1 < MINTRACE /\ MINTRACE <= MAXTRACE
BY PredictionAssumption
-----------------------------------------------------------------------------
(* Arithmetic modulo 2^32.                                                 *)

(* A number has one remainder.                                             *)
LEMMA OneRemainder ==
  ASSUME NEW m \in Nat \ {0}, NEW r \in 0..m - 1, NEW s \in 0..m - 1, NEW k \in Int,
         r = s + k * m
  PROVE  r = s /\ k = 0
<1>1. CASE k >= 1
  <2>1. k * m >= m
    <3>1. (k - 1) * m >= 0
      BY <1>1
    <3> QED
      BY <3>1
  <2> QED
    BY <2>1
<1>2. CASE k <= -1
  <2>1. k * m <= -m
    <3>1. (-1 - k) * m >= 0
      BY <1>2
    <3> QED
      BY <3>1
  <2> QED
    BY <2>1
<1>3. CASE k = 0
  BY <1>3
<1> QED
  BY <1>1, <1>2, <1>3

LEMMA Remainder ==
  ASSUME NEW m \in Nat \ {0}, NEW n \in Int
  PROVE  n % m \in 0..m - 1 /\ n \div m \in Int /\ n = (n % m) + (n \div m) * m
OBVIOUS

LEMMA RemainderIs ==
  ASSUME NEW m \in Nat \ {0}, NEW n \in Int, NEW r \in 0..m - 1, NEW k \in Int, n = r + k * m
  PROVE  n % m = r
<1> DEFINE q == n \div m
           s == n % m
<1>1. s \in 0..m - 1 /\ q \in Int /\ n = s + q * m
  BY Remainder
<1> HIDE DEF q, s
<1>2. s = r + (k - q) * m
  BY <1>1
<1>3. k - q \in Int
  BY <1>1
<1>4. s = r
  BY <1>1, <1>2, <1>3, OneRemainder
<1> QED
  BY <1>4 DEF s

(* Casts change a number by a multiple of 2^32, into their range.          *)
LEMMA AsIntIs ==
  ASSUME NEW n \in Int
  PROVE  /\ AsInt(n) \in -HALF..HALF - 1
         /\ \E k \in Int : AsInt(n) = n + k * (2 * HALF)
<1> DEFINE m == 2 * HALF
           s == (n + HALF) % m
           q == (n + HALF) \div m
<1>1. m \in Nat \ {0} /\ n + HALF \in Int
  BY Constants
<1>2. s \in 0..m - 1 /\ q \in Int /\ n + HALF = s + q * m
  BY <1>1, Remainder
<1>3. AsInt(n) = s - HALF
  BY DEF AsInt
<1> HIDE DEF s, q
<1>4. s - HALF \in -HALF..HALF - 1
  BY <1>2, Constants
<1>5. s - HALF = n + (-q) * (2 * HALF) /\ -q \in Int
  BY <1>2, Constants
<1> QED
  BY <1>3, <1>4, <1>5

LEMMA AsIntOf ==
  ASSUME NEW n \in Int, NEW x \in -HALF..HALF - 1, NEW k \in Int, n = x + k * (2 * HALF)
  PROVE  AsInt(n) = x
<1> DEFINE m == 2 * HALF
<1>1. m \in Nat \ {0} /\ n + HALF \in Int /\ x + HALF \in 0..m - 1 /\ n + HALF = (x + HALF) + k * m
  BY Constants
<1>2. (n + HALF) % m = x + HALF
  BY <1>1, RemainderIs
<1> QED
  BY <1>2, Constants DEF AsInt

LEMMA AsUintIs ==
  ASSUME NEW n \in Int
  PROVE  /\ AsUint(n) \in 0..2 * HALF - 1
         /\ \E k \in Int : AsUint(n) = n + k * (2 * HALF)
         /\ n \in 0..2 * HALF - 1 => AsUint(n) = n
<1> DEFINE m == 2 * HALF
           s == n % m
           q == n \div m
<1>1. m \in Nat \ {0}
  BY Constants
<1>2. s \in 0..m - 1 /\ q \in Int /\ n = s + q * m
  BY <1>1, Remainder
<1>3. n \in 0..m - 1 => n % m = n
  <2>1. n = n + 0 * m
    BY <1>1
  <2> QED
    BY <1>1, <2>1, RemainderIs
<1>4. AsUint(n) = s
  BY DEF AsUint
<1> HIDE DEF s, q
<1>5. s = n + (-q) * (2 * HALF) /\ -q \in Int
  BY <1>2, Constants
<1> QED
  BY <1>2, <1>3, <1>4, <1>5 DEF s

(* The age of an entry that was stamped at time w is the true one, if an   *)
(* int can hold it, however often the clock has passed 2^31 since.         *)
LEMMA AgeIsTrue ==
  ASSUME NEW w \in Int, wall \in Int, NEW e, e.ts = AsUint(w), wall - w \in -HALF..HALF - 1
  PROVE  Age(e) = wall - w
<1>1. PICK a \in Int : AsInt(wall) = wall + a * (2 * HALF)
  BY AsIntIs
<1>2. PICK b \in Int : AsUint(w) = w + b * (2 * HALF)
  BY AsUintIs
<1>3. AsUint(w) \in Int
  BY AsUintIs, Constants
<1>4. PICK c \in Int : AsInt(AsUint(w)) = AsUint(w) + c * (2 * HALF)
  BY <1>3, AsIntIs
<1> DEFINE n == AsInt(wall) - AsInt(e.ts)
           k == a - b - c
<1>5. k \in Int /\ n = (wall - w) + k * (2 * HALF)
  BY <1>1, <1>2, <1>4, Constants
<1>6. n \in Int
  BY <1>5, Constants
<1> HIDE DEF n, k
<1>7. AsInt(n) = wall - w
  BY <1>5, <1>6, AsIntOf
<1> QED
  BY <1>7 DEF Age, n

(* A whole number of seconds.                                              *)
LEMMA SecondsGrow ==
  ASSUME NEW m \in Nat \ {0}, NEW x \in Nat, NEW y \in Nat, x <= y
  PROVE  x \div m \in Nat /\ x \div m <= y \div m
<1> DEFINE p == x \div m
           q == y \div m
           r == x % m
           s == y % m
<1>1. /\ r \in 0..m - 1 /\ p \in Int /\ x = r + p * m
      /\ s \in 0..m - 1 /\ q \in Int /\ y = s + q * m
  BY Remainder
<1> HIDE DEF p, q, r, s
<1>2. p >= 0
  <2> SUFFICES ASSUME p <= -1 PROVE FALSE
    BY <1>1
  <2>1. (-1 - p) * m >= 0
    BY <1>1
  <2> QED
    BY <1>1, <2>1
<1>3. p <= q
  <2> SUFFICES ASSUME p - q >= 1 PROVE FALSE
    BY <1>1
  <2>1. (p - q - 1) * m >= 0
    BY <1>1
  <2> QED
    BY <1>1, <2>1
<1> QED
  BY <1>1, <1>2, <1>3 DEF p, q
-----------------------------------------------------------------------------
(* Types.                                                                  *)

LEMMA TypeFacts ==
  ASSUME TypeOK
  PROVE  /\ time \in Int /\ wall \in Int
         /\ \A v \in DOMAIN nbr : /\ nbr[v].ts \in 0..2 * HALF - 1 /\ nbr[v].trace \in 1..MAXTRACE
                                  /\ v \in DOMAIN heard /\ v \in Vehicle
         /\ \A v \in DOMAIN heard : heard[v] \in 0..MaxTime
         /\ Live \subseteq DOMAIN nbr
BY Constants DEF TypeOK, NeighborEntry, Live

(* What build_neighbor keeps, and what it writes.                          *)
Kept == {u \in DOMAIN nbr : ~Older(nbr[u], PurgeAge)}

LEMMA RecvFacts ==
  ASSUME TypeOK, NEW v \in Vehicle, RecvBeacon(v)
  PROVE  /\ DOMAIN nbr' = Kept \cup {v} /\ Kept \subseteq DOMAIN nbr
         /\ \A u \in Kept : u # v => nbr'[u] = nbr[u]
         /\ nbr'[v] = [ts |-> AsUint(wall), trace |-> Pushed(v, Kept)]
         /\ nbr'[v] \in NeighborEntry
         /\ v \notin Kept => nbr'[v].trace = 1
         /\ DOMAIN heard' = DOMAIN heard \cup {v} /\ heard'[v] = time
         /\ \A u \in DOMAIN heard : u # v => heard'[u] = heard[u]
         /\ used' = {} /\ time' = time /\ wall' = wall /\ set' = set
<1>1. nbr' = [u \in Kept \cup {v} |->
                IF u = v THEN [ts |-> AsUint(wall), trace |-> Pushed(v, Kept)] ELSE nbr[u]]
  BY DEF RecvBeacon, BuildNeighbor, Kept
<1>2. heard' = [u \in DOMAIN heard \cup {v} |-> IF u = v THEN time ELSE heard[u]]
  BY DEF RecvBeacon
<1>3. Kept \subseteq DOMAIN nbr
  BY DEF Kept
<1>4. Pushed(v, Kept) \in 1..MAXTRACE /\ (v \notin Kept => Pushed(v, Kept) = 1)
  <2>1. v \in Kept => nbr[v].trace \in 1..MAXTRACE
    BY <1>3, TypeFacts
  <2> QED
    BY <2>1, Constants DEF Pushed
<1>5. AsUint(wall) \in 0..2 * HALF - 1
  BY TypeFacts, AsUintIs
<1>6. nbr'[v] = [ts |-> AsUint(wall), trace |-> Pushed(v, Kept)]
  BY <1>1
<1>7. nbr'[v] \in NeighborEntry /\ (v \notin Kept => nbr'[v].trace = 1)
  BY <1>4, <1>5, <1>6 DEF NeighborEntry
<1>8. DOMAIN nbr' = Kept \cup {v} /\ \A u \in Kept : u # v => nbr'[u] = nbr[u]
  BY <1>1
<1>9. /\ DOMAIN heard' = DOMAIN heard \cup {v} /\ heard'[v] = time
      /\ \A u \in DOMAIN heard : u # v => heard'[u] = heard[u]
  BY <1>2
<1> QED
  BY <1>3, <1>6, <1>7, <1>8, <1>9 DEF RecvBeacon

LEMMA RouteFacts ==
  ASSUME RouteMakeup
  PROVE  /\ used' = Live /\ DOMAIN nbr' = Live /\ \A v \in Live : nbr'[v] = nbr[v]
         /\ UNCHANGED <<time, wall, heard, backlog, set>>
BY DEF RouteMakeup, Restrict

(* The clock is set once.                                                  *)
TypeInv == TypeOK /\ (set = {} => wall = time)

LEMMA InitTyped == Init => TypeInv
<1> SUFFICES ASSUME Init PROVE TypeInv
  OBVIOUS
<1>1. << >> \in [{} -> NeighborEntry] /\ << >> \in [{} -> 0..MaxTime] /\ DOMAIN << >> = {}
  OBVIOUS
<1>2. nbr = << >> /\ heard = << >>
  BY DEF Init
<1>3. DOMAIN nbr = {} /\ DOMAIN heard = {}
  BY <1>1, <1>2
<1>4. nbr \in [DOMAIN nbr -> NeighborEntry] /\ heard \in [DOMAIN heard -> 0..MaxTime]
  BY <1>1, <1>2, <1>3
<1>5. time \in 0..MaxTime /\ wall \in time - MaxStep..time + MaxStep /\ wall = time
  BY Constants DEF Init
<1>6. overrun \in BOOLEAN /\ regressed \in BOOLEAN /\ backlog \in BOOLEAN /\ used = {} /\ set = {}
  BY DEF Init
<1> QED
  BY <1>3, <1>4, <1>5, <1>6 DEF TypeInv, TypeOK

LEMMA NextTyped ==
  ASSUME TypeInv, [Next]_vars
  PROVE  TypeInv'
<1> USE DEF TypeInv
<1>1. CASE Tick
  BY <1>1, Constants DEF Tick, TypeOK, ghosts
<1>2. ASSUME NEW d \in -MaxStep..MaxStep, SetClock(d)
      PROVE  TypeInv'
  <2>1. wall' \in time - MaxStep..time + MaxStep /\ set' # {} /\ set' \subseteq {"back", "forth"}
    BY <1>2, TypeFacts, Constants DEF SetClock
  <2> QED
    BY <1>2, <2>1 DEF SetClock, TypeOK
<1>3. ASSUME NEW v \in Vehicle, RecvBeacon(v)
      PROVE  TypeInv'
  <2>1. DOMAIN nbr' \subseteq Vehicle /\ nbr' \in [DOMAIN nbr' -> NeighborEntry]
    <3>1. DOMAIN nbr' = Kept \cup {v} /\ Kept \subseteq DOMAIN nbr
          /\ \A u \in DOMAIN nbr' : nbr'[u] \in NeighborEntry
      BY <1>3, RecvFacts DEF TypeOK
    <3>2. nbr' = [u \in DOMAIN nbr' |-> nbr'[u]]
      BY <1>3 DEF RecvBeacon, BuildNeighbor
    <3> QED
      BY <3>1, <3>2 DEF TypeOK
  <2>2. heard' \in [DOMAIN heard' -> 0..MaxTime] /\ DOMAIN heard' \subseteq Vehicle
    <3>1. /\ DOMAIN heard' = DOMAIN heard \cup {v}
          /\ \A u \in DOMAIN heard' : heard'[u] \in 0..MaxTime
      BY <1>3, RecvFacts DEF TypeOK
    <3>2. heard' = [u \in DOMAIN heard' |-> heard'[u]]
      BY <1>3 DEF RecvBeacon
    <3> QED
      BY <3>1, <3>2 DEF TypeOK
  <2>3. DOMAIN nbr' \subseteq DOMAIN heard' /\ used' \subseteq DOMAIN nbr'
    BY <1>3, RecvFacts DEF TypeOK
  <2>4. backlog' \in BOOLEAN /\ UNCHANGED <<time, wall, overrun, regressed, set>>
    BY <1>3 DEF RecvBeacon, TypeOK
  <2> QED
    BY <2>1, <2>2, <2>3, <2>4 DEF TypeOK
<1>4. CASE RouteMakeup
  <2>1. DOMAIN nbr' = Live /\ Live \subseteq DOMAIN nbr /\ used' = Live
        /\ UNCHANGED <<time, wall, heard, backlog, set>>
    BY <1>4, RouteFacts, TypeFacts
  <2>2. nbr' \in [DOMAIN nbr' -> NeighborEntry]
    BY <1>4, <2>1 DEF RouteMakeup, Restrict, TypeOK
  <2>3. regressed' \in BOOLEAN /\ overrun' \in BOOLEAN
    BY <1>4 DEF RouteMakeup, TypeOK
  <2> QED
    BY <2>1, <2>2, <2>3 DEF TypeOK
<1>5. CASE UNCHANGED vars
  BY <1>5 DEF vars, TypeOK
<1> QED
  BY <1>1, <1>2, <1>3, <1>4, <1>5 DEF Next
-----------------------------------------------------------------------------
(* Until the clock is set, the table has when each neighbour was heard.    *)

Stamped ==
  set = {} => \A v \in DOMAIN nbr : nbr[v].ts = AsUint(heard[v]) /\ heard[v] <= time

LEMMA NextStamped ==
  ASSUME TypeInv, Stamped, [Next]_vars
  PROVE  Stamped'
<1> SUFFICES ASSUME set' = {}
             PROVE  \A v \in DOMAIN nbr' : nbr'[v].ts = AsUint(heard'[v]) /\ heard'[v] <= time'
  BY DEF Stamped, AsUint
<1> USE DEF TypeInv
<1>1. CASE Tick
  <2>1. UNCHANGED <<nbr, heard, set>> /\ time' = time + 1
    BY <1>1 DEF Tick, ghosts
  <2>2. \A v \in DOMAIN nbr : heard[v] \in Int /\ time \in Int
    BY TypeFacts, Constants
  <2> QED
    BY <2>1, <2>2 DEF Stamped
<1>2. ASSUME NEW d \in -MaxStep..MaxStep, SetClock(d)
      PROVE  FALSE
  BY <1>2 DEF SetClock
<1>3. ASSUME NEW v \in Vehicle, RecvBeacon(v)
      PROVE  \A u \in DOMAIN nbr' : nbr'[u].ts = AsUint(heard'[u]) /\ heard'[u] <= time'
  <2>1. set = {} /\ wall = time /\ time' = time /\ time \in Int
    BY <1>3, RecvFacts, TypeFacts
  <2>2. nbr'[v].ts = AsUint(heard'[v]) /\ heard'[v] <= time
    <3>1. nbr'[v] = [ts |-> AsUint(wall), trace |-> Pushed(v, Kept)] /\ heard'[v] = time
      BY <1>3, RecvFacts
    <3>2. heard'[v] = wall
      BY <2>1, <3>1
    <3>3. nbr'[v].ts = AsUint(wall)
      BY <3>1
    <3> QED
      BY <2>1, <3>1, <3>2, <3>3
  <2>3. ASSUME NEW u \in DOMAIN nbr', u # v
        PROVE  nbr'[u] = nbr[u] /\ heard'[u] = heard[u] /\ u \in DOMAIN nbr
    <3>1. DOMAIN nbr' = Kept \cup {v} /\ Kept \subseteq DOMAIN nbr
      BY <1>3, RecvFacts
    <3>2. u \in Kept /\ u \in DOMAIN heard
      BY <2>3, <3>1, TypeFacts
    <3> QED
      BY <1>3, <2>3, <3>1, <3>2, RecvFacts
  <2> QED
    BY <2>1, <2>2, <2>3 DEF Stamped
<1>4. CASE RouteMakeup
  BY <1>4, RouteFacts, TypeFacts DEF Stamped
<1>5. CASE UNCHANGED vars
  BY <1>5 DEF vars, Stamped
<1> QED
  BY <1>1, <1>2, <1>3, <1>4, <1>5 DEF Next

LEMMA StampedAge ==
  ASSUME TypeInv, Stamped, set = {}, NEW v \in DOMAIN nbr, ~Ancient(v)
  PROVE  Age(nbr[v]) = TrueAge(v) /\ TrueAge(v) \in Nat
<1>1. /\ nbr[v].ts = AsUint(heard[v]) /\ heard[v] <= time /\ heard[v] \in Int /\ time \in Int
      /\ wall = time
  BY TypeFacts, Constants DEF Stamped, TypeInv
<1>2. wall - heard[v] \in -HALF..HALF - 1
  BY <1>1, Constants DEF Ancient, TrueAge
<1> QED
  BY <1>1, <1>2, AgeIsTrue DEF TrueAge

LEMMA NextUsed ==
  ASSUME TypeInv, Stamped, UsedAreRecent, [Next]_vars
  PROVE  UsedAreRecent'
<1> SUFFICES ASSUME set' = {}, NEW v \in used'
             PROVE  time' - heard'[v] <= TTLNEIGHBORTABLE \/ time' - heard'[v] >= HALF
  BY DEF UsedAreRecent, TrueAge, Ancient
<1>1. CASE Tick \/ (\E d \in -MaxStep..MaxStep : SetClock(d)) \/ \E u \in Vehicle : RecvBeacon(u)
  <2>1. used' = {}
    BY <1>1 DEF Tick, SetClock, RecvBeacon
  <2> QED
    BY <2>1
<1>2. CASE RouteMakeup
  <2>1. v \in Live /\ v \in DOMAIN nbr /\ set = {} /\ time' = time /\ heard' = heard
    BY <1>2, RouteFacts, TypeFacts DEF TypeInv
  <2>2. ~(Age(nbr[v]) > TTLNEIGHBORTABLE)
    BY <2>1 DEF Live, Older
  <2>3. time - heard[v] \in Int
    BY <2>1, TypeFacts, Constants DEF TypeInv
  <2>4. CASE Ancient(v)
    BY <2>1, <2>4 DEF Ancient, TrueAge
  <2>5. CASE ~Ancient(v)
    <3>1. Age(nbr[v]) = time - heard[v]
      BY <2>1, <2>5, StampedAge DEF TrueAge
    <3> QED
      BY <2>1, <2>2, <2>3, <3>1, Constants
  <2> QED
    BY <2>4, <2>5
<1>3. CASE UNCHANGED vars
  BY <1>3 DEF vars, UsedAreRecent, TrueAge, Ancient
<1> QED
  BY <1>1, <1>2, <1>3 DEF Next
-----------------------------------------------------------------------------
(* Without a backlog every beacon starts a new trace, of one position.     *)

Undisturbed == ~backlog /\ set = {} /\ time < HALF

NoTraces == Undisturbed => ~regressed /\ \A v \in DOMAIN nbr : nbr[v].trace = 1

LEMMA NextTraces ==
  ASSUME TypeInv, Stamped, NoTraces, [Next]_vars
  PROVE  NoTraces'
<1> SUFFICES ASSUME Undisturbed'
             PROVE  ~regressed' /\ \A v \in DOMAIN nbr' : nbr'[v].trace = 1
  BY DEF NoTraces
<1>1. CASE Tick
  <2>1. time' = time + 1 /\ UNCHANGED <<nbr, regressed, backlog, set>>
    BY <1>1 DEF Tick, ghosts
  <2>2. Undisturbed
    BY <2>1, TypeFacts, Constants DEF Undisturbed, TypeInv
  <2> QED
    BY <2>1, <2>2 DEF NoTraces
<1>2. ASSUME NEW d \in -MaxStep..MaxStep, SetClock(d)
      PROVE  FALSE
  BY <1>2 DEF SetClock, Undisturbed
<1>3. ASSUME NEW v \in Vehicle, RecvBeacon(v)
      PROVE  ~regressed' /\ \A u \in DOMAIN nbr' : nbr'[u].trace = 1
  <2>1. time' = time /\ set' = set
    BY <1>3, RecvFacts DEF TypeInv
  <2>2. regressed' = regressed
    BY <1>3 DEF RecvBeacon
  <2>3. ~backlog /\ ~(v \in DOMAIN heard /\ time - heard[v] <= PurgeAge)
    BY <1>3 DEF RecvBeacon, Undisturbed
  <2>4. Undisturbed
    BY <2>1, <2>3 DEF Undisturbed
  <2>5. v \notin Kept
    <3> SUFFICES ASSUME v \in DOMAIN nbr, ~(Age(nbr[v]) > PurgeAge) PROVE FALSE
      BY DEF Kept, Older
    <3>1. heard[v] \in Nat /\ time \in Int /\ v \in DOMAIN heard
      BY TypeFacts, Constants DEF TypeInv
    <3>2. ~Ancient(v)
      BY <2>4, <3>1, Constants DEF Undisturbed, Ancient, TrueAge
    <3>3. Age(nbr[v]) = time - heard[v]
      BY <2>4, <3>2, StampedAge DEF Undisturbed, TrueAge
    <3> QED
      BY <2>3, <3>1, <3>3, Constants
  <2>6. nbr'[v].trace = 1 /\ DOMAIN nbr' = Kept \cup {v} /\ Kept \subseteq DOMAIN nbr
    BY <1>3, <2>5, RecvFacts DEF TypeInv
  <2>7. \A u \in Kept : nbr'[u] = nbr[u]
    BY <1>3, <2>5, RecvFacts DEF TypeInv
  <2> QED
    BY <2>2, <2>4, <2>6, <2>7 DEF NoTraces
<1>4. CASE RouteMakeup
  <2>1. Undisturbed
    BY <1>4, RouteFacts DEF Undisturbed
  <2>2. \A v \in Live : nbr[v].trace = 1 /\ nbr'[v] = nbr[v]
    BY <1>4, <2>1, RouteFacts, TypeFacts DEF NoTraces, TypeInv
  <2>3. ~regressed /\ ~ \E v \in Live : Regresses(v)
    BY <2>1, <2>2, Constants DEF NoTraces, Regresses
  <2>4. ~regressed'
    BY <1>4, <2>3 DEF RouteMakeup
  <2> QED
    BY <1>4, <2>2, <2>4, RouteFacts
<1>5. CASE UNCHANGED vars
  BY <1>5 DEF vars, NoTraces, Undisturbed
<1> QED
  BY <1>1, <1>2, <1>3, <1>4, <1>5 DEF Next
-----------------------------------------------------------------------------
(* As long as the clock only goes forth, and an int holds it, no stamp is  *)
(* of the future.                                                          *)

Forth == "back" \notin set /\ wall < HALF

NoFuture ==
  /\ "back" \notin set => wall >= 0
  /\ Forth => \A v \in DOMAIN nbr : nbr[v].ts <= wall
  /\ overrun => ~Forth

LEMMA ForthAge ==
  ASSUME TypeInv, NoFuture, Forth, NEW v \in DOMAIN nbr
  PROVE  Age(nbr[v]) \in Nat
<1>1. nbr[v].ts \in 0..wall /\ wall \in Nat /\ wall < HALF
  BY TypeFacts, Constants DEF NoFuture, Forth, TypeInv
<1> DEFINE w == nbr[v].ts
<1>2. w \in 0..2 * HALF - 1 /\ w \in Int /\ wall - w \in -HALF..HALF - 1 /\ wall - w \in Nat
  BY <1>1, Constants
<1>3. nbr[v].ts = AsUint(w)
  BY <1>2, AsUintIs
<1>4. wall \in Int
  BY <1>1
<1> HIDE DEF w
<1>5. Age(nbr[v]) = wall - w
  BY <1>2, <1>3, <1>4, AgeIsTrue
<1> QED
  BY <1>2, <1>5

LEMMA ForthStays ==
  ASSUME TypeInv, NoFuture, Forth, NEW v \in Live
  PROVE  ~Overruns(v)
<1>1. v \in DOMAIN nbr /\ ~(Age(nbr[v]) > TTLNEIGHBORTABLE)
  BY DEF Live, Older
<1>2. Age(nbr[v]) \in 0..TTLNEIGHBORTABLE
  BY <1>1, ForthAge, Constants
<1>3. AsUint(Age(nbr[v])) = Age(nbr[v])
  BY <1>2, AsUintIs, Constants
<1>4. /\ CaseNum(v) \in Nat /\ CaseNum(v) <= TTLNEIGHBORTABLE \div SECOND
      /\ TTLNEIGHBORTABLE \div SECOND \in Nat
  BY <1>2, <1>3, SecondsGrow, Constants DEF CaseNum
<1>5. LAGS + TTLNEIGHBORTABLE \div SECOND <= SLOTS
  BY PredictionAssumption
<1> QED
  BY <1>4, <1>5, Constants DEF Overruns

LEMMA NextFuture ==
  ASSUME TypeInv, NoFuture, [Next]_vars
  PROVE  NoFuture'
<1>0. wall \in Int /\ HALF \in Int
  BY TypeFacts, Constants DEF TypeInv
<1>1. CASE Tick
  <2>1. wall' = wall + 1 /\ UNCHANGED <<nbr, overrun, set>>
    BY <1>1 DEF Tick, ghosts
  <2>2. Forth' => Forth
    BY <1>0, <2>1 DEF Forth
  <2>3. \A v \in DOMAIN nbr : nbr[v].ts \in Int
    BY TypeFacts, Constants DEF TypeInv
  <2> QED
    BY <1>0, <2>1, <2>2, <2>3 DEF NoFuture
<1>2. ASSUME NEW d \in -MaxStep..MaxStep, SetClock(d)
      PROVE  NoFuture'
  <2>1. /\ wall' = wall + d /\ d \in Int /\ set' = set \cup {IF d < 0 THEN "back" ELSE "forth"}
        /\ nbr' = nbr /\ overrun' = overrun
    BY <1>2, Constants DEF SetClock
  <2>2. "back" \notin set' => "back" \notin set /\ d >= 0
    BY <2>1
  <2>3. Forth' => Forth
    BY <1>0, <2>1, <2>2 DEF Forth
  <2>4. \A v \in DOMAIN nbr : nbr[v].ts \in Int
    BY TypeFacts, Constants DEF TypeInv
  <2>5. "back" \notin set' => wall' >= wall /\ wall' >= 0
    BY <1>0, <2>1, <2>2 DEF NoFuture
  <2>6. Forth' => \A v \in DOMAIN nbr' : nbr'[v].ts <= wall'
    BY <1>0, <2>1, <2>3, <2>4, <2>5 DEF NoFuture, Forth
  <2>7. overrun' => ~Forth'
    BY <2>1, <2>3 DEF NoFuture
  <2> QED
    BY <2>5, <2>6, <2>7 DEF NoFuture
<1>3. ASSUME NEW v \in Vehicle, RecvBeacon(v)
      PROVE  NoFuture'
  <2>1. wall' = wall /\ set' = set
    BY <1>3, RecvFacts DEF TypeInv
  <2>2. overrun' = overrun
    BY <1>3 DEF RecvBeacon
  <2>3. ASSUME Forth, NEW u \in DOMAIN nbr'
        PROVE  nbr'[u].ts <= wall
    <3>1. CASE u = v
      <4>1. wall \in 0..2 * HALF - 1
        BY <1>0, <2>3, Constants DEF NoFuture, Forth
      <4>2. AsUint(wall) = wall
        BY <4>1, <1>0, AsUintIs
      <4>3. nbr'[v] = [ts |-> AsUint(wall), trace |-> Pushed(v, Kept)]
        BY <1>3, RecvFacts DEF TypeInv
      <4> QED
        BY <1>0, <3>1, <4>2, <4>3
    <3>2. CASE u # v
      <4>1. /\ DOMAIN nbr' = Kept \cup {v} /\ Kept \subseteq DOMAIN nbr
            /\ \A x \in Kept : x # v => nbr'[x] = nbr[x]
        BY <1>3, RecvFacts DEF TypeInv
      <4>2. u \in DOMAIN nbr /\ nbr'[u] = nbr[u]
        BY <3>2, <4>1
      <4> QED
        BY <2>3, <4>2 DEF NoFuture
    <3> QED
      BY <3>1, <3>2
  <2> QED
    BY <2>1, <2>2, <2>3 DEF NoFuture, Forth
<1>4. CASE RouteMakeup
  <2>1. wall' = wall /\ set' = set /\ DOMAIN nbr' = Live /\ Live \subseteq DOMAIN nbr
        /\ \A v \in Live : nbr'[v] = nbr[v]
    BY <1>4, RouteFacts, TypeFacts DEF TypeInv
  <2>2. overrun' => overrun \/ \E v \in Live : Overruns(v)
    BY <1>4 DEF RouteMakeup
  <2>3. overrun' => ~Forth
    BY <2>2, ForthStays DEF NoFuture
  <2> QED
    BY <2>1, <2>3 DEF NoFuture, Forth
<1>5. CASE UNCHANGED vars
  BY <1>5 DEF vars, NoFuture, Forth
<1> QED
  BY <1>1, <1>2, <1>3, <1>4, <1>5 DEF Next
-----------------------------------------------------------------------------
(* Theorems.                                                               *)

PredictionInv == TypeInv /\ Stamped /\ UsedAreRecent /\ NoTraces /\ NoFuture

LEMMA InitPrediction == Init => PredictionInv
<1> SUFFICES ASSUME Init PROVE PredictionInv
  OBVIOUS
<1>1. DOMAIN nbr = {} /\ used = {} /\ ~regressed /\ ~overrun /\ wall = 0
  BY DEF Init
<1> QED
  BY <1>1, InitTyped DEF PredictionInv, Stamped, UsedAreRecent, NoTraces, NoFuture

LEMMA SpecPrediction == Spec => []PredictionInv
<1>1. PredictionInv /\ [Next]_vars => PredictionInv'
  BY NextTyped, NextStamped, NextUsed, NextTraces, NextFuture DEF PredictionInv
<1> QED
  BY <1>1, InitPrediction, PTL DEF Spec

(* Whatever the clock does, m_neighbor_table of ir.cc holds stamps that    *)
(* fit a uint32_t and traces of at most MAXTRACE positions, and            *)
(* RouteMakeup uses nobody it did not keep.                                *)
THEOREM PredictionTypeCorrect == Spec => []TypeOK
<1>1. PredictionInv => TypeOK
  BY DEF PredictionInv, TypeInv
<1> QED
  BY <1>1, SpecPrediction, PTL

(* The purge of RouteMakeup compares int and uint32_t times that wrap      *)
(* around; unless the clock was set, it keeps no neighbour longer than     *)
(* TTLNEIGHBORTABLE after its last beacon, but for those of 2^31 ms ago.   *)
THEOREM RouteMakeupUsesRecent == Spec => []UsedAreRecent
<1>1. PredictionInv => UsedAreRecent
  BY DEF PredictionInv
<1> QED
  BY <1>1, SpecPrediction, PTL

(* The purge of build_neighbor ends a trace before the next beacon, so     *)
(* that AdvancedPredict has no slopes to use until two beacons of a        *)
(* vehicle are handled at once, the clock is set or it passes 2^31.        *)
THEOREM PredictionNeedsBacklog == Spec => []RegressionNeedsBacklog
<1>1. PredictionInv => RegressionNeedsBacklog
  BY TypeFacts, Constants DEF PredictionInv, RegressionNeedsBacklog, NoTraces, Undisturbed, TypeInv
<1> QED
  BY <1>1, SpecPrediction, PTL

(* AdvancedPredict has no check of ptr: the age that RouteMakeup lets pass *)
(* keeps it within the 20 elements of k, until the clock is set back or    *)
(* passes 2^31.                                                            *)
THEOREM PredictionStaysInBounds == Spec => []SlopesInBounds
<1>1. PredictionInv => SlopesInBounds
  BY TypeFacts, Constants DEF PredictionInv, SlopesInBounds, NoFuture, Forth, TypeInv
<1> QED
  BY <1>1, SpecPrediction, PTL
=============================================================================
