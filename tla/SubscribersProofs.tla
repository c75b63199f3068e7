-------------------------- MODULE SubscribersProofs -------------------------
(***************************************************************************)
(* Proofs about the client sessions: which of the promises about slots,    *)
(* descriptors and all_fds survive that two threads work on them, and      *)
(* which need that they did not get across.                                *)
(***************************************************************************)
EXTENDS Subscribers, SequenceTheorems, NaturalLemmas, TLAPS

MainType ==
  [at : {"select", "wait", "accept", "install", "raise", "store", "fill",
         "activate", "greet", "report", "test", "recv", "stamp", "handle",
         "detach"} \cup Inside,
   slot : Slot, phase : {"greet", "report", "test"}, data : BOOLEAN,
   rfds : SUBSET Fd, fd : Fd, req : Request \cup {NoRequest}]

PpsType == [at : {"wait", "send", "detach"} \cup Inside, slot : Slot]

(* Where the main thread has accepted a client whose descriptor is not in  *)
(* the slot yet, and where that descriptor is in all_fds already.          *)
Installs == {"install", "raise", "store", "fill"}
Raised == {"raise", "store", "fill"}

LEMMA Numbers ==
  /\ Slot \subseteq Nat /\ 0 \in Slot /\ Fd \subseteq Nat /\ 0 \in Fd /\ Msock \in Fd /\ Device \in Fd
  /\ UNALLOCATED_FD \in Int /\ ~(UNALLOCATED_FD > 0) /\ UNALLOCATED_FD \notin Nat
  /\ Conn \subseteq Nat /\ Closed \notin Conn /\ Other \notin Conn /\ Other # Closed
BY SubscribersAssumption DEF Slot, Fd, UNALLOCATED_FD, Conn, Closed, Other, Msock, Device

LEMMA Requests ==
  ASSUME NEW r \in Request
  PROVE  r[1] \in SUBSET Flag /\ r # NoRequest
<1>1. PICK flags \in SUBSET Flag : r = <<flags>>
  BY SubscribersAssumption
<1> QED
  BY <1>1 DEF NoRequest

LEMMA IdleIsMain == Idle \in MainType
BY Numbers DEF Idle, MainType

(* Where the main thread goes on: to an active slot, and in the last phase *)
(* only forward.                                                           *)
LEMMA GoesOn ==
  ASSUME NEW m \in MainType
  PROVE  /\ Go(m) \in MainType /\ Go(m).fd = 0 /\ Go(m).req = NoRequest
         /\ Go(m).rfds \in {m.rfds, {}}
         /\ \/ Go(m).at = "select" /\ Go(m).rfds = {}
            \/ /\ Go(m).at \in {"report", "test"} /\ Go(m).at = Go(m).phase
               /\ active[Go(m).slot]
               /\ m.phase = "test" => Go(m).at = "test" /\ Go(m).slot > m.slot
<1> DEFINE from == [Idle EXCEPT !.rfds = m.rfds]
           Left(after) == {s \in Slot : s > after}
           Reported(after) == {s \in Left(after) : Subscribed(s, {"json"})}
           Check(after) == {s \in Left(after) : active[s]}
           After(phase) == IF m.phase = phase THEN m.slot ELSE -1
           anyReported == m.phase # "test" /\ m.data /\ Reported(After("report")) # {}
           r == Min(Reported(After("report")))
           t == Min(Check(After("test")))
<1>1. Go(m) = IF anyReported
              THEN [from EXCEPT !.at = "report", !.phase = "report", !.data = TRUE, !.slot = r]
              ELSE IF Check(After("test")) # {}
              THEN [from EXCEPT !.at = "test", !.phase = "test", !.slot = t]
              ELSE Idle
  BY DEF Go
<1>2. anyReported => r \in Reported(After("report"))
  <2>1. Reported(After("report")) \subseteq Nat
    BY Numbers
  <2> QED
    BY <2>1, MinIsLeast
<1>3. Check(After("test")) # {} => t \in Check(After("test"))
  <2>1. Check(After("test")) \subseteq Nat
    BY Numbers
  <2> QED
    BY <2>1, MinIsLeast
<1>4. anyReported => r \in Slot /\ active[r] /\ m.phase # "test"
  BY <1>2 DEF Subscribed
<1>5. Check(After("test")) # {} =>
        t \in Slot /\ active[t] /\ (m.phase = "test" => t > m.slot)
  BY <1>3
<1> HIDE DEF r, t
<1>6. m.rfds \in SUBSET Fd
  BY DEF MainType
<1> HIDE DEF anyReported, Check, After
<1>7. CASE anyReported
  <2>1. Go(m) = [at |-> "report", slot |-> r, phase |-> "report", data |-> TRUE,
                 rfds |-> m.rfds, fd |-> 0, req |-> NoRequest]
    BY <1>1, <1>7 DEF Idle
  <2> QED
    BY <2>1, <1>4, <1>6, <1>7, Numbers DEF MainType
<1>8. CASE ~anyReported /\ Check(After("test")) # {}
  <2>1. Go(m) = [at |-> "test", slot |-> t, phase |-> "test", data |-> FALSE,
                 rfds |-> m.rfds, fd |-> 0, req |-> NoRequest]
    BY <1>1, <1>8 DEF Idle
  <2> QED
    BY <2>1, <1>5, <1>6, <1>8, Numbers DEF MainType
<1>9. CASE ~anyReported /\ Check(After("test")) = {}
  <2>1. Go(m) = Idle
    BY <1>1, <1>9
  <2> QED
    BY <2>1, IdleIsMain DEF Idle
<1> QED
  BY <1>7, <1>8, <1>9

LEMMA ScansOn ==
  ASSUME NEW s
  PROVE  /\ Scan(s) \in PpsType
         /\ \/ Scan(s).at = "wait"
            \/ /\ Scan(s).at = "send" /\ Scan(s).slot >= s /\ active[Scan(s).slot]
<1> DEFINE watchers == {t \in Slot : t >= s /\ Subscribed(t, {"json", "pps"})}
<1>1. watchers # {} => Min(watchers) \in watchers
  <2>1. watchers \subseteq Nat
    BY Numbers
  <2> QED
    BY <2>1, MinIsLeast
<1>2. Scan(s) = IF watchers = {} THEN [at |-> "wait", slot |-> 0]
                ELSE [at |-> "send", slot |-> Min(watchers)]
  BY DEF Scan
<1> QED
  BY <1>1, <1>2, Numbers DEF PpsType, Subscribed
-----------------------------------------------------------------------------
(* Types.                                                                  *)

(* The main thread is at accept only for a connection, and has a request   *)
(* where it works on one.                                                  *)
Sane ==
  /\ main.at = "accept" => backlog # << >>
  /\ main.at \in {"stamp", "handle"} => main.req # NoRequest

TypeInv == TypeOK /\ Sane

LEMMA TypedVariables ==
  ASSUME TypeOK
  PROVE  /\ main \in MainType /\ pps \in PpsType
         /\ main.slot \in Slot /\ pps.slot \in Slot /\ main.fd \in Fd
         /\ \A s \in Slot : fd[s] \in Fd \cup {UNALLOCATED_FD}
         /\ \A s \in Slot : ConnOf(fd[s]) \in Conn \cup {Closed, Other}
         /\ \A t \in Thread : Doing(t).slot \in Slot
BY DEF TypeOK, MainType, PpsType, ConnOf, Thread, Doing

LEMMA MainAt ==
  ASSUME TypeOK,
         NEW at \in {"accept", "install", "raise", "store", "fill", "activate", "greet", "report",
                     "test", "recv", "stamp", "handle", "detach"} \cup Inside
  PROVE  /\ [main EXCEPT !.at = at] \in MainType /\ [main EXCEPT !.at = at].at = at
         /\ [main EXCEPT !.at = at].slot = main.slot
         /\ [main EXCEPT !.at = at].rfds = main.rfds
         /\ [main EXCEPT !.at = at].phase = main.phase
         /\ [main EXCEPT !.at = at].fd = main.fd
         /\ [main EXCEPT !.at = at].req = main.req
BY TypedVariables DEF MainType

LEMMA PpsAt ==
  ASSUME TypeOK, NEW at \in {"detach"} \cup Inside
  PROVE  /\ [pps EXCEPT !.at = at] \in PpsType /\ [pps EXCEPT !.at = at].at = at
         /\ [pps EXCEPT !.at = at].slot = pps.slot
BY TypedVariables DEF PpsType

(* What detach_client's steps do to the two threads.                       *)
LEMMA GoesFacts ==
  ASSUME TypeOK, NEW t \in Thread, NEW at \in Inside, Goes(t, at)
  PROVE  /\ main' \in MainType /\ pps' \in PpsType
         /\ main'.slot = main.slot /\ pps'.slot = pps.slot
         /\ main'.phase = main.phase /\ main'.rfds = main.rfds /\ main'.fd = main.fd
         /\ main'.req = main.req
         /\ t = "main" => main'.at = at /\ pps' = pps
         /\ t = "pps" => pps'.at = at /\ main' = main
<1>1. CASE t = "main"
  <2>1. main' = [main EXCEPT !.at = at] /\ pps' = pps
    BY <1>1 DEF Goes
  <2>2. /\ [main EXCEPT !.at = at] \in MainType /\ [main EXCEPT !.at = at].at = at
        /\ [main EXCEPT !.at = at].slot = main.slot
        /\ [main EXCEPT !.at = at].rfds = main.rfds
        /\ [main EXCEPT !.at = at].phase = main.phase
        /\ [main EXCEPT !.at = at].fd = main.fd
        /\ [main EXCEPT !.at = at].req = main.req
    BY MainAt
  <2>3. pps \in PpsType
    BY TypedVariables
  <2> HIDE DEF MainType
  <2> QED
    BY <1>1, <2>1, <2>2, <2>3
<1>2. CASE t = "pps"
  BY <1>2, PpsAt, TypedVariables DEF Goes
<1> QED
  BY <1>1, <1>2 DEF Thread

LEMMA ReturnsFacts ==
  ASSUME TypeOK, NEW t \in Thread, Returns(t)
  PROVE  /\ main' \in MainType /\ pps' \in PpsType
         /\ t = "main" => main' = Go(main) /\ main'.at \in {"select", "report", "test"} /\ pps' = pps
         /\ t = "pps" => pps' = NextSlot /\ pps'.at \in {"wait", "send"} /\ main' = main
<1>1. CASE t = "main"
  BY <1>1, GoesOn, TypedVariables DEF Returns
<1>2. CASE t = "pps"
  BY <1>2, ScansOn, TypedVariables DEF Returns, NextSlot
<1> QED
  BY <1>1, <1>2 DEF Thread

LEMMA ForgetTyped ==
  ASSUME TypeOK, NEW c, Forget(c)
  PROVE  /\ health' \in [Conn -> {"reads", "stuck", "quit"}]
         /\ inbox' \in [Conn -> Request \cup {NoRequest}]
BY DEF Forget, TypeOK

LEMMA CloseTyped ==
  ASSUME TypeOK, NEW s, Close(s)
  PROVE  /\ health' \in [Conn -> {"reads", "stuck", "quit"}]
         /\ inbox' \in [Conn -> Request \cup {NoRequest}]
         /\ file' \in [Fd -> Conn \cup {Closed, Other}]
         /\ backlog' = backlog /\ made' = made
<1>1. file' \in [Fd -> Conn \cup {Closed, Other}]
  BY DEF Close, TypeOK
<1> QED
  BY <1>1, ForgetTyped DEF Close

LEMMA GoSane ==
  ASSUME TypeInv, main' = Go(main)
  PROVE  main' \in MainType /\ Sane'
BY TypedVariables, GoesOn DEF Sane, TypeInv

LEMMA InitTyped == Init => TypeInv
<1> SUFFICES ASSUME Init PROVE TypeInv
  OBVIOUS
<1>1. main \in MainType /\ main.at = "select"
  BY IdleIsMain DEF Init, Idle
<1>2. file \in [Fd -> Conn \cup {Closed, Other}]
  BY DEF Init
<1>3. backlog \in Seq(Conn) /\ made \in Nat
  BY DEF Init
<1>4. health \in [Conn -> {"reads", "stuck", "quit"}] /\ inbox \in [Conn -> Request \cup {NoRequest}]
  BY DEF Init
<1>5. fd \in [Slot -> Fd \cup {UNALLOCATED_FD}] /\ active \in [Slot -> BOOLEAN]
      /\ policy \in [Slot -> SUBSET Flag]
  BY DEF Init
<1>6. pps \in PpsType /\ copy \in [Thread -> SUBSET Fd] /\ high \in [Thread -> Fd]
      /\ all_fds \subseteq Fd /\ maxfd \in Fd /\ race \subseteq Race
  BY Numbers DEF Init, PpsType
<1> QED
  BY <1>1, <1>2, <1>3, <1>4, <1>5, <1>6 DEF TypeInv, TypeOK, Sane, MainType, PpsType

LEMMA ClientsTyped ==
  ASSUME TypeInv, Clients
  PROVE  TypeInv'
<1>1. CASE Connect
  <2> DEFINE unused == {c \in Conn : ~Open(c) /\ c \notin Range(backlog)}
  <2>1. unused \subseteq Nat /\ unused # {}
    BY <1>1, Numbers DEF Connect
  <2>2. Min(unused) \in Conn
    BY <2>1, MinIsLeast
  <2>3. backlog' = Append(backlog, Min(unused)) /\ made' = made + 1
    BY <1>1 DEF Connect
  <2> HIDE DEF unused
  <2>4. backlog' \in Seq(Conn) /\ made' \in Nat /\ backlog' # << >>
    BY <2>2, <2>3 DEF TypeInv, TypeOK
  <2>5. UNCHANGED <<health, inbox, file, slots, shared, threads>>
    BY <1>1 DEF Connect
  <2> QED
    BY <2>4, <2>5 DEF TypeInv, TypeOK, Sane, slots, shared, threads
<1>2. ASSUME NEW c \in Conn, NEW r \in Request, Send(c, r)
      PROVE  TypeInv'
  <2>1. inbox' \in [Conn -> Request \cup {NoRequest}]
    BY <1>2 DEF Send, TypeInv, TypeOK
  <2> QED
    BY <1>2, <2>1 DEF Send, TypeInv, TypeOK, Sane, slots, shared, threads
<1>3. ASSUME NEW c \in Fickle, Quit(c) \/ StopReading(c)
      PROVE  TypeInv'
  <2>1. health' \in [Conn -> {"reads", "stuck", "quit"}]
    BY <1>3 DEF Quit, StopReading, TypeInv, TypeOK
  <2>2. UNCHANGED <<backlog, inbox, made, file, slots, shared, threads>>
    BY <1>3 DEF Quit, StopReading
  <2> QED
    BY <2>1, <2>2 DEF TypeInv, TypeOK, Sane, slots, shared, threads
<1> QED
  BY <1>1, <1>2, <1>3 DEF Clients

LEMMA CallTyped ==
  ASSUME TypeInv, Call
  PROVE  TypeInv'
<1> DEFINE asked == {f \in all_fds : f <= maxfd}
           bad == {f \in all_fds : file[f] = Closed}
<1>1. asked \in SUBSET Fd
  BY DEF TypeInv, TypeOK
<1>2. /\ UNCHANGED <<clients, file, slots, maxfd, pps, copy, high>> /\ main.at = "select"
      /\ \/ all_fds' = all_fds \ bad /\ UNCHANGED <<main, race>>
         \/ /\ main' = [Idle EXCEPT !.at = "wait", !.rfds = asked] /\ all_fds' = all_fds
            /\ race' \subseteq race \cup {"maxfd"}
  BY DEF Call, BadDescriptors
<1> HIDE DEF asked, bad
<1>3. main' \in MainType /\ main'.at \in {"select", "wait"}
  <2>1. CASE main' = main
    BY <1>2, <2>1, TypedVariables DEF TypeInv
  <2>2. CASE main' = [Idle EXCEPT !.at = "wait", !.rfds = asked]
    BY <1>1, <2>2, IdleIsMain DEF MainType
  <2> QED
    BY <1>2, <2>1, <2>2
<1>4. all_fds' \subseteq Fd /\ race' \subseteq Race
  BY <1>2 DEF TypeInv, TypeOK, Race
<1> QED
  BY <1>2, <1>3, <1>4 DEF clients, slots, TypeInv, TypeOK, MainType, Sane

(* What the main thread has when pselect returns.                          *)
LEMMA WakeFacts ==
  ASSUME TypeInv, NEW data \in BOOLEAN, NEW late, Wake(data, late)
  PROVE  \E woken \in MainType :
           /\ woken.rfds = {f \in main.rfds : Ready(f)} \cup late /\ woken.phase = "greet"
           /\ late \subseteq {f \in main.rfds : file[f] = Closed}
           /\ \/ main' = Go(woken)
              \/ /\ main' \in MainType /\ main'.at = "accept" /\ main'.rfds = woken.rfds
                 /\ main'.phase = "greet" /\ main'.slot = woken.slot /\ main'.fd = 0
                 /\ backlog # << >>
           /\ main.at = "wait"
           /\ UNCHANGED <<clients, file, slots, shared, pps, copy, high, race>>
<1> DEFINE rfds == {f \in main.rfds : Ready(f)} \cup late
           woken == [Idle EXCEPT !.rfds = rfds, !.data = data]
           after == [woken EXCEPT !.at = "accept"]
<1>1. late \subseteq {f \in main.rfds : file[f] = Closed} /\ main.at = "wait"
      /\ (main' = Go(woken) \/ (main' = after /\ backlog # << >>))
      /\ UNCHANGED <<clients, file, slots, shared, pps, copy, high, race>>
  BY DEF Wake
<1>2. rfds \in SUBSET Fd
  BY <1>1 DEF TypeInv, TypeOK
<1>3. woken.rfds = rfds /\ woken.phase = "greet"
  BY DEF Idle
<1> HIDE DEF rfds
<1>4. woken \in MainType
  BY <1>2, Numbers DEF Idle, MainType
<1>5. after \in MainType /\ after.at = "accept" /\ after.rfds = rfds /\ after.phase = "greet"
      /\ after.slot = woken.slot /\ after.fd = 0
  BY <1>2, Numbers DEF Idle, MainType
<1> HIDE DEF woken, after
<1> QED
  BY <1>1, <1>3, <1>4, <1>5 DEF rfds

LEMMA WakeTyped ==
  ASSUME TypeInv, NEW data \in BOOLEAN, NEW late, Wake(data, late)
  PROVE  TypeInv'
<1>1. PICK woken \in MainType :
        /\ \/ main' = Go(woken)
           \/ main' \in MainType /\ main'.at = "accept" /\ backlog # << >>
        /\ UNCHANGED <<clients, file, slots, shared, pps, copy, high, race>>
  BY WakeFacts
<1>2. main' \in MainType /\ Sane'
  BY <1>1, GoesOn DEF Sane, clients
<1> QED
  BY <1>1, <1>2 DEF clients, slots, shared, TypeInv, TypeOK, MainType

(* What accept does, without what it means.                                *)
LEMMA AcceptFacts ==
  ASSUME TypeInv, Accept
  PROVE  \E f \in Fd, s \in Slot :
           /\ file[f] = Closed /\ fd[s] = UNALLOCATED_FD
           /\ file' = [file EXCEPT ![f] = Head(backlog)] /\ fd' = [fd EXCEPT ![s] = 0]
           /\ main' = [main EXCEPT !.at = "install", !.slot = s, !.fd = f] /\ main' \in MainType
           /\ main'.at = "install" /\ main'.slot = s /\ main'.fd = f /\ main'.rfds = main.rfds
           /\ main'.phase = main.phase
           /\ copy' \in [Thread -> SUBSET Fd]
           /\ copy'["main"] = all_fds /\ copy'["pps"] = copy["pps"] /\ main.at = "accept"
           /\ race' = race \cup
                (IF f \in main.rfds \/ (pps.slot = s /\ pps.at \in {"send", "detach"})
                 THEN {"reuse"} ELSE {})
           /\ backlog' = Tail(backlog) /\ Head(backlog) \in Conn
           /\ backlog # << >>
           /\ UNCHANGED <<health, inbox, made, active, policy, shared, pps, high>>
<1> DEFINE f == Min(FreeFd)
           s == Min(FreeSlot)
<1>1. f \in FreeFd /\ s \in FreeSlot
  <2>1. FreeFd \subseteq Nat /\ FreeSlot \subseteq Nat
    BY Numbers DEF FreeFd, FreeSlot
  <2> QED
    BY <2>1, MinIsLeast DEF Accept
<1>2. f \in Fd /\ s \in Slot /\ file[f] = Closed /\ fd[s] = UNALLOCATED_FD
  BY <1>1 DEF FreeFd, FreeSlot
<1>3. /\ file' = [file EXCEPT ![f] = Head(backlog)] /\ fd' = [fd EXCEPT ![s] = 0]
      /\ main' = [main EXCEPT !.at = "install", !.slot = s, !.fd = f]
      /\ copy' = [copy EXCEPT !["main"] = all_fds] /\ main.at = "accept"
      /\ backlog' = Tail(backlog)
      /\ race' = race \cup
           (IF f \in main.rfds \/ (pps.slot = s /\ pps.at \in {"send", "detach"})
            THEN {"reuse"} ELSE {})
      /\ UNCHANGED <<health, inbox, made, active, policy, shared, pps, high>>
  BY DEF Accept
<1> HIDE DEF f, s
<1>4. backlog # << >> /\ Head(backlog) \in Conn
  BY <1>3 DEF TypeInv, TypeOK, Sane
<1>5. /\ main' \in MainType
      /\ main'.at = "install" /\ main'.slot = s /\ main'.fd = f /\ main'.rfds = main.rfds
      /\ main'.phase = main.phase
  BY <1>2, <1>3, TypedVariables DEF TypeInv, MainType
<1>6. copy' \in [Thread -> SUBSET Fd] /\ copy'["main"] = all_fds /\ copy'["pps"] = copy["pps"]
  BY <1>3 DEF TypeInv, TypeOK, Thread
<1> QED
  BY <1>2, <1>3, <1>4, <1>5, <1>6

LEMMA AcceptTyped ==
  ASSUME TypeInv, Accept
  PROVE  TypeInv'
<1>1. PICK f \in Fd, s \in Slot :
        /\ file' = [file EXCEPT ![f] = Head(backlog)] /\ fd' = [fd EXCEPT ![s] = 0]
        /\ main' \in MainType /\ main'.at = "install"
        /\ copy' \in [Thread -> SUBSET Fd]
        /\ race' \subseteq race \cup {"reuse"}
        /\ backlog' = Tail(backlog) /\ Head(backlog) \in Conn
        /\ backlog # << >>
        /\ UNCHANGED <<health, inbox, made, active, policy, shared, pps, high>>
  BY AcceptFacts
<1>2. backlog' \in Seq(Conn)
  BY <1>1 DEF TypeInv, TypeOK
<1>3. file' \in [Fd -> Conn \cup {Closed, Other}] /\ fd' \in [Slot -> Fd \cup {UNALLOCATED_FD}]
  BY <1>1, Numbers DEF TypeInv, TypeOK
<1>4. race' \subseteq Race
  BY <1>1 DEF TypeInv, TypeOK, Race
<1> QED
  BY <1>1, <1>2, <1>3, <1>4 DEF TypeInv, TypeOK, MainType, Sane, shared

LEMMA RefuseTyped ==
  ASSUME TypeInv, Refuse
  PROVE  TypeInv'
<1>1. main' \in MainType /\ Sane'
  BY GoSane DEF Refuse
<1>2. /\ backlog' \in Seq(Conn) /\ made' \in Nat
      /\ health' \in [Conn -> {"reads", "stuck", "quit"}]
      /\ inbox' \in [Conn -> Request \cup {NoRequest}]
  <2>1. CASE UNCHANGED clients
    BY <2>1 DEF clients, TypeInv, TypeOK
  <2>2. CASE Forget(Head(backlog)) /\ backlog' = Tail(backlog) /\ UNCHANGED made
    <3>1. backlog # << >>
      BY DEF Refuse, TypeInv, Sane
    <3> QED
      BY <2>2, <3>1, ForgetTyped DEF TypeInv, TypeOK
  <2> QED
    BY <2>1, <2>2 DEF Refuse
<1>3. UNCHANGED <<file, slots, shared, pps, copy, high, race>>
  BY DEF Refuse
<1> QED
  BY <1>1, <1>2, <1>3 DEF slots, shared, TypeInv, TypeOK, MainType

LEMMA LeakFacts ==
  ASSUME TypeInv, Leak
  PROVE  /\ file' = [file EXCEPT ![main.fd] = Closed] /\ Forget(file[main.fd])
         /\ main.at = "install" /\ main' = Go(main) /\ main'.at \in {"select", "report", "test"}
         /\ copy' \in [Thread -> SUBSET Fd] /\ copy'["pps"] = copy["pps"]
         /\ UNCHANGED <<backlog, made, slots, shared, pps, high, race>>
<1>1. copy' \in [Thread -> SUBSET Fd] /\ copy'["pps"] = copy["pps"]
  BY DEF Leak, TypeInv, TypeOK, Thread
<1>2. Go(main).at \in {"select", "report", "test"}
  BY TypedVariables, GoesOn DEF TypeInv
<1> QED
  BY <1>1, <1>2 DEF Leak

LEMMA LeakTyped ==
  ASSUME TypeInv, Leak
  PROVE  TypeInv'
<1>1. main' \in MainType /\ Sane'
  BY GoSane DEF Leak
<1>2. /\ health' \in [Conn -> {"reads", "stuck", "quit"}]
      /\ inbox' \in [Conn -> Request \cup {NoRequest}]
  BY ForgetTyped, LeakFacts DEF TypeInv
<1>3. file' \in [Fd -> Conn \cup {Closed, Other}]
  BY LeakFacts DEF TypeInv, TypeOK
<1> QED
  BY <1>1, <1>2, <1>3, LeakFacts DEF slots, shared, TypeInv, TypeOK, MainType

LEMMA InstallFacts ==
  ASSUME TypeInv, Install
  PROVE  /\ main.at = "install" /\ main' = [main EXCEPT !.at = "raise"] /\ main' \in MainType
         /\ main'.at = "raise"
         /\ main'.slot = main.slot /\ main'.fd = main.fd /\ main'.phase = main.phase
         /\ main'.rfds = main.rfds
         /\ all_fds' = copy["main"] \cup {main.fd}
         /\ copy' \in [Thread -> SUBSET Fd] /\ copy'["pps"] = copy["pps"]
         /\ race' = race \cup (IF Updating("pps") THEN {"bits"} ELSE {})
         /\ UNCHANGED <<clients, file, slots, maxfd, pps, high>>
<1>1. /\ main.at = "install" /\ main' = [main EXCEPT !.at = "raise"]
      /\ all_fds' = copy["main"] \cup {main.fd} /\ copy' = [copy EXCEPT !["main"] = {}]
      /\ race' = race \cup (IF Updating("pps") THEN {"bits"} ELSE {})
      /\ UNCHANGED <<clients, file, slots, maxfd, pps, high>>
  BY DEF Install, Registered
<1>2. copy' \in [Thread -> SUBSET Fd] /\ copy'["pps"] = copy["pps"]
  BY <1>1 DEF TypeInv, TypeOK, Thread
<1> QED
  BY <1>1, <1>2, MainAt DEF TypeInv

LEMMA InstallTyped ==
  ASSUME TypeInv, Install
  PROVE  TypeInv'
<1>1. race' \subseteq Race
  BY InstallFacts DEF TypeInv, TypeOK, Race
<1>2. all_fds' \subseteq Fd
  BY InstallFacts, TypedVariables DEF TypeInv, TypeOK, Thread
<1> QED
  BY <1>1, <1>2, InstallFacts DEF TypeInv, TypeOK, MainType, Sane, clients, slots

(* The steps of the main thread that change neither file nor fd.           *)
LEMMA RaiseFacts ==
  ASSUME TypeInv, Raise \/ Store
  PROVE  /\ main' \in MainType
         /\ \/ main.at = "raise" /\ main'.at \in {"store", "fill"}
            \/ main.at = "store" /\ main'.at = "fill"
         /\ main'.slot = main.slot /\ main'.fd = main.fd /\ main'.rfds = main.rfds
         /\ main'.phase = main.phase
         /\ maxfd' \in Fd /\ race \subseteq race' /\ race' \subseteq race \cup {"maxfd"}
         /\ UNCHANGED <<clients, file, slots, all_fds, pps, copy, high>>
<1>1. \/ main.at = "raise" /\ main' = [main EXCEPT !.at = "store"]
      \/ main.at = "raise" /\ main' = [main EXCEPT !.at = "fill"]
      \/ main.at = "store" /\ main' = [main EXCEPT !.at = "fill"]
  BY DEF Raise, Store
<1>2. maxfd' \in Fd
  BY TypedVariables DEF Raise, Store, shared, TypeInv, TypeOK
<1>3. race \subseteq race' /\ race' \subseteq race \cup {"maxfd"}
      /\ UNCHANGED <<clients, file, slots, all_fds, pps, copy, high>>
  BY DEF Raise, Store, shared
<1>4. /\ main' \in MainType
      /\ \/ main.at = "raise" /\ main'.at \in {"store", "fill"}
         \/ main.at = "store" /\ main'.at = "fill"
      /\ main'.slot = main.slot /\ main'.fd = main.fd /\ main'.rfds = main.rfds
      /\ main'.phase = main.phase
  <2>1. CASE main.at = "raise" /\ main' = [main EXCEPT !.at = "store"]
    BY <2>1, MainAt DEF TypeInv
  <2>2. CASE main.at \in {"raise", "store"} /\ main' = [main EXCEPT !.at = "fill"]
    BY <2>2, MainAt DEF TypeInv
  <2> QED
    BY <1>1, <2>1, <2>2
<1> QED
  BY <1>2, <1>3, <1>4

LEMMA RaiseTyped ==
  ASSUME TypeInv, Raise \/ Store
  PROVE  TypeInv'
<1>1. race' \subseteq Race
  BY RaiseFacts DEF TypeInv, TypeOK, Race
<1> QED
  BY <1>1, RaiseFacts DEF TypeInv, TypeOK, MainType, Sane, clients, slots

LEMMA FillFacts ==
  ASSUME TypeInv, Fill
  PROVE  /\ main.at = "fill" /\ main' \in MainType /\ main'.at = "activate"
         /\ main'.slot = main.slot /\ main'.fd = 0 /\ main'.phase = main.phase
         /\ main'.rfds = main.rfds
         /\ fd' = [fd EXCEPT ![main.slot] = main.fd]
         /\ race' = race \cup (IF Has("pps", main.slot) THEN {"fill"} ELSE {})
         /\ UNCHANGED <<clients, file, active, policy, shared, pps, copy, high>>
BY TypedVariables, Numbers DEF Fill, TypeInv, MainType

LEMMA FillTyped ==
  ASSUME TypeInv, Fill
  PROVE  TypeInv'
<1>1. race' \subseteq Race
  BY FillFacts DEF TypeInv, TypeOK, Race
<1>2. fd' \in [Slot -> Fd \cup {UNALLOCATED_FD}]
  BY FillFacts, TypedVariables DEF TypeInv, TypeOK
<1> QED
  BY <1>1, <1>2, FillFacts DEF TypeInv, TypeOK, MainType, Sane, clients, shared

LEMMA StampFacts ==
  ASSUME TypeInv, Activate \/ Stamp
  PROVE  /\ \/ main.at = "activate" /\ main'.at = "greet" /\ Activate
            \/ main.at = "stamp" /\ main'.at = "handle" /\ Stamp
         /\ main' \in MainType
         /\ main'.slot = main.slot /\ main'.fd = main.fd /\ main'.phase = main.phase
         /\ main'.rfds = main.rfds /\ main'.req = main.req
         /\ active' = [active EXCEPT ![main.slot] = TRUE]
         /\ race \subseteq race' /\ race' \subseteq race \cup {"request", "fill"}
         /\ Has("pps", main.slot) => race' \cap {"request", "fill"} # {}
         /\ UNCHANGED <<clients, file, fd, policy, shared, pps, copy, high>>
<1>1. CASE Activate
  <2>1. /\ main.at = "activate" /\ main' = [main EXCEPT !.at = "greet"]
        /\ race' = race \cup (IF Has("pps", main.slot) THEN {"fill"} ELSE {})
        /\ active' = [active EXCEPT ![main.slot] = TRUE]
        /\ UNCHANGED <<clients, file, fd, policy, shared, pps, copy, high>>
    BY <1>1 DEF Activate
  <2> QED
    BY <1>1, <2>1, MainAt DEF TypeInv
<1>2. CASE Stamp
  <2>1. /\ main.at = "stamp" /\ main' = [main EXCEPT !.at = "handle"]
        /\ race' = race \cup (IF Has("pps", main.slot) THEN {"request"} ELSE {})
        /\ active' = [active EXCEPT ![main.slot] = TRUE]
        /\ UNCHANGED <<clients, file, fd, policy, shared, pps, copy, high>>
    BY <1>2 DEF Stamp
  <2> QED
    BY <1>2, <2>1, MainAt DEF TypeInv
<1> QED
  BY <1>1, <1>2

LEMMA StampTyped ==
  ASSUME TypeInv, Activate \/ Stamp
  PROVE  TypeInv'
<1>1. race' \subseteq Race
  BY StampFacts DEF TypeInv, TypeOK, Race
<1>2. active' \in [Slot -> BOOLEAN]
  BY StampFacts, TypedVariables DEF TypeInv, TypeOK
<1> QED
  BY <1>1, <1>2, StampFacts DEF TypeInv, TypeOK, MainType, Sane, clients, shared

(* The steps that only decide where to go.                                 *)
LEMMA DecisionFacts ==
  ASSUME TypeInv, Greet \/ Report \/ Test
  PROVE  /\ main' \in MainType /\ main.at \in {"greet", "report", "test"}
         /\ \/ main' = Go(main)
            \/ /\ main'.at = "detach" \/ (main.at = "test" /\ main'.at = "recv" /\ Test)
               /\ main'.slot = main.slot /\ main'.fd = main.fd /\ main'.phase = main.phase
               /\ main'.rfds = main.rfds
         /\ UNCHANGED <<clients, file, slots, shared, pps, copy, high, race>>
<1>1. \/ main' = Go(main)
      \/ main' = [main EXCEPT !.at = "detach"]
      \/ main' = [main EXCEPT !.at = "recv"] /\ Test /\ main.at = "test"
  BY DEF Greet, Report, Test
<1>2. /\ main.at \in {"greet", "report", "test"}
      /\ UNCHANGED <<clients, file, slots, shared, pps, copy, high, race>>
  BY DEF Greet, Report, Test
<1>3. CASE main' = Go(main)
  BY <1>2, <1>3, GoesOn, TypedVariables DEF TypeInv
<1>4. CASE main' = [main EXCEPT !.at = "detach"]
  BY <1>2, <1>4, MainAt DEF TypeInv
<1>5. CASE main' = [main EXCEPT !.at = "recv"] /\ Test /\ main.at = "test"
  BY <1>2, <1>5, MainAt DEF TypeInv
<1> QED
  BY <1>1, <1>3, <1>4, <1>5

LEMMA DecisionTyped ==
  ASSUME TypeInv, Greet \/ Report \/ Test
  PROVE  TypeInv'
<1>1. Sane'
  BY DecisionFacts, GoesOn, TypedVariables DEF Sane, TypeInv
<1> QED
  BY <1>1, DecisionFacts DEF clients, slots, shared, TypeInv, TypeOK, MainType

LEMMA RecvFacts ==
  ASSUME TypeInv, Recv
  PROVE  /\ main' \in MainType /\ main.at = "recv"
         /\ main'.slot = main.slot /\ main'.fd = main.fd /\ main'.phase = main.phase
         /\ main'.rfds = main.rfds
         /\ \/ /\ ConnOf(fd[main.slot]) \in Conn /\ main'.at = "stamp" /\ main'.req \in Request
               /\ inbox' = [inbox EXCEPT ![ConnOf(fd[main.slot])] = NoRequest]
            \/ /\ main'.at = "detach" /\ inbox' = inbox
               /\ ConnOf(fd[main.slot]) \in Conn => inbox[ConnOf(fd[main.slot])] = NoRequest
         /\ UNCHANGED <<backlog, health, made, file, slots, shared, pps, copy, high, race>>
<1> DEFINE c == ConnOf(fd[main.slot])
<1>1. \/ /\ c \in Conn /\ inbox[c] # NoRequest
         /\ main' = [main EXCEPT !.at = "stamp", !.req = inbox[c]]
         /\ inbox' = [inbox EXCEPT ![c] = NoRequest]
      \/ /\ main' = [main EXCEPT !.at = "detach"] /\ inbox' = inbox
         /\ c \in Conn => inbox[c] = NoRequest
  BY DEF Recv
<1>2. /\ UNCHANGED <<backlog, health, made, file, slots, shared, pps, copy, high, race>>
      /\ main.at = "recv"
  BY DEF Recv
<1> HIDE DEF c
<1>3. CASE main' = [main EXCEPT !.at = "detach"] /\ inbox' = inbox
           /\ (c \in Conn => inbox[c] = NoRequest)
  BY <1>2, <1>3, MainAt DEF TypeInv, c
<1>4. CASE c \in Conn /\ inbox[c] # NoRequest /\ main' = [main EXCEPT !.at = "stamp", !.req = inbox[c]]
           /\ inbox' = [inbox EXCEPT ![c] = NoRequest]
  <2>1. inbox[c] \in Request
    BY <1>4 DEF TypeInv, TypeOK
  <2>2. main' \in MainType /\ main'.at = "stamp" /\ main'.req \in Request
        /\ main'.slot = main.slot /\ main'.fd = main.fd /\ main'.phase = main.phase
        /\ main'.rfds = main.rfds
    BY <1>4, <2>1, TypedVariables DEF TypeInv, MainType
  <2> QED
    BY <1>2, <1>4, <2>2 DEF c
<1> QED
  BY <1>1, <1>3, <1>4

LEMMA RecvTyped ==
  ASSUME TypeInv, Recv
  PROVE  TypeInv'
<1>1. inbox' \in [Conn -> Request \cup {NoRequest}]
  BY RecvFacts DEF TypeInv, TypeOK
<1>2. Sane'
  BY RecvFacts, Requests DEF Sane
<1> QED
  BY <1>1, <1>2, RecvFacts DEF slots, shared, TypeInv, TypeOK, MainType

LEMMA HandleFacts ==
  ASSUME TypeInv, Handle
  PROVE  /\ main' \in MainType /\ main.at = "handle"
         /\ \/ main' = Go(main)
            \/ /\ main'.at = "detach" /\ TRUE \in Drops(main.slot)
               /\ main'.slot = main.slot /\ main'.fd = main.fd /\ main'.phase = main.phase
               /\ main'.rfds = main.rfds
         /\ policy' = [policy EXCEPT ![main.slot] = WatchRead(@, main.req)]
         /\ policy' \in [Slot -> SUBSET Flag]
         /\ race' = race \cup (IF Has("pps", main.slot) THEN {"request"} ELSE {})
         /\ UNCHANGED <<clients, file, fd, active, shared, pps, copy, high>>
<1>1. \/ main' = Go(main)
      \/ main' = [main EXCEPT !.at = "detach", !.req = NoRequest] /\ TRUE \in Drops(main.slot)
  BY DEF Handle, Drops
<1>2. /\ policy' = [policy EXCEPT ![main.slot] = WatchRead(@, main.req)] /\ main.at = "handle"
      /\ race' = race \cup (IF Has("pps", main.slot) THEN {"request"} ELSE {})
      /\ UNCHANGED <<clients, file, fd, active, shared, pps, copy, high>>
  BY DEF Handle
<1>3. main.req \in Request
  BY <1>2, TypedVariables DEF TypeInv, Sane, MainType
<1>4. WatchRead(policy[main.slot], main.req) \in SUBSET Flag
  BY <1>3, Requests, TypedVariables DEF WatchRead, TypeInv, TypeOK
<1>5. policy' \in [Slot -> SUBSET Flag]
  BY <1>2, <1>4, TypedVariables DEF TypeInv, TypeOK
<1>6. CASE main' = Go(main)
  BY <1>2, <1>5, <1>6, GoesOn, TypedVariables DEF TypeInv
<1>7. CASE main' = [main EXCEPT !.at = "detach", !.req = NoRequest] /\ TRUE \in Drops(main.slot)
  <2>1. main' \in MainType /\ main'.at = "detach"
        /\ main'.slot = main.slot /\ main'.fd = main.fd /\ main'.phase = main.phase
        /\ main'.rfds = main.rfds
    BY <1>7, TypedVariables DEF TypeInv, MainType
  <2> QED
    BY <1>2, <1>5, <1>7, <2>1
<1> QED
  BY <1>1, <1>6, <1>7

LEMMA HandleTyped ==
  ASSUME TypeInv, Handle
  PROVE  TypeInv'
<1>1. Sane'
  BY HandleFacts, GoesOn, TypedVariables DEF Sane, TypeInv
<1>2. race' \subseteq Race
  BY HandleFacts DEF TypeInv, TypeOK, Race
<1> QED
  BY <1>1, <1>2, HandleFacts DEF clients, shared, TypeInv, TypeOK, MainType

(* The steps of the PPS thread outside detach_client.                      *)
LEMMA PpsFacts ==
  ASSUME TypeInv, Edge \/ PpsSend
  PROVE  /\ pps' \in PpsType /\ pps.at \in {"wait", "send"}
         /\ \/ pps' = NextSlot /\ pps.at = "send"
            \/ pps' = Scan(0) /\ pps.at = "wait"
            \/ pps.at = "send" /\ pps'.at = "detach" /\ pps'.slot = pps.slot
               /\ TRUE \in Drops(pps.slot)
         /\ pps'.at \in {"wait", "send", "detach"}
         /\ UNCHANGED <<clients, file, slots, shared, main, copy, high, race>>
<1>1. \/ pps' = NextSlot /\ pps.at = "send"
      \/ pps' = Scan(0) /\ pps.at = "wait"
      \/ pps.at = "send" /\ pps' = [pps EXCEPT !.at = "detach"] /\ TRUE \in Drops(pps.slot)
  BY DEF Edge, PpsSend, Drops
<1>2. UNCHANGED <<clients, file, slots, shared, main, copy, high, race>>
  BY DEF Edge, PpsSend
<1>3. NextSlot \in PpsType /\ Scan(0) \in PpsType
      /\ NextSlot.at \in {"wait", "send"} /\ Scan(0).at \in {"wait", "send"}
  BY ScansOn DEF NextSlot
<1> QED
  BY <1>1, <1>2, <1>3, PpsAt DEF TypeInv

LEMMA PpsTyped ==
  ASSUME TypeInv, Edge \/ PpsSend
  PROVE  TypeInv'
BY PpsFacts DEF clients, slots, shared, TypeInv, TypeOK, Sane, PpsType

(* The steps of detach_client that leave descriptors and all_fds alone.    *)
LEMMA DetachInside ==
  ASSUME TypeInv, NEW t \in Thread,
         Lower(t) \/ Count(t) \/ Settle(t) \/ Deactivate(t) \/ Unsubscribe(t)
  PROVE  /\ Doing(t).at \in Inside \ {"clear", "free"}
         /\ \E at \in Inside \ {"clear"} : Goes(t, at) /\ (at = "free" => Unsubscribe(t))
                                         /\ (at = "unsubscribe" => Deactivate(t))
         /\ UNCHANGED <<clients, file, fd, all_fds, copy, race>>
<1>1. Doing(t).at \in Inside \ {"clear", "free"}
  BY DEF Lower, Count, Settle, Deactivate, Unsubscribe, Inside
<1>2. UNCHANGED <<clients, file, fd, all_fds, copy, race>>
  BY DEF Lower, Count, Settle, Deactivate, Unsubscribe, slots, shared
<1>3. CASE Lower(t)
  BY <1>1, <1>2, <1>3 DEF Lower, Inside
<1>4. CASE Count(t) \/ Settle(t) \/ Deactivate(t) \/ Unsubscribe(t)
  BY <1>1, <1>2, <1>4 DEF Count, Settle, Deactivate, Unsubscribe, Inside
<1> QED
  BY <1>3, <1>4

LEMMA DetachInsideTyped ==
  ASSUME TypeInv, NEW t \in Thread,
         Lower(t) \/ Count(t) \/ Settle(t) \/ Deactivate(t) \/ Unsubscribe(t)
  PROVE  TypeInv'
<1>1. /\ main' \in MainType /\ pps' \in PpsType
      /\ main'.at \in Inside \/ main' = main
  BY DetachInside, GoesFacts DEF TypeInv, Thread
<1>2. UNCHANGED <<clients, file, fd, all_fds, copy, race>>
  BY DetachInside
<1>3. Sane'
  BY <1>1, <1>2 DEF Sane, Inside, TypeInv, clients
<1>4. Doing(t).slot \in Slot
  BY TypedVariables DEF TypeInv
<1>5. active' \in [Slot -> BOOLEAN] /\ policy' \in [Slot -> SUBSET Flag]
  <2>1. CASE Deactivate(t)
    BY <2>1, <1>4 DEF Deactivate, Inactive, TypeInv, TypeOK
  <2>2. CASE Unsubscribe(t)
    <3>1. policy' = [policy EXCEPT ![Doing(t).slot] = @ \cap {"pps"}] /\ active' = active
      BY <2>2 DEF Unsubscribe
    <3>2. \A s \in Slot : policy[s] \cap {"pps"} \in SUBSET Flag
      BY DEF TypeInv, TypeOK
    <3> QED
      BY <1>4, <3>1, <3>2 DEF TypeInv, TypeOK
  <2>3. CASE Lower(t) \/ Count(t) \/ Settle(t)
    BY <2>3 DEF Lower, Count, Settle, slots, TypeInv, TypeOK
  <2> QED
    BY <2>1, <2>2, <2>3
<1>6. maxfd' \in Fd /\ high' \in [Thread -> Fd]
  <2>1. CASE Deactivate(t) \/ Unsubscribe(t)
    BY <2>1 DEF Deactivate, Unsubscribe, shared, TypeInv, TypeOK
  <2>2. CASE Lower(t)
    BY <2>2, Numbers DEF Lower, TypeInv, TypeOK
  <2>3. CASE Count(t)
    <3>1. MaxFd \in Nat /\ all_fds \cup {0} \subseteq 0..MaxFd /\ all_fds \cup {0} # {}
      BY SubscribersAssumption DEF TypeInv, TypeOK, Fd
    <3>2. Max(all_fds \cup {0}) \in Fd
      BY <3>1, MaxIsMember DEF Fd
    <3> QED
      BY <2>3, <3>2, Numbers DEF Count, TypeInv, TypeOK
  <2>4. CASE Settle(t)
    BY <2>4, Numbers DEF Settle, TypeInv, TypeOK
  <2> QED
    BY <2>1, <2>2, <2>3, <2>4
<1> QED
  BY <1>1, <1>2, <1>3, <1>5, <1>6 DEF clients, TypeInv, TypeOK, MainType, PpsType

(* detach_client of a slot that was freed in the meantime, and of another. *)
LEMMA DetachFacts ==
  ASSUME TypeInv, NEW t \in Thread, Detach(t)
  PROVE  /\ Doing(t).at = "detach" /\ ~Detaching(Doing(t).slot)
         /\ \/ /\ fd[Doing(t).slot] = UNALLOCATED_FD /\ Returns(t)
               /\ UNCHANGED <<clients, file, copy>>
            \/ /\ fd[Doing(t).slot] # UNALLOCATED_FD /\ Goes(t, "clear")
               /\ Close(Doing(t).slot)
               /\ copy' = [copy EXCEPT ![t] = all_fds]
         /\ UNCHANGED <<slots, shared, high, race>>
BY DEF Detach, Unlocked

LEMMA DetachTyped ==
  ASSUME TypeInv, NEW t \in Thread, Detach(t)
  PROVE  TypeInv'
<1>1. UNCHANGED <<slots, shared, high, race>>
  BY DetachFacts
<1>2. CASE Returns(t) /\ UNCHANGED <<clients, file, copy>>
  <2>1. Sane' /\ main' \in MainType /\ pps' \in PpsType
    BY <1>2, ReturnsFacts, GoSane DEF Sane, TypeInv, Thread, clients
  <2> QED
    BY <1>1, <1>2, <2>1 DEF clients, slots, shared, TypeInv, TypeOK, MainType, PpsType
<1>3. CASE Goes(t, "clear") /\ Close(Doing(t).slot) /\ copy' = [copy EXCEPT ![t] = all_fds]
  <2>1. main' \in MainType /\ pps' \in PpsType /\ (main'.at = "clear" \/ main' = main)
    BY <1>3, GoesFacts DEF TypeInv, Thread, Inside
  <2>2. copy' \in [Thread -> SUBSET Fd]
    BY <1>3 DEF TypeInv, TypeOK
  <2>3. /\ health' \in [Conn -> {"reads", "stuck", "quit"}]
        /\ inbox' \in [Conn -> Request \cup {NoRequest}]
        /\ file' \in [Fd -> Conn \cup {Closed, Other}]
        /\ backlog' = backlog /\ made' = made
    BY <1>3, CloseTyped DEF TypeInv
  <2>4. Sane'
    BY <2>1, <2>3 DEF Sane, TypeInv
  <2> QED
    BY <1>1, <2>1, <2>2, <2>3, <2>4 DEF slots, shared, TypeInv, TypeOK, MainType, PpsType
<1> QED
  BY <1>2, <1>3, DetachFacts

LEMMA ClearFacts ==
  ASSUME TypeInv, NEW t \in Thread, Clear(t)
  PROVE  /\ Doing(t).at = "clear" /\ Goes(t, "lower")
         /\ all_fds' = copy[t] \ {fd[Doing(t).slot]} /\ copy' = [copy EXCEPT ![t] = {}]
         /\ race \subseteq race' /\ race' \subseteq race \cup {"bits"}
         /\ \A u \in Thread : u # t /\ Updating(u) => "bits" \in race'
         /\ UNCHANGED <<clients, file, slots, maxfd, high>>
BY DEF Clear

LEMMA ClearTyped ==
  ASSUME TypeInv, NEW t \in Thread, Clear(t)
  PROVE  TypeInv'
<1>1. main' \in MainType /\ pps' \in PpsType /\ (main'.at = "lower" \/ main' = main)
  BY ClearFacts, GoesFacts DEF TypeInv, Thread, Inside
<1>2. copy' \in [Thread -> SUBSET Fd] /\ all_fds' \subseteq Fd /\ race' \subseteq Race
  <2>1. /\ all_fds' = copy[t] \ {fd[Doing(t).slot]} /\ copy' = [copy EXCEPT ![t] = {}]
        /\ race' \subseteq race \cup {"bits"}
    BY ClearFacts
  <2>2. copy \in [Thread -> SUBSET Fd] /\ race \subseteq Race
    BY DEF TypeInv, TypeOK
  <2> QED
    BY <2>1, <2>2 DEF Race
<1>3. Sane'
  BY <1>1, ClearFacts DEF Sane, TypeInv, clients
<1> QED
  BY <1>1, <1>2, <1>3, ClearFacts DEF clients, slots, TypeInv, TypeOK, MainType, PpsType

LEMMA FreeFacts ==
  ASSUME TypeInv, NEW t \in Thread, Free(t)
  PROVE  /\ Doing(t).at = "free" /\ Returns(t)
         /\ fd' = [fd EXCEPT ![Doing(t).slot] = UNALLOCATED_FD]
         /\ race \subseteq race' /\ race' \subseteq race \cup {"request", "fill"}
         /\ t = "pps" /\ main.slot = pps.slot =>
              /\ main.at \in {"stamp", "handle"} => "request" \in race'
              /\ main.at = "activate" => "fill" \in race'
         /\ "fill" \in race' => "fill" \in race \/ (t = "pps" /\ main.slot = pps.slot /\ main.at = "activate")
         /\ UNCHANGED <<clients, file, active, policy, shared, copy, high>>
<1> DEFINE freed == IF t = "main" \/ main.slot # pps.slot THEN {}
                    ELSE IF main.at \in {"stamp", "handle"} THEN {"request"}
                    ELSE IF main.at = "activate" THEN {"fill"}
                    ELSE {}
<1>1. /\ Doing(t).at = "free" /\ Returns(t)
      /\ fd' = [fd EXCEPT ![Doing(t).slot] = UNALLOCATED_FD]
      /\ race' = race \cup freed
      /\ UNCHANGED <<clients, file, active, policy, shared, copy, high>>
  BY DEF Free, Released
<1>2. freed \subseteq {"request", "fill"}
  OBVIOUS
<1>3. t = "pps" /\ main.slot = pps.slot /\ main.at \in {"stamp", "handle"} => "request" \in freed
  OBVIOUS
<1>4. t = "pps" /\ main.slot = pps.slot /\ main.at = "activate" => "fill" \in freed
  OBVIOUS
<1>5. "fill" \in freed => t = "pps" /\ main.slot = pps.slot /\ main.at = "activate"
  BY DEF Thread
<1> HIDE DEF freed
<1> QED
  BY <1>1, <1>2, <1>3, <1>4, <1>5

LEMMA FreeTyped ==
  ASSUME TypeInv, NEW t \in Thread, Free(t)
  PROVE  TypeInv'
<1>1. Sane' /\ main' \in MainType /\ pps' \in PpsType
  BY FreeFacts, ReturnsFacts, GoSane DEF Sane, TypeInv, Thread, clients
<1>2. fd' = [fd EXCEPT ![Doing(t).slot] = UNALLOCATED_FD] /\ race' \subseteq race \cup {"request", "fill"}
  BY FreeFacts
<1>3. fd' \in [Slot -> Fd \cup {UNALLOCATED_FD}]
  BY <1>2 DEF TypeInv, TypeOK
<1>4. race' \subseteq Race
  BY <1>2 DEF TypeInv, TypeOK, Race
<1> QED
  BY <1>1, <1>3, <1>4, FreeFacts DEF clients, shared, TypeInv, TypeOK, MainType, PpsType

LEMMA NextTyped ==
  ASSUME TypeInv, [Next]_vars
  PROVE  TypeInv'
<1>1. CASE UNCHANGED vars
  BY <1>1 DEF vars, clients, slots, shared, TypeInv, TypeOK, Sane
<1> QED
  BY <1>1, ClientsTyped, CallTyped, WakeTyped, AcceptTyped, RefuseTyped, LeakTyped, InstallTyped,
     RaiseTyped, FillTyped, StampTyped, DecisionTyped, RecvTyped, HandleTyped, PpsTyped,
     DetachInsideTyped, DetachTyped, ClearTyped, FreeTyped
     DEF Next, Loop, DetachStep
-----------------------------------------------------------------------------
(* What steps do to descriptors.                                           *)

Bad == {f \in all_fds : file[f] = Closed}

(* No descriptor changes hands and no mutex is taken or released.          *)
Still ==
  /\ file' = file /\ fd' = fd /\ race \subseteq race'
  /\ \A s : Has("main", s)' <=> Has("main", s)
  /\ \A s : Has("pps", s)' <=> Has("pps", s)
  /\ main'.at \in Installs => main.at \in Installs /\ main'.fd = main.fd

(* Neither is all_fds written, but after EBADF, nor what was read of it.   *)
Plain ==
  /\ Still /\ copy' = copy
  /\ all_fds' = all_fds \/ all_fds' = all_fds \ Bad
  /\ main'.at \in Raised => main.at \in Raised
  /\ main'.at \in {"install", "clear"} => main' = main
  /\ pps'.at \in {"install", "clear"} => pps' = pps

(* A thread closes the descriptor of slot s, and goes on to free the slot. *)
Closing(t, s) ==
  /\ s \in Slot /\ fd[s] # UNALLOCATED_FD /\ ~Detaching(s) /\ Close(s)
  /\ Doing(t).at = "detach" /\ Doing(t).slot = s
  /\ IF t = "main" THEN main'.at = "clear" /\ main'.slot = s /\ pps' = pps
                   ELSE pps'.at = "clear" /\ pps'.slot = s /\ main' = main
  /\ copy' = [copy EXCEPT ![t] = all_fds]
  /\ UNCHANGED <<slots, shared, race>>

Freeing(t, s) ==
  /\ s \in Slot /\ Doing(t).at = "free" /\ Doing(t).slot = s
  /\ IF t = "main" THEN main' = Go(main) /\ main'.at \in {"select", "report", "test"} /\ pps' = pps
                   ELSE pps' = NextSlot /\ pps'.at \in {"wait", "send"} /\ main' = main
  /\ fd' = [fd EXCEPT ![s] = UNALLOCATED_FD]
  /\ race \subseteq race'
  /\ UNCHANGED <<clients, file, active, policy, shared, copy>>

LEMMA ClientsAreStill ==
  ASSUME Clients
  PROVE  UNCHANGED <<file, slots, shared, threads>>
BY DEF Clients, Connect, Send, Quit, StopReading

(* The main thread outside detach_client.                                  *)
LEMMA PlainMain ==
  ASSUME TypeInv,
         \/ Clients \/ Call
         \/ \E data \in BOOLEAN, late \in SUBSET main.rfds : Wake(data, late)
         \/ Refuse \/ Raise \/ Store \/ Activate \/ Greet \/ Report \/ Test \/ Recv \/ Stamp \/ Handle
  PROVE  Plain /\ pps' = pps
<1>1. ASSUME file' = file, fd' = fd, copy' = copy, race \subseteq race', pps' = pps,
             all_fds' = all_fds \/ all_fds' = all_fds \ Bad,
             \/ main' = main
             \/ /\ main.at \notin Inside /\ main'.at \notin Inside \cup Installs
             \/ /\ main.at \in Raised /\ main'.at \in Raised /\ main'.fd = main.fd
      PROVE  Plain /\ pps' = pps
  <2>1. main'.at \in {"install", "clear"} => main' = main
    BY <1>1 DEF Inside, Installs, Raised
  <2>2. main'.at \in Raised => main.at \in Raised
    BY <1>1 DEF Installs, Raised
  <2>3. main'.at \in Installs => main.at \in Installs /\ main'.fd = main.fd
    BY <1>1 DEF Installs, Raised
  <2>4. \A s : Has("main", s)' <=> Has("main", s)
    BY <1>1 DEF Has, Doing, Inside, Raised
  <2>5. \A s : Has("pps", s)' <=> Has("pps", s)
    BY <1>1 DEF Has, Doing
  <2> QED
    BY <1>1, <2>1, <2>2, <2>3, <2>4, <2>5 DEF Plain, Still
<1>2. CASE Clients
  BY <1>1, <1>2, ClientsAreStill DEF slots, shared, threads
<1>3. CASE Call
  <2>1. /\ UNCHANGED <<file, slots, pps, copy>> /\ main.at = "select" /\ race \subseteq race'
        /\ all_fds' = all_fds \/ all_fds' = all_fds \ Bad
        /\ main' = main \/ main' = [Idle EXCEPT !.at = "wait", !.rfds = {f \in all_fds : f <= maxfd}]
    BY <1>3 DEF Call, BadDescriptors, Bad
  <2>2. main' = main \/ main'.at = "wait"
    BY <2>1 DEF Idle
  <2> QED
    BY <1>1, <2>1, <2>2 DEF slots, Inside, Installs
<1>4. CASE \E data \in BOOLEAN, late \in SUBSET main.rfds : Wake(data, late)
  <2>1. PICK woken \in MainType :
          /\ main' = Go(woken) \/ main'.at = "accept"
          /\ main.at = "wait" /\ UNCHANGED <<file, slots, shared, pps, copy, race>>
    BY <1>4, WakeFacts
  <2>2. main'.at \in {"select", "report", "test", "accept"}
    BY <2>1, GoesOn
  <2> QED
    BY <1>1, <2>1, <2>2 DEF slots, shared, Inside, Installs
<1>5. CASE Refuse
  <2>1. main' = Go(main) /\ main.at = "accept" /\ UNCHANGED <<file, slots, shared, pps, copy, race>>
    BY <1>5 DEF Refuse
  <2>2. main'.at \in {"select", "report", "test"}
    BY <2>1, GoesOn, TypedVariables DEF TypeInv
  <2> QED
    BY <1>1, <2>1, <2>2 DEF slots, shared, Inside, Installs
<1>6. CASE Raise \/ Store
  <2>1. main.at \in Raised /\ main'.at \in Raised /\ main'.fd = main.fd
    BY <1>6, RaiseFacts DEF Raised
  <2> QED
    BY <1>1, <1>6, <2>1, RaiseFacts DEF slots
<1>7. CASE Activate \/ Stamp
  <2>1. main.at \in {"activate", "stamp"} /\ main'.at \in {"greet", "handle"} /\ race \subseteq race'
        /\ UNCHANGED <<file, fd, shared, pps, copy>>
    BY <1>7, StampFacts
  <2> QED
    BY <1>1, <2>1 DEF shared, Inside, Installs
<1>8. CASE Greet \/ Report \/ Test
  <2>1. main.at \in {"greet", "report", "test"} /\ UNCHANGED <<file, slots, shared, pps, copy, race>>
    BY <1>8, DecisionFacts
  <2>2. main'.at \in {"select", "report", "test", "detach", "recv"}
    BY <1>8, DecisionFacts, GoesOn, TypedVariables DEF TypeInv
  <2> QED
    BY <1>1, <2>1, <2>2 DEF slots, shared, Inside, Installs
<1>9. CASE Recv
  <2>1. main.at = "recv" /\ main'.at \in {"stamp", "detach"}
        /\ UNCHANGED <<file, slots, shared, pps, copy, race>>
    BY <1>9, RecvFacts
  <2> QED
    BY <1>1, <2>1 DEF slots, shared, Inside, Installs
<1>10. CASE Handle
  <2>1. main.at = "handle" /\ UNCHANGED <<file, fd, shared, pps, copy>> /\ race \subseteq race'
    BY <1>10, HandleFacts
  <2>2. main'.at \in {"select", "report", "test", "detach"}
    BY <1>10, HandleFacts, GoesOn, TypedVariables DEF TypeInv
  <2> QED
    BY <1>1, <2>1, <2>2 DEF shared, Inside, Installs
<1> QED
  BY <1>2, <1>3, <1>4, <1>5, <1>6, <1>7, <1>8, <1>9, <1>10

(* The PPS thread outside detach_client.                                   *)
LEMMA PlainPps ==
  ASSUME TypeInv, Edge \/ PpsSend
  PROVE  Plain
<1>1. /\ pps.at \in {"wait", "send"} /\ pps'.at \in {"wait", "send", "detach"}
      /\ UNCHANGED <<file, slots, shared, main, copy, race>>
  BY PpsFacts
<1>2. \A s : (Has("main", s)' <=> Has("main", s)) /\ (Has("pps", s)' <=> Has("pps", s))
  BY <1>1 DEF Has, Doing, Inside
<1> QED
  BY <1>1, <1>2 DEF Plain, Still, slots, shared

(* detach_client where it leaves descriptors and all_fds alone.            *)
LEMMA PlainDetach ==
  ASSUME TypeInv, NEW t \in Thread,
         \/ Lower(t) \/ Count(t) \/ Settle(t) \/ Deactivate(t) \/ Unsubscribe(t)
         \/ Detach(t) /\ fd[Doing(t).slot] = UNALLOCATED_FD
  PROVE  Plain /\ (t = "main" => pps' = pps) /\ (t = "pps" => main' = main)
<1>1. CASE Detach(t) /\ fd[Doing(t).slot] = UNALLOCATED_FD
  <2>1. Doing(t).at = "detach" /\ Returns(t) /\ UNCHANGED <<file, slots, shared, copy, race>>
    BY <1>1, DetachFacts
  <2>2. /\ t = "main" => main'.at \in {"select", "report", "test"} /\ pps' = pps
        /\ t = "pps" => pps'.at \in {"wait", "send"} /\ main' = main
    BY <2>1, ReturnsFacts DEF TypeInv
  <2>3. \A s : (Has("main", s)' <=> Has("main", s)) /\ (Has("pps", s)' <=> Has("pps", s))
    BY <2>1, <2>2 DEF Has, Doing, Inside, Thread
  <2>4. /\ main'.at \in Installs \cup {"install", "clear"} => main' = main
        /\ pps'.at \in {"install", "clear"} => pps' = pps
    BY <2>2 DEF Thread, Installs
  <2> QED
    BY <2>1, <2>2, <2>3, <2>4 DEF Plain, Still, slots, shared, Installs, Raised
<1>2. CASE Lower(t) \/ Count(t) \/ Settle(t) \/ Deactivate(t) \/ Unsubscribe(t)
  <2>1. PICK at \in Inside \ {"clear"} : Goes(t, at)
    BY <1>2, DetachInside
  <2>2. Doing(t).at \in Inside /\ UNCHANGED <<file, fd, all_fds, copy, race>>
    BY <1>2, DetachInside
  <2>3. /\ main'.slot = main.slot /\ pps'.slot = pps.slot
        /\ t = "main" => main'.at = at /\ pps' = pps
        /\ t = "pps" => pps'.at = at /\ main' = main
    BY <2>1, GoesFacts DEF TypeInv
  <2>4. \A s : (Has("main", s)' <=> Has("main", s)) /\ (Has("pps", s)' <=> Has("pps", s))
    BY <2>1, <2>2, <2>3 DEF Has, Doing, Thread
  <2>5. /\ main'.at \in Installs \cup {"install", "clear"} => main' = main
        /\ pps'.at \in {"install", "clear"} => pps' = pps
    BY <2>1, <2>3 DEF Thread, Installs, Inside
  <2> QED
    BY <2>2, <2>3, <2>4, <2>5 DEF Plain, Still, Installs, Raised
<1> QED
  BY <1>1, <1>2

LEMMA InstallIsStill ==
  ASSUME TypeInv, Install
  PROVE  Still
<1>1. main.at = "install" /\ main'.at = "raise" /\ main'.fd = main.fd /\ race \subseteq race'
      /\ UNCHANGED <<file, slots, pps>>
  BY InstallFacts
<1>2. \A s : (Has("main", s)' <=> Has("main", s)) /\ (Has("pps", s)' <=> Has("pps", s))
  BY <1>1 DEF Has, Doing, Inside
<1> QED
  BY <1>1, <1>2 DEF Still, slots, Installs

LEMMA ClearIsStill ==
  ASSUME TypeInv, NEW t \in Thread, Clear(t)
  PROVE  Still /\ (t = "main" => pps' = pps /\ main'.at = "lower")
               /\ (t = "pps" => main' = main /\ pps'.at = "lower")
<1>1. Doing(t).at = "clear" /\ Goes(t, "lower") /\ UNCHANGED <<file, slots>> /\ race \subseteq race'
  BY ClearFacts
<1>2. /\ main'.slot = main.slot /\ pps'.slot = pps.slot
      /\ t = "main" => main'.at = "lower" /\ pps' = pps
      /\ t = "pps" => pps'.at = "lower" /\ main' = main
  BY <1>1, GoesFacts DEF TypeInv, Inside
<1>3. \A s : (Has("main", s)' <=> Has("main", s)) /\ (Has("pps", s)' <=> Has("pps", s))
  BY <1>1, <1>2 DEF Has, Doing, Inside, Thread
<1> QED
  BY <1>1, <1>2, <1>3 DEF Still, slots, Installs, Thread

LEMMA DetachCloses ==
  ASSUME TypeInv, NEW t \in Thread, Detach(t), fd[Doing(t).slot] # UNALLOCATED_FD
  PROVE  Closing(t, Doing(t).slot)
<1>1. /\ Doing(t).at = "detach" /\ ~Detaching(Doing(t).slot)
      /\ Goes(t, "clear") /\ Close(Doing(t).slot) /\ copy' = [copy EXCEPT ![t] = all_fds]
      /\ UNCHANGED <<slots, shared, race>>
  BY DetachFacts
<1>2. /\ main'.slot = main.slot /\ pps'.slot = pps.slot
      /\ t = "main" => main'.at = "clear" /\ pps' = pps
      /\ t = "pps" => pps'.at = "clear" /\ main' = main
  BY <1>1, GoesFacts DEF TypeInv, Inside
<1>3. Doing(t).slot \in Slot
  BY TypedVariables DEF TypeInv
<1> QED
  BY <1>1, <1>2, <1>3 DEF Closing, Doing, Thread

LEMMA FreeFrees ==
  ASSUME TypeInv, NEW t \in Thread, Free(t)
  PROVE  Freeing(t, Doing(t).slot)
<1>1. /\ Doing(t).at = "free" /\ Returns(t)
      /\ fd' = [fd EXCEPT ![Doing(t).slot] = UNALLOCATED_FD] /\ race \subseteq race'
      /\ UNCHANGED <<clients, file, active, policy, shared, copy>>
  BY FreeFacts
<1>2. /\ t = "main" => main' = Go(main) /\ main'.at \in {"select", "report", "test"} /\ pps' = pps
      /\ t = "pps" => pps' = NextSlot /\ pps'.at \in {"wait", "send"} /\ main' = main
  BY <1>1, ReturnsFacts DEF TypeInv
<1>3. Doing(t).slot \in Slot
  BY TypedVariables DEF TypeInv
<1> QED
  BY <1>1, <1>2, <1>3 DEF Freeing, Thread

(* Every step is one of these.                                             *)
LEMMA StepKinds ==
  ASSUME TypeInv, [Next]_vars
  PROVE  \/ Plain
         \/ \E t \in Thread : Clear(t)
         \/ \E t \in Thread : Closing(t, Doing(t).slot)
         \/ \E t \in Thread : Freeing(t, Doing(t).slot)
         \/ Install \/ Accept \/ Leak \/ Fill
<1>1. CASE UNCHANGED vars
  BY <1>1 DEF vars, slots, shared, Plain, Still, Has, Doing
<1> QED
  BY <1>1, PlainMain, PlainPps, PlainDetach, DetachCloses, FreeFrees DEF Next, Loop, DetachStep
-----------------------------------------------------------------------------
(* Who has which descriptor, whatever the threads do.                      *)

Live(s) == fd[s] > 0 /\ ~Detaching(s)

(* The threads never free one slot together; the descriptor of a live slot *)
(* is open; and the one that accept has given out and that is not in a     *)
(* slot yet is open and in no live slot.                                   *)
Exclusive == \A s \in Slot : ~(Has("main", s) /\ Has("pps", s))
LiveIsOpen == \A s \in Slot : Live(s) => file[fd[s]] # Closed
Installing ==
  main.at \in Installs /\ main.fd > 0 =>
    file[main.fd] # Closed /\ \A s \in Slot : Live(s) => fd[s] # main.fd

Descriptors == Exclusive /\ LiveIsOpen /\ OneOwner /\ Installing

LEMMA DetachingBy ==
  /\ \A s : Detaching(s) <=> Has("main", s) \/ Has("pps", s)
  /\ \A s : Detaching(s)' <=> Has("main", s)' \/ Has("pps", s)'
BY DEF Detaching, Thread

LEMMA FdNumbers ==
  ASSUME TypeInv
  PROVE  /\ \A s \in Slot : fd[s] \in Int /\ (fd[s] > 0 => fd[s] \in Fd)
         /\ main.fd \in Int /\ main.fd \in Fd
<1>1. \A s \in Slot : fd[s] \in Fd \cup {UNALLOCATED_FD}
  BY TypedVariables DEF TypeInv
<1>2. main.fd \in Fd
  BY TypedVariables DEF TypeInv
<1>3. Fd \subseteq Int /\ UNALLOCATED_FD \in Int /\ ~(UNALLOCATED_FD > 0)
  BY Numbers
<1> QED
  BY <1>1, <1>2, <1>3, Zenon

LEMMA StillDescriptors ==
  ASSUME TypeInv, Descriptors, Still
  PROVE  Descriptors' /\ \A s : Detaching(s)' <=> Detaching(s)
<1>1. \A s : Detaching(s)' <=> Detaching(s)
  BY DetachingBy DEF Still
<1>2. \A s \in Slot : Live(s)' <=> Live(s)
  BY <1>1 DEF Live, Still
<1>3. Exclusive'
  BY DEF Still, Exclusive, Descriptors
<1>4. LiveIsOpen'
  BY <1>2 DEF Still, LiveIsOpen, Descriptors
<1>5. OneOwner'
  BY <1>1 DEF Still, OneOwner, Descriptors
<1>6. Installing'
  BY <1>2 DEF Still, Installing, Descriptors
<1> QED
  BY <1>1, <1>3, <1>4, <1>5, <1>6 DEF Descriptors

LEMMA CloseDescriptors ==
  ASSUME TypeInv, Descriptors, NEW t \in Thread, NEW s, Closing(t, s)
  PROVE  Descriptors' /\ \A u : Detaching(u)' <=> Detaching(u) \/ u = s
<1>1. s \in Slot /\ fd' = fd /\ ~Detaching(s) /\ Doing(t).at = "detach" /\ Doing(t).slot = s
      /\ file' = [f \in Fd |-> IF f = fd[s] THEN Closed ELSE file[f]]
  BY DEF Closing, Close, slots
<1>2. \A u : /\ Has("main", u)' <=> Has("main", u) \/ (t = "main" /\ u = s)
             /\ Has("pps", u)' <=> Has("pps", u) \/ (t = "pps" /\ u = s)
  BY DEF Closing, Has, Doing, Inside, Thread
<1>3. \A u : Detaching(u)' <=> Detaching(u) \/ u = s
  BY <1>2, DetachingBy DEF Thread
<1>4. \A u \in Slot : Live(u)' <=> Live(u) /\ u # s
  BY <1>1, <1>3 DEF Live
<1>5. Exclusive'
  BY <1>1, <1>2, DetachingBy DEF Exclusive, Descriptors
<1>6. LiveIsOpen'
  <2> SUFFICES ASSUME NEW u \in Slot, Live(u), u # s
               PROVE  file'[fd[u]] # Closed
    BY <1>1, <1>4 DEF LiveIsOpen
  <2>1. fd[u] # fd[s] /\ fd[u] \in Fd /\ file[fd[u]] # Closed
    BY <1>1, FdNumbers DEF Live, Descriptors, OneOwner, LiveIsOpen
  <2> QED
    BY <1>1, <2>1
<1>7. OneOwner'
  BY <1>1, <1>3 DEF OneOwner, Descriptors
<1>8. Installing'
  <2> SUFFICES ASSUME main'.at \in Installs, main'.fd > 0
               PROVE  file'[main'.fd] # Closed /\ \A u \in Slot : Live(u)' => fd'[u] # main'.fd
    BY DEF Installing
  <2>1. main' = main
    BY DEF Closing, Installs
  <2>2. file[main.fd] # Closed /\ \A u \in Slot : Live(u) => fd[u] # main.fd
    BY <2>1 DEF Descriptors, Installing
  <2>3. main.fd # fd[s] /\ main.fd \in Fd
    BY <1>1, <2>1, <2>2, FdNumbers DEF Live
  <2> QED
    BY <1>1, <1>4, <2>1, <2>2, <2>3
<1> QED
  BY <1>3, <1>5, <1>6, <1>7, <1>8 DEF Descriptors

LEMMA FreeDescriptors ==
  ASSUME TypeInv, Descriptors, NEW t \in Thread, NEW s, Freeing(t, s)
  PROVE  Descriptors' /\ \A u : Detaching(u)' <=> Detaching(u) /\ u # s
<1>1. s \in Slot /\ file' = file /\ \A u \in Slot : fd'[u] = IF u = s THEN UNALLOCATED_FD ELSE fd[u]
  BY DEF Freeing, TypeInv, TypeOK
<1>2. \A u : /\ Has("main", u)' <=> Has("main", u) /\ ~(t = "main" /\ u = s)
             /\ Has("pps", u)' <=> Has("pps", u) /\ ~(t = "pps" /\ u = s)
  BY DEF Freeing, Has, Doing, Inside, Thread
<1>3. Has(t, s)
  BY DEF Freeing, Has, Inside
<1>4. \A u : Detaching(u)' <=> Detaching(u) /\ u # s
  BY <1>1, <1>2, <1>3, DetachingBy DEF Descriptors, Exclusive, Thread
<1>5. \A u \in Slot : fd'[u] > 0 <=> u # s /\ fd[u] > 0
  BY <1>1, Numbers
<1>6. \A u \in Slot : Live(u)' => Live(u) /\ u # s /\ fd'[u] = fd[u]
  BY <1>1, <1>4, <1>5 DEF Live
<1>7. Exclusive'
  BY <1>2 DEF Exclusive, Descriptors
<1>8. LiveIsOpen'
  BY <1>1, <1>6 DEF LiveIsOpen, Descriptors
<1>9. OneOwner'
  <2> SUFFICES ASSUME NEW v \in Slot, NEW u \in Slot, v # u, fd'[v] > 0, fd'[v] = fd'[u]
               PROVE  Detaching(v)' \/ Detaching(u)'
    BY DEF OneOwner
  <2>1. v # s /\ u # s /\ fd[v] > 0 /\ fd[v] = fd[u]
    BY <1>1, <1>5
  <2> QED
    BY <1>4, <2>1 DEF Descriptors, OneOwner
<1>10. Installing'
  <2> SUFFICES ASSUME main'.at \in Installs, main'.fd > 0
               PROVE  file'[main'.fd] # Closed /\ \A u \in Slot : Live(u)' => fd'[u] # main'.fd
    BY DEF Installing
  <2>1. main' = main
    BY DEF Freeing, Installs
  <2> QED
    BY <1>1, <1>6, <2>1 DEF Descriptors, Installing
<1> QED
  BY <1>4, <1>7, <1>8, <1>9, <1>10 DEF Descriptors

LEMMA AcceptDescriptors ==
  ASSUME TypeInv, Descriptors, Accept
  PROVE  Descriptors' /\ \A t : Detaching(t)' <=> Detaching(t)
<1>1. PICK f \in Fd, s \in Slot :
        /\ file[f] = Closed /\ fd[s] = UNALLOCATED_FD
        /\ file' = [file EXCEPT ![f] = Head(backlog)] /\ fd' = [fd EXCEPT ![s] = 0]
        /\ main'.at = "install" /\ main'.fd = f
        /\ main.at = "accept" /\ Head(backlog) \in Conn
        /\ pps' = pps
  BY AcceptFacts
<1>2. /\ \A t \in Slot : fd'[t] = IF t = s THEN 0 ELSE fd[t]
      /\ \A g \in Fd : file'[g] = IF g = f THEN Head(backlog) ELSE file[g]
      /\ Head(backlog) # Closed
  BY <1>1, Numbers DEF TypeInv, TypeOK
<1>3. \A u : (Has("main", u)' <=> Has("main", u)) /\ (Has("pps", u)' <=> Has("pps", u))
  BY <1>1 DEF Has, Doing, Inside
<1>4. \A t : Detaching(t)' <=> Detaching(t)
  BY <1>3, DetachingBy
<1>5. \A t \in Slot : /\ fd'[t] > 0 => t # s /\ fd'[t] = fd[t]
                      /\ Live(t)' => Live(t) /\ t # s /\ fd'[t] = fd[t]
  BY <1>2, <1>4 DEF Live
<1>6. Exclusive'
  BY <1>3 DEF Exclusive, Descriptors
<1>7. LiveIsOpen'
  BY <1>2, <1>5, FdNumbers DEF LiveIsOpen, Live, Descriptors
<1>8. OneOwner'
  BY <1>4, <1>5 DEF OneOwner, Descriptors
<1>9. Installing'
  BY <1>1, <1>2, <1>5 DEF Installing, LiveIsOpen, Descriptors
<1> QED
  BY <1>4, <1>6, <1>7, <1>8, <1>9 DEF Descriptors

LEMMA FillDescriptors ==
  ASSUME TypeInv, Descriptors, Fill
  PROVE  Descriptors' /\ \A t : Detaching(t)' <=> Detaching(t)
<1>1. PICK s \in Slot : s = main.slot
  BY TypedVariables DEF TypeInv
<1>2. /\ fd' = [fd EXCEPT ![s] = main.fd]
      /\ main.at = "fill" /\ main'.at = "activate" /\ file' = file /\ pps' = pps
  BY <1>1, FillFacts
<1>3. \A t \in Slot : fd'[t] = IF t = s THEN main.fd ELSE fd[t]
  BY <1>2 DEF TypeInv, TypeOK
<1>4. \A u : (Has("main", u)' <=> Has("main", u)) /\ (Has("pps", u)' <=> Has("pps", u))
  BY <1>2 DEF Has, Doing, Inside
<1>5. \A t : Detaching(t)' <=> Detaching(t)
  BY <1>4, DetachingBy
<1>6. main.fd > 0 => file[main.fd] # Closed /\ \A t \in Slot : Live(t) => fd[t] # main.fd
  BY <1>2 DEF Descriptors, Installing, Installs
<1>7. Exclusive' /\ Installing'
  BY <1>2, <1>4 DEF Exclusive, Installing, Descriptors, Installs
<1>8. LiveIsOpen'
  BY <1>2, <1>3, <1>5, <1>6 DEF LiveIsOpen, Live, Descriptors
<1>9. OneOwner'
  <2> SUFFICES ASSUME NEW t \in Slot, NEW u \in Slot, t # u, fd'[t] > 0, fd'[t] = fd'[u]
               PROVE  Detaching(t) \/ Detaching(u)
    BY <1>5 DEF OneOwner
  <2>1. CASE t # s /\ u # s
    BY <1>3, <2>1 DEF Descriptors, OneOwner
  <2>2. CASE t = s
    <3>1. main.fd > 0 /\ fd[u] = main.fd
      BY <1>3, <2>2
    <3> QED
      BY <1>6, <3>1 DEF Live
  <2>3. CASE u = s
    <3>1. main.fd > 0 /\ fd[t] = main.fd
      BY <1>3, <2>3
    <3> QED
      BY <1>6, <3>1 DEF Live
  <2> QED
    BY <2>1, <2>2, <2>3
<1> QED
  BY <1>5, <1>7, <1>8, <1>9 DEF Descriptors

LEMMA LeakDescriptors ==
  ASSUME TypeInv, Descriptors, Leak
  PROVE  Descriptors' /\ \A t : Detaching(t)' <=> Detaching(t)
<1>1. /\ file' = [file EXCEPT ![main.fd] = Closed] /\ main.at = "install"
      /\ main'.at \in {"select", "report", "test"} /\ fd' = fd /\ pps' = pps
  BY LeakFacts DEF slots
<1>2. \A u : (Has("main", u)' <=> Has("main", u)) /\ (Has("pps", u)' <=> Has("pps", u))
  BY <1>1 DEF Has, Doing, Inside
<1>3. \A t : Detaching(t)' <=> Detaching(t)
  BY <1>2, DetachingBy
<1>4. Exclusive' /\ Installing' /\ OneOwner'
  BY <1>1, <1>2, <1>3 DEF Exclusive, Installing, OneOwner, Descriptors, Installs
<1>5. LiveIsOpen'
  <2> SUFFICES ASSUME NEW t \in Slot, Live(t)
               PROVE  file'[fd[t]] # Closed
    BY <1>1, <1>3 DEF LiveIsOpen, Live
  <2>1. fd[t] \in Fd /\ fd[t] # main.fd /\ file[fd[t]] # Closed
    BY <1>1, FdNumbers DEF Live, Descriptors, Installing, LiveIsOpen, Installs
  <2> QED
    BY <1>1, <2>1 DEF TypeInv, TypeOK
<1> QED
  BY <1>3, <1>4, <1>5 DEF Descriptors

LEMMA NextDescriptors ==
  ASSUME TypeInv, Descriptors, [Next]_vars
  PROVE  Descriptors'
<1>1. Plain => Descriptors'
  BY StillDescriptors DEF Plain
<1>2. ASSUME NEW t \in Thread, Clear(t) PROVE Descriptors'
  BY <1>2, ClearIsStill, StillDescriptors
<1>3. Install => Descriptors'
  BY InstallIsStill, StillDescriptors
<1>4. ASSUME NEW t \in Thread, Closing(t, Doing(t).slot) PROVE Descriptors'
  BY <1>4, CloseDescriptors
<1>5. ASSUME NEW t \in Thread, Freeing(t, Doing(t).slot) PROVE Descriptors'
  BY <1>5, FreeDescriptors
<1> QED
  BY <1>1, <1>2, <1>3, <1>4, <1>5, StepKinds, AcceptDescriptors, LeakDescriptors, FillDescriptors

(* Where a slot is live after a step it was before, unless it has just     *)
(* been filled.                                                            *)
LEMMA LiveStep ==
  ASSUME TypeInv, Descriptors, [Next]_vars
  PROVE  \A u \in Slot : Live(u)' => \/ Live(u) /\ fd'[u] = fd[u]
                                     \/ Fill /\ u = main.slot
<1>1. Still => \A u \in Slot : Live(u)' => Live(u) /\ fd'[u] = fd[u]
  BY StillDescriptors DEF Live, Still
<1>2. ASSUME NEW t \in Thread, NEW s, Closing(t, s)
      PROVE  \A u \in Slot : Live(u)' => Live(u) /\ fd'[u] = fd[u]
  BY <1>2, CloseDescriptors DEF Live, Closing, slots
<1>3. ASSUME NEW t \in Thread, NEW s, Freeing(t, s)
      PROVE  \A u \in Slot : Live(u)' => Live(u) /\ fd'[u] = fd[u]
  <2>1. \A u \in Slot : fd'[u] = IF u = s THEN UNALLOCATED_FD ELSE fd[u]
    BY <1>3 DEF Freeing, TypeInv, TypeOK
  <2>2. \A u \in Slot : fd'[u] > 0 => u # s /\ fd'[u] = fd[u]
    BY <2>1, Numbers
  <2> QED
    BY <1>3, <2>2, FreeDescriptors DEF Live
<1>4. ASSUME Accept
      PROVE  \A u \in Slot : Live(u)' => Live(u) /\ fd'[u] = fd[u]
  <2>1. PICK f \in Fd, s \in Slot : fd' = [fd EXCEPT ![s] = 0]
    BY <1>4, AcceptFacts
  <2>2. \A u \in Slot : fd'[u] > 0 => fd'[u] = fd[u]
    BY <2>1 DEF TypeInv, TypeOK
  <2> QED
    BY <1>4, <2>2, AcceptDescriptors DEF Live
<1>5. ASSUME Fill
      PROVE  \A u \in Slot : Live(u)' => (Live(u) /\ fd'[u] = fd[u]) \/ u = main.slot
  <2>1. fd' = [fd EXCEPT ![main.slot] = main.fd]
    BY <1>5, FillFacts
  <2>2. \A u \in Slot : u # main.slot => fd'[u] = fd[u]
    BY <2>1 DEF TypeInv, TypeOK
  <2> QED
    BY <1>5, <2>2, FillDescriptors DEF Live
<1>6. ASSUME Leak
      PROVE  \A u \in Slot : Live(u)' => Live(u) /\ fd'[u] = fd[u]
  BY <1>6, LeakFacts, LeakDescriptors DEF Live, slots
<1> QED
  BY <1>1, <1>2, <1>3, <1>4, <1>5, <1>6, StepKinds, ClearIsStill, InstallIsStill DEF Plain
-----------------------------------------------------------------------------
(* Who is in all_fds, as long as the threads did not get across in it.     *)

(* A live slot is in all_fds, so is the descriptor the main thread has     *)
(* entered there; a thread that is about to take out a descriptor takes    *)
(* out no other's; and what it has read of all_fds misses nothing.         *)
BitsOK ==
  /\ \A s \in Slot : Live(s) => fd[s] \in all_fds
  /\ main.at \in Raised /\ main.fd > 0 => main.fd \in all_fds
  /\ \A t \in Thread, u \in Slot :
       Doing(t).at = "clear" /\ u # Doing(t).slot /\ Live(u) => fd[u] # fd[Doing(t).slot]
  /\ main.at \in Raised /\ main.fd > 0 /\ pps.at = "clear" => fd[pps.slot] # main.fd
  /\ \A t \in Thread : Updating(t) => all_fds \subseteq copy[t]

BitsInv == "bits" \notin race => BitsOK

LEMMA PlainBits ==
  ASSUME TypeInv, Descriptors, BitsInv, Plain
  PROVE  BitsInv'
<1> SUFFICES ASSUME "bits" \notin race, BitsOK
             PROVE  BitsOK'
  BY DEF BitsInv, Plain, Still
<1>1. /\ file' = file /\ fd' = fd /\ copy' = copy
      /\ all_fds' = all_fds \/ all_fds' = all_fds \ Bad
      /\ main'.at \in Raised => main.at \in Raised
      /\ main'.at \in Installs => main'.fd = main.fd
      /\ main'.at \in {"install", "clear"} => main' = main
      /\ pps'.at \in {"install", "clear"} => pps' = pps
  BY DEF Plain, Still
<1>2. \A s \in Slot : Live(s)' => Live(s)
  BY StillDescriptors DEF Live, Plain, Still
<1>3. \A s \in Slot : Live(s)' => fd'[s] \in all_fds'
  BY <1>1, <1>2 DEF BitsOK, Descriptors, LiveIsOpen, Bad
<1>4. main'.at \in Raised /\ main'.fd > 0 => main'.fd \in all_fds'
  BY <1>1 DEF BitsOK, Descriptors, Installing, Raised, Installs, Bad
<1>5. ASSUME NEW t \in Thread, NEW u \in Slot, Doing(t)'.at = "clear", u # Doing(t)'.slot, Live(u)'
      PROVE  fd'[u] # fd'[Doing(t)'.slot]
  <2>1. Doing(t)' = Doing(t)
    BY <1>1, <1>5 DEF Doing
  <2> QED
    BY <1>1, <1>2, <1>5, <2>1 DEF BitsOK
<1>6. main'.at \in Raised /\ main'.fd > 0 /\ pps'.at = "clear" => fd'[pps'.slot] # main'.fd
  BY <1>1 DEF BitsOK, Raised, Installs
<1>7. ASSUME NEW t \in Thread, Updating(t)'
      PROVE  all_fds' \subseteq copy'[t]
  <2>1. Updating(t)
    BY <1>1, <1>7 DEF Updating, Doing
  <2> QED
    BY <1>1, <2>1 DEF BitsOK
<1> QED
  BY <1>3, <1>4, <1>5, <1>6, <1>7 DEF BitsOK

LEMMA ClearBits ==
  ASSUME TypeInv, Descriptors, BitsInv, NEW t \in Thread, Clear(t)
  PROVE  BitsInv'
<1>1. /\ Doing(t).at = "clear" /\ race \subseteq race' /\ file' = file /\ fd' = fd
      /\ all_fds' = copy[t] \ {fd[Doing(t).slot]}
      /\ \A u \in Thread : u # t /\ Updating(u) => "bits" \in race'
  BY ClearFacts DEF slots
<1> SUFFICES ASSUME "bits" \notin race', BitsOK
             PROVE  BitsOK'
  BY <1>1 DEF BitsInv
<1>2. Still /\ (t = "main" => pps' = pps /\ main'.at = "lower")
            /\ (t = "pps" => main' = main /\ pps'.at = "lower")
  BY ClearIsStill
<1>3. \A s \in Slot : Live(s)' => Live(s) /\ s # Doing(t).slot
  <2>1. \A s \in Slot : Live(s)' => Live(s)
    BY <1>1, <1>2, StillDescriptors DEF Live
  <2>2. Has(t, Doing(t).slot)
    BY <1>1 DEF Has, Inside
  <2> QED
    BY <2>1, <2>2 DEF Live, Detaching
<1>4. \A u \in Thread : u # t => ~Updating(u)
  BY <1>1
<1>5. all_fds \subseteq copy[t]
  BY <1>1 DEF BitsOK, Updating
<1>6. \A s \in Slot : Live(s)' => fd'[s] \in all_fds'
  BY <1>1, <1>3, <1>5 DEF BitsOK
<1>7. \A u \in Thread : ~Updating(u)'
  BY <1>2, <1>4 DEF Updating, Doing, Thread
<1>8. \A u \in Thread : Doing(u)'.at # "clear"
  BY <1>7 DEF Updating
<1>9. main'.at \in Raised /\ main'.fd > 0 => main'.fd \in all_fds'
  <2> SUFFICES ASSUME main'.at \in Raised, main'.fd > 0
               PROVE  main'.fd \in all_fds'
    OBVIOUS
  <2>1. t = "pps" /\ main' = main
    BY <1>2 DEF Thread, Raised
  <2> QED
    BY <1>1, <1>5, <2>1 DEF BitsOK, Doing
<1>10. pps'.at # "clear"
  BY <1>8 DEF Doing, Thread
<1> QED
  BY <1>6, <1>7, <1>8, <1>9, <1>10 DEF BitsOK

LEMMA CloseBits ==
  ASSUME TypeInv, Descriptors, BitsInv, NEW t \in Thread, NEW s, Closing(t, s)
  PROVE  BitsInv'
<1>1. /\ fd' = fd /\ all_fds' = all_fds /\ race' = race /\ s \in Slot /\ ~Detaching(s)
      /\ fd[s] # UNALLOCATED_FD /\ copy' = [copy EXCEPT ![t] = all_fds]
  BY DEF Closing, slots, shared
<1> SUFFICES ASSUME "bits" \notin race, BitsOK
             PROVE  BitsOK'
  BY <1>1 DEF BitsInv
<1>2. /\ t = "main" => main'.at = "clear" /\ main'.slot = s /\ pps' = pps
      /\ t = "pps" => pps'.at = "clear" /\ pps'.slot = s /\ main' = main
  BY DEF Closing
<1>3. \A u \in Slot : Live(u)' => Live(u) /\ u # s
  BY <1>1, CloseDescriptors DEF Live
<1>4. \A u \in Slot : Live(u)' => fd'[u] \in all_fds'
  BY <1>1, <1>3 DEF BitsOK
<1>5. main'.at \in Raised /\ main'.fd > 0 => main'.fd \in all_fds'
  BY <1>1, <1>2 DEF BitsOK, Thread, Raised
<1>6. ASSUME NEW v \in Thread, NEW u \in Slot, Doing(v)'.at = "clear", u # Doing(v)'.slot, Live(u)'
      PROVE  fd'[u] # fd'[Doing(v)'.slot]
  <2>1. CASE v = t
    <3>1. Doing(v)'.slot = s
      BY <1>2, <2>1 DEF Doing, Thread
    <3>2. fd[u] # fd[s]
      BY <1>1, <1>3, <1>6 DEF Live, Descriptors, OneOwner
    <3> QED
      BY <1>1, <3>1, <3>2
  <2>2. CASE v # t
    <3>1. Doing(v)' = Doing(v)
      BY <1>2, <2>2 DEF Doing, Thread
    <3> QED
      BY <1>1, <1>3, <1>6, <3>1 DEF BitsOK
  <2> QED
    BY <2>1, <2>2
<1>7. ASSUME main'.at \in Raised, main'.fd > 0, pps'.at = "clear"
      PROVE  fd'[pps'.slot] # main'.fd
  <2>1. t = "pps" /\ main' = main /\ pps'.slot = s
    BY <1>2, <1>7 DEF Thread, Raised
  <2>2. \A u \in Slot : Live(u) => fd[u] # main.fd
    BY <1>7, <2>1 DEF Descriptors, Installing, Raised, Installs
  <2> QED
    BY <1>1, <1>7, <2>1, <2>2 DEF Live
<1>8. ASSUME NEW v \in Thread, Updating(v)'
      PROVE  all_fds' \subseteq copy'[v]
  <2>1. CASE v = t
    BY <1>1, <2>1 DEF TypeInv, TypeOK
  <2>2. CASE v # t
    <3>1. Doing(v)' = Doing(v) /\ copy'[v] = copy[v]
      BY <1>1, <1>2, <2>2 DEF Doing, Thread, TypeInv, TypeOK
    <3> QED
      BY <1>1, <1>8, <3>1 DEF BitsOK, Updating
  <2> QED
    BY <2>1, <2>2
<1> QED
  BY <1>4, <1>5, <1>6, <1>7, <1>8 DEF BitsOK

LEMMA FreeBits ==
  ASSUME TypeInv, Descriptors, BitsInv, NEW t \in Thread, NEW s, Freeing(t, s)
  PROVE  BitsInv'
<1>1. /\ s \in Slot /\ all_fds' = all_fds /\ copy' = copy /\ race \subseteq race'
      /\ \A u \in Slot : fd'[u] = IF u = s THEN UNALLOCATED_FD ELSE fd[u]
  BY DEF Freeing, TypeInv, TypeOK, shared
<1> SUFFICES ASSUME "bits" \notin race, BitsOK
             PROVE  BitsOK'
  BY <1>1 DEF BitsInv
<1>2. /\ t = "main" => main'.at \in {"select", "report", "test"} /\ pps' = pps
      /\ t = "pps" => pps'.at \in {"wait", "send"} /\ main' = main
  BY DEF Freeing
<1>3. \A u \in Slot : Live(u)' => Live(u) /\ u # s /\ fd'[u] = fd[u]
  BY <1>1, Numbers, FreeDescriptors DEF Live
<1>4. \A u \in Slot : Live(u)' => fd'[u] \in all_fds'
  BY <1>1, <1>3 DEF BitsOK
<1>5. main'.at \in Raised => main' = main /\ pps'.at # "clear"
  BY <1>2 DEF Raised, Thread
<1>6. ASSUME NEW v \in Thread, NEW u \in Slot, Doing(v)'.at = "clear", u # Doing(v)'.slot, Live(u)'
      PROVE  fd'[u] # fd'[Doing(v)'.slot]
  <2>1. Doing(v)' = Doing(v) /\ v # t
    BY <1>2, <1>6 DEF Doing, Thread
  <2>2. Has(v, Doing(v).slot) /\ Has(t, s)
    BY <1>6, <2>1 DEF Has, Inside, Freeing
  <2>3. Doing(v).slot # s /\ Doing(v).slot \in Slot
    BY <1>1, <2>1, <2>2, TypedVariables DEF Descriptors, Exclusive, Thread, TypeInv
  <2> QED
    BY <1>1, <1>3, <1>6, <2>1, <2>3 DEF BitsOK
<1>7. ASSUME NEW v \in Thread, Updating(v)'
      PROVE  all_fds' \subseteq copy'[v]
  <2>1. Doing(v)' = Doing(v)
    BY <1>2, <1>7 DEF Updating, Doing, Thread
  <2> QED
    BY <1>1, <1>7, <2>1 DEF BitsOK, Updating
<1> QED
  BY <1>1, <1>4, <1>5, <1>6, <1>7 DEF BitsOK

LEMMA AcceptBits ==
  ASSUME TypeInv, Descriptors, BitsInv, Accept
  PROVE  BitsInv'
<1>1. PICK f \in Fd, s \in Slot :
        /\ fd[s] = UNALLOCATED_FD /\ fd' = [fd EXCEPT ![s] = 0]
        /\ copy'["main"] = all_fds /\ copy'["pps"] = copy["pps"] /\ race \subseteq race'
        /\ all_fds' = all_fds /\ pps' = pps /\ main'.at = "install"
  BY AcceptFacts DEF shared
<1> SUFFICES ASSUME "bits" \notin race', BitsOK
             PROVE  BitsOK'
  BY <1>1 DEF BitsInv
<1>2. \A t \in Slot : fd'[t] = IF t = s THEN 0 ELSE fd[t]
  BY <1>1 DEF TypeInv, TypeOK
<1>3. \A t \in Slot : Live(t)' => Live(t) /\ fd'[t] = fd[t] /\ fd[t] > 0
  BY <1>2, AcceptDescriptors DEF Live
<1>4. \A t \in Slot : Live(t)' => fd'[t] \in all_fds'
  BY <1>1, <1>3 DEF BitsOK
<1>5. ASSUME NEW v \in Thread, NEW u \in Slot, Doing(v)'.at = "clear", u # Doing(v)'.slot, Live(u)'
      PROVE  fd'[u] # fd'[Doing(v)'.slot]
  <2>1. Doing(v)' = Doing(v) /\ Doing(v).slot \in Slot
    BY <1>1, <1>5, TypedVariables DEF Doing, Thread, TypeInv
  <2> QED
    BY <1>2, <1>3, <1>5, <2>1 DEF BitsOK
<1>6. ASSUME NEW v \in Thread, Updating(v)'
      PROVE  all_fds' \subseteq copy'[v]
  BY <1>1, <1>6 DEF BitsOK, Updating, Doing, Thread
<1> QED
  BY <1>1, <1>4, <1>5, <1>6 DEF BitsOK, Raised

LEMMA InstallBits ==
  ASSUME TypeInv, Descriptors, BitsInv, Install
  PROVE  BitsInv'
<1>1. /\ fd' = fd /\ main.at = "install" /\ main'.at = "raise" /\ main'.fd = main.fd
      /\ all_fds' = copy["main"] \cup {main.fd} /\ pps' = pps
      /\ race' = race \cup (IF Updating("pps") THEN {"bits"} ELSE {})
  BY InstallFacts DEF slots
<1> SUFFICES ASSUME "bits" \notin race', BitsOK
             PROVE  BitsOK'
  BY <1>1 DEF BitsInv
<1>2. \A t \in Slot : Live(t)' => Live(t)
  BY <1>1, InstallIsStill, StillDescriptors DEF Live
<1>3. all_fds \subseteq all_fds'
  <2>1. Updating("main")
    BY <1>1 DEF Updating, Doing
  <2> QED
    BY <1>1, <2>1 DEF BitsOK, Thread
<1>4. \A v \in Thread : ~Updating(v)'
  BY <1>1 DEF Updating, Doing, Thread
<1>5. pps'.at # "clear" /\ \A v \in Thread : Doing(v)'.at # "clear"
  BY <1>4 DEF Updating, Doing, Thread
<1> QED
  BY <1>1, <1>2, <1>3, <1>4, <1>5 DEF BitsOK

LEMMA LeakBits ==
  ASSUME TypeInv, Descriptors, BitsInv, Leak
  PROVE  BitsInv'
<1>1. /\ fd' = fd /\ all_fds' = all_fds /\ race' = race /\ pps' = pps /\ copy'["pps"] = copy["pps"]
      /\ main'.at \in {"select", "report", "test"}
  BY LeakFacts DEF slots, shared
<1> SUFFICES ASSUME "bits" \notin race, BitsOK
             PROVE  BitsOK'
  BY <1>1 DEF BitsInv
<1>2. \A t \in Slot : Live(t)' => Live(t)
  BY <1>1, LeakDescriptors DEF Live
<1>3. \A v \in Thread : Doing(v)'.at \in {"install", "clear"} => v = "pps" /\ Doing(v)' = Doing(v)
  BY <1>1 DEF Doing, Thread
<1>4. \A v \in Thread : Updating(v)' => v = "pps" /\ Updating(v)
  BY <1>3 DEF Updating
<1>5. ASSUME NEW v \in Thread, NEW u \in Slot, Doing(v)'.at = "clear", u # Doing(v)'.slot, Live(u)'
      PROVE  fd'[u] # fd'[Doing(v)'.slot]
  BY <1>1, <1>2, <1>3, <1>5 DEF BitsOK
<1> QED
  BY <1>1, <1>2, <1>4, <1>5 DEF BitsOK, Raised

LEMMA FillBits ==
  ASSUME TypeInv, Descriptors, BitsInv, Fill
  PROVE  BitsInv'
<1>1. PICK s \in Slot : s = main.slot
  BY TypedVariables DEF TypeInv
<1>2. /\ fd' = [fd EXCEPT ![s] = main.fd] /\ all_fds' = all_fds /\ copy' = copy
      /\ main.at = "fill" /\ main'.at = "activate" /\ pps' = pps /\ race \subseteq race'
  BY <1>1, FillFacts DEF shared
<1> SUFFICES ASSUME "bits" \notin race', BitsOK
             PROVE  BitsOK'
  BY <1>2 DEF BitsInv
<1>3. \A t \in Slot : fd'[t] = IF t = s THEN main.fd ELSE fd[t]
  BY <1>2 DEF TypeInv, TypeOK
<1>4. \A t \in Slot : Live(t)' <=> fd'[t] > 0 /\ ~Detaching(t)
  BY FillDescriptors DEF Live
<1>5. main.fd > 0 => /\ main.fd \in all_fds /\ \A t \in Slot : Live(t) => fd[t] # main.fd
                     /\ pps.at = "clear" => fd[pps.slot] # main.fd
  BY <1>2 DEF BitsOK, Raised, Installs, Descriptors, Installing
<1>6. \A t \in Slot : Live(t)' => fd'[t] \in all_fds'
  BY <1>2, <1>3, <1>4, <1>5 DEF BitsOK, Live
<1>7. ASSUME NEW v \in Thread, NEW u \in Slot, Doing(v)'.at = "clear", u # Doing(v)'.slot, Live(u)'
      PROVE  fd'[u] # fd'[Doing(v)'.slot]
  <2>1. v = "pps" /\ Doing(v)' = pps /\ pps.at = "clear" /\ u # pps.slot /\ pps.slot \in Slot
    BY <1>2, <1>7, TypedVariables DEF Doing, Thread, TypeInv
  <2>2. fd[pps.slot] # fd[u] \/ u = s
    BY <1>3, <1>4, <1>7, <2>1 DEF BitsOK, Live, Doing
  <2>3. CASE u = s
    BY <1>3, <1>4, <1>5, <1>7, <2>1, <2>3
  <2>4. CASE u # s /\ pps.slot = s
    BY <1>3, <1>4, <1>5, <1>7, <2>1, <2>4 DEF Live
  <2>5. CASE u # s /\ pps.slot # s
    BY <1>3, <2>1, <2>2, <2>5
  <2> QED
    BY <2>3, <2>4, <2>5
<1>8. ASSUME NEW v \in Thread, Updating(v)'
      PROVE  all_fds' \subseteq copy'[v]
  BY <1>2, <1>8 DEF BitsOK, Updating, Doing, Thread
<1> QED
  BY <1>2, <1>6, <1>7, <1>8 DEF BitsOK, Raised

LEMMA NextBits ==
  ASSUME TypeInv, Descriptors, BitsInv, [Next]_vars
  PROVE  BitsInv'
<1>1. ASSUME NEW t \in Thread, Clear(t) PROVE BitsInv'
  BY <1>1, ClearBits
<1>2. ASSUME NEW t \in Thread, Closing(t, Doing(t).slot) PROVE BitsInv'
  BY <1>2, CloseBits
<1>3. ASSUME NEW t \in Thread, Freeing(t, Doing(t).slot) PROVE BitsInv'
  BY <1>3, FreeBits
<1> QED
  BY <1>1, <1>2, <1>3, StepKinds, PlainBits, InstallBits, AcceptBits, LeakBits, FillBits
-----------------------------------------------------------------------------
(* Whole slots, as long as the PPS thread did not get across a request or  *)
(* the filling of a slot.                                                  *)

Coming == {"greet", "report", "test", "recv", "detach"}

(* An active slot has a descriptor; one with a policy is active or being   *)
(* freed; what a thread is about to free is no longer active, and has no   *)
(* policy at the end; and the main thread works on slots that are active,  *)
(* that the PPS thread has freed or that it is just freeing.               *)
WholeOK ==
  /\ \A s \in Slot : /\ active[s] => fd[s] # UNALLOCATED_FD
                     /\ policy[s] \ {"pps"} # {} => active[s] \/ Detaching(s)
  /\ \A t \in Thread : /\ Doing(t).at \in {"unsubscribe", "free"} => ~active[Doing(t).slot]
                       /\ Doing(t).at = "free" => policy[Doing(t).slot] \subseteq {"pps"}
  /\ main.at = "activate" => fd[main.slot] # UNALLOCATED_FD
  /\ main.at \in Coming =>
       active[main.slot] \/ fd[main.slot] = UNALLOCATED_FD \/ Has("pps", main.slot)
  /\ main.at \in {"stamp", "handle"} =>
       (active[main.slot] /\ fd[main.slot] # UNALLOCATED_FD) \/ Has("pps", main.slot)

WholeInv == race \cap {"request", "fill"} = {} => WholeOK

(* The slots stay as they are, no thread leaves detach_client, and the     *)
(* main thread goes on with its slot or to an active one.                  *)
MainComes ==
  \/ main' = main
  \/ main'.at \in Coming /\ active[main'.slot]
  \/ /\ main'.slot = main.slot /\ main.at \in Coming
     /\ main'.at \in Coming \/ (main'.at = "stamp" /\ fd[main.slot] # UNALLOCATED_FD)

Quiet ==
  /\ UNCHANGED slots /\ race \subseteq race'
  /\ \A s : (Has("main", s) => Has("main", s)') /\ (Has("pps", s) => Has("pps", s)')
  /\ main'.at \in {"unsubscribe", "free"} => main' = main
  /\ pps'.at \in {"unsubscribe", "free"} => pps' = pps
  /\ main'.at \in {"activate", "stamp", "handle"} \cup Coming => MainComes

LEMMA HasPps ==
  /\ Has("pps", main.slot) <=> pps.at \in Inside /\ pps.slot = main.slot
  /\ Has("pps", main.slot)' <=> pps'.at \in Inside /\ pps'.slot = main'.slot
  /\ \A s : Has("pps", s) <=> pps.at \in Inside /\ pps.slot = s
  /\ \A s : Has("pps", s)' <=> pps'.at \in Inside /\ pps'.slot = s
BY DEF Has, Doing

LEMMA QuietWhole ==
  ASSUME TypeInv, WholeInv, Quiet
  PROVE  WholeInv'
<1> SUFFICES ASSUME WholeOK PROVE WholeOK'
  BY DEF WholeInv, Quiet
<1>1. /\ fd' = fd /\ active' = active /\ policy' = policy
      /\ \A s : Has("pps", s) => Has("pps", s)'
      /\ \A s : Detaching(s) => Detaching(s)'
  BY DetachingBy DEF Quiet, slots
<1>2. \A s \in Slot : /\ active'[s] => fd'[s] # UNALLOCATED_FD
                      /\ policy'[s] \ {"pps"} # {} => active'[s] \/ Detaching(s)'
  BY <1>1 DEF WholeOK
<1>3. \A t \in Thread : Doing(t)'.at \in {"unsubscribe", "free"} => Doing(t)' = Doing(t)
  BY DEF Quiet, Doing, Thread
<1>4. \A t \in Thread :
        /\ Doing(t)'.at \in {"unsubscribe", "free"} => ~active'[Doing(t)'.slot]
        /\ Doing(t)'.at = "free" => policy'[Doing(t)'.slot] \subseteq {"pps"}
  BY <1>1, <1>3 DEF WholeOK
<1>5. main'.at = "activate" => fd'[main'.slot] # UNALLOCATED_FD
  BY <1>1 DEF WholeOK, Quiet, MainComes, Coming
<1>6. ASSUME main'.at \in Coming
      PROVE  active'[main'.slot] \/ fd'[main'.slot] = UNALLOCATED_FD \/ Has("pps", main.slot)'
  BY <1>1, <1>6, HasPps DEF WholeOK, Quiet, MainComes
<1>7. ASSUME main'.at \in {"stamp", "handle"}
      PROVE  (active'[main'.slot] /\ fd'[main'.slot] # UNALLOCATED_FD) \/ Has("pps", main.slot)'
  BY <1>1, <1>7, HasPps DEF WholeOK, Quiet, MainComes, Coming
<1> QED
  BY <1>2, <1>4, <1>5, <1>6, <1>7 DEF WholeOK

(* The steps that are quiet: of the main thread, of the PPS thread and in  *)
(* detach_client.                                                          *)
LEMMA QuietMain ==
  ASSUME TypeInv,
         \/ Clients \/ Call
         \/ \E data \in BOOLEAN, late \in SUBSET main.rfds : Wake(data, late)
         \/ Refuse \/ Leak \/ Install \/ Raise \/ Store \/ Greet \/ Report \/ Test \/ Recv
  PROVE  Quiet
<1>1. ASSUME UNCHANGED slots, pps' = pps, race \subseteq race', main.at \notin Inside \/ main' = main,
             main'.at \notin {"unsubscribe", "free", "activate", "handle"} \/ main' = main,
             main'.at \in {"stamp"} \cup Coming => MainComes
      PROVE  Quiet
  <2>1. \A s : (Has("main", s) => Has("main", s)') /\ (Has("pps", s) => Has("pps", s)')
    BY <1>1 DEF Has, Doing
  <2>2. main'.at \in {"activate", "stamp", "handle"} \cup Coming => MainComes
    BY <1>1 DEF MainComes
  <2> QED
    BY <1>1, <2>1, <2>2 DEF Quiet
<1>2. CASE Clients
  BY <1>1, <1>2, ClientsAreStill DEF threads, MainComes
<1>3. CASE Call
  <2>1. UNCHANGED <<slots, pps>> /\ main.at = "select" /\ race \subseteq race'
        /\ (main' = main \/ main'.at = "wait")
    BY <1>3 DEF Call, Idle
  <2> QED
    BY <1>1, <2>1 DEF MainComes, Coming, Inside
<1>4. ASSUME NEW m \in MainType, main' = Go(m), main.at \notin Inside, UNCHANGED <<slots, pps>>,
             race \subseteq race'
      PROVE  Quiet
  <2>1. main'.at = "select" \/ (main'.at \in {"report", "test"} /\ active[main'.slot])
    BY <1>4, GoesOn
  <2> QED
    BY <1>1, <1>4, <2>1 DEF MainComes, Coming
<1>5. CASE \E data \in BOOLEAN, late \in SUBSET main.rfds : Wake(data, late)
  <2>1. PICK woken \in MainType :
          /\ main' = Go(woken) \/ main'.at = "accept"
          /\ main.at = "wait" /\ UNCHANGED <<slots, pps, race>>
    BY <1>5, WakeFacts
  <2>2. CASE main'.at = "accept"
    BY <1>1, <2>1, <2>2 DEF Coming, Inside
  <2> QED
    BY <1>4, <2>1, <2>2 DEF Inside
<1>6. CASE Refuse
  BY <1>4, <1>6, TypedVariables DEF Refuse, TypeInv, Inside
<1>7. CASE Leak
  BY <1>4, <1>7, LeakFacts, TypedVariables DEF TypeInv, Inside
<1>8. CASE Install \/ Raise \/ Store
  <2>1. /\ main.at \in Installs /\ main'.at \in Installs /\ UNCHANGED <<slots, pps>>
        /\ race \subseteq race'
    BY <1>8, InstallFacts, RaiseFacts DEF Installs
  <2> QED
    BY <1>1, <2>1 DEF Installs, Coming, Inside
<1>9. ASSUME main.at \in Coming \ {"detach"}, main'.slot = main.slot, UNCHANGED <<slots, pps, race>>,
             \/ main'.at \in {"recv", "detach"}
             \/ main'.at = "stamp" /\ fd[main.slot] # UNALLOCATED_FD
      PROVE  Quiet
  BY <1>1, <1>9 DEF MainComes, Coming, Inside
<1>10. CASE Greet \/ Report \/ Test
  <2>1. main.at \in {"greet", "report", "test"} /\ UNCHANGED <<slots, pps, race>>
    BY <1>10, DecisionFacts
  <2>2. CASE main' = Go(main)
    BY <1>4, <2>1, <2>2, TypedVariables DEF TypeInv, Inside
  <2>3. CASE main' # Go(main)
    <3>1. main'.slot = main.slot /\ main'.at \in {"recv", "detach"}
      BY <1>10, <2>3, DecisionFacts
    <3> QED
      BY <1>9, <2>1, <3>1 DEF Coming
  <2> QED
    BY <2>2, <2>3
<1>11. CASE Recv
  <2>1. /\ main.at = "recv" /\ main'.slot = main.slot /\ UNCHANGED <<slots, pps, race>>
        /\ main'.at = "detach" \/ (main'.at = "stamp" /\ ConnOf(fd[main.slot]) \in Conn)
    BY <1>11, RecvFacts
  <2>2. ConnOf(fd[main.slot]) \in Conn => fd[main.slot] # UNALLOCATED_FD
    BY Numbers DEF ConnOf
  <2> QED
    BY <1>9, <2>1, <2>2 DEF Coming
<1> QED
  BY <1>2, <1>3, <1>5, <1>6, <1>7, <1>8, <1>10, <1>11

LEMMA QuietThreads ==
  ASSUME TypeInv,
         \/ Edge \/ PpsSend
         \/ \E t \in Thread : Clear(t) \/ Lower(t) \/ Count(t) \/ Settle(t) \/ Detach(t)
  PROVE  Quiet
<1>1. CASE Edge \/ PpsSend
  <2>1. /\ UNCHANGED <<slots, main, race>> /\ pps.at \in {"wait", "send"}
        /\ pps'.at \in {"wait", "send", "detach"}
    BY <1>1, PpsFacts
  <2> QED
    BY <2>1 DEF Quiet, MainComes, Has, Doing, Inside
<1>2. ASSUME NEW t \in Thread, NEW at \in Inside \ {"unsubscribe", "free"}, Goes(t, at),
             UNCHANGED slots, race \subseteq race'
      PROVE  Quiet
  <2>1. /\ main'.slot = main.slot /\ pps'.slot = pps.slot
        /\ t = "main" => main'.at = at /\ pps' = pps
        /\ t = "pps" => pps'.at = at /\ main' = main
    BY <1>2, GoesFacts DEF TypeInv
  <2>2. \A s : (Has("main", s) => Has("main", s)') /\ (Has("pps", s) => Has("pps", s)')
    BY <1>2, <2>1 DEF Has, Doing, Thread
  <2>3. at \notin {"activate", "stamp", "handle"} \cup Coming
    BY <1>2 DEF Inside, Coming
  <2> QED
    BY <1>2, <2>1, <2>2, <2>3 DEF Quiet, MainComes, Thread
<1>3. ASSUME NEW t \in Thread, Returns(t), Doing(t).at = "detach", UNCHANGED slots, race' = race
      PROVE  Quiet
  <2>1. /\ t = "main" => main' = Go(main) /\ pps' = pps
        /\ t = "pps" => pps'.at \in {"wait", "send"} /\ main' = main
    BY <1>3, ReturnsFacts DEF TypeInv
  <2>2. t = "main" =>
          main'.at = "select" \/ (main'.at \in {"report", "test"} /\ active[main'.slot])
    BY <2>1, GoesOn, TypedVariables DEF TypeInv
  <2>3. \A s : (Has("main", s) => Has("main", s)') /\ (Has("pps", s) => Has("pps", s)')
    BY <1>3, <2>1 DEF Has, Doing, Thread, Inside
  <2> QED
    BY <1>3, <2>1, <2>2, <2>3 DEF Quiet, MainComes, Coming, Thread
<1>4. ASSUME NEW t \in Thread, Detach(t) PROVE Quiet
  <2>1. /\ Doing(t).at = "detach" /\ UNCHANGED <<slots, race>> /\ "clear" \in Inside
        /\ Returns(t) \/ Goes(t, "clear")
    BY <1>4, DetachFacts DEF Inside
  <2> QED
    BY <1>2, <1>3, <2>1
<1>5. ASSUME NEW t \in Thread, Clear(t) PROVE Quiet
  <2>1. Goes(t, "lower") /\ UNCHANGED slots /\ race \subseteq race' /\ "lower" \in Inside
    BY <1>5, ClearFacts DEF Inside
  <2> QED
    BY <1>2, <2>1
<1>6. ASSUME NEW t \in Thread, Lower(t) \/ Count(t) \/ Settle(t) PROVE Quiet
  <2>1. /\ UNCHANGED slots /\ race' = race
        /\ Goes(t, "count") \/ Goes(t, "deactivate") \/ Goes(t, "settle")
    BY <1>6 DEF Lower, Count, Settle
  <2>2. {"count", "deactivate", "settle"} \subseteq Inside
    BY DEF Inside
  <2> QED
    BY <1>2, <2>1, <2>2
<1> QED
  BY <1>1, <1>4, <1>5, <1>6

LEMMA AcceptWhole ==
  ASSUME TypeInv, WholeInv, Accept
  PROVE  WholeInv'
<1>1. PICK s \in Slot :
        /\ fd' = [fd EXCEPT ![s] = 0] /\ main'.at = "install" /\ main.at = "accept"
        /\ race \subseteq race' /\ UNCHANGED <<active, policy, pps>>
  BY AcceptFacts
<1> SUFFICES ASSUME WholeOK PROVE WholeOK'
  BY <1>1 DEF WholeInv
<1>2. \A t \in Slot : fd'[t] = UNALLOCATED_FD => fd[t] = UNALLOCATED_FD
  BY <1>1, Numbers DEF TypeInv, TypeOK
<1>3. \A t : Detaching(t)' <=> Detaching(t)
  BY <1>1, DetachingBy DEF Has, Doing, Inside
<1>4. \A t \in Thread : Doing(t)'.at \in {"unsubscribe", "free"} => Doing(t)' = Doing(t)
  BY <1>1 DEF Doing, Thread
<1> QED
  BY <1>1, <1>2, <1>3, <1>4 DEF WholeOK, Coming

LEMMA FillWhole ==
  ASSUME TypeInv, WholeInv, Fill
  PROVE  WholeInv'
<1>1. /\ fd' = [fd EXCEPT ![main.slot] = main.fd] /\ main'.slot = main.slot
      /\ main'.at = "activate" /\ main.at = "fill"
      /\ race \subseteq race' /\ UNCHANGED <<active, policy, pps>>
  BY FillFacts
<1> SUFFICES ASSUME WholeOK PROVE WholeOK'
  BY <1>1 DEF WholeInv
<1>2. /\ \A t \in Slot : fd'[t] = UNALLOCATED_FD => fd[t] = UNALLOCATED_FD
      /\ fd'[main.slot] # UNALLOCATED_FD
  <2>1. main.fd \in Fd /\ UNALLOCATED_FD \notin Fd /\ main.slot \in Slot
    BY TypedVariables, Numbers DEF TypeInv
  <2> QED
    BY <1>1, <2>1 DEF TypeInv, TypeOK
<1>3. \A t : Detaching(t)' <=> Detaching(t)
  BY <1>1, DetachingBy DEF Has, Doing, Inside
<1>4. \A t \in Thread : Doing(t)'.at \in {"unsubscribe", "free"} => Doing(t)' = Doing(t)
  BY <1>1 DEF Doing, Thread
<1> QED
  BY <1>1, <1>2, <1>3, <1>4 DEF WholeOK, Coming

LEMMA StampWhole ==
  ASSUME TypeInv, WholeInv, Activate \/ Stamp
  PROVE  WholeInv'
<1>1. /\ \/ main.at = "activate" /\ main'.at = "greet"
         \/ main.at = "stamp" /\ main'.at = "handle"
      /\ main'.slot = main.slot
      /\ active' = [active EXCEPT ![main.slot] = TRUE] /\ race \subseteq race'
      /\ Has("pps", main.slot) => race' \cap {"request", "fill"} # {}
      /\ UNCHANGED <<fd, policy, pps>>
  BY StampFacts
<1> SUFFICES ASSUME WholeOK, ~Has("pps", main.slot) PROVE WholeOK'
  BY <1>1 DEF WholeInv
<1>2. main.slot \in Slot /\ \A t \in Slot : active'[t] <=> active[t] \/ t = main.slot
  BY <1>1, TypedVariables DEF TypeInv, TypeOK
<1>3. fd[main.slot] # UNALLOCATED_FD
  BY <1>1 DEF WholeOK
<1>4. \A t : Detaching(t)' <=> Detaching(t)
  BY <1>1, DetachingBy DEF Has, Doing, Inside
<1>5. \A t \in Thread : Doing(t)'.at \in {"unsubscribe", "free"} =>
        Doing(t)' = Doing(t) /\ Doing(t).slot # main.slot /\ Doing(t).slot \in Slot
  <2>1. pps.at \in {"unsubscribe", "free"} => pps.slot # main.slot
    BY HasPps DEF Inside
  <2> QED
    BY <1>1, <2>1, TypedVariables DEF Doing, Thread, TypeInv
<1>6. \A t \in Slot : /\ active'[t] => fd'[t] # UNALLOCATED_FD
                      /\ policy'[t] \ {"pps"} # {} => active'[t] \/ Detaching(t)'
  BY <1>1, <1>2, <1>3, <1>4 DEF WholeOK
<1>7. \A t \in Thread :
        /\ Doing(t)'.at \in {"unsubscribe", "free"} => ~active'[Doing(t)'.slot]
        /\ Doing(t)'.at = "free" => policy'[Doing(t)'.slot] \subseteq {"pps"}
  BY <1>1, <1>2, <1>5 DEF WholeOK
<1>8. main'.at # "activate" /\ active'[main'.slot] /\ fd'[main'.slot] # UNALLOCATED_FD
  BY <1>1, <1>2, <1>3
<1> QED
  BY <1>6, <1>7, <1>8 DEF WholeOK

LEMMA HandleWhole ==
  ASSUME TypeInv, WholeInv, Handle
  PROVE  WholeInv'
<1>1. /\ main.at = "handle"
      /\ policy' = [policy EXCEPT ![main.slot] = WatchRead(@, main.req)]
      /\ race' = race \cup (IF Has("pps", main.slot) THEN {"request"} ELSE {})
      /\ UNCHANGED <<fd, active, pps>>
  BY HandleFacts
<1> SUFFICES ASSUME WholeOK, ~Has("pps", main.slot) PROVE WholeOK'
  BY <1>1 DEF WholeInv
<1>2. main.slot \in Slot /\ active[main.slot] /\ \A t \in Slot : t # main.slot => policy'[t] = policy[t]
  BY <1>1, TypedVariables DEF TypeInv, TypeOK, WholeOK
<1>3. \/ main'.at = "select"
      \/ main'.at \in Coming /\ active[main'.slot]
  <2>1. CASE main' = Go(main)
    BY <2>1, GoesOn, TypedVariables DEF TypeInv, Coming
  <2>2. CASE main'.at = "detach" /\ main'.slot = main.slot
    BY <1>2, <2>2 DEF Coming
  <2> QED
    BY <2>1, <2>2, HandleFacts
<1>4. \A t : Detaching(t)' <=> Detaching(t)
  BY <1>1, <1>3, DetachingBy DEF Has, Doing, Inside, Coming
<1>5. \A t \in Thread : Doing(t)'.at \in {"unsubscribe", "free"} =>
        Doing(t)' = Doing(t) /\ Doing(t).slot # main.slot /\ Doing(t).slot \in Slot
  <2>1. pps.at \in {"unsubscribe", "free"} => pps.slot # main.slot
    BY HasPps DEF Inside
  <2> QED
    BY <1>1, <1>3, <2>1, TypedVariables DEF Doing, Thread, TypeInv, Coming
<1>6. \A t \in Slot : /\ active'[t] => fd'[t] # UNALLOCATED_FD
                      /\ policy'[t] \ {"pps"} # {} => active'[t] \/ Detaching(t)'
  BY <1>1, <1>2, <1>4 DEF WholeOK
<1>7. \A t \in Thread :
        /\ Doing(t)'.at \in {"unsubscribe", "free"} => ~active'[Doing(t)'.slot]
        /\ Doing(t)'.at = "free" => policy'[Doing(t)'.slot] \subseteq {"pps"}
  BY <1>1, <1>2, <1>5 DEF WholeOK
<1>8. main'.at \notin {"activate", "stamp", "handle"} /\ (main'.at \in Coming => active'[main'.slot])
  BY <1>1, <1>3 DEF Coming
<1> QED
  BY <1>6, <1>7, <1>8 DEF WholeOK

(* What the stores of detach_client leave of WholeOK to the main thread.   *)
LEMMA DeactivateWhole ==
  ASSUME TypeInv, WholeInv, NEW t \in Thread, Deactivate(t) \/ Unsubscribe(t)
  PROVE  WholeInv'
<1>1. PICK s \in Slot : s = Doing(t).slot
  BY TypedVariables DEF TypeInv
<1>2. PICK at \in {"unsubscribe", "free"} :
        /\ Goes(t, at) /\ fd' = fd /\ race' = race /\ Doing(t).at \in {"deactivate", "unsubscribe"}
        /\ \/ /\ at = "unsubscribe" /\ Deactivate(t)
              /\ active' = [active EXCEPT ![s] = FALSE] /\ policy' = policy
           \/ /\ at = "free" /\ Doing(t).at = "unsubscribe"
              /\ active' = active /\ policy' = [policy EXCEPT ![s] = @ \cap {"pps"}]
  BY <1>1 DEF Deactivate, Unsubscribe, Inactive
<1> SUFFICES ASSUME WholeOK PROVE WholeOK'
  BY <1>2 DEF WholeInv
<1>3. /\ main'.slot = main.slot /\ pps'.slot = pps.slot
      /\ t = "main" => main'.at = at /\ pps' = pps
      /\ t = "pps" => pps'.at = at /\ main' = main
  BY <1>2, GoesFacts DEF TypeInv, Inside
<1>4. \A u : /\ Has("main", u)' <=> Has("main", u)
             /\ Has("pps", u)' <=> Has("pps", u)
  BY <1>2, <1>3 DEF Has, Doing, Thread, Inside
<1>5. \A u : Detaching(u)' <=> Detaching(u)
  BY <1>4, DetachingBy
<1>6. Has(t, s) /\ Detaching(s)
  BY <1>1, <1>2 DEF Has, Inside, Detaching
<1>7. /\ \A u \in Slot : active'[u] => active[u]
      /\ \A u \in Slot : u # s => active'[u] = active[u]
      /\ \A u \in Slot : policy'[u] \subseteq policy[u]
      /\ at = "unsubscribe" => ~active'[s]
      /\ at = "free" => ~active[s] /\ active' = active /\ policy'[s] \subseteq {"pps"}
  <2>1. at = "free" => ~active[s]
    BY <1>1, <1>2 DEF WholeOK
  <2> QED
    BY <1>2, <2>1 DEF TypeInv, TypeOK
<1>8. \A u \in Slot : /\ active'[u] => fd'[u] # UNALLOCATED_FD
                      /\ policy'[u] \ {"pps"} # {} => active'[u] \/ Detaching(u)'
  BY <1>2, <1>5, <1>6, <1>7 DEF WholeOK
<1>9. ASSUME NEW v \in Thread
      PROVE  /\ Doing(v)'.at \in {"unsubscribe", "free"} => ~active'[Doing(v)'.slot]
             /\ Doing(v)'.at = "free" => policy'[Doing(v)'.slot] \subseteq {"pps"}
  <2>1. CASE v = t
    <3>1. Doing(v)'.at = at /\ Doing(v)'.slot = s
      BY <1>1, <1>3, <2>1 DEF Doing, Thread
    <3> QED
      BY <1>7, <3>1
  <2>2. CASE v # t
    <3>1. Doing(v)' = Doing(v) /\ Doing(v).slot \in Slot
      BY <1>3, <2>2, TypedVariables DEF Doing, Thread, TypeInv
    <3> QED
      BY <1>7, <3>1 DEF WholeOK
  <2> QED
    BY <2>1, <2>2
<1>10. main'.at \in {"activate", "stamp", "handle"} \cup Coming =>
         t = "pps" /\ main' = main /\ main.slot \in Slot
  BY <1>3, TypedVariables DEF Thread, Coming, TypeInv
<1>11. main'.at = "activate" => fd'[main'.slot] # UNALLOCATED_FD
  BY <1>2, <1>10 DEF WholeOK
<1>12. main'.slot = s /\ t = "pps" => Has("pps", main.slot)'
  BY <1>1, <1>2, <1>3, HasPps DEF Doing, Inside
<1>13. ASSUME main'.at \in Coming
       PROVE  active'[main'.slot] \/ fd'[main'.slot] = UNALLOCATED_FD \/ Has("pps", main.slot)'
  BY <1>2, <1>4, <1>7, <1>10, <1>12, <1>13, HasPps DEF WholeOK
<1>14. ASSUME main'.at \in {"stamp", "handle"}
       PROVE  (active'[main'.slot] /\ fd'[main'.slot] # UNALLOCATED_FD) \/ Has("pps", main.slot)'
  BY <1>2, <1>4, <1>7, <1>10, <1>12, <1>14, HasPps DEF WholeOK
<1> QED
  BY <1>8, <1>9, <1>11, <1>13, <1>14 DEF WholeOK

LEMMA FreeWhole ==
  ASSUME TypeInv, Descriptors, WholeInv, NEW t \in Thread, Free(t)
  PROVE  WholeInv'
<1>1. PICK s \in Slot : s = Doing(t).slot
  BY TypedVariables DEF TypeInv
<1>2. /\ Freeing(t, s) /\ Doing(t).at = "free" /\ race \subseteq race'
      /\ active' = active /\ policy' = policy
      /\ t = "pps" /\ main.slot = s =>
           /\ main.at \in {"stamp", "handle"} => "request" \in race'
           /\ main.at = "activate" => "fill" \in race'
  BY <1>1, FreeFrees, FreeFacts DEF Doing
<1> SUFFICES ASSUME WholeOK, race' \cap {"request", "fill"} = {} PROVE WholeOK'
  BY <1>2 DEF WholeInv
<1>3. /\ t = "main" => main' = Go(main) /\ main'.at \in {"select", "report", "test"} /\ pps' = pps
      /\ t = "pps" => pps'.at \in {"wait", "send"} /\ main' = main
  BY <1>2 DEF Freeing
<1>4. \A u \in Slot : fd'[u] = IF u = s THEN UNALLOCATED_FD ELSE fd[u]
  BY <1>2 DEF Freeing, TypeInv, TypeOK
<1>5. ~active[s] /\ policy[s] \subseteq {"pps"}
  BY <1>1, <1>2 DEF WholeOK
<1>6. \A u : Detaching(u)' <=> Detaching(u) /\ u # s
  BY <1>2, FreeDescriptors
<1>7. \A u \in Slot : /\ active'[u] => fd'[u] # UNALLOCATED_FD
                      /\ policy'[u] \ {"pps"} # {} => active'[u] \/ Detaching(u)'
  BY <1>2, <1>4, <1>5, <1>6 DEF WholeOK
<1>8. \A v \in Thread : Doing(v)'.at \in {"unsubscribe", "free"} => Doing(v)' = Doing(v)
  BY <1>3 DEF Doing, Thread
<1>9. \A v \in Thread :
        /\ Doing(v)'.at \in {"unsubscribe", "free"} => ~active'[Doing(v)'.slot]
        /\ Doing(v)'.at = "free" => policy'[Doing(v)'.slot] \subseteq {"pps"}
  BY <1>2, <1>8 DEF WholeOK
<1>10. CASE t = "main"
  <2>1. main'.at \in {"select", "report", "test"} /\ (main'.at # "select" => active[main'.slot])
    BY <1>3, <1>10, GoesOn, TypedVariables DEF TypeInv
  <2>2. main'.at \notin {"activate", "stamp", "handle"} /\ (main'.at \in Coming => active'[main'.slot])
    BY <1>2, <2>1 DEF Coming
  <2> QED
    BY <1>7, <1>9, <2>2 DEF WholeOK
<1>11. CASE t = "pps"
  <2>1. main' = main /\ main.slot \in Slot /\ (main.at \in {"activate", "stamp", "handle"} => main.slot # s)
    BY <1>2, <1>3, <1>11, TypedVariables DEF TypeInv
  <2>2. Has("pps", main.slot) => main.slot = s
    BY <1>1, <1>11, HasPps DEF Doing
  <2>3. main.at = "activate" => fd'[main'.slot] # UNALLOCATED_FD
    BY <1>4, <2>1 DEF WholeOK
  <2>4. main.at \in Coming => active'[main'.slot] \/ fd'[main'.slot] = UNALLOCATED_FD
    BY <1>2, <1>4, <2>1, <2>2 DEF WholeOK
  <2>5. main.at \in {"stamp", "handle"} => active'[main'.slot] /\ fd'[main'.slot] # UNALLOCATED_FD
    BY <1>2, <1>4, <2>1, <2>2 DEF WholeOK
  <2> QED
    BY <1>7, <1>9, <2>1, <2>3, <2>4, <2>5 DEF WholeOK
<1> QED
  BY <1>10, <1>11 DEF Thread

LEMMA NextWhole ==
  ASSUME TypeInv, Descriptors, WholeInv, [Next]_vars
  PROVE  WholeInv'
<1>1. CASE UNCHANGED vars
  BY <1>1, QuietWhole DEF vars, slots, Quiet, MainComes, Has, Doing
<1> QED
  BY <1>1, QuietMain, QuietThreads, QuietWhole, AcceptWhole, FillWhole, StampWhole, HandleWhole,
     DeactivateWhole, FreeWhole DEF Next, Loop, DetachStep
-----------------------------------------------------------------------------
(* Theorems about states.                                                  *)

SessionsInv == TypeInv /\ Descriptors /\ BitsInv /\ WholeInv

LEMMA InitSessions == Init => SessionsInv
<1> SUFFICES ASSUME Init PROVE SessionsInv
  OBVIOUS
<1>1. main.at = "select" /\ pps.at = "wait"
  BY DEF Init, Idle
<1>2. \A s \in Slot : fd[s] = UNALLOCATED_FD /\ ~(fd[s] > 0) /\ ~active[s] /\ policy[s] = {}
  BY Numbers DEF Init
<1>3. Descriptors
  BY <1>1, <1>2 DEF Descriptors, Exclusive, LiveIsOpen, OneOwner, Installing, Live, Has, Doing, Inside,
                    Installs
<1>4. BitsInv
  BY <1>1, <1>2 DEF BitsInv, BitsOK, Live, Raised, Updating, Doing, Thread
<1>5. WholeInv
  BY <1>1, <1>2 DEF WholeInv, WholeOK, Coming, Doing, Thread
<1> QED
  BY <1>3, <1>4, <1>5, InitTyped DEF SessionsInv

LEMMA SpecSessions == Spec => []SessionsInv
<1>1. SessionsInv /\ [Next]_vars => SessionsInv'
  BY NextTyped, NextDescriptors, NextBits, NextWhole DEF SessionsInv
<1> QED
  BY <1>1, InitSessions, PTL DEF Spec

(* The table of gpsd.c, both threads and the descriptors are always well   *)
(* formed: the main loop works on slots of the table, and what it executes *)
(* is a request.                                                           *)
THEOREM SubscribersTypeCorrect == Spec => []TypeOK
<1>1. SessionsInv => TypeOK
  BY DEF SessionsInv, TypeInv
<1> QED
  BY <1>1, SpecSessions, PTL

(* However the main loop, detach_client in either thread, accept and       *)
(* close interleave, no two slots of subscribers[] have one client's       *)
(* descriptor, except while a thread still has to free one of them.        *)
THEOREM SessionsHaveOneOwner == Spec => []OneOwner
<1>1. SessionsInv => OneOwner
  BY DEF SessionsInv, Descriptors
<1> QED
  BY <1>1, SpecSessions, PTL

(* In whatever order the stores of the accept branch and of detach_client  *)
(* reach a slot, a slot that gpsd.c takes for active has a descriptor, and *)
(* no free one has a policy that reports go by; unless the PPS thread was  *)
(* in detach_client of the slot, or had just freed it, when the main       *)
(* thread stored client->fd, client->active or what a request asks for.    *)
THEOREM SessionsAreWhole == Spec => []SlotsAreWhole
<1>1. SessionsInv => SlotsAreWhole
  BY DEF SessionsInv, WholeInv, WholeOK, SlotsAreWhole
<1> QED
  BY <1>1, SpecSessions, PTL

(* Unless the two threads' updates of all_fds cross, it has every client   *)
(* that no thread is about to drop.                                        *)
THEOREM SessionsAreWatched == Spec => []EveryoneIsWatched
<1>1. SessionsInv => EveryoneIsWatched
  BY DEF SessionsInv, BitsInv, BitsOK, EveryoneIsWatched, Live
<1> QED
  BY <1>1, SpecSessions, PTL
-----------------------------------------------------------------------------
(* How the main thread moves, when it does.                                *)

Moves ==
  \/ main' = main
  \/ /\ main' = Go(main)
     /\ main.at \in {"accept", "install", "greet", "report", "test", "handle", "detach", "free"}
  \/ /\ main'.slot = main.slot /\ main'.phase = main.phase /\ main'.rfds = main.rfds
     /\ main'.fd \in {main.fd, 0}
     /\ \/ main.at \in {"greet", "report", "test", "recv", "handle"} /\ main'.at = "detach"
        \/ main.at = "test" /\ main'.at = "recv"
        \/ main.at = "recv" /\ main'.at = "stamp"
        \/ main.at = "stamp" /\ main'.at = "handle"
        \/ main.at = "detach" /\ main'.at = "clear"
        \/ main.at \in Inside /\ main'.at \in Inside \ {"clear"}
        \/ main.at \in Installs /\ main'.at \in Raised /\ main'.fd = main.fd
        \/ main.at = "fill" /\ main'.at = "activate" /\ Fill
        \/ main.at = "activate" /\ main'.at = "greet"
  \/ /\ main.at = "accept" /\ main'.at = "install" /\ Accept
     /\ main'.phase = main.phase /\ main'.rfds = main.rfds
  \/ main.at = "select" /\ main'.at = "wait" /\ main'.phase = "greet" /\ main'.fd = 0
  \/ /\ main.at = "wait" /\ main'.at = "accept" /\ main'.phase = "greet" /\ main'.fd = 0
     /\ main'.rfds \subseteq {f \in main.rfds : Ready(f) \/ file[f] = Closed}
  \/ \E m \in MainType : /\ main.at = "wait" /\ main' = Go(m) /\ m.phase = "greet"
                         /\ m.rfds \subseteq {f \in main.rfds : Ready(f) \/ file[f] = Closed}

(* Who moves it, and the PPS thread.                                       *)
LEMMA WhoMoves ==
  ASSUME TypeInv, [Next]_vars
  PROVE  /\ main' # main => \/ Call \/ Loop \/ DetachStep("main")
                            \/ \E data \in BOOLEAN, late \in SUBSET main.rfds : Wake(data, late)
         /\ pps' # pps => Edge \/ PpsSend \/ DetachStep("pps")
<1>1. CASE Clients \/ UNCHANGED vars
  BY <1>1, ClientsAreStill DEF threads, vars
<1>2. CASE Edge \/ PpsSend
  BY <1>2, PpsFacts
<1>3. CASE Call \/ \E data \in BOOLEAN, late \in SUBSET main.rfds : Wake(data, late)
  BY <1>3, WakeFacts DEF Call
<1>4. CASE Loop
  <2>1. pps' = pps
    BY <1>4, PlainMain, AcceptFacts, LeakFacts, InstallFacts, FillFacts DEF Loop
  <2> QED
    BY <1>4, <2>1
<1>5. ASSUME DetachStep("main")
      PROVE  pps' = pps
  <2>1. "main" \in Thread
    BY DEF Thread
  <2> QED
    BY <1>5, <2>1, PlainDetach, ClearIsStill, DetachCloses, FreeFrees DEF DetachStep, Closing, Freeing
<1>6. ASSUME DetachStep("pps")
      PROVE  main' = main
  <2>1. "pps" \in Thread /\ "pps" # "main"
    BY DEF Thread
  <2> QED
    BY <1>6, <2>1, PlainDetach, ClearIsStill, DetachCloses, FreeFrees DEF DetachStep, Closing, Freeing
<1> QED
  BY <1>1, <1>2, <1>3, <1>4, <1>5, <1>6 DEF Next, Thread

LEMMA WakeMoves ==
  ASSUME TypeInv, NEW data \in BOOLEAN, NEW late, Wake(data, late)
  PROVE  Moves
<1>1. PICK woken \in MainType :
        /\ woken.rfds = {f \in main.rfds : Ready(f)} \cup late /\ woken.phase = "greet"
        /\ late \subseteq {f \in main.rfds : file[f] = Closed}
        /\ \/ main' = Go(woken)
           \/ main'.at = "accept" /\ main'.rfds = woken.rfds /\ main'.phase = "greet" /\ main'.fd = 0
        /\ main.at = "wait"
  BY WakeFacts
<1>2. woken.rfds \subseteq {f \in main.rfds : Ready(f) \/ file[f] = Closed}
  BY <1>1
<1> QED
  BY <1>1, <1>2 DEF Moves

LEMMA DetachMoves ==
  ASSUME TypeInv, DetachStep("main")
  PROVE  Moves
<1> DEFINE t == "main"
<1>1. t \in Thread /\ Doing(t) = main
  BY DEF Thread, Doing
<1>2. ASSUME NEW at \in Inside, Goes(t, at)
      PROVE  /\ main'.at = at /\ main'.slot = main.slot /\ main'.phase = main.phase
             /\ main'.rfds = main.rfds /\ main'.fd = main.fd
  BY <1>1, <1>2, GoesFacts DEF TypeInv
<1>3. Returns(t) => main' = Go(main)
  BY DEF Returns
<1>4. CASE Detach(t)
  <2>1. main.at = "detach" /\ (Returns(t) \/ Goes(t, "clear")) /\ "clear" \in Inside
    BY <1>1, <1>4, DetachFacts DEF Inside
  <2> QED
    BY <1>2, <1>3, <2>1 DEF Moves
<1>5. CASE Clear(t)
  <2>1. main.at = "clear" /\ Goes(t, "lower") /\ {"clear", "lower"} \subseteq Inside
    BY <1>1, <1>5, ClearFacts DEF Inside
  <2> QED
    BY <1>2, <2>1 DEF Moves
<1>6. CASE Lower(t) \/ Count(t) \/ Settle(t) \/ Deactivate(t) \/ Unsubscribe(t)
  <2>1. PICK at \in Inside \ {"clear"} : Goes(t, at)
    BY <1>1, <1>6, DetachInside
  <2>2. main.at \in Inside
    BY <1>1, <1>6, DetachInside
  <2> QED
    BY <1>2, <2>1, <2>2 DEF Moves
<1>7. CASE Free(t)
  <2>1. main.at = "free" /\ Returns(t)
    BY <1>1, <1>7, FreeFacts
  <2> QED
    BY <1>3, <2>1 DEF Moves
<1> QED
  BY <1>4, <1>5, <1>6, <1>7 DEF DetachStep

LEMMA NextMoves ==
  ASSUME TypeInv, [Next]_vars
  PROVE  Moves
<1>1. CASE main' = main
  BY <1>1 DEF Moves
<1>2. CASE Call
  <2>1. main' = main \/ main' = [Idle EXCEPT !.at = "wait", !.rfds = {f \in all_fds : f <= maxfd}]
    BY <1>2 DEF Call
  <2>2. main.at = "select"
    BY <1>2 DEF Call
  <2> QED
    BY <2>1, <2>2 DEF Moves, Idle
<1>3. CASE Refuse \/ Leak
  BY <1>3, LeakFacts DEF Refuse, Moves
<1>4. CASE Accept
  BY <1>4, AcceptFacts DEF Moves
<1>5. CASE Install \/ Raise \/ Store \/ Fill
  <2>1. /\ main'.slot = main.slot /\ main'.phase = main.phase /\ main'.rfds = main.rfds
        /\ main'.fd \in {main.fd, 0}
        /\ \/ main.at \in Installs /\ main'.at \in Raised /\ main'.fd = main.fd
           \/ main.at = "fill" /\ main'.at = "activate" /\ Fill
    BY <1>5, InstallFacts, RaiseFacts, FillFacts DEF Installs, Raised
  <2> QED
    BY <2>1 DEF Moves
<1>6. CASE Activate \/ Stamp
  BY <1>6, StampFacts DEF Moves
<1>7. CASE Greet \/ Report \/ Test
  BY <1>7, DecisionFacts DEF Moves
<1>8. CASE Recv
  BY <1>8, RecvFacts DEF Moves
<1>9. CASE Handle
  BY <1>9, HandleFacts DEF Moves
<1> QED
  BY <1>1, <1>2, <1>3, <1>4, <1>5, <1>6, <1>7, <1>8, <1>9, WhoMoves, WakeMoves, DetachMoves DEF Loop

(* What a step does to the clients and their connections.                  *)
LEMMA NextClients ==
  ASSUME TypeInv, [Next]_vars
  PROVE  \/ UNCHANGED <<backlog, health, inbox, file>>
         \/ Connect \/ Refuse \/ Accept \/ Leak \/ Recv
         \/ \E c \in Conn, r \in Request : Send(c, r)
         \/ \E c \in Conn : Quit(c) \/ StopReading(c)
         \/ \E t \in Thread : Closing(t, Doing(t).slot)
<1>1. CASE Clients
  <2>1. Fickle \subseteq Conn
    BY SubscribersAssumption DEF Conn
  <2> QED
    BY <1>1, <2>1 DEF Clients
<1>2. CASE UNCHANGED vars
  BY <1>2 DEF vars, clients
<1>3. CASE Call
  BY <1>3 DEF Call, clients
<1>4. CASE \E data \in BOOLEAN, late \in SUBSET main.rfds : Wake(data, late)
  BY <1>4 DEF Wake, clients
<1>5. CASE \/ Install \/ Raise \/ Store \/ Fill \/ Activate \/ Greet \/ Report \/ Test \/ Stamp
           \/ Handle \/ Edge \/ PpsSend
  BY <1>5 DEF Install, Raise, Store, Fill, Activate, Greet, Report, Test, Stamp, Handle, Edge, PpsSend,
              clients
<1>6. ASSUME NEW t \in Thread, DetachStep(t)
      PROVE  UNCHANGED <<backlog, health, inbox, file>> \/ Closing(t, Doing(t).slot)
  <2>1. CASE Detach(t)
    BY <2>1, DetachCloses, DetachFacts DEF clients
  <2>2. CASE ~Detach(t)
    BY <1>6, <2>2 DEF DetachStep, Clear, Lower, Count, Settle, Deactivate, Unsubscribe, Free, clients
  <2> QED
    BY <2>1, <2>2
<1> QED
  BY <1>1, <1>2, <1>3, <1>4, <1>5, <1>6 DEF Next, Loop
-----------------------------------------------------------------------------
(* Whose connection is whose.                                              *)

(* A connection is open once, or waits once.                               *)
Conns ==
  /\ \A f, g \in Fd : file[f] \in Conn /\ file[f] = file[g] => f = g
  /\ \A i \in 1..Len(backlog), f \in Fd : backlog[i] # file[f]
  /\ \A i, j \in 1..Len(backlog) : backlog[i] = backlog[j] => i = j

LEMMA ConnectConns ==
  ASSUME TypeInv, Conns, Connect
  PROVE  Conns'
<1> DEFINE unused == {c \in Conn : ~Open(c) /\ c \notin Range(backlog)}
           new == Min(unused)
<1>1. new \in unused
  <2>1. unused \subseteq Nat /\ unused # {}
    BY Numbers DEF Connect
  <2> QED
    BY <2>1, MinIsLeast
<1>2. backlog' = Append(backlog, new) /\ file' = file
  BY DEF Connect
<1>3. \A f \in Fd : file[f] # new
  BY <1>1 DEF Open, Range, TypeInv, TypeOK
<1>4. \A i \in 1..Len(backlog) : backlog[i] # new
  <2>1. new \notin Range(backlog)
    BY <1>1
  <2>2. DOMAIN backlog = 1..Len(backlog)
    BY DEF TypeInv, TypeOK
  <2> HIDE DEF new
  <2> QED
    BY <2>1, <2>2 DEF Range
<1> HIDE DEF new, unused
<1>5. Len(backlog) \in Nat /\ Len(backlog') = Len(backlog) + 1
      /\ \A i \in 1..Len(backlog') : backlog'[i] = IF i <= Len(backlog) THEN backlog[i] ELSE new
  BY <1>2 DEF TypeInv, TypeOK
<1> QED
  BY <1>2, <1>3, <1>4, <1>5 DEF Conns

LEMMA TailOfBacklog ==
  ASSUME TypeInv, backlog # << >>
  PROVE  /\ Len(backlog) \in Nat /\ 1 \in 1..Len(backlog) /\ Head(backlog) = backlog[1]
         /\ Len(Tail(backlog)) = Len(backlog) - 1
         /\ \A i \in 1..Len(Tail(backlog)) :
              i + 1 \in 1..Len(backlog) /\ i + 1 # 1 /\ Tail(backlog)[i] = backlog[i + 1]
BY DEF TypeInv, TypeOK

LEMMA NextConns ==
  ASSUME TypeInv, Conns, [Next]_vars
  PROVE  Conns'
<1>1. ASSUME file' = file, backlog' = backlog
      PROVE  Conns'
  BY <1>1 DEF Conns
<1>2. ASSUME NEW f, file' = [g \in Fd |-> IF g = f THEN Closed ELSE file[g]], backlog' = backlog
      PROVE  Conns'
  <2>1. \A i \in 1..Len(backlog) : backlog[i] # Closed
    BY Numbers DEF TypeInv, TypeOK
  <2> QED
    BY <1>2, <2>1, Numbers DEF Conns
<1>3. CASE Connect
  BY <1>3, ConnectConns
<1>4. CASE Refuse
  <2>1. CASE UNCHANGED clients
    BY <1>1, <1>4, <2>1 DEF Refuse, clients
  <2>2. CASE backlog' = Tail(backlog)
    <3>1. backlog # << >> /\ file' = file
      BY <1>4 DEF Refuse, TypeInv, Sane
    <3> QED
      BY <2>2, <3>1, TailOfBacklog DEF Conns
  <2> QED
    BY <1>4, <2>1, <2>2 DEF Refuse
<1>5. CASE Accept
  <2>1. PICK f \in Fd, s \in Slot :
          /\ file[f] = Closed /\ file' = [file EXCEPT ![f] = Head(backlog)]
          /\ backlog' = Tail(backlog) /\ Head(backlog) \in Conn /\ backlog # << >>
    BY <1>5, AcceptFacts
  <2>2. \A g \in Fd : file'[g] = IF g = f THEN backlog[1] ELSE file[g]
    BY <2>1, TailOfBacklog DEF TypeInv, TypeOK
  <2> QED
    BY <2>1, <2>2, TailOfBacklog DEF Conns
<1>6. CASE Leak
  <2>1. file' = [g \in Fd |-> IF g = main.fd THEN Closed ELSE file[g]] /\ backlog' = backlog
    BY <1>6, LeakFacts DEF TypeInv, TypeOK
  <2> QED
    BY <1>2, <2>1
<1>7. ASSUME NEW t \in Thread, Closing(t, Doing(t).slot)
      PROVE  Conns'
  BY <1>2, <1>7 DEF Closing, Close
<1>8. CASE Recv
  BY <1>1, <1>8 DEF Recv
<1>9. CASE \/ \E c \in Conn : Quit(c) \/ StopReading(c)
           \/ \E c \in Conn, r \in Request : Send(c, r)
  BY <1>1, <1>9 DEF Quit, StopReading, Send
<1> QED
  BY <1>1, <1>3, <1>4, <1>5, <1>6, <1>7, <1>8, <1>9, NextClients

(* The listening socket and the device are open and nobody's slot.         *)
Devs ==
  /\ \A f \in Fd : file[f] = Other => f \in {0, Msock, Device}
  /\ file[Msock] = Other /\ file[Device] = Other
  /\ \A s \in Slot : fd[s] \notin {Msock, Device}
  /\ main.fd \notin {Msock, Device}

LEMMA DevNumbers ==
  /\ Msock \in Fd /\ Device \in Fd /\ Other # Closed /\ Other \notin Conn /\ Closed \notin Conn
  /\ \A x \in {0, UNALLOCATED_FD} : x \notin {Msock, Device}
BY Numbers DEF Msock, Device, UNALLOCATED_FD

(* Where the descriptor of a slot, and the new one, come from.             *)
LEMMA FdComesFrom ==
  ASSUME TypeInv, [Next]_vars
  PROVE  /\ \A s \in Slot : fd'[s] \in {fd[s], 0, UNALLOCATED_FD, main.fd}
         /\ main'.fd \in {main.fd, 0} \/ Accept
<1>1. main'.fd \in {main.fd, 0} \/ Accept
  BY NextMoves, GoesOn, TypedVariables DEF Moves, TypeInv
<1>2. CASE fd' = fd
  BY <1>1, <1>2
<1>3. ASSUME NEW t \in Thread, Freeing(t, Doing(t).slot)
      PROVE  \A s \in Slot : fd'[s] \in {fd[s], UNALLOCATED_FD}
  BY <1>3 DEF Freeing, TypeInv, TypeOK
<1>4. CASE Accept
  <2>1. PICK s \in Slot : fd' = [fd EXCEPT ![s] = 0]
    BY <1>4, AcceptFacts
  <2> QED
    BY <1>1, <2>1 DEF TypeInv, TypeOK
<1>5. CASE Fill
  <2>1. fd' = [fd EXCEPT ![main.slot] = main.fd]
    BY <1>5, FillFacts
  <2> QED
    BY <1>1, <2>1 DEF TypeInv, TypeOK
<1>6. CASE Leak \/ Install \/ Plain
  BY <1>2, <1>6, LeakFacts, InstallFacts DEF Plain, Still, slots
<1>7. ASSUME NEW t \in Thread, Clear(t) \/ Closing(t, Doing(t).slot)
      PROVE  fd' = fd
  BY <1>7, ClearIsStill DEF Still, Closing, slots
<1> QED
  BY <1>1, <1>2, <1>3, <1>4, <1>5, <1>6, <1>7, StepKinds

LEMMA NextDevs ==
  ASSUME TypeInv, Devs, [Next]_vars
  PROVE  Devs'
<1>1. \A s \in Slot : fd'[s] \notin {Msock, Device}
  BY FdComesFrom, DevNumbers DEF Devs
<1>2. main'.fd \notin {Msock, Device}
  <2>1. CASE Accept
    <3>1. PICK f \in Fd : file[f] = Closed /\ main'.fd = f
      BY <2>1, AcceptFacts
    <3> QED
      BY <3>1, DevNumbers DEF Devs
  <2> QED
    BY <2>1, FdComesFrom, DevNumbers DEF Devs
<1>3. ASSUME NEW f, f \notin {Msock, Device}, file' = [g \in Fd |-> IF g = f THEN Closed ELSE file[g]]
      PROVE  Devs'
  BY <1>1, <1>2, <1>3, DevNumbers DEF Devs
<1>4. ASSUME file' = file
      PROVE  Devs'
  BY <1>1, <1>2, <1>4 DEF Devs
<1>5. CASE Accept
  <2>1. PICK f \in Fd, s \in Slot :
          file[f] = Closed /\ file' = [file EXCEPT ![f] = Head(backlog)] /\ Head(backlog) \in Conn
    BY <1>5, AcceptFacts
  <2>2. \A g \in Fd : file'[g] = IF g = f THEN Head(backlog) ELSE file[g]
    BY <2>1 DEF TypeInv, TypeOK
  <2> QED
    BY <1>1, <1>2, <2>1, <2>2, DevNumbers DEF Devs
<1>6. CASE Leak
  <2>1. file' = [g \in Fd |-> IF g = main.fd THEN Closed ELSE file[g]]
    BY <1>6, LeakFacts DEF TypeInv, TypeOK
  <2> QED
    BY <1>3, <2>1 DEF Devs
<1>7. ASSUME NEW t \in Thread, Closing(t, Doing(t).slot)
      PROVE  Devs'
  <2>1. PICK s \in Slot : s = Doing(t).slot
    BY TypedVariables DEF TypeInv
  <2>2. file' = [g \in Fd |-> IF g = fd[s] THEN Closed ELSE file[g]]
    BY <1>7, <2>1 DEF Closing, Close
  <2> QED
    BY <1>3, <2>2 DEF Devs
<1>8. CASE \/ Connect \/ Refuse \/ Recv
           \/ \E c \in Conn : Quit(c) \/ StopReading(c)
           \/ \E c \in Conn, r \in Request : Send(c, r)
  BY <1>4, <1>8 DEF Connect, Refuse, Recv, Quit, StopReading, Send
<1> QED
  BY <1>4, <1>5, <1>6, <1>7, <1>8, NextClients

(* The client of descriptor f is still there, and what it has done is not  *)
(* forgotten.                                                              *)
Steady(f) ==
  /\ file'[f] = file[f]
  /\ health[file[f]] # "reads" => health'[file[f]] # "reads"

StillReady(f) == Ready(f) => Ready(f)'

LEMMA ForgetOther ==
  ASSUME TypeInv, NEW c, Forget(c), NEW f \in Fd, file[f] \in Conn, file[f] # c, file'[f] = file[f]
  PROVE  Steady(f) /\ StillReady(f)
BY DEF Forget, Steady, StillReady, Ready

LEMMA CloseOther ==
  ASSUME TypeInv, Conns, NEW s \in Slot, Close(s), NEW f \in Fd, file[f] \in Conn, f # fd[s]
  PROVE  Steady(f) /\ StillReady(f)
<1>1. file'[f] = file[f] /\ Forget(ConnOf(fd[s]))
  BY DEF Close
<1>2. file[f] # ConnOf(fd[s])
  BY Numbers DEF ConnOf, Conns
<1> QED
  BY <1>1, <1>2, ForgetOther

LEMMA LiveFile ==
  ASSUME TypeInv, Descriptors, Devs, NEW t \in Slot, Live(t)
  PROVE  /\ fd[t] \in Fd /\ fd[t] # UNALLOCATED_FD
         /\ file[fd[t]] \in Conn /\ ConnOf(fd[t]) = file[fd[t]]
<1>1. fd[t] \in Fd /\ fd[t] > 0 /\ file[fd[t]] # Closed
  BY FdNumbers DEF Live, Descriptors, LiveIsOpen
<1>2. file[fd[t]] \in Conn \cup {Closed, Other}
  BY <1>1 DEF TypeInv, TypeOK
<1>3. fd[t] \notin {0, Msock, Device}
  BY <1>1 DEF Devs
<1>4. file[fd[t]] \in Conn
  BY <1>1, <1>2, <1>3 DEF Devs
<1> QED
  BY <1>1, <1>4, Numbers DEF ConnOf

(* Nothing but the read of its request changes what a live slot's client   *)
(* is ready for.                                                           *)
LEMMA LiveIsSteady ==
  ASSUME TypeInv, Descriptors, Conns, Devs, [Next]_vars, NEW t \in Slot, Live(t), Live(t)', fd'[t] = fd[t]
  PROVE  /\ Steady(fd[t])
         /\ ~(Recv /\ fd[main.slot] = fd[t]) => StillReady(fd[t])
<1> DEFINE f == fd[t]
<1>1. f \in Fd /\ file[f] \in Conn
  BY LiveFile
<1>2. ASSUME file' = file, health' = health, inbox' = inbox
      PROVE  Steady(f) /\ StillReady(f)
  BY <1>2 DEF Steady, StillReady, Ready
<1>3. CASE Connect
  BY <1>2, <1>3 DEF Connect
<1>4. ASSUME NEW c \in Conn, NEW r \in Request, Send(c, r)
      PROVE  Steady(f) /\ StillReady(f)
  <2>1. file' = file /\ health' = health /\ inbox' = [inbox EXCEPT ![c] = r] /\ r # NoRequest
    BY <1>4, Requests DEF Send
  <2> QED
    BY <1>1, <2>1 DEF Steady, StillReady, Ready, TypeInv, TypeOK
<1>5. ASSUME NEW c \in Conn, Quit(c) \/ StopReading(c)
      PROVE  Steady(f) /\ StillReady(f)
  <2>1. /\ file' = file /\ inbox' = inbox /\ health[c] # "quit"
        /\ health' = [health EXCEPT ![c] = "quit"] \/ health' = [health EXCEPT ![c] = "stuck"]
    BY <1>5 DEF Quit, StopReading
  <2> QED
    BY <1>1, <2>1 DEF Steady, StillReady, Ready, TypeInv, TypeOK
<1>6. CASE Refuse
  <2>1. CASE UNCHANGED clients
    BY <1>2, <1>6, <2>1 DEF Refuse, clients
  <2>2. CASE Forget(Head(backlog))
    <3>1. backlog # << >> /\ file' = file
      BY <1>6 DEF Refuse, TypeInv, Sane
    <3>2. file[f] # Head(backlog)
      BY <1>1, <3>1, TailOfBacklog DEF Conns
    <3> QED
      BY <1>1, <2>2, <3>1, <3>2, ForgetOther
  <2> QED
    BY <1>6, <2>1, <2>2 DEF Refuse
<1>7. CASE Accept
  <2>1. PICK g \in Fd, s \in Slot :
          /\ file[g] = Closed /\ file' = [file EXCEPT ![g] = Head(backlog)]
          /\ health' = health /\ inbox' = inbox
    BY <1>7, AcceptFacts
  <2>2. file'[f] = file[f]
    BY <1>1, <2>1, Numbers DEF TypeInv, TypeOK
  <2> QED
    BY <2>1, <2>2 DEF Steady, StillReady, Ready
<1>8. CASE Leak
  <2>1. main.at = "install" /\ file' = [file EXCEPT ![main.fd] = Closed] /\ Forget(file[main.fd])
    BY <1>8, LeakFacts
  <2>2. f # main.fd /\ main.fd \in Fd
    BY <2>1, FdNumbers DEF Live, Descriptors, Installing, Installs
  <2>3. file[f] # file[main.fd] /\ file'[f] = file[f]
    BY <1>1, <2>1, <2>2 DEF Conns, TypeInv, TypeOK
  <2> QED
    BY <1>1, <2>1, <2>3, ForgetOther
<1>9. ASSUME NEW v \in Thread, Closing(v, Doing(v).slot)
      PROVE  Steady(f) /\ StillReady(f)
  <2>1. PICK s \in Slot : s = Doing(v).slot
    BY TypedVariables DEF TypeInv
  <2>2. Closing(v, s) /\ Close(s)
    BY <1>9, <2>1 DEF Closing
  <2>3. t # s
    BY <2>2, CloseDescriptors DEF Live
  <2>4. f # fd[s]
    BY <2>2, <2>3 DEF Live, Closing, Descriptors, OneOwner
  <2> QED
    BY <1>1, <2>2, <2>4, CloseOther
<1>10. CASE Recv
  <2>1. /\ file' = file /\ health' = health
        /\ \/ inbox' = inbox
           \/ ConnOf(fd[main.slot]) \in Conn /\ inbox' = [inbox EXCEPT ![ConnOf(fd[main.slot])] = NoRequest]
    BY <1>10, RecvFacts
  <2>2. Steady(f)
    BY <2>1 DEF Steady
  <2>3. ASSUME fd[main.slot] # f
        PROVE  StillReady(f)
    <3>1. ConnOf(fd[main.slot]) # file[f]
      BY <1>1, <2>3, Numbers DEF ConnOf, Conns
    <3>2. inbox'[file[f]] = inbox[file[f]]
      BY <1>1, <2>1, <3>1 DEF TypeInv, TypeOK
    <3> QED
      BY <2>1, <3>2 DEF StillReady, Ready
  <2> QED
    BY <1>10, <2>2, <2>3
<1> QED
  BY <1>2, <1>3, <1>4, <1>5, <1>6, <1>7, <1>8, <1>9, <1>10, NextClients
-----------------------------------------------------------------------------
(* What holds as long as no slot or descriptor changed hands under a       *)
(* thread that was about to use it.                                        *)

Calm == race \cap {"request", "reuse"} = {}

LEMMA RaceGrows ==
  ASSUME TypeInv, [Next]_vars
  PROVE  /\ race \subseteq race' /\ (Calm' => Calm)
         /\ "fill" \in race' => \/ "fill" \in race
                                \/ /\ main.at \in {"fill", "activate"}
                                   /\ pps.at \in Inside /\ pps.slot = main.slot
<1>1. CASE Clients \/ UNCHANGED vars
  BY <1>1, ClientsAreStill DEF threads, vars, Calm
<1>2. CASE Call
  <2>1. race' = race \/ race' = race \cup {"maxfd"}
    BY <1>2 DEF Call
  <2> QED
    BY <2>1 DEF Calm
<1>3. CASE \E data \in BOOLEAN, late \in SUBSET main.rfds : Wake(data, late)
  BY <1>3 DEF Wake, Calm
<1>4. CASE Accept \/ Install \/ Raise \/ Store
  <2>1. race \subseteq race' /\ race' \subseteq race \cup {"reuse", "bits", "maxfd"}
    BY <1>4, AcceptFacts, InstallFacts, RaiseFacts
  <2> QED
    BY <2>1 DEF Calm
<1>5. CASE Fill \/ Activate
  <2>1. race' = race \cup (IF Has("pps", main.slot) THEN {"fill"} ELSE {})
        /\ main.at \in {"fill", "activate"}
    BY <1>5 DEF Fill, Activate
  <2> QED
    BY <2>1, HasPps DEF Calm
<1>6. CASE Stamp \/ Handle
  <2>1. race' = race \cup (IF Has("pps", main.slot) THEN {"request"} ELSE {})
    BY <1>6 DEF Stamp, Handle
  <2> QED
    BY <2>1 DEF Calm
<1>7. CASE Refuse \/ Leak \/ Greet \/ Report \/ Test \/ Recv \/ Edge \/ PpsSend
  BY <1>7 DEF Refuse, Leak, Greet, Report, Test, Recv, Edge, PpsSend, Calm
<1>8. ASSUME NEW t \in Thread, Clear(t) \/ Free(t)
      PROVE  race \subseteq race' /\ (Calm' => Calm)
  BY <1>8, ClearFacts, FreeFacts DEF Calm
<1>9. ASSUME NEW t \in Thread, Clear(t) \/ Free(t), "fill" \in race', "fill" \notin race
      PROVE  main.at \in {"fill", "activate"} /\ pps.at \in Inside /\ pps.slot = main.slot
  <2>1. CASE Clear(t)
    BY <1>9, <2>1, ClearFacts
  <2>2. CASE Free(t)
    BY <1>9, <2>2, FreeFacts DEF Doing, Inside
  <2> QED
    BY <1>9, <2>1, <2>2
<1>10. ASSUME NEW t \in Thread, Detach(t) \/ Lower(t) \/ Count(t) \/ Settle(t) \/ Deactivate(t) \/ Unsubscribe(t)
       PROVE  race' = race
  BY <1>10, DetachInside, DetachFacts
<1> QED
  BY <1>1, <1>2, <1>3, <1>4, <1>5, <1>6, <1>7, <1>8, <1>9, <1>10 DEF Next, Loop, DetachStep, Calm

Filling == Installs \cup {"activate"}

(* Descriptor 0 stays what it was, so that an active slot has a client's;  *)
(* the slot that accept is filling is not active and nobody else's; and    *)
(* the PPS thread works on an active slot or on one that the main thread   *)
(* has freed or is just freeing.                                           *)
PlacesOK ==
  /\ "fill" \notin race
  /\ file[0] = Other
  /\ \A s \in Slot : active[s] => fd[s] > 0
  /\ main.at \in Installs => main.fd > 0 /\ main.fd \notin main.rfds /\ fd[main.slot] = 0
  /\ main.at = "activate" => fd[main.slot] > 0
  /\ main.at \in Filling => ~active[main.slot] /\ (pps.at # "wait" => pps.slot # main.slot)
  /\ pps.at \in {"send", "detach"} =>
       active[pps.slot] \/ fd[pps.slot] = UNALLOCATED_FD \/ Has("main", pps.slot)
  /\ pps.at \in Inside => fd[pps.slot] > 0

PlacesInv == Calm => PlacesOK

LEMMA Zero == 0 \in Fd /\ 0 \in Slot /\ ~(0 > 0) /\ UNALLOCATED_FD # 0 /\ ~(UNALLOCATED_FD > 0)
BY Numbers

LEMMA HasMain ==
  /\ Has("main", pps.slot) <=> main.at \in Inside /\ main.slot = pps.slot
  /\ Has("main", pps.slot)' <=> main'.at \in Inside /\ main'.slot = pps'.slot
  /\ \A s : Has("main", s) <=> main.at \in Inside /\ main.slot = s
  /\ \A s : Has("main", s)' <=> main'.at \in Inside /\ main'.slot = s
BY DEF Has, Doing

(* The step does not set "fill", and leaves descriptor 0 alone.            *)
LEMMA NoFill ==
  ASSUME TypeInv, PlacesOK, [Next]_vars
  PROVE  "fill" \notin race'
BY RaceGrows DEF PlacesOK, Filling, Installs, Inside

LEMMA ClosesActive ==
  ASSUME TypeInv, WholeOK, PlacesOK, NEW t \in Thread, Closing(t, Doing(t).slot)
  PROVE  active[Doing(t).slot] /\ fd[Doing(t).slot] > 0
<1>1. PICK s \in Slot : s = Doing(t).slot
  BY TypedVariables DEF TypeInv
<1>2. Doing(t).at = "detach" /\ fd[s] # UNALLOCATED_FD /\ ~Has("main", s) /\ ~Has("pps", s)
  BY <1>1, DetachingBy DEF Closing
<1>3. CASE t = "main"
  <2>1. main.at = "detach" /\ main.slot = s
    BY <1>1, <1>2, <1>3 DEF Doing
  <2>2. active[s]
    BY <1>2, <2>1 DEF WholeOK, Coming
  <2> QED
    BY <1>1, <2>2 DEF PlacesOK
<1>4. CASE t = "pps"
  <2>1. pps.at = "detach" /\ pps.slot = s
    BY <1>1, <1>2, <1>4 DEF Doing
  <2>2. active[s]
    BY <1>2, <2>1 DEF PlacesOK
  <2> QED
    BY <1>1, <2>2 DEF PlacesOK
<1> QED
  BY <1>3, <1>4 DEF Thread

LEMMA FileOfZero ==
  ASSUME TypeInv, WholeOK, PlacesOK, [Next]_vars
  PROVE  file'[0] = file[0]
<1>1. CASE Accept
  <2>1. PICK f \in Fd : file[f] = Closed /\ file' = [file EXCEPT ![f] = Head(backlog)]
    BY <1>1, AcceptFacts
  <2> QED
    BY <2>1, Numbers DEF PlacesOK, TypeInv, TypeOK
<1>2. CASE Leak
  <2>1. file' = [file EXCEPT ![main.fd] = Closed] /\ main.at = "install"
    BY <1>2, LeakFacts
  <2> QED
    BY <2>1, Zero DEF PlacesOK, Installs, TypeInv, TypeOK
<1>3. ASSUME NEW t \in Thread, Closing(t, Doing(t).slot)
      PROVE  file'[0] = file[0]
  <2>1. file' = [f \in Fd |-> IF f = fd[Doing(t).slot] THEN Closed ELSE file[f]]
    BY <1>3 DEF Closing, Close
  <2> QED
    BY <1>3, <2>1, ClosesActive, Zero
<1>4. CASE \/ Connect \/ Refuse \/ Recv
           \/ \E c \in Conn : Quit(c) \/ StopReading(c)
           \/ \E c \in Conn, r \in Request : Send(c, r)
  BY <1>4 DEF Connect, Refuse, Recv, Quit, StopReading, Send
<1> QED
  BY <1>1, <1>2, <1>3, <1>4, NextClients

(* The steps that neither take nor fill a slot, of either thread.          *)
MainStays ==
  main'.at \in Filling =>
    /\ main.at \in Filling /\ main'.slot = main.slot
    /\ main'.at \in Installs => main.at \in Installs /\ main'.fd = main.fd /\ main'.rfds = main.rfds
    /\ main'.at = "activate" => main.at = "activate"

PpsStays ==
  \/ pps' = pps
  \/ pps'.at = "wait"
  \/ pps'.at = "send" /\ active[pps'.slot]
  \/ /\ pps'.slot = pps.slot
     /\ \/ pps.at = "send" /\ pps'.at = "detach"
        \/ pps.at = "detach" /\ pps'.at \in Inside /\ fd[pps.slot] > 0
        \/ pps.at \in Inside /\ pps'.at \in Inside

LEMMA MainStaysOrFills ==
  ASSUME TypeInv, [Next]_vars, ~Accept, ~Fill
  PROVE  MainStays
<1>1. CASE main' = main
  BY <1>1 DEF MainStays
<1>2. \A m \in MainType : Go(m).at \notin Filling
  BY GoesOn DEF Filling, Installs
<1>3. main \in MainType
  BY TypedVariables DEF TypeInv
<1>4. CASE main'.at \notin Filling
  BY <1>4 DEF MainStays
<1>5. CASE main' # main /\ main'.at \in Filling
  <2>1. /\ main'.slot = main.slot /\ main'.rfds = main.rfds
        /\ main.at \in Installs /\ main'.at \in Raised /\ main'.fd = main.fd
    BY <1>2, <1>3, <1>5, NextMoves DEF Moves, Filling, Installs, Inside
  <2> QED
    BY <2>1 DEF MainStays, Filling, Installs, Raised
<1> QED
  BY <1>1, <1>4, <1>5

LEMMA PpsStaysOrNot ==
  ASSUME TypeInv, WholeOK, PlacesOK, [Next]_vars
  PROVE  PpsStays
<1>1. CASE pps' = pps
  BY <1>1 DEF PpsStays
<1>2. CASE Edge \/ PpsSend
  BY <1>2, PpsFacts, ScansOn DEF PpsStays, NextSlot
<1>3. CASE DetachStep("pps")
  <2> DEFINE t == "pps"
  <2>1. t \in Thread /\ Doing(t) = pps
    BY DEF Thread, Doing
  <2>2. \A at \in Inside : Goes(t, at) => pps'.at = at /\ pps'.slot = pps.slot
    BY <2>1, GoesFacts DEF TypeInv
  <2>3. Returns(t) => pps'.at = "wait" \/ (pps'.at = "send" /\ active[pps'.slot])
    BY ScansOn DEF Returns, NextSlot
  <2>4. CASE Detach(t)
    <3>1. CASE fd[pps.slot] = UNALLOCATED_FD
      <4>1. Returns(t)
        BY <2>1, <2>4, <3>1, DetachFacts
      <4> QED
        BY <2>3, <4>1 DEF PpsStays
    <3>2. CASE fd[pps.slot] # UNALLOCATED_FD
      <4>1. Closing(t, pps.slot)
        BY <2>1, <2>4, <3>2, DetachCloses
      <4>2. pps.at = "detach" /\ pps'.at = "clear" /\ pps'.slot = pps.slot
        BY <2>1, <4>1 DEF Closing
      <4>3. fd[pps.slot] > 0
        BY <2>1, <4>1, ClosesActive
      <4> QED
        BY <4>2, <4>3 DEF PpsStays, Inside
    <3> QED
      BY <3>1, <3>2
  <2>5. CASE Clear(t) \/ Lower(t) \/ Count(t) \/ Settle(t) \/ Deactivate(t) \/ Unsubscribe(t)
    <3>1. PICK at \in Inside : Goes(t, at)
      BY <2>1, <2>5, ClearFacts, DetachInside DEF Inside
    <3>2. pps.at \in Inside
      BY <2>1, <2>5, ClearFacts, DetachInside DEF Inside
    <3> QED
      BY <2>2, <3>1, <3>2 DEF PpsStays
  <2>6. CASE Free(t)
    <3>1. Returns(t)
      BY <2>1, <2>6, FreeFacts
    <3> QED
      BY <2>3, <3>1 DEF PpsStays
  <2> QED
    BY <1>3, <2>4, <2>5, <2>6 DEF DetachStep
<1> QED
  BY <1>1, <1>2, <1>3, WhoMoves

LEMMA SamePlaces ==
  ASSUME PlacesOK, "fill" \notin race', file'[0] = file[0], fd' = fd,
         main'.slot \in Slot, pps'.slot \in Slot,
         \A s \in Slot : active'[s] => active[s],
         \A s \in Slot : active[s] => active'[s] \/ (Has("main", s)' /\ pps' = pps) \/ pps'.at \in Inside,
         \A s : Has("main", s) => Has("main", s)',
         MainStays, PpsStays
  PROVE  PlacesOK'
<1>1. \A s \in Slot : active'[s] => fd'[s] > 0
  BY DEF PlacesOK
<1>2. /\ main'.at \in Installs => main'.fd > 0 /\ main'.fd \notin main'.rfds /\ fd'[main'.slot] = 0
      /\ main'.at = "activate" => fd'[main'.slot] > 0
  BY DEF PlacesOK, MainStays, Filling
<1>3. ASSUME main'.at \in Filling
      PROVE  ~active'[main'.slot] /\ (pps'.at # "wait" => pps'.slot # main'.slot)
  <2>1. main'.slot = main.slot /\ ~active[main.slot] /\ (pps.at # "wait" => pps.slot # main.slot)
    BY <1>3 DEF PlacesOK, MainStays
  <2> QED
    BY <2>1 DEF PpsStays, Inside
<1>4. ASSUME pps'.at \in {"send", "detach"}
      PROVE  active'[pps'.slot] \/ fd'[pps'.slot] = UNALLOCATED_FD \/ Has("main", pps.slot)'
  <2>1. PICK s \in Slot : s = pps'.slot
    OBVIOUS
  <2>2. active[s] \/ fd[s] = UNALLOCATED_FD \/ Has("main", s)
    BY <1>4, <2>1, HasMain DEF PlacesOK, PpsStays, Inside
  <2>3. active[s] => active'[s] \/ Has("main", s)'
    BY <1>4 DEF Inside
  <2>4. active'[s] \/ fd[s] = UNALLOCATED_FD \/ Has("main", s)'
    BY <2>2, <2>3
  <2> QED
    BY <2>1, <2>4, HasMain
<1>5. pps'.at \in Inside => fd'[pps'.slot] > 0
  BY DEF PlacesOK, PpsStays, Inside
<1> QED
  BY <1>1, <1>2, <1>3, <1>4, <1>5 DEF PlacesOK

LEMMA AcceptPlaces ==
  ASSUME TypeInv, WholeOK, PlacesOK, Accept, "reuse" \notin race'
  PROVE  PlacesOK'
<1>1. PICK f \in Fd, s \in Slot :
        /\ file[f] = Closed /\ fd[s] = UNALLOCATED_FD
        /\ fd' = [fd EXCEPT ![s] = 0]
        /\ main'.at = "install" /\ main'.slot = s /\ main'.fd = f /\ main'.rfds = main.rfds
        /\ main.at = "accept"
        /\ race' = race \cup
             (IF f \in main.rfds \/ (pps.slot = s /\ pps.at \in {"send", "detach"})
              THEN {"reuse"} ELSE {})
        /\ UNCHANGED <<active, pps>>
  BY AcceptFacts
<1>2. f \notin main.rfds /\ ~(pps.slot = s /\ pps.at \in {"send", "detach"}) /\ race' = race
  BY <1>1
<1>3. f > 0 /\ file'[0] = Other
  <2>1. f # 0 /\ f \in Nat
    BY <1>1, Numbers DEF PlacesOK
  <2>2. file'[0] = file[0]
    BY FileOfZero DEF Next, Loop
  <2> QED
    BY <2>1, <2>2 DEF PlacesOK
<1>4. \A t \in Slot : fd'[t] = IF t = s THEN 0 ELSE fd[t]
  BY <1>1 DEF TypeInv, TypeOK
<1>5. ~active[s]
  BY <1>1 DEF WholeOK
<1>6. pps.slot \in Slot /\ (pps.at # "wait" => pps.slot # s)
  <2>1. pps.at \in {"wait", "send", "detach"} \cup Inside /\ pps.slot \in Slot
    BY TypedVariables DEF TypeInv, PpsType
  <2>2. pps.at \in Inside => fd[pps.slot] > 0
    BY DEF PlacesOK
  <2>3. pps.at \in Inside => pps.slot # s
    BY <1>1, <2>2, Zero
  <2> QED
    BY <1>2, <2>1, <2>3
<1>7. \A t : Has("main", t) => FALSE
  BY <1>1, HasMain DEF Inside
<1>8. \A t \in Slot : active'[t] => fd'[t] > 0
  BY <1>1, <1>4, <1>5 DEF PlacesOK
<1>9. pps'.at \in {"send", "detach"} => active'[pps'.slot] \/ fd'[pps'.slot] = UNALLOCATED_FD
  <2>1. pps.at \in {"send", "detach"} => active[pps.slot] \/ fd[pps.slot] = UNALLOCATED_FD
    BY <1>7 DEF PlacesOK
  <2> QED
    BY <1>1, <1>4, <1>6, <2>1
<1>10. pps'.at \in Inside => fd'[pps'.slot] > 0
  BY <1>1, <1>4, <1>6 DEF PlacesOK, Inside
<1>11. main'.at \in Installs => main'.fd > 0 /\ main'.fd \notin main'.rfds /\ fd'[main'.slot] = 0
  BY <1>1, <1>2, <1>3, <1>4
<1>12. main'.at # "activate" /\ ~active'[main'.slot] /\ (pps'.at # "wait" => pps'.slot # main'.slot)
  BY <1>1, <1>5, <1>6
<1> QED
  BY <1>2, <1>3, <1>8, <1>9, <1>10, <1>11, <1>12 DEF PlacesOK

LEMMA FillPlaces ==
  ASSUME TypeInv, PlacesOK, Fill \/ Activate, "fill" \notin race'
  PROVE  PlacesOK'
<1>1. main.slot \in Slot /\ main.at \in {"fill", "activate"} /\ main'.slot = main.slot
      /\ main'.at \in {"activate", "greet"} /\ UNCHANGED <<file, pps>>
  BY FillFacts, StampFacts, TypedVariables DEF TypeInv, Activate
<1>2. ~active[main.slot] /\ (pps.at # "wait" => pps.slot # main.slot)
  BY <1>1 DEF PlacesOK, Filling, Installs
<1>3. /\ \A t \in Slot : t # main.slot => fd'[t] = fd[t] /\ active'[t] = active[t]
      /\ fd'[main.slot] > 0
      /\ main'.at = "activate" => ~active'[main.slot]
  <2>1. CASE Fill
    <3>1. fd' = [fd EXCEPT ![main.slot] = main.fd] /\ active' = active /\ main.at = "fill"
      BY <2>1, FillFacts
    <3>2. main.fd > 0
      BY <3>1 DEF PlacesOK, Installs
    <3> QED
      BY <1>1, <1>2, <3>1, <3>2 DEF TypeInv, TypeOK
  <2>2. CASE Activate
    <3>1. fd' = fd /\ active' = [active EXCEPT ![main.slot] = TRUE] /\ main.at = "activate"
          /\ main'.at = "greet"
      BY <2>2, StampFacts DEF Activate
    <3>2. fd[main.slot] > 0
      BY <3>1 DEF PlacesOK
    <3> QED
      BY <1>1, <3>1, <3>2 DEF TypeInv, TypeOK
  <2> QED
    BY <2>1, <2>2
<1>4. \A t \in Slot : active'[t] => fd'[t] > 0
  BY <1>1, <1>3 DEF PlacesOK
<1>5. pps.slot \in Slot /\ ~Has("main", pps.slot)
  BY <1>1, TypedVariables, HasMain DEF TypeInv, Inside
<1>6. pps'.at \in {"send", "detach"} => active'[pps'.slot] \/ fd'[pps'.slot] = UNALLOCATED_FD
  BY <1>1, <1>2, <1>3, <1>5 DEF PlacesOK
<1>7. pps'.at \in Inside => fd'[pps'.slot] > 0
  BY <1>1, <1>2, <1>3, <1>5 DEF PlacesOK, Inside
<1> QED
  BY <1>1, <1>2, <1>3, <1>4, <1>6, <1>7 DEF PlacesOK, Filling, Installs

LEMMA FreePlaces ==
  ASSUME TypeInv, Descriptors, WholeOK, PlacesOK, NEW t \in Thread, Free(t), "fill" \notin race'
  PROVE  PlacesOK'
<1>1. PICK s \in Slot : s = Doing(t).slot
  BY TypedVariables DEF TypeInv
<1>2. /\ Freeing(t, s) /\ Doing(t).at = "free" /\ active' = active /\ file' = file
  BY <1>1, FreeFrees, FreeFacts DEF Doing
<1>3. /\ t = "main" => main' = Go(main) /\ main'.at \in {"select", "report", "test"} /\ pps' = pps
      /\ t = "pps" => pps' = NextSlot /\ main' = main
  BY <1>2 DEF Freeing
<1>4. \A u \in Slot : fd'[u] = IF u = s THEN UNALLOCATED_FD ELSE fd[u]
  BY <1>2 DEF Freeing, TypeInv, TypeOK
<1>5. ~active[s] /\ pps.slot \in Slot /\ main.slot \in Slot
  BY <1>1, <1>2, TypedVariables DEF WholeOK, TypeInv
<1>6. \A u \in Slot : active'[u] => fd'[u] > 0
  BY <1>2, <1>4, <1>5 DEF PlacesOK
<1>7. CASE t = "main"
  <2>1. main.at = "free" /\ main.slot = s
    BY <1>1, <1>2, <1>7 DEF Doing
  <2>2. \A u : Has("main", u) <=> u = s
    BY <2>1, HasMain DEF Inside
  <2>3. main'.at \notin Filling /\ pps' = pps
    BY <1>3, <1>7 DEF Filling, Installs
  <2>4. pps.at \in {"send", "detach"} => active'[pps.slot] \/ fd'[pps.slot] = UNALLOCATED_FD
    BY <1>2, <1>4, <1>5, <2>2 DEF PlacesOK
  <2>5. pps.at \in Inside => pps.slot # s
    BY <2>2, HasPps DEF Descriptors, Exclusive
  <2>6. pps.at \in Inside => fd'[pps.slot] > 0
    BY <1>4, <1>5, <2>5 DEF PlacesOK
  <2> QED
    BY <1>2, <1>6, <2>3, <2>4, <2>6 DEF PlacesOK, Filling
<1>8. CASE t = "pps"
  <2>1. pps.at = "free" /\ pps.slot = s /\ main' = main
    BY <1>1, <1>2, <1>3, <1>8 DEF Doing
  <2>2. pps'.at = "wait" \/ (pps'.at = "send" /\ active'[pps'.slot])
    BY <1>2, <1>3, <1>8, ScansOn DEF NextSlot
  <2>3. main.at \in Filling => main.slot # s /\ ~active[main.slot]
    BY <2>1 DEF PlacesOK
  <2>4. main'.at \in Filling => ~active'[main'.slot] /\ (pps'.at # "wait" => pps'.slot # main'.slot)
    BY <1>2, <2>1, <2>2, <2>3
  <2>5. /\ main'.at \in Installs => main'.fd > 0 /\ main'.fd \notin main'.rfds /\ fd'[main'.slot] = 0
        /\ main'.at = "activate" => fd'[main'.slot] > 0
    BY <1>4, <1>5, <2>1, <2>3 DEF PlacesOK, Filling
  <2> QED
    BY <1>2, <1>6, <2>2, <2>4, <2>5 DEF PlacesOK, Inside
<1> QED
  BY <1>7, <1>8 DEF Thread

LEMMA DeactivatePlaces ==
  ASSUME TypeInv, WholeOK, PlacesOK, [Next]_vars, NEW t \in Thread, Deactivate(t) \/ Unsubscribe(t)
  PROVE  PlacesOK'
<1>1. PICK s \in Slot : s = Doing(t).slot
  BY TypedVariables DEF TypeInv
<1>2. PICK at \in {"unsubscribe", "free"} :
        /\ Goes(t, at) /\ fd' = fd /\ Doing(t).at \in {"deactivate", "unsubscribe"}
        /\ active' = [active EXCEPT ![s] = FALSE] \/ active' = active
  BY <1>1 DEF Deactivate, Unsubscribe, Inactive
<1>3. /\ main'.slot = main.slot /\ pps'.slot = pps.slot
      /\ t = "main" => main'.at = at /\ pps' = pps
      /\ t = "pps" => pps'.at = at /\ main' = main
  BY <1>2, GoesFacts DEF TypeInv, Inside
<1>4. \A u : (Has("main", u)' <=> Has("main", u)) /\ (Has("pps", u)' <=> Has("pps", u))
  BY <1>2, <1>3 DEF Has, Doing, Thread, Inside
<1>5. /\ \A u \in Slot : active'[u] => active[u]
      /\ \A u \in Slot : u # s => active'[u] = active[u]
  BY <1>2 DEF TypeInv, TypeOK
<1>6. Has(t, s)
  BY <1>1, <1>2 DEF Has, Inside
<1>7. \A u \in Slot : active[u] => active'[u] \/ (Has("main", u)' /\ pps' = pps) \/ pps'.at \in Inside
  <2>1. CASE t = "main"
    BY <1>3, <1>4, <1>5, <1>6, <2>1
  <2>2. CASE t = "pps"
    BY <1>2, <1>3, <2>2 DEF Inside
  <2> QED
    BY <2>1, <2>2 DEF Thread
<1>8. MainStays
  BY <1>3 DEF MainStays, Thread, Filling, Installs
<1>9. PpsStays
  BY PpsStaysOrNot
<1>10. "fill" \notin race' /\ file'[0] = file[0]
  BY NoFill, FileOfZero
<1>11. main'.slot \in Slot /\ pps'.slot \in Slot
  BY <1>3, TypedVariables DEF TypeInv
<1> QED
  BY <1>2, <1>4, <1>5, <1>7, <1>8, <1>9, <1>10, <1>11, SamePlaces

LEMMA QuietPlaces ==
  ASSUME TypeInv, WholeOK, PlacesOK, [Next]_vars, ~Accept, ~Fill, fd' = fd, active' = active,
         \A s : Has("main", s) => Has("main", s)'
  PROVE  PlacesOK'
<1>1. "fill" \notin race' /\ file'[0] = file[0] /\ MainStays /\ PpsStays
  BY NoFill, FileOfZero, MainStaysOrFills, PpsStaysOrNot
<1>2. main'.slot \in Slot /\ pps'.slot \in Slot
  <2>1. TypeInv'
    BY NextTyped
  <2> QED
    BY <2>1 DEF TypeInv, TypeOK
<1> QED
  BY <1>1, <1>2, SamePlaces

LEMMA NextPlaces ==
  ASSUME TypeInv, Descriptors, WholeInv, PlacesInv, [Next]_vars
  PROVE  PlacesInv'
<1> SUFFICES ASSUME Calm'
             PROVE  PlacesOK'
  BY DEF PlacesInv
<1>1. PlacesOK /\ WholeOK /\ "reuse" \notin race' /\ "request" \notin race' /\ "fill" \notin race'
  <2>1. Calm /\ PlacesOK
    BY RaceGrows DEF PlacesInv
  <2>2. WholeOK
    BY <2>1 DEF WholeInv, PlacesOK, Calm
  <2> QED
    BY <2>1, <2>2, NoFill DEF Calm
<1>2. ASSUME Quiet, ~Accept, ~Fill
      PROVE  PlacesOK'
  BY <1>1, <1>2, QuietPlaces DEF Quiet, slots
<1>3. CASE Stamp \/ Handle
  <2>1. main.at \in {"stamp", "handle"} /\ fd' = fd
    BY <1>3, StampFacts, HandleFacts DEF Stamp
  <2>2. active' = active
    <3>1. CASE Handle
      BY <3>1, HandleFacts
    <3>2. CASE Stamp
      <4>1. /\ race' = race \cup (IF Has("pps", main.slot) THEN {"request"} ELSE {})
            /\ active' = [active EXCEPT ![main.slot] = TRUE]
        BY <3>2 DEF Stamp
      <4>2. ~Has("pps", main.slot) /\ main.slot \in Slot
        BY <1>1, <4>1, TypedVariables DEF TypeInv
      <4>3. active[main.slot]
        BY <1>1, <2>1, <4>2 DEF WholeOK
      <4> QED
        BY <4>1, <4>3 DEF TypeInv, TypeOK
    <3> QED
      BY <1>3, <3>1, <3>2
  <2>3. \A s : Has("main", s) => Has("main", s)'
    BY <2>1, HasMain DEF Inside
  <2>4. ~Accept /\ ~Fill
    BY <2>1 DEF Accept, Fill
  <2> QED
    BY <1>1, <2>1, <2>2, <2>3, <2>4, QuietPlaces
<1>4. CASE Accept \/ Fill \/ Activate
  BY <1>1, <1>4, AcceptPlaces, FillPlaces
<1>5. ASSUME NEW t \in Thread, Free(t) \/ Deactivate(t) \/ Unsubscribe(t)
      PROVE  PlacesOK'
  BY <1>1, <1>5, FreePlaces, DeactivatePlaces
<1>6. CASE UNCHANGED vars
  <2>1. PlacesOK' <=> PlacesOK
    BY <1>6 DEF vars, slots, PlacesOK, Has, Doing
  <2> QED
    BY <1>1, <2>1
<1>7. CASE Accept \/ Fill
  BY <1>4, <1>7
<1> QED
  BY <1>2, <1>3, <1>4, <1>5, <1>6, <1>7, QuietMain, QuietThreads DEF Next, Loop, DetachStep
-----------------------------------------------------------------------------
(* What the main thread knows of the descriptors select reported.          *)

PhaseOK ==
  /\ main.at \in {"wait", "accept", "greet", "report"} \cup Filling => main.phase # "test"
  /\ main.at \in {"test", "recv", "stamp", "handle"} => main.phase = "test"
  /\ main.at = "select" => main.rfds = {}

(* Slots whose input the loop has still to look at.                        *)
Untested(t) ==
  \/ main.phase # "test"
  \/ main.at \in {"test", "recv"} /\ t >= main.slot
  \/ t > main.slot

LEMMA SlotNumbers ==
  ASSUME TypeInv
  PROVE  /\ main.slot \in Int /\ \A s \in Slot : s \in Int
         /\ \A m \in MainType : m.slot \in Slot /\ m.slot \in Int
<1>1. Slot \subseteq Int
  BY Numbers
<1>2. \A m \in MainType : m.slot \in Slot
  BY DEF MainType
<1>3. main \in MainType
  BY TypedVariables DEF TypeInv
<1> QED
  BY <1>1, <1>2, <1>3

LEMMA NextPhase ==
  ASSUME TypeInv, PhaseOK, Moves
  PROVE  PhaseOK'
<1>1. ASSUME NEW m \in MainType, main' = Go(m)
      PROVE  PhaseOK'
  BY <1>1, GoesOn DEF PhaseOK, Filling, Installs
<1>2. CASE main' = main
  BY <1>2 DEF PhaseOK
<1>3. CASE main' = Go(main) \/ \E m \in MainType : main' = Go(m)
  BY <1>1, <1>3, TypedVariables DEF TypeInv
<1>4. CASE ~(main' = main \/ main' = Go(main) \/ \E m \in MainType : main' = Go(m))
  BY <1>4 DEF Moves, PhaseOK, Filling, Installs, Raised, Inside
<1> QED
  BY <1>2, <1>3, <1>4

(* A slot the loop has still to look at in what select reported before, it *)
(* had still to look at.                                                   *)
LEMMA TestedStays ==
  ASSUME TypeInv, PhaseOK, Moves, main.at \notin {"select", "wait"}, NEW t \in Slot, Untested(t)',
         NEW f, f \in main'.rfds
  PROVE  Untested(t) /\ f \in main.rfds
<1>1. main \in MainType /\ main.slot \in Int /\ t \in Int
  BY TypedVariables, SlotNumbers DEF TypeInv
<1>2. CASE main' = Go(main)
  <2>1. /\ Go(main).rfds \in {main.rfds, {}} /\ Go(main) \in MainType
        /\ \/ Go(main).rfds = {}
           \/ main.phase # "test"
           \/ Go(main).at = "test" /\ Go(main).phase = "test" /\ Go(main).slot > main.slot
    BY <1>1, GoesOn
  <2>2. Go(main).slot \in Int
    BY <2>1, SlotNumbers
  <2> QED
    BY <1>1, <1>2, <2>1, <2>2 DEF Untested
<1>3. CASE main' # Go(main)
  BY <1>1, <1>3 DEF Moves, Untested, PhaseOK, Filling, Installs, Raised, Inside
<1> QED
  BY <1>2, <1>3

(* What pselect reported of the live slots that the loop has still to look *)
(* at is still so; and recv is called for a descriptor that it reported.   *)
InputsOK ==
  /\ \A s \in Slot :
       main.at # "wait" /\ Live(s) /\ fd[s] \in main.rfds /\ Untested(s) => Ready(fd[s])
  /\ main.at = "recv" /\ Live(main.slot) => fd[main.slot] \in main.rfds
  /\ main.at = "recv" => \A t \in Slot : t # main.slot /\ Live(t) => fd[t] # fd[main.slot]

InputsInv == Calm => InputsOK

LEMMA ReportedIsReady ==
  ASSUME TypeInv, Descriptors, Conns, Devs, PhaseOK, PlacesOK, InputsOK, [Next]_vars
  PROVE  \A s \in Slot :
           main'.at # "wait" /\ Live(s)' /\ fd'[s] \in main'.rfds /\ Untested(s)' =>
             Ready(fd[s])' /\ fd'[s] = fd[s]
<1> SUFFICES ASSUME NEW s \in Slot, main'.at # "wait", Live(s)', fd'[s] \in main'.rfds, Untested(s)'
             PROVE  Ready(fd[s])' /\ fd'[s] = fd[s]
  OBVIOUS
<1>1. Moves
  BY NextMoves
<1>2. ~(Fill /\ s = main.slot)
  <2> SUFFICES ASSUME Fill, s = main.slot PROVE FALSE
    OBVIOUS
  <2>1. main.at = "fill" /\ fd'[s] = main.fd /\ main'.rfds = main.rfds
    BY FillFacts DEF TypeInv, TypeOK
  <2> QED
    BY <2>1 DEF PlacesOK, Installs
<1>3. Live(s) /\ fd'[s] = fd[s]
  BY <1>2, LiveStep
<1>4. /\ ~(Recv /\ fd[main.slot] = fd[s]) => (Ready(fd[s]) => Ready(fd[s])')
  BY <1>3, LiveIsSteady DEF StillReady, Ready
<1>5. CASE main.at = "select"
  <2>1. main' = main \/ main'.at = "wait"
    BY <1>1, <1>5 DEF Moves, Installs, Inside
  <2> QED
    BY <1>5, <2>1 DEF PhaseOK
<1>6. CASE main.at = "wait"
  <2>1. main'.rfds \subseteq {f \in main.rfds : Ready(f) \/ file[f] = Closed}
    <3>1. \A m \in MainType : Go(m).rfds \subseteq m.rfds
      BY GoesOn
    <3> QED
      BY <1>1, <1>6, <3>1 DEF Moves, Installs, Inside
  <2>2. Ready(fd[s])
    <3>1. file[fd[s]] # Closed
      BY <1>3 DEF Descriptors, LiveIsOpen
    <3> QED
      BY <1>3, <2>1, <3>1
  <2> QED
    BY <1>3, <1>4, <1>6, <2>2 DEF Recv
<1>7. CASE main.at \notin {"select", "wait"}
  <2>1. Untested(s) /\ fd[s] \in main.rfds
    BY <1>1, <1>3, <1>7, TestedStays
  <2>2. ~(Recv /\ fd[main.slot] = fd[s])
    <3> SUFFICES ASSUME Recv, fd[main.slot] = fd[s] PROVE FALSE
      OBVIOUS
    <3>1. main.at = "recv" /\ main'.at \in {"stamp", "detach"} /\ main'.slot = main.slot
          /\ main'.phase = "test" /\ main.slot \in Int /\ s \in Int
      BY RecvFacts, SlotNumbers DEF PhaseOK
    <3>2. s # main.slot
      BY <3>1 DEF Untested
    <3> QED
      BY <1>3, <3>1, <3>2 DEF InputsOK
  <2> QED
    BY <1>3, <1>4, <1>7, <2>1, <2>2 DEF InputsOK
<1> QED
  BY <1>5, <1>6, <1>7

(* The main thread comes to recv only from the test of its slot.           *)
LEMMA ComesToRecv ==
  ASSUME TypeInv, [Next]_vars, main'.at = "recv", main' # main
  PROVE  Test /\ main.at = "test" /\ main'.slot = main.slot /\ main'.rfds = main.rfds
<1>1. main.at = "test" /\ main'.slot = main.slot /\ main'.rfds = main.rfds
  <2>1. \A m \in MainType : Go(m).at # "recv"
    BY GoesOn
  <2> QED
    BY <2>1, NextMoves, TypedVariables DEF Moves, TypeInv, Inside, Raised
<1>2. CASE Call \/ \E data \in BOOLEAN, late \in SUBSET main.rfds : Wake(data, late)
  BY <1>1, <1>2 DEF Call, Wake
<1>3. CASE DetachStep("main")
  BY <1>1, <1>3 DEF DetachStep, Doing, Detach, Clear, Lower, Count, Settle, Deactivate, Unsubscribe,
                    Free
<1>4. CASE Loop
  BY <1>1, <1>4 DEF Loop, Refuse, Accept, Leak, Install, Raise, Store, Fill, Activate, Greet, Report,
                    Recv, Stamp, Handle
<1> QED
  BY <1>1, <1>2, <1>3, <1>4, WhoMoves

LEMMA NextInputs ==
  ASSUME TypeInv, Descriptors, Conns, Devs, PhaseOK, PlacesInv, InputsInv, [Next]_vars
  PROVE  InputsInv'
<1> SUFFICES ASSUME Calm'
             PROVE  InputsOK'
  BY DEF InputsInv
<1>1. PlacesOK /\ InputsOK
  BY RaceGrows DEF PlacesInv, InputsInv
<1>2. \A s \in Slot :
        main'.at # "wait" /\ Live(s)' /\ fd'[s] \in main'.rfds /\ Untested(s)' =>
          Ready(fd[s])' /\ fd'[s] = fd[s]
  BY <1>1, ReportedIsReady
<1>3. (\A s \in Slot :
         main.at # "wait" /\ Live(s) /\ fd[s] \in main.rfds /\ Untested(s) => Ready(fd[s]))'
  BY <1>2
<1>4. ASSUME main'.at = "recv", main' # main
      PROVE  /\ Live(main.slot)' => fd'[main'.slot] \in main'.rfds
             /\ \A t \in Slot : t # main'.slot /\ Live(t)' => fd'[t] # fd'[main'.slot]
  <2>1. Test /\ main.at = "test" /\ main'.slot = main.slot /\ main'.rfds = main.rfds
        /\ main.slot \in Slot
    BY <1>4, ComesToRecv, TypedVariables DEF TypeInv
  <2>2. fd' = fd /\ ~Detaching(main.slot) /\ pps' = pps
    BY <2>1 DEF Test, slots, Unlocked
  <2>3. ASSUME Live(main.slot)'
        PROVE  fd[main.slot] \in main.rfds
    <3>1. fd[main.slot] > 0
      BY <2>1, <2>2, <2>3 DEF Live
    <3>2. fd[main.slot] \in Fd
      BY <2>1, <3>1, FdNumbers
    <3>3. \E input \in {fd[main.slot] \in main.rfds} :
            input \/ main' = Go(main) \/ main' = [main EXCEPT !.at = "detach"]
      BY <2>1, <3>2 DEF Test, InputOf
    <3>4. main \in MainType /\ Go(main).at # "recv"
      BY GoesOn, TypedVariables DEF TypeInv
    <3>5. [main EXCEPT !.at = "detach"].at # "recv"
      BY <3>4 DEF MainType
    <3> QED
      BY <1>4, <3>3, <3>4, <3>5
  <2>4. ASSUME NEW t \in Slot, t # main.slot, Live(t)'
        PROVE  fd[t] # fd[main.slot]
    <3>1. ~Has("pps", t)' /\ ~Has("main", t)' /\ fd[t] > 0
      BY <2>2, <2>4, DetachingBy DEF Live
    <3>2. ~Has("pps", t) /\ ~Has("main", t)
      BY <2>1, <2>2, <3>1, HasPps, HasMain DEF Inside
    <3>3. ~Detaching(t)
      BY <3>2, DetachingBy
    <3> QED
      BY <2>1, <2>2, <2>4, <3>1, <3>3 DEF Descriptors, OneOwner
  <2> QED
    BY <2>1, <2>2, <2>3, <2>4
<1>5. ASSUME main'.at = "recv", main' = main
      PROVE  /\ Live(main.slot)' => fd'[main'.slot] \in main'.rfds
             /\ \A t \in Slot : t # main'.slot /\ Live(t)' => fd'[t] # fd'[main'.slot]
  <2>1. main.at = "recv" /\ main.slot \in Slot /\ ~(Install \/ Accept \/ Leak \/ Fill)
    BY <1>5, TypedVariables DEF TypeInv, Install, Accept, Leak, Fill
  <2>2. \A t \in Slot : Live(t)' => Live(t) /\ fd'[t] = fd[t]
    BY <2>1, LiveStep
  <2>3. fd'[main.slot] = fd[main.slot] \/ fd'[main.slot] = UNALLOCATED_FD
    <3>1. CASE Plain
      BY <3>1 DEF Plain, Still
    <3>2. ASSUME NEW t \in Thread, Clear(t) \/ Closing(t, Doing(t).slot)
          PROVE  fd' = fd
      BY <3>2, ClearFacts DEF Closing, slots
    <3>3. ASSUME NEW t \in Thread, Freeing(t, Doing(t).slot)
          PROVE  fd'[main.slot] = fd[main.slot] \/ fd'[main.slot] = UNALLOCATED_FD
      <4>1. fd' = [fd EXCEPT ![Doing(t).slot] = UNALLOCATED_FD]
        BY <3>3 DEF Freeing
      <4> QED
        BY <2>1, <4>1 DEF TypeInv, TypeOK
    <3> QED
      BY <2>1, <3>1, <3>2, <3>3, StepKinds
  <2>4. \A t \in Slot : Live(t)' => fd'[t] # UNALLOCATED_FD
    BY Numbers DEF Live
  <2> QED
    BY <1>1, <1>5, <2>1, <2>2, <2>3, <2>4 DEF InputsOK
<1> QED
  BY <1>3, <1>4, <1>5 DEF InputsOK
-----------------------------------------------------------------------------
(* Why a thread is about to drop a client.                                 *)

(* The client of a live slot that a thread goes to detach does not read;   *)
(* or, in the main thread, it does not watch.                              *)
ReasonsOK ==
  /\ main.at = "detach" /\ Live(main.slot) =>
       health[file[fd[main.slot]]] # "reads" \/ "watcher" \notin policy[main.slot]
  /\ pps.at = "detach" /\ Live(pps.slot) => health[file[fd[pps.slot]]] # "reads"

ReasonsInv == Calm => ReasonsOK

LEMMA DropsLive ==
  ASSUME TypeInv, Descriptors, Devs, NEW t \in Slot, Live(t), TRUE \in Drops(t)
  PROVE  health[file[fd[t]]] # "reads"
BY LiveFile DEF Drops

(* A slot that stays live keeps its client and its client's state.         *)
LEMMA LiveBefore ==
  ASSUME TypeInv, Descriptors, Conns, Devs, [Next]_vars, NEW t \in Slot, Live(t)',
         ~(Fill /\ t = main.slot)
  PROVE  /\ Live(t) /\ fd'[t] = fd[t] /\ file'[fd'[t]] = file[fd[t]]
         /\ health[file[fd[t]]] # "reads" => health'[file'[fd'[t]]] # "reads"
<1>1. Live(t) /\ fd'[t] = fd[t]
  BY LiveStep
<1> QED
  BY <1>1, LiveIsSteady DEF Steady

LEMMA PpsReasons ==
  ASSUME TypeInv, Descriptors, Conns, Devs, PlacesOK, ReasonsOK, [Next]_vars, pps'.at = "detach",
         Live(pps.slot)'
  PROVE  health'[file'[fd'[pps'.slot]]] # "reads"
<1>1. pps.slot \in Slot /\ main.slot \in Slot
  BY TypedVariables DEF TypeInv
<1>2. Fill /\ pps.slot = main.slot => pps.at = "wait"
  BY DEF Fill, PlacesOK, Filling, Installs
<1>3. CASE pps' = pps
  <2>1. ~(Fill /\ pps.slot = main.slot)
    BY <1>2, <1>3
  <2> QED
    BY <1>1, <1>3, <2>1, LiveBefore DEF ReasonsOK
<1>4. CASE pps' # pps
  <2>1. \A s : Scan(s).at # "detach"
    BY ScansOn
  <2>2. ~DetachStep("pps")
    <3> DEFINE t == "pps"
    <3>1. t \in Thread /\ Doing(t) = pps
      BY DEF Thread, Doing
    <3>2. \A at \in Inside : ~Goes(t, at)
      BY <3>1, GoesFacts DEF TypeInv, Inside
    <3>3. ~Returns(t)
      BY <2>1 DEF Returns, NextSlot
    <3>4. ~Detach(t) /\ ~Clear(t) /\ ~Free(t)
      BY <3>1, <3>2, <3>3, DetachFacts, ClearFacts, FreeFacts DEF Inside
    <3>5. ~(Lower(t) \/ Count(t) \/ Settle(t) \/ Deactivate(t) \/ Unsubscribe(t))
      BY <3>1, <3>2, DetachInside
    <3> QED
      BY <3>4, <3>5 DEF DetachStep
  <2>3. pps.at = "send" /\ pps'.slot = pps.slot /\ TRUE \in Drops(pps.slot)
    BY <1>4, <2>1, <2>2, WhoMoves, PpsFacts DEF NextSlot
  <2>4. ~(Fill /\ pps.slot = main.slot)
    BY <1>2, <2>3
  <2> QED
    BY <1>1, <2>3, <2>4, LiveBefore, DropsLive
<1> QED
  BY <1>3, <1>4

LEMMA WatcherPolicy ==
  ASSUME TypeInv, [Next]_vars, main.at = "detach", main' = main, "watcher" \notin policy[main.slot]
  PROVE  "watcher" \notin policy'[main.slot]
<1>1. main.slot \in Slot
  BY TypedVariables DEF TypeInv
<1>2. ASSUME NEW t \in Thread, Unsubscribe(t)
      PROVE  "watcher" \notin policy'[main.slot]
  <2>1. policy' = [policy EXCEPT ![Doing(t).slot] = policy[Doing(t).slot] \cap {"pps"}]
        /\ Doing(t).slot \in Slot
    BY <1>2, TypedVariables DEF Unsubscribe, TypeInv
  <2> QED
    BY <1>1, <2>1 DEF TypeInv, TypeOK
<1>3. CASE Clients \/ UNCHANGED vars
  BY <1>3, ClientsAreStill DEF vars, slots
<1>4. CASE Edge \/ PpsSend
  BY <1>4, PpsFacts DEF slots
<1>5. CASE Call \/ Loop \/ \E data \in BOOLEAN, late \in SUBSET main.rfds : Wake(data, late)
  BY <1>5 DEF Call, Wake, Loop, Refuse, Accept, Leak, Install, Raise, Store, Fill, Activate, Greet,
              Report, Test, Recv, Stamp, Handle
<1>6. ASSUME NEW t \in Thread, DetachStep(t), ~Unsubscribe(t)
      PROVE  policy' = policy
  BY <1>6 DEF DetachStep, Detach, Clear, Lower, Count, Settle, Deactivate, Free, slots
<1> QED
  BY <1>2, <1>3, <1>4, <1>5, <1>6 DEF Next

LEMMA MainReasons ==
  ASSUME TypeInv, Descriptors, Conns, Devs, PhaseOK, InputsOK, ReasonsOK, [Next]_vars,
         main'.at = "detach", Live(main.slot)'
  PROVE  health'[file'[fd'[main'.slot]]] # "reads" \/ "watcher" \notin policy'[main'.slot]
<1>1. main.slot \in Slot /\ main \in MainType
  BY TypedVariables DEF TypeInv
<1>2. CASE main' = main
  <2>1. ~Fill
    BY <1>2 DEF Fill
  <2> QED
    BY <1>1, <1>2, <2>1, LiveBefore, WatcherPolicy DEF ReasonsOK
<1>3. CASE main' # main
  <2>1. /\ main.at \in {"greet", "report", "test", "recv", "handle"}
        /\ main'.slot = main.slot /\ main' # Go(main)
    <3>1. \A m \in MainType : Go(m).at # "detach"
      BY GoesOn
    <3> QED
      BY <1>1, <1>3, <3>1, NextMoves DEF Moves, Inside, Raised
  <2>2. Greet \/ Report \/ Test \/ Recv \/ Handle
    <3>1. CASE Call \/ \E data \in BOOLEAN, late \in SUBSET main.rfds : Wake(data, late)
      BY <2>1, <3>1 DEF Call, Wake
    <3>2. CASE DetachStep("main")
      BY <2>1, <3>2 DEF DetachStep, Doing, Detach, Clear, Lower, Count, Settle, Deactivate,
                        Unsubscribe, Free
    <3>3. CASE Loop
      BY <2>1, <3>3 DEF Loop, Refuse, Accept, Leak, Install, Raise, Store, Fill, Activate, Stamp
    <3> QED
      BY <1>3, <3>1, <3>2, <3>3, WhoMoves
  <2>3. /\ Live(main.slot) /\ fd'[main.slot] = fd[main.slot]
        /\ health[file[fd[main.slot]]] # "reads" => health'[file'[fd'[main.slot]]] # "reads"
    <3>1. ~Fill
      BY <2>1 DEF Fill
    <3> QED
      BY <1>1, <2>1, <3>1, LiveBefore
  <2>4. CASE Greet \/ Report \/ Handle
    <3>1. TRUE \in Drops(main.slot)
      BY <2>1, <2>4 DEF Greet, Report, Handle, Drops
    <3> QED
      BY <1>1, <2>1, <2>3, <3>1, DropsLive
  <2>5. CASE Test
    <3>1. policy' = policy
      BY <2>5 DEF Test, slots
    <3>2. \E late \in TimedOut(main.slot) : late \/ main' = [main EXCEPT !.at = "recv"]
      BY <2>1, <2>5 DEF Test
    <3>3. main' # [main EXCEPT !.at = "recv"]
      BY <1>1 DEF MainType
    <3> QED
      BY <2>1, <3>1, <3>2, <3>3 DEF TimedOut
  <2>6. CASE Recv
    <3>1. main.at = "recv" /\ Untested(main.slot)
      BY <2>6, SlotNumbers DEF Recv, Untested
    <3>2. Ready(fd[main.slot])
      BY <1>1, <2>3, <3>1 DEF InputsOK
    <3>3. ConnOf(fd[main.slot]) = file[fd[main.slot]] /\ file[fd[main.slot]] \in Conn
      BY <1>1, <2>3, LiveFile
    <3>4. inbox[file[fd[main.slot]]] = NoRequest
      BY <2>6, <3>3, RecvFacts
    <3> QED
      BY <2>1, <2>3, <3>2, <3>4 DEF Ready
  <2> QED
    BY <2>2, <2>4, <2>5, <2>6
<1> QED
  BY <1>2, <1>3

LEMMA NextReasons ==
  ASSUME TypeInv, Descriptors, Conns, Devs, PhaseOK, PlacesInv, InputsInv, ReasonsInv, [Next]_vars
  PROVE  ReasonsInv'
<1> SUFFICES ASSUME Calm'
             PROVE  ReasonsOK'
  BY DEF ReasonsInv
<1>1. PlacesOK /\ InputsOK /\ ReasonsOK
  BY RaceGrows DEF PlacesInv, InputsInv, ReasonsInv
<1> QED
  BY <1>1, PpsReasons, MainReasons DEF ReasonsOK
-----------------------------------------------------------------------------
(* The theorem about steps.                                                *)

DropInv ==
  /\ SessionsInv /\ Conns /\ Devs /\ PhaseOK
  /\ PlacesInv /\ InputsInv /\ ReasonsInv

LEMMA InitDrop == Init => DropInv
<1> SUFFICES ASSUME Init PROVE DropInv
  OBVIOUS
<1>1. main.at = "select" /\ main.rfds = {} /\ main.fd = 0 /\ pps.at = "wait"
  BY DEF Init, Idle
<1>2. \A s \in Slot : ~(fd[s] > 0) /\ ~active[s] /\ fd[s] = UNALLOCATED_FD
  BY Numbers DEF Init
<1>3. Conns
  <2>1. \A f \in Fd : file[f] \notin Conn
    BY Numbers DEF Init
  <2>2. 1..Len(backlog) = {}
    BY DEF Init
  <2> QED
    BY <2>1, <2>2 DEF Conns
<1>4. Devs
  <2>1. UNALLOCATED_FD \notin {Msock, Device} /\ 0 \notin {Msock, Device}
    BY DEF Msock, Device, UNALLOCATED_FD
  <2> QED
    BY <1>1, <1>2, <2>1, Numbers DEF Devs, Init
<1>5. PhaseOK
  BY <1>1 DEF PhaseOK, Filling, Installs
<1>6. PlacesOK
  BY <1>1, <1>2, Zero DEF PlacesOK, Init, Filling, Installs, Inside
<1>7. InputsOK /\ ReasonsOK
  BY <1>1, <1>2 DEF InputsOK, ReasonsOK, Live
<1> QED
  BY <1>3, <1>4, <1>5, <1>6, <1>7, InitSessions DEF DropInv, PlacesInv, InputsInv, ReasonsInv

(* The thread that ends a session is in the step of detach_client that     *)
(* closes the descriptor.                                                  *)
LEMMA EndsCloses ==
  ASSUME TypeInv, [Next]_vars, NEW s \in Slot, Ends(s)
  PROVE  \E t \in Thread : Doing(t).slot = s /\ Closing(t, s)
<1>1. ASSUME NEW t \in Thread, DetachStep(t), Doing(t).at = "detach", Doing(t).slot = s, ~Returns(t)
      PROVE  Closing(t, s)
  <2>1. Detach(t)
    BY <1>1 DEF DetachStep, Clear, Lower, Count, Settle, Deactivate, Unsubscribe, Free
  <2>2. fd[s] # UNALLOCATED_FD
    BY <1>1, <2>1, DetachFacts
  <2> QED
    BY <1>1, <2>1, <2>2, DetachCloses
<1>2. CASE main.at = "detach" /\ main'.at = "clear" /\ main.slot = s
  <2>1. DetachStep("main")
    <3>1. ~Loop /\ ~Call /\ \A data \in BOOLEAN, late \in SUBSET main.rfds : ~Wake(data, late)
      BY <1>2 DEF Loop, Refuse, Accept, Leak, Install, Raise, Store, Fill, Activate, Greet, Report,
                  Test, Recv, Stamp, Handle, Call, Wake
    <3> QED
      BY <1>2, <3>1, WhoMoves
  <2>2. ~Returns("main")
    BY <1>2, GoesOn, TypedVariables DEF Returns, TypeInv
  <2>3. "main" \in Thread /\ Doing("main") = main
    BY DEF Thread, Doing
  <2> QED
    BY <1>1, <1>2, <2>1, <2>2, <2>3
<1>3. CASE pps.at = "detach" /\ pps'.at = "clear" /\ pps.slot = s
  <2>1. DetachStep("pps")
    BY <1>3, WhoMoves, PpsFacts
  <2>2. "pps" \in Thread /\ Doing("pps") = pps
    BY DEF Thread, Doing
  <2>3. ~Returns("pps")
    BY <1>3, ScansOn DEF Returns, NextSlot
  <2> QED
    BY <1>1, <1>3, <2>1, <2>2, <2>3
<1> QED
  BY <1>2, <1>3 DEF Ends

LEMMA DroppedForAReason ==
  ASSUME DropInv, Next, Calm, NEW s \in Slot, Ends(s)
  PROVE  Dropped(s)
<1> USE DEF DropInv, SessionsInv
<1>1. PlacesOK /\ ReasonsOK /\ WholeOK
  BY DEF Calm, WholeInv, PlacesInv, ReasonsInv, PlacesOK
<1>2. PICK t \in Thread : Doing(t).slot = s /\ Closing(t, s)
  BY EndsCloses
<1>3. Live(s)
  <2>1. fd[s] > 0
    BY <1>1, <1>2, ClosesActive
  <2> QED
    BY <1>2, <2>1 DEF Closing, Live
<1>4. health[file[fd[s]]] # "reads" \/ "watcher" \notin policy[s]
  BY <1>1, <1>2, <1>3 DEF ReasonsOK, Closing, Doing, Thread
<1> QED
  BY <1>3, <1>4, LiveFile DEF Dropped

(* Whoever of the two threads closes a session, its client closed it, does *)
(* not read, or does not watch and timed out: as long as no slot was reset *)
(* under a request and none was given out again, with its descriptor still *)
(* in rfds or while the PPS thread was at it, detach_client hits no other. *)
THEOREM SessionsEndForAReason == Spec => NoOneElseIsDropped
<1>1. DropInv /\ [Next]_vars => DropInv'
  BY NextTyped, NextDescriptors, NextBits, NextWhole, NextConns, NextDevs, NextMoves, NextPhase,
     NextPlaces, NextInputs, NextReasons DEF DropInv, SessionsInv
<1>2. DropInv /\ [Next]_vars =>
        [race \cap {"request", "reuse"} = {} => \A s \in Slot : Ends(s) => Dropped(s)]_vars
  BY DroppedForAReason DEF Calm
<1> QED
  BY <1>1, <1>2, InitDrop, PTL DEF Spec, NoOneElseIsDropped
=============================================================================
