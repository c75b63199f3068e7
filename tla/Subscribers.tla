---------------------------- MODULE Subscribers ----------------------------
(***************************************************************************)
(* The client sessions of gpsd 3.16 (gpsd.c): the table subscribers[], the *)
(* descriptors the main loop selects on, and the two threads that work on  *)
(* them.  The main thread accepts clients, reports to those who watch,     *)
(* reads their requests and drops those that are gone.  The PPS thread     *)
(* of a device writes to the watchers too, and drops whoever it cannot     *)
(* write to.  Only detach_client and the test of rfds take a slot's mutex; *)
(* all_fds, maxfd and the slots are written with no lock, store by store.  *)
(*                                                                         *)
(* A connection is a client's socket; once the daemon has closed its own   *)
(* end, the number stands for another connection.  The system gives out    *)
(* the lowest free descriptor; 0, the listening socket and one device are  *)
(* open from the start.  A policy is the set of its flags that are on; a   *)
(* WATCH request is <<the flags it turns on>>.  Of `active' the model      *)
(* keeps whether it is zero: any time may pass between two steps, so that  *)
(* a test of its age can always have either outcome.                       *)
(***************************************************************************)
EXTENDS Integers, Sequences, FiniteSetsExt, Functions

CONSTANTS
  MaxOpen,         \* how many connections there are at a time
  MaxClients,      \* MAX_CLIENTS
  MaxFd,           \* the largest descriptor the process may have
  Request,         \* the WATCH requests clients send
  MaxConns,        \* how many connections are made, for model checking
  Fickle           \* the connections whose client may stop reading or close

Flag == {"watcher", "json", "pps"}

ASSUME SubscribersAssumption ==
  /\ MaxClients \in Nat \ {0} /\ MaxFd \in Nat \ 0..1
  /\ MaxOpen \in Nat /\ MaxConns \in Nat /\ Fickle \subseteq 1..MaxOpen
  /\ Request \subseteq {<<flags>> : flags \in SUBSET Flag}

VARIABLES
  backlog,  \* the connections the daemon has not accepted yet
  health,   \* whether its client reads, has stopped reading or has closed it
  inbox,    \* the request a client has sent and the daemon not read
  file,     \* what the open descriptors are
  fd, active, policy, \* subscribers[]
  all_fds, maxfd,
  main,     \* where the main thread is in its loop, with its variables
  pps,      \* where the PPS thread is
  copy,     \* what each thread has read of all_fds before it writes it back
  high,     \* the largest descriptor that each thread has found in all_fds
  made,     \* how many connections have been made
  race      \* history: the ways in which the threads have got across

slots == <<fd, active, policy>>
clients == <<backlog, health, inbox, made>>
shared == <<all_fds, maxfd>>
threads == <<main, pps, copy, high, race>>
vars == <<clients, file, slots, shared, main, pps, copy, high, race>>

Slot == 0..MaxClients - 1
Fd == 0..MaxFd
UNALLOCATED_FD == -1
Conn == 1..MaxOpen
Closed == 0                       \* a descriptor that is free
Other == -1                       \* a descriptor that is not a client's
Msock == 1                        \* the socket that listens for clients
Device == 2
Thread == {"main", "pps"}
NoRequest == << >>
Race == {"request", "fill", "bits", "maxfd", "reuse"}

Idle == [at |-> "select", slot |-> 0, phase |-> "greet", data |-> FALSE,
         rfds |-> {}, fd |-> 0, req |-> NoRequest]

Init ==
  /\ backlog = << >> /\ made = 0
  /\ health = [c \in Conn |-> "reads"]
  /\ inbox = [c \in Conn |-> NoRequest]
  /\ file = [f \in Fd |-> IF f \in {0, Msock, Device} THEN Other ELSE Closed]
  /\ fd = [s \in Slot |-> UNALLOCATED_FD]
  /\ active = [s \in Slot |-> FALSE]
  /\ policy = [s \in Slot |-> {}]
  /\ all_fds = {Msock, Device} /\ maxfd = Device
  /\ main = Idle
  /\ pps = [at |-> "wait", slot |-> 0]
  /\ copy = [t \in Thread |-> {}]
  /\ high = [t \in Thread |-> 0]
  /\ race = {}

-----------------------------------------------------------------------------
(* The clients.                                                            *)

Open(c) == c \in Range(file)

Connect ==
  LET unused == {c \in Conn : ~Open(c) /\ c \notin Range(backlog)}
  IN
  /\ unused # {}
  /\ made < MaxConns /\ made' = made + 1
  /\ backlog' = Append(backlog, Min(unused))
  /\ UNCHANGED <<health, inbox, file, slots, shared, threads>>

Send(c, r) ==
  /\ Open(c) /\ health[c] # "quit" /\ inbox[c] = NoRequest
  /\ inbox' = [inbox EXCEPT ![c] = r]
  /\ UNCHANGED <<backlog, health, made, file, slots, shared, threads>>

\* The client closes its socket.
Quit(c) ==
  /\ Open(c) /\ health[c] # "quit"
  /\ health' = [health EXCEPT ![c] = "quit"]
  /\ UNCHANGED <<backlog, inbox, made, file, slots, shared, threads>>

StopReading(c) ==
  /\ Open(c) /\ health[c] = "reads"
  /\ health' = [health EXCEPT ![c] = "stuck"]
  /\ UNCHANGED <<backlog, inbox, made, file, slots, shared, threads>>

-----------------------------------------------------------------------------
(* What both threads do to a slot.                                         *)

Doing(t) == IF t = "main" THEN main ELSE pps

\* Thread t is inside detach_client, and has the mutex of slot s.
Inside == {"clear", "lower", "count", "settle", "deactivate", "unsubscribe", "free"}
Has(t, s) == Doing(t).at \in Inside /\ Doing(t).slot = s
Detaching(s) == \E t \in Thread : Has(t, s)

Unlocked(s) == ~Detaching(s)

\* It has read all_fds and is about to write it back; it counts maxfd anew.
Updating(t) == Doing(t).at \in {"install", "clear"}
Counting(t) == Doing(t).at \in {"count", "settle"}

ConnOf(f) == IF f \in Fd THEN file[f] ELSE Closed

\* throttled_write: whether it may drop the client.  A full buffer gives a
\* short write, or EAGAIN, which is tested before EWOULDBLOCK and is the same.
Drops(s) ==
  LET c == ConnOf(fd[s])
  IN  IF c \notin Conn THEN {TRUE}
      ELSE IF health[c] # "reads" THEN BOOLEAN
      ELSE {FALSE}

\* notify_watchers and all_reports: whom they write to.
Subscribed(s, flags) ==
  active[s] /\ "watcher" \in policy[s] /\ policy[s] \cap flags # {}

\* A connection ends, and with it what its client has done.
Forget(c) ==
  /\ health' = [x \in Conn |-> IF x = c THEN "reads" ELSE health[x]]
  /\ inbox' = [x \in Conn |-> IF x = c THEN NoRequest ELSE inbox[x]]

\* shutdown and close.
Close(s) ==
  /\ file' = [f \in Fd |-> IF f = fd[s] THEN Closed ELSE file[f]]
  /\ Forget(ConnOf(fd[s]))
  /\ UNCHANGED <<backlog, made>>

-----------------------------------------------------------------------------
(* The main loop: select, accept, reports, requests.                       *)

Ready(f) ==
  LET c == file[f]
  IN  c \in Conn /\ (inbox[c] # NoRequest \/ health[c] = "quit")

\* Where the main thread goes on after its slot m.slot: through the slots to
\* report to, when a device had data, and then through the active ones.
Go(m) ==
  LET from == [Idle EXCEPT !.rfds = m.rfds]
      Left(after) == {s \in Slot : s > after}
      Report(after) == {s \in Left(after) : Subscribed(s, {"json"})}
      Check(after) == {s \in Left(after) : active[s]}
      After(phase) == IF m.phase = phase THEN m.slot ELSE -1
  IN  IF m.phase # "test" /\ m.data /\ Report(After("report")) # {}
      THEN [from EXCEPT !.at = "report", !.phase = "report", !.data = TRUE,
                        !.slot = Min(Report(After("report")))]
      ELSE IF Check(After("test")) # {}
      THEN [from EXCEPT !.at = "test", !.phase = "test", !.slot = Min(Check(After("test")))]
      ELSE Idle

\* Mutant: after EBADF the closed descriptors stay in all_fds.
BadDescriptorsKept(bad) == all_fds' = all_fds

\* gpsd_await_data after EBADF; no device has one of these descriptors.
BadDescriptors(bad) == all_fds' = all_fds \ bad

\* gpsd_await_data up to pselect, which has no timeout and looks at no
\* descriptor beyond maxfd.
Call ==
  /\ main.at = "select"
  /\ LET asked == {f \in all_fds : f <= maxfd}
     IN  IF \E f \in asked : file[f] = Closed
         THEN BadDescriptors({f \in all_fds : file[f] = Closed}) /\ UNCHANGED <<main, race>>
         ELSE /\ main' = [Idle EXCEPT !.at = "wait", !.rfds = asked]
              /\ race' = race \cup (IF Counting("pps") /\ asked # all_fds THEN {"maxfd"} ELSE {})
              /\ UNCHANGED all_fds
  /\ UNCHANGED <<clients, file, slots, maxfd, pps, copy, high>>

\* pselect returns: a client or a device has something, or a descriptor was
\* shut down by the PPS thread in the meantime, which it may notice or not.
Wake(data, late) ==
  /\ main.at = "wait"
  /\ late \subseteq {f \in main.rfds : file[f] = Closed}
  /\ LET rfds == {f \in main.rfds : Ready(f)} \cup late
         knocks == Msock \in main.rfds /\ backlog # << >>
         woken == [Idle EXCEPT !.rfds = rfds, !.data = data]
     IN  /\ data => Device \in main.rfds
         /\ rfds # {} \/ knocks \/ data
         /\ main' = IF knocks THEN [woken EXCEPT !.at = "accept"] ELSE Go(woken)
  /\ UNCHANGED <<clients, file, slots, shared, pps, copy, high, race>>

FreeFd == {f \in Fd : file[f] = Closed}
FreeSlot == {s \in Slot : fd[s] = UNALLOCATED_FD}

\* accept fails for want of a descriptor, or allocate_client of a slot.
Refuse ==
  /\ main.at = "accept"
  /\ FreeFd = {} \/ FreeSlot = {}
  /\ main' = Go(main)
  /\ IF FreeFd = {} THEN UNCHANGED clients
     ELSE Forget(Head(backlog)) /\ backlog' = Tail(backlog) /\ UNCHANGED made
  /\ UNCHANGED <<file, slots, shared, pps, copy, high, race>>

\* accept and allocate_client, up to the read of all_fds in FD_SET.
Accept ==
  /\ main.at = "accept" /\ FreeFd # {} /\ FreeSlot # {}
  /\ LET f == Min(FreeFd)
         s == Min(FreeSlot)
     IN  /\ backlog' = Tail(backlog)
         /\ file' = [file EXCEPT ![f] = Head(backlog)]
         /\ fd' = [fd EXCEPT ![s] = 0]
         /\ main' = [main EXCEPT !.at = "install", !.slot = s, !.fd = f]
         /\ copy' = [copy EXCEPT !.main = all_fds]
         /\ race' = race \cup
              (IF f \in main.rfds \/ (pps.slot = s /\ pps.at \in {"send", "detach"})
               THEN {"reuse"} ELSE {})
  /\ UNCHANGED <<health, inbox, made, active, policy, shared, pps, high>>

\* setsockopt fails: the socket is closed, the slot stays taken.
Leak ==
  /\ main.at = "install"
  /\ file' = [file EXCEPT ![main.fd] = Closed]
  /\ Forget(file[main.fd]) /\ UNCHANGED <<backlog, made>>
  /\ main' = Go(main)
  /\ copy' = [copy EXCEPT !.main = {}]
  /\ UNCHANGED <<slots, shared, pps, high, race>>

\* Mutant: the new descriptor is not entered in all_fds.
Unregistered(f) == copy.main

\* FD_SET of the new descriptor.
Registered(f) == copy.main \cup {f}

\* The rest of the accept branch, store by store: FD_SET, adjust_max_fd with its
\* test and its store, the descriptor and the time of the slot.
Install ==
  /\ main.at = "install"
  /\ all_fds' = Registered(main.fd)
  /\ main' = [main EXCEPT !.at = "raise"]
  /\ copy' = [copy EXCEPT !.main = {}]
  /\ race' = race \cup (IF Updating("pps") THEN {"bits"} ELSE {})
  /\ UNCHANGED <<clients, file, slots, maxfd, pps, high>>

\* Mutant: the comparison is off by one.
FarHigher(f) == f > maxfd + 1

Higher(f) == f > maxfd

Raise ==
  /\ main.at = "raise"
  /\ main' = [main EXCEPT !.at = IF Higher(main.fd) THEN "store" ELSE "fill"]
  /\ race' = race \cup (IF Counting("pps") THEN {"maxfd"} ELSE {})
  /\ UNCHANGED <<clients, file, slots, shared, pps, copy, high>>

Store ==
  /\ main.at = "store"
  /\ maxfd' = main.fd
  /\ main' = [main EXCEPT !.at = "fill"]
  /\ race' = race \cup (IF Counting("pps") THEN {"maxfd"} ELSE {})
  /\ UNCHANGED <<clients, file, slots, all_fds, pps, copy, high>>

Fill ==
  /\ main.at = "fill"
  /\ fd' = [fd EXCEPT ![main.slot] = main.fd]
  /\ main' = [main EXCEPT !.at = "activate", !.fd = 0]
  /\ race' = race \cup (IF Has("pps", main.slot) THEN {"fill"} ELSE {})
  /\ UNCHANGED <<clients, file, active, policy, shared, pps, copy, high>>

Activate ==
  /\ main.at = "activate"
  /\ active' = [active EXCEPT ![main.slot] = TRUE]
  /\ main' = [main EXCEPT !.at = "greet"]
  /\ race' = race \cup (IF Has("pps", main.slot) THEN {"fill"} ELSE {})
  /\ UNCHANGED <<clients, file, fd, policy, shared, pps, copy, high>>

\* The announcement to the new client.
Greet ==
  /\ main.at = "greet"
  /\ \E drop \in Drops(main.slot) :
       main' = IF drop THEN [main EXCEPT !.at = "detach"] ELSE Go(main)
  /\ UNCHANGED <<clients, file, slots, shared, pps, copy, high, race>>

\* all_reports, for one subscriber.
Report ==
  /\ main.at = "report"
  /\ \E drop \in Drops(main.slot) :
       main' = IF drop THEN [main EXCEPT !.at = "detach"] ELSE Go(main)
  /\ UNCHANGED <<clients, file, slots, shared, pps, copy, high, race>>

\* FD_ISSET under the mutex, of -1 when the slot has just been freed: it
\* then reads a word before rfds.
InputOf(s) == IF fd[s] \in Fd THEN {fd[s] \in main.rfds} ELSE BOOLEAN

\* Mutant: watchers time out too.
TimedOutAll(s) == BOOLEAN

\* Whether COMMAND_TIMEOUT has passed, which counts for those who do not watch.
TimedOut(s) == IF "watcher" \in policy[s] THEN {FALSE} ELSE BOOLEAN

Test ==
  /\ main.at = "test" /\ Unlocked(main.slot)
  /\ \E input \in InputOf(main.slot), late \in TimedOut(main.slot) :
       main' = IF input THEN [main EXCEPT !.at = "recv"]
               ELSE IF late THEN [main EXCEPT !.at = "detach"]
               ELSE Go(main)
  /\ UNCHANGED <<clients, file, slots, shared, pps, copy, high, race>>

\* recv: a request; or the end of the connection, EAGAIN or EBADF.
Recv ==
  /\ main.at = "recv"
  /\ LET c == ConnOf(fd[main.slot])
     IN  IF c \in Conn /\ inbox[c] # NoRequest
         THEN /\ main' = [main EXCEPT !.at = "stamp", !.req = inbox[c]]
              /\ inbox' = [inbox EXCEPT ![c] = NoRequest]
         ELSE main' = [main EXCEPT !.at = "detach"] /\ UNCHANGED inbox
  /\ UNCHANGED <<backlog, health, made, file, slots, shared, pps, copy, high, race>>

\* active = time(NULL), whoever has the slot now.
Stamp ==
  /\ main.at = "stamp"
  /\ active' = [active EXCEPT ![main.slot] = TRUE]
  /\ main' = [main EXCEPT !.at = "handle"]
  /\ race' = race \cup (IF Has("pps", main.slot) THEN {"request"} ELSE {})
  /\ UNCHANGED <<clients, file, fd, policy, shared, pps, copy, high>>

\* json_watch_read: json is kept when the request does not name it, watcher
\* and pps have defaults.
WatchRead(flags, r) == r[1] \cup (flags \cap {"json"})

\* handle_gpsd_request, and its reply.
Handle ==
  /\ main.at = "handle"
  /\ policy' = [policy EXCEPT ![main.slot] = WatchRead(@, main.req)]
  /\ \E drop \in Drops(main.slot) :
       main' = IF drop THEN [main EXCEPT !.at = "detach", !.req = NoRequest] ELSE Go(main)
  /\ race' = race \cup (IF Has("pps", main.slot) THEN {"request"} ELSE {})
  /\ UNCHANGED <<clients, file, fd, active, shared, pps, copy, high>>

Loop ==
  \/ Refuse \/ Accept \/ Leak \/ Install \/ Raise \/ Store \/ Fill \/ Activate
  \/ Greet \/ Report \/ Test \/ Recv \/ Stamp \/ Handle

-----------------------------------------------------------------------------
(* The PPS thread: ship_pps_message at every edge of the signal.           *)

\* notify_watchers, the slots from s on.
Scan(s) ==
  LET watchers == {t \in Slot : t >= s /\ Subscribed(t, {"json", "pps"})}
  IN  IF watchers = {} THEN [at |-> "wait", slot |-> 0]
                       ELSE [at |-> "send", slot |-> Min(watchers)]

NextSlot == Scan(pps.slot + 1)

Edge ==
  /\ pps.at = "wait"
  /\ pps' = Scan(0)
  /\ UNCHANGED <<clients, file, slots, shared, main, copy, high, race>>

PpsSend ==
  /\ pps.at = "send"
  /\ \E drop \in Drops(pps.slot) :
       pps' = IF drop THEN [pps EXCEPT !.at = "detach"] ELSE NextSlot
  /\ UNCHANGED <<clients, file, slots, shared, main, copy, high, race>>

-----------------------------------------------------------------------------
(* detach_client, in either thread: sub->fd is read anew at every use.     *)

Goes(t, at) ==
  IF t = "main" THEN main' = [main EXCEPT !.at = at] /\ UNCHANGED pps
                ELSE pps' = [pps EXCEPT !.at = at] /\ UNCHANGED main

Returns(t) ==
  IF t = "main" THEN main' = Go(main) /\ UNCHANGED pps
                ELSE pps' = NextSlot /\ UNCHANGED main

\* Up to the read of all_fds in FD_CLR.
Detach(t) ==
  LET s == Doing(t).slot
  IN
  /\ Doing(t).at = "detach" /\ Unlocked(s)
  /\ IF fd[s] = UNALLOCATED_FD
     THEN Returns(t) /\ UNCHANGED <<clients, file, copy>>
     ELSE /\ Close(s)
          /\ copy' = [copy EXCEPT ![t] = all_fds]
          /\ Goes(t, "clear")
  /\ UNCHANGED <<slots, shared, high, race>>

Clear(t) ==
  /\ Doing(t).at = "clear"
  /\ all_fds' = copy[t] \ {fd[Doing(t).slot]}
  /\ copy' = [copy EXCEPT ![t] = {}]
  /\ Goes(t, "lower")
  /\ race' = race \cup (IF \E u \in Thread \ {t} : Updating(u) THEN {"bits"} ELSE {})
  /\ UNCHANGED <<clients, file, slots, maxfd, high>>

\* adjust_max_fd.
Lower(t) ==
  /\ Doing(t).at = "lower"
  /\ IF fd[Doing(t).slot] = maxfd
     THEN maxfd' = 0 /\ Goes(t, "count")
     ELSE UNCHANGED maxfd /\ Goes(t, "deactivate")
  /\ UNCHANGED <<clients, file, slots, all_fds, copy, high, race>>

\* Its loop.  Until it ends maxfd is 0 or any descriptor found: the compiler may
\* store each or only the last.
Count(t) ==
  /\ Doing(t).at = "count"
  /\ high' = [high EXCEPT ![t] = Max(all_fds \cup {0})]
  /\ maxfd' \in {0} \cup all_fds
  /\ Goes(t, "settle")
  /\ UNCHANGED <<clients, file, slots, all_fds, copy, race>>

Settle(t) ==
  /\ Doing(t).at = "settle"
  /\ maxfd' = high[t]
  /\ high' = [high EXCEPT ![t] = 0]
  /\ Goes(t, "deactivate")
  /\ UNCHANGED <<clients, file, slots, all_fds, copy, race>>

\* Mutant: detach_client leaves the slot active.
StillActive(s) == active

Inactive(s) == [active EXCEPT ![s] = FALSE]

Deactivate(t) ==
  /\ Doing(t).at = "deactivate"
  /\ active' = Inactive(Doing(t).slot)
  /\ Goes(t, "unsubscribe")
  /\ UNCHANGED <<clients, file, fd, policy, shared, copy, high, race>>

\* Every flag of the policy but pps.
Unsubscribe(t) ==
  /\ Doing(t).at = "unsubscribe"
  /\ policy' = [policy EXCEPT ![Doing(t).slot] = @ \cap {"pps"}]
  /\ Goes(t, "free")
  /\ UNCHANGED <<clients, file, fd, active, shared, copy, high, race>>

\* Mutant: the slot keeps its descriptor.
StillTaken(s) == fd

Released(s) == [fd EXCEPT ![s] = UNALLOCATED_FD]

\* The last store, and the end of the mutex.
Free(t) ==
  /\ Doing(t).at = "free"
  /\ fd' = Released(Doing(t).slot)
  /\ Returns(t)
  /\ race' = race \cup
       (IF t = "main" \/ main.slot # pps.slot THEN {}
        ELSE IF main.at \in {"stamp", "handle"} THEN {"request"}
        ELSE IF main.at = "activate" THEN {"fill"}
        ELSE {})
  /\ UNCHANGED <<clients, file, active, policy, shared, copy, high>>

DetachStep(t) ==
  \/ Detach(t) \/ Clear(t) \/ Lower(t) \/ Count(t) \/ Settle(t)
  \/ Deactivate(t) \/ Unsubscribe(t) \/ Free(t)

-----------------------------------------------------------------------------
Clients ==
  \/ Connect
  \/ \E c \in Fickle : Quit(c) \/ StopReading(c)
  \/ \E c \in Conn, r \in Request : Send(c, r)

Next ==
  \/ Clients
  \/ Call \/ (\E data \in BOOLEAN, late \in SUBSET main.rfds : Wake(data, late))
  \/ Loop \/ Edge \/ PpsSend
  \/ \E t \in Thread : DetachStep(t)

Spec == Init /\ [][Next]_vars

\* The system runs both threads, and pselect returns for what it waits for; no
\* device or PPS signal need ever wake them.
Fairness ==
  /\ WF_vars(Call \/ Wake(FALSE, {}) \/ Loop \/ DetachStep("main"))
  /\ WF_vars(PpsSend \/ DetachStep("pps"))

FairSpec == Spec /\ Fairness

\* The devices have data again and again.
ReportingSpec == FairSpec /\ WF_vars(Wake(TRUE, {}))

-----------------------------------------------------------------------------
(* Invariants.                                                             *)

TypeOK ==
  /\ backlog \in Seq(Conn) /\ made \in Nat
  /\ health \in [Conn -> {"reads", "stuck", "quit"}]
  /\ inbox \in [Conn -> Request \cup {NoRequest}]
  /\ file \in [Fd -> Conn \cup {Closed, Other}]
  /\ fd \in [Slot -> Fd \cup {UNALLOCATED_FD}]
  /\ active \in [Slot -> BOOLEAN]
  /\ policy \in [Slot -> SUBSET Flag]
  /\ all_fds \subseteq Fd /\ maxfd \in Fd
  /\ main \in [at : {"select", "wait", "accept", "install", "raise", "store", "fill",
                     "activate", "greet", "report", "test", "recv", "stamp", "handle",
                     "detach"} \cup Inside,
               slot : Slot, phase : {"greet", "report", "test"}, data : BOOLEAN,
               rfds : SUBSET Fd, fd : Fd, req : Request \cup {NoRequest}]
  /\ pps \in [at : {"wait", "send", "detach"} \cup Inside, slot : Slot]
  /\ copy \in [Thread -> SUBSET Fd]
  /\ high \in [Thread -> Fd]
  /\ race \subseteq Race

\* Two sessions never have the same descriptor, however the threads get across,
\* except while one thread still has to free the slot whose descriptor accept
\* gave out again.  (0 stands for a slot that accept is filling.)
OneOwner ==
  \A s, t \in Slot :
    s # t /\ fd[s] > 0 /\ fd[s] = fd[t] => Detaching(s) \/ Detaching(t)

\* An active slot has a descriptor, and a slot with any flag but pps is active
\* or being freed: the stores of the two threads to a slot may come in any
\* order, unless the PPS thread was inside detach_client of the slot, or had just
\* freed it, when the main thread stored a request's time or policy, or the new
\* client's fd or time.
SlotsAreWhole ==
  race \cap {"request", "fill"} = {} =>
    \A s \in Slot : /\ active[s] => fd[s] # UNALLOCATED_FD
                    /\ policy[s] \ {"pps"} # {} => active[s] \/ Detaching(s)

\* Every client is in the set that select is given, unless the threads got
\* across in all_fds.  (Whether maxfd reaches it is in RequestsAreRead.)
EveryoneIsWatched ==
  "bits" \notin race =>
    \A s \in Slot : active[s] /\ fd[s] > 0 => fd[s] \in all_fds \/ Detaching(s)

-----------------------------------------------------------------------------
(* What a step may not do, and what must happen.                           *)

\* The daemon has a reason to close the connection of slot s.
Dropped(s) ==
  \/ ConnOf(fd[s]) \in Conn /\ health[ConnOf(fd[s])] # "reads"
  \/ "watcher" \notin policy[s]

\* A step in which one of the threads closes the descriptor of slot s.
Ends(s) ==
  \/ main.at = "detach" /\ main'.at = "clear" /\ main.slot = s
  \/ pps.at = "detach" /\ pps'.at = "clear" /\ pps.slot = s

\* A session ends only when its client closed it, does not read or does not
\* watch and may time out, unless the slot or the descriptor changed hands while
\* a thread was about to use it.
NoOneElseIsDropped ==
  [][race \cap {"request", "reuse"} = {} =>
       \A s \in Slot : Ends(s) => Dropped(s)]_vars

\* What a connected client sends is read, or its connection ends: pselect waits
\* for it and is given a maxfd that reaches it.  Not so when the PPS thread's
\* update of all_fds crossed with the main thread's, when the main thread used
\* or raised maxfd while the PPS thread counted it anew from 0, and when the PPS
\* thread freed the slot as the main thread filled it.
RequestsAreRead ==
  \A c \in Conn :
    []<>(\/ inbox[c] = NoRequest \/ c \in Range(backlog)
         \/ race \cap {"bits", "maxfd", "fill"} # {})

\* "always be open to new client connections", whatever the threads did to
\* all_fds and to the slots, as long as there are descriptors, unless pselect was
\* called with a maxfd that the PPS thread was counting.
AlwaysOpen ==
  \A c \in Conn : []<>(c \notin Range(backlog) \/ FreeFd = {} \/ "maxfd" \in race)

-----------------------------------------------------------------------------
(* Claims of the documentation that do not hold.                           *)

\* "gpsd drops these clients if they fail to read data long enough for the
\* outbound socket write buffer to fill."
StuckAreDropped ==
  \A s \in Slot :
    []<>~(/\ Subscribed(s, {"json"})
          /\ ConnOf(fd[s]) \in Conn /\ health[ConnOf(fd[s])] = "stuck")
=============================================================================
