--------------------------- MODULE BeaconThreads ---------------------------
(***************************************************************************)
(* What runs concurrently in one IRtestWLAN process: the main thread in    *)
(* schedule(), the thread that reads positions from gpsd (main.cc), and    *)
(* the handler send_beacon of SIGALRM, which interrupts either of them.    *)
(* They share g_speed and g_gps under a mutex, and m_speed, m_gps and      *)
(* q_gps, which the mutex protects only while get_gps writes them.         *)
(*                                                                         *)
(* A context is a thread or the handler running on top of it; a thread     *)
(* makes no step while its handler runs.  signal() masks SIGALRM in the    *)
(* thread that handles it, not in the other.  Which of the two is chosen   *)
(* is the system's: POSIX allows either (Linux prefers the main thread).   *)
(* The handler copies q_gps and prints, and may find the locks of malloc   *)
(* and stdio taken by a thread that was interrupted inside them.           *)
(*                                                                         *)
(* A position fix is one value; a variable that holds a fix has a field    *)
(* for each word the program copies, so that a reader can see a mixture.   *)
(* q_gps is its length: SpeedChange looks only at whether it is two.       *)
(***************************************************************************)
EXTENDS Naturals

CONSTANTS
  Fix,       \* the positions and speeds gpsd reports, each a value
  MaxQueue   \* a length of q_gps that stands for every greater one

ASSUME QueueAssumption == MaxQueue \in Nat /\ MaxQueue > 2
ASSUME FixAssumption == Fix # {}

VARIABLES
  pc,       \* where each context is
  mutex,    \* the context that holds the mutex, or "free"
  fix,      \* what the gps thread last read from gpsd
  g,        \* g_speed and g_gps
  m,        \* m_speed and m_gps
  qsize,    \* q_gps.size()
  msg,      \* the position a context has put into its message
  alarm,    \* SIGALRM is pending
  crashed,  \* the process died of the race on q_gps
  hung,     \* the handlers that wait for a lock of malloc or stdio
  raced,    \* history: two contexts were in q_gps at once
  onGps,    \* history: a handler has run on the gps thread
  disturbed \* history: a handler ran while the main thread used m_gps

shared == <<mutex, fix, g, m, qsize>>
history == <<raced, onGps, disturbed>>
vars == <<pc, shared, msg, alarm, crashed, hung, history>>

Thread == {"main", "gps"}
Handler == {"main_sig", "gps_sig"}
Context == Thread \cup Handler

HandlerOf == [t \in Thread |-> IF t = "main" THEN "main_sig" ELSE "gps_sig"]
Other == [h \in Handler |-> IF h = "main_sig" THEN "gps_sig" ELSE "main_sig"]

Field == {"speed", "x", "y"}
Unset == "unset"

\* Where a context can be: in the critical section; in q_gps, which the
\* handler tests and pops, pushes to, and at last tests and copies; and where
\* a thread, or a handler, may be inside malloc or stdio.
Critical == {"speed", "x", "y", "unlock"}
Modifying == {"pop", "push"}
InQueue == Modifying \cup {"speedx"}
Allocating == {"idle", "open", "wait", "readx", "send"}
Allocates == {"push", "speedx", "send"}
Label == Critical \cup InQueue \cup
  {"off", "idle", "open", "wait", "done", "lock", "readx", "ready", "speedx", "send"}

Snapshot == [Field -> Fix]
Message == [x : Fix \cup {Unset}, y : Fix \cup {Unset}, speed : BOOLEAN]
Blank == [x |-> Unset, y |-> Unset, speed |-> FALSE]

Init ==
  /\ pc = [c \in Context |->
             IF c = "main" THEN "idle" ELSE IF c = "gps" THEN "open" ELSE "off"]
  /\ mutex = "free"
  /\ fix \in Fix
  /\ g = [f \in Field |-> fix] /\ m = g
  /\ qsize = 0
  /\ msg = [c \in Context |-> Blank]
  /\ alarm = FALSE /\ crashed = FALSE /\ hung = {}
  /\ raced = FALSE /\ onGps = FALSE /\ disturbed = FALSE

\* The context c is at the label, and not interrupted; it goes on to another.
At(c, label) ==
  /\ ~crashed /\ c \notin hung
  /\ pc[c] = label
  /\ c \in Thread => pc[HandlerOf[c]] = "off"

GoTo(c, label) == pc' = [pc EXCEPT ![c] = label]

-----------------------------------------------------------------------------
(* The critical sections: get_gps, and the update of g_* in gps_thread.    *)

\* Mutant: get_gps reads without the mutex, only the gps thread locks it.
LockOnlyInGps(c) ==
  /\ At(c, "lock")
  /\ IF c = "gps" THEN mutex = "free" /\ mutex' = c ELSE UNCHANGED mutex
  /\ GoTo(c, "speed")
  /\ UNCHANGED <<fix, g, m, qsize, msg, alarm, crashed, hung, history>>

\* Mutant: a lock that its own thread can take again.
LockRecursive(c) ==
  /\ At(c, "lock")
  /\ \/ mutex = "free"
     \/ mutex \in Thread /\ c = HandlerOf[mutex]
  /\ mutex' = c
  /\ GoTo(c, "speed")
  /\ UNCHANGED <<fix, g, m, qsize, msg, alarm, crashed, hung, history>>

Lock(c) ==
  /\ At(c, "lock")
  /\ mutex = "free"
  /\ mutex' = c
  /\ GoTo(c, "speed")
  /\ UNCHANGED <<fix, g, m, qsize, msg, alarm, crashed, hung, history>>

\* One word is copied: by the gps thread into g, by the others from g to m.
Copy(c, field, next) ==
  /\ At(c, field)
  /\ IF c = "gps" THEN g' = [g EXCEPT ![field] = fix] /\ UNCHANGED m
                  ELSE m' = [m EXCEPT ![field] = g[field]] /\ UNCHANGED g
  /\ GoTo(c, next)
  /\ UNCHANGED <<mutex, fix, qsize, msg, alarm, crashed, hung, history>>

\* The gps thread waits for the next fix, main fills in the position it
\* refreshed, a handler goes on to q_gps.
AfterUnlock(c) ==
  IF c = "gps" THEN "wait" ELSE IF c = "main" THEN "readx" ELSE "pop"

\* Mutant: get_gps does not unlock when a handler calls it.
UnlockMissing(c) ==
  /\ At(c, "unlock")
  /\ mutex' = IF c \in Handler THEN mutex ELSE "free"
  /\ GoTo(c, AfterUnlock(c))
  /\ UNCHANGED <<fix, g, m, qsize, msg, alarm, crashed, hung>>
  /\ disturbed' = IF c = "main" THEN pc["gps_sig"] # "off" ELSE disturbed
  /\ UNCHANGED <<raced, onGps>>

Unlock(c) ==
  /\ At(c, "unlock")
  /\ mutex' = "free"
  /\ GoTo(c, AfterUnlock(c))
  /\ UNCHANGED <<fix, g, m, qsize, msg, alarm, crashed, hung>>
  /\ disturbed' = IF c = "main" THEN pc["gps_sig"] # "off" ELSE disturbed
  /\ UNCHANGED <<raced, onGps>>

CriticalSection(c) ==
  \/ Lock(c)
  \/ Copy(c, "speed", "x")
  \/ Copy(c, "x", "y")
  \/ Copy(c, "y", "unlock")
  \/ Unlock(c)

-----------------------------------------------------------------------------
(* gps_thread.                                                             *)

\* gps_open succeeds, or the thread ends.
GpsOpen ==
  /\ At("gps", "open")
  /\ GoTo("gps", "wait") \/ GoTo("gps", "done")
  /\ UNCHANGED <<shared, msg, alarm, crashed, hung, history>>

\* gps_read returns a valid fix; readings without one change nothing.
GpsFix(f) ==
  /\ At("gps", "wait")
  /\ fix' = f
  /\ GoTo("gps", "lock")
  /\ UNCHANGED <<mutex, g, m, qsize, msg, alarm, crashed, hung, history>>

-----------------------------------------------------------------------------
(* The main thread: recv_tun refreshes m_gps and puts it into a message;   *)
(* Forwarding uses the m_gps there is.                                     *)

RecvTun ==
  /\ At("main", "idle")
  /\ GoTo("main", "lock")
  /\ UNCHANGED <<shared, msg, alarm, crashed, hung, history>>

Forwarding ==
  /\ At("main", "idle")
  /\ GoTo("main", "readx")
  /\ disturbed' = (pc["gps_sig"] # "off")
  /\ UNCHANGED <<shared, msg, alarm, crashed, hung, raced, onGps>>

\* m_gps is read word by word, outside the mutex.
ReadX(c) ==
  /\ At(c, "readx")
  /\ msg' = [msg EXCEPT ![c] = [@ EXCEPT !.x = m.x]]
  /\ GoTo(c, "ready")
  /\ UNCHANGED <<shared, alarm, crashed, hung, history>>

ReadY(c) ==
  /\ At(c, "ready")
  /\ msg' = [msg EXCEPT ![c] = [@ EXCEPT !.y = m.y]]
  /\ GoTo(c, IF c = "main" THEN "send" ELSE "speedx")
  /\ UNCHANGED <<shared, alarm, crashed, hung, history>>

SendData ==
  /\ At("main", "send")
  /\ GoTo("main", "idle")
  /\ msg' = [msg EXCEPT !["main"] = Blank]
  /\ UNCHANGED <<shared, alarm, crashed, hung, history>>

-----------------------------------------------------------------------------
(* The timer and send_beacon.                                              *)

\* The interval timer expires; a signal already pending is not doubled.
Timer ==
  /\ ~crashed
  /\ alarm' = TRUE
  /\ UNCHANGED <<pc, shared, msg, crashed, hung, history>>

\* SIGALRM goes to a thread that exists and is not already handling it.
Deliver(t) ==
  /\ alarm
  /\ ~crashed
  /\ pc[HandlerOf[t]] = "off" /\ pc[t] # "done"
  /\ alarm' = FALSE
  /\ GoTo(HandlerOf[t], "lock")
  /\ msg' = [msg EXCEPT ![HandlerOf[t]] = Blank]
  /\ onGps' = (onGps \/ t = "gps")
  /\ disturbed' = TRUE
  /\ UNCHANGED <<shared, crashed, hung, raced>>

\* Two contexts in q_gps at once, of which one writes, are a data race on a
\* std::queue: two writers leave any length, a reader sees any, or the
\* process dies.
Racing(h) == pc[Other[h]] \in InQueue

QueueStep(h, size) ==
  IF Racing(h)
  THEN /\ raced' = TRUE
       /\ \/ qsize' \in (IF pc[Other[h]] \in Modifying THEN 0..MaxQueue ELSE {size})
             /\ UNCHANGED crashed
          \/ crashed' = TRUE /\ UNCHANGED qsize
  ELSE qsize' = size /\ UNCHANGED <<raced, crashed>>

\* Mutants: the queue is popped without a test; it is popped only when it is
\* longer than two.
PopAlways(h) ==
  /\ At(h, "pop")
  /\ QueueStep(h, qsize - 1)
  /\ GoTo(h, "push")
  /\ UNCHANGED <<mutex, fix, g, m, msg, alarm, hung, onGps, disturbed>>

PopLate(h) ==
  /\ At(h, "pop")
  /\ QueueStep(h, IF qsize > 2 THEN qsize - 1 ELSE qsize)
  /\ GoTo(h, "push")
  /\ UNCHANGED <<mutex, fix, g, m, msg, alarm, hung, onGps, disturbed>>

Pop(h) ==
  /\ At(h, "pop")
  /\ QueueStep(h, IF qsize = 2 THEN 1 ELSE qsize)
  /\ GoTo(h, "push")
  /\ UNCHANGED <<mutex, fix, g, m, msg, alarm, hung, onGps, disturbed>>

Push(h) ==
  /\ At(h, "push")
  /\ QueueStep(h, IF qsize = MaxQueue THEN MaxQueue ELSE qsize + 1)
  /\ GoTo(h, "readx")
  /\ UNCHANGED <<mutex, fix, g, m, msg, alarm, hung, onGps, disturbed>>

\* Only with two positions in the queue is src_speed_x written; SpeedChange
\* gets a copy of the queue.
SetSpeedX(h) ==
  /\ At(h, "speedx")
  /\ GoTo(h, "send")
  /\ IF pc[Other[h]] \in Modifying
     THEN /\ raced' = TRUE
          /\ \/ /\ \E speed \in BOOLEAN : msg' = [msg EXCEPT ![h] = [@ EXCEPT !.speed = speed]]
                /\ UNCHANGED crashed
             \/ crashed' = TRUE /\ UNCHANGED msg
     ELSE /\ msg' = [msg EXCEPT ![h] = [@ EXCEPT !.speed = (qsize = 2)]]
          /\ UNCHANGED <<raced, crashed>>
  /\ UNCHANGED <<shared, alarm, hung, onGps, disturbed>>

\* The handler needs a lock that its own thread, or one under a handler that
\* hangs already, was interrupted with: no handler that hangs goes on again.
Hang(h) ==
  /\ ~crashed /\ h \notin hung
  /\ pc[h] \in Allocates
  /\ \E t \in Thread : /\ pc[t] \in Allocating
                       /\ HandlerOf[t] \in hung \cup {h}
  /\ hung' = hung \cup {h}
  /\ UNCHANGED <<pc, shared, msg, alarm, crashed, history>>

SendBeacon(h) ==
  /\ At(h, "send")
  /\ GoTo(h, "off")
  /\ msg' = [msg EXCEPT ![h] = Blank]
  /\ UNCHANGED <<shared, alarm, crashed, hung, history>>

Main == RecvTun \/ Forwarding \/ CriticalSection("main")
        \/ ReadX("main") \/ ReadY("main") \/ SendData

Gps == GpsOpen \/ (\E f \in Fix : GpsFix(f)) \/ CriticalSection("gps")

SendBeaconHandler(h) ==
  CriticalSection(h) \/ Pop(h) \/ Push(h) \/ ReadX(h) \/ ReadY(h)
  \/ SetSpeedX(h) \/ SendBeacon(h)

Next ==
  \/ Main
  \/ Gps
  \/ \E h \in Handler : SendBeaconHandler(h) \/ Hang(h)
  \/ Timer
  \/ \E t \in Thread : Deliver(t)

Spec == Init /\ [][Next]_vars

\* The scheduler runs every context that can run, and a mutex that is free
\* again and again is not withheld from a waiting context for ever.  No
\* packet and no fix need come.
SchedulerFairness ==
  /\ \A t \in Thread : WF_vars(CriticalSection(t))
  /\ \A h \in Handler : WF_vars(SendBeaconHandler(h))
  /\ \A h \in Handler : SF_vars(Lock(h))

ScheduledSpec == Spec /\ SchedulerFairness

\* Besides, the threads get the mutex too and go on, the interval timer goes
\* off again and again, and its signal is delivered.
TimerFairness ==
  /\ \A t \in Thread : SF_vars(Lock(t))
  /\ WF_vars(ReadX("main") \/ ReadY("main") \/ SendData)
  /\ WF_vars(GpsOpen)
  /\ WF_vars(Timer) /\ WF_vars(\E t \in Thread : Deliver(t))

FairSpec == ScheduledSpec /\ TimerFairness

-----------------------------------------------------------------------------
(* Safety.                                                                 *)

\* Every variable holds what the program can store in it.
TypeOK ==
  /\ pc \in [Context -> Label]
  /\ mutex \in Context \cup {"free"}
  /\ fix \in Fix
  /\ g \in Snapshot /\ m \in Snapshot
  /\ qsize \in 0..MaxQueue
  /\ msg \in [Context -> Message]
  /\ alarm \in BOOLEAN /\ crashed \in BOOLEAN /\ hung \subseteq Handler
  /\ raced \in BOOLEAN /\ onGps \in BOOLEAN /\ disturbed \in BOOLEAN

\* The mutex is held by exactly the context in its critical section: no two
\* of the threads and handlers are in get_gps and gps_thread's update at once.
MutexOwnership ==
  \A c \in Context : pc[c] \in Critical <=> mutex = c

\* Whenever the mutex is free, the speed and the two coordinates of g_* come
\* from one fix, and so do those of m_*, whoever was interrupted where.
SnapshotConsistent ==
  mutex = "free" => \A f1, f2 \in Field : g[f1] = g[f2] /\ m[f1] = m[f2]

\* q_gps has more than two positions (and then grows with every beacon,
\* because pop waits for exactly two) only after two handlers were in it.
QueueBounded == qsize > 2 => raced

\* As long as no handler ran on the gps thread, every beacon carries one
\* position, and src_speed_x left unset only when it is the first.
BeaconWhole ==
  \A h \in Handler :
    pc[h] = "send" /\ ~onGps =>
      /\ msg[h].x = msg[h].y
      /\ ~msg[h].speed => qsize = 1

\* The position that recv_tun or Forwarding takes from m_gps is a mixture of
\* two fixes only if a handler ran in the meantime.
DataWhole ==
  pc["main"] = "send" /\ ~disturbed => msg["main"].x = msg["main"].y

-----------------------------------------------------------------------------
(* Progress.                                                               *)

\* The handler waits for the mutex that the thread under it holds.
SelfDeadlock ==
  \E t \in Thread : pc[HandlerOf[t]] = "lock" /\ mutex = t

\* The mutex is not recursive: nobody ever ends such a wait.
DeadlockIsForever == [][SelfDeadlock => SelfDeadlock']_vars

\* A handler that was started sends its beacon.  It waits for ever only for
\* the mutex, when some handler has interrupted a critical section of its own
\* thread; or for a lock of malloc or stdio, when the thread below it, or below
\* another handler that hangs, was interrupted there; or the process died.
HandlersFinish ==
  \A h \in Handler : []<>(pc[h] = "off" \/ SelfDeadlock \/ h \in hung \/ crashed)

\* "after the first time, how long to run next time" (ir.cc:177): as long as
\* the process lives, and no handler hangs in malloc or stdio, beacons are sent
\* again and again.
BeaconsForever == []<>(crashed \/ hung # {} \/ \E h \in Handler : pc[h] = "send")
=============================================================================
