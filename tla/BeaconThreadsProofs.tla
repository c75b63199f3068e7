------------------------- MODULE BeaconThreadsProofs ------------------------
(***************************************************************************)
(* Proofs about the threads of one process: who holds the mutex, what the  *)
(* snapshots it protects contain, and that a self-deadlock is final.       *)
(***************************************************************************)
EXTENDS BeaconThreads, TLAPS

Copier == {"main", "main_sig", "gps_sig"}

Uniform(s) == s["speed"] = s["x"] /\ s["x"] = s["y"]

(* How far the gps thread has written g, and a copier m.                   *)
Writing ==
  /\ pc["gps"] \notin {"x", "y"} => Uniform(g)
  /\ pc["gps"] = "x" => g["x"] = g["y"] /\ g["speed"] = fix
  /\ pc["gps"] = "y" => g["speed"] = fix /\ g["x"] = fix

Copying ==
  /\ (\A c \in Copier : pc[c] \notin {"x", "y"}) => Uniform(m)
  /\ \A c \in Copier : pc[c] = "x" => m["x"] = m["y"] /\ m["speed"] = g["speed"]
  /\ \A c \in Copier : pc[c] = "y" => m["speed"] = g["speed"] /\ m["x"] = g["x"]

LockInv == TypeOK /\ MutexOwnership /\ Writing /\ Copying

LEMMA InitLock == Init => LockInv
<1> SUFFICES ASSUME Init PROVE LockInv
  OBVIOUS
<1> USE DEF Init, Context, Thread, Handler
<1>1. /\ pc \in [Context -> {"idle", "open", "off"}]
      /\ g \in Snapshot /\ m = g /\ Uniform(g)
  BY DEF Snapshot, Field, Uniform
<1>2. Blank \in Message
  BY DEF Blank, Message
<1>3. TypeOK
  <2>1. pc \in [Context -> Label]
    BY <1>1 DEF Label
  <2>2. mutex \in Context \cup {"free"} /\ fix \in Fix
    OBVIOUS
  <2>3. qsize \in 0..MaxQueue
    BY QueueAssumption
  <2>4. msg \in [Context -> Message]
    BY <1>2
  <2>5. /\ alarm \in BOOLEAN /\ crashed \in BOOLEAN /\ hung \subseteq Handler
        /\ raced \in BOOLEAN /\ onGps \in BOOLEAN /\ disturbed \in BOOLEAN
    OBVIOUS
  <2> QED
    BY <1>1, <2>1, <2>2, <2>3, <2>4, <2>5 DEF TypeOK
<1>4. MutexOwnership
  BY <1>1 DEF MutexOwnership, Critical
<1>5. Writing /\ Copying
  BY <1>1 DEF Writing, Copying, Copier
<1> QED
  BY <1>3, <1>4, <1>5 DEF LockInv

(* A context outside the critical section goes on to a label outside it,   *)
(* and nobody touches the mutex or what it protects.                       *)
Outside(c, label) ==
  /\ pc[c] \notin Critical /\ label \notin Critical /\ label \in Label
  /\ pc' = [pc EXCEPT ![c] = label]
  /\ UNCHANGED <<mutex, g, m>>
  /\ fix' \in Fix /\ (c # "gps" => fix' = fix)
  /\ qsize' \in 0..MaxQueue /\ msg' \in [Context -> Message]
  /\ alarm' \in BOOLEAN /\ crashed' \in BOOLEAN /\ hung' \subseteq Handler
  /\ raced' \in BOOLEAN /\ onGps' \in BOOLEAN /\ disturbed' \in BOOLEAN

LEMMA OutsideStep ==
  ASSUME LockInv, NEW c \in Context, NEW label, Outside(c, label)
  PROVE  LockInv'
<1> USE DEF LockInv
<1>1. TypeOK'
  BY DEF TypeOK, Outside
<1>2. /\ \A d \in Context : pc'[d] = IF d = c THEN label ELSE pc[d]
      /\ {"x", "y"} \subseteq Critical
  BY DEF Outside, TypeOK, Critical
<1>3. MutexOwnership'
  BY <1>2 DEF MutexOwnership, Outside
<1>4. Copier \subseteq Context /\ "gps" \in Context
  BY DEF Copier, Context, Thread, Handler
<1>5. Writing'
  BY <1>2, <1>4 DEF Writing, Outside, Uniform
<1>6. Copying'
  BY <1>2, <1>4 DEF Copying, Outside, Uniform
<1> QED
  BY <1>1, <1>3, <1>5, <1>6

(* A step in q_gps leaves a length the model has, whoever else is there.   *)
LEMMA QueueStepType ==
  ASSUME TypeOK, NEW h, NEW size \in 0..MaxQueue, QueueStep(h, size)
  PROVE  qsize' \in 0..MaxQueue /\ crashed' \in BOOLEAN /\ raced' \in BOOLEAN
<1>1. CASE Racing(h)
  <2>1. raced' = TRUE /\ (qsize' \in 0..MaxQueue \/ qsize' = qsize)
    BY <1>1 DEF QueueStep
  <2>2. crashed' = crashed \/ crashed' = TRUE
    BY <1>1 DEF QueueStep
  <2> QED
    BY <2>1, <2>2 DEF TypeOK
<1>2. CASE ~Racing(h)
  <2>1. qsize' = size /\ raced' = raced /\ crashed' = crashed
    BY <1>2 DEF QueueStep
  <2> QED
    BY <2>1 DEF TypeOK
<1> QED
  BY <1>1, <1>2

(* The steps that touch neither the mutex nor what it protects.            *)
LEMMA OutsideSteps ==
  ASSUME LockInv, NEW c \in Context,
         \/ RecvTun \/ Forwarding \/ SendData \/ GpsOpen
         \/ \E f \in Fix : GpsFix(f)
         \/ ReadX(c) \/ ReadY(c)
         \/ c \in Handler /\ (Pop(c) \/ Push(c) \/ SetSpeedX(c) \/ SendBeacon(c))
         \/ \E t \in Thread : Deliver(t)
  PROVE  LockInv'
<1> USE DEF shared, history, At, GoTo, Critical, InQueue, Modifying, Label
<1>t. /\ TypeOK /\ "main" \in Context /\ "gps" \in Context
      /\ "x" \in Field /\ "y" \in Field /\ Blank \in Message
  BY DEF LockInv, Context, Thread, Handler, Field, Message, Blank
<1>h. Handler \subseteq Context /\ \A h \in Handler : h # "gps" /\ h # "main"
  BY DEF Handler, Context
<1>1. CASE RecvTun
  <2>1. Outside("main", "lock")
    BY <1>1, <1>t DEF RecvTun, Outside, TypeOK
  <2> QED BY <2>1, <1>t, OutsideStep
<1>2. CASE Forwarding
  <2>1. Outside("main", "readx")
    BY <1>2, <1>t DEF Forwarding, Outside, TypeOK
  <2> QED BY <2>1, <1>t, OutsideStep
<1>3. CASE SendData
  <2>1. Outside("main", "idle")
    BY <1>3, <1>t DEF SendData, Outside, TypeOK
  <2> QED BY <2>1, <1>t, OutsideStep
<1>4. CASE GpsOpen
  <2>1. Outside("gps", "wait") \/ Outside("gps", "done")
    BY <1>4, <1>t DEF GpsOpen, Outside, TypeOK
  <2> QED BY <2>1, <1>t, OutsideStep
<1>5. CASE \E f \in Fix : GpsFix(f)
  <2>1. Outside("gps", "lock")
    BY <1>5, <1>t DEF GpsFix, Outside, TypeOK
  <2> QED BY <2>1, <1>t, OutsideStep
<1>6. CASE ReadX(c)
  <2>1. [msg[c] EXCEPT !.x = m.x] \in Message
    BY <1>t DEF TypeOK, Message, Snapshot
  <2>2. msg' \in [Context -> Message]
    BY <2>1, <1>6, <1>t DEF ReadX, TypeOK
  <2>3. Outside(c, "ready")
    BY <1>6, <1>t, <2>2 DEF ReadX, Outside, TypeOK
  <2> QED BY <2>3, OutsideStep
<1>7. CASE ReadY(c)
  <2>1. [msg[c] EXCEPT !.y = m.y] \in Message
    BY <1>t DEF TypeOK, Message, Snapshot
  <2>2. msg' \in [Context -> Message]
    BY <2>1, <1>7, <1>t DEF ReadY, TypeOK
  <2>3. Outside(c, IF c = "main" THEN "send" ELSE "speedx")
    BY <1>7, <1>t, <2>2 DEF ReadY, Outside, TypeOK
  <2> QED BY <2>3, OutsideStep
<1>8. CASE c \in Handler /\ Pop(c)
  <2>1. qsize' \in 0..MaxQueue /\ crashed' \in BOOLEAN /\ raced' \in BOOLEAN
    <3>1. (IF qsize = 2 THEN 1 ELSE qsize) \in 0..MaxQueue
      BY <1>t, QueueAssumption DEF TypeOK
    <3>2. QueueStep(c, IF qsize = 2 THEN 1 ELSE qsize)
      BY <1>8 DEF Pop
    <3> QED
      BY <1>t, <3>1, <3>2, QueueStepType
  <2>2. Outside(c, "push")
    BY <1>8, <1>t, <1>h, <2>1 DEF Pop, Outside, TypeOK
  <2> QED BY <2>2, OutsideStep
<1>9. CASE c \in Handler /\ Push(c)
  <2>1. qsize' \in 0..MaxQueue /\ crashed' \in BOOLEAN /\ raced' \in BOOLEAN
    <3>1. (IF qsize = MaxQueue THEN MaxQueue ELSE qsize + 1) \in 0..MaxQueue
      BY <1>t, QueueAssumption DEF TypeOK
    <3>2. QueueStep(c, IF qsize = MaxQueue THEN MaxQueue ELSE qsize + 1)
      BY <1>9 DEF Push
    <3> QED
      BY <1>t, <3>1, <3>2, QueueStepType
  <2>2. Outside(c, "readx")
    BY <1>9, <1>t, <1>h, <2>1 DEF Push, Outside, TypeOK
  <2> QED BY <2>2, OutsideStep
<1>10. CASE c \in Handler /\ SetSpeedX(c)
  <2>1. \A speed \in BOOLEAN : [msg[c] EXCEPT !.speed = speed] \in Message
    BY <1>t DEF TypeOK, Message
  <2>2. msg' = msg \/ \E speed \in BOOLEAN : msg' = [msg EXCEPT ![c] = [@ EXCEPT !.speed = speed]]
    BY <1>10 DEF SetSpeedX
  <2>3. msg' \in [Context -> Message]
    BY <2>1, <2>2, <1>t DEF TypeOK
  <2>4. raced' \in BOOLEAN /\ crashed' \in BOOLEAN
    <3>1. CASE pc[Other[c]] \in Modifying
      <4> HIDE DEF Modifying
      <4>1. raced' = TRUE /\ (crashed' = TRUE \/ crashed' = crashed)
        BY <1>10, <3>1 DEF SetSpeedX
      <4> QED
        BY <4>1, <1>t DEF TypeOK
    <3>2. CASE pc[Other[c]] \notin Modifying
      <4> HIDE DEF Modifying
      <4>1. raced' = raced /\ crashed' = crashed
        BY <1>10, <3>2 DEF SetSpeedX
      <4> QED
        BY <4>1, <1>t DEF TypeOK
    <3> QED
      BY <3>1, <3>2
  <2>5. Outside(c, "send")
    BY <1>10, <1>t, <1>h, <2>3, <2>4 DEF SetSpeedX, Outside, TypeOK
  <2> QED BY <2>5, OutsideStep
<1>11. CASE c \in Handler /\ SendBeacon(c)
  <2>1. Outside(c, "off")
    BY <1>11, <1>t, <1>h DEF SendBeacon, Outside, TypeOK
  <2> QED BY <2>1, OutsideStep
<1>12. CASE \E t \in Thread : Deliver(t)
  <2>1. PICK t \in Thread : Deliver(t)
    BY <1>12
  <2>2. HandlerOf[t] \in Handler /\ HandlerOf[t] \in Context
    BY <1>h DEF HandlerOf, Thread, Handler
  <2>3. Outside(HandlerOf[t], "lock")
    BY <2>1, <2>2, <1>t, <1>h DEF Deliver, Outside, TypeOK
  <2> QED BY <2>2, <2>3, OutsideStep
<1> QED
  BY <1>1, <1>2, <1>3, <1>4, <1>5, <1>6, <1>7, <1>8, <1>9, <1>10, <1>11, <1>12

(* The critical sections: entering, copying one word, leaving.             *)
LEMMA LockStep ==
  ASSUME LockInv, NEW c \in Context, Lock(c)
  PROVE  LockInv'
<1> USE DEF LockInv, Lock, At, GoTo, history
<1>1. TypeOK'
  BY DEF TypeOK, Label, Critical
<1>2. /\ \A d \in Context : pc'[d] = IF d = c THEN "speed" ELSE pc[d]
      /\ \A d \in Context : pc[d] \notin Critical
      /\ pc[c] = "lock" /\ mutex' = c /\ UNCHANGED <<fix, g, m>>
      /\ c # "free"
  BY DEF TypeOK, MutexOwnership, Context, Thread, Handler
<1>3. MutexOwnership'
  BY <1>2 DEF MutexOwnership, Critical
<1>4. Copier \subseteq Context /\ "gps" \in Context
  BY DEF Copier, Context, Thread, Handler
<1>5. Writing' /\ Copying'
  BY <1>2, <1>4 DEF Writing, Copying, Uniform
<1> QED
  BY <1>1, <1>3, <1>5

LEMMA UnlockStep ==
  ASSUME LockInv, NEW c \in Context, Unlock(c)
  PROVE  LockInv'
<1> USE DEF LockInv, Unlock, At, GoTo
<1>0. AfterUnlock(c) \in Label /\ AfterUnlock(c) \notin Critical
  BY DEF AfterUnlock, Label, Critical, InQueue, Modifying
<1>1. TypeOK'
  BY <1>0 DEF TypeOK
<1>2. /\ \A d \in Context : pc'[d] = IF d = c THEN AfterUnlock(c) ELSE pc[d]
      /\ \A d \in Context : d # c => pc[d] \notin Critical
      /\ pc[c] = "unlock" /\ mutex' = "free" /\ UNCHANGED <<fix, g, m>>
      /\ \A d \in Context : d # "free"
  BY DEF TypeOK, MutexOwnership, Context, Thread, Handler, Critical
<1>3. MutexOwnership'
  BY <1>0, <1>2 DEF MutexOwnership
<1>4. Copier \subseteq Context /\ "gps" \in Context /\ {"x", "y"} \subseteq Critical
  BY DEF Copier, Context, Thread, Handler, Critical
<1>5. Writing'
  BY <1>0, <1>2, <1>4 DEF Writing, Uniform
<1>6. Copying'
  BY <1>0, <1>2, <1>4 DEF Copying, Uniform
<1> QED
  BY <1>1, <1>3, <1>5, <1>6

LEMMA CopyStep ==
  ASSUME LockInv, NEW c \in Context, NEW field, NEW next, Copy(c, field, next),
         <<field, next>> \in {<<"speed", "x">>, <<"x", "y">>, <<"y", "unlock">>}
  PROVE  LockInv'
<1> USE DEF LockInv, Copy, At, GoTo, history
<1>0. field \in Field /\ field \in Critical /\ next \in Label /\ next \in Critical
  BY DEF Field, Critical, Label
<1>1. /\ c = "gps" => g' = [g EXCEPT ![field] = fix] /\ m' = m
      /\ c # "gps" => m' = [m EXCEPT ![field] = g[field]] /\ g' = g
      /\ pc[c] = field /\ mutex' = mutex /\ fix' = fix
  OBVIOUS
<1>2. g' \in Snapshot /\ m' \in Snapshot
  BY <1>0, <1>1 DEF TypeOK, Snapshot
<1>3. TypeOK'
  BY <1>0, <1>2 DEF TypeOK
<1>4. /\ \A d \in Context : pc'[d] = IF d = c THEN next ELSE pc[d]
      /\ \A d \in Context : d # c => pc[d] \notin Critical
  BY <1>0 DEF TypeOK, MutexOwnership
<1>5. MutexOwnership'
  BY <1>0, <1>1, <1>4 DEF MutexOwnership
<1>6. /\ Copier \subseteq Context /\ "gps" \in Context /\ {"x", "y"} \subseteq Critical
      /\ "gps" \notin Copier /\ \A d \in Context : d # "gps" => d \in Copier
      /\ "unlock" \notin {"x", "y"}
  BY DEF Copier, Context, Thread, Handler, Critical
<1>7. CASE c = "gps"
  <2>1. \A f \in Field : g'[f] = IF f = field THEN fix ELSE g[f]
    BY <1>1, <1>7 DEF TypeOK, Snapshot
  <2>2. \A d \in Copier : pc[d] \notin {"x", "y"} /\ pc'[d] \notin {"x", "y"}
    BY <1>4, <1>6, <1>7
  <2>3. Copying'
    BY <1>1, <1>7, <2>2 DEF Copying, Uniform
  <2>4. Writing'
    BY <1>1, <1>4, <1>6, <1>7, <2>1 DEF Writing, Uniform, Field
  <2> QED
    BY <1>3, <1>5, <2>3, <2>4
<1>8. CASE c # "gps"
  <2>1. \A f \in Field : m'[f] = IF f = field THEN g[f] ELSE m[f]
    BY <1>1, <1>8 DEF TypeOK, Snapshot
  <2>2. \A d \in Copier : d # c => pc[d] \notin {"x", "y"} /\ pc'[d] \notin {"x", "y"}
    BY <1>4, <1>6
  <2>3. pc["gps"] \notin {"x", "y"} /\ Uniform(g)
    BY <1>4, <1>6, <1>8 DEF Writing
  <2>4. Writing'
    BY <1>1, <1>4, <1>6, <1>8, <2>3 DEF Writing, Uniform
  <2>5. ASSUME field = "speed", next = "x" PROVE Copying'
    BY <1>1, <1>4, <1>6, <1>8, <2>1, <2>2, <2>3, <2>5 DEF Copying, Uniform, Field
  <2>6. ASSUME field = "x", next = "y" PROVE Copying'
    BY <1>1, <1>4, <1>6, <1>8, <2>1, <2>2, <2>3, <2>6 DEF Copying, Uniform, Field
  <2>7. ASSUME field = "y", next = "unlock" PROVE Copying'
    BY <1>1, <1>4, <1>6, <1>8, <2>1, <2>2, <2>3, <2>7 DEF Copying, Uniform, Field
  <2>8. \/ field = "speed" /\ next = "x"
        \/ field = "x" /\ next = "y"
        \/ field = "y" /\ next = "unlock"
    OBVIOUS
  <2> QED
    BY <1>3, <1>5, <2>4, <2>5, <2>6, <2>7, <2>8
<1> QED
  BY <1>7, <1>8

LEMMA NextLock == LockInv /\ [Next]_vars => LockInv'
<1> SUFFICES ASSUME LockInv, [Next]_vars PROVE LockInv'
  OBVIOUS
<1>t. "main" \in Context /\ "gps" \in Context /\ Handler \subseteq Context
  BY DEF Context, Thread, Handler
<1>1. ASSUME NEW c \in Context, CriticalSection(c) PROVE LockInv'
  <2>1. CASE Lock(c)
    BY <2>1, LockStep
  <2>2. CASE Unlock(c)
    BY <2>2, UnlockStep
  <2>3. CASE Copy(c, "speed", "x")
    BY <2>3, CopyStep
  <2>4. CASE Copy(c, "x", "y")
    BY <2>4, CopyStep
  <2>5. CASE Copy(c, "y", "unlock")
    BY <2>5, CopyStep
  <2> QED
    BY <1>1, <2>1, <2>2, <2>3, <2>4, <2>5 DEF CriticalSection
<1>2. CASE Main
  <2>1. CASE CriticalSection("main")
    BY <2>1, <1>t, <1>1
  <2>2. CASE RecvTun \/ Forwarding \/ ReadX("main") \/ ReadY("main") \/ SendData
    BY <2>2, <1>t, OutsideSteps
  <2> QED
    BY <1>2, <2>1, <2>2 DEF Main
<1>3. CASE Gps
  <2>1. CASE CriticalSection("gps")
    BY <2>1, <1>t, <1>1
  <2>2. CASE GpsOpen \/ \E f \in Fix : GpsFix(f)
    BY <2>2, <1>t, OutsideSteps
  <2> QED
    BY <1>3, <2>1, <2>2 DEF Gps
<1>4. ASSUME NEW h \in Handler, SendBeaconHandler(h) PROVE LockInv'
  <2>1. CASE CriticalSection(h)
    BY <2>1, <1>t, <1>1
  <2>2. CASE \/ ReadX(h) \/ ReadY(h)
             \/ Pop(h) \/ Push(h) \/ SetSpeedX(h) \/ SendBeacon(h)
    BY <2>2, <1>t, OutsideSteps
  <2> QED
    BY <1>4, <2>1, <2>2 DEF SendBeaconHandler
<1>5. CASE Timer
  BY <1>5 DEF Timer, LockInv, TypeOK, MutexOwnership, Writing, Copying, Uniform,
              shared, history
<1>6. CASE \E t \in Thread : Deliver(t)
  BY <1>6, <1>t, OutsideSteps
<1>7. CASE UNCHANGED vars
  BY <1>7 DEF vars, LockInv, TypeOK, MutexOwnership, Writing, Copying, Uniform,
              shared, history
<1>8. ASSUME NEW h \in Handler, Hang(h) PROVE LockInv'
  BY <1>8 DEF Hang, LockInv, TypeOK, MutexOwnership, Writing, Copying, Uniform,
              shared, history
<1> QED
  BY <1>2, <1>3, <1>4, <1>5, <1>6, <1>7, <1>8 DEF Next

LEMMA Locking == Spec => []LockInv
BY InitLock, NextLock, PTL DEF Spec

(* Every variable holds a value of its type.                               *)
THEOREM TypeCorrect == Spec => []TypeOK
<1>1. LockInv => TypeOK
  BY DEF LockInv
<1> QED
  BY <1>1, Locking, PTL

(* The mutex of main.cc is held by exactly the thread or handler that is   *)
(* between its lock and its unlock.                                        *)
THEOREM MutexIsOwned == Spec => []MutexOwnership
<1>1. LockInv => MutexOwnership
  BY DEF LockInv
<1> QED
  BY <1>1, Locking, PTL

(* Whenever the mutex is free, g_* hold one fix and m_* hold one fix.      *)
THEOREM SnapshotsAreConsistent == Spec => []SnapshotConsistent
<1>1. LockInv => SnapshotConsistent
  <2> SUFFICES ASSUME LockInv, mutex = "free"
               PROVE  \A f1, f2 \in Field : g[f1] = g[f2] /\ m[f1] = m[f2]
    BY DEF SnapshotConsistent
  <2>1. \A c \in Context : pc[c] \notin Critical
    BY DEF LockInv, MutexOwnership, Context, Thread, Handler
  <2>2. Uniform(g) /\ Uniform(m)
    BY <2>1 DEF LockInv, Writing, Copying, Copier, Context, Thread, Handler, Critical
  <2> QED
    BY <2>2 DEF Uniform, Field
<1> QED
  BY <1>1, Locking, PTL

(* Once send_beacon has interrupted a critical section of its own thread   *)
(* it waits for a mutex nobody will release.                               *)
THEOREM DeadlockIsFinal == Spec => DeadlockIsForever
<1>1. LockInv /\ [Next]_vars => (SelfDeadlock => SelfDeadlock')
  <2> SUFFICES ASSUME LockInv, [Next]_vars, NEW t \in Thread, NEW w,
                      w = HandlerOf[t], pc[w] = "lock", mutex = t
               PROVE  pc'[w] = "lock" /\ mutex' = t
    BY DEF SelfDeadlock
  <2>t. /\ w \in Handler /\ w # "main" /\ w # "gps" /\ t # "free"
        /\ Context = {"main", "gps", "main_sig", "gps_sig"}
        /\ Handler \subseteq Context /\ pc \in [Context -> Label]
    BY DEF Context, Thread, Handler, HandlerOf, LockInv, TypeOK
  <2>1. ASSUME NEW c \in Context, CriticalSection(c)
        PROVE  pc'[w] = "lock" /\ mutex' = t
    <3>1. ~Lock(c)
      BY <2>t DEF Lock
    <3>2. pc[c] \in Critical
      BY <2>1, <3>1 DEF CriticalSection, Copy, Unlock, At, Critical
    <3>3. c = t
      BY <3>2 DEF LockInv, MutexOwnership
    <3>4. pc[w] = "off"
      BY <2>1, <3>1, <3>3 DEF CriticalSection, Copy, Unlock, At
    <3> QED
      BY <3>4
  <2>2. ASSUME NEW c \in Context, NEW label, pc[c] # "lock", GoTo(c, label),
               mutex' = mutex
        PROVE  pc'[w] = "lock" /\ mutex' = t
    BY <2>2, <2>t DEF GoTo
  <2>3. CASE Main
    <3>1. CASE CriticalSection("main")
      BY <3>1, <2>1, <2>t
    <3>2. CASE RecvTun
      BY <3>2, <2>2, <2>t DEF RecvTun, At, shared
    <3>3. CASE Forwarding
      BY <3>3, <2>2, <2>t DEF Forwarding, At, shared
    <3>4. CASE ReadX("main")
      BY <3>4, <2>2, <2>t DEF ReadX, At, shared
    <3>5. CASE ReadY("main")
      BY <3>5, <2>2, <2>t DEF ReadY, At, shared
    <3>6. CASE SendData
      BY <3>6, <2>2, <2>t DEF SendData, At, shared
    <3> QED
      BY <2>3, <3>1, <3>2, <3>3, <3>4, <3>5, <3>6 DEF Main
  <2>4. CASE Gps
    <3>1. CASE CriticalSection("gps")
      BY <3>1, <2>1, <2>t
    <3>2. CASE GpsOpen
      <4>1. GoTo("gps", "wait") \/ GoTo("gps", "done")
        BY <3>2 DEF GpsOpen
      <4>2. pc["gps"] # "lock" /\ mutex' = mutex
        BY <3>2 DEF GpsOpen, At, shared
      <4> QED
        BY <4>1, <4>2, <2>2, <2>t
    <3>3. ASSUME NEW f \in Fix, GpsFix(f) PROVE pc'[w] = "lock" /\ mutex' = t
      <4>1. GoTo("gps", "lock") /\ pc["gps"] # "lock" /\ mutex' = mutex
        BY <3>3 DEF GpsFix, At
      <4> QED
        BY <4>1, <2>2, <2>t
    <3> QED
      BY <2>4, <3>1, <3>2, <3>3 DEF Gps
  <2>5. ASSUME NEW h \in Handler, SendBeaconHandler(h)
        PROVE  pc'[w] = "lock" /\ mutex' = t
    BY <2>5, <2>1, <2>2, <2>t
       DEF SendBeaconHandler, ReadX, ReadY, Pop, Push, SetSpeedX, SendBeacon, At, shared
  <2>6. CASE Timer
    BY <2>6 DEF Timer, shared
  <2>7. ASSUME NEW u \in Thread, Deliver(u)
        PROVE  pc'[w] = "lock" /\ mutex' = t
    <3>1. HandlerOf[u] \in Context /\ pc[HandlerOf[u]] # "lock"
      BY <2>7 DEF Deliver, HandlerOf, Thread, Context, Handler
    <3> QED
      BY <3>1, <2>7, <2>2 DEF Deliver, shared
  <2>8. CASE UNCHANGED vars
    BY <2>8 DEF vars, shared
  <2>9. ASSUME NEW h \in Handler, Hang(h)
        PROVE  pc'[w] = "lock" /\ mutex' = t
    BY <2>9 DEF Hang, shared
  <2> QED
    BY <2>3, <2>4, <2>5, <2>6, <2>7, <2>8, <2>9 DEF Next
<1> QED
  BY <1>1, Locking, PTL DEF Spec, DeadlockIsForever

(* What keeps q_gps at two positions: a handler between its pop and its    *)
(* push has left room, as long as no two handlers were in the queue.       *)
QueueInv ==
  ~raced => qsize <= 2 /\ \A h \in Handler : pc[h] = "push" => qsize <= 1

(* A step outside q_gps does not bring anybody to the push.                *)
Quiet(c) ==
  /\ qsize' = qsize /\ raced' = raced
  /\ \E label \in Label \ {"push"} : pc' = [pc EXCEPT ![c] = label]

LEMMA QuietQueue ==
  ASSUME TypeOK, QueueInv, NEW c, Quiet(c)
  PROVE  QueueInv'
<1>1. PICK label \in Label \ {"push"} : pc' = [pc EXCEPT ![c] = label]
  BY DEF Quiet
<1>2. \A h \in Handler : pc'[h] = pc[h] \/ pc'[h] = label
  BY <1>1 DEF TypeOK, Context
<1> QED
  BY <1>1, <1>2 DEF QueueInv, Quiet

LEMMA PopStep ==
  ASSUME TypeOK, QueueInv, NEW h \in Handler, Pop(h)
  PROVE  QueueInv'
<1>1. CASE Racing(h)
  BY <1>1 DEF Pop, QueueStep, QueueInv
<1>2. CASE ~Racing(h)
  <2>1. qsize' = (IF qsize = 2 THEN 1 ELSE qsize) /\ raced' = raced
    BY <1>2 DEF Pop, QueueStep
  <2>2. ~raced => qsize' <= 1
    BY <2>1, QueueAssumption DEF QueueInv, TypeOK
  <2> QED
    BY <2>1, <2>2, QueueAssumption DEF QueueInv, TypeOK
<1> QED
  BY <1>1, <1>2

LEMMA PushStep ==
  ASSUME TypeOK, QueueInv, NEW h \in Handler, Push(h)
  PROVE  QueueInv'
<1>1. CASE Racing(h)
  BY <1>1 DEF Push, QueueStep, QueueInv
<1>2. CASE ~Racing(h)
  <2>1. qsize' = (IF qsize = MaxQueue THEN MaxQueue ELSE qsize + 1) /\ raced' = raced
    BY <1>2 DEF Push, QueueStep
  <2>2. ~raced => qsize <= 1
    BY DEF QueueInv, Push, At
  <2>3. ~raced => qsize' <= 2
    BY <2>1, <2>2, QueueAssumption DEF TypeOK
  <2>4. \A k \in Handler : pc'[k] # "push"
    <3>1. pc' = [pc EXCEPT ![h] = "readx"] /\ pc \in [Context -> Label]
      BY DEF Push, GoTo, TypeOK
    <3>2. pc[Other[h]] # "push"
      BY <1>2 DEF Racing, InQueue, Modifying
    <3>3. \A k \in Handler : k \in Context /\ (k = h \/ k = Other[h])
      BY DEF Handler, Other, Context
    <3> QED
      BY <3>1, <3>2, <3>3
  <2> QED
    BY <2>1, <2>3, <2>4 DEF QueueInv
<1> QED
  BY <1>1, <1>2

LEMMA NextQueue == TypeOK /\ QueueInv /\ [Next]_vars => QueueInv'
<1> SUFFICES ASSUME TypeOK, QueueInv, [Next]_vars PROVE QueueInv'
  OBVIOUS
<1> USE DEF shared, history, GoTo, Label, Critical, InQueue, Modifying
<1>1. ASSUME NEW c, CriticalSection(c) PROVE QueueInv'
  <2>1. CASE Lock(c)
    BY <2>1, QuietQueue DEF Lock, Quiet
  <2>2. CASE Unlock(c)
    <3>1. AfterUnlock(c) \in Label \ {"push"}
      BY DEF AfterUnlock
    <3>2. /\ pc' = [pc EXCEPT ![c] = AfterUnlock(c)]
          /\ qsize' = qsize /\ raced' = raced
      BY <2>2 DEF Unlock
    <3> QED
      BY <3>1, <3>2, QuietQueue DEF Quiet
  <2>3. ASSUME NEW f, NEW next \in {"x", "y", "unlock"}, Copy(c, f, next)
        PROVE  QueueInv'
    BY <2>3, QuietQueue DEF Copy, Quiet
  <2> QED
    BY <1>1, <2>1, <2>2, <2>3 DEF CriticalSection
<1>2. ASSUME NEW c, ReadX(c) PROVE QueueInv'
  BY <1>2, QuietQueue DEF ReadX, Quiet
<1>3. ASSUME NEW c, ReadY(c) PROVE QueueInv'
  <2>1. /\ pc' = [pc EXCEPT ![c] = "send"] \/ pc' = [pc EXCEPT ![c] = "speedx"]
        /\ qsize' = qsize /\ raced' = raced
    BY <1>3 DEF ReadY
  <2> QED
    BY <2>1, QuietQueue DEF Quiet
<1>4. CASE Main
  <2>1. CASE RecvTun
    BY <2>1, QuietQueue DEF RecvTun, Quiet
  <2>2. CASE Forwarding
    BY <2>2, QuietQueue DEF Forwarding, Quiet
  <2>3. CASE SendData
    BY <2>3, QuietQueue DEF SendData, Quiet
  <2> QED
    BY <1>1, <1>2, <1>3, <1>4, <2>1, <2>2, <2>3 DEF Main
<1>5. CASE Gps
  <2>1. CASE GpsOpen
    BY <2>1, QuietQueue DEF GpsOpen, Quiet
  <2>2. ASSUME NEW f \in Fix, GpsFix(f) PROVE QueueInv'
    BY <2>2, QuietQueue DEF GpsFix, Quiet
  <2> QED
    BY <1>1, <1>5, <2>1, <2>2 DEF Gps
<1>6. ASSUME NEW h \in Handler, SendBeaconHandler(h) PROVE QueueInv'
  <2>1. CASE SetSpeedX(h)
    <3> HIDE DEF Modifying
    <3>1. CASE pc[Other[h]] \in Modifying
      BY <2>1, <3>1 DEF SetSpeedX, QueueInv
    <3>2. CASE pc[Other[h]] \notin Modifying
      <4>1. raced' = raced /\ qsize' = qsize /\ pc' = [pc EXCEPT ![h] = "send"]
        BY <2>1, <3>2 DEF SetSpeedX
      <4> QED
        BY <4>1, QuietQueue DEF Quiet
    <3> QED
      BY <3>1, <3>2
  <2>2. CASE SendBeacon(h)
    BY <2>2, QuietQueue DEF SendBeacon, Quiet
  <2> QED
    BY <1>1, <1>2, <1>3, <1>6, <2>1, <2>2, PopStep, PushStep DEF SendBeaconHandler
<1>7. CASE Timer
  BY <1>7 DEF Timer, QueueInv
<1>8. ASSUME NEW t \in Thread, Deliver(t) PROVE QueueInv'
  BY <1>8, QuietQueue DEF Deliver, Quiet
<1>9. CASE UNCHANGED vars
  BY <1>9 DEF vars, QueueInv
<1>10. ASSUME NEW h \in Handler, Hang(h) PROVE QueueInv'
  BY <1>10 DEF Hang, QueueInv
<1> QED
  BY <1>4, <1>5, <1>6, <1>7, <1>8, <1>9, <1>10 DEF Next

(* The queue of positions stays at two unless two handlers were in it at   *)
(* once.                                                                   *)
THEOREM QueueStaysBounded == Spec => []QueueBounded
<1>1. Init => QueueInv
  BY DEF Init, QueueInv, Handler, Context
<1>2. TypeOK /\ QueueInv => QueueBounded
  BY QueueAssumption DEF TypeOK, QueueInv, QueueBounded
<1> QED
  BY <1>1, <1>2, NextQueue, TypeCorrect, PTL DEF Spec
(* What makes a beacon whole while every handler ran on the main thread:   *)
(* the thread it interrupted stands still outside its critical section,    *)
(* and nobody else writes m_gps or q_gps.                                  *)
BeaconInv ==
  ~onGps =>
    /\ pc["gps_sig"] = "off" /\ ~raced
    /\ pc["main_sig"] \notin {"off", "lock"} => pc["main"] \notin Critical
    /\ pc["main_sig"] \in {"readx", "ready", "speedx", "send"} => qsize >= 1
    /\ pc["main_sig"] = "ready" => msg["main_sig"].x = m["x"]
    /\ pc["main_sig"] \in {"speedx", "send"} => msg["main_sig"].x = msg["main_sig"].y
    /\ pc["main_sig"] = "send" /\ ~msg["main_sig"].speed => qsize = 1

BeaconInputs == LockInv /\ QueueInv /\ BeaconInv

(* While main_sig is past its critical section and gps_sig off, m_gps is   *)
(* one position.                                                           *)
LEMMA HandlerReadsOneFix ==
  ASSUME BeaconInputs, ~onGps, pc["main_sig"] \notin {"off", "lock"} \cup Critical
  PROVE  m["x"] = m["y"]
<1>1. \A c \in Copier : pc[c] \notin {"x", "y"}
  BY DEF BeaconInputs, BeaconInv, Copier, Critical
<1> QED
  BY <1>1 DEF BeaconInputs, LockInv, Copying, Uniform

(* Steps of anybody but main_sig that leave alone what it uses.            *)
LEMMA BeaconFrame ==
  ASSUME BeaconInv, onGps' = onGps, raced' = raced, qsize' = qsize,
         pc'["gps_sig"] = pc["gps_sig"], pc'["main_sig"] = pc["main_sig"],
         msg'["main_sig"] = msg["main_sig"],
         pc["main_sig"] = "off" \/ (m' = m /\ pc'["main"] = pc["main"])
  PROVE  BeaconInv'
BY DEF BeaconInv

LEMMA BeaconMainSig ==
  ASSUME BeaconInputs, ~onGps, SendBeaconHandler("main_sig")
  PROVE  BeaconInv'
<1> DEFINE w == "main_sig"
<1> USE DEF At, GoTo, shared, history
<1>t. /\ TypeOK /\ QueueInv /\ LockInv /\ BeaconInv /\ MutexOwnership
      /\ pc["gps_sig"] = "off" /\ ~raced /\ ~Racing(w)
      /\ w \in Handler /\ w \in Context /\ "main" \in Context /\ "gps_sig" \in Context
      /\ pc \in [Context -> Label] /\ msg \in [Context -> Message]
      /\ qsize \in 0..MaxQueue /\ qsize <= 2
  BY DEF BeaconInputs, LockInv, BeaconInv, QueueInv, TypeOK, Handler, Context, Thread,
         Racing, Other, InQueue, Modifying
<1> DEFINE Goes(label) == pc' = [pc EXCEPT ![w] = label]
<1>g. ASSUME NEW label, Goes(label)
      PROVE  /\ pc'[w] = label /\ pc'["main"] = pc["main"]
             /\ pc'["gps_sig"] = pc["gps_sig"]
  BY <1>g, <1>t
<1>1. CASE Lock(w)
  <2>1. Goes("speed") /\ onGps' = onGps /\ raced' = raced
    BY <1>1 DEF Lock
  <2>2. pc["main"] \notin Critical
    BY <1>1, <1>t DEF Lock, MutexOwnership, Context, Thread
  <2> HIDE DEF Goes
  <2> QED
    BY <2>1, <2>2, <1>g, <1>t DEF BeaconInv
<1>2. ASSUME NEW field, NEW next \in {"x", "y", "unlock"}, Copy(w, field, next),
             field \in {"speed", "x", "y"}
      PROVE  BeaconInv'
  <2>1. Goes(next) /\ onGps' = onGps /\ raced' = raced /\ pc[w] = field
    BY <1>2 DEF Copy
  <2>2. pc["main"] \notin Critical
    BY <2>1, <1>2, <1>t DEF BeaconInputs, BeaconInv
  <2> HIDE DEF Goes
  <2> QED
    BY <2>1, <2>2, <1>g, <1>t DEF BeaconInv
<1>3. CASE Unlock(w)
  <2>1. Goes("pop") /\ onGps' = onGps /\ raced' = raced /\ pc[w] = "unlock"
    BY <1>3 DEF Unlock, AfterUnlock
  <2>2. pc["main"] \notin Critical
    BY <2>1, <1>t DEF BeaconInputs, BeaconInv
  <2> HIDE DEF Goes
  <2> QED
    BY <2>1, <2>2, <1>g, <1>t DEF BeaconInv
<1>4. CASE Pop(w)
  <2>1. Goes("push") /\ onGps' = onGps /\ raced' = raced /\ pc[w] = "pop"
    BY <1>4, <1>t DEF Pop, QueueStep
  <2>2. pc["main"] \notin Critical
    BY <2>1, <1>t DEF BeaconInputs, BeaconInv
  <2> HIDE DEF Goes
  <2> QED
    BY <2>1, <2>2, <1>g, <1>t DEF BeaconInv
<1>5. CASE Push(w)
  <2>1. /\ Goes("readx") /\ onGps' = onGps /\ raced' = raced /\ pc[w] = "push"
        /\ qsize' = IF qsize = MaxQueue THEN MaxQueue ELSE qsize + 1
    BY <1>5, <1>t DEF Push, QueueStep
  <2>2. pc["main"] \notin Critical /\ qsize' >= 1
    BY <2>1, <1>t, QueueAssumption DEF BeaconInputs, BeaconInv
  <2> HIDE DEF Goes
  <2> QED
    BY <2>1, <2>2, <1>g, <1>t DEF BeaconInv
<1>6. CASE ReadX(w)
  <2>1. /\ Goes("ready") /\ onGps' = onGps /\ raced' = raced /\ pc[w] = "readx"
        /\ qsize' = qsize /\ m' = m
        /\ msg' = [msg EXCEPT ![w] = [msg[w] EXCEPT !.x = m.x]]
    BY <1>6 DEF ReadX
  <2>2. pc["main"] \notin Critical /\ qsize >= 1
    BY <2>1, <1>t DEF BeaconInputs, BeaconInv
  <2>3. msg'[w].x = m["x"]
    BY <2>1, <1>t DEF Message
  <2> HIDE DEF Goes
  <2> QED
    BY <2>1, <2>2, <2>3, <1>g, <1>t DEF BeaconInv
<1>7. CASE ReadY(w)
  <2>1. /\ Goes("speedx") /\ onGps' = onGps /\ raced' = raced /\ pc[w] = "ready"
        /\ qsize' = qsize /\ m' = m
        /\ msg' = [msg EXCEPT ![w] = [msg[w] EXCEPT !.y = m.y]]
    BY <1>7 DEF ReadY
  <2>2. pc["main"] \notin Critical /\ qsize >= 1 /\ msg[w].x = m["x"]
    BY <2>1, <1>t DEF BeaconInputs, BeaconInv
  <2>3. m["x"] = m["y"]
    BY <2>1, <1>t, HandlerReadsOneFix DEF Critical
  <2>4. msg'[w].x = msg'[w].y
    BY <2>1, <2>2, <2>3, <1>t DEF Message
  <2> HIDE DEF Goes
  <2> QED
    BY <2>1, <2>2, <2>4, <1>g, <1>t DEF BeaconInv
<1>8. CASE SetSpeedX(w)
  <2>1. /\ Goes("send") /\ onGps' = onGps /\ raced' = raced /\ pc[w] = "speedx"
        /\ qsize' = qsize
        /\ msg' = [msg EXCEPT ![w] = [msg[w] EXCEPT !.speed = (qsize = 2)]]
    <3>1. pc[Other[w]] \notin Modifying
      BY <1>t DEF Modifying, InQueue, Racing
    <3> QED
      BY <1>8, <3>1 DEF SetSpeedX
  <2>2. pc["main"] \notin Critical /\ qsize >= 1 /\ msg[w].x = msg[w].y
    BY <2>1, <1>t DEF BeaconInputs, BeaconInv
  <2>3. msg'[w].x = msg'[w].y /\ (~msg'[w].speed => qsize # 2)
    BY <2>1, <2>2, <1>t DEF Message
  <2>4. qsize = 1 \/ qsize = 2
    BY <2>2, <1>t, QueueAssumption
  <2> HIDE DEF Goes
  <2> QED
    BY <2>1, <2>2, <2>3, <2>4, <1>g, <1>t DEF BeaconInv
<1>9. CASE SendBeacon(w)
  <2>1. Goes("off") /\ onGps' = onGps /\ raced' = raced
    BY <1>9 DEF SendBeacon
  <2> HIDE DEF Goes
  <2> QED
    BY <2>1, <1>g, <1>t DEF BeaconInv
<1> QED
  BY <1>1, <1>2, <1>3, <1>4, <1>5, <1>6, <1>7, <1>8, <1>9
     DEF SendBeaconHandler, CriticalSection
LEMMA NextBeacon == BeaconInputs /\ [Next]_vars => BeaconInv'
<1> SUFFICES ASSUME BeaconInputs, [Next]_vars, ~onGps, ~onGps' PROVE BeaconInv'
  <2>1. ASSUME onGps, [Next]_vars PROVE onGps'
    <3> USE DEF shared, history
    <3>1. ASSUME NEW c, CriticalSection(c) PROVE onGps'
      BY <2>1, <3>1 DEF CriticalSection, Lock, Copy, Unlock
    <3>2. CASE Main
      BY <2>1, <3>1, <3>2 DEF Main, RecvTun, Forwarding, ReadX, ReadY, SendData
    <3>3. CASE Gps
      BY <2>1, <3>1, <3>3 DEF Gps, GpsOpen, GpsFix
    <3>4. ASSUME NEW h \in Handler, SendBeaconHandler(h) PROVE onGps'
      BY <2>1, <3>1, <3>4 DEF SendBeaconHandler, Pop, Push, ReadX, ReadY, SetSpeedX,
                              SendBeacon
    <3>5. ASSUME NEW t \in Thread, Deliver(t) PROVE onGps'
      BY <2>1, <3>5 DEF Deliver
    <3> QED
      BY <2>1, <3>2, <3>3, <3>4, <3>5 DEF Next, Timer, Hang, vars
  <2> QED
    BY <2>1 DEF BeaconInv
<1> USE DEF At, GoTo, shared, history
<1>t. /\ TypeOK /\ BeaconInv /\ pc["gps_sig"] = "off"
      /\ Context = {"main", "gps", "main_sig", "gps_sig"}
      /\ Thread = {"main", "gps"} /\ Handler = {"main_sig", "gps_sig"}
      /\ pc \in [Context -> Label] /\ msg \in [Context -> Message]
      /\ HandlerOf["main"] = "main_sig" /\ HandlerOf["gps"] = "gps_sig"
  BY DEF BeaconInputs, LockInv, BeaconInv, TypeOK, Context, Thread, Handler, HandlerOf
<1>1. CASE Main
  <2>1. /\ pc["main_sig"] = "off" /\ onGps' = onGps /\ raced' = raced /\ qsize' = qsize
        /\ \E label : pc' = [pc EXCEPT !["main"] = label]
        /\ msg' = msg \/ \E x : msg' = [msg EXCEPT !["main"] = x]
    <3>1. CASE CriticalSection("main")
      BY <3>1, <1>t DEF CriticalSection, Lock, Copy, Unlock
    <3>2. CASE RecvTun \/ Forwarding \/ SendData
      BY <3>2, <1>t DEF RecvTun, Forwarding, SendData
    <3>3. CASE ReadX("main") \/ ReadY("main")
      BY <3>3, <1>t DEF ReadX, ReadY
    <3> QED
      BY <1>1, <3>1, <3>2, <3>3 DEF Main
  <2> QED
    BY <2>1, <1>t, BeaconFrame
<1>2. CASE Gps
  <2>1. /\ onGps' = onGps /\ raced' = raced /\ qsize' = qsize /\ m' = m /\ msg' = msg
        /\ \E label : pc' = [pc EXCEPT !["gps"] = label]
    <3>1. CASE CriticalSection("gps")
      BY <3>1 DEF CriticalSection, Lock, Copy, Unlock
    <3>2. CASE GpsOpen
      BY <3>2 DEF GpsOpen
    <3>3. CASE \E f \in Fix : GpsFix(f)
      BY <3>3 DEF GpsFix
    <3> QED
      BY <1>2, <3>1, <3>2, <3>3 DEF Gps
  <2> QED
    BY <2>1, <1>t, BeaconFrame
<1>3. ASSUME NEW h \in Handler, SendBeaconHandler(h) PROVE BeaconInv'
  <2>1. pc[h] # "off"
    BY <1>3 DEF SendBeaconHandler, CriticalSection, Lock, Copy, Unlock, Pop, Push,
                ReadX, ReadY, SetSpeedX, SendBeacon
  <2> QED
    BY <1>3, <2>1, <1>t, BeaconMainSig
<1>4. CASE Timer
  BY <1>4, <1>t, BeaconFrame DEF Timer
<1>5. ASSUME NEW t \in Thread, Deliver(t) PROVE BeaconInv'
  <2>1. t = "main"
    BY <1>5, <1>t DEF Deliver
  <2>2. pc' = [pc EXCEPT !["main_sig"] = "lock"] /\ raced' = raced /\ qsize' = qsize
    BY <1>5, <2>1, <1>t DEF Deliver
  <2> QED
    BY <2>2, <1>t DEF BeaconInv
<1>6. CASE UNCHANGED vars
  BY <1>6, <1>t, BeaconFrame DEF vars
<1>7. ASSUME NEW h \in Handler, Hang(h) PROVE BeaconInv'
  BY <1>7, <1>t, BeaconFrame DEF Hang
<1> QED
  BY <1>1, <1>2, <1>3, <1>4, <1>5, <1>6, <1>7 DEF Next

LEMMA InitQueue == Init => QueueInv
BY DEF Init, QueueInv, Handler, Context

(* As long as no handler has run on the gps thread, a beacon that is ready *)
(* to be sent has the two coordinates of one fix, and its speed was        *)
(* computed unless it is the first.  Of beacons after a handler did run on *)
(* that thread it says nothing.                                            *)
THEOREM BeaconsAreWhole == Spec => []BeaconWhole
<1>1. Init => BeaconInv
  BY DEF Init, BeaconInv, Context, Thread, Handler
<1>2. BeaconInputs => BeaconWhole
  <2> SUFFICES ASSUME BeaconInputs, NEW h \in Handler, pc[h] = "send", ~onGps
               PROVE  msg[h].x = msg[h].y /\ (~msg[h].speed => qsize = 1)
    BY DEF BeaconWhole
  <2>1. h = "main_sig"
    BY DEF BeaconInputs, BeaconInv, Handler
  <2> QED
    BY <2>1 DEF BeaconInputs, BeaconInv
<1>3. LockInv /\ QueueInv /\ BeaconInv => BeaconInputs
  BY DEF BeaconInputs
<1>4. Spec => []QueueInv
  BY InitQueue, NextQueue, TypeCorrect, PTL DEF Spec
<1> QED
  BY <1>1, <1>2, <1>3, <1>4, NextBeacon, Locking, PTL DEF Spec

(* What makes the position of a data packet whole while no handler runs:   *)
(* then nobody writes m_gps between the main thread's two reads of it.     *)
DataInv ==
  ~disturbed /\ pc["main"] \in {"readx", "ready", "send"} =>
    /\ pc["main_sig"] = "off" /\ pc["gps_sig"] = "off"
    /\ pc["main"] = "ready" => msg["main"].x = m["x"]
    /\ pc["main"] = "send" => msg["main"].x = msg["main"].y

LEMMA NextData == LockInv /\ DataInv /\ [Next]_vars => DataInv'
<1> SUFFICES ASSUME LockInv, DataInv, [Next]_vars PROVE DataInv'
  OBVIOUS
<1> USE DEF At, GoTo, shared, history
<1>t. /\ TypeOK
      /\ Context = {"main", "gps", "main_sig", "gps_sig"}
      /\ Thread = {"main", "gps"} /\ Handler = {"main_sig", "gps_sig"}
      /\ pc \in [Context -> Label] /\ msg \in [Context -> Message]
      /\ HandlerOf["main"] = "main_sig" /\ HandlerOf["gps"] = "gps_sig"
  BY DEF LockInv, TypeOK, Context, Thread, Handler, HandlerOf
<1>1. CASE Main
  <2>1. pc["main_sig"] = "off"
    BY <1>1, <1>t DEF Main, CriticalSection, Lock, Copy, Unlock, RecvTun, Forwarding,
                      ReadX, ReadY, SendData
  <2>2. ASSUME NEW label, pc' = [pc EXCEPT !["main"] = label],
               label \notin {"readx", "ready", "send"}
        PROVE  DataInv'
    BY <2>2, <1>t DEF DataInv
  <2>3. CASE CriticalSection("main") /\ ~Unlock("main")
    BY <2>2, <2>3 DEF CriticalSection, Lock, Copy
  <2>4. CASE RecvTun \/ SendData
    BY <2>2, <2>4 DEF RecvTun, SendData
  <2>5. CASE Unlock("main") \/ Forwarding
    <3>1. pc' = [pc EXCEPT !["main"] = "readx"] /\ (~disturbed' => pc["gps_sig"] = "off")
      BY <2>5 DEF Unlock, AfterUnlock, Forwarding
    <3> QED
      BY <3>1, <2>1, <1>t DEF DataInv
  <2>6. CASE ReadX("main")
    <3>1. /\ pc' = [pc EXCEPT !["main"] = "ready"] /\ pc["main"] = "readx"
          /\ m' = m /\ disturbed' = disturbed
          /\ msg' = [msg EXCEPT !["main"] = [msg["main"] EXCEPT !.x = m.x]]
      BY <2>6 DEF ReadX
    <3>2. msg'["main"].x = m["x"]
      BY <3>1, <1>t DEF Message
    <3> QED
      BY <3>1, <3>2, <1>t DEF DataInv
  <2>7. CASE ReadY("main")
    <3>1. /\ pc' = [pc EXCEPT !["main"] = "send"] /\ pc["main"] = "ready"
          /\ m' = m /\ disturbed' = disturbed
          /\ msg' = [msg EXCEPT !["main"] = [msg["main"] EXCEPT !.y = m.y]]
      BY <2>7 DEF ReadY
    <3> SUFFICES ASSUME ~disturbed PROVE DataInv'
      BY <3>1 DEF DataInv
    <3>2. pc["main_sig"] = "off" /\ pc["gps_sig"] = "off" /\ msg["main"].x = m["x"]
      BY <3>1 DEF DataInv
    <3>3. Uniform(m)
      BY <3>1, <3>2 DEF LockInv, Copying, Copier
    <3>4. msg'["main"].x = msg'["main"].y
      BY <3>1, <3>2, <3>3, <1>t DEF Message, Uniform
    <3> QED
      BY <3>1, <3>2, <3>4, <1>t DEF DataInv
  <2> QED
    BY <1>1, <2>3, <2>4, <2>5, <2>6, <2>7 DEF Main
<1>2. CASE Gps
  <2>1. /\ disturbed' = disturbed /\ m' = m /\ msg' = msg
        /\ \E label : pc' = [pc EXCEPT !["gps"] = label]
    <3>1. CASE CriticalSection("gps")
      BY <3>1 DEF CriticalSection, Lock, Copy, Unlock
    <3>2. CASE GpsOpen
      BY <3>2 DEF GpsOpen
    <3>3. CASE \E f \in Fix : GpsFix(f)
      BY <3>3 DEF GpsFix
    <3> QED
      BY <1>2, <3>1, <3>2, <3>3 DEF Gps
  <2> QED
    BY <2>1, <1>t DEF DataInv
<1>3. ASSUME NEW h \in Handler, SendBeaconHandler(h) PROVE DataInv'
  <2>1. /\ pc[h] # "off" /\ disturbed' = disturbed
        /\ \E label : pc' = [pc EXCEPT ![h] = label]
    <3>1. CASE CriticalSection(h)
      BY <3>1, <1>t DEF CriticalSection, Lock, Copy, Unlock
    <3>2. CASE Pop(h) \/ Push(h)
      BY <3>2 DEF Pop, Push
    <3>3. CASE ReadX(h) \/ ReadY(h)
      BY <3>3 DEF ReadX, ReadY
    <3>4. CASE SetSpeedX(h) \/ SendBeacon(h)
      BY <3>4 DEF SetSpeedX, SendBeacon
    <3> QED
      BY <1>3, <3>1, <3>2, <3>3, <3>4 DEF SendBeaconHandler
  <2> QED
    BY <2>1, <1>3, <1>t DEF DataInv
<1>4. CASE Timer
  BY <1>4 DEF Timer, DataInv
<1>5. ASSUME NEW t \in Thread, Deliver(t) PROVE DataInv'
  BY <1>5 DEF Deliver, DataInv
<1>6. CASE UNCHANGED vars
  BY <1>6 DEF vars, DataInv
<1>7. ASSUME NEW h \in Handler, Hang(h) PROVE DataInv'
  BY <1>7 DEF Hang, DataInv
<1> QED
  BY <1>1, <1>2, <1>3, <1>4, <1>5, <1>6, <1>7 DEF Next

(* The position that recv_tun or Forwarding puts into a packet is one fix  *)
(* if no handler ran while the main thread used m_gps; of the packets that *)
(* one did disturb it says nothing.                                        *)
THEOREM DataIsWhole == Spec => []DataWhole
<1>1. Init => DataInv
  BY DEF Init, DataInv, Context, Thread
<1>2. DataInv => DataWhole
  BY DEF DataInv, DataWhole
<1> QED
  BY <1>1, <1>2, NextData, Locking, PTL DEF Spec
=============================================================================
