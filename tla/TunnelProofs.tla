---------------------------- MODULE TunnelProofs ----------------------------
(***************************************************************************)
(* Proofs about the tunnel programs: two of them implement a pipe, so that *)
(* what comes out of a device was written to the other one; and a process  *)
(* only ever waits in read() of its socket after an ICMP error.            *)
(***************************************************************************)
EXTENDS Tunnel, SequenceTheorems, TLAPS

(* Facts about the two ends and about bounded queues.                      *)

LEMMA Ends ==
  ASSUME NEW e \in Endpoint
  PROVE  /\ Peer[e] \in Endpoint /\ Peer[e] # e /\ Peer[Peer[e]] = e
         /\ \A x \in Endpoint : x = e \/ x = Peer[e]
BY TunnelAssumption DEF Endpoint, Peer

LEMMA QueueIsSeq ==
  \A q : q \in Queue <=> q \in Seq(Frame) /\ Len(q) <= MaxQueue
<1>1. MaxQueue \in Nat
  BY TunnelAssumption
<1>2. ASSUME NEW q \in Queue PROVE q \in Seq(Frame) /\ Len(q) <= MaxQueue
  <2>1. PICK n \in 0..MaxQueue : q \in [1..n -> Frame]
    BY DEF Queue
  <2> QED
    BY <1>1, <2>1
<1>3. ASSUME NEW q \in Seq(Frame), Len(q) <= MaxQueue PROVE q \in Queue
  <2>1. Len(q) \in 0..MaxQueue /\ q \in [1..Len(q) -> Frame]
    BY <1>1, <1>3, LenProperties
  <2> QED
    BY <2>1 DEF Queue
<1> QED
  BY <1>2, <1>3

LEMMA EmptyQueue == << >> \in Queue /\ Range(<< >>) = {}
<1>1. << >> \in Seq(Frame) /\ Len(<< >>) = 0 /\ 0 <= MaxQueue
  BY EmptySeq, TunnelAssumption
<1>2. DOMAIN << >> = {}
  BY <1>1
<1> QED
  BY <1>1, <1>2, QueueIsSeq DEF Range

LEMMA TailOfQueue ==
  ASSUME NEW q \in Queue, q # << >>
  PROVE  /\ Tail(q) \in Queue /\ Head(q) \in Frame
         /\ Head(q) \in Range(q) /\ Range(Tail(q)) \subseteq Range(q)
<1>1. q \in Seq(Frame) /\ Len(q) <= MaxQueue /\ MaxQueue \in Nat
  BY QueueIsSeq, TunnelAssumption
<1>2. Len(q) \in Nat \ {0} /\ DOMAIN q = 1..Len(q)
  BY <1>1, EmptySeq, LenProperties
<1>3. /\ Tail(q) \in Seq(Frame) /\ Len(Tail(q)) = Len(q) - 1 /\ Head(q) \in Frame
      /\ \A i \in 1..Len(Tail(q)) : Tail(q)[i] = q[i + 1]
  BY <1>1, HeadTailProperties
<1>4. Head(q) = q[1]
  BY <1>1
<1>5. Range(Tail(q)) \subseteq Range(q)
  <2>1. DOMAIN Tail(q) = 1..Len(Tail(q))
    BY <1>3, LenProperties
  <2>2. \A i \in 1..Len(Tail(q)) : i + 1 \in 1..Len(q)
    BY <1>2, <1>3
  <2> QED
    BY <1>2, <1>3, <2>1, <2>2 DEF Range
<1>6. Head(q) \in Range(q)
  BY <1>2, <1>4 DEF Range
<1>7. Tail(q) \in Queue
  <2>1. Len(Tail(q)) <= MaxQueue
    BY <1>1, <1>2, <1>3
  <2> QED
    BY <1>3, <2>1, QueueIsSeq
<1> QED
  BY <1>3, <1>5, <1>6, <1>7

LEMMA AppendToQueue ==
  ASSUME NEW q \in Queue, Len(q) < MaxQueue, NEW f \in Frame
  PROVE  /\ Append(q, f) \in Queue /\ Append(q, f) # << >>
         /\ Range(Append(q, f)) = Range(q) \cup {f}
<1>1. q \in Seq(Frame) /\ MaxQueue \in Nat /\ Len(q) \in Nat
  BY QueueIsSeq, TunnelAssumption, LenProperties
<1>2. /\ Append(q, f) \in Seq(Frame) /\ Len(Append(q, f)) = Len(q) + 1
      /\ Append(q, f) # << >>
      /\ \A i \in 1..Len(q) : Append(q, f)[i] = q[i]
      /\ Append(q, f)[Len(q) + 1] = f
  BY <1>1, AppendProperties
<1>3. DOMAIN q = 1..Len(q) /\ DOMAIN Append(q, f) = 1..Len(Append(q, f))
  BY <1>1, <1>2, LenProperties
<1>4. 1..Len(Append(q, f)) = 1..Len(q) \cup {Len(q) + 1}
  BY <1>1, <1>2
<1>5. Range(Append(q, f)) = Range(q) \cup {f}
  BY <1>2, <1>3, <1>4 DEF Range
<1>6. Append(q, f) \in Queue
  <2>1. Len(Append(q, f)) <= MaxQueue
    BY <1>1, <1>2
  <2> QED
    BY <1>2, <2>1, QueueIsSeq
<1> QED
  BY <1>2, <1>5, <1>6

-----------------------------------------------------------------------------
(* Types, and that a frame is in the buffer whenever it is to be written.  *)

Loaded == \A e \in Endpoint : pc[e] \in {"writesock", "writetun"} => buffer[e] \in Relayed

TunnelInv == TypeOK /\ Loaded

LEMMA InitTunnel == Init => TunnelInv
BY EmptyQueue DEF Init, TunnelInv, TypeOK, Call, Fd, Loaded

(* A step of the process e that ends at the label call, with or without a  *)
(* frame in its buffer.                                                    *)
Moves(e, call) ==
  /\ e \in Endpoint /\ call \in Call
  /\ pc' = [pc EXCEPT ![e] = call]
  /\ call \notin {"writesock", "writetun"} \/ buffer'[e] \in Relayed
  /\ UNCHANGED up
  /\ buffer' = buffer \/ \E f \in Frame : buffer' = [buffer EXCEPT ![e] = f]
  /\ \E s \in SUBSET Fd : rset' = [rset EXCEPT ![e] = s]

LEMMA MovesInv ==
  ASSUME TunnelInv, NEW e, NEW call, Moves(e, call)
  PROVE  /\ Loaded'
         /\ up' \in [Endpoint -> BOOLEAN] /\ pc' \in [Endpoint -> Call]
         /\ rset' \in [Endpoint -> SUBSET Fd]
         /\ buffer' \in [Endpoint -> Frame \cup {Nothing}]
<1> USE DEF TunnelInv, TypeOK, Moves
<1>1. Loaded'
  BY DEF Loaded
<1> QED
  BY <1>1

LEMMA LoopInv ==
  ASSUME TunnelInv, NEW e \in Endpoint, Loop(e)
  PROVE  TunnelInv'
<1> USE DEF At, GoTo, process, history
<1>t. /\ TypeOK /\ Outgoing \in [Frame -> Frame] /\ Incoming \in [Frame -> Frame]
      /\ AfterTun(e) \in {"readsock", "select"} /\ AfterTun(e) \in Call
      /\ rset[e] \in SUBSET Fd /\ rset = [rset EXCEPT ![e] = rset[e]]
      /\ buffer[e] \in Frame \cup {Nothing}
  BY TunnelAssumption DEF TunnelInv, TypeOK, AfterTun, Call
<1>m. ASSUME NEW call, Moves(e, call),
             /\ tunq' \in [Endpoint -> Queue] /\ sockq' \in [Endpoint -> Queue]
             /\ err' \in [Endpoint -> BOOLEAN] /\ refused' = refused
             /\ net' \subseteq Datagram
             /\ sent' = sent /\ got' \in [Endpoint -> SUBSET Frame]
      PROVE  TunnelInv'
  BY <1>m, <1>t, MovesInv DEF TunnelInv, TypeOK
<1>1. CASE Select(e)
  <2>1. Moves(e, IF "tun" \in Ready(e) THEN "readtun" ELSE "readsock")
    BY <1>1, <1>t DEF Select, Moves, Call, Ready
  <2> QED
    BY <1>1, <2>1, <1>t, <1>m DEF Select, TypeOK
<1>2. CASE ReadTun(e)
  <2>1. Head(tunq[e]) \in Frame /\ Tail(tunq[e]) \in Queue
    BY <1>2, <1>t, TailOfQueue DEF ReadTun, TypeOK
  <2> DEFINE f == Outgoing[Head(tunq[e])]
  <2>2. f \in Frame
    BY <2>1, <1>t
  <2>3. Moves(e, IF f \in Relayed THEN "writesock" ELSE AfterTun(e))
    BY <1>2, <1>t, <2>2 DEF ReadTun, Moves, Call, TypeOK
  <2> HIDE DEF f
  <2> QED
    BY <1>2, <2>1, <2>3, <1>t, <1>m DEF ReadTun, TypeOK
<1>3. CASE ReadTunError(e)
  <2>1. Moves(e, AfterTun(e))
    BY <1>3, <1>t DEF ReadTunError, Moves
  <2> QED
    BY <1>3, <2>1, <1>t, <1>m DEF ReadTunError, TypeOK
<1>4. CASE WriteSock(e)
  <2>1. Moves(e, AfterTun(e))
    BY <1>4, <1>t DEF WriteSock, Moves
  <2>2. [to |-> Peer[e], body |-> buffer[e]] \in Datagram
    BY <1>4, TunnelAssumption, Ends DEF WriteSock, Datagram, TunnelInv, Loaded
  <2> QED
    BY <1>4, <2>1, <2>2, <1>t, <1>m DEF WriteSock, TypeOK
<1>5. CASE ReadSock(e)
  <2>1. CASE err[e]
    <3>1. Moves(e, "select")
      BY <1>5, <2>1, <1>t DEF ReadSock, Moves, Call
    <3> QED
      BY <1>5, <2>1, <3>1, <1>t, <1>m DEF ReadSock, TypeOK
  <2>2. CASE ~err[e]
    <3>1. Head(sockq[e]) \in Frame /\ Tail(sockq[e]) \in Queue
      BY <1>5, <2>2, <1>t, TailOfQueue DEF ReadSock, TypeOK
    <3> DEFINE f == Incoming[Head(sockq[e])]
    <3>2. f \in Frame
      BY <3>1, <1>t
    <3>3. Moves(e, IF f \in Relayed THEN "writetun" ELSE "select")
      BY <1>5, <2>2, <3>2, <1>t DEF ReadSock, Moves, Call, TypeOK
    <3>4. /\ tunq' \in [Endpoint -> Queue] /\ sockq' \in [Endpoint -> Queue]
          /\ err' \in [Endpoint -> BOOLEAN] /\ refused' = refused
          /\ net' \subseteq Datagram
          /\ sent' = sent /\ got' \in [Endpoint -> SUBSET Frame]
      <4>1. /\ sockq' = [sockq EXCEPT ![e] = Tail(sockq[e])] /\ err' = err
            /\ tunq' = tunq /\ net' = net /\ sent' = sent /\ got' = got
            /\ refused' = refused
        BY <1>5, <2>2 DEF ReadSock
      <4> QED
        BY <4>1, <3>1, <1>t DEF TypeOK
    <3> HIDE DEF f
    <3> QED
      BY <3>3, <3>4, <1>m
  <2> QED
    BY <2>1, <2>2
<1>6. CASE WriteTun(e)
  <2>1. Moves(e, "select")
    BY <1>6, <1>t DEF WriteTun, Moves, Call
  <2>2. buffer[e] \in Frame
    BY <1>6, TunnelAssumption DEF WriteTun, TunnelInv, Loaded
  <2> QED
    BY <1>6, <2>1, <2>2, <1>t, <1>m DEF WriteTun, TypeOK
<1> QED
  BY <1>1, <1>2, <1>3, <1>4, <1>5, <1>6 DEF Loop

LEMMA NextTunnel == TunnelInv /\ [Next]_vars => TunnelInv'
<1> SUFFICES ASSUME TunnelInv, [Next]_vars PROVE TunnelInv'
  OBVIOUS
<1> USE DEF TunnelInv, TypeOK, process, history
<1>1. ASSUME NEW e \in Endpoint, Start(e) PROVE TunnelInv'
  BY <1>1 DEF Start, Loaded
<1>2. ASSUME NEW e \in Endpoint, Stop(e) PROVE TunnelInv'
  BY <1>2, EmptyQueue DEF Stop, Loaded, Call
<1>3. ASSUME NEW e \in Endpoint, NEW f \in Frame, Offer(e, f) PROVE TunnelInv'
  <2>1. Append(tunq[e], f) \in Queue
    BY <1>3, AppendToQueue DEF Offer
  <2> QED
    BY <1>3, <2>1 DEF Offer, Loaded
<1>4. ASSUME NEW d \in net, NetLose(d) PROVE TunnelInv'
  BY <1>4 DEF NetLose, Loaded
<1>5. ASSUME NEW d \in net, NetDeliver(d) PROVE TunnelInv'
  <2>1. d.to \in Endpoint /\ d.body \in Frame
    BY <1>5 DEF NetDeliver, Datagram
  <2>2. Append(sockq[d.to], d.body) \in Queue
    BY <1>5, <2>1, AppendToQueue DEF NetDeliver
  <2> QED
    BY <1>5, <2>1, <2>2 DEF NetDeliver, Loaded
<1>6. ASSUME NEW d \in net, NetRefuse(d) PROVE TunnelInv'
  <2>1. [to |-> Peer[d.to], body |-> Refused] \in Datagram
    BY Ends DEF Datagram
  <2> QED
    BY <1>6, <2>1 DEF NetRefuse, Loaded
<1>7. ASSUME NEW d \in net, NetError(d) PROVE TunnelInv'
  <2>1. d.to \in Endpoint
    BY DEF Datagram
  <2> QED
    BY <1>7, <2>1 DEF NetError, Loaded
<1>8. CASE UNCHANGED vars
  BY <1>8 DEF vars, Loaded
<1> QED
  BY <1>1, <1>2, <1>3, <1>4, <1>5, <1>6, <1>7, <1>8, LoopInv DEF Next

LEMMA Tunnelling == Spec => []TunnelInv
BY InitTunnel, NextTunnel, PTL DEF Spec

(* Every variable of the two processes and of the kernels holds a value of *)
(* its type; in particular no queue grows past its capacity.               *)
THEOREM TunnelTypeCorrect == Spec => []TypeOK
<1>1. TunnelInv => TypeOK
  BY DEF TunnelInv
<1> QED
  BY <1>1, Tunnelling, PTL

-----------------------------------------------------------------------------
(* A process that waits in read() of its socket has been refused.          *)

(* What select() said of the socket still holds when the process gets to   *)
(* it, unless an ICMP error was what made it ready.                        *)
Promised(e) ==
  \/ pc[e] \in {"readtun", "writesock"} /\ "sock" \in rset[e]
  \/ pc[e] = "readsock"

RefusalInv ==
  \A e \in Endpoint :
    /\ err[e] => refused[e]
    /\ Promised(e) => sockq[e] # << >> \/ refused[e]

LEMMA LoopRefusal ==
  ASSUME TunnelInv, RefusalInv, NEW e \in Endpoint, Loop(e)
  PROVE  RefusalInv'
<1> USE DEF At, GoTo, process, history, TypeOK
<1>t. TypeOK /\ AfterTun(e) \in {"readsock", "select"}
      /\ (AfterTun(e) = "readsock" => "sock" \in rset[e])
  BY DEF TunnelInv, AfterTun
<1>1. \A x \in Endpoint \ {e} :
        /\ pc'[x] = pc[x] /\ rset'[x] = rset[x] /\ sockq'[x] = sockq[x]
        /\ err'[x] = err[x] /\ refused'[x] = refused[x]
  BY <1>t DEF Loop, Select, ReadTun, ReadTunError, WriteSock, ReadSock, WriteTun
<1>2. refused'[e] = refused[e] /\ (err'[e] => err[e])
  BY <1>t DEF Loop, Select, ReadTun, ReadTunError, WriteSock, ReadSock, WriteTun
<1>3. Promised(e)' => sockq'[e] # << >> \/ refused[e]
  <2>1. CASE Select(e)
    BY <1>t, <2>1 DEF Select, Ready, Readable, Promised, RefusalInv, Fd
  <2>2. CASE ReadTun(e)
    BY <1>t, <2>2 DEF ReadTun, Promised, RefusalInv, AfterTun
  <2>3. CASE ReadTunError(e) \/ WriteSock(e)
    BY <1>t, <2>3 DEF ReadTunError, WriteSock, Promised, RefusalInv, AfterTun
  <2>4. CASE ReadSock(e) \/ WriteTun(e)
    <3>1. pc'[e] \in {"select", "writetun"}
      BY <1>t, <2>4 DEF ReadSock, WriteTun
    <3> QED
      BY <3>1 DEF Promised
  <2> QED
    BY <2>1, <2>2, <2>3, <2>4 DEF Loop
<1> QED
  BY <1>1, <1>2, <1>3 DEF RefusalInv, Promised

LEMMA NextRefusal == TunnelInv /\ RefusalInv /\ [Next]_vars => RefusalInv'
<1> SUFFICES ASSUME TunnelInv, RefusalInv, [Next]_vars PROVE RefusalInv'
  OBVIOUS
<1> USE DEF TypeOK, process, history
<1>t. TypeOK
  BY DEF TunnelInv
<1>1. ASSUME NEW e \in Endpoint, Start(e) PROVE RefusalInv'
  BY <1>1 DEF Start, RefusalInv, Promised
<1>2. ASSUME NEW e \in Endpoint, Stop(e) PROVE RefusalInv'
  <2>1. \A x \in Endpoint \ {e} :
          /\ pc'[x] = pc[x] /\ rset'[x] = rset[x] /\ sockq'[x] = sockq[x]
          /\ err'[x] = err[x] /\ refused'[x] = refused[x]
    BY <1>2, <1>t DEF Stop
  <2>2. pc'[e] = "select" /\ ~err'[e]
    BY <1>2, <1>t DEF Stop
  <2> QED
    BY <2>1, <2>2 DEF RefusalInv, Promised
<1>3. ASSUME NEW e \in Endpoint, NEW f \in Frame, Offer(e, f) PROVE RefusalInv'
  BY <1>3 DEF Offer, RefusalInv, Promised
<1>4. ASSUME NEW d \in net, NetLose(d) PROVE RefusalInv'
  BY <1>4 DEF NetLose, RefusalInv, Promised
<1>5. ASSUME NEW d \in net, NetDeliver(d) PROVE RefusalInv'
  <2>1. d.to \in Endpoint /\ d.body \in Frame
    BY <1>5, <1>t DEF NetDeliver, Datagram
  <2>2. \A x \in Endpoint : sockq'[x] = sockq[x] \/ sockq'[x] # << >>
    <3>1. Append(sockq[d.to], d.body) # << >>
      BY <1>5, <1>t, <2>1, AppendToQueue DEF NetDeliver
    <3> QED
      BY <1>5, <1>t, <2>1, <3>1 DEF NetDeliver
  <2>3. pc' = pc /\ rset' = rset /\ err' = err /\ refused' = refused
    BY <1>5 DEF NetDeliver
  <2> QED
    BY <2>2, <2>3 DEF RefusalInv, Promised
<1>6. ASSUME NEW d \in net, NetRefuse(d) PROVE RefusalInv'
  BY <1>6 DEF NetRefuse, RefusalInv, Promised
<1>7. ASSUME NEW d \in net, NetError(d) PROVE RefusalInv'
  <2>1. /\ pc' = pc /\ rset' = rset /\ sockq' = sockq
        /\ \A x \in Endpoint : (refused[x] => refused'[x]) /\ (err'[x] => err[x] \/ refused'[x])
    BY <1>7, <1>t DEF NetError, Datagram
  <2> QED
    BY <2>1 DEF RefusalInv, Promised
<1>8. CASE UNCHANGED vars
  BY <1>8 DEF vars, RefusalInv, Promised
<1> QED
  BY <1>1, <1>2, <1>3, <1>4, <1>5, <1>6, <1>7, <1>8, LoopRefusal DEF Next

(* tunudp.c's second read of a pass, on the bit that select() set before   *)
(* the first, waits for a datagram only after the peer was unreachable.    *)
THEOREM BlockedAfterRefusal == Spec => []BlockedOnlyAfterRefusal
<1>1. Init => RefusalInv
  BY DEF Init, RefusalInv, Promised
<1>2. RefusalInv => BlockedOnlyAfterRefusal
  BY DEF RefusalInv, Promised, BlockedOnlyAfterRefusal, Blocked, At, Readable
<1> QED
  BY <1>1, <1>2, NextRefusal, Tunnelling, PTL DEF Spec

-----------------------------------------------------------------------------
(* The refinement.  Out(e) is what is on its way to the end e before it    *)
(* has been read from the socket; OnTheWay(e) is what may come out.        *)

Out(e) ==
  {Outgoing[f] : f \in Range(tunq[Peer[e]])}
  \cup (IF pc[Peer[e]] = "writesock" THEN {buffer[Peer[e]]} ELSE {})
  \cup {d.body : d \in {n \in net : n.to = e /\ n.body # Refused}}
  \cup Range(sockq[e])

Emerging(e) == IF pc[e] = "writetun" THEN {buffer[e]} ELSE {}

LEMMA FlightOf ==
  ASSUME NEW e
  PROVE  OnTheWay(e) = ({Incoming[f] : f \in Out(e)} \cap Relayed) \cup Emerging(e)
BY DEF OnTheWay, Out, Emerging

Flight == [e \in Endpoint |-> OnTheWay(e)]

LEMMA FlightType == TunnelInv => Flight \in [Endpoint -> SUBSET Frame]
<1> SUFFICES ASSUME TunnelInv, NEW e \in Endpoint PROVE OnTheWay(e) \subseteq Frame
  BY DEF Flight
<1>1. Relayed \subseteq Frame
  BY TunnelAssumption
<1>2. Emerging(e) \subseteq Frame
  BY <1>1 DEF TunnelInv, Loaded, Emerging
<1> QED
  BY <1>1, <1>2, FlightOf

(* A step that adds nothing to either direction is a loss, or no step at   *)
(* all, of the pipe.                                                       *)
LEMMA LosingStep ==
  ASSUME TunnelInv, sent' = sent, got' = got,
         \A e \in Endpoint : Out(e)' \subseteq Out(e),
         \A e \in Endpoint : Emerging(e)' \subseteq OnTheWay(e)
  PROVE  Pipe!Lose
<1>1. \A e \in Endpoint : OnTheWay(e)' \subseteq OnTheWay(e)
  <2> SUFFICES ASSUME NEW e \in Endpoint, NEW x \in OnTheWay(e)' PROVE x \in OnTheWay(e)
    OBVIOUS
  <2>1. OnTheWay(e)' = ({Incoming[f] : f \in Out(e)'} \cap Relayed) \cup Emerging(e)'
    BY DEF OnTheWay, Out, Emerging
  <2>2. Out(e)' \subseteq Out(e) /\ Emerging(e)' \subseteq OnTheWay(e)
    OBVIOUS
  <2> QED
    BY <2>1, <2>2, FlightOf
<1>2. Flight' \in [Endpoint -> SUBSET Frame]
  <2>1. \A e \in Endpoint : OnTheWay(e) \subseteq Frame
    BY FlightType DEF Flight
  <2>2. \A e \in Endpoint : OnTheWay(e)' \in SUBSET Frame
    BY <1>1, <2>1
  <2> QED
    BY <2>2 DEF Flight
<1> QED
  BY <1>1, <1>2 DEF Pipe!Lose, Flight, Pipe!End, Endpoint

LEMMA OutHolds ==
  ASSUME NEW e
  PROVE  /\ \A f \in Range(tunq[Peer[e]]) : Outgoing[f] \in Out(e)
         /\ pc[Peer[e]] = "writesock" => buffer[Peer[e]] \in Out(e)
         /\ \A d \in net : d.to = e /\ d.body # Refused => d.body \in Out(e)
         /\ \A f \in Range(sockq[e]) : f \in Out(e)
BY DEF Out

(* Where a frame on its way to e can be after a step, if it was on its way *)
(* before.                                                                 *)
NothingNew(e) ==
  /\ Range(tunq[Peer[e]])' \subseteq Range(tunq[Peer[e]])
  /\ pc'[Peer[e]] = "writesock" => buffer'[Peer[e]] \in Out(e)
  /\ \A d \in net' : d.to = e /\ d.body # Refused => d.body \in Out(e)
  /\ Range(sockq[e])' \subseteq Out(e)
  /\ pc'[e] = "writetun" => buffer'[e] \in OnTheWay(e)

LEMMA Lossy ==
  ASSUME TunnelInv, sent' = sent, got' = got,
         \A e \in Endpoint : NothingNew(e)
  PROVE  Pipe!Lose
<1>1. ASSUME NEW e \in Endpoint PROVE Out(e)' \subseteq Out(e)
  <2>1. NothingNew(e)
    OBVIOUS
  <2>2. \A f \in Range(tunq[Peer[e]])' : Outgoing[f] \in Out(e)
    BY <2>1, OutHolds DEF NothingNew
  <2> QED
    BY <2>1, <2>2 DEF NothingNew, Out
<1>2. ASSUME NEW e \in Endpoint PROVE Emerging(e)' \subseteq OnTheWay(e)
  BY DEF NothingNew, Emerging
<1> QED
  BY <1>1, <1>2, LosingStep

(* What a step leaves alone brings nothing new.                            *)
LEMMA Unmoved ==
  ASSUME NEW e \in Endpoint
  PROVE  /\ tunq'[Peer[e]] = tunq[Peer[e]] => Range(tunq[Peer[e]])' \subseteq Range(tunq[Peer[e]])
         /\ pc'[Peer[e]] = pc[Peer[e]] /\ buffer'[Peer[e]] = buffer[Peer[e]] =>
              (pc'[Peer[e]] = "writesock" => buffer'[Peer[e]] \in Out(e))
         /\ net' \subseteq net =>
              \A d \in net' : d.to = e /\ d.body # Refused => d.body \in Out(e)
         /\ sockq'[e] = sockq[e] => Range(sockq[e])' \subseteq Out(e)
         /\ pc'[e] = pc[e] /\ buffer'[e] = buffer[e] =>
              (pc'[e] = "writetun" => buffer'[e] \in OnTheWay(e))
<1>1. pc[e] = "writetun" => buffer[e] \in OnTheWay(e)
  BY FlightOf DEF Emerging
<1> QED
  BY <1>1, OutHolds DEF Range

LEMMA LoopLoses ==
  ASSUME TunnelInv, NEW x \in Endpoint, Loop(x), got' = got
  PROVE  Pipe!Lose
<1> DEFINE y == Peer[x]
<1> USE DEF At, GoTo, process, history, TypeOK
<1>t. /\ TypeOK /\ y \in Endpoint /\ y # x /\ Peer[y] = x
      /\ \A e \in Endpoint : e = x \/ e = y
      /\ AfterTun(x) \in {"select", "readsock"}
  BY Ends DEF TunnelInv, AfterTun
<1>s. sent' = sent
  BY DEF Loop, Select, ReadTun, ReadTunError, WriteSock, ReadSock, WriteTun
<1>f. /\ pc'[y] = pc[y] /\ buffer'[y] = buffer[y]
      /\ tunq'[y] = tunq[y] /\ sockq'[y] = sockq[y]
  BY <1>t DEF Loop, Select, ReadTun, ReadTunError, WriteSock, ReadSock, WriteTun
<1> HIDE DEF y
<1>1. CASE Select(x) \/ ReadTunError(x) \/ WriteTun(x)
  <2>1. /\ pc'[x] \notin {"writesock", "writetun"} /\ net' = net
        /\ tunq'[x] = tunq[x] /\ sockq'[x] = sockq[x]
    BY <1>1, <1>t DEF Select, ReadTunError, WriteTun
  <2>2. NothingNew(x) /\ NothingNew(y)
    BY <2>1, <1>t, <1>f, Unmoved DEF NothingNew, y
  <2> QED
    BY <2>2, <1>t, <1>s, Lossy
<1>2. CASE ReadTun(x)
  <2>1. Head(tunq[x]) \in Range(tunq[x]) /\ Range(Tail(tunq[x])) \subseteq Range(tunq[x])
    BY <1>2, <1>t, TailOfQueue DEF ReadTun
  <2>2. /\ tunq'[x] = Tail(tunq[x]) /\ sockq'[x] = sockq[x] /\ net' = net
        /\ buffer'[x] = Outgoing[Head(tunq[x])] /\ pc'[x] # "writetun"
    BY <1>2, <1>t DEF ReadTun
  <2>3. Range(tunq[x])' \subseteq Range(tunq[x])
    BY <2>1, <2>2 DEF Range
  <2>4. buffer'[x] \in Out(y)
    BY <2>1, <2>2, <1>t, OutHolds
  <2>5. NothingNew(x) /\ NothingNew(y)
    BY <2>2, <2>3, <2>4, <1>t, <1>f, Unmoved DEF NothingNew, y
  <2> QED
    BY <2>5, <1>t, <1>s, Lossy
<1>3. CASE WriteSock(x)
  <2>1. /\ pc'[x] \notin {"writesock", "writetun"} /\ pc[x] = "writesock"
        /\ tunq'[x] = tunq[x] /\ sockq'[x] = sockq[x]
        /\ net' \subseteq net \cup {[to |-> y, body |-> buffer[x]]}
    BY <1>3, <1>t DEF WriteSock, y
  <2>2. buffer[x] \in Out(y)
    BY <2>1, <1>t, OutHolds
  <2>3. \A e \in Endpoint : \A d \in net' : d.to = e /\ d.body # Refused => d.body \in Out(e)
    BY <2>1, <2>2, <1>t, OutHolds
  <2>4. NothingNew(x) /\ NothingNew(y)
    BY <2>1, <2>3, <1>t, <1>f, Unmoved DEF NothingNew, y
  <2> QED
    BY <2>4, <1>t, <1>s, Lossy
<1>4. CASE ReadSock(x)
  <2>1. /\ pc'[x] # "writesock" /\ net' = net /\ tunq'[x] = tunq[x]
    BY <1>4, <1>t DEF ReadSock
  <2>2. CASE err[x]
    <3>1. pc'[x] # "writetun" /\ sockq'[x] = sockq[x]
      BY <1>4, <2>2, <1>t DEF ReadSock
    <3>2. NothingNew(x) /\ NothingNew(y)
      BY <2>1, <3>1, <1>t, <1>f, Unmoved DEF NothingNew, y
    <3> QED
      BY <3>2, <1>t, <1>s, Lossy
  <2>3. CASE ~err[x]
    <3>1. Head(sockq[x]) \in Range(sockq[x]) /\ Range(Tail(sockq[x])) \subseteq Range(sockq[x])
      BY <1>4, <2>3, <1>t, TailOfQueue DEF ReadSock
    <3>2. /\ sockq'[x] = Tail(sockq[x]) /\ buffer'[x] = Incoming[Head(sockq[x])]
          /\ pc'[x] = "writetun" => buffer'[x] \in Relayed
      BY <1>4, <2>3, <1>t DEF ReadSock
    <3>3. Range(sockq[x])' \subseteq Out(x)
      BY <3>1, <3>2, OutHolds DEF Range
    <3>4. pc'[x] = "writetun" => buffer'[x] \in OnTheWay(x)
      BY <3>1, <3>2, OutHolds, FlightOf
    <3>5. NothingNew(x) /\ NothingNew(y)
      BY <2>1, <3>3, <3>4, <1>t, <1>f, Unmoved DEF NothingNew, y
    <3> QED
      BY <3>5, <1>t, <1>s, Lossy
  <2> QED
    BY <2>2, <2>3
<1> QED
  BY <1>1, <1>2, <1>3, <1>4 DEF Loop

(* A write to the device that succeeds delivers what is in the buffer.     *)
LEMMA WriteTunDelivers ==
  ASSUME TunnelInv, NEW x \in Endpoint, WriteTun(x),
         got' = [got EXCEPT ![x] = @ \cup {buffer[x]}]
  PROVE  Pipe!Deliver(x, buffer[x])
<1> DEFINE y == Peer[x]
<1> USE DEF At, GoTo, history, TypeOK
<1>t. /\ TypeOK /\ y \in Endpoint /\ y # x /\ Peer[y] = x
      /\ \A e \in Endpoint : e = x \/ e = y
  BY Ends DEF TunnelInv
<1>1. /\ sent' = sent /\ tunq' = tunq /\ sockq' = sockq /\ net' = net /\ buffer' = buffer
      /\ pc[x] = "writetun" /\ pc'[x] = "select" /\ pc'[y] = pc[y]
  BY <1>t DEF WriteTun
<1> HIDE DEF y
<1>2. Out(x)' = Out(x) /\ Out(y)' = Out(y)
  BY <1>1, <1>t DEF Out, y
<1>3. Emerging(x) = {buffer[x]} /\ Emerging(x)' = {} /\ Emerging(y)' = Emerging(y)
  BY <1>1 DEF Emerging
<1> DEFINE Base(e) == {Incoming[f] : f \in Out(e)} \cap Relayed
<1>4. /\ OnTheWay(x) = Base(x) \cup {buffer[x]} /\ OnTheWay(x)' = Base(x)
      /\ OnTheWay(y)' = OnTheWay(y)
  <2>1. \A e : OnTheWay(e)' = ({Incoming[f] : f \in Out(e)'} \cap Relayed) \cup Emerging(e)'
    BY DEF OnTheWay, Out, Emerging
  <2> QED
    BY <1>2, <1>3, <2>1, FlightOf
<1>5. \/ OnTheWay(x)' = OnTheWay(x)
      \/ OnTheWay(x)' = OnTheWay(x) \ {buffer[x]}
  <2> HIDE DEF Base
  <2> QED
    BY <1>4
<1> HIDE DEF Base
<1>6. buffer[x] \in Flight[x]
  BY <1>4 DEF Flight
<1>7. CASE OnTheWay(x)' = OnTheWay(x)
  <2>1. Flight' = Flight
    BY <1>4, <1>7, <1>t DEF Flight
  <2> QED
    BY <1>1, <1>6, <2>1 DEF Pipe!Deliver, Flight
<1>8. CASE OnTheWay(x)' = OnTheWay(x) \ {buffer[x]}
  <2>1. \A e \in Endpoint :
          OnTheWay(e)' = IF e = x THEN OnTheWay(x) \ {buffer[x]} ELSE OnTheWay(e)
    BY <1>4, <1>8, <1>t
  <2>2. Flight' = [Flight EXCEPT ![x] = @ \ {buffer[x]}]
    BY <2>1 DEF Flight
  <2> QED
    BY <1>1, <1>6, <2>2 DEF Pipe!Deliver, Flight
<1> QED
  BY <1>5, <1>7, <1>8

(* A frame that an application writes is accepted by the pipe.             *)
LEMMA OfferAccepts ==
  ASSUME TunnelInv, NEW x \in Endpoint, NEW f \in Frame, Offer(x, f)
  PROVE  Pipe!Accept(x, f)
<1> DEFINE y == Peer[x]
<1>t. /\ TypeOK /\ y \in Endpoint /\ y # x /\ Peer[y] = x
      /\ \A e \in Endpoint : e = x \/ e = y
      /\ Pipe!Opposite[x] = y
  BY Ends DEF TunnelInv, Pipe!Opposite, Pipe!End, Peer, Endpoint
<1>1. /\ sent' = [sent EXCEPT ![x] = @ \cup {f}] /\ got' = got
      /\ tunq' = [tunq EXCEPT ![x] = Append(@, f)] /\ Len(tunq[x]) < MaxQueue
      /\ sockq' = sockq /\ net' = net /\ buffer' = buffer /\ pc' = pc
  BY DEF Offer, process
<1>2. Range(tunq[x])' = Range(tunq[x]) \cup {f} /\ tunq'[y] = tunq[y]
  <2>1. tunq[x] \in Queue /\ tunq'[x] = Append(tunq[x], f) /\ tunq'[y] = tunq[y]
    BY <1>1, <1>t DEF TypeOK
  <2>2. Range(Append(tunq[x], f)) = Range(tunq[x]) \cup {f}
    BY <1>1, <2>1, AppendToQueue
  <2> QED
    BY <2>1, <2>2 DEF Range
<1>3. Out(y)' = Out(y) \cup {Outgoing[f]} /\ Out(x)' = Out(x)
  <2>1. {Outgoing[h] : h \in Range(tunq[x]) \cup {f}}
          = {Outgoing[h] : h \in Range(tunq[x])} \cup {Outgoing[f]}
    OBVIOUS
  <2>2. Range(tunq'[x]) = Range(tunq[x]) \cup {f}
    BY <1>2 DEF Range
  <2> HIDE DEF y
  <2>3. Out(y)' = Out(y) \cup {Outgoing[f]}
    BY <1>1, <1>t, <2>1, <2>2 DEF Out
  <2>4. Out(x)' = Out(x)
    BY <1>1, <1>t, <1>2 DEF Out, y
  <2> QED
    BY <2>3, <2>4
<1> HIDE DEF y
<1>4. Emerging(x)' = Emerging(x) /\ Emerging(y)' = Emerging(y)
  BY <1>1 DEF Emerging
<1>5. \A e : OnTheWay(e)' = ({Incoming[h] : h \in Out(e)'} \cap Relayed) \cup Emerging(e)'
  BY DEF OnTheWay, Out, Emerging
<1>6. OnTheWay(x)' = OnTheWay(x)
  BY <1>3, <1>4, <1>5, FlightOf
<1> DEFINE through == {Incoming[Outgoing[f]]} \cap Relayed
<1>7. OnTheWay(y)' = OnTheWay(y) \cup through
  <2>1. {Incoming[h] : h \in Out(y) \cup {Outgoing[f]}}
          = {Incoming[h] : h \in Out(y)} \cup {Incoming[Outgoing[f]]}
    OBVIOUS
  <2> QED
    BY <1>3, <1>4, <1>5, <2>1, FlightOf
<1>8. through = {[h \in Frame |-> Incoming[Outgoing[h]]][f]} \cap Relayed
  OBVIOUS
<1> HIDE DEF through
<1>9. Flight' = [Flight EXCEPT ![y] = @ \cup through]
  <2>1. \A e \in Endpoint :
          OnTheWay(e)' = IF e = y THEN OnTheWay(y) \cup through ELSE OnTheWay(e)
    BY <1>6, <1>7, <1>t
  <2> QED
    BY <2>1 DEF Flight
<1> QED
  BY <1>1, <1>8, <1>9, <1>t DEF Pipe!Accept, Flight

LEMMA RestLoses ==
  ASSUME TunnelInv,
         \/ \E e \in Endpoint : Start(e) \/ Stop(e)
         \/ \E d \in net : NetLose(d) \/ NetDeliver(d) \/ NetRefuse(d) \/ NetError(d)
  PROVE  Pipe!Lose
<1> USE DEF process, history, TypeOK
<1>t. TypeOK
  BY DEF TunnelInv
<1>p. \A e \in Endpoint : Peer[e] \in Endpoint
  BY Ends
<1>1. ASSUME NEW x \in Endpoint, Start(x) PROVE Pipe!Lose
  <2>1. \A e \in Endpoint : NothingNew(e)
    BY <1>1, Unmoved DEF Start, NothingNew
  <2> QED
    BY <1>1, <2>1, Lossy DEF Start
<1>2. ASSUME NEW x \in Endpoint, Stop(x) PROVE Pipe!Lose
  <2>1. /\ pc'[x] = "select" /\ tunq'[x] = << >> /\ sockq'[x] = << >> /\ net' = net
        /\ \A e \in Endpoint \ {x} : /\ pc'[e] = pc[e] /\ buffer'[e] = buffer[e]
                                     /\ tunq'[e] = tunq[e] /\ sockq'[e] = sockq[e]
    BY <1>2, <1>t DEF Stop
  <2>2. Range(tunq[x])' = {} /\ Range(sockq[x])' = {}
    BY <2>1, EmptyQueue DEF Range
  <2>3. ASSUME NEW e \in Endpoint PROVE NothingNew(e)
    <3>1. Range(tunq[Peer[e]])' \subseteq Range(tunq[Peer[e]])
      BY <2>1, <2>2, <1>p, Unmoved
    <3>2. Range(sockq[e])' \subseteq Out(e)
      BY <2>1, <2>2, Unmoved
    <3>3. pc'[Peer[e]] = "writesock" => buffer'[Peer[e]] \in Out(e)
      BY <2>1, <1>p, Unmoved
    <3>4. pc'[e] = "writetun" => buffer'[e] \in OnTheWay(e)
      BY <2>1, Unmoved
    <3> QED
      BY <2>1, <3>1, <3>2, <3>3, <3>4, Unmoved DEF NothingNew
  <2> QED
    BY <1>2, <2>3, Lossy DEF Stop
<1>3. ASSUME NEW d \in net, NetLose(d) PROVE Pipe!Lose
  <2>1. \A e \in Endpoint : NothingNew(e)
    BY <1>3, Unmoved DEF NetLose, NothingNew
  <2> QED
    BY <1>3, <2>1, Lossy DEF NetLose
<1>4. ASSUME NEW d \in net, NetDeliver(d) PROVE Pipe!Lose
  <2>1. d.to \in Endpoint /\ d.body \in Frame /\ d.body # Refused
    BY <1>4, <1>t DEF NetDeliver, Datagram
  <2>2. Range(Append(sockq[d.to], d.body)) = Range(sockq[d.to]) \cup {d.body}
    BY <1>4, <1>t, <2>1, AppendToQueue DEF NetDeliver
  <2>3. /\ sockq'[d.to] = Append(sockq[d.to], d.body)
        /\ \A e \in Endpoint \ {d.to} : sockq'[e] = sockq[e]
        /\ pc' = pc /\ buffer' = buffer /\ tunq' = tunq /\ net' \subseteq net
        /\ sent' = sent /\ got' = got
    BY <1>4, <1>t, <2>1 DEF NetDeliver
  <2>4. d.body \in Out(d.to)
    BY <2>1, OutHolds
  <2>5. Range(sockq[d.to])' \subseteq Out(d.to)
    BY <2>1, <2>2, <2>3, <2>4, OutHolds DEF Range
  <2>6. ASSUME NEW e \in Endpoint PROVE NothingNew(e)
    <3>1. Range(sockq[e])' \subseteq Out(e)
      BY <2>3, <2>5, Unmoved
    <3> QED
      BY <2>3, <3>1, <1>p, Unmoved DEF NothingNew
  <2> QED
    BY <2>3, <2>6, Lossy
<1>5. ASSUME NEW d \in net, NetRefuse(d) PROVE Pipe!Lose
  <2>1. /\ pc' = pc /\ buffer' = buffer /\ tunq' = tunq /\ sockq' = sockq
        /\ sent' = sent /\ got' = got
        /\ \A n \in net' : n \in net \/ n.body = Refused
    BY <1>5 DEF NetRefuse
  <2>2. ASSUME NEW e \in Endpoint PROVE NothingNew(e)
    <3>1. \A n \in net' : n.to = e /\ n.body # Refused => n.body \in Out(e)
      BY <2>1, OutHolds
    <3> QED
      BY <2>1, <3>1, <1>p, Unmoved DEF NothingNew
  <2> QED
    BY <2>1, <2>2, Lossy
<1>6. ASSUME NEW d \in net, NetError(d) PROVE Pipe!Lose
  <2>1. \A e \in Endpoint : NothingNew(e)
    BY <1>6, Unmoved DEF NetError, NothingNew
  <2> QED
    BY <1>6, <2>1, Lossy DEF NetError
<1> QED
  BY <1>1, <1>2, <1>3, <1>4, <1>5, <1>6

LEMMA StepImplements == TunnelInv /\ [Next]_vars => [Pipe!Next]_(Pipe!vars)
<1> SUFFICES ASSUME TunnelInv, [Next]_vars PROVE Pipe!Next \/ UNCHANGED Pipe!vars
  OBVIOUS
<1>1. ASSUME NEW e \in Endpoint, Loop(e) PROVE Pipe!Next
  <2>1. CASE got' = got
    BY <1>1, <2>1, LoopLoses DEF Pipe!Next
  <2>2. CASE got' # got
    <3>1. WriteTun(e) /\ got' = [got EXCEPT ![e] = @ \cup {buffer[e]}]
      BY <1>1, <2>2 DEF Loop, Select, ReadTun, ReadTunError, WriteSock, ReadSock, WriteTun,
                        history
    <3>2. buffer[e] \in Frame
      BY <3>1, TunnelAssumption DEF WriteTun, At, TunnelInv, Loaded
    <3>3. Pipe!Deliver(e, buffer[e])
      BY <3>1, WriteTunDelivers
    <3> QED
      BY <3>2, <3>3 DEF Pipe!Next, Pipe!End, Endpoint
  <2> QED
    BY <2>1, <2>2
<1>2. CASE \/ \E e \in Endpoint : Start(e) \/ Stop(e)
           \/ \E d \in net : NetLose(d) \/ NetDeliver(d) \/ NetRefuse(d) \/ NetError(d)
  BY <1>2, RestLoses DEF Pipe!Next
<1>3. ASSUME NEW e \in Endpoint, NEW f \in Frame, Offer(e, f) PROVE Pipe!Next
  BY <1>3, OfferAccepts DEF Pipe!Next, Pipe!End, Endpoint
<1>4. CASE UNCHANGED vars
  <2>1. \A e : OnTheWay(e)' = OnTheWay(e)
    BY <1>4 DEF vars, process, history, OnTheWay, Range
  <2> QED
    BY <1>4, <2>1 DEF Pipe!vars, vars, history
<1> QED
  BY <1>1, <1>2, <1>3, <1>4 DEF Next

LEMMA InitImplements == Init => Pipe!Init
<1> SUFFICES ASSUME Init PROVE Pipe!Init
  OBVIOUS
<1>1. ASSUME NEW e \in Endpoint PROVE OnTheWay(e) = {}
  <2>1. /\ Range(tunq[Peer[e]]) = {} /\ Range(sockq[e]) = {} /\ net = {}
        /\ pc[Peer[e]] = "select" /\ pc[e] = "select"
    BY Ends, EmptyQueue DEF Init
  <2>2. Out(e) = {} /\ Emerging(e) = {}
    BY <2>1 DEF Out, Emerging
  <2> QED
    BY <2>2, FlightOf
<1> QED
  BY <1>1 DEF Init, Pipe!Init, Pipe!End, Endpoint

(* Two of these programs and the kernels between them are a pipe: crashes, *)
(* restarts, ICMP errors and failing calls only ever lose frames, and      *)
(* nothing but what both directions let pass comes out.                    *)
THEOREM TunnelImplementsPipe == Spec => ImplementsPipe
BY InitImplements, StepImplements, Tunnelling, PTL DEF Spec, ImplementsPipe, Pipe!Spec

(* What a pipe never does: what is in it and what has come out of it was   *)
(* accepted at the other end.                                              *)
Accepted(e) == {Incoming[Outgoing[f]] : f \in sent[Peer[e]]} \cap Relayed

PipeInv == \A e \in Endpoint : OnTheWay(e) \cup got[e] \subseteq Accepted(e)

LEMMA NextPipe == TypeOK /\ PipeInv /\ [Pipe!Next]_(Pipe!vars) => PipeInv'
<1> SUFFICES ASSUME TypeOK, PipeInv, [Pipe!Next]_(Pipe!vars) PROVE PipeInv'
  OBVIOUS
<1>t. /\ Pipe!End = Endpoint /\ Pipe!Opposite = Peer
      /\ sent \in [Endpoint -> SUBSET Frame] /\ got \in [Endpoint -> SUBSET Frame]
      /\ Flight = [e \in Endpoint |-> OnTheWay(e)]
      /\ \A e \in Endpoint : Flight[e] \subseteq Accepted(e) /\ got[e] \subseteq Accepted(e)
  BY DEF Pipe!End, Pipe!Opposite, Peer, Endpoint, TypeOK, PipeInv, Flight
<1>g. ASSUME \A e \in Endpoint : /\ sent[Peer[e]] \subseteq sent'[Peer[e]]
                                 /\ Flight'[e] \cup got'[e] \subseteq Accepted(e)'
      PROVE  PipeInv'
  BY <1>g DEF PipeInv, Flight
<1>s. ASSUME sent' = sent PROVE \A e \in Endpoint : Accepted(e)' = Accepted(e)
  BY <1>s DEF Accepted
<1>1. ASSUME NEW x \in Endpoint, NEW f \in Frame, Pipe!Accept(x, f) PROVE PipeInv'
  <2> DEFINE through == {Incoming[Outgoing[f]]} \cap Relayed
  <2>1. /\ sent' = [sent EXCEPT ![x] = @ \cup {f}] /\ got' = got
        /\ Flight' = [Flight EXCEPT ![Peer[x]] = @ \cup through]
    BY <1>1, <1>t DEF Pipe!Accept, Flight
  <2>2. ASSUME NEW e \in Endpoint
        PROVE  /\ sent[Peer[e]] \subseteq sent'[Peer[e]]
               /\ Flight'[e] \cup got'[e] \subseteq Accepted(e)'
    <3>1. Peer[e] \in Endpoint /\ (Peer[e] = x <=> e = Peer[x])
      BY Ends
    <3>2. sent'[Peer[e]] = IF Peer[e] = x THEN sent[Peer[e]] \cup {f} ELSE sent[Peer[e]]
      BY <2>1, <3>1, <1>t
    <3>3. Accepted(e) \subseteq Accepted(e)' /\ (Peer[e] = x => through \subseteq Accepted(e)')
      BY <3>2 DEF Accepted
    <3>4. Flight'[e] \subseteq Flight[e] \cup (IF Peer[e] = x THEN through ELSE {})
      BY <2>1, <3>1, <1>t
    <3> HIDE DEF through
    <3> QED
      BY <2>1, <3>2, <3>3, <3>4, <1>t
  <2> QED
    BY <2>2, <1>g
<1>2. ASSUME NEW x \in Endpoint, NEW f \in Frame, Pipe!Deliver(x, f) PROVE PipeInv'
  <2>1. /\ sent' = sent /\ f \in Flight[x] /\ got' = [got EXCEPT ![x] = @ \cup {f}]
        /\ Flight' = Flight \/ Flight' = [Flight EXCEPT ![x] = @ \ {f}]
    BY <1>2 DEF Pipe!Deliver, Flight
  <2>2. \A e \in Endpoint : Flight'[e] \subseteq Flight[e]
    BY <2>1, <1>t
  <2>3. \A e \in Endpoint : got'[e] = IF e = x THEN got[e] \cup {f} ELSE got[e]
    BY <2>1, <1>t
  <2> QED
    BY <2>1, <2>2, <2>3, <1>t, <1>s, <1>g
<1>3. CASE Pipe!Lose
  <2>1. sent' = sent /\ got' = got /\ \A e \in Endpoint : Flight'[e] \subseteq Flight[e]
    BY <1>3, <1>t DEF Pipe!Lose, Flight
  <2> QED
    BY <2>1, <1>t, <1>s, <1>g
<1>4. CASE UNCHANGED Pipe!vars
  <2>1. sent' = sent /\ got' = got /\ Flight' = Flight
    BY <1>4 DEF Pipe!vars, Flight
  <2> QED
    BY <2>1, <1>t, <1>s, <1>g
<1> QED
  BY <1>1, <1>2, <1>3, <1>4, <1>t DEF Pipe!Next

(* What comes out of a device was written to the other one, and is what    *)
(* the reads at both ends make of such a frame, if they let it pass.       *)
THEOREM OnlyAcceptedFrames == Spec => []PipeInv
<1>1. Init => PipeInv
  <2> SUFFICES ASSUME Init PROVE PipeInv
    OBVIOUS
  <2>1. Pipe!Init
    BY InitImplements
  <2> QED
    BY <2>1 DEF Pipe!Init, Pipe!End, Endpoint, PipeInv
<1>2. TunnelInv /\ PipeInv /\ [Next]_vars => PipeInv'
  BY NextPipe, StepImplements DEF TunnelInv
<1> QED
  BY <1>1, <1>2, Tunnelling, PTL DEF Spec

(* Where, as in tunudp.c, no read cuts a frame off, the device passes on   *)
(* exactly frames of the other end: the one buffer that serves both        *)
(* directions never sends what another read left in it.                    *)
THEOREM TunnelIsTransparent ==
  ASSUME \A f \in Frame : Incoming[Outgoing[f]] = f
  PROVE  Spec => []Transparent
<1>1. TypeOK /\ PipeInv => Transparent
  <2> SUFFICES ASSUME TypeOK, PipeInv, NEW e \in Endpoint PROVE got[e] \subseteq sent[Peer[e]]
    BY DEF Transparent
  <2>1. sent[Peer[e]] \subseteq Frame
    BY Ends DEF TypeOK
  <2>2. Accepted(e) \subseteq sent[Peer[e]]
    BY <2>1 DEF Accepted
  <2> QED
    BY <2>2 DEF PipeInv
<1> QED
  BY <1>1, OnlyAcceptedFrames, TunnelTypeCorrect, PTL
=============================================================================
