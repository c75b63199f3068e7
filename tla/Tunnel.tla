------------------------------- MODULE Tunnel -------------------------------
(***************************************************************************)
(* A point-to-point tunnel: two processes of tunudp.c (or tapudp.c, or     *)
(* IR/ir.cc), each relaying between a tun device and a connected UDP       *)
(* socket in one select loop with one buffer, and the network between      *)
(* them.  The programs differ in what a read leaves in the buffer, in      *)
(* which frames they pass on, and in which buffer they write.              *)
(*                                                                         *)
(* The kernels' part is external: bounded device and socket queues, a      *)
(* network that loses, repeats and reorders, and the ICMP error that a     *)
(* datagram for an unbound port sends back.  Such an error makes the       *)
(* socket readable, and the next read or write of it fails and clears it.  *)
(***************************************************************************)
EXTENDS Naturals, Sequences, Functions

CONSTANTS
  A, B,      \* the two processes
  Frame,     \* frames of applications, and what they are turned into
  Offered,   \* the frames that applications write at each end
  Outgoing,  \* what write() sends after a frame was read from the device
  Incoming,  \* what write() passes to the device of a received datagram
  Relayed,   \* the frames the program does not filter out
  MaxQueue,  \* capacity of a device's and of a socket's queue
  Killed,    \* the processes that are killed now and then
  Refused,   \* the ICMP error port unreachable
  Nothing    \* contents of a buffer before its first use

Endpoint == {A, B}
Peer == [e \in Endpoint |-> IF e = A THEN B ELSE A]

ASSUME TunnelAssumption ==
  /\ A # B
  /\ Offered \in [Endpoint -> SUBSET Frame]
  /\ Outgoing \in [Frame -> Frame] /\ Incoming \in [Frame -> Frame]
  /\ Relayed \subseteq Frame
  /\ MaxQueue \in Nat \ {0}
  /\ Killed \subseteq Endpoint
  /\ Refused \notin Frame /\ Nothing \notin Frame

VARIABLES
  up,       \* the process runs: device and socket exist
  pc,       \* the call it is in or about to make
  rset,     \* the descriptors that select() reported, but those already read
  buffer,   \* what the last successful read left there
  tunq,     \* frames waiting on the device
  sockq,    \* datagrams waiting on the socket
  err,      \* an ICMP error is pending on the socket
  net,      \* datagrams on their way
  sent,     \* history: the frames each device has accepted
  got,      \* history: the frames written to each device
  refused   \* history: an ICMP error has reached the socket

process == <<up, pc, rset, buffer>>
history == <<sent, got, refused>>
vars == <<process, tunq, sockq, err, net, history>>

Fd == {"tun", "sock"}
Call == {"select", "readtun", "writesock", "readsock", "writetun"}
Datagram == [to : Endpoint, body : Frame \cup {Refused}]
Queue == UNION {[1..n -> Frame] : n \in 0..MaxQueue}

Init ==
  /\ up = [e \in Endpoint |-> FALSE]
  /\ pc = [e \in Endpoint |-> "select"]
  /\ rset = [e \in Endpoint |-> {}]
  /\ buffer = [e \in Endpoint |-> Nothing]
  /\ tunq = [e \in Endpoint |-> << >>] /\ sockq = [e \in Endpoint |-> << >>]
  /\ err = [e \in Endpoint |-> FALSE]
  /\ net = {}
  /\ sent = [e \in Endpoint |-> {}] /\ got = [e \in Endpoint |-> {}]
  /\ refused = [e \in Endpoint |-> FALSE]

-----------------------------------------------------------------------------
(* The loop of main().                                                     *)

At(e, call) == up[e] /\ pc[e] = call

GoTo(e, call) == pc' = [pc EXCEPT ![e] = call]

\* Reading the socket would not block.
Readable(e) == err[e] \/ sockq[e] # << >>

Ready(e) == {fd \in Fd : IF fd = "tun" THEN tunq[e] # << >> ELSE Readable(e)}

\* Mutants: the socket is served alone when both are ready; the test of the
\* socket's bit is missing.
SelectSocketFirst(e) ==
  /\ At(e, "select")
  /\ Ready(e) # {}
  /\ rset' = [rset EXCEPT ![e] = IF "sock" \in Ready(e) THEN {"sock"} ELSE {"tun"}]
  /\ GoTo(e, IF "sock" \in Ready(e) THEN "readsock" ELSE "readtun")
  /\ UNCHANGED <<up, buffer, tunq, sockq, err, net, history>>

SelectUntested(e) ==
  /\ At(e, "select")
  /\ Ready(e) # {}
  /\ rset' = [rset EXCEPT ![e] = Ready(e) \cup {"sock"}]
  /\ GoTo(e, IF "tun" \in Ready(e) THEN "readtun" ELSE "readsock")
  /\ UNCHANGED <<up, buffer, tunq, sockq, err, net, history>>

\* select() waits until a descriptor is ready; without a timeout it returns
\* 0 never, and -1 only to be called again.
Select(e) ==
  /\ At(e, "select")
  /\ Ready(e) # {}
  /\ rset' = [rset EXCEPT ![e] = Ready(e)]
  /\ GoTo(e, IF "tun" \in Ready(e) THEN "readtun" ELSE "readsock")
  /\ UNCHANGED <<up, buffer, tunq, sockq, err, net, history>>

\* Mutant: the socket is looked at only if the device was not ready.
AfterTunElse(e) == "select"

AfterTun(e) == IF "sock" \in rset[e] THEN "readsock" ELSE "select"

\* A frame is read and, if its type passes, goes on to the socket.
ReadTun(e) ==
  /\ At(e, "readtun")
  /\ tunq[e] # << >>
  /\ tunq' = [tunq EXCEPT ![e] = Tail(@)]
  /\ LET f == Outgoing[Head(tunq[e])]
     IN  /\ buffer' = [buffer EXCEPT ![e] = f]
         /\ GoTo(e, IF f \in Relayed THEN "writesock" ELSE AfterTun(e))
  /\ rset' = [rset EXCEPT ![e] = @ \ {"tun"}]
  /\ UNCHANGED <<up, sockq, err, net, history>>

\* The read fails: the program says so and goes on.
ReadTunError(e) ==
  /\ At(e, "readtun")
  /\ GoTo(e, AfterTun(e))
  /\ rset' = [rset EXCEPT ![e] = @ \ {"tun"}]
  /\ UNCHANGED <<up, buffer, tunq, sockq, err, net, history>>

\* Mutant: the frame goes back to the device it came from.
WriteSockEcho(e) ==
  /\ At(e, "writesock")
  /\ got' = [got EXCEPT ![e] = @ \cup {buffer[e]}]
  /\ GoTo(e, AfterTun(e))
  /\ UNCHANGED <<up, rset, buffer, tunq, sockq, err, net, sent, refused>>

\* The write fails with the pending error, or for want of memory; then the
\* frame is lost and the error, if any, cleared.
WriteSock(e) ==
  /\ At(e, "writesock")
  /\ \/ net' = net /\ err' = [err EXCEPT ![e] = FALSE]
     \/ /\ ~err[e]
        /\ net' = net \cup {[to |-> Peer[e], body |-> buffer[e]]}
        /\ UNCHANGED err
  /\ GoTo(e, AfterTun(e))
  /\ UNCHANGED <<up, rset, buffer, tunq, sockq, history>>

\* A read of the socket fails with the pending error, returns a datagram, or
\* waits for one.
ReadSock(e) ==
  /\ At(e, "readsock")
  /\ \/ /\ err[e]
        /\ err' = [err EXCEPT ![e] = FALSE]
        /\ GoTo(e, "select")
        /\ UNCHANGED <<buffer, sockq>>
     \/ /\ ~err[e] /\ sockq[e] # << >>
        /\ sockq' = [sockq EXCEPT ![e] = Tail(@)]
        /\ LET f == Incoming[Head(sockq[e])]
           IN  /\ buffer' = [buffer EXCEPT ![e] = f]
               /\ GoTo(e, IF f \in Relayed THEN "writetun" ELSE "select")
        /\ UNCHANGED err
  /\ rset' = [rset EXCEPT ![e] = @ \ {"sock"}]
  /\ UNCHANGED <<up, tunq, net, history>>

\* A failing write loses the frame.
WriteTun(e) ==
  /\ At(e, "writetun")
  /\ got' = got \/ got' = [got EXCEPT ![e] = @ \cup {buffer[e]}]
  /\ GoTo(e, "select")
  /\ UNCHANGED <<up, rset, buffer, tunq, sockq, err, net, sent, refused>>

Loop(e) ==
  Select(e) \/ ReadTun(e) \/ ReadTunError(e) \/ WriteSock(e) \/ ReadSock(e) \/ WriteTun(e)

-----------------------------------------------------------------------------
(* The environment: applications, the network, whoever runs the programs.  *)

\* A frame for a full device is dropped, which nobody sees.
Offer(e, f) ==
  /\ up[e] /\ f \in Offered[e]
  /\ Len(tunq[e]) < MaxQueue
  /\ tunq' = [tunq EXCEPT ![e] = Append(@, f)]
  /\ sent' = [sent EXCEPT ![e] = @ \cup {f}]
  /\ UNCHANGED <<process, sockq, err, net, got, refused>>

NetLose(d) ==
  /\ net' = net \ {d}
  /\ UNCHANGED <<process, tunq, sockq, err, history>>

\* Having arrived, a datagram may be on its way a second time.
NetDeliver(d) ==
  /\ d.body # Refused
  /\ up[d.to] /\ Len(sockq[d.to]) < MaxQueue
  /\ sockq' = [sockq EXCEPT ![d.to] = Append(@, d.body)]
  /\ net' = net \/ net' = net \ {d}
  /\ UNCHANGED <<process, tunq, err, history>>

\* Nobody has bound the port.
NetRefuse(d) ==
  /\ d.body # Refused
  /\ ~up[d.to]
  /\ net' = (net \ {d}) \cup {[to |-> Peer[d.to], body |-> Refused]}
  /\ UNCHANGED <<process, tunq, sockq, err, history>>

NetError(d) ==
  /\ d.body = Refused
  /\ net' = net \ {d}
  /\ IF up[d.to]
     THEN /\ err' = [err EXCEPT ![d.to] = TRUE]
          /\ refused' = [refused EXCEPT ![d.to] = TRUE]
     ELSE UNCHANGED <<err, refused>>
  /\ UNCHANGED <<process, tunq, sockq, sent, got>>

Start(e) ==
  /\ ~up[e]
  /\ up' = [up EXCEPT ![e] = TRUE]
  /\ UNCHANGED <<pc, rset, buffer, tunq, sockq, err, net, history>>

\* The process is killed; its device and its socket disappear with it.
Stop(e) ==
  /\ up[e] /\ e \in Killed
  /\ up' = [up EXCEPT ![e] = FALSE]
  /\ pc' = [pc EXCEPT ![e] = "select"]
  /\ rset' = [rset EXCEPT ![e] = {}]
  /\ buffer' = [buffer EXCEPT ![e] = Nothing]
  /\ tunq' = [tunq EXCEPT ![e] = << >>] /\ sockq' = [sockq EXCEPT ![e] = << >>]
  /\ err' = [err EXCEPT ![e] = FALSE]
  /\ UNCHANGED <<net, history>>

Next ==
  \/ \E e \in Endpoint : Loop(e) \/ Start(e) \/ Stop(e)
  \/ \E e \in Endpoint, f \in Frame : Offer(e, f)
  \/ \E d \in net : NetLose(d) \/ NetDeliver(d) \/ NetRefuse(d) \/ NetError(d)

Spec == Init /\ [][Next]_vars

\* A process that can go on does, and a device does not fail for ever.
\* Applications, the network and the operator owe nothing.
Fairness ==
  \A e \in Endpoint : WF_vars(Loop(e)) /\ SF_vars(ReadTun(e))

FairSpec == Spec /\ Fairness

-----------------------------------------------------------------------------
(* Safety.                                                                 *)

\* Every variable holds what the programs and the kernels can put there.
TypeOK ==
  /\ up \in [Endpoint -> BOOLEAN]
  /\ pc \in [Endpoint -> Call]
  /\ rset \in [Endpoint -> SUBSET Fd]
  /\ buffer \in [Endpoint -> Frame \cup {Nothing}]
  /\ tunq \in [Endpoint -> Queue] /\ sockq \in [Endpoint -> Queue]
  /\ err \in [Endpoint -> BOOLEAN] /\ refused \in [Endpoint -> BOOLEAN]
  /\ net \subseteq Datagram
  /\ sent \in [Endpoint -> SUBSET Frame] /\ got \in [Endpoint -> SUBSET Frame]

\* What comes out of a device was written to the other one, unchanged: one
\* buffer serves both directions, but no write sends what the other
\* direction, an earlier frame or a failed read left in it.
Transparent == \A e \in Endpoint : got[e] \subseteq sent[Peer[e]]

\* The process waits in read() for a socket it was told is ready.
Blocked(e) == At(e, "readsock") /\ ~Readable(e)

\* That happens only after the other end was down: when the error that made
\* the socket readable is consumed by the write before the read.
BlockedOnlyAfterRefusal == \A e \in Endpoint : Blocked(e) => refused[e]

\* The two processes are a pipe: what is on its way to an end is in the
\* other's device queue or buffer, in the network, or in its own socket
\* queue or buffer, but for what the programs filter out.
OnTheWay(e) ==
  LET p == Peer[e]
      read == {Outgoing[f] : f \in Range(tunq[p])}
      writing == IF pc[p] = "writesock" THEN {buffer[p]} ELSE {}
      travelling == {d.body : d \in {n \in net : n.to = e /\ n.body # Refused}}
      out == read \cup writing \cup travelling \cup Range(sockq[e])
  IN  ({Incoming[f] : f \in out} \cap Relayed)
      \cup (IF pc[e] = "writetun" THEN {buffer[e]} ELSE {})

Pipe == INSTANCE DatagramPipe WITH
  Through <- [f \in Frame |-> Incoming[Outgoing[f]]],
  Carried <- Relayed,
  flight <- [e \in Endpoint |-> OnTheWay(e)]

\* Crashes, restarts, ICMP errors and failing calls only ever lose frames,
\* and nothing but what both directions let pass comes out.
ImplementsPipe == Pipe!Spec

-----------------------------------------------------------------------------
(* Progress.                                                               *)

\* A frame waiting on the device is read, however busy the socket is, unless
\* the process is killed or waits for the socket it was told is ready.
TunServed ==
  \A e \in Endpoint :
    []<>(tunq[e] = << >> \/ At(e, "readtun") \/ ~up[e] \/ Blocked(e))

\* A datagram waiting on the socket is read, however busy the device is.
SockServed ==
  \A e \in Endpoint : []<>(sockq[e] = << >> \/ At(e, "readsock") \/ ~up[e])
=============================================================================
