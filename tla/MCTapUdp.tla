------------------------------ MODULE MCTapUdp ------------------------------
(* tapudp: one end offers an IP frame larger than the buffer and an ARP     *)
(* frame, the other end a frame of another type; the second process is      *)
(* killed and restarted.                                                    *)
EXTENDS Tunnel, TapFrame

TapOffered ==
  [e \in Endpoint |-> IF e = A
     THEN {[type |-> "IP", size |-> 2 * FRAMESIZE], [type |-> "ARP", size |-> 1]}
     ELSE {[type |-> "IPv6", size |-> 1]}]
Second == {B}
=============================================================================
