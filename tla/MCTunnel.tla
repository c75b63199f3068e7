------------------------------ MODULE MCTunnel ------------------------------
(* tunudp: every frame passes, and passes whole.  One frame from each end,  *)
(* so that an echo or a mixture of the directions would be seen, between    *)
(* processes that start in any order and stay.                              *)
EXTENDS Tunnel

TunFrame == {"a", "b"}
TunOffered == [e \in Endpoint |-> IF e = A THEN {"a"} ELSE {"b"}]
Whole == [f \in TunFrame |-> f]
Neither == {}
=============================================================================
