---------------------------- MODULE DatagramPipe ----------------------------
(***************************************************************************)
(* What the tunnel programs promise: two devices joined by a pipe that     *)
(* carries frames from either to the other and may lose, repeat and        *)
(* reorder them, but invents none, sends none back and spoils none.        *)
(***************************************************************************)
CONSTANTS
  A, B,     \* the two ends
  Frame,    \* what an application can write to a device
  Through,  \* what comes out of the pipe for each frame
  Carried   \* what the pipe lets pass at all

VARIABLES
  sent,     \* the frames each end has accepted
  flight,   \* what may still come out of each end
  got       \* what has come out of each end

vars == <<sent, flight, got>>

End == {A, B}
Opposite == [e \in End |-> IF e = A THEN B ELSE A]

Init ==
  /\ sent = [e \in End |-> {}]
  /\ flight = [e \in End |-> {}]
  /\ got = [e \in End |-> {}]

Accept(e, f) ==
  /\ sent' = [sent EXCEPT ![e] = @ \cup {f}]
  /\ flight' = [flight EXCEPT ![Opposite[e]] = @ \cup ({Through[f]} \cap Carried)]
  /\ UNCHANGED got

Lose ==
  /\ flight' \in [End -> SUBSET Frame]
  /\ \A e \in End : flight'[e] \subseteq flight[e]
  /\ UNCHANGED <<sent, got>>

\* Another copy of the frame may follow.
Deliver(e, f) ==
  /\ f \in flight[e]
  /\ got' = [got EXCEPT ![e] = @ \cup {f}]
  /\ flight' = flight \/ flight' = [flight EXCEPT ![e] = @ \ {f}]
  /\ UNCHANGED sent

Next ==
  \/ \E e \in End, f \in Frame : Accept(e, f) \/ Deliver(e, f)
  \/ Lose

Spec == Init /\ [][Next]_vars
=============================================================================
