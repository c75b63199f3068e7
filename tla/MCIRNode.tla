------------------------------ MODULE MCIRNode ------------------------------
(* Vehicle 1 with two other vehicles, or with one over a longer time.       *)
EXTENDS IRNode

TwoVip == 1..2
TwoPhy == <<11, 12>>
ThreeVip == 1..3
ThreePhy == <<11, 12, 13>>
MCMe == 1
MCPos == {1}
=============================================================================
