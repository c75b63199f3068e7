---------------------------- MODULE MCPrediction ----------------------------
(* Time in seconds of which an int holds four: the TTL of three seconds     *)
(* fits, and the clock passes the largest int and the largest uint32_t.     *)
EXTENDS Prediction

Two == {"v", "w"}
=============================================================================
