--------------------------- MODULE MCBeaconThreads --------------------------
(* The threads with two positions, enough to see a mixture of them, or with *)
(* one, for the progress properties, which do not depend on positions.      *)
EXTENDS BeaconThreads

MCFix == {"old", "new"}
MCOneFix == {"fix"}
=============================================================================
