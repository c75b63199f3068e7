--------------------------- MODULE MCSubscribers ---------------------------
(* Every client asks for everything; the first may stop reading or close.  *)
EXTENDS Subscribers

Requests == {<<{"watcher", "json", "pps"}>>}
=============================================================================
