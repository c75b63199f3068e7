------------------------------ MODULE TapFrame ------------------------------
(***************************************************************************)
(* The frames of tapudp.c: an ethertype and a length in units of the       *)
(* buffer.  read() of the device and of the socket cuts a longer frame off *)
(* at the buffer's end, and only IP and ARP pass, in either direction.     *)
(***************************************************************************)
EXTENDS Naturals

FRAMESIZE == 1

Ethertype == {"IP", "ARP", "IPv6"}

\* The longest frame is twice the buffer, as on an interface whose MTU was
\* raised; the shortest has an ethernet header at least.
EtherFrame == [type : Ethertype, size : 1..2 * FRAMESIZE]

ReadIntoBuffer ==
  [f \in EtherFrame |-> [f EXCEPT !.size = IF @ > FRAMESIZE THEN FRAMESIZE ELSE @]]

IpOrArp == {f \in EtherFrame : f.type \in {"IP", "ARP"}}
=============================================================================
