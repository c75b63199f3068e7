--------------------------- MODULE MCPacketLexer ---------------------------
(* Devices, and the few bytes each sends. *)
EXTENDS PacketLexer

\* RTCM 2, with comments, and with bytes that may be Earthmate's.
Rtcm2Devices == {{"B", "#"}, {"E", "A"}}

OneByOne ==
  {{"$", "G", "P", "*", LF},          \* NMEA
   {"ff", "$", "C", LF},              \* NMEA after garbage
   {"#", LF, "$"},                    \* comments
   {"E", "A", "R", "T", "H"},         \* Earthmate
   {"@", "A", CR, LF},                \* Garmin text, TNT, OnCore
   {"{", "}", "\""},                  \* JSON
   {"a0", "a2", NUL, "b0", "b3"},     \* SiRF
   {SOH, NUL, "A"},                   \* SuperStar II
   {DLE, STX, ETX}, {DLE, ETX, "A"},  \* EverMore, TSIP
   {STX, "99", "66"},                 \* NavCom
   {"d3", NUL, "$"},                  \* RTCM 3, and NMEA
   {"ff", "81", NUL},                 \* Zodiac
   {"b5", "62", NUL},                 \* UBX
   {"<", "!", ">"},                   \* iTalk
   {"P", "S", "G", NUL}}              \* GeoStar
  \cup Rtcm2Devices
=============================================================================
