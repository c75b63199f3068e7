---------------------------- MODULE PacketLexer ----------------------------
(***************************************************************************)
(* The packet lexer of gpsd 3.16, packet.c: how it finds packets in the    *)
(* bytes of a device, which may mix all protocols and have errors.  One    *)
(* step of Char is one round of packet_parse's loop, with nextstate.       *)
(*                                                                         *)
(* A byte is a printable character, or two hexadecimal digits.  Checksums, *)
(* and what the code reads of the buffer beyond the bytes received, may be *)
(* right or wrong.  So may the parity of the bits of RTCM2 words, which    *)
(* rtcm2_decode collects: with a device of Corrections, any byte that has  *)
(* such bits may end a message, be in one, or not.                         *)
(***************************************************************************)
EXTENDS Integers, Sequences, FiniteSets, SequencesExt

CONSTANTS
  Mixtures,     \* sets of bytes: each is what some device sends
  Corrections,  \* those of them whose bits may make RTCM2 words
  MaxRead,      \* the most bytes one read returns
  MaxIn,        \* sizeof(inbuffer), and sizeof(outbuffer)
  MaxPacket,    \* MAX_PACKET_LENGTH
  MinJson, MinGtxt, MinTsip,  \* the shortest packets that count as such
  MaxDepth      \* a device opens no more braces in JSON than this

ASSUME LexerAssumption ==
  /\ MaxRead \in Nat \ {0} /\ MaxIn \in Nat \ {0} /\ MaxPacket \in Nat
  /\ {MinJson, MinGtxt, MinTsip, MaxDepth} \subseteq Nat

VARIABLES
  mixture,   \* what the device sends
  pc,        \* packet_get: not called, in packet_parse, or after it
  inbuffer,  \* the bytes received and not discarded
  inbufptr,  \* how many of them have been looked at
  state, length, json_depth, json_after,
  out        \* the packet in outbuffer

lexer == <<state, length, json_depth, json_after>>
vars == <<mixture, pc, inbuffer, inbufptr, lexer, out>>

-----------------------------------------------------------------------------
(* Bytes.                                                                  *)

Upper == {"A", "B", "C", "D", "E", "F", "G", "H", "I", "J", "K", "L", "M", "N",
          "O", "P", "Q", "R", "S", "T", "U", "V", "W", "X", "Y", "Z"}
Lower == {"a", "c", "e", "f", "i", "k", "l", "n", "r", "s", "t", "u", "x"}
Alpha == Upper \cup Lower
Numeral == {"0", "1", "2", "3", "4", "5", "6", "7", "8", "9"}
OpenBrace == "{"
CloseBrace == "}"
Quote == "\""
Comma == ","
Blank == " "
Mark == {"$", "!", "#", "@", "*", "<", ">", OpenBrace, CloseBrace, "[", "]", Quote, "\\",
         ":", Comma, "-", "+", ".", Blank}
Printing == Alpha \cup Numeral \cup Mark
CR == "0d"
LF == "0a"
Space == {Blank, CR, LF}
NUL == "00"
SOH == "01"
STX == "02"
ETX == "03"
DLE == "10"
Control == {NUL, SOH, STX, ETX, DLE, LF, CR}   \* less than 0x13
Byte == Printing \cup Control
          \cup {"62", "66", "81", "99", "a0", "a2", "b0", "b3", "b5", "d3", "ff"}

\* The bytes from 64 to 127, which have six bits of RTCM2 each.
Bits == Alpha \cup {"@", "[", "]", "\\", OpenBrace, CloseBrace, "62", "66"}
Hex == Numeral \cup {"A", "B", "C", "D", "E", "F"}

\* As a length only the smallest bytes are told apart: any other is more than fits.
Value(c) == IF c \in Control \cap {NUL, SOH, STX, ETX}
            THEN CHOOSE n \in 0..3 : <<NUL, SOH, STX, ETX>>[n + 1] = c ELSE 64

-----------------------------------------------------------------------------
(* nextstate, where a byte moves the machine on and touches nothing else:  *)
(* <<state, bytes, next state>>.                                           *)

FromGround ==
  {<<"GROUND_STATE", {"#"}, "COMMENT_BODY">>,
   <<"GROUND_STATE", {"$"}, "NMEA_DOLLAR">>,
   <<"GROUND_STATE", {"!"}, "NMEA_BANG">>,
   <<"GROUND_STATE", {"@"}, "AT1_LEADER">>,
   <<"GROUND_STATE", {"a0"}, "SIRF_LEADER_1">>,
   <<"GROUND_STATE", {SOH}, "SUPERSTAR2_LEADER">>,
   <<"GROUND_STATE", {DLE}, "DLE_LEADER">>,
   <<"GROUND_STATE", {"A"}, "ASTRAL_1">>,
   <<"GROUND_STATE", {"E"}, "EARTHA_1">>,
   <<"GROUND_STATE", {"ff"}, "ZODIAC_LEADER_1">>,
   <<"GROUND_STATE", {"b5"}, "UBX_LEADER_1">>,
   <<"GROUND_STATE", {"<"}, "ITALK_LEADER_1">>,
   <<"GROUND_STATE", {STX}, "NAVCOM_LEADER_1">>,
   <<"GROUND_STATE", {"P"}, "GEOSTAR_LEADER_1">>,
   <<"GROUND_STATE", {"d3"}, "RTCM3_LEADER_1">>,
   <<"COMMENT_BODY", {LF}, "COMMENT_RECOGNIZED">>,
   <<"COMMENT_BODY", Printing, "COMMENT_BODY">>}

NmeaDollar ==
  {<<"NMEA_DOLLAR", {"G"}, "NMEA_PUB_LEAD">>,
   <<"NMEA_DOLLAR", {"P"}, "NMEA_VENDOR_LEAD">>,
   <<"NMEA_DOLLAR", {"I"}, "SEATALK_LEAD_1">>,
   <<"NMEA_DOLLAR", {"W"}, "WEATHER_LEAD_1">>,
   <<"NMEA_DOLLAR", {"H"}, "HEADCOMP_LEAD_1">>,
   <<"NMEA_DOLLAR", {"T"}, "TURN_LEAD_1">>,
   <<"NMEA_DOLLAR", {"A"}, "SIRF_ACK_LEAD_1">>,
   <<"NMEA_DOLLAR", {"E"}, "ECDIS_LEAD_1">>,
   <<"NMEA_DOLLAR", {"S"}, "SOUNDER_LEAD_1">>,
   <<"NMEA_DOLLAR", {"Y"}, "TRANSDUCER_LEAD_1">>,
   <<"NMEA_DOLLAR", {"B"}, "BEIDOU_LEAD_1">>,
   <<"NMEA_DOLLAR", {"Q"}, "QZSS_LEAD_1">>,
   <<"NMEA_DOLLAR", {"C"}, "NMEA_LEADER_END">>,
   <<"NMEA_PUB_LEAD", {"B", "P", "N", "L"}, "NMEA_LEADER_END">>,
   <<"NMEA_VENDOR_LEAD", {"A"}, "NMEA_PASHR_A">>,
   <<"NMEA_VENDOR_LEAD", Alpha \ {"A"}, "NMEA_LEADER_END">>}

TalkerLeads ==
  {<<"SEATALK_LEAD_1", {"I", "N"}, "NMEA_LEADER_END">>,
   <<"WEATHER_LEAD_1", {"I"}, "NMEA_LEADER_END">>,
   <<"HEADCOMP_LEAD_1", {"C"}, "NMEA_LEADER_END">>,
   <<"TURN_LEAD_1", {"I"}, "NMEA_LEADER_END">>,
   <<"ECDIS_LEAD_1", {"C"}, "NMEA_LEADER_END">>,
   <<"SOUNDER_LEAD_1", {"D"}, "NMEA_LEADER_END">>,
   <<"TRANSDUCER_LEAD_1", {"X"}, "NMEA_LEADER_END">>,
   <<"BEIDOU_LEAD_1", {"D"}, "NMEA_LEADER_END">>,
   <<"QZSS_LEAD_1", {"Z"}, "NMEA_LEADER_END">>}

\* strchr finds NUL in every string.
AisLeaders ==
  {<<"NMEA_BANG", {"A"}, "AIS_LEAD_1">>,
   <<"NMEA_BANG", {"B"}, "AIS_LEAD_ALT1">>,
   <<"NMEA_BANG", {"S"}, "AIS_LEAD_ALT3">>,
   <<"AIS_LEAD_1", {"B", "D", "I", "N", "R", "S", "T", "X", NUL}, "AIS_LEAD_2">>,
   <<"AIS_LEAD_2", Alpha, "NMEA_LEADER_END">>,
   <<"AIS_LEAD_ALT1", {"S"}, "AIS_LEAD_ALT2">>,
   <<"AIS_LEAD_ALT2", Alpha, "NMEA_LEADER_END">>,
   <<"AIS_LEAD_ALT3", {"A"}, "AIS_LEAD_ALT4">>,
   <<"AIS_LEAD_ALT4", Alpha, "NMEA_LEADER_END">>}

Pashr ==
  {<<"NMEA_PASHR_A", {"S"}, "NMEA_PASHR_S">>,
   <<"NMEA_PASHR_A", Alpha \ {"S"}, "NMEA_LEADER_END">>,
   <<"NMEA_PASHR_S", {"H"}, "NMEA_PASHR_H">>,
   <<"NMEA_PASHR_S", Alpha \ {"H"}, "NMEA_LEADER_END">>,
   <<"NMEA_PASHR_H", {"R"}, "NMEA_BINARY_BODY">>,
   <<"NMEA_PASHR_H", Alpha \ {"R"}, "NMEA_LEADER_END">>,
   <<"NMEA_BINARY_BODY", {CR}, "NMEA_BINARY_CR">>,
   <<"NMEA_BINARY_BODY", Byte \ {CR}, "NMEA_BINARY_BODY">>,
   <<"NMEA_BINARY_CR", {LF}, "NMEA_BINARY_NL">>,
   <<"NMEA_BINARY_CR", Byte \ {LF}, "NMEA_BINARY_BODY">>,
   <<"NMEA_BINARY_NL", Byte \ {"$"}, "NMEA_BINARY_BODY">>}

NmeaBodies ==
  {<<"NMEA_LEADER_END", {CR}, "NMEA_CR">>,
   <<"NMEA_LEADER_END", {LF}, "NMEA_RECOGNIZED">>,
   <<"NMEA_LEADER_END", Printing \ {"$"}, "NMEA_LEADER_END">>,
   <<"NMEA_CR", {LF}, "NMEA_RECOGNIZED">>,
   <<"NMEA_CR", {CR}, "NMEA_CR">>,
   <<"NMEA_RECOGNIZED", {"#"}, "COMMENT_BODY">>,
   <<"NMEA_RECOGNIZED", {"$"}, "NMEA_DOLLAR">>,
   <<"NMEA_RECOGNIZED", {"!"}, "NMEA_BANG">>,
   <<"NMEA_RECOGNIZED", {"b5"}, "UBX_LEADER_1">>}

\* @ leads Garmin text, TNT and OnCore.
At1 ==
  {<<"AT1_LEADER", {"@"}, "ONCORE_AT2">>,
   <<"AT1_LEADER", {"*"}, "NMEA_LEADER_END">>,
   <<"AT1_LEADER", (Printing \ {"@", "*"}) \cup {CR}, "AT1_LEADER">>,
   <<"AT1_LEADER", {LF}, "GTXT_RECOGNIZED">>}

\* Tripmate and Earthmate say who they are.
Words ==
  {<<"ASTRAL_1", {"S"}, "ASTRAL_2">>,
   <<"ASTRAL_2", {"T"}, "ASTRAL_3">>,
   <<"ASTRAL_3", {"R"}, "ASTRAL_5">>,
   <<"ASTRAL_4", {"A"}, "ASTRAL_2">>,
   <<"ASTRAL_5", {"L"}, "NMEA_RECOGNIZED">>,
   <<"EARTHA_1", {"A"}, "EARTHA_2">>,
   <<"EARTHA_2", {"R"}, "EARTHA_3">>,
   <<"EARTHA_3", {"T"}, "EARTHA_4">>,
   <<"EARTHA_4", {"H"}, "EARTHA_5">>,
   <<"EARTHA_5", {"A"}, "NMEA_RECOGNIZED">>}

SirfAndSuperstar ==
  {<<"SIRF_ACK_LEAD_1", {"c"}, "SIRF_ACK_LEAD_2">>,
   <<"SIRF_ACK_LEAD_1", {"I"}, "AIS_LEAD_2">>,
   <<"SIRF_ACK_LEAD_2", {"k"}, "NMEA_LEADER_END">>,
   <<"SIRF_LEADER_1", {"a2"}, "SIRF_LEADER_2">>,
   <<"SIRF_DELIVERED", {"b0"}, "SIRF_TRAILER_1">>,
   <<"SIRF_TRAILER_1", {"b3"}, "SIRF_RECOGNIZED">>,
   <<"SIRF_RECOGNIZED", {"a0"}, "SIRF_LEADER_1">>,
   <<"SUPERSTAR2_LEADER", Byte, "SUPERSTAR2_ID1">>,
   <<"SUPERSTAR2_CKSUM1", Byte, "SUPERSTAR2_CKSUM2">>,
   <<"SUPERSTAR2_CKSUM2", Byte, "SUPERSTAR2_RECOGNIZED">>,
   <<"SUPERSTAR2_RECOGNIZED", {SOH}, "SUPERSTAR2_LEADER">>}

\* DLE leads TSIP, Garmin and EverMore.
OncoreDleAndNavcom ==
  {<<"ONCORE_CHECKSUM", {CR}, "ONCORE_CR">>,
   <<"ONCORE_CR", {LF}, "ONCORE_RECOGNIZED">>,
   <<"ONCORE_CR", Byte \ {LF}, "ONCORE_PAYLOAD">>,
   <<"ONCORE_RECOGNIZED", {"@"}, "AT1_LEADER">>,
   <<"DLE_LEADER", {STX}, "EVERMORE_LEADER_2">>,
   <<"DLE_LEADER", Byte \ Control, "TSIP_PAYLOAD">>,
   <<"DLE_LEADER", {DLE}, "GROUND_STATE">>,
   <<"NAVCOM_LEADER_1", {"99"}, "NAVCOM_LEADER_2">>,
   <<"NAVCOM_LEADER_2", {"66"}, "NAVCOM_LEADER_3">>,
   <<"NAVCOM_LEADER_3", Byte, "NAVCOM_ID">>,
   <<"NAVCOM_CSUM", {ETX}, "NAVCOM_RECOGNIZED">>,
   <<"NAVCOM_RECOGNIZED", {STX}, "NAVCOM_LEADER_1">>}

Evermore ==
  {<<"EVERMORE_LEADER_1", {STX}, "EVERMORE_LEADER_2">>,
   <<"EVERMORE_PAYLOAD_DLE", {DLE}, "EVERMORE_PAYLOAD">>,
   <<"EVERMORE_PAYLOAD_DLE", {ETX}, "EVERMORE_RECOGNIZED">>,
   <<"EVERMORE_PAYLOAD_DLE", Byte \ {DLE, ETX}, "GROUND_STATE">>,
   <<"EVERMORE_RECOGNIZED", {DLE}, "EVERMORE_LEADER_1">>}

Tsip ==
  {<<"TSIP_PAYLOAD", {DLE}, "TSIP_DLE">>,
   <<"TSIP_PAYLOAD", Byte \ {DLE}, "TSIP_PAYLOAD">>,
   <<"TSIP_DLE", {ETX}, "TSIP_RECOGNIZED">>,
   <<"TSIP_DLE", {DLE}, "TSIP_PAYLOAD">>,
   <<"TSIP_DLE", Byte \ {DLE, ETX}, "GROUND_STATE">>,
   <<"TSIP_RECOGNIZED", {DLE}, "DLE_LEADER">>}

ZodiacAndUbx ==
  {<<"ZODIAC_RECOGNIZED", {"ff"}, "ZODIAC_LEADER_1">>,
   <<"ZODIAC_LEADER_1", {"81"}, "ZODIAC_LEADER_2">>,
   <<"ZODIAC_LEADER_2", Byte, "ZODIAC_ID_1">>,
   <<"ZODIAC_ID_1", Byte, "ZODIAC_ID_2">>,
   <<"ZODIAC_LENGTH_2", Byte, "ZODIAC_FLAGS_1">>,
   <<"ZODIAC_FLAGS_1", Byte, "ZODIAC_FLAGS_2">>,
   <<"ZODIAC_FLAGS_2", Byte, "ZODIAC_HSUM_1">>,
   <<"UBX_LEADER_1", {"62"}, "UBX_LEADER_2">>,
   <<"UBX_LEADER_2", Byte, "UBX_CLASS_ID">>,
   <<"UBX_CLASS_ID", Byte, "UBX_MESSAGE_ID">>,
   <<"UBX_LENGTH_2", Byte, "UBX_PAYLOAD">>,
   <<"UBX_CHECKSUM_A", Byte, "UBX_RECOGNIZED">>,
   <<"UBX_RECOGNIZED", {"b5"}, "UBX_LEADER_1">>,
   <<"UBX_RECOGNIZED", {"$"}, "NMEA_DOLLAR">>}

ItalkAndGeostar ==
  {<<"ITALK_LEADER_1", {"!"}, "ITALK_LEADER_2">>,
   <<"ITALK_DELIVERED", {">"}, "ITALK_RECOGNIZED">>,
   <<"ITALK_RECOGNIZED", {"<"}, "ITALK_LEADER_1">>,
   <<"GEOSTAR_LEADER_1", {"S"}, "GEOSTAR_LEADER_2">>,
   <<"GEOSTAR_LEADER_2", {"G"}, "GEOSTAR_LEADER_3">>,
   <<"GEOSTAR_LEADER_3", {"G"}, "GEOSTAR_LEADER_4">>,
   <<"GEOSTAR_LEADER_4", Byte, "GEOSTAR_MESSAGE_ID_1">>,
   <<"GEOSTAR_MESSAGE_ID_1", Byte, "GEOSTAR_MESSAGE_ID_2">>,
   <<"GEOSTAR_LENGTH_2", Byte, "GEOSTAR_PAYLOAD">>,
   <<"GEOSTAR_CHECKSUM_A", Byte, "GEOSTAR_CHECKSUM_B">>,
   <<"GEOSTAR_CHECKSUM_B", Byte, "GEOSTAR_CHECKSUM_C">>,
   <<"GEOSTAR_CHECKSUM_C", Byte, "GEOSTAR_RECOGNIZED">>,
   <<"GEOSTAR_RECOGNIZED", {"P"}, "GEOSTAR_LEADER_1">>}

\* Inside JSON: strings, numbers, and the special values.
JsonMoves ==
  {<<"JSON_LEADER", Space \cup {Comma}, "JSON_LEADER">>,
   <<"JSON_STRINGLITERAL", {"\\"}, "JSON_STRING_SOLIDUS">>,
   <<"JSON_STRINGLITERAL", Byte \ {"\\", Quote}, "JSON_STRINGLITERAL">>,
   <<"JSON_STRING_SOLIDUS", Byte, "JSON_STRINGLITERAL">>,
   <<"JSON_END_ATTRIBUTE", Space, "JSON_END_ATTRIBUTE">>,
   <<"JSON_END_ATTRIBUTE", {":"}, "JSON_EXPECT_VALUE">>,
   <<"JSON_EXPECT_VALUE", Space, "JSON_EXPECT_VALUE">>,
   <<"JSON_EXPECT_VALUE", Numeral \cup {"-", NUL}, "JSON_NUMBER">>,
   <<"JSON_EXPECT_VALUE", {"t", "f", "n"}, "JSON_SPECIAL">>,
   <<"JSON_NUMBER", Numeral \cup {".", "e", "E", "+", "-", NUL}, "JSON_NUMBER">>,
   <<"JSON_SPECIAL", {"t", "r", "u", "e", "f", "a", "l", "s", "n", "i", NUL},
     "JSON_SPECIAL">>,
   <<"JSON_END_VALUE", Space, "JSON_END_VALUE">>,
   <<"JSON_END_VALUE", {Comma}, "JSON_LEADER">>}

\* rtcm2_decode finds the beginning of words, and their end; in the ground state
\* it gets the bytes that no leader is, and the others at the end of a message.
Rtcm2 ==
  {<<"GROUND_STATE", Bits \ {"P"}, "RTCM2_RECOGNIZED">>,
   <<"GROUND_STATE", Bits \ {"@", "A", "E", "P"}, "RTCM2_SYNC_STATE">>,
   <<"GROUND_STATE", Bits \ {"@", "A", "E", "P", OpenBrace}, "GROUND_STATE">>,
   <<"RTCM2_SYNC_STATE", Bits, "RTCM2_RECOGNIZED">>,
   <<"RTCM2_SYNC_STATE", Bits, "GROUND_STATE">>,
   <<"RTCM2_SYNC_STATE", Byte, "RTCM2_SYNC_STATE">>,
   <<"RTCM2_RECOGNIZED", Bits, "RTCM2_SYNC_STATE">>,
   <<"RTCM2_RECOGNIZED", Byte \ {"#"}, "GROUND_STATE">>}

\* It gets those of Tripmate's and Earthmate's words, too.
Rtcm2InWords == {<<m[1], m[2], s>> : m \in Words, s \in {"RTCM2_SYNC_STATE", "RTCM2_RECOGNIZED"}}

Moves ==
  UNION {Rtcm2, Rtcm2InWords, FromGround, NmeaDollar, Pashr, AisLeaders, At1, NmeaBodies, TalkerLeads,
         Words, SirfAndSuperstar, OncoreDleAndNavcom, ZodiacAndUbx, Evermore,
         ItalkAndGeostar, Tsip, JsonMoves}

\* Instead of a byte being taken, it is pushed back in front of another state.
PushBacks ==
  {<<"GROUND_STATE", {OpenBrace}, "JSON_LEADER">>,
   <<"NMEA_RECOGNIZED", {OpenBrace}, "JSON_LEADER">>,
   <<"UBX_RECOGNIZED", {OpenBrace}, "JSON_LEADER">>,
   <<"JSON_EXPECT_VALUE", {OpenBrace, "["}, "JSON_LEADER">>,
   <<"JSON_END_VALUE", {CloseBrace, "]"}, "JSON_LEADER">>,
   <<"JSON_NUMBER", Byte \ (Numeral \cup {".", "e", "E", "+", "-", NUL}),
     "JSON_END_VALUE">>,
   <<"JSON_SPECIAL", Byte \ {"t", "r", "u", "e", "f", "a", "l", "s", "n", "i", NUL},
     "JSON_END_VALUE">>}

\* The states of a counted payload, and what follows it.
Counted ==
  [SIRF_PAYLOAD |-> "SIRF_DELIVERED", SUPERSTAR2_PAYLOAD |-> "SUPERSTAR2_CKSUM1",
   ONCORE_PAYLOAD |-> "ONCORE_CHECKSUM", NAVCOM_LENGTH_2 |-> "NAVCOM_PAYLOAD",
   RTCM3_PAYLOAD |-> "RTCM3_RECOGNIZED", ZODIAC_PAYLOAD |-> "ZODIAC_RECOGNIZED",
   UBX_PAYLOAD |-> "UBX_CHECKSUM_A", ITALK_PAYLOAD |-> "ITALK_DELIVERED",
   GEOSTAR_PAYLOAD |-> "GEOSTAR_CHECKSUM_A"]

\* Mutant: a sentence cut short is left in the buffer.
BreakingNone == {}

\* Those whose mismatch ends nextstate as if the byte had been taken.
Breaking ==
  {"NMEA_DOLLAR", "NMEA_PUB_LEAD", "NMEA_VENDOR_LEAD", "NMEA_PASHR_A", "NMEA_PASHR_S",
   "NMEA_PASHR_H", "NMEA_LEADER_END", "NMEA_CR", "ASTRAL_1", "ASTRAL_2", "ASTRAL_3",
   "ASTRAL_4", "ASTRAL_5", "EARTHA_1", "EARTHA_2", "EARTHA_3", "EARTHA_4", "EARTHA_5"}

-----------------------------------------------------------------------------
(* What nextstate does with a byte: it takes it, pushes it back and goes   *)
(* round again, or pushes it back and breaks.                              *)

Did(how, s) ==
  [how |-> how, state |-> s, length |-> length, json_depth |-> json_depth,
   json_after |-> json_after]
Take(s) == Did("take", s)
Sized(s, n) == [Take(s) EXCEPT !.length = n]
Bounded(s, n, max) ==
  IF n <= max THEN Sized(s, n) ELSE [Did("back", "GROUND_STATE") EXCEPT !.length = n]

\* --length of a size_t: from 0 it comes to more than will ever be counted down.
Less == IF length <= 0 THEN -1 ELSE length - 1

\* The byte at a place of inbuffer: beyond what was received, any the device sends.
At(i) == IF i <= Len(inbuffer) THEN {inbuffer[i]} ELSE mixture

Count(c) ==
  {o \in {Sized(IF Less = 0 THEN Counted[state] ELSE state, Less)} :
     ~(state = "ITALK_PAYLOAD" /\ c = ">"
         /\ At(inbufptr + 2) = {"<"} /\ At(inbufptr + 3) = {"!"})}
  \cup {o \in {Take("ITALK_RECOGNIZED")} :
          state = "ITALK_PAYLOAD" /\ c = ">"
            /\ "<" \in At(inbufptr + 2) /\ "!" \in At(inbufptr + 3)}

\* The bytes a length is made of, and the headers that have a checksum.
SirfToOncoreSize(c) ==
  CASE state = "SIRF_LEADER_2" -> {Sized("SIRF_LENGTH_1", 256 * Value(c))}
    [] state = "SIRF_LENGTH_1" ->
         {Bounded("SIRF_PAYLOAD", length + Value(c) + 2, MaxPacket)}
    [] state = "SUPERSTAR2_ID1" -> {Take("SUPERSTAR2_ID2"), Did("back", "GROUND_STATE")}
    [] state = "SUPERSTAR2_ID2" ->
         {Sized(IF Value(c) = 0 THEN "SUPERSTAR2_CKSUM1" ELSE "SUPERSTAR2_PAYLOAD",
                Value(c))}
    [] state = "ONCORE_AT2" /\ c \in Upper -> {Sized("ONCORE_ID1", 64)}
    [] state = "ONCORE_ID1" /\ c \in Alpha ->    \* an ID has a length or is unknown
         {Sized("ONCORE_PAYLOAD", 2), Sized("ONCORE_ID1", 0)}
    [] OTHER -> {}

NavcomAndRtcm3Size(c) ==
  CASE state = "NAVCOM_ID" -> {Sized("NAVCOM_LENGTH_1", Value(c) - 4)}
    [] state = "NAVCOM_LENGTH_1" -> {Sized("NAVCOM_LENGTH_2", length + 256 * Value(c))}
    [] state = "NAVCOM_PAYLOAD" -> {Take("NAVCOM_CSUM"), Take("GROUND_STATE")}
    [] state = "RTCM3_LEADER_1" /\ Value(c) < 4 -> {Sized("RTCM3_LEADER_2", 256 * Value(c))}
    [] state = "RTCM3_LEADER_2" -> {Sized("RTCM3_PAYLOAD", length + Value(c) + 3)}
    [] OTHER -> {}

ZodiacAndUbxSize(c) ==
  CASE state = "ZODIAC_ID_2" -> {Sized("ZODIAC_LENGTH_1", Value(c))}
    [] state = "ZODIAC_LENGTH_1" -> {Sized("ZODIAC_LENGTH_2", length + 256 * Value(c))}
    [] state = "ZODIAC_HSUM_1" ->
         {Take("GROUND_STATE"),
          IF length = 0 THEN Take("ZODIAC_RECOGNIZED")
          ELSE Bounded("ZODIAC_PAYLOAD", 2 * length + 2, MaxPacket - 10)}
    [] state = "UBX_MESSAGE_ID" -> {Sized("UBX_LENGTH_1", Value(c))}
    [] state = "UBX_LENGTH_1" ->
         {Bounded("UBX_LENGTH_2", length + 256 * Value(c), MaxPacket)}
    [] OTHER -> {}

EvermoreToGeostarSize(c) ==
  CASE state = "EVERMORE_LEADER_2" ->
         {Sized(IF c = DLE THEN "EVERMORE_PAYLOAD_DLE" ELSE "EVERMORE_PAYLOAD", Value(c))}
    [] state = "EVERMORE_PAYLOAD" ->
         {IF c = DLE THEN Take("EVERMORE_PAYLOAD_DLE")
          ELSE IF Less = 0 THEN [Did("back", "GROUND_STATE") EXCEPT !.length = 0]
          ELSE Sized("EVERMORE_PAYLOAD", Less)}
    [] state = "ITALK_LEADER_2" -> {Sized("ITALK_LENGTH", Value(b)) : b \in At(7)}
    [] state = "ITALK_LENGTH" -> {Sized("ITALK_PAYLOAD", 2 * (length + 1) + 3)}
    [] state = "GEOSTAR_MESSAGE_ID_2" -> {Sized("GEOSTAR_LENGTH_1", 4 * Value(c))}
    [] state = "GEOSTAR_LENGTH_1" ->
         {Bounded("GEOSTAR_LENGTH_2", length + 1024 * Value(c), MaxPacket)}
    [] OTHER -> {}

\* The nesting of JSON, and what a string is for.
Json(c) ==
  CASE state = "JSON_LEADER" /\ c \in {OpenBrace, "["} ->
         {[Take(state) EXCEPT !.json_depth = @ + 1]}
    [] state = "JSON_LEADER" /\ c \in {CloseBrace, "]"} ->
         {[Take(IF json_depth = 1 THEN "JSON_RECOGNIZED" ELSE state)
             EXCEPT !.json_depth = @ - 1]}
    [] state = "JSON_LEADER" /\ c = Quote ->
         {[Take("JSON_STRINGLITERAL") EXCEPT !.json_after = "JSON_END_ATTRIBUTE"]}
    [] state = "JSON_EXPECT_VALUE" /\ c = Quote ->
         {[Take("JSON_STRINGLITERAL") EXCEPT !.json_after = "JSON_END_VALUE"]}
    [] state = "JSON_STRINGLITERAL" /\ c = Quote -> {Take(json_after)}
    [] OTHER -> {}

\* Mutant: the byte is pushed back in the ground state, too.
UnexpectedBack ==
  CASE state = "NMEA_BINARY_NL" -> Did("break", "NMEA_RECOGNIZED")
    [] state \in Breaking -> Did("break", "GROUND_STATE")
    [] OTHER -> Did("back", "GROUND_STATE")

\* A byte that nothing above expects.
Unexpected ==
  CASE state \in {"GROUND_STATE", "JSON_LEADER"} -> Take("GROUND_STATE")
    [] state = "NMEA_BINARY_NL" -> Did("break", "NMEA_RECOGNIZED")
    [] state \in Breaking -> Did("break", "GROUND_STATE")
    [] OTHER -> Did("back", "GROUND_STATE")

nextstate(c) ==
  LET moves == {m \in Moves : /\ m[1] = state /\ c \in m[2]
                              /\ m \in Rtcm2 \cup Rtcm2InWords => mixture \in Corrections}
      backs == {m \in PushBacks : m[1] = state /\ c \in m[2]}
      all == {Take(m[3]) : m \in moves} \cup {Did("back", m[3]) : m \in backs}
               \cup SirfToOncoreSize(c) \cup NavcomAndRtcm3Size(c) \cup ZodiacAndUbxSize(c)
               \cup EvermoreToGeostarSize(c) \cup Json(c)
               \cup (IF state \in DOMAIN Counted THEN Count(c) ELSE {})
  IN  IF all = {} THEN {Unexpected} ELSE all

-----------------------------------------------------------------------------
(* packet_parse and packet_get.                                            *)

NoPacket == [type |-> "none", bytes |-> <<>>]

packet_accept(type, p) ==
  out' = IF p < MaxIn THEN [type |-> type, bytes |-> SubSeq(inbuffer, 1, p)] ELSE out
packet_discard(p) ==
  /\ inbuffer' = SubSeq(inbuffer, p + 1, Len(inbuffer))
  /\ inbufptr' = 0
character_discard ==
  /\ inbuffer' = Tail(inbuffer)
  /\ inbufptr' = 0

\* Only a sentence that ends in a star and hexadecimal digits is checked, and
\* no $PASHR one.
HasSum(p) ==
  /\ ~IsPrefix(<<"$", "P", "A", "S", "H", "R", Comma>>, inbuffer)
  /\ \E i \in 1..p : \E j \in i..p :
       /\ inbuffer[i] = "*"
       /\ \A k \in i + 1..j : inbuffer[k] \in Hex
       /\ \A k \in j + 1..p : inbuffer[k] \in Space

\* dlecnt: the DLEs of a TSIP packet are stuffed.
Unstuffed(p) ==
  LET dlecnt == Cardinality({i \in 1..p : inbuffer[i] = DLE})
  IN  IF dlecnt > 2 THEN p - (dlecnt - 2) \div 2 ELSE p

\* The packets a recognized state may turn out to be, with the state after each.
\* AIVDM sentences count as NMEA.
Outcomes(s, p) ==
  LET kept(type) == {<<type, s>>}
      left(type) == {<<type, "GROUND_STATE">>}
      bad == left("BAD_PACKET")
  IN  CASE s = "COMMENT_RECOGNIZED" -> left("COMMENT_PACKET")
        [] s = "NMEA_RECOGNIZED" ->
             kept("NMEA_PACKET") \cup (IF HasSum(p) THEN bad ELSE {})
        [] s = "SIRF_RECOGNIZED" -> kept("SIRF_PACKET") \cup bad
        [] s = "SUPERSTAR2_RECOGNIZED" -> kept("SUPERSTAR2_PACKET") \cup bad
        [] s = "ONCORE_RECOGNIZED" -> kept("ONCORE_PACKET") \cup bad
        [] s = "TSIP_RECOGNIZED" /\ Unstuffed(p) >= MinTsip ->
             kept("GARMIN_PACKET") \cup kept("TSIP_PACKET") \cup bad
        [] s = "RTCM3_RECOGNIZED" -> left("RTCM3_PACKET") \cup bad
        [] s = "ZODIAC_RECOGNIZED" -> kept("ZODIAC_PACKET") \cup bad
        [] s = "UBX_RECOGNIZED" -> kept("UBX_PACKET") \cup bad
        [] s = "EVERMORE_RECOGNIZED" -> kept("EVERMORE_PACKET") \cup bad
        [] s = "ITALK_RECOGNIZED" -> kept("ITALK_PACKET") \cup bad
        [] s = "NAVCOM_RECOGNIZED" -> kept("NAVCOM_PACKET")
        [] s = "GEOSTAR_RECOGNIZED" -> kept("GEOSTAR_PACKET") \cup bad
        [] s = "RTCM2_RECOGNIZED" -> kept("RTCM2_PACKET")
        [] s = "GTXT_RECOGNIZED" /\ p >= MinGtxt -> left("GARMINTXT_PACKET")
        [] s = "JSON_RECOGNIZED" ->
             IF p >= MinJson THEN left("JSON_PACKET") ELSE bad
        [] OTHER -> {}

Init ==
  /\ mixture \in Mixtures
  /\ pc = "idle"
  /\ inbuffer = <<>> /\ inbufptr = 0
  /\ state = "GROUND_STATE" /\ length = 0
  /\ json_depth = 0 /\ json_after = "GROUND_STATE"
  /\ out = NoPacket

\* read() and the call of packet_parse; a read may return nothing if bytes wait.
Get(chunk) ==
  /\ pc = "idle"
  /\ Len(inbuffer) + Len(chunk) <= MaxIn
  /\ chunk # <<>> \/ inbufptr < Len(inbuffer)
  /\ json_depth >= MaxDepth => \A i \in DOMAIN chunk : chunk[i] \notin {OpenBrace, "["}
  /\ inbuffer' = inbuffer \o chunk
  /\ pc' = "parse" /\ out' = NoPacket
  /\ UNCHANGED <<mixture, inbufptr, lexer>>

\* After a byte was taken, or pushed back without going round: the bytes up to
\* p and the state s decide.
Settle(s, p) ==
  \/ /\ s = "GROUND_STATE"
     /\ character_discard
     /\ state' = s /\ UNCHANGED <<pc, out>>
  \/ \E o \in Outcomes(s, p) :
       /\ packet_accept(o[1], p) /\ packet_discard(p)
       /\ state' = o[2] /\ pc' = "done"
  \/ /\ s = "TSIP_RECOGNIZED" /\ Unstuffed(p) < MinTsip
     /\ inbufptr' = p
     /\ state' = "GROUND_STATE" /\ UNCHANGED <<inbuffer, pc, out>>
  \/ /\ s = "GTXT_RECOGNIZED" /\ p < MinGtxt
     /\ packet_accept("BAD_PACKET", p)
     /\ inbufptr' = p
     /\ state' = "GROUND_STATE" /\ UNCHANGED <<inbuffer, pc>>
  \/ /\ s \notin {"GROUND_STATE", "TSIP_RECOGNIZED", "GTXT_RECOGNIZED"}
     /\ Outcomes(s, p) = {}
     /\ inbufptr' = p
     /\ state' = s /\ UNCHANGED <<inbuffer, pc, out>>

\* One round of the loop of packet_parse.
Char ==
  /\ pc = "parse" /\ inbufptr < Len(inbuffer)
  /\ \E o \in nextstate(inbuffer[inbufptr + 1]) :
       /\ length' = o.length
       /\ json_depth' = o.json_depth /\ json_after' = o.json_after
       /\ \/ /\ o.how = "back"
             /\ state' = o.state /\ UNCHANGED <<inbuffer, inbufptr, pc, out>>
          \/ o.how = "take" /\ Settle(o.state, inbufptr + 1)
          \/ o.how = "break" /\ Settle(o.state, inbufptr)
  /\ UNCHANGED mixture

\* Mutant: the full buffer stays full.
FlushNever == UNCHANGED <<inbuffer, inbufptr, state>>
\* Mutant: the state outlives the bytes that led to it.
FlushBytes ==
  /\ UNCHANGED state
  /\ IF Len(inbuffer) = MaxIn THEN packet_discard(inbufptr)
     ELSE UNCHANGED <<inbuffer, inbufptr>>

\* The buffer is emptied when it is full.
Flush ==
  IF Len(inbuffer) = MaxIn
  THEN packet_discard(inbufptr) /\ state' = "GROUND_STATE"
  ELSE UNCHANGED <<inbuffer, inbufptr, state>>

Return ==
  /\ pc = "done" \/ (pc = "parse" /\ inbufptr = Len(inbuffer))
  /\ Flush
  /\ pc' = "idle" /\ out' = NoPacket
  /\ UNCHANGED <<mixture, length, json_depth, json_after>>

Chunk == UNION {[1..n -> mixture] : n \in 0..MaxRead}
Next == (\E chunk \in Chunk : Get(chunk)) \/ Char \/ Return

Spec == Init /\ [][Next]_vars

\* packet_parse runs on, and the device sends on.
FairSpec ==
  /\ Spec
  /\ WF_vars(Char \/ Return)
  /\ WF_vars(\E chunk \in Chunk \ {<<>>} : Get(chunk))

-----------------------------------------------------------------------------
(* What the lexer does right.                                              *)

\* The pointer is in the buffer, and the buffer in its array.
TypeOK ==
  /\ mixture \in Mixtures /\ pc \in {"idle", "parse", "done"}
  /\ inbuffer \in Seq(mixture) /\ Len(inbuffer) <= MaxIn
  /\ inbufptr \in 0..Len(inbuffer)
  /\ length \in Int /\ json_depth \in Int
  /\ out.bytes \in Seq(mixture) /\ Len(out.bytes) < MaxIn

\* read() always has room (packet.c:2135): with none it would return 0, which
\* the callers take for the end of the device.
RoomToRead == pc = "idle" => Len(inbuffer) < MaxIn

\* A $ in a sentence begins another (packet.c:83), and what was cut short by
\* it is no part of the other: so for satellite systems ($G) and vendors ($P),
\* but for Ashtech's binary sentences, which may have any byte.
CutSentences ==
  LET b == out.bytes
  IN  out.type = "NMEA_PACKET" /\ b[1] = "$" /\ b[2] \in {"G", "P"}
        /\ ~IsPrefix(<<"$", "P", "A", "S", "H", "R">>, b)
      => \A i \in 2..Len(b) : b[i] # "$"

\* packet_parse ends, whatever is pushed back.
Returns == []<>(pc = "idle")

\* No length, right or wrong, makes the lexer count for ever: as long as bytes
\* come, it is in its ground state or at the end of a packet again and again.
\* (Which packets it recognizes from there is not said: after JSON that was cut
\* short, json_depth stays above 0 and no later object comes to its end.)
Resyncs == []<>(state = "GROUND_STATE" \/ pc = "done")

-----------------------------------------------------------------------------
(* What it does not.                                                       *)

\* "NMEA packet with checksum and 4 chars of leading garbage" (test_packet.c:45):
\* the packet is what follows the garbage.
LeadingGarbage ==
  out.type = "NMEA_PACKET" => out.bytes[1] \in {"$", "!", "@", "A", "E"}
=============================================================================
