------------------------- MODULE PacketLexerProofs --------------------------
(***************************************************************************)
(* Proofs about the packet lexer: what holds of its buffer for any device, *)
(* any sizes and any order of reads.                                       *)
(***************************************************************************)
EXTENDS PacketLexer, SequenceTheorems, TLAPS
-----------------------------------------------------------------------------
(* What nextstate returns.                                                 *)

(* The states that may wait for the first byte of the buffer: those that   *)
(* packet_parse leaves after a packet, and the start of JSON.              *)
Kept ==
  {"NMEA_RECOGNIZED", "SIRF_RECOGNIZED", "SUPERSTAR2_RECOGNIZED", "ONCORE_RECOGNIZED",
   "TSIP_RECOGNIZED", "ZODIAC_RECOGNIZED", "UBX_RECOGNIZED", "EVERMORE_RECOGNIZED",
   "ITALK_RECOGNIZED", "NAVCOM_RECOGNIZED", "GEOSTAR_RECOGNIZED", "RTCM2_RECOGNIZED"}
Fresh == Kept \cup {"GROUND_STATE", "JSON_LEADER"}

LEMMA ValueIsNatural ==
  ASSUME NEW c
  PROVE  Value(c) \in Nat
<1> DEFINE S == Control \cap {NUL, SOH, STX, ETX}
<1>1. c \in S => \E n \in 0..3 : <<NUL, SOH, STX, ETX>>[n + 1] = c
  BY DEF NUL, SOH, STX, ETX, DLE, CR, LF
<1> QED
  BY <1>1 DEF Value

(* How a byte may be dealt with.                                           *)
Dealt(o) ==
  /\ o.length \in Int /\ o.json_depth \in Int
  /\ \/ o.how = "take"
     \/ /\ o.how = "back"
        /\ \/ o.state \in {"GROUND_STATE", "JSON_LEADER"}
           \/ state \in {"JSON_NUMBER", "JSON_SPECIAL"}
     \/ /\ o.how = "break"
        /\ \/ o.state = "GROUND_STATE"
           \/ state = "NMEA_BINARY_NL" /\ o.state = "NMEA_RECOGNIZED"

LEMMA DidDealt ==
  ASSUME length \in Int, json_depth \in Int
  PROVE  /\ \A s : Dealt(Take(s))
         /\ Dealt(Did("back", "GROUND_STATE"))
         /\ \A s : \A n \in Int : Dealt(Sized(s, n))
         /\ \A s : \A n, max \in Int : Dealt(Bounded(s, n, max))
BY DEF Dealt, Did, Take, Sized, Bounded

LEMMA LessIsInteger ==
  ASSUME length \in Int
  PROVE  Less \in Int
BY DEF Less

LEMMA PushBackDealt ==
  ASSUME length \in Int, json_depth \in Int, NEW m \in PushBacks, m[1] = state
  PROVE  Dealt(Did("back", m[3]))
<1>1. \/ m[3] = "JSON_LEADER"
      \/ m[1] \in {"JSON_NUMBER", "JSON_SPECIAL"}
  BY DEF PushBacks
<1> QED
  BY <1>1 DEF Dealt, Did

LEMMA CountDealt ==
  ASSUME length \in Int, json_depth \in Int, NEW c, NEW o \in Count(c)
  PROVE  Dealt(o)
BY LessIsInteger, DidDealt DEF Count

LEMMA SirfToOncoreDealt ==
  ASSUME length \in Int, json_depth \in Int, MaxPacket \in Nat, NEW c, NEW o \in SirfToOncoreSize(c)
  PROVE  Dealt(o)
BY ValueIsNatural, DidDealt DEF SirfToOncoreSize

LEMMA NavcomAndRtcm3Dealt ==
  ASSUME length \in Int, json_depth \in Int, NEW c, NEW o \in NavcomAndRtcm3Size(c)
  PROVE  Dealt(o)
BY ValueIsNatural, DidDealt DEF NavcomAndRtcm3Size

LEMMA ZodiacAndUbxDealt ==
  ASSUME length \in Int, json_depth \in Int, MaxPacket \in Nat, NEW c, NEW o \in ZodiacAndUbxSize(c)
  PROVE  Dealt(o)
BY ValueIsNatural, DidDealt DEF ZodiacAndUbxSize

LEMMA EvermoreToGeostarDealt ==
  ASSUME length \in Int, json_depth \in Int, MaxPacket \in Nat, NEW c, NEW o \in EvermoreToGeostarSize(c)
  PROVE  Dealt(o)
<1>1. Dealt([Did("back", "GROUND_STATE") EXCEPT !.length = 0])
  BY DEF Dealt, Did
<1> QED
  BY <1>1, ValueIsNatural, LessIsInteger, DidDealt DEF EvermoreToGeostarSize

LEMMA JsonDealt ==
  ASSUME length \in Int, json_depth \in Int, NEW c, NEW o \in Json(c)
  PROVE  Dealt(o)
<1> DEFINE closed == IF json_depth = 1 THEN "JSON_RECOGNIZED" ELSE state
<1>1. \/ o = [Take(state) EXCEPT !.json_depth = @ + 1]
      \/ o = [Take(closed) EXCEPT !.json_depth = @ - 1]
      \/ o = [Take("JSON_STRINGLITERAL") EXCEPT !.json_after = "JSON_END_ATTRIBUTE"]
      \/ o = [Take("JSON_STRINGLITERAL") EXCEPT !.json_after = "JSON_END_VALUE"]
      \/ o = Take(json_after)
  BY DEF Json
<1> HIDE DEF closed
<1> QED
  BY <1>1 DEF Dealt, Did, Take

LEMMA UnexpectedDealt ==
  ASSUME length \in Int, json_depth \in Int
  PROVE  Dealt(Unexpected)
BY DidDealt DEF Unexpected, Dealt, Did, Take

LEMMA NextDealt ==
  ASSUME length \in Int, json_depth \in Int, NEW c, NEW o \in nextstate(c)
  PROVE  Dealt(o)
<1> DEFINE moves == {m \in Moves : m[1] = state /\ c \in m[2]}
           backs == {m \in PushBacks : m[1] = state /\ c \in m[2]}
<1>1. \/ \E m \in moves : o = Take(m[3])
      \/ \E m \in backs : o = Did("back", m[3])
      \/ o \in SirfToOncoreSize(c) \/ o \in NavcomAndRtcm3Size(c) \/ o \in ZodiacAndUbxSize(c)
      \/ o \in EvermoreToGeostarSize(c) \/ o \in Json(c) \/ o \in Count(c)
      \/ o = Unexpected
  BY DEF nextstate
<1>2. MaxPacket \in Nat
  BY LexerAssumption
<1> QED
  BY <1>1, <1>2, DidDealt, PushBackDealt, SirfToOncoreDealt, NavcomAndRtcm3Dealt, ZodiacAndUbxDealt,
     EvermoreToGeostarDealt, JsonDealt, CountDealt, UnexpectedDealt
-----------------------------------------------------------------------------
(* The buffer.                                                             *)

(* The buffer is full only in packet_parse; and before the first byte the  *)
(* state is one that needs none.                                           *)
BufferInv ==
  /\ TypeOK
  /\ pc \in {"idle", "done"} => Len(inbuffer) < MaxIn
  /\ inbufptr = 0 => state \in Fresh

LEMMA OutcomeState ==
  ASSUME NEW s, NEW p, NEW o \in Outcomes(s, p)
  PROVE  /\ s # "GROUND_STATE"
         /\ o[2] \in {"GROUND_STATE", s} /\ o[2] \in Fresh
BY DEF Outcomes, Fresh, Kept

LEMMA BufferFacts ==
  ASSUME TypeOK
  PROVE  /\ inbuffer \in Seq(mixture) /\ Len(inbuffer) \in Nat /\ inbufptr \in Nat
         /\ inbufptr <= Len(inbuffer) /\ Len(inbuffer) <= MaxIn /\ MaxIn \in Nat \ {0}
         /\ Len(out.bytes) < MaxIn
BY LexerAssumption, LenProperties DEF TypeOK

(* What remains of the buffer after its first p bytes.                     *)
LEMMA Discarded ==
  ASSUME TypeOK, NEW p \in 0..Len(inbuffer), packet_discard(p)
  PROVE  /\ inbuffer' \in Seq(mixture) /\ Len(inbuffer') = Len(inbuffer) - p /\ inbufptr' = 0
<1>1. p + 1 \in Nat /\ Len(inbuffer) \in Nat /\ inbuffer \in Seq(mixture)
  BY BufferFacts
<1>2. \A i \in p + 1..Len(inbuffer) : i \in 1..Len(inbuffer)
  BY <1>1
<1>3. /\ SubSeq(inbuffer, p + 1, Len(inbuffer)) \in Seq(mixture)
      /\ Len(SubSeq(inbuffer, p + 1, Len(inbuffer))) = Len(inbuffer) - p
  BY <1>1, <1>2, SubSeqProperties
<1> QED
  BY <1>3 DEF packet_discard

LEMMA CharDiscarded ==
  ASSUME TypeOK, Len(inbuffer) > 0, character_discard
  PROVE  /\ inbuffer' \in Seq(mixture) /\ Len(inbuffer') = Len(inbuffer) - 1 /\ inbufptr' = 0
BY BufferFacts, HeadTailProperties DEF character_discard

LEMMA Accepted ==
  ASSUME TypeOK, NEW p \in 0..Len(inbuffer), NEW type, packet_accept(type, p)
  PROVE  out'.bytes \in Seq(mixture) /\ Len(out'.bytes) < MaxIn
<1>1. CASE p < MaxIn
  <2>1. SubSeq(inbuffer, 1, p) \in Seq(mixture) /\ Len(SubSeq(inbuffer, 1, p)) = p
    BY BufferFacts, SubSeqProperties
  <2>2. out' = [type |-> type, bytes |-> SubSeq(inbuffer, 1, p)]
    BY <1>1 DEF packet_accept
  <2> QED
    BY <1>1, <2>1, <2>2
<1>2. CASE ~(p < MaxIn)
  BY <1>2 DEF packet_accept, TypeOK
<1> QED
  BY <1>1, <1>2

LEMMA SettleBuffer ==
  ASSUME TypeOK, pc = "parse", Len(inbuffer) > 0, NEW s, NEW p \in 0..Len(inbuffer), Settle(s, p),
         p = 0 => s = "GROUND_STATE"
  PROVE  /\ pc' \in {"idle", "parse", "done"}
         /\ inbuffer' \in Seq(mixture) /\ Len(inbuffer') <= MaxIn
         /\ inbufptr' \in 0..Len(inbuffer')
         /\ out'.bytes \in Seq(mixture) /\ Len(out'.bytes) < MaxIn
         /\ pc' \in {"idle", "done"} => Len(inbuffer') < MaxIn
         /\ inbufptr' = 0 => state' \in Fresh
<1>1. CASE s = "GROUND_STATE" /\ character_discard /\ state' = s /\ UNCHANGED <<pc, out>>
  BY <1>1, CharDiscarded, BufferFacts DEF TypeOK, Fresh
<1>2. ASSUME NEW o \in Outcomes(s, p), packet_accept(o[1], p), packet_discard(p), state' = o[2],
             pc' = "done"
      PROVE  /\ pc' \in {"idle", "parse", "done"}
             /\ inbuffer' \in Seq(mixture) /\ Len(inbuffer') <= MaxIn
             /\ inbufptr' \in 0..Len(inbuffer')
             /\ out'.bytes \in Seq(mixture) /\ Len(out'.bytes) < MaxIn
             /\ Len(inbuffer') < MaxIn
             /\ state' \in Fresh
  <2>1. s # "GROUND_STATE" /\ state' \in Fresh
    BY <1>2, OutcomeState
  <2>2. p > 0
    BY <2>1, BufferFacts
  <2>3. out'.bytes \in Seq(mixture) /\ Len(out'.bytes) < MaxIn
    BY <1>2, Accepted
  <2>4. inbuffer' \in Seq(mixture) /\ Len(inbuffer') = Len(inbuffer) - p /\ inbufptr' = 0
    BY <1>2, Discarded
  <2>5. Len(inbuffer') < MaxIn /\ Len(inbuffer') >= 0
    BY <2>2, <2>4, BufferFacts
  <2> QED
    BY <1>2, <2>1, <2>3, <2>4, <2>5, BufferFacts
<1>3. CASE s # "GROUND_STATE" /\ inbufptr' = p /\ UNCHANGED <<inbuffer, pc, out>>
  BY <1>3, BufferFacts DEF TypeOK
<1>4. CASE s = "GTXT_RECOGNIZED" /\ packet_accept("BAD_PACKET", p) /\ inbufptr' = p
           /\ UNCHANGED <<inbuffer, pc>>
  BY <1>4, BufferFacts, Accepted DEF TypeOK
<1> QED
  BY <1>1, <1>2, <1>3, <1>4 DEF Settle

LEMMA CharBuffer ==
  ASSUME BufferInv, Char
  PROVE  BufferInv'
<1> USE DEF BufferInv
<1>1. inbufptr < Len(inbuffer) /\ pc = "parse" /\ inbufptr + 1 \in 0..Len(inbuffer)
      /\ inbufptr \in 0..Len(inbuffer) /\ inbufptr + 1 > 0 /\ Len(inbuffer) > 0
  BY BufferFacts DEF Char
<1>2. PICK o \in nextstate(inbuffer[inbufptr + 1]) :
        /\ length' = o.length
        /\ json_depth' = o.json_depth
        /\ \/ o.how = "back" /\ state' = o.state /\ UNCHANGED <<inbuffer, inbufptr, pc, out>>
           \/ o.how = "take" /\ Settle(o.state, inbufptr + 1)
           \/ o.how = "break" /\ Settle(o.state, inbufptr)
  BY DEF Char
<1>3. Dealt(o)
  BY NextDealt DEF TypeOK
<1>4. mixture' = mixture /\ length' \in Int /\ json_depth' \in Int
  BY <1>2, <1>3 DEF Char, Dealt
<1>5. CASE o.how = "back" /\ state' = o.state /\ UNCHANGED <<inbuffer, inbufptr, pc, out>>
  <2>1. inbufptr = 0 => state' \in Fresh
    BY <1>3, <1>5 DEF Dealt, Fresh, Kept
  <2> QED
    BY <1>4, <1>5, <2>1 DEF TypeOK
<1>6. CASE o.how = "take" /\ Settle(o.state, inbufptr + 1)
  BY <1>1, <1>4, <1>6, SettleBuffer DEF TypeOK
<1>7. CASE o.how = "break" /\ Settle(o.state, inbufptr)
  <2>1. inbufptr = 0 => o.state = "GROUND_STATE"
    BY <1>3, <1>7 DEF Dealt, Fresh, Kept
  <2> QED
    BY <1>1, <1>4, <1>7, <2>1, SettleBuffer DEF TypeOK
<1> QED
  BY <1>2, <1>5, <1>6, <1>7

LEMMA GetBuffer ==
  ASSUME BufferInv, NEW chunk \in Chunk, Get(chunk)
  PROVE  /\ BufferInv' /\ inbuffer' \in Seq(mixture) /\ chunk \in Seq(mixture)
<1> USE DEF BufferInv
<1>1. chunk \in Seq(mixture)
  <2>1. PICK n \in 0..MaxRead : chunk \in [1..n -> mixture]
    BY DEF Chunk
  <2>2. n \in Nat
    BY LexerAssumption
  <2> QED
    BY <2>1, <2>2, SeqDef
<1>2. /\ inbuffer' = inbuffer \o chunk /\ Len(inbuffer) + Len(chunk) <= MaxIn
      /\ pc' = "parse" /\ out' = NoPacket
      /\ UNCHANGED <<mixture, inbufptr, lexer>>
  BY DEF Get
<1>3. inbuffer' \in Seq(mixture) /\ Len(inbuffer') = Len(inbuffer) + Len(chunk) /\ Len(chunk) \in Nat
  BY <1>1, <1>2, BufferFacts, ConcatProperties
<1>4. NoPacket.bytes \in Seq(mixture) /\ Len(NoPacket.bytes) < MaxIn
  BY BufferFacts DEF NoPacket
<1>5. inbufptr' \in 0..Len(inbuffer')
  BY <1>2, <1>3, BufferFacts
<1> QED
  BY <1>1, <1>2, <1>3, <1>4, <1>5 DEF TypeOK, lexer

LEMMA ReturnBuffer ==
  ASSUME BufferInv, Return
  PROVE  BufferInv'
<1> USE DEF BufferInv
<1>1. NoPacket.bytes \in Seq(mixture) /\ Len(NoPacket.bytes) < MaxIn
  BY BufferFacts DEF NoPacket
<1>2. pc' = "idle" /\ out' = NoPacket /\ UNCHANGED <<mixture, length, json_depth>>
  BY DEF Return
<1>3. CASE Len(inbuffer) = MaxIn
  <2>1. inbufptr = Len(inbuffer) /\ packet_discard(inbufptr) /\ state' = "GROUND_STATE"
    BY <1>3, BufferFacts DEF Return, Flush
  <2>2. inbuffer' \in Seq(mixture) /\ Len(inbuffer') = 0 /\ inbufptr' = 0
    BY <2>1, BufferFacts, Discarded
  <2> QED
    BY <1>1, <1>2, <2>1, <2>2, BufferFacts DEF TypeOK, Fresh
<1>4. CASE Len(inbuffer) # MaxIn
  <2>1. UNCHANGED <<inbuffer, inbufptr, state>>
    BY <1>4 DEF Return, Flush
  <2>2. Len(inbuffer) < MaxIn
    BY <1>4, BufferFacts
  <2> QED
    BY <1>1, <1>2, <2>1, <2>2 DEF TypeOK
<1> QED
  BY <1>3, <1>4

LEMMA InitBuffer == Init => BufferInv
<1> SUFFICES ASSUME Init PROVE BufferInv
  OBVIOUS
<1>1. << >> \in Seq(mixture) /\ Len(<< >>) = 0 /\ MaxIn > 0 /\ 0 \in 0..0
  BY LexerAssumption
<1> QED
  BY <1>1, LexerAssumption DEF Init, BufferInv, TypeOK, NoPacket, Fresh

LEMMA NextBuffer == BufferInv /\ [Next]_vars => BufferInv'
<1>1. ASSUME BufferInv, UNCHANGED vars
      PROVE  BufferInv'
  BY <1>1 DEF vars, lexer, BufferInv, TypeOK
<1> QED
  BY <1>1, CharBuffer, GetBuffer, ReturnBuffer DEF Next

LEMMA Buffering == Spec => []BufferInv
BY InitBuffer, NextBuffer, PTL DEF Spec

(* packet.c never looks beyond the bytes it has received, its buffer never *)
(* holds more than inbuffer[] does, nor outbuffer[] more than fits.        *)
THEOREM LexerTypeCorrect == Spec => []TypeOK
<1>1. BufferInv => TypeOK
  BY DEF BufferInv
<1> QED
  BY <1>1, Buffering, PTL

(* Whenever packet_get is about to read, there is room for a byte: what is *)
(* flushed at its end is all that was looked at, and a full buffer has     *)
(* been looked at to the end.                                              *)
THEOREM LexerHasRoom == Spec => []RoomToRead
<1>1. BufferInv => RoomToRead
  BY DEF BufferInv, RoomToRead
<1> QED
  BY <1>1, Buffering, PTL
-----------------------------------------------------------------------------
(* Sentences that are cut short.                                           *)

(* The states in which a sentence of a satellite system or a vendor is.    *)
Plain ==
  {"NMEA_PUB_LEAD", "NMEA_VENDOR_LEAD", "NMEA_PASHR_A", "NMEA_PASHR_S", "NMEA_PASHR_H",
   "NMEA_LEADER_END", "NMEA_CR"}
Early == Plain \cup {"NMEA_DOLLAR"}

(* What a move of the table means for a $ that begins a sentence.          *)
Leads(m) ==
  /\ m[1] \notin Early
  /\ m[1] \in Fresh /\ "$" \in m[2] => m[3] \in {"NMEA_DOLLAR", "GROUND_STATE"}

LEMMA DollarIsNoOther ==
  "$" # OpenBrace /\ "$" # CloseBrace /\ "$" # Quote /\ "$" # Comma /\ "$" # Blank
BY Zenon DEF OpenBrace, CloseBrace, Quote, Comma, Blank

LEMMA NoDollarInAlpha == "$" \notin Alpha
BY DEF Alpha, Upper, Lower

LEMMA GroundLeads == \A m \in FromGround : Leads(m)
BY DEF FromGround, Leads, Early, Plain, Fresh, Kept, SOH, STX, DLE, LF

LEMMA TalkerLeadsLead == \A m \in TalkerLeads : Leads(m)
BY DEF TalkerLeads, Leads, Early, Plain, Fresh, Kept

LEMMA AisLeads == \A m \in AisLeaders : Leads(m)
BY DEF AisLeaders, Leads, Early, Plain, Fresh, Kept

LEMMA At1Leads == \A m \in At1 : Leads(m)
BY DEF At1, Leads, Early, Plain, Fresh, Kept

LEMMA WordsLead == \A m \in Words : Leads(m)
BY DEF Words, Leads, Early, Plain, Fresh, Kept

LEMMA Rtcm2Leads == \A m \in Rtcm2 : Leads(m)
<1>1. "$" \notin Bits
  BY NoDollarInAlpha, DollarIsNoOther DEF Bits
<1> QED
  BY <1>1 DEF Rtcm2, Leads, Early, Plain, Fresh, Kept

LEMMA Rtcm2WordsLead == \A m \in Rtcm2InWords : Leads(m)
<1>1. \A m \in Words : m[1] \notin Early /\ m[1] \notin Fresh
  BY DEF Words, Early, Plain, Fresh, Kept
<1> QED
  BY <1>1 DEF Rtcm2InWords, Leads

LEMMA SirfLeads == \A m \in SirfAndSuperstar : Leads(m)
BY DEF SirfAndSuperstar, Leads, Early, Plain, Fresh, Kept, SOH

LEMMA OncoreLeads == \A m \in OncoreDleAndNavcom : Leads(m)
BY DEF OncoreDleAndNavcom, Leads, Early, Plain, Fresh, Kept, STX

LEMMA EvermoreLeads == \A m \in Evermore : Leads(m)
BY DEF Evermore, Leads, Early, Plain, Fresh, Kept, DLE

LEMMA TsipLeads == \A m \in Tsip : Leads(m)
BY DEF Tsip, Leads, Early, Plain, Fresh, Kept, DLE

LEMMA ZodiacLeads == \A m \in ZodiacAndUbx : Leads(m)
BY DEF ZodiacAndUbx, Leads, Early, Plain, Fresh, Kept

LEMMA ItalkLeads == \A m \in ItalkAndGeostar : Leads(m)
BY DEF ItalkAndGeostar, Leads, Early, Plain, Fresh, Kept

LEMMA JsonLeads == \A m \in JsonMoves : Leads(m)
<1>1. "$" \notin Space \cup {Comma}
  BY DollarIsNoOther DEF Space, CR, LF
<1> QED
  BY <1>1 DEF JsonMoves, Leads, Early, Plain, Fresh, Kept

(* How a sentence begins, and goes on.                                     *)
Begins(m) ==
  /\ m[1] \notin Plain
  /\ m[1] \in Fresh /\ "$" \in m[2] => m[3] \in {"NMEA_DOLLAR", "GROUND_STATE"}
  /\ m[1] = "NMEA_DOLLAR" /\ "G" \in m[2] => m[3] = "NMEA_PUB_LEAD"
  /\ m[1] = "NMEA_DOLLAR" /\ "P" \in m[2] => m[3] = "NMEA_VENDOR_LEAD"

GoesOn(m) ==
  /\ "$" \notin m[2]
  /\ m[3] \in {"NMEA_PASHR_A", "NMEA_PASHR_S", "NMEA_PASHR_H", "NMEA_LEADER_END", "NMEA_CR",
               "NMEA_RECOGNIZED", "NMEA_BINARY_BODY"}
  /\ m[3] = "NMEA_PASHR_A" => m[1] = "NMEA_VENDOR_LEAD" /\ m[2] = {"A"}
  /\ m[3] = "NMEA_PASHR_S" => m[1] = "NMEA_PASHR_A" /\ m[2] = {"S"}
  /\ m[3] = "NMEA_PASHR_H" => m[1] = "NMEA_PASHR_S" /\ m[2] = {"H"}
  /\ m[3] = "NMEA_BINARY_BODY" => m[1] = "NMEA_PASHR_H" /\ m[2] = {"R"}

LEMMA DollarBegins == \A m \in NmeaDollar : Begins(m) \/ (m[1] \in Plain /\ GoesOn(m))
BY NoDollarInAlpha DEF NmeaDollar, Begins, GoesOn, Plain, Fresh, Kept

LEMMA PashrBegins == \A m \in Pashr : Begins(m) \/ (m[1] \in Plain /\ GoesOn(m))
BY NoDollarInAlpha DEF Pashr, Begins, GoesOn, Plain, Fresh, Kept

LEMMA BodiesBegin == \A m \in NmeaBodies : Begins(m) \/ (m[1] \in Plain /\ GoesOn(m))
BY NoDollarInAlpha DEF NmeaBodies, Begins, GoesOn, Plain, Fresh, Kept, CR, LF

LEMMA MovesBegin == \A m \in Moves : Begins(m) \/ (m[1] \in Plain /\ GoesOn(m))
<1>1. ASSUME NEW m, Leads(m)
      PROVE  Begins(m)
  BY <1>1 DEF Leads, Begins, Early
<1> HIDE DEF Begins, GoesOn
<1> QED
  BY <1>1, DollarBegins, PashrBegins, BodiesBegin, GroundLeads, TalkerLeadsLead, AisLeads,
     At1Leads, WordsLead, Rtcm2Leads, Rtcm2WordsLead, SirfLeads, OncoreLeads, EvermoreLeads, TsipLeads, ZodiacLeads,
     ItalkLeads, JsonLeads
  DEF Moves

(* No length is read, nothing is counted and no brace is matched there.    *)
LEMMA NothingSized ==
  ASSUME NEW c, state \in Early \/ (state \in Fresh /\ c = "$")
  PROVE  /\ SirfToOncoreSize(c) = {} /\ NavcomAndRtcm3Size(c) = {} /\ ZodiacAndUbxSize(c) = {}
         /\ EvermoreToGeostarSize(c) = {} /\ Json(c) = {} /\ state \notin DOMAIN Counted
<1> DEFINE Others == {"NMEA_PUB_LEAD", "NMEA_VENDOR_LEAD", "NMEA_PASHR_A", "NMEA_PASHR_S",
                      "NMEA_PASHR_H", "NMEA_LEADER_END", "NMEA_CR", "NMEA_DOLLAR",
                      "NMEA_RECOGNIZED", "SIRF_RECOGNIZED", "SUPERSTAR2_RECOGNIZED",
                      "ONCORE_RECOGNIZED", "TSIP_RECOGNIZED", "ZODIAC_RECOGNIZED",
                      "UBX_RECOGNIZED", "EVERMORE_RECOGNIZED", "ITALK_RECOGNIZED",
                      "NAVCOM_RECOGNIZED", "GEOSTAR_RECOGNIZED", "RTCM2_RECOGNIZED",
                      "GROUND_STATE"}
<1>1. state \in Others \/ (state = "JSON_LEADER" /\ c = "$")
  BY DEF Early, Plain, Fresh, Kept
<1>2. SirfToOncoreSize(c) = {}
  BY <1>1 DEF SirfToOncoreSize
<1>3. NavcomAndRtcm3Size(c) = {}
  BY <1>1 DEF NavcomAndRtcm3Size
<1>4. ZodiacAndUbxSize(c) = {}
  BY <1>1 DEF ZodiacAndUbxSize
<1>5. EvermoreToGeostarSize(c) = {}
  BY <1>1 DEF EvermoreToGeostarSize
<1>6. Json(c) = {}
  <2>1. state = "JSON_LEADER" => c \notin {OpenBrace, "["} /\ c \notin {CloseBrace, "]"} /\ c # Quote
    BY <1>1, DollarIsNoOther
  <2> QED
    BY <1>1, <2>1 DEF Json
<1>7. state \notin DOMAIN Counted
  BY <1>1 DEF Counted
<1> QED
  BY <1>2, <1>3, <1>4, <1>5, <1>6, <1>7

LEMMA OnlyMoves ==
  ASSUME NEW c, state \in Early \/ (state \in Fresh /\ c = "$"), NEW o \in nextstate(c)
  PROVE  \/ \E m \in Moves : m[1] = state /\ c \in m[2] /\ o = Take(m[3])
         \/ \E m \in PushBacks : m[1] = state /\ o = Did("back", m[3])
         \/ o = Unexpected
BY NothingSized DEF nextstate

LEMMA NoPushBack ==
  ASSUME state \in Early
  PROVE  \A m \in PushBacks : m[1] # state
BY DEF Early, Plain, PushBacks

LEMMA EarlyBreaks ==
  ASSUME state \in Early
  PROVE  Unexpected.how = "break" /\ Unexpected.state = "GROUND_STATE"
BY DEF Early, Plain, Unexpected, Breaking, Did

LEMMA FreshDollar ==
  ASSUME state \in Fresh, NEW o \in nextstate("$")
  PROVE  \/ o.how = "back"
         \/ o.how = "take" /\ o.state \in {"NMEA_DOLLAR", "GROUND_STATE"}
<1>1. ASSUME NEW m \in Moves, m[1] = state, "$" \in m[2]
      PROVE  m[3] \in {"NMEA_DOLLAR", "GROUND_STATE"}
  <2>1. m[1] \notin Plain
    BY <1>1 DEF Fresh, Kept, Plain
  <2> QED
    BY <1>1, <2>1, MovesBegin DEF Begins
<1>2. Unexpected.how = "back" \/ (Unexpected.how = "take" /\ Unexpected.state = "GROUND_STATE")
  BY DEF Unexpected, Fresh, Kept, Breaking, Did, Take
<1>3. \A s : Take(s).how = "take" /\ Take(s).state = s /\ Did("back", s).how = "back"
  BY DEF Take, Did
<1> QED
  BY <1>1, <1>2, <1>3, OnlyMoves

LEMMA DollarNext ==
  ASSUME state = "NMEA_DOLLAR", NEW c, NEW o \in nextstate(c)
  PROVE  \/ o.how = "break" /\ o.state = "GROUND_STATE"
         \/ /\ o.how = "take"
            /\ c = "G" => o.state = "NMEA_PUB_LEAD"
            /\ c = "P" => o.state = "NMEA_VENDOR_LEAD"
<1>1. state \in Early /\ state \notin Plain
  BY DEF Early, Plain
<1>2. ASSUME NEW m \in Moves, m[1] = state, c \in m[2]
      PROVE  (c = "G" => m[3] = "NMEA_PUB_LEAD") /\ (c = "P" => m[3] = "NMEA_VENDOR_LEAD")
  BY <1>1, <1>2, MovesBegin DEF Begins
<1>3. \A s : Take(s).how = "take" /\ Take(s).state = s
  BY DEF Take, Did
<1> QED
  BY <1>1, <1>2, <1>3, OnlyMoves, NoPushBack, EarlyBreaks

LEMMA PlainNext ==
  ASSUME state \in Plain, NEW c, NEW o \in nextstate(c)
  PROVE  \/ o.how = "break" /\ o.state = "GROUND_STATE"
         \/ /\ o.how = "take" /\ c # "$"
            /\ o.state \in {"NMEA_PASHR_A", "NMEA_PASHR_S", "NMEA_PASHR_H", "NMEA_LEADER_END",
                            "NMEA_CR", "NMEA_RECOGNIZED", "NMEA_BINARY_BODY"}
            /\ o.state = "NMEA_PASHR_A" => state = "NMEA_VENDOR_LEAD" /\ c = "A"
            /\ o.state = "NMEA_PASHR_S" => state = "NMEA_PASHR_A" /\ c = "S"
            /\ o.state = "NMEA_PASHR_H" => state = "NMEA_PASHR_S" /\ c = "H"
            /\ o.state = "NMEA_BINARY_BODY" => state = "NMEA_PASHR_H" /\ c = "R"
<1>1. state \in Early
  BY DEF Early
<1>2. ASSUME NEW m \in Moves, m[1] = state, c \in m[2]
      PROVE  GoesOn(m)
  BY <1>2, MovesBegin DEF Begins
<1>3. \A s : Take(s).how = "take" /\ Take(s).state = s
  BY DEF Take, Did
<1>4. ASSUME NEW m \in Moves, m[1] = state, c \in m[2], o = Take(m[3])
      PROVE  /\ o.how = "take" /\ c # "$"
             /\ o.state \in {"NMEA_PASHR_A", "NMEA_PASHR_S", "NMEA_PASHR_H", "NMEA_LEADER_END",
                             "NMEA_CR", "NMEA_RECOGNIZED", "NMEA_BINARY_BODY"}
             /\ o.state = "NMEA_PASHR_A" => state = "NMEA_VENDOR_LEAD" /\ c = "A"
             /\ o.state = "NMEA_PASHR_S" => state = "NMEA_PASHR_A" /\ c = "S"
             /\ o.state = "NMEA_PASHR_H" => state = "NMEA_PASHR_S" /\ c = "H"
             /\ o.state = "NMEA_BINARY_BODY" => state = "NMEA_PASHR_H" /\ c = "R"
  BY <1>2, <1>3, <1>4 DEF GoesOn
<1> QED
  BY <1>1, <1>4, OnlyMoves, NoPushBack, EarlyBreaks

(* Settle discards from the buffer, or its first p bytes remain looked at; *)
(* and it delivers a sentence only from NMEA_RECOGNIZED.                   *)
LEMMA Settled ==
  ASSUME NEW s, NEW p, Settle(s, p)
  PROVE  /\ \/ inbufptr' = 0
            \/ /\ UNCHANGED inbuffer /\ inbufptr' = p
               /\ s \notin {"GROUND_STATE", "NMEA_RECOGNIZED"}
               /\ s \notin {"TSIP_RECOGNIZED", "GTXT_RECOGNIZED"} => state' = s
         /\ \/ UNCHANGED out \/ out'.type # "NMEA_PACKET"
            \/ s = "NMEA_RECOGNIZED" /\ out'.bytes = SubSeq(inbuffer, 1, p)
<1>1. s = "NMEA_RECOGNIZED" => Outcomes(s, p) # {}
  BY DEF Outcomes
<1>2. ASSUME NEW o \in Outcomes(s, p), o[1] = "NMEA_PACKET"
      PROVE  s = "NMEA_RECOGNIZED"
  BY <1>2 DEF Outcomes
<1>3. ASSUME NEW o \in Outcomes(s, p), packet_accept(o[1], p)
      PROVE  \/ UNCHANGED out \/ out'.type # "NMEA_PACKET"
             \/ s = "NMEA_RECOGNIZED" /\ out'.bytes = SubSeq(inbuffer, 1, p)
  BY <1>2, <1>3 DEF packet_accept
<1>4. packet_accept("BAD_PACKET", p) => UNCHANGED out \/ out'.type # "NMEA_PACKET"
  BY DEF packet_accept
<1> QED
  BY <1>1, <1>3, <1>4 DEF Settle, character_discard, packet_discard

(* Of a buffer that begins with a $ in a sentence of a satellite system or *)
(* a vendor: Ashtech's own, whose bytes may be any, or else one without    *)
(* another $, whose state tells how it began.                              *)
Ashtech(b) == b[2] = "P" /\ b[3] = "A" /\ b[4] = "S" /\ b[5] = "H" /\ b[6] = "R"

Whole ==
  /\ state \in Plain
  /\ \A i \in 2..inbufptr : inbuffer[i] # "$"
  /\ state = "NMEA_VENDOR_LEAD" => inbufptr = 2 /\ inbuffer[2] = "P"
  /\ state = "NMEA_PASHR_A" => inbufptr = 3 /\ inbuffer[2] = "P" /\ inbuffer[3] = "A"
  /\ state = "NMEA_PASHR_S" =>
       inbufptr = 4 /\ inbuffer[2] = "P" /\ inbuffer[3] = "A" /\ inbuffer[4] = "S"
  /\ state = "NMEA_PASHR_H" =>
       /\ inbufptr = 5 /\ inbuffer[2] = "P" /\ inbuffer[3] = "A" /\ inbuffer[4] = "S"
       /\ inbuffer[5] = "H"

SentenceInv ==
  inbufptr > 0 /\ inbuffer[1] = "$" =>
    /\ inbufptr = 1 => state = "NMEA_DOLLAR"
    /\ inbufptr > 1 /\ inbuffer[2] \in {"G", "P"} =>
         (inbufptr > 5 /\ Ashtech(inbuffer)) \/ Whole

LEMMA PrefixByBytes ==
  ASSUME NEW S, NEW s \in Seq(S), NEW T, NEW t \in Seq(T), Len(s) <= Len(t),
         \A i \in 1..Len(s) : s[i] = t[i]
  PROVE  IsPrefix(s, t)
<1>1. SubSeq(s, 1, Len(s)) = s
  BY SubSeqProperties, LenProperties
<1>2. /\ SubSeq(t, 1, Len(s)) \in Seq(T) /\ Len(SubSeq(t, 1, Len(s))) = Len(s)
      /\ \A i \in 1..Len(s) : SubSeq(t, 1, Len(s))[i] = t[i]
  BY SubSeqProperties, LenProperties
<1>3. SubSeq(t, 1, Len(s)) = s
  BY <1>2, SeqEqual
<1> QED
  BY <1>1, <1>3 DEF IsPrefix

LEMMA AshtechIsPrefix ==
  ASSUME NEW S, NEW b \in Seq(S), Len(b) > 5, b[1] = "$", Ashtech(b)
  PROVE  IsPrefix(<<"$", "P", "A", "S", "H", "R">>, b)
<1> DEFINE a == <<"$", "P", "A", "S", "H", "R">>
<1>1. a \in Seq({"$", "P", "A", "S", "H", "R"})
  OBVIOUS
<1>2. Len(a) = 6
  OBVIOUS
<1>3. \A i \in 1..6 : a[i] = b[i]
  BY DEF Ashtech
<1>4. Len(a) <= Len(b)
  BY <1>2, LenProperties
<1> HIDE DEF a
<1>5. IsPrefix(a, b)
  BY <1>1, <1>2, <1>3, <1>4, PrefixByBytes
<1> QED
  BY <1>5 DEF a

(* The first p bytes of the buffer are no sentence that has another cut    *)
(* short before it.                                                        *)
Sound(p) ==
  \/ p < 2 \/ inbuffer[1] # "$" \/ inbuffer[2] \notin {"G", "P"}
  \/ p > 5 /\ Ashtech(inbuffer)
  \/ \A i \in 2..p : inbuffer[i] # "$"

LEMMA SoundNow ==
  ASSUME inbufptr \in Nat, SentenceInv
  PROVE  Sound(inbufptr)
BY DEF SentenceInv, Whole, Sound

LEMMA SoundNext ==
  ASSUME inbufptr \in Nat, SentenceInv, NEW o \in nextstate(inbuffer[inbufptr + 1]), o.how = "take"
  PROVE  Sound(inbufptr + 1)
<1>1. CASE Whole /\ inbufptr > 1
  <2>1. inbuffer[inbufptr + 1] # "$"
    BY <1>1, PlainNext DEF Whole
  <2> QED
    BY <1>1, <2>1 DEF Sound, Whole
<1>2. CASE ~(Whole /\ inbufptr > 1)
  BY <1>2 DEF SentenceInv, Sound
<1> QED
  BY <1>1, <1>2

LEMMA DeliveredSound ==
  ASSUME TypeOK, NEW p \in 0..Len(inbuffer), out'.bytes = SubSeq(inbuffer, 1, p), Sound(p)
  PROVE  CutSentences'
<1> DEFINE b == out'.bytes
<1>1. p \in Nat /\ p <= Len(inbuffer) /\ inbuffer \in Seq(mixture) /\ Len(inbuffer) \in Nat
  BY BufferFacts
<1>2. /\ b \in Seq(mixture) /\ Len(b) = p
      /\ \A i \in 1..p : b[i] = inbuffer[i]
  BY <1>1, SubSeqProperties, LenProperties
<1> HIDE DEF b
<1>3. SUFFICES ASSUME b[1] = "$", b[2] \in {"G", "P"},
                      ~IsPrefix(<<"$", "P", "A", "S", "H", "R">>, b)
               PROVE  \A i \in 2..Len(b) : b[i] # "$"
  BY DEF CutSentences, b
<1>4. CASE p > 5 /\ Ashtech(inbuffer)
  <2>1. Ashtech(b)
    BY <1>1, <1>2, <1>4 DEF Ashtech
  <2> QED
    BY <1>2, <1>3, <1>4, <2>1, AshtechIsPrefix
<1>5. CASE ~(p > 5 /\ Ashtech(inbuffer))
  BY <1>1, <1>2, <1>3, <1>5 DEF Sound
<1> QED
  BY <1>4, <1>5

(* A byte taken into a sentence.                                           *)
LEMMA TakeSentence ==
  ASSUME BufferInv, SentenceInv, inbufptr < Len(inbuffer),
         NEW o \in nextstate(inbuffer[inbufptr + 1]), o.how = "take",
         UNCHANGED inbuffer, inbufptr' = inbufptr + 1,
         o.state \notin {"GROUND_STATE", "NMEA_RECOGNIZED"},
         o.state \notin {"TSIP_RECOGNIZED", "GTXT_RECOGNIZED"} => state' = o.state
  PROVE  SentenceInv'
<1>1. inbufptr \in Nat
  BY BufferFacts DEF BufferInv
<1>2. SUFFICES ASSUME inbuffer[1] = "$"
               PROVE  /\ inbufptr + 1 = 1 => state' = "NMEA_DOLLAR"
                      /\ inbufptr + 1 > 1 /\ inbuffer[2] \in {"G", "P"} =>
                           (inbufptr + 1 > 5 /\ Ashtech(inbuffer)) \/ Whole'
  BY DEF SentenceInv, Ashtech
<1>3. CASE inbufptr = 0
  BY <1>2, <1>3, FreshDollar DEF BufferInv
<1>4. CASE inbufptr = 1 /\ inbuffer[2] \in {"G", "P"}
  <2>1. state = "NMEA_DOLLAR"
    BY <1>2, <1>4 DEF SentenceInv
  <2>2. /\ inbuffer[2] = "G" => o.state = "NMEA_PUB_LEAD"
        /\ inbuffer[2] = "P" => o.state = "NMEA_VENDOR_LEAD"
    BY <1>4, <2>1, DollarNext
  <2>3. Whole'
    BY <1>4, <2>2 DEF Whole, Plain
  <2> QED
    BY <1>4, <2>3
<1>5. CASE inbufptr > 1 /\ inbuffer[2] \in {"G", "P"} /\ inbufptr > 5 /\ Ashtech(inbuffer)
  BY <1>1, <1>5
<1>6. CASE inbufptr > 1 /\ inbuffer[2] \in {"G", "P"} /\ Whole
  <2> DEFINE c == inbuffer[inbufptr + 1]
  <2>1. /\ c # "$"
        /\ o.state \in {"NMEA_PASHR_A", "NMEA_PASHR_S", "NMEA_PASHR_H", "NMEA_LEADER_END",
                        "NMEA_CR", "NMEA_RECOGNIZED", "NMEA_BINARY_BODY"}
        /\ o.state = "NMEA_PASHR_A" => state = "NMEA_VENDOR_LEAD" /\ c = "A"
        /\ o.state = "NMEA_PASHR_S" => state = "NMEA_PASHR_A" /\ c = "S"
        /\ o.state = "NMEA_PASHR_H" => state = "NMEA_PASHR_S" /\ c = "H"
        /\ o.state = "NMEA_BINARY_BODY" => state = "NMEA_PASHR_H" /\ c = "R"
    BY <1>6, PlainNext DEF Whole
  <2>2. state' = o.state
    BY <2>1
  <2>3. \A i \in 2..inbufptr + 1 : inbuffer[i] # "$"
    BY <1>1, <1>6, <2>1 DEF Whole
  <2>4. CASE o.state = "NMEA_BINARY_BODY"
    BY <1>6, <2>1, <2>4 DEF Whole, Ashtech
  <2>5. CASE o.state # "NMEA_BINARY_BODY"
    <3>1. state' \in Plain \ {"NMEA_PUB_LEAD", "NMEA_VENDOR_LEAD"}
      BY <2>1, <2>2, <2>5 DEF Plain
    <3> QED
      BY <1>1, <1>6, <2>1, <2>2, <2>3, <3>1 DEF Whole
  <2> QED
    BY <2>4, <2>5
<1> QED
  BY <1>1, <1>2, <1>3, <1>4, <1>5, <1>6 DEF SentenceInv

LEMMA CharSentence ==
  ASSUME BufferInv, SentenceInv, CutSentences, Char
  PROVE  SentenceInv' /\ CutSentences'
<1> DEFINE c == inbuffer[inbufptr + 1]
<1>1. /\ inbufptr < Len(inbuffer) /\ inbufptr \in Nat /\ TypeOK
      /\ inbufptr \in 0..Len(inbuffer) /\ inbufptr + 1 \in 0..Len(inbuffer)
  BY BufferFacts DEF Char, BufferInv
<1>2. PICK o \in nextstate(c) :
        \/ o.how = "back" /\ state' = o.state /\ UNCHANGED <<inbuffer, inbufptr, pc, out>>
        \/ o.how = "take" /\ Settle(o.state, inbufptr + 1)
        \/ o.how = "break" /\ Settle(o.state, inbufptr)
  BY DEF Char
<1> HIDE DEF c
<1>3. UNCHANGED out \/ out'.type # "NMEA_PACKET" => CutSentences'
  BY DEF CutSentences
(* Pushed back: never inside a sentence.                                   *)
<1>4. CASE o.how = "back" /\ state' = o.state /\ UNCHANGED <<inbuffer, inbufptr, pc, out>>
  <2>1. state # "NMEA_DOLLAR" /\ state \notin Plain
    BY <1>4, DollarNext, PlainNext
  <2>2. ~Whole
    BY <2>1 DEF Whole
  <2> QED
    BY <1>3, <1>4, <2>1, <2>2 DEF SentenceInv, Ashtech
<1>5. CASE o.how = "break" /\ Settle(o.state, inbufptr)
  <2>1. o.state \in {"GROUND_STATE", "NMEA_RECOGNIZED"}
    BY <1>1, <1>5, NextDealt DEF Dealt, TypeOK
  <2>2. inbufptr' = 0
    BY <1>5, <2>1, Settled
  <2>3. CutSentences'
    BY <1>1, <1>3, <1>5, Settled, SoundNow, DeliveredSound
  <2> QED
    BY <2>2, <2>3 DEF SentenceInv
<1>6. CASE o.how = "take" /\ Settle(o.state, inbufptr + 1)
  <2>1. CutSentences'
    BY <1>1, <1>3, <1>6, Settled, SoundNext, DeliveredSound DEF c
  <2>2. CASE inbufptr' = 0
    BY <2>1, <2>2 DEF SentenceInv
  <2>3. CASE inbufptr' # 0
    BY <1>1, <1>6, <2>1, <2>3, Settled, TakeSentence DEF c
  <2> QED
    BY <2>2, <2>3
<1> QED
  BY <1>2, <1>4, <1>5, <1>6

(* What is read goes behind what has been looked at.                       *)
LEMMA GetSentence ==
  ASSUME BufferInv, SentenceInv, NEW chunk \in Chunk, Get(chunk)
  PROVE  SentenceInv' /\ CutSentences'
<1>1. /\ inbuffer' = inbuffer \o chunk /\ UNCHANGED <<inbufptr, state>> /\ out' = NoPacket
      /\ inbuffer \in Seq(mixture) /\ chunk \in Seq(mixture)
      /\ inbufptr \in Nat /\ Len(inbuffer) \in Nat /\ inbufptr <= Len(inbuffer)
  BY GetBuffer, BufferFacts DEF Get, lexer, BufferInv
<1>2. \A i \in 1..inbufptr : inbuffer'[i] = inbuffer[i]
  BY <1>1, ConcatProperties
<1>3. CutSentences'
  BY <1>1 DEF CutSentences, NoPacket
<1>4. SUFFICES ASSUME inbufptr > 0, inbuffer'[1] = "$", inbufptr > 1 => inbuffer'[2] \in {"G", "P"}
               PROVE  /\ inbufptr = 1 => state = "NMEA_DOLLAR"
                      /\ inbufptr > 1 => (inbufptr > 5 /\ Ashtech(inbuffer')) \/ Whole'
  BY <1>1, <1>3 DEF SentenceInv, Ashtech
<1>5. inbuffer[1] = "$" /\ (inbufptr > 1 => inbuffer[2] \in {"G", "P"})
  BY <1>1, <1>2, <1>4
<1>6. inbufptr > 1 /\ Whole => Whole'
  BY <1>1, <1>2 DEF Whole
<1>7. inbufptr > 5 /\ Ashtech(inbuffer) => Ashtech(inbuffer')
  BY <1>1, <1>2 DEF Ashtech
<1> QED
  BY <1>1, <1>4, <1>5, <1>6, <1>7 DEF SentenceInv

LEMMA ReturnSentence ==
  ASSUME BufferInv, SentenceInv, Return
  PROVE  SentenceInv' /\ CutSentences'
<1>1. CutSentences'
  BY DEF Return, CutSentences, NoPacket
<1>2. inbufptr' = 0 \/ UNCHANGED <<inbuffer, inbufptr, state>>
  BY DEF Return, Flush, packet_discard
<1> QED
  BY <1>1, <1>2 DEF SentenceInv, Whole, Ashtech

LEMMA NextSentence ==
  BufferInv /\ SentenceInv /\ CutSentences /\ [Next]_vars => SentenceInv' /\ CutSentences'
<1>1. ASSUME SentenceInv, CutSentences, UNCHANGED vars
      PROVE  SentenceInv' /\ CutSentences'
  BY <1>1 DEF vars, lexer, SentenceInv, CutSentences, Whole, Ashtech
<1> QED
  BY <1>1, CharSentence, GetSentence, ReturnSentence DEF Next

(* A sentence of a satellite system or a vendor that is delivered has one  *)
(* $, whatever came before it, in whatever pieces it was read: where a     *)
(* sentence ends too soon, what there was of it has left the buffer before *)
(* the next one begins.                                                    *)
THEOREM SentencesAreNotMixed == Spec => []CutSentences
<1>1. Init => SentenceInv /\ CutSentences
  BY DEF Init, SentenceInv, CutSentences, NoPacket
<1> QED
  BY <1>1, NextSentence, Buffering, PTL DEF Spec
-----------------------------------------------------------------------------
(* packet_parse comes to an end.                                           *)

(* How often a byte may still be pushed back: JSON_LEADER takes every one, *)
(* the ground state every one but the brace that JSON_LEADER takes, and    *)
(* the others push back to these, numbers by way of JSON_END_VALUE.        *)
Rank(s) ==
  CASE s = "JSON_LEADER" -> 0
    [] s = "GROUND_STATE" -> 1
    [] s \in {"JSON_NUMBER", "JSON_SPECIAL"} -> 3
    [] OTHER -> 2

LEMMA PushBackRank ==
  ASSUME NEW m \in PushBacks
  PROVE  Rank(m[3]) < Rank(m[1])
<1>1. \/ m[3] = "JSON_LEADER" /\ m[1] # "JSON_LEADER"
      \/ m[3] = "JSON_END_VALUE" /\ m[1] \in {"JSON_NUMBER", "JSON_SPECIAL"}
  BY DEF PushBacks
<1> QED
  BY <1>1 DEF Rank

LEMMA NothingPushedBack ==
  ASSUME state \in {"GROUND_STATE", "JSON_LEADER", "JSON_NUMBER", "JSON_SPECIAL"}, NEW c
  PROVE  /\ SirfToOncoreSize(c) = {} /\ NavcomAndRtcm3Size(c) = {} /\ ZodiacAndUbxSize(c) = {}
         /\ EvermoreToGeostarSize(c) = {} /\ state \notin DOMAIN Counted
<1>1. SirfToOncoreSize(c) = {}
  BY DEF SirfToOncoreSize
<1>2. NavcomAndRtcm3Size(c) = {}
  BY DEF NavcomAndRtcm3Size
<1>3. ZodiacAndUbxSize(c) = {}
  BY DEF ZodiacAndUbxSize
<1>4. EvermoreToGeostarSize(c) = {}
  BY DEF EvermoreToGeostarSize
<1>5. state \notin DOMAIN Counted
  BY DEF Counted
<1> QED
  BY <1>1, <1>2, <1>3, <1>4, <1>5

LEMMA JsonTakes ==
  ASSUME NEW c, NEW o \in Json(c)
  PROVE  o.how = "take"
<1> DEFINE closed == IF json_depth = 1 THEN "JSON_RECOGNIZED" ELSE state
<1>1. \/ o = [Take(state) EXCEPT !.json_depth = @ + 1]
      \/ o = [Take(closed) EXCEPT !.json_depth = @ - 1]
      \/ o = [Take("JSON_STRINGLITERAL") EXCEPT !.json_after = "JSON_END_ATTRIBUTE"]
      \/ o = [Take("JSON_STRINGLITERAL") EXCEPT !.json_after = "JSON_END_VALUE"]
      \/ o = Take(json_after)
  BY DEF Json
<1> HIDE DEF closed
<1> QED
  BY <1>1 DEF Take, Did

LEMMA BackRank ==
  ASSUME length \in Int, json_depth \in Int, NEW c, NEW o \in nextstate(c), o.how = "back"
  PROVE  Rank(o.state) < Rank(state)
<1> DEFINE Frequent == {"GROUND_STATE", "JSON_LEADER", "JSON_NUMBER", "JSON_SPECIAL"}
<1>1. CASE state \in Frequent
  <2>1. \/ \E m \in Moves : o = Take(m[3])
        \/ \E m \in PushBacks : m[1] = state /\ o = Did("back", m[3])
        \/ o \in Json(c) \/ o = Unexpected
    BY <1>1, NothingPushedBack DEF nextstate
  <2>2. CASE \E m \in PushBacks : m[1] = state /\ o = Did("back", m[3])
    BY <2>2, PushBackRank DEF Did
  <2>3. CASE o = Unexpected
    BY <1>1, <2>3 DEF Unexpected, Take, Did, Breaking, Rank
  <2> QED
    BY <2>1, <2>2, <2>3, JsonTakes DEF Take, Did
<1>2. CASE state \notin Frequent
  <2>1. o.state \in {"GROUND_STATE", "JSON_LEADER"}
    BY <1>2, NextDealt DEF Dealt
  <2> QED
    BY <1>2, <2>1 DEF Rank
<1> QED
  BY <1>1, <1>2

(* A step that has fewer bytes to keep, or as many and fewer to look at,   *)
(* or the same and a state that pushes back less often.                    *)
Nearer ==
  \/ Len(inbuffer') < Len(inbuffer)
  \/ inbuffer' = inbuffer /\ inbufptr' > inbufptr
  \/ UNCHANGED <<inbuffer, inbufptr>> /\ Rank(state') < Rank(state)

LEMMA SettleNearer ==
  ASSUME TypeOK, Len(inbuffer) > 0, NEW s, NEW p \in 0..Len(inbuffer), Settle(s, p),
         p = 0 => s = "GROUND_STATE"
  PROVE  Len(inbuffer') < Len(inbuffer) \/ (inbuffer' = inbuffer /\ inbufptr' = p)
<1>1. CASE s = "GROUND_STATE" /\ character_discard
  BY <1>1, CharDiscarded, BufferFacts
<1>2. ASSUME NEW o \in Outcomes(s, p), packet_discard(p)
      PROVE  Len(inbuffer') < Len(inbuffer)
  <2>1. p > 0
    BY <1>2, OutcomeState, BufferFacts
  <2> QED
    BY <1>2, <2>1, Discarded, BufferFacts
<1> QED
  BY <1>1, <1>2 DEF Settle

LEMMA CharNearer ==
  ASSUME BufferInv, Char
  PROVE  Nearer
<1> USE DEF BufferInv
<1>1. /\ inbufptr \in 0..Len(inbuffer) /\ inbufptr + 1 \in 0..Len(inbuffer) /\ inbufptr + 1 > inbufptr
      /\ inbufptr + 1 > 0 /\ Len(inbuffer) > 0 /\ TypeOK
  BY BufferFacts DEF Char
<1>2. PICK o \in nextstate(inbuffer[inbufptr + 1]) :
        \/ o.how = "back" /\ state' = o.state /\ UNCHANGED <<inbuffer, inbufptr, pc, out>>
        \/ o.how = "take" /\ Settle(o.state, inbufptr + 1)
        \/ o.how = "break" /\ Settle(o.state, inbufptr)
  BY DEF Char
<1>3. CASE o.how = "back" /\ state' = o.state /\ UNCHANGED <<inbuffer, inbufptr, pc, out>>
  BY <1>1, <1>3, BackRank DEF Nearer, TypeOK
<1>4. CASE o.how = "take" /\ Settle(o.state, inbufptr + 1)
  BY <1>1, <1>4, SettleNearer DEF Nearer
<1>5. CASE o.how = "break" /\ Settle(o.state, inbufptr)
  <2>1. \/ o.state = "GROUND_STATE"
        \/ state = "NMEA_BINARY_NL" /\ o.state = "NMEA_RECOGNIZED"
    BY <1>1, <1>5, NextDealt DEF Dealt, TypeOK
  <2>2. CASE o.state = "GROUND_STATE"
    BY <1>1, <1>5, <2>2, CharDiscarded, OutcomeState, BufferFacts DEF Settle, Nearer
  <2>3. CASE state = "NMEA_BINARY_NL" /\ o.state = "NMEA_RECOGNIZED"
    <3>1. inbufptr > 0
      BY <1>1, <2>3 DEF Fresh, Kept
    <3>2. Outcomes(o.state, inbufptr) # {}
      BY <2>3 DEF Outcomes
    <3>3. packet_discard(inbufptr)
      BY <1>5, <2>3, <3>2 DEF Settle
    <3> QED
      BY <1>1, <3>1, <3>3, Discarded, BufferFacts DEF Nearer
  <2> QED
    BY <2>1, <2>2, <2>3
<1> QED
  BY <1>2, <1>3, <1>4, <1>5

(* Every round of packet_parse's loop comes nearer to its end, whatever    *)
(* nextstate pushes back: for any device the number of rounds between two  *)
(* reads is bounded by what is in the buffer.                              *)
THEOREM RoundsComeToAnEnd == Spec => [][Char => Nearer]_vars
<1>1. BufferInv /\ [Next]_vars => [Char => Nearer]_vars
  BY CharNearer
<1> QED
  BY <1>1, Buffering, PTL DEF Spec
=============================================================================
