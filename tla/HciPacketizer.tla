--------------------------- MODULE HciPacketizer ---------------------------
(***************************************************************************)
(* HciPacketizer::OnDataReady as operators on the object's fields, for the *)
(* two transports to use.  A byte is a number below ByteMod (256 in the    *)
(* code, smaller in the runs): it matters where the two bytes of an ACL    *)
(* length are put together.                                                *)
(***************************************************************************)
EXTENDS Naturals, Sequences

CONSTANTS
    ByteMod,
    Packets,     \* the packets the controller may send: [type, data]
    MaxPackets   \* bound: how many of them it sends

ASSUME ByteModAssumption == ByteMod \in Nat /\ ByteMod > 4

\* enum HciPacketType
UNKNOWN == 0
COMMAND == 1
ACL_DATA == 2
SCO_DATA == 3
EVENT == 4

\* preamble_size_for_type and packet_length_offset_for_type
PreambleSize == [t \in COMMAND..EVENT |-> <<3, 4, 3, 2>>[t]]
LengthOffset == [t \in COMMAND..EVENT |-> <<2, 2, 2, 1>>[t]]

\* HciGetPacketLengthForType (sequences start at 1, the C arrays at 0)
PayloadLength(type, preamble) ==
    LET first == LengthOffset[type] + 1
    IN  IF type # ACL_DATA THEN preamble[first]
        ELSE preamble[first + 1] * ByteMod + preamble[first]

\* state_, the bytes read of the preamble (preamble_ up to bytes_read_), the
\* packet as far as it is read (packet_), and bytes_remaining_.
NewPacketizer == [state |-> "preamble", preamble |-> <<>>, packet |-> <<>>, remaining |-> 0]

\* The number of bytes the next read() asks for.
Wanted(p, type) ==
    IF p.state = "preamble" THEN PreambleSize[type] - Len(p.preamble) ELSE p.remaining

AfterPreamble(p, type, bytes) ==
    LET preamble == p.preamble \o bytes
    IN  IF Len(preamble) < PreambleSize[type] THEN [p EXCEPT !.preamble = preamble]
        ELSE [state |-> "payload", preamble |-> preamble, packet |-> preamble,
              remaining |-> PayloadLength(type, preamble)]

AfterPayload(p, bytes) ==
    IF p.remaining > Len(bytes)
    THEN [p EXCEPT !.packet = @ \o bytes, !.remaining = @ - Len(bytes)]
    ELSE NewPacketizer

\* OnDataReady when read() returned bytes.
AfterRead(p, type, bytes) ==
    IF p.state = "preamble" THEN AfterPreamble(p, type, bytes) ELSE AfterPayload(p, bytes)

\* packet_ready_cb_ is called, with GetPacket() = Completed.
Completes(p, bytes) == p.state = "payload" /\ p.remaining = Len(bytes)
Completed(p, bytes) == p.packet \o bytes

\* The packetizer holds a packet of this type in the making: preamble_ and
\* packet_ are filled up to, never beyond, their sizes.
PacketizerOK(p, type) ==
    \/ /\ p.state = "preamble"
       /\ Len(p.preamble) < PreambleSize[type]
    \/ /\ p.state = "payload"
       /\ Len(p.preamble) = PreambleSize[type]
       /\ Len(p.packet) + p.remaining = Len(p.preamble) + PayloadLength(type, p.preamble)

\* A packet as the controller puts it together: its length field, little-endian,
\* is right.
WellFormed(p) ==
    /\ Len(p.data) >= PreambleSize[p.type]
    /\ Len(p.data) - PreambleSize[p.type] =
           CASE p.type = EVENT    -> p.data[2]
             [] p.type = SCO_DATA -> p.data[3]
             [] p.type = ACL_DATA -> p.data[3] + ByteMod * p.data[4]

ASSUME PacketsAssumption ==
    /\ MaxPackets \in Nat
    /\ Packets \subseteq [type : {ACL_DATA, SCO_DATA, EVENT}, data : Seq(0..(ByteMod - 1))]
    /\ \A p \in Packets : WellFormed(p)

=============================================================================
