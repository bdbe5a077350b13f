----------------------------- MODULE H4Protocol -----------------------------
(***************************************************************************)
(* The receiving side of H4Protocol: one UART carries all packets, each    *)
(* preceded by a byte that gives its type.  The watcher calls OnDataReady  *)
(* whenever the descriptor is readable, and a read() may return any part of*)
(* what it asks for.                                                       *)
(***************************************************************************)
EXTENDS HciPacketizer

VARIABLES
    sent,           \* the packets the controller has sent
    delivered,      \* the packets given to event_cb_, acl_cb_ and sco_cb_
    up,             \* the UART is open and the controller alive
    wire,           \* bytes sent and not read
    hciPacketType,  \* hci_packet_type_
    packetizer,     \* hci_packetizer_
    eof,            \* an "Unexpected EOF" branch was taken
    fatal           \* a LOG_ALWAYS_FATAL was reached

vars == <<sent, delivered, up, wire, hciPacketType, packetizer, eof, fatal>>

Init == /\ sent = <<>> /\ delivered = <<>>
        /\ up = TRUE
        /\ wire = <<>>
        /\ hciPacketType = UNKNOWN
        /\ packetizer = NewPacketizer
        /\ eof = FALSE
        /\ fatal = FALSE

\* What select() reports: bytes, or the end of the file.
Readable == ~fatal /\ (wire # <<>> \/ ~up)

(***************************************************************************)
(* The controller and the UART.                                            *)
(***************************************************************************)
ControllerSends(p) ==
    /\ up /\ ~fatal
    /\ Len(sent) < MaxPackets
    /\ sent' = Append(sent, p)
    /\ wire' = wire \o <<p.type>> \o p.data
    /\ UNCHANGED <<delivered, up, hciPacketType, packetizer, eof, fatal>>

\* The line breaks and some of the bytes on it are lost.
Hangup ==
    /\ up /\ ~fatal
    /\ up' = FALSE
    /\ \E n \in 0..Len(wire) : wire' = SubSeq(wire, 1, n)
    /\ UNCHANGED <<sent, delivered, hciPacketType, packetizer, eof, fatal>>

(***************************************************************************)
(* OnDataReady and OnPacketReady.                                          *)
(***************************************************************************)
ReadType ==
    /\ Readable /\ wire # <<>>
    /\ hciPacketType = UNKNOWN
    /\ wire' = Tail(wire)
    /\ IF Head(wire) \in {ACL_DATA, SCO_DATA, EVENT}
       THEN hciPacketType' = Head(wire) /\ UNCHANGED fatal
       ELSE fatal' = TRUE /\ UNCHANGED hciPacketType
    /\ UNCHANGED <<sent, delivered, up, packetizer, eof>>

\* hci_packet_type_ is not set back.
OnPacketReadyBug(packet) ==
    /\ delivered' = Append(delivered, [type |-> hciPacketType, data |-> packet])
    /\ UNCHANGED hciPacketType

OnPacketReady(packet) ==
    /\ delivered' = Append(delivered, [type |-> hciPacketType, data |-> packet])
    /\ hciPacketType' = UNKNOWN

ReadPacket ==
    /\ Readable /\ wire # <<>>
    /\ hciPacketType # UNKNOWN
    /\ \E n \in 1..Wanted(packetizer, hciPacketType) :
        /\ n <= Len(wire)
        /\ LET bytes == SubSeq(wire, 1, n)
           IN  /\ wire' = SubSeq(wire, n + 1, Len(wire))
               /\ packetizer' = AfterRead(packetizer, hciPacketType, bytes)
               /\ IF Completes(packetizer, bytes)
                  THEN OnPacketReady(Completed(packetizer, bytes))
                  ELSE UNCHANGED <<delivered, hciPacketType>>
    /\ UNCHANGED <<sent, up, eof, fatal>>

\* read() returns 0: at the end of the file, or because it is asked for nothing.
\* The handler sleeps and returns, all else as it was.
ReadNothing ==
    /\ Readable
    /\ \/ wire = <<>>
       \/ hciPacketType # UNKNOWN /\ Wanted(packetizer, hciPacketType) = 0
    /\ eof' = TRUE
    /\ UNCHANGED <<sent, delivered, up, wire, hciPacketType, packetizer, fatal>>

\* read() fails on a line that broke.
ReadFails ==
    /\ Readable /\ ~up
    /\ fatal' = TRUE
    /\ UNCHANGED <<sent, delivered, up, wire, hciPacketType, packetizer, eof>>

OnDataReady == ReadType \/ ReadPacket \/ ReadNothing

Next == \/ \E p \in Packets : ControllerSends(p)
        \/ Hangup
        \/ OnDataReady
        \/ ReadFails

Spec == Init /\ [][Next]_vars

\* The watcher calls OnDataReady as long as there is something to read
\* (AsyncFdWatcher!DataServed); the controller owes nothing.
FairSpec == Spec /\ WF_vars(OnDataReady)

(***************************************************************************)
(* Properties.                                                             *)
(***************************************************************************)
\* The fields keep their ranges, and no read() goes beyond the buffer it fills.
TypeOK ==
    /\ Len(sent) <= MaxPackets
    /\ up \in BOOLEAN /\ eof \in BOOLEAN /\ fatal \in BOOLEAN
    /\ hciPacketType \in {UNKNOWN, ACL_DATA, SCO_DATA, EVENT}
    /\ IF hciPacketType = UNKNOWN THEN packetizer = NewPacketizer
       ELSE PacketizerOK(packetizer, hciPacketType)

\* read() returns 0 only once the line is down ("This is only expected if the
\* UART got closed when shutting down."), if every packet has a payload.
EofOnlyWhenDown == eof => ~up

\* H4 implements the abstract link, its liveness included: the bytes on the wire
\* never show, and the end of the file is not seen where there is none.
Link == INSTANCE PacketLink
LinkSpec == Link!FairSpec /\ []EofOnlyWhenDown

=============================================================================
