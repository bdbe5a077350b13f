--------------------------- MODULE HciTransports ---------------------------
(***************************************************************************)
(* The transport that VendorInterface::Open makes: H4Protocol when the     *)
(* library has opened one descriptor, MctProtocol when it has opened more. *)
(* The transport is chosen once; the other one's variables stay as they    *)
(* are.                                                                    *)
(*                                                                         *)
(* OnDataReady and Send share no field of the transport but what is chosen *)
(* here, so nothing that one does shows in the other, and a behaviour has  *)
(* one direction; the other one rests.                                     *)
(***************************************************************************)
EXTENDS HciPacketizer

CONSTANTS
    FdCounts,                 \* what BT_VND_OP_USERIAL_OPEN may return
    OutPackets, MaxOutgoing,  \* the packets to send, and a bound: how many
    UartCapacity              \* as in HciProtocol

ASSUME FdCountsAssumption == FdCounts \subseteq 1..3

ASSUME SenderAssumption ==
    /\ MaxOutgoing \in Nat
    /\ UartCapacity \in Nat \ {0}
    /\ OutPackets \subseteq [type : {COMMAND, ACL_DATA, SCO_DATA}, data : Seq(0..(ByteMod - 1))]
    /\ \A p \in OutPackets : p.data # <<>>

VARIABLES
    transport,                                          \* "h4" or "mct"
    direction,                                          \* "in" or "out"
    sent, delivered, up, wire, hciPacketType, packetizer, eof, fatal,
    mctSent, mctDelivered, mctUp, mctWire, mctPacketizer, mctEof, mctFatal,
    asked, out, taken, outUp, sending, written, shortSend, outFatal

h4Vars == <<sent, delivered, up, wire, hciPacketType, packetizer, eof, fatal>>
mctVars == <<mctSent, mctDelivered, mctUp, mctWire, mctPacketizer, mctEof, mctFatal>>
outVars == <<asked, out, taken, outUp, sending, written, shortSend, outFatal>>
vars == <<transport, direction, h4Vars, mctVars, outVars>>

H4 == INSTANCE H4Protocol
Mct == INSTANCE MctProtocol WITH
    sent <- mctSent, delivered <- mctDelivered, up <- mctUp, wire <- mctWire,
    packetizer <- mctPacketizer, eof <- mctEof, fatal <- mctFatal
Out == INSTANCE HciProtocol WITH
    Transports <- {"h4", "mct"}, MaxPackets <- MaxOutgoing, up <- outUp, fatal <- outFatal

\* fd_count == 1
TransportFor(n) == IF n = 1 THEN "h4" ELSE "mct"

Init == /\ \E n \in FdCounts : transport = TransportFor(n)
        /\ direction \in {"in", "out"}
        /\ H4!Init
        /\ Mct!Init
        /\ Out!Init

Receives(t) == direction = "in" /\ transport = t /\ UNCHANGED <<transport, direction, outVars>>
Sends == direction = "out" /\ UNCHANGED <<direction, h4Vars, mctVars>>

Next == \/ Receives("h4") /\ H4!Next /\ UNCHANGED mctVars
        \/ Receives("mct") /\ Mct!Next /\ UNCHANGED h4Vars
        \/ Sends /\ Out!Next

Spec == Init /\ [][Next]_vars

\* The watcher calls the handler of a descriptor as long as there is something
\* to read (AsyncFdWatcher!DataServed); the controller owes nothing.
FairSpec == /\ Spec
            /\ WF_h4Vars(Receives("h4") /\ H4!OnDataReady)
            /\ \A c \in Mct!In : WF_mctVars(Receives("mct") /\ Mct!OnDataReady(c))

(***************************************************************************)
(* Properties.                                                             *)
(***************************************************************************)
\* The fields of both transports keep their ranges, and no read() goes beyond the
\* buffer it fills.
TypeOK == direction \in {"in", "out"} /\ H4!TypeOK /\ Mct!TypeOK /\ Out!TypeOK

\* H4 implements the abstract link, its liveness included: the bytes on the wire
\* never show, however they are cut into reads and whatever the payload looks like.
\* (A byte that is taken for a type byte and is none would be fatal, and end it; a
\* packet without a payload would stop it, taken for the end of the file.)
H4ImplementsLink == H4!LinkSpec

\* So does each channel of MCT, though a broken line may lose what is on it, and
\* the two descriptors are read in any order.
MctImplementsLinks == Mct!LinksSpec

\* What either transport writes is the packets of its Sends, whole and in order, while
\* no Send has been short.
OutgoingWhole == Out!OutgoingWhole

=============================================================================
