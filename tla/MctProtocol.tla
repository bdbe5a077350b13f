---------------------------- MODULE MctProtocol ----------------------------
(***************************************************************************)
(* The transport with a descriptor per channel: events and ACL packets come*)
(* in on two descriptors without a type byte, each with its own packetizer *)
(* (the sending side is in HciProtocol).                                   *)
(***************************************************************************)
EXTENDS HciPacketizer

VARIABLES
    sent,        \* per channel: the packets the controller has sent
    delivered,   \* per channel: the packets given to event_cb_ or acl_cb_
    up,          \* the controller is alive and the descriptors open
    wire,        \* per channel: bytes sent and not read
    packetizer,  \* event_packetizer_ and acl_packetizer_
    eof,         \* an "Unexpected EOF" branch was taken
    fatal        \* a LOG_ALWAYS_FATAL was reached: the process has ended

vars == <<sent, delivered, up, wire, packetizer, eof, fatal>>

In == {EVENT, ACL_DATA}      \* CH_EVT and CH_ACL_IN, named by what they carry

Init == /\ sent = [c \in In |-> <<>>]
        /\ delivered = [c \in In |-> <<>>]
        /\ up = TRUE
        /\ wire = [c \in In |-> <<>>]
        /\ packetizer = [c \in In |-> NewPacketizer]
        /\ eof = FALSE
        /\ fatal = FALSE

(***************************************************************************)
(* The controller.                                                         *)
(***************************************************************************)
PacketsSent == Len(sent[EVENT]) + Len(sent[ACL_DATA])

ControllerSends(p) ==
    /\ up /\ ~fatal
    /\ p.type \in In
    /\ PacketsSent < MaxPackets
    /\ sent' = [sent EXCEPT ![p.type] = Append(@, p)]
    /\ wire' = [wire EXCEPT ![p.type] = @ \o p.data]
    /\ UNCHANGED <<delivered, up, packetizer, eof, fatal>>

\* The controller goes; what is on the lines may be cut short.
Hangup ==
    /\ up /\ ~fatal
    /\ up' = FALSE
    /\ \E e \in 0..Len(wire[EVENT]), a \in 0..Len(wire[ACL_DATA]) :
        wire' = [wire EXCEPT ![EVENT] = SubSeq(@, 1, e), ![ACL_DATA] = SubSeq(@, 1, a)]
    /\ UNCHANGED <<sent, delivered, packetizer, eof, fatal>>

(***************************************************************************)
(* OnEventDataReady, OnAclDataReady: the packetizer of the channel reads.  *)
(***************************************************************************)
\* Both channels' packets go to acl_cb_.
OnPacketReadyBug(c, packet) ==
    delivered' = [delivered EXCEPT ![ACL_DATA] = Append(@, [type |-> c, data |-> packet])]

OnPacketReady(c, packet) ==
    delivered' = [delivered EXCEPT ![c] = Append(@, [type |-> c, data |-> packet])]

OnDataReady(c) ==
    /\ ~fatal
    /\ \E n \in 1..Wanted(packetizer[c], c) :
        /\ n <= Len(wire[c])
        /\ LET bytes == SubSeq(wire[c], 1, n)
           IN  /\ wire' = [wire EXCEPT ![c] = SubSeq(@, n + 1, Len(@))]
               /\ packetizer' = [packetizer EXCEPT ![c] = AfterRead(@, c, bytes)]
               /\ IF Completes(packetizer[c], bytes)
                  THEN OnPacketReady(c, Completed(packetizer[c], bytes))
                  ELSE UNCHANGED delivered
    /\ UNCHANGED <<sent, up, eof, fatal>>

\* read() returns 0 and the handler sleeps.
ReadNothing(c) ==
    /\ ~fatal
    /\ \/ ~up /\ wire[c] = <<>>
       \/ wire[c] # <<>> /\ Wanted(packetizer[c], c) = 0
    /\ eof' = TRUE
    /\ UNCHANGED <<sent, delivered, up, wire, packetizer, fatal>>

\* read() fails on a line that broke.
ReadFails ==
    /\ ~fatal /\ ~up
    /\ fatal' = TRUE
    /\ UNCHANGED <<sent, delivered, up, wire, packetizer, eof>>

Next == \/ \E p \in Packets : ControllerSends(p)
        \/ Hangup
        \/ \E c \in In : OnDataReady(c) \/ ReadNothing(c)
        \/ ReadFails

Spec == Init /\ [][Next]_vars

\* The watcher serves each readable descriptor.
FairSpec == Spec /\ \A c \in In : WF_vars(OnDataReady(c))

(***************************************************************************)
(* Properties.                                                             *)
(***************************************************************************)
\* The fields keep their ranges, and no read() goes beyond the buffer it fills.
TypeOK ==
    /\ up \in BOOLEAN /\ eof \in BOOLEAN /\ fatal \in BOOLEAN
    /\ \A c \in In : PacketizerOK(packetizer[c], c)

\* read() returns 0, and a packetizer sleeps, only once the line is down, if every
\* packet has a payload.
EofOnlyWhenDown == eof => ~up

\* Each channel is the abstract link, though a broken line may lose what is on
\* it, and reads of the two descriptors come in any order.
EventLink == INSTANCE PacketLink WITH
    Packets <- {p \in Packets : p.type = EVENT},
    sent <- sent[EVENT], delivered <- delivered[EVENT]
AclLink == INSTANCE PacketLink WITH
    Packets <- {p \in Packets : p.type = ACL_DATA},
    sent <- sent[ACL_DATA], delivered <- delivered[ACL_DATA]
LinksSpec == EventLink!FairSpec /\ AclLink!FairSpec /\ []EofOnlyWhenDown

=============================================================================
