---------------------------- MODULE HciProtocol ----------------------------
(***************************************************************************)
(* The sending side of both transports.  H4Protocol::Send is one writev()  *)
(* of a type byte and the packet; MctProtocol::Send is                     *)
(* HciProtocol::WriteSafely, a loop, on the descriptor of the packet's     *)
(* kind.  Sends are one at a time: the caller holds wakeup_mutex_.         *)
(***************************************************************************)
EXTENDS Naturals, Sequences, Functions

CONSTANTS
    Transports,    \* the transports Open may have made: "h4", "mct"
    OutPackets,    \* the packets the stack may send: [type, data]
    MaxPackets,    \* bound: how many of them it sends
    UartCapacity   \* bytes a descriptor takes before it would block

COMMAND == 1
ACL_DATA == 2
SCO_DATA == 3

VARIABLES
    transport,  \* which of the two hci_ is
    asked,      \* per descriptor: the packets given to Send for it
    out,        \* per descriptor: the bytes the kernel accepted
    taken,      \* per descriptor: how many of them the controller has taken
    up,         \* the controller is there
    sending,    \* the packet Send is at, or None
    written,    \* transmitted_length
    shortSend,  \* some Send has returned less than it was asked to write
    fatal       \* a LOG_ALWAYS_FATAL was reached: the process has ended

lineVars == <<transport, taken, up>>
sendVars == <<asked, out, sending, written, shortSend, fatal>>
vars == <<lineVars, sendVars>>

None == [type |-> 0, data |-> <<>>]

\* uart_fd_ of H4; CH_CMD and CH_ACL_OUT of MCT.
Fds == {"uart", "cmd", "aclOut"}
FdOf(p) == IF transport = "h4" THEN "uart" ELSE IF p.type = COMMAND THEN "cmd" ELSE "aclOut"

\* What Send puts on the descriptor for a packet.
Encoding(p) == IF transport = "h4" THEN <<p.type>> \o p.data ELSE p.data

Init == /\ transport \in Transports
        /\ asked = [fd \in Fds |-> <<>>]
        /\ out = [fd \in Fds |-> <<>>]
        /\ taken = [fd \in Fds |-> 0]
        /\ up = TRUE
        /\ sending = None
        /\ written = 0
        /\ shortSend = FALSE
        /\ fatal = FALSE

(***************************************************************************)
(* The controller.                                                         *)
(***************************************************************************)
ControllerTakes(fd) ==
    /\ up /\ ~fatal
    /\ taken[fd] < Len(out[fd])
    /\ taken' = [taken EXCEPT ![fd] = Len(out[fd])]
    /\ UNCHANGED <<transport, up, sendVars>>

Hangup == up /\ ~fatal /\ up' = FALSE /\ UNCHANGED <<transport, taken, sendVars>>

(***************************************************************************)
(* Send.                                                                   *)
(***************************************************************************)
PacketsAsked == FoldFunction(LAMBDA packets, n : Len(packets) + n, 0, asked)

Send(p) ==
    /\ ~fatal
    /\ sending = None
    /\ PacketsAsked < MaxPackets
    /\ IF transport = "mct" /\ p.type = SCO_DATA
       THEN fatal' = TRUE /\ UNCHANGED <<sending, asked>>
       ELSE /\ sending' = p
            /\ asked' = [asked EXCEPT ![FdOf(p)] = Append(@, p)]
            /\ UNCHANGED fatal
    /\ UNCHANGED <<lineVars, out, written, shortSend>>

Left == Len(Encoding(sending)) - written
Free(fd) == UartCapacity - (Len(out[fd]) - taken[fd])

\* The part that is written is written from the start of the packet again.
NextBytesBug(n) == SubSeq(Encoding(sending), 1, n)

\* data + transmitted_length
NextBytes(n) == SubSeq(Encoding(sending), written + 1, written + n)

Return(short) ==
    /\ sending' = None
    /\ written' = 0
    /\ shortSend' = (shortSend \/ short)

\* Send after the kernel has accepted n bytes: writev() is not repeated, write()
\* is for the rest.
AfterWrite(n) ==
    IF transport = "h4" \/ n = Left
    THEN Return(n < Left)
    ELSE written' = written + n /\ UNCHANGED <<sending, shortSend>>

\* A write() takes what fits, or less.  When nothing does it would block
\* (EAGAIN), and both loops try again at once: a stutter.
Write ==
    /\ ~fatal
    /\ sending # None
    /\ \E n \in 1..Left :
        /\ n <= Free(FdOf(sending))
        /\ out' = [out EXCEPT ![FdOf(sending)] = @ \o NextBytes(n)]
        /\ AfterWrite(n)
    /\ UNCHANGED <<lineVars, asked, fatal>>

\* Any other error, or a write() that takes nothing: the rest is given up.
WriteFails ==
    /\ ~fatal
    /\ sending # None
    /\ ~up
    /\ Return(TRUE)
    /\ UNCHANGED <<lineVars, asked, out, fatal>>

Next == \/ \E fd \in Fds : ControllerTakes(fd)
        \/ Hangup
        \/ \E p \in OutPackets : Send(p)
        \/ Write
        \/ WriteFails

(***************************************************************************)
(* Properties.                                                             *)
(***************************************************************************)
\* The kernel never holds more than it can, and no write() reads past the packet.
TypeOK ==
    /\ transport \in Transports
    /\ up \in BOOLEAN /\ shortSend \in BOOLEAN /\ fatal \in BOOLEAN
    /\ sending \in OutPackets \cup {None}
    /\ \A fd \in Fds : Len(out[fd]) - taken[fd] \in 0..UartCapacity
    /\ sending # None => written \in 0..(Len(Encoding(sending)) - 1)

\* The bytes of the packets of a sequence, put together.
Bytes(packets) ==
    LET upTo[n \in 0..Len(packets)] ==
            IF n = 0 THEN <<>> ELSE upTo[n - 1] \o Encoding(packets[n])
    IN  upTo[Len(packets)]

\* As long as every Send has returned the length it was given, what is written to
\* a descriptor, with what is left of the packet being written, is the packets
\* whole and in order: short writes and full descriptors do not show.  (A Send
\* that returns less has torn a packet; VendorInterface's callers do not look.)
OutgoingWhole ==
    ~shortSend =>
        \A fd \in Fds :
            LET rest == IF sending # None /\ FdOf(sending) = fd
                        THEN SubSeq(Encoding(sending), written + 1, Len(Encoding(sending)))
                        ELSE <<>>
            IN  out[fd] \o rest = Bytes(asked[fd])

=============================================================================
