---------------------------- MODULE BluetoothHci ----------------------------
(***************************************************************************)
(* The HIDL service object of the Bluetooth HAL (bluetooth/bluetooth_hci)  *)
(* and the life of VendorInterface's single instance: initialize, close,   *)
(* the death of a client, and packets sent.  The service has one binder    *)
(* thread (service.cpp), so calls and death notifications are handled one  *)
(* at a time, in the order in which the driver queued them: inbox.         *)
(***************************************************************************)
EXTENDS Naturals, Sequences

CONSTANTS
    Clients,       \* processes that may use the HAL
    NoClient,      \* the empty std::function, or no session
    MaxLinks       \* bound: links of one client to the death recipient

ASSUME ClientsAssumption == /\ NoClient \notin Clients
                            /\ MaxLinks \in Nat \ {0}

VARIABLES
    client,     \* per client: what it is at
    inbox,      \* the binder thread's work: [kind, from]
    links,      \* per client: how many times the death recipient is linked
    hasDied,    \* has_died_ of the death recipient
    unlinkCb,   \* unlink_cb_: the client it would unlink
    vendor,     \* g_vendor_interface: "none", "open", or "broken" (Open failed)
    session,    \* the client whose callbacks the instance has
    fatal,      \* the process has aborted
    overlapped  \* a client came before the HAL had done with the one before

halVars == <<links, hasDied, unlinkCb, vendor, session, fatal>>
vars == <<client, inbox, halVars, overlapped>>

Kinds == {"initialize", "close", "send", "death"}

Init == /\ client = [c \in Clients |-> "out"]
        /\ inbox = <<>>
        /\ links = [c \in Clients |-> 0]
        /\ hasDied = FALSE
        /\ unlinkCb = NoClient
        /\ vendor = "none"
        /\ session = NoClient
        /\ fatal = FALSE
        /\ overlapped = FALSE

Message(kind, c) == [kind |-> kind, from |-> c]

(***************************************************************************)
(* The clients and the binder driver (external).                           *)
(***************************************************************************)
\* A client blocks in each of its calls.
Calls(c, kind, from, to) ==
    /\ ~fatal
    /\ client[c] = from
    /\ client' = [client EXCEPT ![c] = to]
    /\ inbox' = Append(inbox, Message(kind, c))
    /\ UNCHANGED halVars

AllDone == inbox = <<>> /\ \A d \in Clients : client[d] \in {"out", "dead"}

CallsInitialize(c) ==
    /\ links[c] < MaxLinks
    /\ \E from \in {"out", "refused"} : Calls(c, "initialize", from, "initializing")
    /\ overlapped' = (overlapped \/ ~AllDone)

CallsSend(c) == Calls(c, "send", "up", "sending") /\ UNCHANGED overlapped

CallsClose(c) ==
    /\ \E from \in {"up", "refused"} : Calls(c, "close", from, "closing")
    /\ UNCHANGED overlapped

\* The driver queues the notification behind what the client had sent.
Dies(c) ==
    /\ ~fatal
    /\ client[c] # "dead"
    /\ client[c] = "out" => links[c] > 0
    /\ client' = [client EXCEPT ![c] = "dead"]
    /\ inbox' = IF links[c] > 0 THEN Append(inbox, Message("death", c)) ELSE inbox
    /\ UNCHANGED <<halVars, overlapped>>

\* A process of that name starts again, with a binder of its own.
Restarts(c) ==
    /\ client[c] = "dead"
    /\ links[c] = 0
    /\ \A i \in 1..Len(inbox) : inbox[i].from # c
    /\ client' = [client EXCEPT ![c] = "out"]
    /\ UNCHANGED <<inbox, halVars, overlapped>>

(***************************************************************************)
(* The HAL.                                                                *)
(***************************************************************************)
NextIs(kind, c) == ~fatal /\ inbox # <<>> /\ Head(inbox) = Message(kind, c)

Answer(c, state) ==
    client' = IF client[c] = "dead" THEN client ELSE [client EXCEPT ![c] = state]

\* linkToDeath does not look for an earlier link.  The notification of a client
\* that is dead when it is linked comes at once.
Link(c) ==
    /\ links' = [links EXCEPT ![c] = @ + 1]
    /\ inbox' = IF client[c] = "dead" THEN Append(Tail(inbox), Message("death", c))
                ELSE Tail(inbox)

\* VendorInterface::Initialize with no instance: Open.
InitializeOpens(c) ==
    /\ NextIs("initialize", c)
    /\ vendor = "none"
    /\ hasDied' = FALSE
    /\ Link(c)
    /\ vendor' \in {"open", "broken"}
    /\ session' = c
    /\ Answer(c, IF vendor' = "open" THEN "up" ELSE "refused")
    /\ unlinkCb' = c
    /\ UNCHANGED fatal

\* "No previous Shutdown()?": the client is refused, and linked and
\* remembered as if it had a session.
InitializeRefused(c) ==
    /\ NextIs("initialize", c)
    /\ vendor # "none"
    /\ hasDied' = FALSE
    /\ Link(c)
    /\ Answer(c, "refused")
    /\ unlinkCb' = c
    /\ UNCHANGED <<vendor, session, fatal>>

\* VendorInterface::Shutdown, which asserts that there is an instance.
Shutdown ==
    /\ fatal' = (vendor = "none")
    /\ vendor' = "none"
    /\ session' = NoClient

\* The death recipient is not unlinked.
UnlinkBug == UNCHANGED links

\* unlink_cb_ takes back one link, unless the client has died.
Unlink ==
    links' = IF hasDied \/ links[unlinkCb] = 0 THEN links ELSE [links EXCEPT ![unlinkCb] = @ - 1]

CloseHandled(c) ==
    /\ NextIs("close", c)
    /\ Unlink
    /\ Shutdown
    /\ Answer(c, "out")
    /\ inbox' = Tail(inbox)
    /\ UNCHANGED <<hasDied, unlinkCb>>

\* The session is left to the next client.
ServiceDiedBug(c) ==
    /\ NextIs("death", c)
    /\ links[c] > 0
    /\ hasDied' = TRUE
    /\ links' = [links EXCEPT ![c] = @ - 1]
    /\ inbox' = IF links[c] = 1 THEN Tail(inbox) ELSE inbox
    /\ UNCHANGED <<client, unlinkCb, vendor, session, fatal>>

\* serviceDied, once per link: has_died_ is set and close() called, which
\* unlinks nothing.
ServiceDied(c) ==
    /\ NextIs("death", c)
    /\ links[c] > 0
    /\ hasDied' = TRUE
    /\ links' = [links EXCEPT ![c] = @ - 1]
    /\ Shutdown
    /\ inbox' = IF links[c] = 1 THEN Tail(inbox) ELSE inbox
    /\ UNCHANGED <<client, unlinkCb>>

\* The client was unlinked while its notification was on the way.
DeathIgnored(c) ==
    /\ NextIs("death", c)
    /\ links[c] = 0
    /\ inbox' = Tail(inbox)
    /\ UNCHANGED <<client, halVars>>

\* sendDataToController: get() is used without a test.
SendHandled(c) ==
    /\ NextIs("send", c)
    /\ fatal' = (vendor = "none")
    /\ Answer(c, "up")
    /\ inbox' = Tail(inbox)
    /\ UNCHANGED <<links, hasDied, unlinkCb, vendor, session>>

Handle == /\ \E c \in Clients : \/ InitializeOpens(c) \/ InitializeRefused(c)
                                \/ CloseHandled(c) \/ ServiceDied(c) \/ DeathIgnored(c)
                                \/ SendHandled(c)
          /\ UNCHANGED overlapped

Next == \/ \E c \in Clients : CallsInitialize(c) \/ CallsSend(c) \/ CallsClose(c)
        \/ \E c \in Clients : Dies(c) \/ Restarts(c)
        \/ Handle

Spec == Init /\ [][Next]_vars

(***************************************************************************)
(* Properties.                                                             *)
(***************************************************************************)
\* The variables keep their ranges; there is a session exactly when there is an
\* instance.
TypeOK ==
    /\ client \in [Clients -> {"out", "initializing", "up", "refused", "sending", "closing", "dead"}]
    /\ inbox \in Seq([kind : Kinds, from : Clients])
    /\ links \in [Clients -> 0..MaxLinks]
    /\ hasDied \in BOOLEAN /\ fatal \in BOOLEAN
    /\ unlinkCb \in Clients \cup {NoClient}
    /\ vendor \in {"none", "open", "broken"}
    /\ session \in Clients \cup {NoClient}
    /\ overlapped \in BOOLEAN
    /\ session = NoClient <=> vendor = "none"

\* As long as clients come one after the other, neither Shutdown's assertion ("No
\* Vendor interface!") nor the use of a null instance is reached, however
\* initialize, close and deaths follow each other.  (A client that comes too early
\* is refused, but linked: its close or death ends the session of another.)
NoFatal == ~overlapped => ~fatal

\* As long as the process lives, and however many clients there are, a session
\* has somebody who will end it: its client is linked, and if it is dead the
\* notification is on the way.
NoOrphanedSession ==
    vendor # "none" /\ ~fatal =>
        /\ links[session] > 0
        /\ client[session] = "dead" => \E i \in 1..Len(inbox) : inbox[i] = Message("death", session)

\* And a session ends only by a message of the client whose session it is.
EndedByItsClient ==
    [][~overlapped /\ vendor # "none" /\ vendor' = "none" => Head(inbox).from = session]_vars

=============================================================================
