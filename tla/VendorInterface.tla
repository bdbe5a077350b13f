-------------------------- MODULE VendorInterface --------------------------
(***************************************************************************)
(* The Bluetooth vendor interface (bluetooth/vendor_interface): opening and*)
(* closing the controller, the vendor library's own commands during the    *)
(* firmware configuration, low power mode (LPM) and the routing of events. *)
(*                                                                         *)
(* Two threads: "hidl" runs Initialize, Send and Shutdown for the client;  *)
(* "watcher" is AsyncFdWatcher's thread, which hands in events and the LPM *)
(* timeout.  The transport is a queue of commands out and a queue of events*)
(* in (PacketLink); the vendor library and the controller are external and *)
(* modelled from how this file uses them.                                  *)
(***************************************************************************)
EXTENDS Integers, Sequences

CONSTANTS
    FwOpcodes,     \* the commands of BT_VND_OP_FW_CFG, sent one after the other
    LpmOpcode,     \* the command of BT_VND_OP_LPM_SET_MODE
    LpmTransmits,  \* whether the library sends one
    StackOpcodes,  \* the commands the client sends
    CapsOpcode,    \* HCI_BLE_VENDOR_CAP_OCF
    ScoOutcomes,   \* BT_VND_OP_SCO_CFG: scocfg_cb is called in it with "success"
                   \* or "failure", or "later"
    FdCounts,      \* what BT_VND_OP_USERIAL_OPEN may return
    MaxCommands,   \* bound: commands of the client per session
    MaxEvents      \* bound: unsolicited events per session

ASSUME LibraryAssumption ==
    /\ FwOpcodes \in Seq(STRING) /\ FwOpcodes # <<>>
    /\ LpmTransmits \in BOOLEAN
    /\ ScoOutcomes \subseteq {"success", "failure", "later"}
    /\ FdCounts \subseteq Int
    /\ MaxCommands \in Nat /\ MaxEvents \in Nat
\* The library and the client do not use the same command at the same time.
ASSUME OpcodeAssumption == LpmOpcode \notin StackOpcodes

VARIABLES
    hpc,               \* where the hidl thread is
    wpc,               \* where the watcher is ("down": not running)
    sendPc,            \* per thread: where in transmit_cb or Send it is
    sendCmd,           \* per thread: the command it sends
    wakeupMutex,       \* the holder of wakeup_mutex_, or "free"
    internalCommands,  \* internal_commands: [opcode, cb]
    initPending,       \* initialize_complete_cb_ is not null
    wakeDeasserted,    \* lpm_wake_deasserted
    lpmTimeout,        \* lpm_timeout_ms: 0, or 1 for a positive number
    recentActivity,    \* recent_activity_flag
    scoStatus,         \* sco_cfg_status
    scoReport,         \* the last operation's outcome; "late" once a later call came
    timer,             \* fd_watcher_'s timeout: 0, or 1 with OnTimeout
    wakeLine,          \* the wake signal, set by the library: "asserted" or not
    fdCount,           \* what the library returned for this session
    toController,      \* commands written and not answered
    fromController,    \* events sent and not read
    event,             \* the event HandleIncomingEvent is at
    callback,          \* saved_cb
    forwarded,         \* the last event given to event_cb_, and whether faked
    consumed,          \* the last event given to a callback of the library
    commands,          \* commands the client has sent in this session
    events             \* unsolicited events of this session

lpmVars   == <<wakeDeasserted, lpmTimeout, recentActivity, timer, wakeLine>>
sendVars  == <<sendPc, sendCmd, wakeupMutex>>
lineVars  == <<toController, fromController, events>>
eventVars == <<event, callback, forwarded, consumed, scoStatus, scoReport>>
initVars  == <<initPending, fdCount>>
vars == <<hpc, wpc, internalCommands, commands, lpmVars, sendVars, lineVars,
          eventVars, initVars>>

Threads == {"hidl", "watcher"}

\* code: "complete" (Command Complete), "sco" (eSCO Connection Complete) or
\* "other"; opcode: the two bytes at offset 3, whatever the event; internal:
\* it answers a command of the library.
NoEvent == [code |-> "other", opcode |-> "none", internal |-> FALSE]
NotForwarded == [event |-> NoEvent, faked |-> FALSE]
NoCommand == [opcode |-> "none", cb |-> 0, internal |-> FALSE]

\* The callbacks of the library's commands: the step of the firmware
\* configuration, or 0 for low_power_mode.
FwStep(k) == [opcode |-> FwOpcodes[k], cb |-> k]
LpmStep == [opcode |-> LpmOpcode, cb |-> 0]

Init == /\ hpc = "closed" /\ wpc = "down"
        /\ sendPc = [t \in Threads |-> "none"]
        /\ sendCmd = [t \in Threads |-> NoCommand]
        /\ wakeupMutex = "free"
        /\ initPending = FALSE /\ fdCount = 0
        /\ wakeDeasserted = FALSE /\ lpmTimeout = 0 /\ recentActivity = FALSE
        /\ scoStatus = FALSE /\ scoReport = "success"
        /\ timer = 0 /\ wakeLine = "deasserted"
        /\ internalCommands = <<>>
        /\ commands = 0 /\ events = 0
        /\ toController = <<>> /\ fromController = <<>>
        /\ event = NoEvent /\ callback = 0
        /\ forwarded = NotForwarded /\ consumed = NoEvent

\* What a session leaves behind; the static variables of LPM and SCO survive it.
Forget ==
    /\ internalCommands' = <<>>
    /\ commands' = 0 /\ events' = 0
    /\ toController' = <<>> /\ fromController' = <<>>
    /\ event' = NoEvent /\ callback' = 0
    /\ forwarded' = NotForwarded /\ consumed' = NoEvent

(***************************************************************************)
(* Send, and transmit_cb, which pushes first and sends then.               *)
(***************************************************************************)
Idle(t) == sendPc[t] = "none"

\* transmit_cb, called by the library on thread t.
BeginTransmit(t, step) ==
    /\ sendPc' = [sendPc EXCEPT ![t] = "push"]
    /\ sendCmd' = [sendCmd EXCEPT ![t] = [opcode |-> step.opcode, cb |-> step.cb, internal |-> TRUE]]

Push(t) ==
    /\ sendPc[t] = "push"
    /\ internalCommands' =
         Append(internalCommands, [opcode |-> sendCmd[t].opcode, cb |-> sendCmd[t].cb])
    /\ sendPc' = [sendPc EXCEPT ![t] = "lock"]
    /\ UNCHANGED <<hpc, wpc, commands, lpmVars, sendCmd, wakeupMutex, lineVars, eventVars, initVars>>

AssertWake ==
    IF wakeDeasserted
    THEN timer' = lpmTimeout /\ wakeDeasserted' = FALSE /\ wakeLine' = "asserted"
    ELSE UNCHANGED <<wakeDeasserted, wakeLine, timer>>

\* wakeup_mutex_ is taken.
SendLocked(t) ==
    /\ sendPc[t] = "lock"
    /\ wakeupMutex = "free"
    /\ wakeupMutex' = t
    /\ recentActivity' = TRUE
    /\ AssertWake
    /\ sendPc' = [sendPc EXCEPT ![t] = "write"]
    /\ UNCHANGED <<hpc, wpc, commands, internalCommands, lpmTimeout, sendCmd, lineVars, eventVars, initVars>>

\* hci_->Send, and wakeup_mutex_ is released.
SendWrites(t) ==
    /\ sendPc[t] = "write"
    /\ toController' = Append(toController, [opcode |-> sendCmd[t].opcode,
                                             internal |-> sendCmd[t].internal])
    /\ wakeupMutex' = "free"
    /\ sendPc' = [sendPc EXCEPT ![t] = "none"]
    /\ sendCmd' = [sendCmd EXCEPT ![t] = NoCommand]
    /\ UNCHANGED <<hpc, wpc, commands, internalCommands, lpmVars, fromController, events, eventVars, initVars>>

(***************************************************************************)
(* The hidl thread: Initialize and Open.                                   *)
(***************************************************************************)
\* fd_count < 1 || fd_count > CH_MAX - 1, with CH_MAX = 4
FdCountOK(n) == n \in 1..3

\* Up to the USERIAL_OPEN that fails: false is returned, and the object stays.
OpenFails ==
    /\ hpc = "closed"
    /\ \E n \in FdCounts : ~FdCountOK(n) /\ fdCount' = n
    /\ initPending' = TRUE
    /\ hpc' = "failed"
    /\ UNCHANGED <<wpc, internalCommands, commands, lpmVars, sendVars, lineVars, eventVars>>

\* The descriptors are there: internal_commands is made, the watcher started.
Open ==
    /\ hpc = "closed"
    /\ \E n \in FdCounts : FdCountOK(n) /\ fdCount' = n
    /\ initPending' = TRUE
    /\ hpc' = "resetWake"
    /\ wpc' = "select"
    /\ UNCHANGED <<internalCommands, commands, lpmVars, sendVars, lineVars, eventVars>>

\* "Initially, the power management is off."
ResetWake ==
    /\ hpc = "resetWake"
    /\ wakeDeasserted' = TRUE
    /\ hpc' = "fwCfg"
    /\ UNCHANGED <<wpc, internalCommands, commands, lpmTimeout, recentActivity, timer, wakeLine,
                   sendVars, lineVars, eventVars, initVars>>

\* BT_VND_OP_FW_CFG: the library sends its first command in the call.
StartFwCfg ==
    /\ hpc = "fwCfg"
    /\ BeginTransmit("hidl", FwStep(1))
    /\ hpc' = "open"
    /\ UNCHANGED <<wpc, wakeupMutex, internalCommands, commands, lpmVars, lineVars, eventVars, initVars>>

(***************************************************************************)
(* The hidl thread: the client's commands, Shutdown and Close.             *)
(***************************************************************************)
\* The client sends once initializationComplete has told it so.
StackSends(op) ==
    /\ hpc = "open" /\ Idle("hidl")
    /\ ~initPending
    /\ commands < MaxCommands
    /\ commands' = commands + 1
    /\ sendPc' = [sendPc EXCEPT !["hidl"] = "lock"]
    /\ sendCmd' = [sendCmd EXCEPT !["hidl"] = [opcode |-> op, cb |-> 0, internal |-> FALSE]]
    /\ UNCHANGED <<hpc, wpc, wakeupMutex, internalCommands, lpmVars, lineVars, eventVars, initVars>>

\* BT_VND_OP_LPM_SET_MODE(DISABLE), while the watcher is still running.  (On an
\* interface that failed to open the library sends nothing.)
Close ==
    /\ hpc \in {"open", "failed"} /\ Idle("hidl")
    /\ hpc' = "stop"
    /\ IF LpmTransmits /\ hpc = "open"
       THEN BeginTransmit("hidl", LpmStep)
       ELSE UNCHANGED <<sendPc, sendCmd>>
    /\ UNCHANGED <<wpc, wakeupMutex, internalCommands, commands, lpmVars, lineVars, eventVars, initVars>>

\* StopWatchingFileDescriptors: the watcher is joined between two iterations.
StopWatching ==
    /\ hpc = "stop" /\ Idle("hidl")
    /\ wpc \in {"select", "down"} /\ Idle("watcher")
    /\ wpc' = "down"
    /\ hpc' = "cleanup"
    /\ UNCHANGED <<internalCommands, commands, lpmVars, sendVars, lineVars, eventVars, initVars>>

\* The rest of Close, and delete: the controller is off and the queue is gone.
CleanUp ==
    /\ hpc = "cleanup"
    /\ hpc' = "closed"
    /\ timer' = 0
    /\ wakeLine' = "deasserted"
    /\ initPending' = FALSE
    /\ fdCount' = 0
    /\ Forget
    /\ UNCHANGED <<wpc, sendVars, wakeDeasserted, lpmTimeout, recentActivity, scoStatus, scoReport>>

(***************************************************************************)
(* The watcher: HandleIncomingEvent.                                       *)
(***************************************************************************)
Selecting == wpc = "select" /\ Idle("watcher")

\* The event code is not looked at.
MatchesBug(e) == internalCommands # <<>> /\ e.opcode = Head(internalCommands).opcode

\* internal_command_event_match
Matches(e) ==
    /\ internalCommands # <<>>
    /\ e.code = "complete"
    /\ e.opcode = Head(internalCommands).opcode

\* The command stays in the queue.
AfterPopBug == internalCommands

AfterPop == Tail(internalCommands)

ReadInternal ==
    /\ Selecting /\ fromController # <<>>
    /\ Matches(Head(fromController))
    /\ fromController' = Tail(fromController)
    /\ internalCommands' = AfterPop
    /\ callback' = Head(internalCommands).cb
    /\ consumed' = Head(fromController)
    /\ wpc' = "callback"
    /\ UNCHANGED <<hpc, commands, lpmVars, sendVars, toController, events, event, forwarded, scoStatus, scoReport, initVars>>

ReadEvent ==
    /\ Selecting /\ fromController # <<>>
    /\ ~Matches(Head(fromController))
    /\ event' = Head(fromController)
    /\ fromController' = Tail(fromController)
    /\ wpc' = IF event'.code = "sco" THEN "scoCfg" ELSE "forward"
    /\ UNCHANGED <<hpc, internalCommands, commands, lpmVars, sendVars, toController, events, callback,
                   forwarded, consumed, scoStatus, scoReport, initVars>>

\* The status is cleared after the operation.
ScoStatusBug(outcome) == FALSE

\* sco_cfg_status, cleared before BT_VND_OP_SCO_CFG, when it has returned:
\* sco_config_cb sets it only for BT_VND_OP_RESULT_SUCCESS.
ScoStatus(outcome) == outcome = "success"

\* The wait that follows the operation tests the status before it sleeps.
ConfigureSco ==
    /\ wpc = "scoCfg"
    /\ \E outcome \in ScoOutcomes :
        /\ scoStatus' = ScoStatus(outcome)
        /\ scoReport' = outcome
        /\ wpc' = IF scoStatus' THEN "forward" ELSE "scoWait"
    /\ UNCHANGED <<hpc, internalCommands, commands, lpmVars, sendVars, lineVars, event, callback,
                   forwarded, consumed, initVars>>

\* scocfg_cb comes later: a success sets the status, a failure leaves it; nothing
\* notifies cv.
ScoConfigured ==
    /\ wpc = "scoWait" /\ scoReport = "later"
    /\ \E result \in {"success", "failure"} : scoStatus' = ScoStatus(result)
    /\ scoReport' = "late"
    /\ UNCHANGED <<hpc, wpc, internalCommands, commands, lpmVars, sendVars, lineVars, event, callback,
                   forwarded, consumed, initVars>>

\* So the wait tests the status again only if it wakes by chance.
ScoWakesByChance ==
    /\ wpc = "scoWait"
    /\ wpc' = IF scoStatus THEN "forward" ELSE "scoWait"
    /\ UNCHANGED <<hpc, internalCommands, commands, lpmVars, sendVars, lineVars, eventVars, initVars>>

\* event_cb_: an event with the bytes of the capabilities command in the place
\* where get_opcode looks is replaced.
Forward ==
    /\ wpc = "forward"
    /\ forwarded' = [event |-> event, faked |-> event.opcode = CapsOpcode]
    /\ event' = NoEvent
    /\ wpc' = "select"
    /\ UNCHANGED <<hpc, internalCommands, commands, lpmVars, sendVars, lineVars, callback, consumed,
                   scoStatus, scoReport, initVars>>

(***************************************************************************)
(* The watcher: the library's callbacks, and OnFirmwareConfigured.         *)
(***************************************************************************)
\* The command of the firmware configuration after the k-th; 0: there is none.
NextFwStep(k) == IF k < Len(FwOpcodes) THEN k + 1 ELSE 0

LibraryContinues ==
    /\ wpc = "callback"
    /\ callback # 0 /\ NextFwStep(callback) # 0
    /\ BeginTransmit("watcher", FwStep(NextFwStep(callback)))
    /\ wpc' = "select"
    /\ UNCHANGED <<hpc, wakeupMutex, internalCommands, commands, lpmVars, lineVars, eventVars, initVars>>

\* low_power_mode_cb only logs.
LibraryIsDone ==
    /\ wpc = "callback"
    /\ callback = 0
    /\ wpc' = "select"
    /\ UNCHANGED <<hpc, internalCommands, commands, lpmVars, sendVars, lineVars, eventVars, initVars>>

\* firmware_config_cb: initialize_complete_cb_ is called and forgotten.
OnFirmwareConfigured ==
    /\ wpc = "callback"
    /\ callback # 0 /\ NextFwStep(callback) = 0
    /\ initPending' = FALSE
    /\ wpc' = "enableLpm"
    /\ UNCHANGED <<hpc, internalCommands, commands, lpmVars, sendVars, lineVars, eventVars, fdCount>>

\* GET_LPM_IDLE_TIMEOUT and LPM_SET_MODE(ENABLE).
EnableLpm ==
    /\ wpc = "enableLpm"
    /\ lpmTimeout' = 1
    /\ IF LpmTransmits THEN BeginTransmit("watcher", LpmStep) ELSE UNCHANGED <<sendPc, sendCmd>>
    /\ wpc' = "startWatchdog"
    /\ UNCHANGED <<hpc, wakeupMutex, internalCommands, commands, wakeDeasserted, recentActivity, timer,
                   wakeLine, lineVars, eventVars, initVars>>

\* ConfigureTimeout, not under wakeup_mutex_.
StartWatchdog ==
    /\ wpc = "startWatchdog" /\ Idle("watcher")
    /\ timer' = lpmTimeout
    /\ wpc' = "select"
    /\ UNCHANGED <<hpc, internalCommands, commands, wakeDeasserted, lpmTimeout, recentActivity, wakeLine,
                   sendVars, lineVars, eventVars, initVars>>

(***************************************************************************)
(* The watcher: OnTimeout.                                                 *)
(***************************************************************************)
\* select() times out with nothing to read; the callback is fetched here and
\* runs later.
TimerFires ==
    /\ Selecting
    /\ timer > 0
    /\ fromController = <<>>
    /\ wpc' = "onTimeout"
    /\ UNCHANGED <<hpc, internalCommands, commands, lpmVars, sendVars, lineVars, eventVars, initVars>>

\* recent_activity_flag is not reset.
LpmIdleBug ==
    /\ IF recentActivity THEN UNCHANGED <<wakeDeasserted, wakeLine, timer>>
       ELSE wakeDeasserted' = TRUE /\ wakeLine' = "deasserted" /\ timer' = 0
    /\ UNCHANGED recentActivity

LpmIdle ==
    /\ IF recentActivity THEN UNCHANGED <<wakeDeasserted, wakeLine, timer>>
       ELSE wakeDeasserted' = TRUE /\ wakeLine' = "deasserted" /\ timer' = 0
    /\ recentActivity' = FALSE

\* wakeup_mutex_ is not taken.
OnTimeoutBug ==
    /\ wpc = "onTimeout"
    /\ LpmIdle
    /\ wpc' = "select"
    /\ UNCHANGED <<hpc, internalCommands, commands, lpmTimeout, sendVars, lineVars, eventVars, initVars>>

OnTimeout ==
    /\ wpc = "onTimeout"
    /\ wakeupMutex = "free"
    /\ LpmIdle
    /\ wpc' = "select"
    /\ UNCHANGED <<hpc, internalCommands, commands, lpmTimeout, sendVars, lineVars, eventVars, initVars>>

(***************************************************************************)
(* The controller (external): it answers the commands in order, and sends  *)
(* events of its own.                                                      *)
(***************************************************************************)
ControllerAnswers ==
    /\ wpc # "down"
    /\ toController # <<>>
    /\ toController' = Tail(toController)
    /\ fromController' = Append(fromController,
           [code |-> "complete", opcode |-> Head(toController).opcode,
            internal |-> Head(toController).internal])
    /\ UNCHANGED <<hpc, wpc, internalCommands, commands, lpmVars, sendVars, events, eventVars, initVars>>

Opcodes == {FwOpcodes[k] : k \in 1..Len(FwOpcodes)} \cup StackOpcodes \cup {LpmOpcode, "none"}

ControllerSends(code, bytes) ==
    /\ wpc # "down"
    /\ events < MaxEvents
    /\ events' = events + 1
    /\ fromController' = Append(fromController, [code |-> code, opcode |-> bytes, internal |-> FALSE])
    /\ UNCHANGED <<hpc, wpc, internalCommands, commands, lpmVars, sendVars, toController, eventVars, initVars>>

(***************************************************************************)
(* The specification.                                                      *)
(***************************************************************************)
HidlSteps == Open \/ OpenFails \/ ResetWake \/ StartFwCfg \/ StopWatching \/ CleanUp

WatcherSteps == \/ ReadInternal \/ ReadEvent \/ ConfigureSco \/ Forward
                \/ LibraryContinues \/ LibraryIsDone
                \/ OnFirmwareConfigured \/ EnableLpm \/ StartWatchdog
                \/ OnTimeout

SendSteps(t) == Push(t) \/ SendLocked(t) \/ SendWrites(t)

Next == \/ HidlSteps
        \/ WatcherSteps
        \/ TimerFires
        \/ ScoConfigured \/ ScoWakesByChance
        \/ Close
        \/ \E t \in Threads : SendSteps(t)
        \/ \E op \in StackOpcodes : StackSends(op)
        \/ ControllerAnswers
        \/ \E code \in {"sco", "other"}, bytes \in Opcodes : ControllerSends(code, bytes)

Spec == Init /\ [][Next]_vars

\* Both threads are scheduled, select() times out when there is nothing else,
\* the controller answers, and a later scocfg_cb comes.  The client owes
\* nothing: neither commands nor a close.  A wake-up by chance is never owed.
FairSpec == /\ Spec
            /\ WF_vars(HidlSteps)
            /\ WF_vars(WatcherSteps)
            /\ WF_vars(TimerFires)
            /\ \A t \in Threads : WF_vars(SendSteps(t))
            /\ WF_vars(ControllerAnswers)
            /\ WF_vars(ScoConfigured)

(***************************************************************************)
(* Properties.                                                             *)
(***************************************************************************)
\* The control states keep their ranges; the watcher runs exactly from Open to
\* the join; a thread that sends under the mutex holds it.
TypeOK ==
    /\ hpc \in {"closed", "failed", "resetWake", "fwCfg", "open", "stop", "cleanup"}
    /\ wpc \in {"down", "select", "callback", "enableLpm", "startWatchdog", "scoCfg", "scoWait",
                "forward", "onTimeout"}
    /\ hpc \in {"closed", "failed", "cleanup"} => wpc = "down"
    /\ hpc \in {"resetWake", "fwCfg", "open"} => wpc # "down"
    /\ wakeupMutex \in Threads \cup {"free"}
    /\ \A t \in Threads : sendPc[t] = "write" <=> wakeupMutex = t
    /\ timer \in {0, 1} /\ lpmTimeout \in {0, 1}

\* The controller is awake whenever a packet is written to it: the wake line and
\* lpm_wake_deasserted agree whoever held the mutex before, also in a second
\* session, in which the flag starts with the value of the first.
WakeAssertedOnWrite == \A t \in Threads : sendPc[t] = "write" => wakeLine = "asserted"

\* Until Close, an answer to a command of the client is never taken for the
\* library's, and an answer to a command of the library is never forwarded,
\* though both use some of the same commands.
RoutedToOrigin ==
    hpc = "open" => /\ ~forwarded.event.internal
                    /\ consumed # NoEvent => consumed.internal

\* The watcher waits in HandleIncomingEvent for a success that the library did not
\* report within the operation: after a failure, or when the call comes later.
ScoStuck == wpc = "scoWait" /\ scoReport # "success"

\* When the client sends no more, the controller is let to sleep, unless the watcher
\* is stuck for good.
SleepsWhenIdle ==
    <>[]ScoStuck \/ (hpc = "open" /\ ~initPending ~> wakeDeasserted \/ hpc # "open")

\* The client is told that the interface is ready, unless the watcher is stuck for good.
FirmwareEventuallyConfigured ==
    <>[]ScoStuck \/ (hpc = "open" ~> ~initPending \/ hpc # "open")

\* A Close that has begun returns, whatever the watcher is at when it starts, unless the
\* watcher it joins is stuck for good.
CloseCompletes == <>[]ScoStuck \/ (hpc = "stop" ~> hpc = "closed")

=============================================================================
