----------------------- MODULE VendorInterfaceProofs -----------------------
(***************************************************************************)
(* Proofs about VendorInterface, for any firmware commands of the library, *)
(* any commands of the client and any number of sessions: the controller   *)
(* is awake when it is written to, and an answer goes to who asked.        *)
(*                                                                         *)
(* For the routing, the library has at most one command under way until    *)
(* Close: it is in one of its callbacks, about to push, or waits for the   *)
(* answer to the command in the queue, which is then in one place only:    *)
(* being sent, on its way out or on its way back.                          *)
(***************************************************************************)
EXTENDS VendorInterface, TLAPS

Ops == STRING \cup StackOpcodes \cup {LpmOpcode, "none"}
Written == [opcode : Ops, internal : BOOLEAN]
Events == [code : {"complete", "sco", "other"}, opcode : Ops, internal : BOOLEAN]
Steps == [opcode : Ops, cb : 0..Len(FwOpcodes)]
Sends == [opcode : Ops, cb : 0..Len(FwOpcodes), internal : BOOLEAN]

\* Nobody sends when the watcher is down, nor before the firmware configuration; the
\* watcher is at nothing else while it sends; and the library has nothing to wait for
\* before it is asked.
SendsWhenUp ==
    /\ \A t \in Threads : wpc = "down" \/ hpc \in {"resetWake", "fwCfg"} => Idle(t)
    /\ wpc \notin {"select", "startWatchdog"} => Idle("watcher")
    /\ hpc \in {"closed", "resetWake", "fwCfg"} =>
          internalCommands = <<>> /\ wpc \notin {"callback", "enableLpm", "startWatchdog"}

Typed ==
    /\ TypeOK /\ SendsWhenUp
    /\ sendPc \in [Threads -> {"none", "push", "lock", "write"}]
    /\ sendCmd \in [Threads -> Sends]
    /\ internalCommands \in Seq(Steps)
    /\ toController \in Seq(Written)
    /\ fromController \in Seq(Events)
    /\ event \in Events /\ consumed \in Events /\ forwarded.event \in Events
    /\ callback \in 0..Len(FwOpcodes)

(***************************************************************************)
(* The wake line.                                                          *)
(***************************************************************************)
\* From "power management is off" on, a flag that says awake is right.
WakeAgrees ==
    hpc \in {"fwCfg", "open", "stop"} /\ wpc # "down" => wakeDeasserted \/ wakeLine = "asserted"

(***************************************************************************)
(* The library.                                                            *)
(***************************************************************************)
\* A step of the firmware configuration until it is done, that of LPM then.
IsStep(s) ==
    IF initPending THEN s.cb \in 1..Len(FwOpcodes) /\ s.opcode = FwOpcodes[s.cb]
                   ELSE s.cb = 0 /\ s.opcode = LpmOpcode

\* The library is at one thing at a time: a callback, a push, or the wait for an answer.
LibraryInStep ==
    /\ hpc # "open" => initPending
    /\ Len(internalCommands) <= 1
    /\ internalCommands # <<>> => IsStep(Head(internalCommands))
    /\ \A t \in Threads : sendPc[t] = "push" =>
          /\ internalCommands = <<>>
          /\ wpc \notin {"callback", "enableLpm"}
          /\ sendCmd[t].internal /\ IsStep(sendCmd[t])
          /\ \A u \in Threads : sendPc[u] = "push" => u = t
    /\ wpc \in {"callback", "enableLpm"} => internalCommands = <<>>
    /\ wpc = "callback" => (callback # 0 <=> initPending)
    /\ wpc \in {"enableLpm", "startWatchdog"} => ~initPending

(***************************************************************************)
(* The commands and their answers.                                         *)
(***************************************************************************)
Sending(t) == sendPc[t] \in {"lock", "write"} /\ sendCmd[t].internal
SendingIt == \E t \in Threads : Sending(t)
In(q) == \E i \in 1..Len(q) : q[i].internal
Once(q) == \A i, j \in 1..Len(q) : q[i].internal /\ q[j].internal => i = j

\* x is the library's, and what it waits for; or the client's.
Awaited(x) ==
    IF x.internal THEN internalCommands # <<>> /\ x.opcode = Head(internalCommands).opcode
                  ELSE ~initPending /\ x.opcode \in StackOpcodes

\* The library's command is in one place.
InOnePlace ==
    /\ \A t, u \in Threads : Sending(t) /\ Sending(u) => t = u
    /\ Once(toController) /\ Once(fromController)
    /\ ~(SendingIt /\ In(toController))
    /\ ~(SendingIt /\ In(fromController))
    /\ ~(In(toController) /\ In(fromController))

AllAwaited ==
    /\ \A t \in Threads : sendPc[t] \in {"lock", "write"} => Awaited(sendCmd[t])
    /\ \A i \in 1..Len(toController) : Awaited(toController[i])
    /\ \A i \in 1..Len(fromController) :
          IF fromController[i].code = "complete" THEN Awaited(fromController[i])
                                                 ELSE ~fromController[i].internal

ToOrigin == ~event.internal /\ ~forwarded.event.internal /\ (consumed # NoEvent => consumed.internal)

\* A session starts with nothing of the one before.
Fresh ==
    /\ internalCommands = <<>> /\ toController = <<>> /\ fromController = <<>>
    /\ event = NoEvent /\ forwarded = NotForwarded /\ consumed = NoEvent

Routing ==
    /\ hpc = "closed" => Fresh
    /\ hpc \in {"resetWake", "fwCfg", "open"} =>
          LibraryInStep /\ InOnePlace /\ AllAwaited /\ ToOrigin

WakeInv == Typed /\ WakeAgrees /\ WakeAssertedOnWrite
IInv == WakeInv /\ Routing
(***************************************************************************)
(* Types.                                                                  *)
(***************************************************************************)
LEMMA StepsTyped ==
  /\ LpmStep \in Steps /\ LpmStep.cb = 0 /\ LpmStep.opcode = LpmOpcode
  /\ \A k \in 1..Len(FwOpcodes) :
        FwStep(k) \in Steps /\ FwStep(k).cb = k /\ FwStep(k).opcode = FwOpcodes[k]
  /\ 1 \in 1..Len(FwOpcodes)
  /\ \A k \in 0..Len(FwOpcodes) : NextFwStep(k) \in 0..Len(FwOpcodes)
  /\ NoCommand \in Sends /\ NoEvent \in Events
<1>1. Len(FwOpcodes) \in Nat \ {0} /\ \A k \in 1..Len(FwOpcodes) : FwOpcodes[k] \in STRING
  BY LibraryAssumption
<1>2. LpmStep \in Steps /\ LpmStep.cb = 0 /\ LpmStep.opcode = LpmOpcode
  BY <1>1 DEF LpmStep, Steps, Ops
<1>3. ASSUME NEW k \in 1..Len(FwOpcodes)
      PROVE  FwStep(k) \in Steps /\ FwStep(k).cb = k /\ FwStep(k).opcode = FwOpcodes[k]
  <2>1. k \in 0..Len(FwOpcodes) /\ FwOpcodes[k] \in Ops
    BY <1>1 DEF Ops
  <2> QED BY <2>1 DEF FwStep, Steps
<1>4. \A k \in 0..Len(FwOpcodes) : NextFwStep(k) \in 0..Len(FwOpcodes)
  BY <1>1 DEF NextFwStep
<1>5. "none" \in Ops /\ 0 \in 0..Len(FwOpcodes)
  BY <1>1 DEF Ops
<1>6. NoCommand \in Sends /\ NoEvent \in Events
  BY <1>5 DEF NoCommand, Sends, NoEvent, Events
<1> QED BY <1>1, <1>2, <1>3, <1>4, <1>6

LEMMA InitTyped == Init => Typed
<1> SUFFICES ASSUME Init PROVE Typed
  OBVIOUS
<1>1. TypeOK /\ SendsWhenUp
  BY DEF Init, TypeOK, Threads, SendsWhenUp, Idle
<1>2. sendPc \in [Threads -> {"none", "push", "lock", "write"}] /\ sendCmd \in [Threads -> Sends]
  BY StepsTyped DEF Init
<1>3. event \in Events /\ consumed \in Events /\ forwarded.event \in Events
  BY StepsTyped DEF Init, NotForwarded
<1>4. callback \in 0..Len(FwOpcodes)
  BY LibraryAssumption DEF Init
<1> QED BY <1>1, <1>2, <1>3, <1>4 DEF Typed, Init

\* transmit_cb keeps the command of the step.
LEMMA TransmitTyped ==
  ASSUME Typed, NEW t \in Threads, NEW s \in Steps, BeginTransmit(t, s)
  PROVE  /\ sendPc' \in [Threads -> {"none", "push", "lock", "write"}]
         /\ sendCmd' \in [Threads -> Sends]
         /\ sendPc'[t] = "push" /\ sendCmd'[t].internal
         /\ sendCmd'[t].cb = s.cb /\ sendCmd'[t].opcode = s.opcode
         /\ \A u \in Threads : u # t => sendPc'[u] = sendPc[u] /\ sendCmd'[u] = sendCmd[u]
BY DEF Typed, BeginTransmit, Steps, Sends

LEMMA HidlTyped == Typed /\ (HidlSteps \/ Close \/ \E op \in StackOpcodes : StackSends(op)) => Typed'
<1> SUFFICES ASSUME Typed, HidlSteps \/ Close \/ \E op \in StackOpcodes : StackSends(op) PROVE Typed'
  OBVIOUS
<1>1. CASE Open \/ OpenFails
  BY <1>1 DEF Open, OpenFails, Typed, TypeOK, SendsWhenUp, Idle, Threads, lpmVars, sendVars, lineVars, eventVars
<1>2. CASE ResetWake
  BY <1>2 DEF ResetWake, Typed, TypeOK, SendsWhenUp, Idle, Threads, sendVars, lineVars, eventVars, initVars
<1>3. CASE StartFwCfg
  <2>1. BeginTransmit("hidl", FwStep(1)) /\ FwStep(1) \in Steps /\ "hidl" \in Threads
    BY <1>3, StepsTyped DEF StartFwCfg, Threads
  <2> QED BY <1>3, <2>1, TransmitTyped DEF StartFwCfg, Typed, TypeOK, SendsWhenUp, Idle, Threads, lpmVars, lineVars, eventVars, initVars
<1>4. CASE StopWatching
  BY <1>4 DEF StopWatching, Typed, TypeOK, SendsWhenUp, Idle, Threads, lpmVars, sendVars, lineVars, eventVars, initVars
<1>5. CASE CleanUp
  BY <1>5, StepsTyped DEF CleanUp, Forget, NotForwarded, Typed, TypeOK, SendsWhenUp, Idle, Threads, sendVars
<1>6. CASE Close
  <2>1. CASE LpmTransmits /\ hpc = "open"
    <3>1. BeginTransmit("hidl", LpmStep) /\ LpmStep \in Steps /\ "hidl" \in Threads
      BY <1>6, <2>1, StepsTyped DEF Close, Threads
    <3> QED BY <1>6, <3>1, TransmitTyped DEF Close, Typed, TypeOK, SendsWhenUp, Idle, Threads, lpmVars, lineVars, eventVars, initVars
  <2>2. CASE ~(LpmTransmits /\ hpc = "open")
    BY <1>6, <2>2 DEF Close, Typed, TypeOK, SendsWhenUp, Idle, Threads, lpmVars, lineVars, eventVars, initVars
  <2> QED BY <2>1, <2>2
<1>7. ASSUME NEW op \in StackOpcodes, StackSends(op)
      PROVE  Typed'
  <2>1. [opcode |-> op, cb |-> 0, internal |-> FALSE] \in Sends
    BY LibraryAssumption DEF Sends, Ops
  <2> QED BY <1>7, <2>1 DEF StackSends, Typed, TypeOK, SendsWhenUp, Idle, Threads, lpmVars, lineVars, eventVars, initVars
<1> QED BY <1>1, <1>2, <1>3, <1>4, <1>5, <1>6, <1>7 DEF HidlSteps

LEMMA SendsTyped ==
  ASSUME Typed, NEW t \in Threads, SendSteps(t)
  PROVE  Typed'
<1>c. sendCmd[t] \in Sends
  BY DEF Typed
<1>1. CASE Push(t)
  <2>1. [opcode |-> sendCmd[t].opcode, cb |-> sendCmd[t].cb] \in Steps
    BY <1>c DEF Sends, Steps
  <2> QED BY <1>1, <2>1 DEF Push, Typed, TypeOK, SendsWhenUp, Idle, Threads, lpmVars, lineVars, eventVars, initVars
<1>2. CASE SendLocked(t)
  BY <1>2 DEF SendLocked, AssertWake, Typed, TypeOK, SendsWhenUp, Idle, Threads, lineVars, eventVars, initVars
<1>3. CASE SendWrites(t)
  <2>1. [opcode |-> sendCmd[t].opcode, internal |-> sendCmd[t].internal] \in Written
    BY <1>c DEF Sends, Written
  <2> QED BY <1>3, <2>1, StepsTyped DEF SendWrites, Typed, TypeOK, SendsWhenUp, Idle, Threads, lpmVars, eventVars, initVars
<1> QED BY <1>1, <1>2, <1>3 DEF SendSteps

LEMMA WatcherTyped ==
  ASSUME Typed, WatcherSteps \/ TimerFires \/ ScoConfigured \/ ScoWakesByChance
  PROVE  Typed'
<1>f. fromController # <<>> => Head(fromController) \in Events /\ Tail(fromController) \in Seq(Events)
  BY DEF Typed
<1>i. internalCommands # <<>> => /\ Head(internalCommands) \in Steps
                                 /\ Tail(internalCommands) \in Seq(Steps)
  BY DEF Typed
<1>1. CASE ReadInternal
  <2>1. Head(internalCommands).cb \in 0..Len(FwOpcodes)
    BY <1>1, <1>i DEF ReadInternal, Matches, Steps
  <2> QED BY <1>1, <1>f, <1>i, <2>1 DEF ReadInternal, Selecting, Matches, AfterPop, Typed, TypeOK, SendsWhenUp, Idle, Threads,
                                   lpmVars, sendVars, initVars
<1>2. CASE ReadEvent
  BY <1>2, <1>f DEF ReadEvent, Selecting, Typed, TypeOK, SendsWhenUp, Idle, Threads, lpmVars, sendVars, initVars
<1>3. CASE ConfigureSco
  BY <1>3 DEF ConfigureSco, Typed, TypeOK, SendsWhenUp, Idle, Threads, lpmVars, sendVars, lineVars, initVars
<1>4. CASE Forward
  BY <1>4, StepsTyped DEF Forward, Typed, TypeOK, SendsWhenUp, Idle, Threads, lpmVars, sendVars, lineVars, initVars
<1>5. CASE LibraryContinues
  <2>1. PICK s \in Steps : s = FwStep(NextFwStep(callback))
    BY <1>5, StepsTyped DEF LibraryContinues, Typed
  <2>2. BeginTransmit("watcher", s) /\ "watcher" \in Threads
    BY <1>5, <2>1 DEF LibraryContinues, Threads
  <2> QED BY <1>5, <2>2, TransmitTyped DEF LibraryContinues, Typed, TypeOK, SendsWhenUp, Idle, Threads, lpmVars, lineVars, eventVars, initVars
<1>6. CASE LibraryIsDone \/ OnFirmwareConfigured
  BY <1>6 DEF LibraryIsDone, OnFirmwareConfigured, Typed, TypeOK, SendsWhenUp, Idle, Threads, lpmVars, sendVars, lineVars,
              eventVars, initVars
<1>7. CASE EnableLpm
  <2>1. CASE LpmTransmits
    <3>1. BeginTransmit("watcher", LpmStep) /\ LpmStep \in Steps /\ "watcher" \in Threads
      BY <1>7, <2>1, StepsTyped DEF EnableLpm, Threads
    <3> QED BY <1>7, <3>1, TransmitTyped DEF EnableLpm, Typed, TypeOK, SendsWhenUp, Idle, Threads, lineVars, eventVars, initVars
  <2>2. CASE ~LpmTransmits
    BY <1>7, <2>2 DEF EnableLpm, Typed, TypeOK, SendsWhenUp, Idle, Threads, lineVars, eventVars, initVars
  <2> QED BY <2>1, <2>2
<1>8. CASE StartWatchdog
  BY <1>8 DEF StartWatchdog, Typed, TypeOK, SendsWhenUp, Idle, Threads, sendVars, lineVars, eventVars, initVars
<1>9. CASE OnTimeout
  BY <1>9 DEF OnTimeout, LpmIdle, Typed, TypeOK, SendsWhenUp, Idle, Threads, sendVars, lineVars, eventVars, initVars
<1>10. CASE TimerFires \/ ScoConfigured \/ ScoWakesByChance
  BY <1>10 DEF TimerFires, Selecting, ScoConfigured, ScoWakesByChance, Typed, TypeOK, SendsWhenUp, Idle, Threads, lpmVars,
               sendVars, lineVars, eventVars, initVars
<1> QED BY <1>1, <1>2, <1>3, <1>4, <1>5, <1>6, <1>7, <1>8, <1>9, <1>10 DEF WatcherSteps

ControllerSteps == \/ ControllerAnswers
                   \/ \E code \in {"sco", "other"}, bytes \in Opcodes : ControllerSends(code, bytes)

LEMMA ControllerTyped == Typed /\ ControllerSteps => Typed'
<1> SUFFICES ASSUME Typed, ControllerSteps PROVE Typed'
  OBVIOUS
<1>1. CASE ControllerAnswers
  <2>1. Head(toController) \in Written /\ Tail(toController) \in Seq(Written)
    BY <1>1 DEF ControllerAnswers, Typed
  <2>2. [code |-> "complete", opcode |-> Head(toController).opcode,
         internal |-> Head(toController).internal] \in Events
    BY <2>1 DEF Written, Events
  <2> QED BY <1>1, <2>1, <2>2 DEF ControllerAnswers, Typed, TypeOK, SendsWhenUp, Idle, Threads, lpmVars, sendVars, eventVars, initVars
<1>2. ASSUME NEW code \in {"sco", "other"}, NEW bytes \in Opcodes, ControllerSends(code, bytes)
      PROVE  Typed'
  <2>1. bytes \in Ops
    <3>1. \A k \in 1..Len(FwOpcodes) : FwOpcodes[k] \in STRING
      BY LibraryAssumption
    <3> QED BY <3>1 DEF Opcodes, Ops
  <2>2. [code |-> code, opcode |-> bytes, internal |-> FALSE] \in Events
    BY <2>1 DEF Events
  <2> QED BY <1>2, <2>2 DEF ControllerSends, Typed, TypeOK, SendsWhenUp, Idle, Threads, lpmVars, sendVars, eventVars, initVars
<1> QED BY <1>1, <1>2 DEF ControllerSteps

LEMMA NextCases ==
  Next => \/ HidlSteps \/ Close \/ \E op \in StackOpcodes : StackSends(op)
          \/ \E t \in Threads : SendSteps(t)
          \/ WatcherSteps \/ TimerFires \/ ScoConfigured \/ ScoWakesByChance
          \/ ControllerSteps
BY DEF Next, ControllerSteps

LEMMA TypedKept == Typed /\ [Next]_vars => Typed'
<1> SUFFICES ASSUME Typed, [Next]_vars PROVE Typed'
  OBVIOUS
<1>1. CASE UNCHANGED vars
  BY <1>1 DEF vars, lpmVars, sendVars, lineVars, eventVars, initVars, Typed, TypeOK, SendsWhenUp, Idle
<1> QED BY <1>1, NextCases, HidlTyped, SendsTyped, WatcherTyped, ControllerTyped

\* The control states keep their ranges, and the mutex is held by who sends.
THEOREM TypeCorrect == Spec => []TypeOK
<1>1. Typed => TypeOK
  BY DEF Typed
<1> QED BY <1>1, InitTyped, TypedKept, PTL DEF Spec

(***************************************************************************)
(* The wake line.                                                          *)
(***************************************************************************)
LEMMA WakeKept == WakeInv /\ [Next]_vars => WakeInv'
<1> SUFFICES ASSUME WakeInv, [Next]_vars PROVE WakeAgrees' /\ WakeAssertedOnWrite'
  BY TypedKept DEF WakeInv
<1> USE DEF WakeInv, WakeAgrees, WakeAssertedOnWrite
<1>t. Typed
  OBVIOUS
\* Nothing of the wake line changes, nobody takes the mutex, and no session begins.
<1>a. ASSUME UNCHANGED <<wakeDeasserted, wakeLine>>,
             \A t \in Threads : sendPc'[t] = "write" => sendPc[t] = "write",
             hpc' \in {"fwCfg", "open", "stop"} /\ wpc' # "down"
                => hpc \in {"fwCfg", "open", "stop"} /\ wpc # "down"
      PROVE  WakeAgrees' /\ WakeAssertedOnWrite'
  BY <1>a
<1>1. CASE HidlSteps \/ Close \/ \E op \in StackOpcodes : StackSends(op)
  <2>1. CASE Open \/ OpenFails
    BY <2>1, <1>t DEF Open, OpenFails, lpmVars, sendVars
  <2>2. CASE ResetWake
    BY <2>2 DEF ResetWake, sendVars
  <2>3. CASE StartFwCfg \/ Close
    <3>1. \A t \in Threads : sendPc'[t] = "write" => sendPc[t] = "write"
      BY <1>t, <2>3 DEF StartFwCfg, Close, BeginTransmit, Typed, Threads
    <3>2. /\ UNCHANGED <<wakeDeasserted, wakeLine, wpc>>
          /\ wpc # "down" => hpc \in {"fwCfg", "open"}
      BY <1>t, <2>3 DEF StartFwCfg, Close, lpmVars, Typed, TypeOK
    <3> QED BY <1>a, <3>1, <3>2
  <2>4. CASE StopWatching
    BY <1>a, <2>4 DEF StopWatching, lpmVars, sendVars
  <2>5. CASE CleanUp
    <3>1. \A t \in Threads : sendPc'[t] # "write"
      BY <1>t, <2>5 DEF CleanUp, sendVars, Typed, TypeOK, SendsWhenUp, Idle
    <3> QED BY <2>5, <3>1 DEF CleanUp
  <2>6. ASSUME NEW op \in StackOpcodes, StackSends(op)
        PROVE  WakeAgrees' /\ WakeAssertedOnWrite'
    <3>1. \A t \in Threads : sendPc'[t] = "write" => sendPc[t] = "write"
      BY <1>t, <2>6 DEF StackSends, Typed, Threads
    <3> QED BY <1>a, <2>6, <3>1 DEF StackSends, lpmVars
  <2> QED BY <1>1, <2>1, <2>2, <2>3, <2>4, <2>5, <2>6 DEF HidlSteps
<1>2. ASSUME NEW t \in Threads, SendSteps(t)
      PROVE  WakeAgrees' /\ WakeAssertedOnWrite'
  <2>1. CASE Push(t) \/ SendWrites(t)
    <3>1. \A u \in Threads : sendPc'[u] = "write" => sendPc[u] = "write"
      BY <1>t, <2>1 DEF Push, SendWrites, Typed
    <3> QED BY <1>a, <2>1, <3>1 DEF Push, SendWrites, lpmVars
  <2>2. CASE SendLocked(t)
    <3>1. hpc \in {"open", "stop"} /\ wpc # "down"
      BY <1>t, <2>2 DEF SendLocked, Typed, TypeOK, SendsWhenUp, Idle
    <3>2. wakeDeasserted \/ wakeLine = "asserted"
      BY <3>1
    <3>3. wakeLine' = "asserted"
      BY <2>2, <3>2 DEF SendLocked, AssertWake
    <3> QED BY <3>3
  <2> QED BY <1>2, <2>1, <2>2 DEF SendSteps
<1>3. CASE WatcherSteps \/ TimerFires \/ ScoConfigured \/ ScoWakesByChance
  <2>1. CASE OnTimeout
    <3>1. \A t \in Threads : sendPc[t] # "write"
      BY <1>t, <2>1 DEF OnTimeout, Typed, TypeOK, Threads
    <3>2. \/ UNCHANGED <<wakeDeasserted, wakeLine>>
          \/ wakeDeasserted' = TRUE
      BY <2>1 DEF OnTimeout, LpmIdle
    <3> QED BY <2>1, <3>1, <3>2 DEF OnTimeout, sendVars
  <2>2. CASE LibraryContinues \/ EnableLpm
    <3>1. \A t \in Threads : sendPc'[t] = "write" => sendPc[t] = "write"
      BY <1>t, <2>2 DEF LibraryContinues, EnableLpm, BeginTransmit, Typed, Threads
    <3> QED BY <1>a, <2>2, <3>1 DEF LibraryContinues, EnableLpm, lpmVars
  <2>3. CASE \/ ReadInternal \/ ReadEvent \/ ConfigureSco \/ Forward \/ LibraryIsDone
             \/ OnFirmwareConfigured \/ StartWatchdog
             \/ TimerFires \/ ScoConfigured \/ ScoWakesByChance
    BY <1>a, <2>3 DEF ReadInternal, ReadEvent, Selecting, ConfigureSco, Forward, LibraryIsDone,
       OnFirmwareConfigured, StartWatchdog, TimerFires, ScoConfigured, ScoWakesByChance,
       lpmVars, sendVars
  <2> QED BY <1>3, <2>1, <2>2, <2>3 DEF WatcherSteps
<1>4. CASE ControllerSteps \/ UNCHANGED vars
  BY <1>a, <1>4 DEF ControllerSteps, ControllerAnswers, ControllerSends, vars, lpmVars, sendVars
<1> QED BY <1>1, <1>2, <1>3, <1>4, NextCases

\* The controller is awake whenever a packet is written to it, in the second session as in
\* the first: what the flag says of the wake line is right from ResetWake on, and the
\* timeout and the threads that send change both under wakeup_mutex_.
THEOREM AwakeOnWrite == Spec => []WakeAssertedOnWrite
<1>1. Init => WakeInv
  <2>1. Init => Typed
    BY InitTyped
  <2> QED BY <2>1 DEF Init, WakeInv, WakeAgrees, WakeAssertedOnWrite, Threads
<1>2. WakeInv => WakeAssertedOnWrite
  BY DEF WakeInv
<1> QED BY <1>1, <1>2, WakeKept, PTL DEF Spec


(***************************************************************************)
(* The queues of commands and answers.                                     *)
(***************************************************************************)
LEMMA AppendKeeps ==
  ASSUME NEW S, NEW q \in Seq(S), NEW x \in S
  PROVE  /\ In(Append(q, x)) <=> In(q) \/ x.internal
         /\ Once(q) /\ ~(x.internal /\ In(q)) => Once(Append(q, x))
         /\ \A i \in 1..Len(Append(q, x)) :
               Append(q, x)[i] = x \/ \E j \in 1..Len(q) : Append(q, x)[i] = q[j]
<1> DEFINE r == Append(q, x)
<1>1. Len(q) \in Nat /\ Len(r) = Len(q) + 1 /\ r[Len(q) + 1] = x
  OBVIOUS
<1>2. \A i \in 1..Len(q) : i \in 1..Len(r) /\ r[i] = q[i]
  OBVIOUS
<1>3. \A i \in 1..Len(r) : i = Len(q) + 1 \/ i \in 1..Len(q)
  BY <1>1
<1> HIDE DEF r
<1>4. In(r) <=> In(q) \/ x.internal
  <2>1. In(q) => In(r)
    BY <1>2 DEF In
  <2>2. x.internal => In(r)
    <3>1. Len(q) + 1 \in 1..Len(r)
      BY <1>1
    <3> QED BY <1>1, <3>1 DEF In
  <2>3. In(r) => In(q) \/ x.internal
    BY <1>1, <1>2, <1>3 DEF In
  <2> QED BY <2>1, <2>2, <2>3
<1>5. ASSUME Once(q), ~(x.internal /\ In(q))
      PROVE  Once(r)
  BY <1>1, <1>2, <1>3, <1>5 DEF Once, In
<1> QED BY <1>1, <1>2, <1>3, <1>4, <1>5 DEF r

LEMMA TailKeeps ==
  ASSUME NEW S, NEW q \in Seq(S), q # <<>>
  PROVE  /\ In(q) <=> In(Tail(q)) \/ Head(q).internal
         /\ Once(q) => Once(Tail(q))
         /\ Once(q) /\ Head(q).internal => ~In(Tail(q))
         /\ \A i \in 1..Len(Tail(q)) : \E j \in 1..Len(q) : Tail(q)[i] = q[j]
         /\ \E j \in 1..Len(q) : Head(q) = q[j]
<1> DEFINE r == Tail(q)
<1>1. Len(q) \in Nat /\ Len(q) > 0 /\ Len(r) = Len(q) - 1 /\ Head(q) = q[1]
  OBVIOUS
<1>2. \A i \in 1..Len(r) : i + 1 \in 1..Len(q) /\ i + 1 # 1 /\ r[i] = q[i + 1]
  OBVIOUS
<1>3. ASSUME NEW i \in 1..Len(q), i # 1
      PROVE  \E j \in 1..Len(r) : r[j] = q[i]
  <2>1. i - 1 \in 1..Len(r) /\ r[i - 1] = q[(i - 1) + 1]
    BY <1>1, <1>2, <1>3
  <2>2. r[i - 1] = q[i]
    BY <2>1
  <2> QED BY <2>1, <2>2
<1> HIDE DEF r
<1>4. 1 \in 1..Len(q)
  BY <1>1
<1>5. In(q) <=> In(r) \/ Head(q).internal
  BY <1>1, <1>2, <1>3, <1>4 DEF In
<1>6. ASSUME Once(q)
      PROVE  Once(r)
  <2>1. ASSUME NEW i \in 1..Len(r), NEW k \in 1..Len(r), r[i].internal, r[k].internal
        PROVE  i = k
    <3>1. i + 1 = k + 1
      BY <1>2, <1>6, <2>1 DEF Once
    <3> QED BY <3>1
  <2> QED BY <2>1 DEF Once
<1>7. Once(q) /\ Head(q).internal => ~In(r)
  BY <1>1, <1>2, <1>4 DEF Once, In
<1> QED BY <1>1, <1>2, <1>4, <1>5, <1>6, <1>7 DEF r

LEMMA NoneIn == ~In(<<>>) /\ Once(<<>>)
BY DEF In, Once

(***************************************************************************)
(* The routing.                                                            *)
(***************************************************************************)
Routed == LibraryInStep /\ InOnePlace /\ AllAwaited /\ ToOrigin
Live == hpc \in {"resetWake", "fwCfg", "open"}

\* The library waits for nothing: none of its commands is anywhere.
LEMMA NothingAwaited ==
  ASSUME Typed, AllAwaited, internalCommands = <<>>
  PROVE  ~SendingIt /\ ~In(toController) /\ ~In(fromController)
<1>1. ~SendingIt
  BY DEF AllAwaited, Awaited, SendingIt, Sending
<1>2. ~In(toController)
  BY DEF AllAwaited, Awaited, In
<1>3. ~In(fromController)
  BY DEF AllAwaited, Awaited, In
<1> QED BY <1>1, <1>2, <1>3

\* What waits for the library stays as it is.
LEMMA SameRouting ==
  ASSUME Routed,
         UNCHANGED <<initPending, internalCommands, sendPc, sendCmd, toController, fromController,
                     callback, event, forwarded, consumed>>,
         hpc' # "open" => hpc # "open",
         \A w \in {"callback", "enableLpm", "startWatchdog"} : wpc' = w => wpc = w
  PROVE  Routed'
<1>1. LibraryInStep'
  BY DEF Routed, LibraryInStep, IsStep
<1>2. InOnePlace'
  BY DEF Routed, InOnePlace, SendingIt, Sending
<1>3. AllAwaited'
  BY DEF Routed, AllAwaited, Awaited
<1>4. ToOrigin'
  BY DEF Routed, ToOrigin
<1> QED BY <1>1, <1>2, <1>3, <1>4 DEF Routed

LEMMA HidlRouting ==
  ASSUME WakeInv, Routing, HidlSteps \/ Close \/ \E op \in StackOpcodes : StackSends(op)
  PROVE  Routing'
<1>t. Typed
  BY DEF WakeInv
<1>1. CASE Open \/ OpenFails
  <2>1. CASE OpenFails
    BY <2>1 DEF OpenFails, Routing
  <2>2. CASE Open
    <3>1. hpc = "closed" /\ wpc = "down" /\ Fresh /\ hpc' = "resetWake" /\ wpc' = "select"
          /\ initPending' = TRUE
          /\ UNCHANGED <<internalCommands, sendPc, toController, fromController,
                         event, forwarded, consumed>>
      BY <1>t, <2>2 DEF Open, Routing, Typed, TypeOK, sendVars, lineVars, eventVars
    <3>2. \A t \in Threads : sendPc'[t] = "none"
      BY <1>t, <3>1 DEF Typed, SendsWhenUp, Idle
    <3>3. LibraryInStep'
      BY <3>1, <3>2 DEF Fresh, LibraryInStep
    <3>4. InOnePlace'
      BY <3>1, <3>2, NoneIn DEF Fresh, InOnePlace, SendingIt, Sending
    <3>5. AllAwaited'
      BY <3>1, <3>2 DEF Fresh, AllAwaited
    <3>6. ToOrigin'
      BY <3>1 DEF Fresh, ToOrigin, NotForwarded, NoEvent
    <3> QED BY <3>1, <3>3, <3>4, <3>5, <3>6 DEF Routing
  <2> QED BY <1>1, <2>1, <2>2
<1>2. CASE ResetWake
  <2>1. Routed /\ hpc = "resetWake" /\ hpc' = "fwCfg"
    BY <1>2 DEF ResetWake, Routing, Routed
  <2>2. Routed'
    BY <1>2, <2>1, SameRouting DEF ResetWake, sendVars, lineVars, eventVars, initVars
  <2> QED BY <2>1, <2>2 DEF Routing, Routed
<1>3. CASE StartFwCfg
  <2>1. /\ Routed /\ hpc = "fwCfg" /\ hpc' = "open" /\ "hidl" \in Threads
        /\ BeginTransmit("hidl", FwStep(1)) /\ FwStep(1) \in Steps
        /\ UNCHANGED <<wpc, internalCommands, toController, fromController, callback, event,
                       forwarded, consumed, initPending>>
    BY <1>3, StepsTyped DEF StartFwCfg, Routing, Routed, Threads, lineVars, eventVars, initVars
  <2>2. /\ initPending /\ internalCommands = <<>>
        /\ wpc \notin {"callback", "enableLpm", "startWatchdog"}
        /\ \A t \in Threads : sendPc[t] = "none"
    BY <1>t, <2>1 DEF Routed, LibraryInStep, Typed, SendsWhenUp, Idle
  <2>3. /\ sendPc'["hidl"] = "push" /\ sendCmd'["hidl"].internal
        /\ sendCmd'["hidl"].cb = 1 /\ sendCmd'["hidl"].opcode = FwOpcodes[1]
        /\ \A u \in Threads : u # "hidl" => sendPc'[u] = "none"
    BY <1>t, <2>1, <2>2, TransmitTyped, StepsTyped
  <2>4. LibraryInStep'
    <3>1. IsStep(sendCmd["hidl"])'
      BY <2>1, <2>2, <2>3, StepsTyped DEF IsStep
    <3> QED BY <2>1, <2>2, <2>3, <3>1 DEF LibraryInStep
  <2>5. ~SendingIt /\ ~In(toController) /\ ~In(fromController)
    BY <1>t, <2>1, <2>2, NothingAwaited DEF Routed
  <2>6. InOnePlace'
    BY <2>1, <2>3, <2>5 DEF InOnePlace, SendingIt, Sending, Routed
  <2>7. AllAwaited'
    BY <2>1, <2>3 DEF AllAwaited, Awaited, Routed
  <2>8. ToOrigin'
    BY <2>1 DEF ToOrigin, Routed
  <2> QED BY <2>1, <2>4, <2>6, <2>7, <2>8 DEF Routing
<1>4. CASE StopWatching \/ Close
  BY <1>4 DEF StopWatching, Close, Routing
<1>5. CASE CleanUp
  BY <1>5 DEF CleanUp, Forget, Routing, Fresh
<1>6. ASSUME NEW op \in StackOpcodes, StackSends(op)
      PROVE  Routing'
  <2>1. /\ Routed /\ hpc = "open" /\ hpc' = "open" /\ ~initPending /\ sendPc["hidl"] = "none"
        /\ UNCHANGED <<wpc, internalCommands, toController, fromController, callback, event,
                       forwarded, consumed, initPending>>
    BY <1>6 DEF StackSends, Routing, Routed, Idle, lineVars, eventVars, initVars
  <2>2. /\ sendPc'["hidl"] = "lock" /\ sendCmd'["hidl"].internal = FALSE
        /\ sendCmd'["hidl"].opcode = op
        /\ \A u \in Threads : u # "hidl" => sendPc'[u] = sendPc[u] /\ sendCmd'[u] = sendCmd[u]
    BY <1>t, <1>6 DEF StackSends, Typed, Threads
  <2>3. LibraryInStep'
    BY <2>1, <2>2 DEF LibraryInStep, IsStep, Routed
  <2>4. \A t \in Threads : Sending(t)' => Sending(t)
    BY <2>2 DEF Sending
  <2>5. InOnePlace'
    BY <2>1, <2>4 DEF InOnePlace, SendingIt, Routed
  <2>6. AllAwaited'
    BY <2>1, <2>2 DEF AllAwaited, Awaited, Routed
  <2>7. ToOrigin'
    BY <2>1 DEF ToOrigin, Routed
  <2> QED BY <2>1, <2>3, <2>5, <2>6, <2>7 DEF Routing
<1> QED BY <1>1, <1>2, <1>3, <1>4, <1>5, <1>6 DEF HidlSteps

LEMMA SendRouting ==
  ASSUME WakeInv, Live, Routed, NEW t \in Threads, SendSteps(t)
  PROVE  Routed'
<1>t. Typed /\ t \in DOMAIN sendPc /\ t \in DOMAIN sendCmd
  BY DEF WakeInv, Typed
<1>1. CASE Push(t)
  <2>1. /\ sendPc[t] = "push" /\ internalCommands = <<>> /\ IsStep(sendCmd[t])
        /\ sendCmd[t].internal /\ wpc \notin {"callback", "enableLpm"}
        /\ \A u \in Threads : sendPc[u] = "push" => u = t
    BY <1>1 DEF Push, Routed, LibraryInStep
  <2>2. /\ internalCommands' = <<[opcode |-> sendCmd[t].opcode, cb |-> sendCmd[t].cb]>>
        /\ sendPc' = [sendPc EXCEPT ![t] = "lock"]
        /\ UNCHANGED <<hpc, wpc, sendCmd, toController, fromController, callback, event,
                       forwarded, consumed, initPending>>
    BY <1>1, <2>1 DEF Push, lineVars, eventVars, initVars
  <2>3. ~SendingIt /\ ~In(toController) /\ ~In(fromController)
    BY <1>t, <2>1, NothingAwaited DEF Routed
  <2>4. /\ Len(internalCommands') = 1 /\ internalCommands' # <<>>
        /\ Head(internalCommands').opcode = sendCmd[t].opcode
        /\ Head(internalCommands').cb = sendCmd[t].cb
    BY <2>2
  <2>5. sendPc'[t] = "lock" /\ \A u \in Threads : u # t => sendPc'[u] = sendPc[u]
    BY <1>t, <2>2
  <2>6. LibraryInStep'
    <3>1. IsStep(Head(internalCommands))'
      BY <2>1, <2>2, <2>4 DEF IsStep
    <3> QED BY <2>1, <2>2, <2>4, <2>5, <3>1 DEF Routed, LibraryInStep
  <2>7. \A u \in Threads : Sending(u)' => u = t
    BY <2>2, <2>3, <2>5 DEF Sending, SendingIt
  <2>8. InOnePlace'
    BY <2>2, <2>3, <2>7 DEF InOnePlace, Routed
  <2>9. AllAwaited'
    <3>1. \A i \in 1..Len(toController) : Awaited(toController[i])'
      BY <2>2, <2>3 DEF Routed, AllAwaited, Awaited, In
    <3>2. \A i \in 1..Len(fromController) :
             IF fromController[i].code = "complete" THEN Awaited(fromController[i])'
                                                    ELSE ~fromController[i].internal
      BY <2>2, <2>3 DEF Routed, AllAwaited, Awaited, In
    <3>3. \A u \in Threads : sendPc'[u] \in {"lock", "write"} => Awaited(sendCmd[u])'
      BY <2>1, <2>2, <2>3, <2>4, <2>5 DEF Routed, AllAwaited, Awaited, SendingIt, Sending
    <3> QED BY <2>2, <3>1, <3>2, <3>3 DEF AllAwaited
  <2> QED BY <2>2, <2>6, <2>8, <2>9 DEF Routed, ToOrigin
<1>2. CASE SendLocked(t)
  <2>1. /\ sendPc[t] = "lock" /\ sendPc'[t] = "write"
        /\ \A u \in Threads : u # t => sendPc'[u] = sendPc[u]
        /\ UNCHANGED <<hpc, wpc, sendCmd, internalCommands, toController, fromController, callback,
                       event, forwarded, consumed, initPending>>
    BY <1>t, <1>2 DEF SendLocked, lineVars, eventVars, initVars
  <2>2. LibraryInStep'
    BY <2>1 DEF Routed, LibraryInStep, IsStep
  <2>3. \A u \in Threads : Sending(u)' = Sending(u)
    BY <2>1 DEF Sending
  <2>4. InOnePlace'
    BY <2>1, <2>3 DEF Routed, InOnePlace, SendingIt
  <2>5. AllAwaited'
    BY <2>1 DEF Routed, AllAwaited, Awaited
  <2> QED BY <2>1, <2>2, <2>4, <2>5 DEF Routed, ToOrigin
<1>3. CASE SendWrites(t)
  <2> DEFINE x == [opcode |-> sendCmd[t].opcode, internal |-> sendCmd[t].internal]
  <2>1. /\ sendPc[t] = "write" /\ sendPc'[t] = "none"
        /\ \A u \in Threads : u # t => sendPc'[u] = sendPc[u] /\ sendCmd'[u] = sendCmd[u]
        /\ toController' = Append(toController, x)
        /\ UNCHANGED <<hpc, wpc, internalCommands, fromController, callback, event, forwarded,
                       consumed, initPending>>
    BY <1>t, <1>3 DEF SendWrites, eventVars, initVars
  <2>2. /\ toController \in Seq(Written) /\ x \in Written
        /\ x.internal = sendCmd[t].internal /\ x.opcode = sendCmd[t].opcode
    <3>1. sendCmd[t] \in Sends
      BY <1>t DEF Typed
    <3> QED BY <1>t, <3>1 DEF Typed, Sends, Written
  <2> HIDE DEF x
  <2>3. LibraryInStep'
    BY <2>1 DEF Routed, LibraryInStep, IsStep
  <2>4. x.internal => Sending(t)
    BY <2>1, <2>2 DEF Sending
  <2>5. \A u \in Threads : Sending(u)' => Sending(u) /\ u # t
    BY <2>1 DEF Sending
  <2>6. /\ In(toController') <=> In(toController) \/ x.internal
        /\ Once(toController) /\ ~(x.internal /\ In(toController)) => Once(toController')
        /\ \A i \in 1..Len(toController') :
              toController'[i] = x \/ \E j \in 1..Len(toController) : toController'[i] = toController[j]
    BY <2>1, <2>2, AppendKeeps
  <2>7. InOnePlace'
    BY <2>1, <2>4, <2>5, <2>6 DEF Routed, InOnePlace, SendingIt
  <2>8. AllAwaited'
    <3>1. \A y : Awaited(y)' = Awaited(y)
      BY <2>1 DEF Awaited
    <3>2. Awaited(x)
      BY <2>1, <2>2 DEF Routed, AllAwaited, Awaited
    <3>3. \A i \in 1..Len(toController') : Awaited(toController'[i])
      BY <2>6, <3>2 DEF Routed, AllAwaited
    <3>4. \A u \in Threads : sendPc'[u] \in {"lock", "write"} => Awaited(sendCmd'[u])
      BY <2>1 DEF Routed, AllAwaited
    <3> QED BY <2>1, <3>1, <3>3, <3>4 DEF Routed, AllAwaited
  <2> QED BY <2>1, <2>3, <2>7, <2>8 DEF Routed, ToOrigin
<1> QED BY <1>1, <1>2, <1>3 DEF SendSteps


\* The library pushes nothing else, and none of its commands is anywhere: it may push.
LEMMA TransmitRouting ==
  ASSUME WakeInv, Routed, hpc = "open", wpc \in {"callback", "enableLpm"},
         NEW s \in Steps, IsStep(s), BeginTransmit("watcher", s),
         wpc' \in {"select", "startWatchdog"},
         wpc' = "startWatchdog" => ~initPending,
         UNCHANGED <<hpc, internalCommands, toController, fromController, callback, event,
                     forwarded, consumed, initPending>>
  PROVE  Routed'
<1>t. Typed /\ "watcher" \in Threads
  BY DEF WakeInv, Threads
<1>1. internalCommands = <<>> /\ \A t \in Threads : sendPc[t] # "push"
  BY DEF Routed, LibraryInStep
<1>2. ~SendingIt /\ ~In(toController) /\ ~In(fromController)
  BY <1>t, <1>1, NothingAwaited DEF Routed
<1>3. /\ sendPc'["watcher"] = "push" /\ sendCmd'["watcher"].internal
      /\ sendCmd'["watcher"].cb = s.cb /\ sendCmd'["watcher"].opcode = s.opcode
      /\ \A u \in Threads : u # "watcher" => sendPc'[u] = sendPc[u] /\ sendCmd'[u] = sendCmd[u]
  BY <1>t, TransmitTyped
<1>4. LibraryInStep'
  <2>1. IsStep(sendCmd["watcher"])'
    BY <1>3 DEF IsStep
  <2> QED BY <1>1, <1>3, <2>1 DEF LibraryInStep
<1>5. InOnePlace'
  BY <1>2, <1>3 DEF InOnePlace, SendingIt, Sending, Routed
<1>6. AllAwaited'
  BY <1>3 DEF AllAwaited, Awaited, Routed
<1> QED BY <1>4, <1>5, <1>6 DEF Routed, ToOrigin

LEMMA WatcherRouting ==
  ASSUME WakeInv, Live, Routed, WatcherSteps \/ TimerFires \/ ScoConfigured \/ ScoWakesByChance
  PROVE  Routed'
<1>t. Typed
  BY DEF WakeInv
<1>o. wpc \in {"callback", "enableLpm", "startWatchdog"} \/ internalCommands # <<>> => hpc = "open"
  BY <1>t DEF Typed, SendsWhenUp, Live
<1>1. CASE ReadInternal
  <2> DEFINE e == Head(fromController)
             c == Head(internalCommands)
  <2>1. /\ fromController # <<>> /\ Matches(e) /\ fromController' = Tail(fromController)
        /\ internalCommands' = Tail(internalCommands) /\ callback' = c.cb /\ consumed' = e
        /\ wpc' = "callback"
        /\ UNCHANGED <<hpc, sendPc, sendCmd, toController, event, forwarded, initPending>>
    BY <1>1 DEF ReadInternal, AfterPop, sendVars, initVars
  <2>2. /\ internalCommands # <<>> /\ e.code = "complete" /\ e.opcode = c.opcode
        /\ internalCommands \in Seq(Steps) /\ Len(internalCommands) <= 1 /\ hpc = "open"
    BY <1>t, <1>o, <2>1 DEF Matches, Typed, Routed, LibraryInStep
  <2>3. internalCommands' = <<>>
    BY <2>1, <2>2
  <2>4. IsStep(c) /\ \A t \in Threads : sendPc[t] # "push"
    BY <2>2 DEF Routed, LibraryInStep
  <2>5. /\ In(fromController) <=> In(fromController') \/ e.internal
        /\ Once(fromController) => Once(fromController')
        /\ Once(fromController) /\ e.internal => ~In(fromController')
        /\ \A i \in 1..Len(fromController') :
              \E k \in 1..Len(fromController) : fromController'[i] = fromController[k]
        /\ \E k \in 1..Len(fromController) : e = fromController[k]
    BY <1>t, <2>1, TailKeeps DEF Typed
  <2>6. e.internal
    <3>1. Awaited(e)
      BY <2>2, <2>5 DEF Routed, AllAwaited
    <3>2. ASSUME ~e.internal
          PROVE  FALSE
      <4>1. ~initPending /\ e.opcode \in StackOpcodes
        BY <3>1, <3>2 DEF Awaited
      <4>2. c.opcode = LpmOpcode
        BY <2>4, <4>1 DEF IsStep
      <4> QED BY <2>2, <4>1, <4>2, OpcodeAssumption
    <3> QED BY <3>2
  <2>7. ~In(fromController') /\ ~In(toController) /\ ~SendingIt
    BY <2>5, <2>6 DEF Routed, InOnePlace
  <2>8. LibraryInStep'
    <3>1. c.cb # 0 <=> initPending
      BY <2>4 DEF IsStep
    <3> QED BY <2>1, <2>2, <2>3, <2>4, <3>1 DEF LibraryInStep
  <2>9. InOnePlace'
    BY <2>1, <2>5, <2>7 DEF Routed, InOnePlace, SendingIt, Sending
  <2>10. AllAwaited'
    <3>1. \A y : ~y.internal /\ Awaited(y) => Awaited(y)'
      BY <2>1 DEF Awaited
    <3>2. \A u \in Threads : sendPc'[u] \in {"lock", "write"} => Awaited(sendCmd[u])'
      BY <2>1, <2>7, <3>1 DEF Routed, AllAwaited, SendingIt, Sending
    <3>3. \A i \in 1..Len(toController) : Awaited(toController[i])'
      BY <2>1, <2>7, <3>1 DEF Routed, AllAwaited, In
    <3>4. \A i \in 1..Len(fromController') :
             IF fromController'[i].code = "complete" THEN Awaited(fromController[i])'
                                                     ELSE ~fromController'[i].internal
      <4>1. ASSUME NEW i \in 1..Len(fromController')
            PROVE  IF fromController'[i].code = "complete" THEN Awaited(fromController[i])'
                                                           ELSE ~fromController'[i].internal
        <5>1. PICK k \in 1..Len(fromController) : fromController'[i] = fromController[k]
          BY <2>5
        <5>2. ~fromController'[i].internal
          BY <2>7 DEF In
        <5>3. fromController'[i].code = "complete" => Awaited(fromController'[i])
          BY <5>1 DEF Routed, AllAwaited
        <5>4. fromController'[i].code = "complete" => Awaited(fromController[i])'
          BY <2>1, <5>2, <5>3 DEF Awaited
        <5> QED BY <5>2, <5>4
      <4> QED BY <4>1
    <3> QED BY <2>1, <3>2, <3>3, <3>4 DEF AllAwaited
  <2>11. ToOrigin'
    BY <2>1, <2>6 DEF Routed, ToOrigin
  <2> QED BY <2>8, <2>9, <2>10, <2>11 DEF Routed
<1>2. CASE ReadEvent
  <2> DEFINE e == Head(fromController)
  <2>1. /\ fromController # <<>> /\ ~Matches(e) /\ fromController' = Tail(fromController)
        /\ event' = e /\ wpc' \in {"scoCfg", "forward"}
        /\ UNCHANGED <<hpc, internalCommands, sendPc, sendCmd, toController, callback, forwarded,
                       consumed, initPending>>
    BY <1>2 DEF ReadEvent, sendVars, initVars
  <2>2. /\ In(fromController) <=> In(fromController') \/ e.internal
        /\ Once(fromController) => Once(fromController')
        /\ \A i \in 1..Len(fromController') :
              \E k \in 1..Len(fromController) : fromController'[i] = fromController[k]
        /\ \E k \in 1..Len(fromController) : e = fromController[k]
    BY <1>t, <2>1, TailKeeps DEF Typed
  <2>3. ~e.internal
    <3>1. IF e.code = "complete" THEN Awaited(e) ELSE ~e.internal
      BY <2>2 DEF Routed, AllAwaited
    <3> QED BY <2>1, <3>1 DEF Awaited, Matches
  <2>4. LibraryInStep'
    BY <2>1 DEF Routed, LibraryInStep, IsStep
  <2>5. InOnePlace'
    BY <2>1, <2>2 DEF Routed, InOnePlace, SendingIt, Sending
  <2>6. AllAwaited'
    <3>1. \A y : Awaited(y)' = Awaited(y)
      BY <2>1 DEF Awaited
    <3> QED BY <2>1, <2>2, <3>1 DEF Routed, AllAwaited
  <2> QED BY <2>1, <2>3, <2>4, <2>5, <2>6 DEF Routed, ToOrigin
<1>3. CASE Forward
  <2>1. /\ wpc = "forward" /\ wpc' = "select" /\ forwarded'.event = event /\ ~event'.internal
        /\ UNCHANGED <<hpc, internalCommands, sendPc, sendCmd, toController, fromController,
                       callback, consumed, initPending>>
    BY <1>3 DEF Forward, NoEvent, sendVars, lineVars, initVars
  <2>2. LibraryInStep'
    BY <2>1 DEF Routed, LibraryInStep, IsStep
  <2>3. InOnePlace'
    BY <2>1 DEF Routed, InOnePlace, SendingIt, Sending
  <2>4. AllAwaited'
    BY <2>1 DEF Routed, AllAwaited, Awaited
  <2> QED BY <2>1, <2>2, <2>3, <2>4 DEF Routed, ToOrigin
<1>4. CASE LibraryContinues
  <2>1. wpc = "callback" /\ callback # 0 /\ NextFwStep(callback) # 0 /\ hpc = "open" /\ initPending
        /\ callback \in 0..Len(FwOpcodes)
    BY <1>t, <1>4, <1>o DEF LibraryContinues, Routed, LibraryInStep, Typed
  <2>2. NextFwStep(callback) \in 1..Len(FwOpcodes)
    BY <2>1, StepsTyped, LibraryAssumption DEF NextFwStep
  <2>3. PICK s \in Steps : s = FwStep(NextFwStep(callback)) /\ IsStep(s)
    BY <2>1, <2>2, StepsTyped DEF IsStep
  <2>4. /\ BeginTransmit("watcher", s) /\ wpc' = "select"
        /\ UNCHANGED <<hpc, internalCommands, toController, fromController, callback, event,
                       forwarded, consumed, initPending>>
    BY <1>4, <2>3 DEF LibraryContinues, lineVars, eventVars, initVars
  <2> QED BY <2>1, <2>3, <2>4, TransmitRouting
<1>5. CASE OnFirmwareConfigured
  <2>1. /\ wpc = "callback" /\ initPending' = FALSE /\ wpc' = "enableLpm" /\ hpc = "open"
        /\ UNCHANGED <<hpc, internalCommands, sendPc, sendCmd, toController, fromController,
                       callback, event, forwarded, consumed>>
    BY <1>5, <1>o DEF OnFirmwareConfigured, sendVars, lineVars, eventVars
  <2>2. internalCommands = <<>> /\ \A t \in Threads : sendPc[t] # "push"
    BY <2>1 DEF Routed, LibraryInStep
  <2>3. LibraryInStep'
    BY <2>1, <2>2 DEF LibraryInStep
  <2>4. InOnePlace'
    BY <2>1 DEF Routed, InOnePlace, SendingIt, Sending
  <2>5. AllAwaited'
    <3>1. \A y : Awaited(y) => Awaited(y)'
      BY <2>1 DEF Awaited
    <3> QED BY <2>1, <3>1 DEF Routed, AllAwaited
  <2> QED BY <2>1, <2>3, <2>4, <2>5 DEF Routed, ToOrigin
<1>6. CASE EnableLpm
  <2>1. wpc = "enableLpm" /\ wpc' = "startWatchdog" /\ hpc = "open" /\ ~initPending
        /\ UNCHANGED <<hpc, internalCommands, toController, fromController, callback, event,
                       forwarded, consumed, initPending>>
    BY <1>6, <1>o DEF EnableLpm, Routed, LibraryInStep, lineVars, eventVars, initVars
  <2>2. CASE LpmTransmits
    <3>1. LpmStep \in Steps /\ IsStep(LpmStep) /\ BeginTransmit("watcher", LpmStep)
      BY <1>6, <2>1, <2>2, StepsTyped DEF EnableLpm, IsStep
    <3> QED BY <2>1, <3>1, TransmitRouting
  <2>3. CASE ~LpmTransmits
    <3>1. UNCHANGED <<sendPc, sendCmd>>
      BY <1>6, <2>3 DEF EnableLpm
    <3>2. LibraryInStep'
      BY <2>1, <3>1 DEF Routed, LibraryInStep, IsStep
    <3>3. InOnePlace'
      BY <2>1, <3>1 DEF Routed, InOnePlace, SendingIt, Sending
    <3>4. AllAwaited'
      BY <2>1, <3>1 DEF Routed, AllAwaited, Awaited
    <3> QED BY <2>1, <3>2, <3>3, <3>4 DEF Routed, ToOrigin
  <2> QED BY <2>2, <2>3
<1>7. CASE \/ ConfigureSco \/ LibraryIsDone \/ StartWatchdog \/ OnTimeout
           \/ TimerFires \/ ScoConfigured \/ ScoWakesByChance
  <2>1. /\ UNCHANGED <<hpc, initPending, internalCommands, sendPc, sendCmd, toController,
                       fromController, callback, event, forwarded, consumed>>
        /\ wpc' \notin {"callback", "enableLpm", "startWatchdog"}
    BY <1>7 DEF ConfigureSco, LibraryIsDone, StartWatchdog, OnTimeout, TimerFires, ScoConfigured,
                ScoWakesByChance, sendVars, lineVars, eventVars, initVars
  <2> QED BY <2>1, SameRouting
<1> QED BY <1>1, <1>2, <1>3, <1>4, <1>5, <1>6, <1>7 DEF WatcherSteps

LEMMA ControllerRouting ==
  ASSUME WakeInv, Live, Routed, ControllerSteps
  PROVE  Routed'
<1>t. Typed
  BY DEF WakeInv
<1>1. CASE ControllerAnswers
  <2> DEFINE c == Head(toController)
             e == [code |-> "complete", opcode |-> c.opcode, internal |-> c.internal]
  <2>1. /\ toController # <<>> /\ toController' = Tail(toController)
        /\ fromController' = Append(fromController, e)
        /\ UNCHANGED <<hpc, wpc, internalCommands, sendPc, sendCmd, callback, event, forwarded,
                       consumed, initPending>>
    BY <1>1 DEF ControllerAnswers, sendVars, eventVars, initVars
  <2>2. e \in Events /\ e.code = "complete" /\ e.opcode = c.opcode /\ e.internal = c.internal
    <3>1. c \in Written
      BY <1>t, <2>1 DEF Typed
    <3> QED BY <3>1 DEF Written, Events
  <2>3. /\ In(toController) <=> In(toController') \/ c.internal
        /\ Once(toController) => Once(toController')
        /\ Once(toController) /\ c.internal => ~In(toController')
        /\ \A i \in 1..Len(toController') :
              \E k \in 1..Len(toController) : toController'[i] = toController[k]
        /\ \E k \in 1..Len(toController) : c = toController[k]
    BY <1>t, <2>1, TailKeeps DEF Typed
  <2> HIDE DEF e, c
  <2>4. /\ In(fromController') <=> In(fromController) \/ e.internal
        /\ Once(fromController) /\ ~(e.internal /\ In(fromController)) => Once(fromController')
        /\ \A i \in 1..Len(fromController') :
              \/ fromController'[i] = e
              \/ \E k \in 1..Len(fromController) : fromController'[i] = fromController[k]
    BY <1>t, <2>1, <2>2, AppendKeeps DEF Typed
  <2>5. LibraryInStep'
    BY <2>1 DEF Routed, LibraryInStep, IsStep
  <2>6. SendingIt' = SendingIt /\ \A t \in Threads : Sending(t)' = Sending(t)
    BY <2>1 DEF SendingIt, Sending
  <2>7. InOnePlace'
    BY <2>2, <2>3, <2>4, <2>6 DEF Routed, InOnePlace
  <2>8. AllAwaited'
    <3>1. \A y : Awaited(y)' = Awaited(y)
      BY <2>1 DEF Awaited
    <3>2. Awaited(e)
      BY <2>2, <2>3 DEF Routed, AllAwaited, Awaited
    <3>3. \A i \in 1..Len(toController') : Awaited(toController'[i])
      BY <2>3 DEF Routed, AllAwaited
    <3>4. \A i \in 1..Len(fromController') :
             IF fromController'[i].code = "complete" THEN Awaited(fromController'[i])
                                                     ELSE ~fromController'[i].internal
      BY <2>2, <2>4, <3>2 DEF Routed, AllAwaited
    <3> QED BY <2>1, <3>1, <3>3, <3>4 DEF Routed, AllAwaited
  <2> QED BY <2>1, <2>5, <2>7, <2>8 DEF Routed, ToOrigin
<1>2. ASSUME NEW code \in {"sco", "other"}, NEW bytes \in Opcodes, ControllerSends(code, bytes)
      PROVE  Routed'
  <2> DEFINE e == [code |-> code, opcode |-> bytes, internal |-> FALSE]
  <2>1. /\ fromController' = Append(fromController, e)
        /\ UNCHANGED <<hpc, wpc, internalCommands, sendPc, sendCmd, toController, callback, event,
                       forwarded, consumed, initPending>>
    BY <1>2 DEF ControllerSends, sendVars, eventVars, initVars
  <2>2. e \in Events /\ e.code # "complete" /\ e.internal = FALSE
    <3>1. \A k \in 1..Len(FwOpcodes) : FwOpcodes[k] \in STRING
      BY LibraryAssumption
    <3>2. bytes \in Ops
      BY <3>1 DEF Opcodes, Ops
    <3> QED BY <3>2 DEF Events
  <2> HIDE DEF e
  <2>3. /\ In(fromController') <=> In(fromController) \/ e.internal
        /\ Once(fromController) /\ ~(e.internal /\ In(fromController)) => Once(fromController')
        /\ \A i \in 1..Len(fromController') :
              \/ fromController'[i] = e
              \/ \E k \in 1..Len(fromController) : fromController'[i] = fromController[k]
    BY <1>t, <2>1, <2>2, AppendKeeps DEF Typed
  <2>4. LibraryInStep'
    BY <2>1 DEF Routed, LibraryInStep, IsStep
  <2>5. SendingIt' = SendingIt /\ \A t \in Threads : Sending(t)' = Sending(t)
    BY <2>1 DEF SendingIt, Sending
  <2>6. InOnePlace'
    BY <2>1, <2>2, <2>3, <2>5 DEF Routed, InOnePlace
  <2>7. AllAwaited'
    <3>1. \A y : Awaited(y)' = Awaited(y)
      BY <2>1 DEF Awaited
    <3>2. \A i \in 1..Len(fromController') :
             IF fromController'[i].code = "complete" THEN Awaited(fromController'[i])
                                                     ELSE ~fromController'[i].internal
      BY <2>2, <2>3 DEF Routed, AllAwaited
    <3> QED BY <2>1, <3>1, <3>2 DEF Routed, AllAwaited
  <2> QED BY <2>1, <2>4, <2>6, <2>7 DEF Routed, ToOrigin
<1> QED BY <1>1, <1>2 DEF ControllerSteps

LEMMA RoutingKept == WakeInv /\ Routing /\ [Next]_vars => Routing'
<1> SUFFICES ASSUME WakeInv, Routing, [Next]_vars PROVE Routing'
  OBVIOUS
<1>1. CASE HidlSteps \/ Close \/ \E op \in StackOpcodes : StackSends(op)
  BY <1>1, HidlRouting
<1>2. CASE \/ \E t \in Threads : SendSteps(t)
           \/ WatcherSteps \/ TimerFires \/ ScoConfigured \/ ScoWakesByChance
           \/ ControllerSteps
  <2>1. hpc' = hpc
    BY <1>2 DEF SendSteps, Push, SendLocked, SendWrites, WatcherSteps, ReadInternal, ReadEvent,
       ConfigureSco, Forward, LibraryContinues, LibraryIsDone, OnFirmwareConfigured, EnableLpm,
       StartWatchdog, OnTimeout, TimerFires, ScoConfigured, ScoWakesByChance, ControllerSteps,
       ControllerAnswers, ControllerSends
  <2>2. hpc # "closed"
    BY <1>2 DEF WakeInv, Typed, TypeOK, SendsWhenUp, Idle, SendSteps, Push, SendLocked, SendWrites,
       WatcherSteps, ReadInternal, ReadEvent, Selecting, ConfigureSco, Forward, LibraryContinues,
       LibraryIsDone, OnFirmwareConfigured, EnableLpm, StartWatchdog, OnTimeout, TimerFires,
       ScoConfigured, ScoWakesByChance, ControllerSteps, ControllerAnswers, ControllerSends
  <2>3. Live => Routed
    BY DEF Live, Routing, Routed
  <2>4. Live => Routed'
    BY <1>2, <2>3, SendRouting, WatcherRouting, ControllerRouting
  <2> QED BY <2>1, <2>2, <2>4 DEF Live, Routing, Routed
<1>3. CASE UNCHANGED vars
  <2>1. UNCHANGED <<hpc, wpc, initPending, internalCommands, sendPc, sendCmd, toController,
                    fromController, callback, event, forwarded, consumed>>
    BY <1>3 DEF vars, sendVars, lineVars, eventVars, initVars
  <2>2. Routed => Routed'
    BY <2>1, SameRouting
  <2> QED BY <2>1, <2>2 DEF Routing, Fresh, Routed
<1> QED BY <1>1, <1>2, <1>3, NextCases

\* Until Close an answer goes to who asked, though the library and the client use some of
\* the same commands: they do so in turns, and the command the library sends beside the
\* client's, that of LPM, is its own.
THEOREM AnswersRouted == Spec => []RoutedToOrigin
<1>1. Init => IInv
  <2>1. Init => Typed
    BY InitTyped
  <2>2. Init => WakeInv
    BY <2>1 DEF Init, WakeInv, WakeAgrees, WakeAssertedOnWrite, Threads
  <2>3. Init => Routing
    BY DEF Init, Routing, Fresh
  <2> QED BY <2>2, <2>3 DEF IInv
<1>2. IInv /\ [Next]_vars => IInv'
  BY WakeKept, RoutingKept DEF IInv
<1>3. IInv => RoutedToOrigin
  BY DEF IInv, Routing, ToOrigin, RoutedToOrigin
<1> QED BY <1>1, <1>2, <1>3, PTL DEF Spec


=============================================================================
