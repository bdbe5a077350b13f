-------------------------- MODULE BluetoothHciProofs --------------------------
(***************************************************************************)
(* Proofs about the two ends of the Bluetooth HAL, which share nothing:    *)
(* the thread that watches the descriptors, for every set of descriptors,  *)
(* every set of callbacks and every pipe capacity; and BluetoothHci, for   *)
(* any clients.                                                            *)
(***************************************************************************)
EXTENDS AsyncFdWatcher, BluetoothHci, SequenceTheorems, TLAPS

(***************************************************************************)
(* AsyncFdWatcher.  WatcherSafe is inductive: the properties alone are     *)
(* not, because they do not say which phases of the owner and of the       *)
(* watcher can coexist.                                                    *)
(***************************************************************************)
\* Which phases of the owner go with running_, and with a thread.
PhasesAgree ==
    /\ opc \in {"stopNotify", "stopJoin", "stopClear", "stopClearTimeout",
                "stopClose"} => ~running
    /\ opc = "configNotify" => running
    /\ opc \in {"idle", "tryStart"} /\ ~running => ~pipeOpen
    /\ running /\ pipeOpen => wpc \notin {"none", "exited"}
    /\ cbNotify => wpc \in {"timeoutCb", "callback"}
    /\ wpc = "drain" => pipe > 0

\* timeout_cb_ and timeout_ms_ are always a pair some caller gave.
PairStored == timeoutMs > 0 => timeoutCb # ZeroCb

WatcherSafe ==
    /\ WatcherTypeOK
    /\ PhasesAgree
    /\ PairStored
    /\ NoLostWakeup
    /\ StopIsFinal
    /\ CallbacksValid
    /\ ZeroTimeoutNeverFires

\* A write to the notification pipe leaves it in range and not empty, also when
\* it is full and the byte is lost (notifyThread ignores the error).
LEMMA NotifyFills ==
    ASSUME NEW p \in 0..PipeCapacity
    PROVE  /\ AfterNotify(p) \in 0..PipeCapacity
           /\ AfterNotify(p) > 0
  BY PipeAssumption DEF AfterNotify

\* The pairs handed to ConfigureTimeout are of the right type, and ZeroCb comes
\* with timeout 0 only.
LEMMA PairTypes ==
    ASSUME NEW pair \in TimeoutPairs
    PROVE  /\ pair[1] \in TimeoutCbs \cup {ZeroCb}
           /\ pair[2] \in {0, 1}
           /\ pair[2] > 0 => pair[1] # ZeroCb
  BY CbsAssumption DEF TimeoutPairs

\* The initial state satisfies the invariant.
LEMMA StartsSafe == WatcherInit => WatcherSafe
<1> SUFFICES ASSUME WatcherInit  PROVE WatcherSafe
  OBVIOUS
<1>1. WatcherTypeOK
  <2>1. pipe \in 0..PipeCapacity /\ timeoutMs \in {0, 1}
    BY PipeAssumption DEF WatcherInit
  <2>2. opc \in OwnerPcs /\ wpc \in WatcherPcs
    BY DEF WatcherInit, OwnerPcs, WatcherPcs
  <2>3. /\ running \in BOOLEAN /\ pipeOpen \in BOOLEAN
        /\ cbNotify \in BOOLEAN /\ timed \in BOOLEAN
    BY DEF WatcherInit
  <2>4. /\ timeoutCb \in TimeoutCbs \cup {ZeroCb, NoCb}
        /\ savedCb \in TimeoutCbs \cup {ZeroCb, NoCb}
    BY DEF WatcherInit
  <2>5. /\ watched \subseteq Fds /\ readFds \subseteq Fds
        /\ todo \subseteq Fds /\ readable \subseteq Fds
    BY DEF WatcherInit
  <2> QED
    BY <2>1, <2>2, <2>3, <2>4, <2>5 DEF WatcherTypeOK
<1>2. PhasesAgree /\ StopIsFinal
  BY DEF WatcherInit, PhasesAgree, StopIsFinal
<1>3. NoLostWakeup
  BY DEF WatcherInit, NoLostWakeup
<1>4. PairStored /\ CallbacksValid /\ ZeroTimeoutNeverFires
  BY DEF WatcherInit, PairStored, CallbacksValid, ZeroTimeoutNeverFires
<1> QED
  BY <1>1, <1>2, <1>3, <1>4 DEF WatcherSafe

\* Calls and steps of the owner.
LEMMA OwnerKeepsSafe ==
    ASSUME WatcherSafe, OwnerCalls \/ OwnerSteps \/ StartFails \/ JoinAborts
    PROVE  WatcherSafe'
<1> USE DEF WatcherSafe, WatcherTypeOK, PhasesAgree, PairStored, NoLostWakeup, StopIsFinal,
            CallbacksValid, ZeroTimeoutNeverFires, OwnerPcs, WatcherPcs,
            ownerVars, timeoutVars, pipeVars, loopVars
<1>1. ASSUME NEW f \in Fds, WatchFd(f)  PROVE WatcherSafe'
  BY <1>1 DEF WatchFd, InternalMutexFree
<1>2. ASSUME NEW pair \in TimeoutPairs, OwnerConfigures(pair)  PROVE WatcherSafe'
  BY <1>2, PairTypes, CbsAssumption DEF OwnerConfigures
<1>3. CASE Stop
  <2>1. WatcherTypeOK'
    BY <1>3 DEF Stop
  <2>2. NoLostWakeup'
    BY <1>3 DEF Stop
  <2>3. PhasesAgree' /\ StopIsFinal'
    BY <1>3 DEF Stop
  <2>4. PairStored' /\ CallbacksValid' /\ ZeroTimeoutNeverFires'
    BY <1>3 DEF Stop
  <2> QED
    BY <2>1, <2>2, <2>3, <2>4
<1>4. CASE AlreadyStarted
  BY <1>4 DEF AlreadyStarted
<1>5. CASE StartThread
  BY <1>5, PipeAssumption DEF StartThread
<1>6. CASE OwnerConfigured
  BY <1>6, NotifyFills DEF OwnerConfigured, OwnerNotifies
<1>7. CASE StopNotify
  BY <1>7, NotifyFills DEF StopNotify, OwnerNotifies
<1>8. CASE StopJoin
  BY <1>8 DEF StopJoin
<1>9. CASE StopClear
  BY <1>9 DEF StopClear, InternalMutexFree
<1>10. CASE StopClearTimeout
  <2>1. WatcherTypeOK'
    BY <1>10, CbsAssumption DEF StopClearTimeout
  <2>2. NoLostWakeup'
    BY <1>10, CbsAssumption DEF StopClearTimeout
  <2>3. PhasesAgree' /\ StopIsFinal'
    BY <1>10, CbsAssumption DEF StopClearTimeout
  <2>4. PairStored' /\ CallbacksValid' /\ ZeroTimeoutNeverFires'
    BY <1>10, CbsAssumption DEF StopClearTimeout
  <2> QED
    BY <2>1, <2>2, <2>3, <2>4
<1>11. CASE StopClose
  <2>1. WatcherTypeOK'
    <3>1. 0 \in 0..PipeCapacity
      BY PipeAssumption
    <3> QED
      BY <1>11, <3>1 DEF StopClose
  <2>2. NoLostWakeup'
    BY <1>11, PipeAssumption DEF StopClose
  <2>3. PhasesAgree' /\ StopIsFinal'
    BY <1>11, PipeAssumption DEF StopClose
  <2>4. PairStored' /\ CallbacksValid' /\ ZeroTimeoutNeverFires'
    BY <1>11, PipeAssumption DEF StopClose
  <2> QED
    BY <2>1, <2>2, <2>3, <2>4
<1>12. CASE StartFails
  BY <1>12 DEF StartFails
<1>13. CASE JoinAborts
  BY <1>13 DEF JoinAborts
<1> QED
  BY <1>1, <1>2, <1>3, <1>4, <1>5, <1>6, <1>7, <1>8, <1>9, <1>10, <1>11,
     <1>12, <1>13 DEF OwnerCalls, OwnerSteps

\* Steps of the watcher, and of the callbacks it runs.
LEMMA WatcherKeepsSafe ==
    ASSUME WatcherSafe,
           \/ WatcherSteps
           \/ CallbackEnds
           \/ SelectTimesOut
           \/ SelectInterrupted
           \/ \E pair \in TimeoutPairs : CallbackConfigures(pair)
    PROVE  WatcherSafe'
<1> USE DEF WatcherSafe, WatcherTypeOK, PhasesAgree, PairStored, NoLostWakeup, StopIsFinal,
            CallbacksValid, ZeroTimeoutNeverFires, OwnerPcs, WatcherPcs,
            ownerVars, timeoutVars, pipeVars, loopVars
<1>1. CASE TestRunning
  BY <1>1 DEF TestRunning
<1>2. CASE Collect
  BY <1>2 DEF Collect
<1>3. CASE Arm
  <2>1. WatcherTypeOK'
    BY <1>3 DEF Arm
  <2>2. NoLostWakeup'
    BY <1>3 DEF Arm
  <2>3. PhasesAgree' /\ StopIsFinal'
    BY <1>3 DEF Arm
  <2>4. PairStored' /\ CallbacksValid' /\ ZeroTimeoutNeverFires'
    BY <1>3 DEF Arm
  <2> QED
    BY <2>1, <2>2, <2>3, <2>4
<1>4. CASE SelectReady
  BY <1>4 DEF SelectReady, ReadyFds
<1>5. CASE Drain
  <2>1. WatcherTypeOK'
    <3>1. pipe - 1 \in 0..PipeCapacity
      BY <1>5, PipeAssumption DEF Drain
    <3> QED
      BY <1>5, <3>1 DEF Drain
  <2>2. NoLostWakeup'
    BY <1>5 DEF Drain
  <2>3. PhasesAgree' /\ StopIsFinal'
    BY <1>5 DEF Drain
  <2>4. PairStored' /\ CallbacksValid' /\ ZeroTimeoutNeverFires'
    BY <1>5 DEF Drain
  <2> QED
    BY <2>1, <2>2, <2>3, <2>4
<1>6. CASE FetchTimeoutCb
  BY <1>6, CbsAssumption DEF FetchTimeoutCb, FetchedCb
<1>7. CASE Dispatch
  BY <1>7 DEF Dispatch
<1>8. CASE CallbackConfigured
  BY <1>8, NotifyFills, ZenonT(60) DEF CallbackConfigured
<1>9. CASE TimeoutCbReturns
  BY <1>9 DEF TimeoutCbReturns
<1>10. CASE CallbackReturns
  BY <1>10 DEF CallbackReturns
<1>11. CASE SelectTimesOut
  BY <1>11 DEF SelectTimesOut
<1>12. CASE SelectInterrupted
  BY <1>12 DEF SelectInterrupted
<1>13. ASSUME NEW pair \in TimeoutPairs, CallbackConfigures(pair)  PROVE WatcherSafe'
  BY <1>13, PairTypes, CbsAssumption DEF CallbackConfigures
<1> QED
  BY <1>1, <1>2, <1>3, <1>4, <1>5, <1>6, <1>7, <1>8, <1>9, <1>10, <1>11,
     <1>12, <1>13 DEF WatcherSteps, CallbackEnds

\* Every step keeps the invariant.
LEMMA StaysSafe == WatcherSafe /\ [WatcherNext]_watcherVars => WatcherSafe'
<1> SUFFICES ASSUME WatcherSafe, [WatcherNext]_watcherVars  PROVE WatcherSafe'
  OBVIOUS
<1>1. CASE OwnerCalls \/ OwnerSteps \/ StartFails \/ JoinAborts
  BY <1>1, OwnerKeepsSafe
<1>2. CASE \/ WatcherSteps
           \/ CallbackEnds
           \/ SelectTimesOut
           \/ SelectInterrupted
           \/ \E pair \in TimeoutPairs : CallbackConfigures(pair)
  BY <1>2, WatcherKeepsSafe
<1>3. ASSUME NEW f \in Fds, DataArrives(f)  PROVE WatcherSafe'
  BY <1>3 DEF DataArrives, WatcherSafe, WatcherTypeOK, PhasesAgree, PairStored, NoLostWakeup,
     StopIsFinal, CallbacksValid, ZeroTimeoutNeverFires, ownerVars, timeoutVars,
     pipeVars, loopVars
<1>4. CASE ServiceRestarts
  <2>1. WatcherInit'
    BY <1>4 DEF ServiceRestarts, WatcherInit
  <2>2. WatcherInit' => WatcherSafe'
    BY StartsSafe, PTL
  <2> QED
    BY <2>1, <2>2
<1>5. CASE UNCHANGED watcherVars
  BY <1>5 DEF watcherVars, WatcherSafe, WatcherTypeOK, PhasesAgree, PairStored, NoLostWakeup,
     StopIsFinal, CallbacksValid, ZeroTimeoutNeverFires, ownerVars, timeoutVars,
     pipeVars, loopVars
<1> QED
  BY <1>1, <1>2, <1>3, <1>4, <1>5 DEF WatcherNext, Environment

\* The invariant holds in every reachable state.
THEOREM WatcherInvariance == WatcherSpec => []WatcherSafe
  BY StartsSafe, StaysSafe, PTL DEF WatcherSpec

\* Type correctness: in particular the pipe never overflows.
THEOREM TypeCorrect == WatcherSpec => []WatcherTypeOK
<1>1. WatcherSafe => WatcherTypeOK
  BY DEF WatcherSafe
<1> QED
  BY <1>1, WatcherInvariance, PTL

\* No stop and no change of the timeout is slept through (ThreadRoutine's
\* unlocked reads of running_ and timeout_ms_ against notifyThread).
THEOREM WakeupsKept == WatcherSpec => []NoLostWakeup
<1>1. WatcherSafe => NoLostWakeup
  BY DEF WatcherSafe
<1> QED
  BY <1>1, WatcherInvariance, PTL

\* After stopThread has joined, no thread uses the map or the descriptors.
THEOREM StopsAreFinal == WatcherSpec => []StopIsFinal
<1>1. WatcherSafe => StopIsFinal
  BY DEF WatcherSafe
<1> QED
  BY <1>1, WatcherInvariance, PTL

\* Every read callback that runs is in the map while it runs.
THEOREM CallbacksAreValid == WatcherSpec => []CallbacksValid
<1>1. WatcherSafe => CallbacksValid
  BY DEF WatcherSafe
<1> QED
  BY <1>1, WatcherInvariance, PTL

\* The callback given with timeout 0 is never invoked.
THEOREM ZeroNeverFires == WatcherSpec => []ZeroTimeoutNeverFires
<1>1. WatcherSafe => ZeroTimeoutNeverFires
  BY DEF WatcherSafe
<1> QED
  BY <1>1, WatcherInvariance, PTL

(***************************************************************************)
(* BluetoothHci: a session has somebody who will end it; and as long as    *)
(* clients come one after the other, sessions are ended by messages of     *)
(* their own client, and the HAL does not abort.                           *)
(***************************************************************************)
Messages == [kind : Kinds, from : Clients]

States == {"out", "initializing", "up", "refused", "sending", "closing", "dead"}

Typed ==
    /\ client \in [Clients -> States]
    /\ inbox \in Seq(Messages)
    /\ links \in [Clients -> Nat]
    /\ hasDied \in BOOLEAN /\ fatal \in BOOLEAN /\ overlapped \in BOOLEAN
    /\ unlinkCb \in Clients \cup {NoClient}
    /\ vendor \in {"none", "open", "broken"}
    /\ session \in Clients \cup {NoClient}
    /\ vendor # "none" => session \in Clients

(***************************************************************************)
(* What clients that come one after the other lead to.                     *)
(***************************************************************************)
Away(d) == client[d] \in {"out", "dead"} /\ links[d] = 0

\* Nobody has anything to do with the HAL.
Resting == inbox = <<>> /\ vendor = "none" /\ \A d \in Clients : Away(d)

\* c has called initialize, and may have died since.
Asking(c) ==
    /\ client[c] \in {"initializing", "dead"} /\ links[c] = 0
    /\ inbox = <<Message("initialize", c)>>
    /\ vendor = "none"

\* The calls c has made and that are not handled, and its death.
Stage(c) ==
    \/ client[c] \in {"up", "refused"} /\ inbox = <<>>
    \/ client[c] = "sending" /\ inbox = <<Message("send", c)>>
    \/ client[c] = "closing" /\ inbox = <<Message("close", c)>>
    \/ /\ client[c] = "dead"
       /\ inbox \in {<<Message("death", c)>>, <<Message("send", c), Message("death", c)>>,
                     <<Message("close", c), Message("death", c)>>}

\* c has the session, and the one link.
Served(c) ==
    /\ vendor # "none" /\ session = c
    /\ links[c] = 1 /\ unlinkCb = c /\ hasDied = FALSE
    /\ Stage(c)

\* c has died after its close, which was handled.
Gone(c) ==
    /\ client[c] = "dead" /\ links[c] = 0
    /\ inbox = <<Message("death", c)>>
    /\ vendor = "none"

Turn(c) == /\ \A d \in Clients \ {c} : Away(d)
           /\ Asking(c) \/ Served(c) \/ Gone(c)

Orderly == ~overlapped => ~fatal /\ (Resting \/ \E c \in Clients : Turn(c))

IInv == Typed /\ NoOrphanedSession /\ Orderly

(***************************************************************************)
(* Messages and the inbox.                                                 *)
(***************************************************************************)
Holds(q, m) == \E i \in 1..Len(q) : q[i] = m

LEMMA MessageFields ==
  /\ \A k \in Kinds, c \in Clients : Message(k, c) \in Messages
  /\ \A k, c : Message(k, c).kind = k /\ Message(k, c).from = c
  BY DEF Message, Messages

\* Inboxes of one and two messages.
LEMMA ShortInboxes ==
  ASSUME NEW m \in Messages, NEW n \in Messages
  PROVE  /\ <<m>> # <<>> /\ Len(<<m>>) = 1 /\ Head(<<m>>) = m /\ Tail(<<m>>) = <<>>
         /\ <<m, n>> # <<>> /\ Head(<<m, n>>) = m /\ Tail(<<m, n>>) = <<n>>
         /\ Append(<<>>, m) = <<m>> /\ Append(<<m>>, n) = <<m, n>>
<1>1. <<m>> # <<>> /\ Len(<<m>>) = 1 /\ <<m, n>> # <<>>
  <2>1. <<m>> # <<>> /\ Len(<<m>>) = 1
    OBVIOUS
  <2>2. <<m, n>> # <<>>
    OBVIOUS
  <2> QED BY <2>1, <2>2
<1>2. Append(<<>>, m) = <<m>> /\ Append(<<>>, n) = <<n>> /\ Append(<<m>>, n) = <<m, n>>
  <2>1. Append(<<>>, m) = <<m>>
    OBVIOUS
  <2>2. Append(<<>>, n) = <<n>>
    OBVIOUS
  <2>3. Append(<<m>>, n) = <<m, n>>
    <3> DEFINE a == Append(<<m>>, n)
    <3>1. <<m>> \in Seq(Messages) /\ Len(<<m>>) = 1 /\ <<m>>[1] = m
      OBVIOUS
    <3>2. a \in Seq(Messages) /\ Len(a) = 2 /\ a[1] = m /\ a[2] = n
      BY <3>1, AppendProperties
    <3>3. <<m, n>> \in Seq(Messages) /\ Len(<<m, n>>) = 2 /\ <<m, n>>[1] = m /\ <<m, n>>[2] = n
      OBVIOUS
    <3> HIDE DEF a
    <3>4. \A i \in 1..2 : i = 1 \/ i = 2
      OBVIOUS
    <3>5. a = <<m, n>>
      BY <3>2, <3>3, <3>4, SeqEqual
    <3> QED BY <3>5 DEF a
  <2> QED BY <2>1, <2>2, <2>3
<1>3. <<>> \in Seq(Messages) /\ <<m>> \in Seq(Messages)
  BY <1>2, EmptySeq, AppendProperties
<1>4. Head(<<m>>) = m /\ Tail(<<m>>) = <<>>
  BY <1>2, <1>3, HeadTailAppend
<1>5. Head(<<m, n>>) = m /\ Tail(<<m, n>>) = <<n>>
  BY <1>1, <1>2, <1>3, <1>4, HeadTailAppend
<1> QED BY <1>1, <1>2, <1>4, <1>5

\* The driver queues messages at the end ...
LEMMA AppendHolds ==
  ASSUME NEW q \in Seq(Messages), NEW m \in Messages
  PROVE  /\ Append(q, m) \in Seq(Messages) /\ Holds(Append(q, m), m)
         /\ \A n : Holds(q, n) => Holds(Append(q, m), n)
<1> DEFINE r == Append(q, m)
<1>1. /\ r \in Seq(Messages) /\ Len(q) \in Nat /\ Len(r) = Len(q) + 1
      /\ \A i \in 1..Len(q) : r[i] = q[i]
      /\ r[Len(q) + 1] = m
  BY AppendProperties
<1> HIDE DEF r
<1>2. Holds(r, m)
  BY <1>1 DEF Holds
<1>3. ASSUME NEW n, NEW i \in 1..Len(q), q[i] = n
      PROVE  Holds(r, n)
  <2>1. i \in 1..Len(r) /\ r[i] = n
    BY <1>1, <1>3
  <2> QED BY <2>1 DEF Holds
<1> QED BY <1>1, <1>2, <1>3 DEF Holds, r

\* ... and the HAL takes them from the front.
LEMMA TailHolds ==
  ASSUME NEW q \in Seq(Messages), q # <<>>
  PROVE  /\ Tail(q) \in Seq(Messages)
         /\ \A n : Holds(q, n) /\ Head(q) # n => Holds(Tail(q), n)
<1> DEFINE r == Tail(q)
<1>1. /\ r \in Seq(Messages) /\ Len(q) \in Nat /\ Len(r) = Len(q) - 1
      /\ \A i \in 1..Len(r) : r[i] = q[i + 1]
      /\ Head(q) = q[1]
  BY HeadTailProperties
<1> HIDE DEF r
<1>2. ASSUME NEW n, NEW i \in 1..Len(q), q[i] = n, Head(q) # n
      PROVE  Holds(r, n)
  <2>1. i - 1 \in 1..Len(r) /\ r[i - 1] = q[(i - 1) + 1]
    BY <1>1, <1>2
  <2>2. r[i - 1] = n
    BY <1>2, <2>1
  <2> QED BY <2>1, <2>2 DEF Holds
<1> QED BY <1>1, <1>2 DEF Holds, r

(***************************************************************************)
(* Types, and the one who ends the session.                                *)
(***************************************************************************)
\* The client that has the session is linked, and dead only with its notification.
Ended == vendor # "none" /\ ~fatal =>
            /\ links[session] > 0
            /\ client[session] = "dead" => Holds(inbox, Message("death", session))

LEMMA EndedIsNoOrphan == Ended <=> NoOrphanedSession
  BY DEF Ended, NoOrphanedSession, Holds

LEMMA ClientsKeepEnded ==
  ASSUME Typed, Ended, NEW c \in Clients,
         CallsInitialize(c) \/ CallsSend(c) \/ CallsClose(c) \/ Dies(c) \/ Restarts(c)
  PROVE  Typed' /\ Ended'
<1>1. CASE CallsInitialize(c) \/ CallsSend(c) \/ CallsClose(c)
  <2>1. PICK kind \in Kinds, to \in {"initializing", "sending", "closing"} :
            /\ inbox' = Append(inbox, Message(kind, c))
            /\ client' = [client EXCEPT ![c] = to]
    BY <1>1 DEF CallsInitialize, CallsSend, CallsClose, Calls, Kinds
  <2>2. UNCHANGED halVars /\ overlapped' \in BOOLEAN
    BY <1>1 DEF CallsInitialize, CallsSend, CallsClose, Calls, Typed, States
  <2>3. Message(kind, c) \in Messages
    BY MessageFields
  <2>4. inbox' \in Seq(Messages) /\ \A n : Holds(inbox, n) => Holds(inbox', n)
    BY <2>1, <2>3, AppendHolds DEF Typed, States
  <2> QED BY <2>1, <2>2, <2>4 DEF Typed, States, Ended, halVars
<1>2. CASE Dies(c)
  <2>1. UNCHANGED halVars /\ UNCHANGED overlapped /\ client' = [client EXCEPT ![c] = "dead"]
    BY <1>2 DEF Dies
  <2>2. /\ inbox' \in Seq(Messages) /\ \A n : Holds(inbox, n) => Holds(inbox', n)
        /\ links[c] > 0 => Holds(inbox', Message("death", c))
    <3>1. Message("death", c) \in Messages
      BY MessageFields DEF Kinds
    <3>2. CASE links[c] > 0
      BY <1>2, <3>1, <3>2, AppendHolds DEF Dies, Typed, States
    <3>3. CASE ~(links[c] > 0)
      BY <1>2, <3>3 DEF Dies, Typed, States
    <3> QED BY <3>2, <3>3
  <2> QED BY <2>1, <2>2 DEF Typed, States, Ended, halVars
<1>3. CASE Restarts(c)
  BY <1>3 DEF Restarts, Typed, States, Ended, halVars
<1> QED BY <1>1, <1>2, <1>3

LEMMA HalKeepsEnded ==
  ASSUME Typed, Ended, Handle
  PROVE  Typed' /\ Ended'
<1>1. PICK c \in Clients : \/ InitializeOpens(c) \/ InitializeRefused(c) \/ CloseHandled(c)
                            \/ ServiceDied(c) \/ DeathIgnored(c) \/ SendHandled(c)
  BY DEF Handle
<1>2. overlapped' = overlapped
  BY DEF Handle
<1>3. /\ inbox \in Seq(Messages) /\ inbox # <<>>
      /\ Tail(inbox) \in Seq(Messages)
      /\ \A n : Holds(inbox, n) /\ Head(inbox) # n => Holds(Tail(inbox), n)
  BY <1>1, TailHolds DEF Typed, InitializeOpens, InitializeRefused, CloseHandled, ServiceDied,
                         DeathIgnored, SendHandled, NextIs
<1>4. Message("death", c) \in Messages
  BY MessageFields DEF Kinds
<1>5. CASE InitializeOpens(c) \/ InitializeRefused(c)
  <2>1. /\ links' = [links EXCEPT ![c] = @ + 1] /\ hasDied' = FALSE /\ unlinkCb' = c
        /\ fatal' = fatal /\ Head(inbox) = Message("initialize", c)
        /\ inbox' = IF client[c] = "dead" THEN Append(Tail(inbox), Message("death", c))
                    ELSE Tail(inbox)
        /\ \E to \in {"up", "refused"} : Answer(c, to)
    BY <1>5 DEF InitializeOpens, InitializeRefused, Link, NextIs
  <2>2. /\ inbox' \in Seq(Messages)
        /\ client[c] = "dead" => Holds(inbox', Message("death", c))
        /\ \A d \in Clients : Holds(inbox, Message("death", d))
                                => Holds(inbox', Message("death", d))
    <3>1. \A d \in Clients : Holds(inbox, Message("death", d))
                               => Holds(Tail(inbox), Message("death", d))
      BY <1>3, <2>1, MessageFields
    <3>2. CASE client[c] = "dead"
      BY <1>3, <1>4, <2>1, <3>1, <3>2, AppendHolds
    <3>3. CASE client[c] # "dead"
      BY <1>3, <2>1, <3>1, <3>3
    <3> QED BY <3>2, <3>3
  <2>3. client' \in [Clients -> States]
        /\ \A d \in Clients : client'[d] = "dead" <=> client[d] = "dead"
    BY <2>1 DEF Answer, Typed, States
  <2>4. /\ vendor' \in {"none", "open", "broken"} /\ session' \in Clients
        /\ session' = c \/ (session' = session /\ vendor # "none")
    BY <1>5 DEF InitializeOpens, InitializeRefused, Typed
  <2>5. links' \in [Clients -> Nat] /\ links'[c] > 0 /\ \A d \in Clients : links'[d] >= links[d]
    BY <2>1 DEF Typed
  <2>6. hasDied' \in BOOLEAN /\ fatal' \in BOOLEAN /\ overlapped' \in BOOLEAN
    BY <1>2, <2>1 DEF Typed
  <2>7. Typed'
    BY <2>1, <2>2, <2>3, <2>4, <2>5, <2>6 DEF Typed
  <2>8. CASE session' = c
    BY <2>2, <2>3, <2>5, <2>7, <2>8 DEF Ended
  <2>9. ASSUME session' = session, vendor # "none", vendor' # "none", ~fatal'
        PROVE  /\ links'[session'] > 0
               /\ client'[session'] = "dead" => Holds(inbox', Message("death", session'))
    <3>1. session \in Clients /\ links[session] > 0
      BY <2>1, <2>9 DEF Typed, Ended
    <3>2. client[session] = "dead" => Holds(inbox, Message("death", session))
      BY <2>1, <2>9 DEF Ended
    <3>3. links[session] \in Nat /\ links'[session] \in Nat /\ links'[session] >= links[session]
      BY <2>5, <3>1 DEF Typed
    <3>4. links'[session] > 0
      BY <3>1, <3>3
    <3> QED BY <2>2, <2>3, <2>9, <3>1, <3>2, <3>4
  <2> QED BY <2>4, <2>7, <2>8, <2>9 DEF Ended
<1>6. CASE CloseHandled(c)
  <2>1. links' \in [Clients -> Nat]
    <3>1. CASE hasDied \/ links[unlinkCb] = 0
      BY <1>6, <3>1 DEF CloseHandled, Unlink, Typed
    <3>2. CASE unlinkCb \in Clients /\ links[unlinkCb] # 0
      BY <1>6, <3>2 DEF CloseHandled, Unlink, Typed
    <3>3. CASE unlinkCb \notin Clients
      BY <1>6, <3>3 DEF CloseHandled, Unlink, Typed
    <3> QED BY <3>1, <3>2, <3>3
  <2>2. client' \in [Clients -> States]
    BY <1>6 DEF CloseHandled, Answer, Typed, States
  <2>3. /\ vendor' = "none" /\ session' = NoClient /\ inbox' = Tail(inbox)
        /\ UNCHANGED <<hasDied, unlinkCb>> /\ fatal' \in BOOLEAN
    BY <1>6 DEF CloseHandled, Shutdown
  <2> QED BY <1>2, <1>3, <2>1, <2>2, <2>3 DEF Typed, Ended
<1>7. CASE ServiceDied(c)
  BY <1>2, <1>3, <1>7 DEF ServiceDied, Shutdown, Typed, States, Ended
<1>8. CASE DeathIgnored(c)
  <2>1. /\ inbox' = Tail(inbox) /\ UNCHANGED <<client, halVars>> /\ links[c] = 0
        /\ Head(inbox) = Message("death", c)
    BY <1>8 DEF DeathIgnored, NextIs
  <2>2. session # c => Head(inbox) # Message("death", session)
    BY <2>1, MessageFields
  <2> QED BY <1>2, <1>3, <2>1, <2>2 DEF Typed, States, Ended, halVars
<1>9. CASE SendHandled(c)
  <2>1. /\ inbox' = Tail(inbox) /\ UNCHANGED <<links, hasDied, unlinkCb, vendor, session>>
        /\ Head(inbox) = Message("send", c) /\ fatal' = (vendor = "none") /\ ~fatal
    BY <1>9 DEF SendHandled, NextIs
  <2>2. Head(inbox) # Message("death", session)
    BY <2>1, MessageFields
  <2>3. client' \in [Clients -> States]
        /\ \A d \in Clients : client'[d] = "dead" <=> client[d] = "dead"
    BY <1>9 DEF SendHandled, Answer, Typed, States
  <2> QED BY <1>2, <1>3, <2>1, <2>2, <2>3 DEF Typed, States, Ended
<1> QED BY <1>1, <1>5, <1>6, <1>7, <1>8, <1>9

(***************************************************************************)
(* Clients that come one after the other.                                  *)
(***************************************************************************)
\* The fields and the first message of each inbox that is met.
LEMMA Firsts ==
  ASSUME NEW c \in Clients, NEW k \in Kinds
  PROVE  LET m == Message(k, c)
             d == Message("death", c)
         IN  /\ <<m>> # <<>> /\ Head(<<m>>) = m /\ Tail(<<m>>) = <<>> /\ Append(<<>>, m) = <<m>>
             /\ <<m, d>> # <<>> /\ Head(<<m, d>>) = m /\ Tail(<<m, d>>) = <<d>>
             /\ Append(<<m>>, d) = <<m, d>>
             /\ \A i : i = 1 => i \in 1..Len(<<m>>) /\ <<m>>[i] = m
<1>1. Message(k, c) \in Messages /\ Message("death", c) \in Messages
  BY MessageFields DEF Kinds
<1> QED BY <1>1, ShortInboxes

\* What is at hand when a message is handled.
LEMMA AtHand ==
  ASSUME Orderly, ~overlapped, NEW c \in Clients, NEW k \in Kinds, NextIs(k, c)
  PROVE  /\ Turn(c) /\ ~fatal
         /\ k = "initialize" => Asking(c)
         /\ k \in {"send", "close"} =>
                /\ Served(c)
                /\ \/ client[c] # "dead" /\ inbox = <<Message(k, c)>>
                   \/ client[c] = "dead" /\ inbox = <<Message(k, c), Message("death", c)>>
         /\ k = "death" =>
                client[c] = "dead" /\ inbox = <<Message(k, c)>> /\ (Served(c) \/ Gone(c))
<1>1. inbox # <<>> /\ Head(inbox) = Message(k, c)
  BY DEF NextIs
<1>2. PICK d \in Clients : Turn(d)
  BY <1>1 DEF Orderly, Resting
<1>3. ASSUME NEW l \in Kinds, inbox \in {<<Message(l, d)>>, <<Message(l, d), Message("death", d)>>}
      PROVE  l = k /\ d = c
  <2>1. Head(inbox) = Message(l, d)
    BY <1>3, Firsts
  <2> QED BY <1>1, <2>1, MessageFields
<1>4. {"initialize", "send", "close", "death"} \subseteq Kinds
  BY DEF Kinds
<1>5. CASE Asking(d)
  <2>1. "initialize" = k /\ d = c
    BY <1>3, <1>4, <1>5 DEF Asking
  <2> QED BY <1>2, <1>5, <2>1 DEF Orderly
<1>6. CASE Served(d)
  <2>1. CASE client[d] = "sending" /\ inbox = <<Message("send", d)>>
    <3>1. "send" = k /\ d = c
      BY <1>3, <1>4, <2>1
    <3> QED BY <1>2, <1>6, <2>1, <3>1 DEF Orderly
  <2>2. CASE client[d] = "closing" /\ inbox = <<Message("close", d)>>
    <3>1. "close" = k /\ d = c
      BY <1>3, <1>4, <2>2
    <3> QED BY <1>2, <1>6, <2>2, <3>1 DEF Orderly
  <2>3. CASE client[d] = "dead" /\ inbox = <<Message("death", d)>>
    <3>1. "death" = k /\ d = c
      BY <1>3, <1>4, <2>3
    <3> QED BY <1>2, <1>6, <2>3, <3>1 DEF Orderly
  <2>4. CASE client[d] = "dead" /\ inbox = <<Message("send", d), Message("death", d)>>
    <3>1. "send" = k /\ d = c
      BY <1>3, <1>4, <2>4
    <3> QED BY <1>2, <1>6, <2>4, <3>1 DEF Orderly
  <2>5. CASE client[d] = "dead" /\ inbox = <<Message("close", d), Message("death", d)>>
    <3>1. "close" = k /\ d = c
      BY <1>3, <1>4, <2>5
    <3> QED BY <1>2, <1>6, <2>5, <3>1 DEF Orderly
  <2> QED BY <1>1, <1>6, <2>1, <2>2, <2>3, <2>4, <2>5 DEF Served, Stage
<1>7. CASE Gone(d)
  <2>1. "death" = k /\ d = c
    BY <1>3, <1>4, <1>7 DEF Gone
  <2> QED BY <1>2, <1>7, <2>1 DEF Orderly, Gone
<1> QED BY <1>2, <1>5, <1>6, <1>7 DEF Turn

\* And what is left then.
LEMMA TailAtHand ==
  ASSUME Orderly, ~overlapped, NEW c \in Clients, NEW k \in {"send", "close"}, NextIs(k, c)
  PROVE  /\ Served(c)
         /\ \/ client[c] # "dead" /\ Tail(inbox) = <<>>
            \/ client[c] = "dead" /\ Tail(inbox) = <<Message("death", c)>>
<1>1. k \in Kinds
  BY DEF Kinds
<1>2. /\ Served(c)
      /\ \/ client[c] # "dead" /\ inbox = <<Message(k, c)>>
         \/ client[c] = "dead" /\ inbox = <<Message(k, c), Message("death", c)>>
  BY <1>1, AtHand
<1>3. CASE client[c] # "dead" /\ inbox = <<Message(k, c)>>
  <2>1. Tail(inbox) = <<>>
    BY <1>1, <1>3, Firsts
  <2> QED BY <1>2, <1>3, <2>1
<1>4. CASE client[c] = "dead" /\ inbox = <<Message(k, c), Message("death", c)>>
  <2>1. Tail(inbox) = <<Message("death", c)>>
    BY <1>1, <1>4, Firsts
  <2> QED BY <1>2, <1>4, <2>1
<1> QED BY <1>2, <1>3, <1>4

LEMMA ClientsKeepOrder ==
  ASSUME Typed, Orderly, ~overlapped', NEW c \in Clients,
         CallsInitialize(c) \/ CallsSend(c) \/ CallsClose(c) \/ Dies(c) \/ Restarts(c)
  PROVE  Orderly'
<1>1. ~overlapped /\ ~fatal /\ ~fatal' /\ UNCHANGED halVars
  <2>1. UNCHANGED halVars
    BY DEF CallsInitialize, CallsSend, CallsClose, Dies, Restarts, Calls
  <2>2. ~overlapped
    BY Zenon DEF CallsInitialize, CallsSend, CallsClose, Dies, Restarts, Calls
  <2>3. ~fatal
    BY <2>2 DEF Orderly
  <2> QED BY <2>1, <2>2, <2>3 DEF halVars
<1>2. {"initialize", "send", "close", "death"} \subseteq Kinds
  BY DEF Kinds
<1>3. \A d \in Clients \ {c} : client'[d] = client[d] /\ (Away(d) => Away(d)')
  BY <1>1 DEF CallsInitialize, CallsSend, CallsClose, Dies, Restarts, Calls, Typed,
                States, Away, halVars
<1>4. Resting \/ (Turn(c) /\ ~Resting) \/ \E d \in Clients \ {c} : Turn(d) /\ Away(c)
  BY <1>1 DEF Orderly, Turn
<1>5. CASE CallsInitialize(c)
  <2>1. /\ AllDone /\ client[c] = "out" /\ client'[c] = "initializing"
        /\ inbox' = Append(inbox, Message("initialize", c))
    BY <1>1, <1>5 DEF CallsInitialize, Calls, AllDone, Typed, States
  <2>2. Resting
    <3>1. ASSUME NEW d \in Clients, Turn(d) PROVE FALSE
      <4>1. inbox = <<>> /\ client[d] \in {"out", "dead"}
        BY <2>1 DEF AllDone
      <4>2. <<Message("initialize", d)>> # <<>> /\ <<Message("death", d)>> # <<>>
        BY <1>2, Firsts
      <4>3. /\ <<Message("send", d), Message("death", d)>> # <<>>
            /\ <<Message("close", d), Message("death", d)>> # <<>>
        BY <1>2, Firsts
      <4> QED BY <3>1, <4>1, <4>2, <4>3 DEF Turn, Asking, Served, Stage, Gone
    <3> QED BY <1>1, <3>1 DEF Orderly
  <2>3. inbox' = <<Message("initialize", c)>>
    BY <1>2, <2>1, <2>2, Firsts DEF Resting
  <2>4. Asking(c)' /\ \A d \in Clients \ {c} : Away(d)'
    BY <1>1, <1>3, <2>1, <2>2, <2>3 DEF Asking, Resting, Away, halVars
  <2> QED BY <1>1, <2>4 DEF Orderly, Turn
<1>6. CASE CallsSend(c) \/ CallsClose(c)
  <2>1. PICK kind \in {"send", "close"} :
            /\ client[c] \in {"up", "refused"} /\ inbox' = Append(inbox, Message(kind, c))
            /\ client'[c] = IF kind = "send" THEN "sending" ELSE "closing"
    BY <1>6 DEF CallsSend, CallsClose, Calls, Typed, States
  <2>2. Turn(c) /\ Served(c) /\ inbox = <<>>
    BY <1>4, <2>1 DEF Resting, Turn, Away, Asking, Served, Stage, Gone
  <2>3. inbox' = <<Message(kind, c)>>
    BY <1>2, <2>1, <2>2, Firsts
  <2>4. Served(c)' /\ \A d \in Clients \ {c} : Away(d)'
    BY <1>1, <1>3, <2>1, <2>2, <2>3 DEF Served, Stage, Turn, halVars
  <2> QED BY <1>1, <2>4 DEF Orderly, Turn
<1>7. CASE Dies(c)
  <2>1. /\ client[c] # "dead" /\ client'[c] = "dead" /\ (client[c] = "out" => links[c] > 0)
        /\ inbox' = IF links[c] > 0 THEN Append(inbox, Message("death", c)) ELSE inbox
    BY <1>7 DEF Dies, Typed, States
  <2>2. Turn(c) /\ (Asking(c) \/ Served(c))
    BY <1>4, <2>1 DEF Resting, Turn, Away, Gone
  <2>3. CASE Asking(c)
    <3>1. Asking(c)'
      BY <1>1, <2>1, <2>3 DEF Asking, halVars
    <3> QED BY <1>1, <1>3, <2>2, <3>1 DEF Orderly, Turn
  <2>4. CASE Served(c)
    <3>1. inbox' = Append(inbox, Message("death", c))
      BY <2>1, <2>4 DEF Served
    <3>2. inbox' \in {<<Message("death", c)>>, <<Message("send", c), Message("death", c)>>,
                      <<Message("close", c), Message("death", c)>>}
      <4>1. CASE inbox = <<>>
        BY <1>2, <3>1, <4>1, Firsts
      <4>2. CASE inbox = <<Message("send", c)>>
        BY <1>2, <3>1, <4>2, Firsts
      <4>3. CASE inbox = <<Message("close", c)>>
        BY <1>2, <3>1, <4>3, Firsts
      <4> QED BY <2>1, <2>4, <4>1, <4>2, <4>3 DEF Served, Stage
    <3>3. Served(c)'
      BY <1>1, <2>1, <2>4, <3>2 DEF Served, Stage, halVars
    <3> QED BY <1>1, <1>3, <2>2, <3>3 DEF Orderly, Turn
  <2> QED BY <2>2, <2>3, <2>4
<1>8. CASE Restarts(c)
  <2>1. /\ client[c] = "dead" /\ client'[c] = "out" /\ links[c] = 0 /\ inbox' = inbox
        /\ \A i \in 1..Len(inbox) : inbox[i].from # c
    BY <1>8 DEF Restarts, Typed, States
  <2>2. Away(c)'
    BY <1>1, <2>1 DEF Away, halVars
  <2>3. CASE Resting
    BY <1>1, <1>3, <2>1, <2>2, <2>3 DEF Resting, Orderly, halVars
  <2>4. CASE Turn(c)
    <3>1. ASSUME NEW k \in Kinds, inbox = <<Message(k, c)>> PROVE FALSE
      <4>1. 1 \in 1..Len(inbox) /\ inbox[1] = Message(k, c)
        BY <3>1, Firsts
      <4> QED BY <2>1, <4>1, MessageFields
    <3> QED BY <1>2, <2>1, <2>4, <3>1 DEF Turn, Asking, Served, Gone
  <2>5. ASSUME NEW d \in Clients \ {c}, Turn(d) PROVE Orderly'
    <3>1. Asking(d)' \/ Served(d)' \/ Gone(d)'
      BY <1>1, <1>3, <2>1, <2>5 DEF Turn, Asking, Served, Stage, Gone, halVars
    <3>2. \A e \in Clients \ {d} : Away(e)'
      BY <1>3, <2>2, <2>5 DEF Turn
    <3> QED BY <1>1, <3>1, <3>2 DEF Orderly, Turn
  <2> QED BY <1>4, <2>3, <2>4, <2>5
<1> QED BY <1>5, <1>6, <1>7, <1>8

LEMMA HalKeepsOrder ==
  ASSUME Typed, Orderly, ~overlapped', Handle
  PROVE  Orderly'
<1>1. PICK c \in Clients : \/ InitializeOpens(c) \/ InitializeRefused(c) \/ CloseHandled(c)
                            \/ ServiceDied(c) \/ DeathIgnored(c) \/ SendHandled(c)
  BY DEF Handle
<1>2. ~overlapped
  BY DEF Handle
<1>3. {"initialize", "send", "close", "death"} \subseteq Kinds
  BY DEF Kinds
<1>4. Turn(c) /\ ~fatal
  BY <1>1, <1>2, <1>3, AtHand DEF InitializeOpens, InitializeRefused, CloseHandled, ServiceDied,
                                  DeathIgnored, SendHandled
<1>5. \A d \in Clients \ {c} : Away(d)
  BY <1>4 DEF Turn
<1>6. CASE InitializeOpens(c) \/ InitializeRefused(c)
  <2>1. NextIs("initialize", c)
    BY <1>6 DEF InitializeOpens, InitializeRefused
  <2>2. Asking(c)
    BY <1>2, <1>3, <2>1, AtHand
  <2>3. InitializeOpens(c)
    BY <1>6, <2>2 DEF InitializeRefused, Asking
  <2>4. Tail(inbox) = <<>> /\ Append(<<>>, Message("death", c)) = <<Message("death", c)>>
    BY <1>3, <2>2, Firsts DEF Asking
  <2>5. /\ fatal' = fatal /\ hasDied' = FALSE /\ unlinkCb' = c /\ session' = c
        /\ vendor' \in {"open", "broken"} /\ links' = [links EXCEPT ![c] = @ + 1]
    BY <2>3 DEF InitializeOpens, Link
  <2>6. \/ client' = client /\ client[c] = "dead" /\ inbox' = <<Message("death", c)>>
        \/ /\ client[c] # "dead" /\ inbox' = <<>>
           /\ \E to \in {"up", "refused"} : client' = [client EXCEPT ![c] = to]
    BY <2>3, <2>4 DEF InitializeOpens, Link, Answer
  <2>7. Served(c)'
    BY <2>2, <2>5, <2>6 DEF Asking, Served, Stage, Typed, States
  <2>8. \A d \in Clients \ {c} : Away(d)'
    BY <1>5, <2>5, <2>6 DEF Away, Typed, States
  <2> QED BY <1>4, <2>5, <2>7, <2>8 DEF Orderly, Turn
<1>7. CASE CloseHandled(c)
  <2>1. NextIs("close", c)
    BY <1>7 DEF CloseHandled
  <2>2. /\ Served(c)
        /\ \/ client[c] # "dead" /\ Tail(inbox) = <<>>
           \/ client[c] = "dead" /\ Tail(inbox) = <<Message("death", c)>>
    BY <1>2, <1>3, <2>1, TailAtHand
  <2>3. /\ links' = [links EXCEPT ![c] = @ - 1] /\ fatal' = FALSE /\ vendor' = "none"
        /\ inbox' = Tail(inbox)
        /\ client' = IF client[c] = "dead" THEN client ELSE [client EXCEPT ![c] = "out"]
    <3>1. unlinkCb = c /\ links[c] # 0 /\ hasDied = FALSE /\ vendor # "none"
      BY <2>2 DEF Served
    <3>2. links' = [links EXCEPT ![c] = @ - 1]
      BY <1>7, <3>1 DEF CloseHandled, Unlink
    <3>3. (fatal' = FALSE) /\ vendor' = "none"
      BY <1>7, <3>1 DEF CloseHandled, Shutdown
    <3> QED BY <1>7, <3>2, <3>3 DEF CloseHandled, Answer
  <2>4. \A d \in Clients \ {c} : Away(d)'
    BY <1>5, <2>3 DEF Away, Typed, States
  <2>5. Resting' \/ Gone(c)'
    BY <2>2, <2>3, <2>4 DEF Resting, Gone, Served, Away, Typed, States
  <2> QED BY <2>3, <2>4, <2>5 DEF Orderly, Turn
<1>8. CASE ServiceDied(c)
  <2>1. NextIs("death", c) /\ links[c] > 0
    BY <1>8 DEF ServiceDied
  <2>2. client[c] = "dead" /\ Served(c) /\ Tail(inbox) = <<>>
    <3>1. client[c] = "dead" /\ inbox = <<Message("death", c)>> /\ (Served(c) \/ Gone(c))
      BY <1>2, <1>3, <2>1, AtHand
    <3>2. ~Gone(c)
      BY <2>1 DEF Gone
    <3>3. Tail(inbox) = <<>>
      BY <1>3, <3>1, Firsts
    <3> QED BY <3>1, <3>2, <3>3
  <2>3. /\ links' = [links EXCEPT ![c] = @ - 1] /\ fatal' = FALSE /\ vendor' = "none"
        /\ inbox' = <<>> /\ client' = client
    BY <1>8, <2>2 DEF ServiceDied, Shutdown, Served
  <2>4. Resting'
    BY <1>5, <2>2, <2>3 DEF Resting, Served, Away, Typed, States
  <2> QED BY <2>3, <2>4 DEF Orderly
<1>9. CASE DeathIgnored(c)
  <2>1. NextIs("death", c) /\ links[c] = 0
    BY <1>9 DEF DeathIgnored
  <2>2. Gone(c) /\ Tail(inbox) = <<>>
    <3>1. inbox = <<Message("death", c)>> /\ (Served(c) \/ Gone(c))
      BY <1>2, <1>3, <2>1, AtHand
    <3>2. ~Served(c)
      BY <2>1 DEF Served
    <3>3. Tail(inbox) = <<>>
      BY <1>3, <3>1, Firsts
    <3> QED BY <3>1, <3>2, <3>3
  <2>3. inbox' = <<>> /\ UNCHANGED <<client, halVars>>
    BY <1>9, <2>2 DEF DeathIgnored
  <2>4. Resting'
    BY <1>5, <2>2, <2>3 DEF Resting, Gone, Away, halVars
  <2> QED BY <1>4, <2>3, <2>4 DEF Orderly, halVars
<1>10. CASE SendHandled(c)
  <2>1. NextIs("send", c)
    BY <1>10 DEF SendHandled
  <2>2. /\ Served(c)
        /\ \/ client[c] # "dead" /\ Tail(inbox) = <<>>
           \/ client[c] = "dead" /\ Tail(inbox) = <<Message("death", c)>>
    BY <1>2, <1>3, <2>1, TailAtHand
  <2>3. /\ inbox' = Tail(inbox) /\ fatal' = FALSE
        /\ UNCHANGED <<links, hasDied, unlinkCb, vendor, session>>
        /\ client' = IF client[c] = "dead" THEN client ELSE [client EXCEPT ![c] = "up"]
    BY <1>10, <2>2 DEF SendHandled, Answer, Served
  <2>4. Served(c)'
    BY <2>2, <2>3 DEF Served, Stage, Typed, States
  <2>5. \A d \in Clients \ {c} : Away(d)'
    BY <1>5, <2>3 DEF Away, Typed, States
  <2> QED BY <2>3, <2>4, <2>5 DEF Orderly, Turn
<1> QED BY <1>1, <1>6, <1>7, <1>8, <1>9, <1>10

\* The invariant holds in every reachable state.
THEOREM Invariance == Spec => []IInv
<1>1. Init => IInv
  <2> SUFFICES ASSUME Init PROVE IInv
    OBVIOUS
  <2>1. Typed
    BY EmptySeq DEF Init, Typed, States
  <2>2. NoOrphanedSession
    BY DEF Init, NoOrphanedSession
  <2>3. Orderly
    BY DEF Init, Orderly, Resting, Away
  <2> QED BY <2>1, <2>2, <2>3 DEF IInv
<1>2. IInv /\ [Next]_vars => IInv'
  <2> SUFFICES ASSUME IInv, [Next]_vars PROVE IInv'
    OBVIOUS
  <2>1. Typed /\ Ended /\ Orderly
    BY EndedIsNoOrphan DEF IInv
  <2>2. CASE UNCHANGED vars
    BY <2>1, <2>2 DEF vars, halVars, IInv, Typed, States, NoOrphanedSession, Orderly,
                      Resting, Turn, Away, Asking, Served, Stage, Gone
  <2>3. ASSUME NEW c \in Clients,
               CallsInitialize(c) \/ CallsSend(c) \/ CallsClose(c) \/ Dies(c) \/ Restarts(c)
        PROVE  Typed' /\ Ended' /\ Orderly'
    <3>1. Typed' /\ Ended'
      BY <2>1, <2>3, ClientsKeepEnded
    <3>2. Orderly'
      BY <2>1, <2>3, ClientsKeepOrder DEF Orderly
    <3> QED BY <3>1, <3>2
  <2>4. ASSUME Handle PROVE Typed' /\ Ended' /\ Orderly'
    <3>1. Typed' /\ Ended'
      BY <2>1, <2>4, HalKeepsEnded
    <3>2. Orderly'
      BY <2>1, <2>4, HalKeepsOrder DEF Orderly
    <3> QED BY <3>1, <3>2
  <2>5. Ended' <=> NoOrphanedSession'
    BY DEF Ended, NoOrphanedSession, Holds
  <2>6. CASE Next
    <3>1. Typed' /\ Ended' /\ Orderly'
      BY <2>3, <2>4, <2>6 DEF Next
    <3> QED BY <2>5, <3>1 DEF IInv
  <2> QED BY <2>2, <2>6
<1> QED BY <1>1, <1>2, PTL DEF Spec

\* Whatever clients do, together or one after the other, a session has somebody who
\* will end it as long as the process lives.
THEOREM SessionsAreEnded == Spec => []NoOrphanedSession
<1>1. IInv => NoOrphanedSession
  BY DEF IInv
<1> QED BY <1>1, Invariance, PTL

\* Any number of clients that come one after the other, and die at any time, never make
\* the HAL abort: neither Shutdown's assertion nor a null instance is reached.
THEOREM NeverAborts == Spec => []NoFatal
<1>1. IInv => NoFatal
  BY DEF IInv, Orderly, NoFatal
<1> QED BY <1>1, Invariance, PTL

\* And their sessions are ended by messages of their own.
THEOREM EndedByOwnClient == Spec => EndedByItsClient
<1>1. IInv /\ [Next]_vars
        => [~overlapped /\ vendor # "none" /\ vendor' = "none" => Head(inbox).from = session]_vars
  <2> SUFFICES ASSUME IInv, Next, ~overlapped, vendor # "none", vendor' = "none"
               PROVE  Head(inbox).from = session
    OBVIOUS
  <2>1. PICK c \in Clients : CloseHandled(c) \/ ServiceDied(c)
    BY DEF Next, CallsInitialize, CallsSend, CallsClose, Calls, Dies, Restarts, Handle, halVars,
           InitializeOpens, InitializeRefused, DeathIgnored, SendHandled
  <2>2. PICK k \in {"close", "death"} : NextIs(k, c)
    BY <2>1 DEF CloseHandled, ServiceDied
  <2>3. k \in Kinds /\ Orderly
    BY DEF Kinds, IInv
  <2>4. Served(c)
    BY <2>2, <2>3, AtHand DEF Gone
  <2> QED BY <2>2, <2>4, MessageFields DEF NextIs, Served
<1> QED BY <1>1, Invariance, PTL DEF Spec, EndedByItsClient

=============================================================================
