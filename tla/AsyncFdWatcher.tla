--------------------------- MODULE AsyncFdWatcher ---------------------------
(***************************************************************************)
(* The select() thread of the Bluetooth HAL (bluetooth/async_fd_watcher).  *)
(*                                                                         *)
(* Two threads share the object.  The OWNER (the HIDL thread that opens    *)
(* and closes the vendor interface, and sends packets) calls               *)
(* WatchFdForNonBlockingReads, ConfigureTimeout and                        *)
(* StopWatchingFileDescriptors.  The WATCHER runs ThreadRoutine; the       *)
(* callbacks it invokes may call ConfigureTimeout too.  Every section under*)
(* a mutex that calls nothing is one step.  internal_mutex_ is held across *)
(* the read callbacks, so it is held exactly when wpc = "callback".        *)
(***************************************************************************)
EXTENDS Integers, FiniteSets

CONSTANTS
    Fds,           \* the file descriptors the owner may watch
    TimeoutCbs,    \* the timeout callbacks callers install with any timeout
    ZeroCb,        \* the one installed only together with timeout 0
    NoCb,          \* the empty std::function
    PipeCapacity,  \* bytes the notification pipe holds
    PipeMayFail    \* whether pipe2() may fail

ASSUME FdsAssumption == Fds \subseteq Nat
ASSUME CbsAssumption == /\ NoCb \notin TimeoutCbs
                        /\ ZeroCb \notin TimeoutCbs
                        /\ ZeroCb # NoCb
ASSUME PipeAssumption == /\ PipeCapacity \in Nat \ {0}
                         /\ PipeMayFail \in BOOLEAN

VARIABLES
    running,    \* running_
    watched,    \* the keys of watched_fds_
    timeoutCb,  \* timeout_cb_
    timeoutMs,  \* timeout_ms_: 0, or 1 for any positive number
    pipe,       \* bytes in the notification pipe
    pipeOpen,   \* the pipe's two descriptors are open
    opc,        \* where the owner is
    wpc,        \* where the watcher is; "none": thread_ is not joinable
    cbNotify,   \* the callback being run is inside ConfigureTimeout, at line 64
    readFds,    \* read_fds: the set given to select(), then the set it returns
    timed,      \* timeout_ptr is not NULL
    todo,       \* the ready descriptors whose callback has not returned
    savedCb,    \* saved_cb
    readable    \* the descriptors with data (level triggered)

ownerVars   == <<running, watched, opc>>
timeoutVars == <<timeoutCb, timeoutMs>>
pipeVars    == <<pipe, pipeOpen>>
loopVars    == <<readFds, timed, todo, savedCb>>
watcherVars == <<ownerVars, timeoutVars, pipeVars, wpc, cbNotify, loopVars, readable>>

OwnerPcs == {"idle", "tryStart", "configNotify", "stopNotify", "stopJoin",
             "stopClear", "stopClearTimeout", "stopClose", "aborted"}
WatcherPcs == {"none", "loop", "collect", "arm", "select", "drain", "timedOut",
               "timeoutCb", "dispatch", "callback", "exited"}

\* What callers pass to ConfigureTimeout.
TimeoutPairs == (TimeoutCbs \X {0, 1}) \cup {<<ZeroCb, 0>>}

WatcherInit ==
    /\ running = FALSE
    /\ watched = {}
    /\ timeoutCb = NoCb
    /\ timeoutMs = 0
    /\ pipe = 0
    /\ pipeOpen = FALSE
    /\ opc = "idle"
    /\ wpc = "none"
    /\ cbNotify = FALSE
    /\ readFds = {}
    /\ timed = FALSE
    /\ todo = {}
    /\ savedCb = NoCb
    /\ readable = {}

(***************************************************************************)
(* Helpers.  An operator whose name ends in Bug is a broken form of the one*)
(* that follows it; no action uses it.                                     *)
(***************************************************************************)
\* notifyThread: a non-blocking write; on a full pipe the byte is lost.
AfterNotify(p) == IF p < PipeCapacity THEN p + 1 ELSE p

\* The timeout is not looked at again.
FetchedCbBug(cb, ms) == cb

\* The callback ThreadRoutine takes when select() times out.
FetchedCb(cb, ms) == IF ms > 0 THEN cb ELSE NoCb

\* std::map iterates its keys in ascending order.
LowestFd(S) == CHOOSE f \in S : \A g \in S : f <= g

ReadyFds == readFds \cap readable
SomethingReady == pipe > 0 \/ ReadyFds # {}
InternalMutexFree == wpc # "callback"

(***************************************************************************)
(* The owner: WatchFdForNonBlockingReads and tryStartThread.               *)
(***************************************************************************)
WatchFd(f) ==
    /\ opc = "idle"
    /\ InternalMutexFree
    /\ watched' = watched \cup {f}
    /\ opc' = "tryStart"
    /\ UNCHANGED <<running, timeoutVars, pipeVars, wpc, cbNotify, loopVars, readable>>

AlreadyStarted ==
    /\ opc = "tryStart"
    /\ running
    /\ opc' = "idle"
    /\ UNCHANGED <<running, watched, timeoutVars, pipeVars, wpc, cbNotify, loopVars, readable>>

StartThread ==
    /\ opc = "tryStart"
    /\ ~running
    /\ running' = TRUE
    /\ pipe' = 0
    /\ pipeOpen' = TRUE
    /\ wpc' = "loop"
    /\ opc' = "idle"
    /\ UNCHANGED <<watched, timeoutVars, cbNotify, loopVars, readable>>

\* pipe2() fails: -1 is returned, running_ stays true, there is no thread.
StartFails ==
    /\ PipeMayFail
    /\ opc = "tryStart"
    /\ ~running
    /\ running' = TRUE
    /\ opc' = "idle"
    /\ UNCHANGED <<watched, timeoutVars, pipeVars, wpc, cbNotify, loopVars, readable>>

(***************************************************************************)
(* ConfigureTimeout, from either thread: the store under timeout_mutex_,   *)
(* then notifyThread.                                                      *)
(***************************************************************************)
OwnerConfigures(pair) ==
    /\ opc = "idle"
    /\ running
    /\ timeoutCb' = pair[1]
    /\ timeoutMs' = pair[2]
    /\ opc' = "configNotify"
    /\ UNCHANGED <<running, watched, pipeVars, wpc, cbNotify, loopVars, readable>>

\* A stop that does not wake the thread.
OwnerNotifiesBug(next) ==
    /\ opc' = next
    /\ pipe' = IF pipeOpen /\ next = "idle" THEN AfterNotify(pipe) ELSE pipe

OwnerNotifies(next) ==
    /\ opc' = next
    /\ pipe' = IF pipeOpen THEN AfterNotify(pipe) ELSE pipe

OwnerConfigured ==
    /\ opc = "configNotify"
    /\ OwnerNotifies("idle")
    /\ UNCHANGED <<running, watched, timeoutVars, pipeOpen, wpc, cbNotify, loopVars, readable>>

CallbackConfigures(pair) ==
    /\ wpc \in {"timeoutCb", "callback"}
    /\ ~cbNotify
    /\ timeoutCb' = pair[1]
    /\ timeoutMs' = pair[2]
    /\ cbNotify' = TRUE
    /\ UNCHANGED <<ownerVars, pipeVars, wpc, loopVars, readable>>

CallbackConfigured ==
    /\ cbNotify
    /\ cbNotify' = FALSE
    /\ pipe' = AfterNotify(pipe)
    /\ UNCHANGED <<ownerVars, timeoutVars, pipeOpen, wpc, loopVars, readable>>

(***************************************************************************)
(* The owner: StopWatchingFileDescriptors.  (When running_ is false it     *)
(* returns at once: a stutter.)                                            *)
(***************************************************************************)
\* The map is cleared first, outside the mutex.
StopBug ==
    /\ opc = "idle"
    /\ running
    /\ running' = FALSE
    /\ watched' = {}
    /\ opc' = "stopNotify"
    /\ UNCHANGED <<timeoutVars, pipeVars, wpc, cbNotify, loopVars, readable>>

Stop ==
    /\ opc = "idle"
    /\ running
    /\ running' = FALSE
    /\ opc' = "stopNotify"
    /\ UNCHANGED <<watched, timeoutVars, pipeVars, wpc, cbNotify, loopVars, readable>>

StopNotify ==
    /\ opc = "stopNotify"
    /\ OwnerNotifies("stopJoin")
    /\ UNCHANGED <<running, watched, timeoutVars, pipeOpen, wpc, cbNotify, loopVars, readable>>

\* The thread is not waited for.
StopJoinBug ==
    /\ opc = "stopJoin"
    /\ opc' = "stopClear"
    /\ UNCHANGED <<running, watched, timeoutVars, pipeVars, wpc, cbNotify, loopVars, readable>>

\* join() returns once the thread function has.
StopJoin ==
    /\ opc = "stopJoin"
    /\ wpc = "exited"
    /\ wpc' = "none"
    /\ opc' = "stopClear"
    /\ UNCHANGED <<running, watched, timeoutVars, pipeVars, cbNotify, loopVars, readable>>

\* No thread was started: join() throws, and nothing catches it.
JoinAborts ==
    /\ opc = "stopJoin"
    /\ wpc = "none"
    /\ opc' = "aborted"
    /\ UNCHANGED <<running, watched, timeoutVars, pipeVars, wpc, cbNotify, loopVars, readable>>

StopClear ==
    /\ opc = "stopClear"
    /\ InternalMutexFree
    /\ watched' = {}
    /\ opc' = "stopClearTimeout"
    /\ UNCHANGED <<running, timeoutVars, pipeVars, wpc, cbNotify, loopVars, readable>>

StopClearTimeout ==
    /\ opc = "stopClearTimeout"
    /\ timeoutCb' = NoCb
    /\ opc' = "stopClose"
    /\ UNCHANGED <<running, watched, timeoutMs, pipeVars, wpc, cbNotify, loopVars, readable>>

StopClose ==
    /\ opc = "stopClose"
    /\ pipe' = 0
    /\ pipeOpen' = FALSE
    /\ opc' = "idle"
    /\ UNCHANGED <<running, watched, timeoutVars, wpc, cbNotify, loopVars, readable>>

(***************************************************************************)
(* The watcher: ThreadRoutine.                                             *)
(***************************************************************************)
TestRunning ==
    /\ wpc = "loop"
    /\ wpc' = IF running THEN "collect" ELSE "exited"
    /\ UNCHANGED <<ownerVars, timeoutVars, pipeVars, cbNotify, loopVars, readable>>

\* read_fds is not rebuilt before select().
CollectBug ==
    /\ wpc = "collect"
    /\ wpc' = "arm"
    /\ UNCHANGED <<ownerVars, timeoutVars, pipeVars, cbNotify, loopVars, readable>>

\* FD_SET over watched_fds_, without internal_mutex_.
Collect ==
    /\ wpc = "collect"
    /\ readFds' = watched
    /\ wpc' = "arm"
    /\ UNCHANGED <<ownerVars, timeoutVars, pipeVars, cbNotify, timed, todo, savedCb, readable>>

\* timeout_ms_ is read without timeout_mutex_.
Arm ==
    /\ wpc = "arm"
    /\ timed' = (timeoutMs > 0)
    /\ wpc' = "select"
    /\ UNCHANGED <<ownerVars, timeoutVars, pipeVars, cbNotify, readFds, todo, savedCb, readable>>

\* select() returns descriptors; the notification pipe is looked at first.
SelectReady ==
    /\ wpc = "select"
    /\ SomethingReady
    /\ readFds' = ReadyFds
    /\ wpc' = IF pipe > 0 THEN "drain" ELSE "dispatch"
    /\ UNCHANGED <<ownerVars, timeoutVars, pipeVars, cbNotify, timed, todo, savedCb, readable>>

SelectTimesOut ==
    /\ wpc = "select"
    /\ timed
    /\ ~SomethingReady
    /\ wpc' = "timedOut"
    /\ UNCHANGED <<ownerVars, timeoutVars, pipeVars, cbNotify, loopVars, readable>>

\* EINTR: the kernel looks for ready descriptors before it reports a signal.
SelectInterrupted ==
    /\ wpc = "select"
    /\ ~SomethingReady
    /\ wpc' = "loop"
    /\ UNCHANGED <<ownerVars, timeoutVars, pipeVars, cbNotify, loopVars, readable>>

\* One byte is read and the other ready descriptors are left for later.
Drain ==
    /\ wpc = "drain"
    /\ pipe' = pipe - 1
    /\ wpc' = "loop"
    /\ UNCHANGED <<ownerVars, timeoutVars, pipeOpen, cbNotify, loopVars, readable>>

FetchTimeoutCb ==
    /\ wpc = "timedOut"
    /\ savedCb' = FetchedCb(timeoutCb, timeoutMs)
    /\ wpc' = IF savedCb' = NoCb THEN "loop" ELSE "timeoutCb"
    /\ UNCHANGED <<ownerVars, timeoutVars, pipeVars, cbNotify, readFds, timed, todo, readable>>

TimeoutCbReturns ==
    /\ wpc = "timeoutCb"
    /\ ~cbNotify
    /\ savedCb' = NoCb
    /\ wpc' = "loop"
    /\ UNCHANGED <<ownerVars, timeoutVars, pipeVars, cbNotify, readFds, timed, todo, readable>>

\* internal_mutex_ is taken here and given back when todo is empty again.
Dispatch ==
    /\ wpc = "dispatch"
    /\ todo' = watched \cap readFds
    /\ wpc' = IF todo' = {} THEN "loop" ELSE "callback"
    /\ UNCHANGED <<ownerVars, timeoutVars, pipeVars, cbNotify, readFds, timed, savedCb, readable>>

\* A read callback consumes what its descriptor has, or only a part of it.
CallbackReturns ==
    /\ wpc = "callback"
    /\ ~cbNotify
    /\ readable' \in {readable, readable \ {LowestFd(todo)}}
    /\ todo' = todo \ {LowestFd(todo)}
    /\ wpc' = IF todo' = {} THEN "loop" ELSE "callback"
    /\ UNCHANGED <<ownerVars, timeoutVars, pipeVars, cbNotify, readFds, timed, savedCb>>

(***************************************************************************)
(* The environment: data arrives; init restarts a service that aborted.    *)
(***************************************************************************)
DataArrives(f) ==
    /\ f \notin readable
    /\ readable' = readable \cup {f}
    /\ UNCHANGED <<ownerVars, timeoutVars, pipeVars, wpc, cbNotify, loopVars>>

ServiceRestarts ==
    /\ opc = "aborted"
    /\ running' = FALSE /\ watched' = {} /\ opc' = "idle"
    /\ timeoutCb' = NoCb /\ timeoutMs' = 0
    /\ pipe' = 0 /\ pipeOpen' = FALSE
    /\ wpc' = "none" /\ cbNotify' = FALSE
    /\ readFds' = {} /\ timed' = FALSE /\ todo' = {} /\ savedCb' = NoCb
    /\ readable' = {}

(***************************************************************************)
(* The specification.                                                      *)
(***************************************************************************)
OwnerCalls == \/ \E f \in Fds : WatchFd(f)
              \/ \E pair \in TimeoutPairs : OwnerConfigures(pair)
              \/ Stop

OwnerSteps == \/ AlreadyStarted
              \/ StartThread
              \/ OwnerConfigured
              \/ StopNotify
              \/ StopJoin
              \/ StopClear
              \/ StopClearTimeout
              \/ StopClose

WatcherSteps == \/ TestRunning
                \/ Collect
                \/ Arm
                \/ SelectReady
                \/ Drain
                \/ FetchTimeoutCb
                \/ Dispatch
                \/ CallbackConfigured

CallbackEnds == TimeoutCbReturns \/ CallbackReturns

Environment == \/ StartFails
               \/ JoinAborts
               \/ ServiceRestarts
               \/ SelectTimesOut
               \/ SelectInterrupted
               \/ \E f \in Fds : DataArrives(f)
               \/ \E pair \in TimeoutPairs : CallbackConfigures(pair)

WatcherNext == OwnerCalls \/ OwnerSteps \/ WatcherSteps \/ CallbackEnds \/ Environment

WatcherSpec == WatcherInit /\ [][WatcherNext]_watcherVars

\* Both threads are scheduled, a call that has begun goes on, and a callback,
\* however often it reconfigures the timeout, returns in the end.  Calls, data,
\* timeouts, signals and failures are never owed.
Fairness == /\ WF_watcherVars(OwnerSteps)
            /\ WF_watcherVars(WatcherSteps)
            /\ SF_watcherVars(CallbackEnds)

WatcherFairSpec == WatcherSpec /\ Fairness

(***************************************************************************)
(* Properties.                                                             *)
(***************************************************************************)
\* Every variable keeps its range; the pipe never holds more than it can.
WatcherTypeOK ==
    /\ running \in BOOLEAN
    /\ watched \subseteq Fds
    /\ timeoutCb \in TimeoutCbs \cup {ZeroCb, NoCb}
    /\ timeoutMs \in {0, 1}
    /\ pipe \in 0..PipeCapacity
    /\ pipeOpen \in BOOLEAN
    /\ opc \in OwnerPcs
    /\ wpc \in WatcherPcs
    /\ cbNotify \in BOOLEAN
    /\ readFds \subseteq Fds
    /\ timed \in BOOLEAN
    /\ todo \subseteq Fds
    /\ savedCb \in TimeoutCbs \cup {ZeroCb, NoCb}
    /\ readable \subseteq Fds

\* The flag and the timeout are stored before the byte is written and read
\* after it is drained, so select() is never entered, or slept in, with a stop
\* or a changed timeout that nothing will announce.
NoLostWakeup ==
    /\ wpc \in {"collect", "arm", "select"} /\ ~running
         => pipe > 0 \/ opc = "stopNotify"
    /\ wpc = "select" /\ ~(timed <=> timeoutMs > 0)
         => pipe > 0 \/ opc = "configNotify"

\* Once stopThread has joined there is no thread: neither the map it then
\* clears nor the descriptors it closes are used again, and a later start finds
\* no joinable thread_ (assigning to one would abort).
StopIsFinal ==
    /\ opc \in {"stopClear", "stopClearTimeout", "stopClose"} => wpc = "none"
    /\ opc \in {"idle", "tryStart"} /\ ~running => wpc = "none"
    /\ wpc # "none" => pipeOpen

\* A read callback that is invoked is still in the map, whatever the owner does
\* ("Hold the mutex to make sure that the callbacks are still valid.").
CallbacksValid == wpc = "callback" => todo # {} /\ todo \subseteq watched

\* The callback installed with timeout 0 ("Zero timeout! Should never happen.")
\* is never invoked: the pair is stored, and fetched, under timeout_mutex_, and
\* select()'s own deadline may be of an older pair.
ZeroTimeoutNeverFires == wpc = "timeoutCb" => savedCb # ZeroCb

\* A stop that has begun completes (if there is a thread to be joined), even when
\* it races a full pipe, a timeout or a callback.
StopCompletes == opc = "stopNotify" /\ wpc # "none" ~> opc = "idle" /\ wpc = "none"

\* The thread sleeps in select(), or is about to, with a set that was built
\* before f was watched; nothing tells it (WatchFdForNonBlockingReads does not
\* notify).
Overlooked(f) == wpc \in {"arm", "select"} /\ f \notin readFds

\* "Wait until there is data available to read on some FD": if the owner at some
\* point leaves the timeout alone, data on a watched descriptor is given to its
\* callback (or the watch is stopped), except while the descriptor is overlooked.
DataServed ==
    <>[](opc # "configNotify") =>
        \A f \in Fds : f \in watched /\ f \in readable /\ wpc # "none" /\ ~Overlooked(f)
                         ~> \/ wpc = "callback" /\ f = LowestFd(todo)
                            \/ f \notin watched

=============================================================================
