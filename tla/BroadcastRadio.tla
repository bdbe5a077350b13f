--------------------------- MODULE BroadcastRadio ---------------------------
(***************************************************************************)
(* The broadcast radio module (radio/BroadcastRadio), the sessions it opens*)
(* and the locks between them.  The module's mMut guards openSession and   *)
(* getAmFmConfig; a session's mMut guards each of its calls and the tasks  *)
(* of its worker.  The calls come on four binder threads (service.cpp);    *)
(* what a session does beside locking is in TunerSession.                  *)
(***************************************************************************)
EXTENDS Naturals, FiniteSets

CONSTANTS
    Threads,     \* the binder threads
    Sessions,    \* bound: the sessions that exist at a time
    NoSession,   \* mSession promotes to nothing, or a thread deals with no session
    Free         \* no thread holds the lock

ASSUME RadioAssumption ==
    /\ NoSession \notin Sessions
    /\ Free \notin Threads

VARIABLES
    pc,          \* per thread: where it is
    arg,         \* per thread: the session it deals with
    moduleMut,   \* the holder of BroadcastRadio::mMut
    sessionMut,  \* per session: the holder of TunerSession::mMut
    mSession,    \* BroadcastRadio::mSession, a weak pointer
    alive,       \* the sessions that exist
    closed       \* the sessions with mIsClosed

radioVars == <<pc, arg, moduleMut, sessionMut, mSession, alive, closed>>
locks == <<moduleMut, sessionMut>>
state == <<mSession, alive, closed>>

PCs == {"idle", "openLock", "openCloseLock", "openClosing", "openNew", "configLock", "config",
        "lock", "called", "stepConfig", "stepConfigRead", "stepEnd"}

RadioInit ==
    /\ pc = [t \in Threads |-> "idle"]
    /\ arg = [t \in Threads |-> NoSession]
    /\ moduleMut = Free
    /\ sessionMut = [s \in Sessions |-> Free]
    /\ mSession = NoSession
    /\ alive = {} /\ closed = {}

At(t, from, to) == pc[t] = from /\ pc' = [pc EXCEPT ![t] = to]

TakeModule(t) == moduleMut = Free /\ moduleMut' = t
TakeSession(t, s) == sessionMut[s] = Free /\ sessionMut' = [sessionMut EXCEPT ![s] = t]
DropSession(s) == sessionMut' = [sessionMut EXCEPT ![s] = Free]

Opening == {"openCloseLock", "openClosing", "openNew"}

(***************************************************************************)
(* openSession                                                             *)
(***************************************************************************)
\* What is left of the bound on sessions.
RoomForSession ==
    Cardinality(alive) + Cardinality({t \in Threads : pc[t] \in {"openLock"} \cup Opening})
      < Cardinality(Sessions)

Open(t) ==
    /\ RoomForSession
    /\ At(t, "idle", "openLock")
    /\ UNCHANGED <<arg, locks, state>>

\* The old session is forgotten and not closed.
OpenLockedBug(t) ==
    /\ At(t, "openLock", "openNew")
    /\ TakeModule(t)
    /\ mSession' = NoSession
    /\ UNCHANGED <<arg, sessionMut, alive, closed>>

\* mMut is taken and mSession promoted: the session is there as long as somebody
\* has a reference, and this one keeps it.
OpenLocked(t) ==
    /\ TakeModule(t)
    /\ \/ /\ mSession \in alive
          /\ At(t, "openLock", "openCloseLock")
          /\ arg' = [arg EXCEPT ![t] = mSession]
       \/ /\ mSession \notin alive
          /\ At(t, "openLock", "openNew")
          /\ UNCHANGED arg
    /\ UNCHANGED <<sessionMut, state>>

\* oldSession->close(), with mMut held
OpenCloseLocked(t) ==
    /\ At(t, "openCloseLock", "openClosing")
    /\ TakeSession(t, arg[t])
    /\ UNCHANGED <<arg, moduleMut, state>>

\* close waits for the worker's task, which waits for the lock that is held.
OpenClosedWaitsBug(t) ==
    /\ pc[t] = "openClosing"
    /\ UNCHANGED radioVars

OpenClosed(t) ==
    /\ At(t, "openClosing", "openNew")
    /\ closed' = closed \cup {arg[t]}
    /\ DropSession(arg[t])
    /\ mSession' = NoSession
    /\ UNCHANGED <<arg, moduleMut, alive>>

\* The new session, its reference handed to the client and the lock dropped.
OpenNew(t) ==
    /\ At(t, "openNew", "idle")
    /\ \E s \in Sessions \ alive :
          /\ mSession' = s
          /\ alive' = alive \cup {s}
    /\ arg' = [arg EXCEPT ![t] = NoSession]
    /\ moduleMut' = Free
    /\ UNCHANGED <<sessionMut, closed>>

(***************************************************************************)
(* getAmFmRegionConfig(false)                                              *)
(***************************************************************************)
GetConfig(t) ==
    /\ At(t, "idle", "configLock")
    /\ UNCHANGED <<arg, locks, state>>

GetConfigLocked(t) ==
    /\ At(t, "configLock", "config")
    /\ TakeModule(t)
    /\ UNCHANGED <<arg, sessionMut, state>>

GetConfigReturns(t) ==
    /\ At(t, "config", "idle")
    /\ moduleMut' = Free
    /\ UNCHANGED <<arg, sessionMut, state>>

(***************************************************************************)
(* Calls on a session: tune (scan and cancel alike), close and step.       *)
(***************************************************************************)
SessionCall(t, s) ==
    /\ s \in alive
    /\ At(t, "idle", "lock")
    /\ arg' = [arg EXCEPT ![t] = s]
    /\ UNCHANGED <<locks, state>>

CallLocked(t) ==
    /\ At(t, "lock", "called")
    /\ TakeSession(t, arg[t])
    /\ UNCHANGED <<arg, moduleMut, state>>

Returns(t, from) ==
    /\ At(t, from, "idle")
    /\ DropSession(arg[t])
    /\ arg' = [arg EXCEPT ![t] = NoSession]

TuneReturns(t) ==
    /\ Returns(t, "called")
    /\ UNCHANGED <<moduleMut, state>>

CloseReturns(t) ==
    /\ Returns(t, "called")
    /\ closed' = closed \cup {arg[t]}
    /\ UNCHANGED <<moduleMut, mSession, alive>>

\* step of an open session: getAmFmRangeLocked calls getAmFmConfig, with the
\* session's mMut held.
StepFindsRange(t) ==
    /\ arg[t] \notin closed
    /\ At(t, "called", "stepConfig")
    /\ UNCHANGED <<arg, locks, state>>

StepConfigLocked(t) ==
    /\ At(t, "stepConfig", "stepConfigRead")
    /\ TakeModule(t)
    /\ UNCHANGED <<arg, sessionMut, state>>

StepConfigRead(t) ==
    /\ At(t, "stepConfigRead", "stepEnd")
    /\ moduleMut' = Free
    /\ UNCHANGED <<arg, sessionMut, state>>

StepReturns(t) ==
    /\ Returns(t, "stepEnd")
    /\ UNCHANGED <<moduleMut, state>>

\* The client drops its session, closed or not; no call of its is under way and
\* openSession does not hold it.
Dropped(s) ==
    /\ s \in alive
    /\ \A t \in Threads : arg[t] # s
    /\ alive' = alive \ {s}
    /\ closed' = closed \ {s}
    /\ UNCHANGED <<pc, arg, locks, mSession>>

Runs(t) == \/ OpenLocked(t) \/ OpenCloseLocked(t) \/ OpenClosed(t) \/ OpenNew(t)
           \/ GetConfigLocked(t) \/ GetConfigReturns(t)
           \/ CallLocked(t) \/ TuneReturns(t) \/ CloseReturns(t)
           \/ StepFindsRange(t) \/ StepConfigLocked(t) \/ StepConfigRead(t) \/ StepReturns(t)

RadioNext ==
    \/ \E t \in Threads : Open(t) \/ GetConfig(t) \/ Runs(t)
    \/ \E t \in Threads, s \in Sessions : SessionCall(t, s)
    \/ \E s \in Sessions : Dropped(s)

RadioSpec == RadioInit /\ [][RadioNext]_radioVars

\* A thread runs on, and a lock goes to each of those who want it in turn.
RadioFairSpec == RadioSpec /\ \A t \in Threads : SF_radioVars(Runs(t))

(***************************************************************************)
(* Properties.                                                             *)
(***************************************************************************)
ModuleHeld == Opening \cup {"config", "stepConfigRead"}
SessionHeld == {"openClosing", "called", "stepConfig", "stepConfigRead", "stepEnd"}

\* The variables keep their ranges, and a lock is held by the thread that is where
\* the code holds it, and by no thread when none is.
RadioTypeOK ==
    /\ pc \in [Threads -> PCs]
    /\ arg \in [Threads -> Sessions \cup {NoSession}]
    /\ moduleMut \in Threads \cup {Free}
    /\ sessionMut \in [Sessions -> Threads \cup {Free}]
    /\ mSession \in Sessions \cup {NoSession}
    /\ alive \subseteq Sessions /\ closed \subseteq alive
    /\ \A t \in Threads : moduleMut = t <=> pc[t] \in ModuleHeld
    /\ \A t \in Threads, s \in Sessions :
          sessionMut[s] = t <=> arg[t] = s /\ pc[t] \in SessionHeld

\* The tuner has one user: however the clients open, drop and close, and on however
\* many threads, at most one session that exists is open, and openSession would
\* find it.
OneOpenSession == alive \ closed \subseteq {mSession}

\* Nothing but a step of the very session it closes can keep openSession from
\* returning: whoever else holds one of the two locks gives it back, however the
\* calls of the other threads follow each other.  (openSession holds mMut and
\* wants the session's, that step holds the session's and wants mMut: they wait
\* for each other for ever.)
OpenSessionReturns ==
    \A t \in Threads :
        pc[t] = "openCloseLock"
          ~> \/ pc[t] = "idle"
             \/ \E u \in Threads : pc[u] = "stepConfig" /\ arg[u] = arg[t]

=============================================================================
