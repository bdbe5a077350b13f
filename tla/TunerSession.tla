---------------------------- MODULE TunerSession ----------------------------
(***************************************************************************)
(* A tuner session of the broadcast radio HAL (radio/TunerSession).  tune, *)
(* scan and step answer at once and leave a delayed task to the worker     *)
(* thread; a successful one starts a chain of metadata tasks, each of which*)
(* schedules the next.  Calls and tasks run under mMut, one at a time; the *)
(* metadata task alone takes no lock.                                      *)
(*                                                                         *)
(* The worker thread (WorkerThread of broadcastradio@common-utils-lib) is  *)
(* external: a queue ordered by deadline, from which the first task is     *)
(* taken when its time has come and run outside the queue's lock, so that  *)
(* cancelAll does not reach the task that has been taken.                  *)
(***************************************************************************)
EXTENDS Integers, Sequences, FiniteSets, SequencesExt

CONSTANTS
    Ranges,     \* the ranges of gDefaultAmFmConfig: [lower, upper, spacing]
    Programs,   \* the frequencies a client tunes to and the driver reports, those
                \* in none of the ranges included
    GetBand,    \* utils::getBand (external): the band of a frequency
    Delay,      \* per kind of task: its delay, in ticks
    MaxCalls    \* bound: tune, scan, step and cancel calls of the session

FreqsOf(r) == r.lower..r.upper
Freqs == Programs \cup UNION {FreqsOf(r) : r \in Ranges}
AmBands == {"AM_LW", "AM_MW", "AM_SW"}
Bands == {"UNKNOWN", "FM"} \cup AmBands
Kinds == {"band", "tune", "step", "seek", "metadata"}

\* What switchAmFmBand tells the driver; it has no value for UNKNOWN.
Modulation(b) == IF b = "FM" THEN "FM" ELSE IF b \in AmBands THEN "AM" ELSE "none"
ModulationOf(f) == Modulation(GetBand[f])

\* A step down from a range never falls below 0, and a range is all FM or all AM, if of
\* more than one AM band.
ASSUME RangesAssumption ==
    /\ Ranges \subseteq [lower : Nat, upper : Nat, spacing : Nat \ {0}]
    /\ \A r, s \in Ranges : r # s => FreqsOf(r) \cap FreqsOf(s) = {}
    /\ \A r \in Ranges : r.spacing <= r.lower /\ r.lower + r.spacing <= r.upper
    /\ \A r \in Ranges : \A f, g \in FreqsOf(r) : ModulationOf(f) = ModulationOf(g)
ASSUME BandsAssumption == Programs \subseteq Nat \ {0} /\ GetBand \in [Freqs -> Bands]
\* The order of the delays of namespace delay.
ASSUME DelayAssumption ==
    /\ Delay \in [Kinds -> Nat \ {0}]
    /\ Delay["band"] < Delay["step"] /\ Delay["step"] < Delay["tune"]
    /\ Delay["tune"] < Delay["seek"] /\ Delay["seek"] < Delay["metadata"]
ASSUME CallsAssumption == MaxCalls \in Nat

VARIABLES
    queue,         \* the worker's tasks: [task, in], in: ticks to go
    running,       \* the task the worker has taken, or NoTask
    mpc,           \* where the metadata task is
    exit,          \* mMetadataThreadExit
    isClosed,      \* mIsClosed
    completed,     \* mIsTuneCompleted
    program,       \* mCurrentProgram: a frequency, or 0
    band,          \* mCurrentBand
    deviceBand,    \* the modulation the driver was told: "FM", "AM" or "none"
    life,          \* "alive", "dying" (in the destructor) or "gone"
    deadUse,       \* a member was used after it was destroyed
    calls,         \* calls made
    disturbed      \* the client did not wait for an answer, or the driver has
                   \* refused a band or reported a frequency of another one

session == <<exit, isClosed, completed, program, band>>
client  == <<life, deadUse, calls, disturbed>>
vars == <<queue, running, mpc, session, deviceBand, client>>

NoProgram == 0
Task(kind, f) == [kind |-> kind, freq |-> f, band |-> "UNKNOWN"]
BandTask(b) == [kind |-> "band", freq |-> NoProgram, band |-> b]
NoTask == Task("none", NoProgram)

RangesOf(f) == {r \in Ranges : f \in FreqsOf(r)}

\* A frequency is FM, AM or neither, and m suits it.
Suits(m, f) == ModulationOf(f) \in {"none", m}

(***************************************************************************)
(* The worker's queue (external).                                          *)
(***************************************************************************)
Entry(t) == [task |-> t, in |-> Delay[t.kind]]

\* WorkerThread::schedule: behind every task that is due no later.
Schedule(q, t) ==
    LET e == Entry(t)
        sooner == {i \in 1..Len(q) : q[i].in <= e.in}
    IN  InsertAt(q, Cardinality(sooner) + 1, e)

Tick ==
    /\ \E i \in 1..Len(queue) : queue[i].in > 0
    /\ queue' = [i \in 1..Len(queue) |->
                    [queue[i] EXCEPT !.in = IF @ > 0 THEN @ - 1 ELSE 0]]
    /\ UNCHANGED <<running, mpc, session, deviceBand, client>>

Take ==
    /\ life # "gone"
    /\ running = NoTask
    /\ queue # <<>> /\ Head(queue).in = 0
    /\ running' = Head(queue).task
    /\ mpc' = IF running'.kind = "metadata" THEN "read" ELSE "none"
    /\ queue' = Tail(queue)
    /\ UNCHANGED <<session, deviceBand, client>>

(***************************************************************************)
(* The client's calls.                                                     *)
(***************************************************************************)
Tuning == {"tune", "step", "seek"}
KindsOf(q) == {q[i].task.kind : i \in 1..Len(q)}
Pending == (KindsOf(queue) \cup {running.kind}) \cap Tuning # {}

\* Under mMut; a call on a closed session returns at once.
Called ==
    /\ life = "alive"
    /\ ~isClosed
    /\ calls < MaxCalls
    /\ calls' = calls + 1
    /\ disturbed' = (disturbed \/ Pending)
    /\ UNCHANGED <<running, mpc, isClosed, program, band, deviceBand, life, deadUse>>

\* mIsTuneCompleted after cancelLocked.
CancelledTune == completed \/ program # NoProgram

\* What waits is left in the queue.
CancelLockedBug(q) ==
    /\ exit' = TRUE
    /\ queue' = queue \o q

\* cancelLocked, and then the tasks of q are scheduled.
CancelLocked(q) ==
    /\ exit' = TRUE
    /\ queue' = q

SwitchAmFmBand(b) == Schedule(<<>>, BandTask(b))

\* The band is switched whatever is tuned to.
TuneBug(f) ==
    /\ Called
    /\ CancelLocked(Schedule(<<>>, Task("tune", f)))
    /\ completed' = FALSE

\* tune: newBand is compared with the band of the last switch that was made.  Whether
\* f is in one of the ranges is not asked.
Tune(f) ==
    /\ Called
    /\ CancelLocked(Schedule(IF GetBand[f] # band THEN SwitchAmFmBand(GetBand[f]) ELSE <<>>,
                             Task("tune", f)))
    /\ completed' = FALSE

Scan ==
    /\ Called
    /\ CancelLocked(Schedule(IF band = "UNKNOWN" THEN SwitchAmFmBand("FM") ELSE <<>>,
                             Task("seek", NoProgram)))
    /\ completed' = FALSE

\* The upper end is not wrapped.
SteppedBug(up, r) ==
    LET f == IF up THEN program + r.spacing ELSE program - r.spacing
    IN  IF f < r.lower THEN r.upper ELSE f

\* The frequency a step goes to: it wraps around at the ends of the band.
Stepped(up, r) ==
    LET f == IF up THEN program + r.spacing ELSE program - r.spacing
        g == IF f > r.upper THEN r.lower ELSE f
    IN  IF g < r.lower THEN r.upper ELSE g

\* step, and getAmFmRangeLocked after cancelLocked.
Step(up) ==
    /\ Called
    /\ program # NoProgram
    /\ \E r \in RangesOf(program) :
          CancelLocked(Schedule(<<>>, Task("step", Stepped(up, r))))
    /\ completed' = FALSE

\* step with nothing to step from, or from outside the ranges ("Can't find current
\* band"): what was pending is cancelled all the same.
StepRefused ==
    /\ Called
    /\ program = NoProgram \/ RangesOf(program) = {}
    /\ CancelLocked(<<>>)
    /\ completed' = CancelledTune

Cancel ==
    /\ Called
    /\ CancelLocked(<<>>)
    /\ completed' = CancelledTune

\* close
Close ==
    /\ life = "alive"
    /\ ~isClosed
    /\ isClosed' = TRUE
    /\ exit' = TRUE
    /\ queue' = <<>>
    /\ UNCHANGED <<running, mpc, completed, program, band, deviceBand, client>>

\* The last reference is dropped.  mMetadataThreadExit is set; then the
\* members go, the last declared first: mCallback and mMetadataTask before
\* mThread, whose destructor joins the worker.
Destroy ==
    /\ life = "alive"
    /\ life' = "dying"
    /\ exit' = TRUE
    /\ UNCHANGED <<queue, running, mpc, isClosed, completed, program, band, deviceBand, deadUse,
                   calls, disturbed>>

\* ~WorkerThread: the worker ends when the task it runs is done.
Joined ==
    /\ life = "dying"
    /\ running = NoTask
    /\ life' = "gone"
    /\ queue' = <<>>
    /\ UNCHANGED <<running, mpc, session, deviceBand, deadUse, calls, disturbed>>

(***************************************************************************)
(* The tasks.                                                              *)
(***************************************************************************)
\* mCallback and mMetadataTask are there until the destructor is entered.
UsesMembers == deadUse' = (deadUse \/ life # "alive") /\ UNCHANGED <<life, calls>>

TaskDone == running' = NoTask /\ mpc' = "none"

\* A band request that fails leaves mCurrentBand.
DoSwitchBand ==
    /\ running.kind = "band"
    /\ TaskDone
    /\ \/ /\ band' = running.band /\ deviceBand' = Modulation(running.band)
          /\ UNCHANGED disturbed
       \/ /\ disturbed' = TRUE
          /\ UNCHANGED <<band, deviceBand>>
    /\ UNCHANGED <<queue, exit, isClosed, completed, program, life, deadUse, calls>>

\* The state of the session is not looked at.
LaunchMetadataFetchTaskBug ==
    /\ exit' = FALSE
    /\ queue' = Schedule(queue, Task("metadata", NoProgram))

\* launchMetadataFetchTask
LaunchMetadataFetchTask ==
    IF isClosed THEN UNCHANGED <<exit, queue>>
    ELSE /\ exit' = FALSE
         /\ queue' = Schedule(queue, Task("metadata", NoProgram))

\* mIsTuneCompleted is set only when the driver agreed.
DoTuneBug ==
    /\ running.kind \in {"tune", "step"}
    /\ TaskDone
    /\ program' = running.freq
    /\ \/ LaunchMetadataFetchTask /\ completed' = TRUE
       \/ UNCHANGED <<exit, queue, completed>>
    /\ UsesMembers
    /\ UNCHANGED <<isClosed, band, deviceBand, disturbed>>

\* tuneInternalLocked: the program is the new one and the tune complete also
\* when the driver refuses the frequency.
DoTune ==
    /\ running.kind \in {"tune", "step"}
    /\ TaskDone
    /\ program' = running.freq
    /\ completed' = TRUE
    /\ \/ LaunchMetadataFetchTask
       \/ UNCHANGED <<exit, queue>>
    /\ UsesMembers
    /\ UNCHANGED <<isClosed, band, deviceBand, disturbed>>

\* The task of scan: the program is the frequency the driver reports, whatever it is,
\* or gatherProgramInfo fails and the program stays.
DoSeek ==
    /\ running.kind = "seek"
    /\ TaskDone
    /\ \/ /\ LaunchMetadataFetchTask
          /\ program' \in Programs
          /\ disturbed' = (disturbed \/ ~Suits(deviceBand, program'))
       \/ LaunchMetadataFetchTask /\ UNCHANGED <<program, disturbed>>
       \/ UNCHANGED <<exit, queue, program, disturbed>>
    /\ completed' = TRUE
    /\ UsesMembers
    /\ UNCHANGED <<isClosed, band, deviceBand>>

\* The metadata task: the callback, then the flag is tested, then the task is
\* scheduled again; calls may come between.
MetadataRead ==
    /\ mpc = "read"
    /\ mpc' = "test"
    /\ UsesMembers
    /\ UNCHANGED <<queue, running, session, deviceBand, disturbed>>

MetadataTest ==
    /\ mpc = "test"
    /\ IF exit THEN TaskDone ELSE mpc' = "schedule" /\ UNCHANGED running
    /\ UNCHANGED <<queue, session, deviceBand, client>>

MetadataSchedule ==
    /\ mpc = "schedule"
    /\ queue' = Schedule(queue, Task("metadata", NoProgram))
    /\ TaskDone
    /\ UsesMembers
    /\ UNCHANGED <<session, deviceBand, disturbed>>

\* openSession's switchAmFmBand(FM) is the first task.
Init == /\ queue = SwitchAmFmBand("FM")
        /\ running = NoTask /\ mpc = "none"
        /\ exit = FALSE /\ isClosed = FALSE /\ completed = FALSE
        /\ program = NoProgram
        /\ band = "UNKNOWN" /\ deviceBand = "none"
        /\ life = "alive" /\ deadUse = FALSE
        /\ calls = 0 /\ disturbed = FALSE

Worker == Take \/ DoSwitchBand \/ DoTune \/ DoSeek
          \/ MetadataRead \/ MetadataTest \/ MetadataSchedule

Client == \/ \E f \in Programs : Tune(f)
          \/ Scan
          \/ \E up \in BOOLEAN : Step(up)
          \/ StepRefused \/ Cancel \/ Close \/ Destroy

Next == Tick \/ Worker \/ Client \/ Joined

Spec == Init /\ [][Next]_vars

\* Time passes and the worker runs; the client owes nothing.
FairSpec == Spec /\ WF_vars(Tick) /\ WF_vars(Worker) /\ WF_vars(Joined)

(***************************************************************************)
(* Properties.                                                             *)
(***************************************************************************)
\* The variables keep their ranges, and the queue is in the order of deadlines.
TypeOK ==
    /\ queue \in Seq([task : [kind : Kinds, freq : Nat, band : Bands], in : 0..Delay["metadata"]])
    /\ \A i, j \in 1..Len(queue) : i < j => queue[i].in <= queue[j].in
    /\ running.kind \in Kinds \cup {"none"}
    /\ mpc \in {"none", "read", "test", "schedule"}
    /\ mpc # "none" <=> running.kind = "metadata"
    /\ exit \in BOOLEAN /\ isClosed \in BOOLEAN /\ completed \in BOOLEAN
    /\ band \in Bands /\ deviceBand \in {"FM", "AM", "none"}
    /\ life \in {"alive", "dying", "gone"} /\ deadUse \in BOOLEAN
    /\ calls \in 0..MaxCalls /\ disturbed \in BOOLEAN

\* A step that was begun from a frequency of one range ends in that range, however it
\* wraps around, for a client that waits for each answer; and in one of the ranges for
\* any client, though a tune or a seek may have left them all.  (Without the wait, the
\* step of before a tune may end after it, in the range the tune has left.)
StepStaysInRange ==
    [][running.kind = "step" /\ running' = NoTask
         => /\ RangesOf(program') # {}
            /\ ~disturbed => RangesOf(program') = RangesOf(program)]_vars

\* An open session that says a tune is under way has a task that will say it is
\* done, unless it was cancelled before the first: a call that replaces or cancels
\* a task does not leave mIsTuneCompleted behind.
IncompleteIsPending ==
    ~completed /\ ~isClosed /\ life = "alive" => Pending \/ program = NoProgram

\* The chains of metadata tasks do not pile up: cancelAll takes what waits, and the
\* task it does not reach leaves one chain beside that of the call.
AtMostTwoChains ==
    Cardinality({i \in 1..Len(queue) : queue[i].task.kind = "metadata"})
      + (IF running.kind = "metadata" THEN 1 ELSE 0) <= 2

\* For a client that waits for each answer, a channel that is reported as tuned is
\* in the band the device is in, unless it is of no band at all, or the driver refused a
\* band or reported a frequency of another one.  (Without the wait it need not be: tune
\* compares with the band of the last task that ran.)
TunedInItsBand ==
    [][~disturbed /\ running.kind \in {"tune", "step"} /\ running' = NoTask
         => Suits(deviceBand, program')]_vars

\* No task uses a member of the session after its destructor destroyed it.
NoUseAfterDestruction == ~deadUse

\* A closed session comes to rest for good: the task that was taken before close
\* ends without starting another chain.
ClosedQuiesces == isClosed ~> [](queue = <<>> /\ running = NoTask)

=============================================================================
