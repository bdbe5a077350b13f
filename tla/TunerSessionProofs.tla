-------------------------- MODULE TunerSessionProofs --------------------------
(***************************************************************************)
(* Proofs about TunerSession, for any ranges, frequencies, delays and      *)
(* number of calls: a tune that is not complete is pending, at most two    *)
(* chains of metadata tasks run at a time, a step ends in a range, and, for*)
(* a client that waits for each answer, in the one it began in and with the*)
(* device in the band of what is tuned to.                                 *)
(*                                                                         *)
(* A tuning task becomes a chain of metadata tasks when it has run, so what*)
(* is bounded is the number of both together.                              *)
(*                                                                         *)
(* At the end, the proofs about BroadcastRadio, the module that opens the  *)
(* sessions.                                                               *)
(***************************************************************************)
EXTENDS TunerSession, BroadcastRadio, FiniteSetTheorems, TLAPS

\* A task that tunes to a frequency has one, and a step one of a range.
Tasks == {t \in [kind : Kinds, freq : Nat, band : Bands] :
             /\ t.kind \in {"tune", "step"} => t.freq # NoProgram
             /\ t.kind = "step" => RangesOf(t.freq) # {}}
Entries == [task : Tasks, in : Nat]

\* r is q with e at place k.
Inserted(r, q, k, e) ==
    /\ r \in Seq(Entries) /\ Len(r) = Len(q) + 1
    /\ \A i \in 1..(Len(q) + 1) : r[i] = IF i < k THEN q[i] ELSE IF i = k THEN e ELSE q[i - 1]

\* What waits and is, or becomes, a chain of metadata tasks.
Waiting(q) == {i \in 1..Len(q) : q[i].task.kind # "band"}
Chains(t) == IF t.kind \in {"none", "band"} THEN 0 ELSE 1

(***************************************************************************)
(* The worker's queue.                                                     *)
(***************************************************************************)
LEMMA EntryType == \A t \in Tasks : Entry(t) \in Entries
  BY DelayAssumption DEF Entry, Entries, Tasks

LEMMA PositionType ==
  ASSUME NEW q \in Seq(Entries), NEW n \in Nat
  PROVE  Cardinality({i \in 1..Len(q) : q[i].in <= n}) \in 0..Len(q)
<1> DEFINE S == {i \in 1..Len(q) : q[i].in <= n}
<1>1. Len(q) \in Nat
  OBVIOUS
<1>2. IsFiniteSet(1..Len(q)) /\ Cardinality(1..Len(q)) = Len(q)
  BY <1>1, FS_Interval
<1>3. S \in SUBSET (1..Len(q))
  OBVIOUS
<1>4. IsFiniteSet(S) /\ Cardinality(S) <= Len(q)
  BY <1>2, <1>3, FS_Subset
<1>5. Cardinality(S) \in Nat
  BY <1>4, FS_CardinalityType
<1> HIDE DEF S
<1>6. Cardinality(S) \in 0..Len(q)
  BY <1>1, <1>4, <1>5
<1> QED BY <1>6 DEF S

\* InsertAt puts the entry at its place and moves nothing else.
LEMMA InsertedAt ==
  ASSUME NEW q \in Seq(Entries), NEW n \in 0..Len(q), NEW e \in Entries
  PROVE  Inserted(InsertAt(q, n + 1, e), q, n + 1, e)
<1> DEFINE a == SubSeq(q, 1, (n + 1) - 1)
           b == SubSeq(q, n + 1, Len(q))
<1>1. a \in Seq(Entries) /\ Len(a) = n /\ \A i \in 1..n : a[i] = q[i]
  OBVIOUS
<1>2. b \in Seq(Entries) /\ Len(b) = Len(q) - n
  OBVIOUS
<1>3. \A i \in 1..(Len(q) - n) : b[i] = q[i + n]
  OBVIOUS
<1> HIDE DEF a, b
<1>4. <<e>> \in Seq(Entries) /\ Len(<<e>>) = 1
  OBVIOUS
<1>5. a \o <<e>> \in Seq(Entries) /\ Len(a \o <<e>>) = n + 1
  BY <1>1, <1>4
<1>6. \A i \in 1..(n + 1) : (a \o <<e>>)[i] = IF i <= n THEN q[i] ELSE e
  BY <1>1, <1>4
<1> DEFINE c == a \o <<e>>
<1> HIDE DEF c
<1>7. c \o b \in Seq(Entries) /\ Len(c \o b) = Len(q) + 1
  BY <1>2, <1>5 DEF c
<1>8. ASSUME NEW i \in 1..(Len(q) + 1)
      PROVE  (c \o b)[i] = IF i < n + 1 THEN q[i] ELSE IF i = n + 1 THEN e ELSE q[i - 1]
  <2>1. CASE i <= n + 1
    BY <1>2, <1>5, <1>6, <2>1 DEF c
  <2>2. CASE i > n + 1
    <3>1. (c \o b)[i] = b[i - (n + 1)]
      BY <1>2, <1>5, <2>2 DEF c
    <3>2. i - (n + 1) \in 1..(Len(q) - n)
      BY <2>2
    <3>3. b[i - (n + 1)] = q[i - (n + 1) + n]
      BY <1>3, <3>2
    <3> QED BY <2>2, <3>1, <3>3
  <2>3. i <= n + 1 \/ i > n + 1
    OBVIOUS
  <2> QED BY <2>1, <2>2, <2>3
<1>9. Inserted(c \o b, q, n + 1, e)
  BY <1>7, <1>8 DEF Inserted
<1> QED BY <1>9 DEF InsertAt, c, a, b

\* schedule puts the task somewhere.
LEMMA ScheduleInserts ==
  ASSUME NEW q \in Seq(Entries), NEW t \in Tasks
  PROVE  \E k \in 1..(Len(q) + 1) : Inserted(Schedule(q, t), q, k, Entry(t))
<1> DEFINE e == Entry(t)
           n == Cardinality({i \in 1..Len(q) : q[i].in <= e.in})
<1>1. e \in Entries /\ e.in \in Nat
  BY EntryType DEF Entries
<1>2. n \in 0..Len(q)
  BY <1>1, PositionType
<1>3. Schedule(q, t) = InsertAt(q, n + 1, e)
  BY DEF Schedule
<1> HIDE DEF e, n
<1>4. n + 1 \in 1..(Len(q) + 1)
  BY <1>2
<1> QED BY <1>1, <1>2, <1>3, <1>4, InsertedAt DEF e

LEMMA ScheduleType ==
  ASSUME NEW q \in Seq(Entries), NEW t \in Tasks
  PROVE  Schedule(q, t) \in Seq(Entries)
BY ScheduleInserts DEF Inserted

\* What was there still is, and the task with it.
LEMMA ScheduleKinds ==
  ASSUME NEW q \in Seq(Entries), NEW t \in Tasks
  PROVE  /\ KindsOf(q) \subseteq KindsOf(Schedule(q, t))
         /\ t.kind \in KindsOf(Schedule(q, t))
<1> DEFINE r == Schedule(q, t)
<1>1. PICK k \in 1..(Len(q) + 1) : Inserted(r, q, k, Entry(t))
  BY ScheduleInserts
<1> HIDE DEF r
<1>2. Len(q) \in Nat /\ Len(r) = Len(q) + 1
  BY <1>1 DEF Inserted
<1>3. r[k].task = t
  BY <1>1, <1>2 DEF Inserted, Entry
<1>4. ASSUME NEW i \in 1..Len(q)
      PROVE  \E j \in 1..Len(r) : r[j] = q[i]
  <2>1. CASE i < k
    <3>1. i \in 1..Len(r) /\ r[i] = q[i]
      BY <1>1, <1>2, <2>1 DEF Inserted
    <3> QED BY <3>1
  <2>2. CASE i >= k
    <3>1. i + 1 \in 1..Len(r) /\ r[i + 1] = q[i + 1 - 1]
      BY <1>1, <1>2, <2>2 DEF Inserted
    <3> QED BY <3>1
  <2> QED BY <1>1, <2>1, <2>2
<1> QED BY <1>1, <1>2, <1>3, <1>4 DEF KindsOf, r

LEMMA WaitingFinite ==
  ASSUME NEW q \in Seq(Entries)
  PROVE  IsFiniteSet(Waiting(q)) /\ Cardinality(Waiting(q)) \in Nat
<1>1. Len(q) \in Nat /\ IsFiniteSet(1..Len(q))
  BY FS_Interval
<1>2. Waiting(q) \in SUBSET (1..Len(q))
  BY DEF Waiting
<1> QED BY <1>1, <1>2, FS_Subset, FS_CardinalityType

\* schedule adds one, or none with a task that switches the band.
LEMMA ScheduleWaiting ==
  ASSUME NEW q \in Seq(Entries), NEW t \in Tasks
  PROVE  Cardinality(Waiting(Schedule(q, t))) <= Cardinality(Waiting(q)) + Chains(t)
<1> DEFINE r == Schedule(q, t)
           S == Waiting(q)
           T == Waiting(r)
<1>1. PICK k \in 1..(Len(q) + 1) : Inserted(r, q, k, Entry(t))
  BY ScheduleInserts
<1>2. r \in Seq(Entries) /\ Len(q) \in Nat /\ Len(r) = Len(q) + 1
  BY <1>1 DEF Inserted
<1> HIDE DEF r
<1>3. r[k].task = t
  BY <1>1, <1>2 DEF Inserted, Entry
<1> DEFINE g == [i \in S |-> IF i < k THEN i ELSE i + 1]
<1>4. IsFiniteSet(S) /\ Cardinality(S) \in Nat /\ IsFiniteSet(T) /\ Cardinality(T) \in Nat
  BY <1>2, WaitingFinite
<1>5. g \in [S -> T \ {k}]
  <2>1. ASSUME NEW i \in S
        PROVE  g[i] \in T \ {k}
    <3>1. i \in 1..Len(q) /\ q[i].task.kind # "band"
      BY DEF Waiting
    <3>2. CASE i < k
      BY <1>1, <1>2, <3>1, <3>2 DEF Waiting, Inserted
    <3>3. CASE i >= k
      <4>1. i + 1 \in 1..Len(r) /\ r[i + 1] = q[i + 1 - 1]
        BY <1>1, <1>2, <3>1, <3>3 DEF Inserted
      <4>2. r[i + 1] = q[i]
        BY <3>1, <4>1
      <4> QED BY <1>1, <3>1, <3>3, <4>1, <4>2 DEF Waiting
    <3> QED BY <1>1, <3>1, <3>2, <3>3
  <2> QED BY <2>1
<1>6. ASSUME NEW j \in T \ {k}
      PROVE  \E i \in S : g[i] = j
  <2>1. j \in 1..Len(r) /\ r[j].task.kind # "band" /\ j # k
    BY DEF Waiting
  <2>2. CASE j < k
    <3>1. j \in 1..Len(q) /\ r[j] = q[j]
      BY <1>1, <1>2, <2>1, <2>2 DEF Inserted
    <3>2. j \in S
      BY <2>1, <3>1 DEF Waiting
    <3> QED BY <2>2, <3>2
  <2>3. CASE j > k
    <3>1. j - 1 \in 1..Len(q) /\ r[j] = q[j - 1]
      BY <1>1, <1>2, <2>1, <2>3 DEF Inserted
    <3>2. j - 1 \in S
      BY <2>1, <3>1 DEF Waiting
    <3>3. g[j - 1] = j
      BY <1>1, <1>2, <2>1, <2>3, <3>2
    <3> QED BY <3>2, <3>3
  <2> QED BY <1>1, <1>2, <2>1, <2>2, <2>3
<1>7. g \in Surjection(S, T \ {k})
  BY <1>5, <1>6 DEF Surjection
<1>8. Cardinality(T \ {k}) <= Cardinality(S)
  BY <1>4, <1>7, FS_Surjection
<1>9. Cardinality(T \ {k}) = IF k \in T THEN Cardinality(T) - 1 ELSE Cardinality(T)
  BY <1>4, FS_RemoveElement
<1>10. k \in T => Chains(t) = 1
  <2>1. t.kind # "none"
    BY DEF Tasks, Kinds
  <2> QED BY <1>3, <2>1 DEF Waiting, Chains
<1>11. Chains(t) \in {0, 1}
  BY DEF Chains
<1> HIDE DEF S, T, g
<1>12. Cardinality(T) <= Cardinality(S) + Chains(t)
  BY <1>4, <1>8, <1>9, <1>10, <1>11
<1> QED BY <1>12 DEF S, T, r

\* Taking the first task moves it from what waits to what runs.
LEMMA TailWaiting ==
  ASSUME NEW q \in Seq(Entries), q # <<>>
  PROVE  Cardinality(Waiting(Tail(q))) + Chains(Head(q).task) <= Cardinality(Waiting(q))
<1> DEFINE r == Tail(q)
           S == Waiting(q)
           T == Waiting(r)
           g == [i \in S \ {1} |-> i - 1]
<1>1. /\ Len(q) \in Nat /\ Len(q) > 0 /\ r \in Seq(Entries) /\ Len(r) = Len(q) - 1
      /\ \A i \in 1..Len(r) : r[i] = q[i + 1]
      /\ Head(q) = q[1] /\ q[1] \in Entries
  OBVIOUS
<1> HIDE DEF r
<1>2. IsFiniteSet(S) /\ Cardinality(S) \in Nat /\ IsFiniteSet(T) /\ Cardinality(T) \in Nat
  BY <1>1, WaitingFinite
<1>3. g \in [S \ {1} -> T]
  <2>1. ASSUME NEW i \in S \ {1}
        PROVE  i - 1 \in T
    <3>1. i \in 1..Len(q) /\ i # 1 /\ q[i].task.kind # "band"
      BY DEF Waiting
    <3>2. i - 1 \in 1..Len(r) /\ r[i - 1] = q[i - 1 + 1]
      BY <1>1, <3>1
    <3>3. r[i - 1] = q[i]
      BY <3>1, <3>2
    <3> QED BY <3>1, <3>2, <3>3 DEF Waiting
  <2> QED BY <2>1
<1>4. ASSUME NEW j \in T
      PROVE  \E i \in S \ {1} : g[i] = j
  <2>1. j \in 1..Len(r) /\ r[j].task.kind # "band"
    BY DEF Waiting
  <2>2. j + 1 \in 1..Len(q) /\ j + 1 # 1 /\ q[j + 1] = r[j]
    BY <1>1, <2>1
  <2>3. j + 1 \in S \ {1}
    BY <2>1, <2>2 DEF Waiting
  <2>4. g[j + 1] = j
    BY <2>1, <2>3
  <2> QED BY <2>3, <2>4
<1>5. g \in Surjection(S \ {1}, T)
  BY <1>3, <1>4 DEF Surjection
<1>6. /\ IsFiniteSet(S \ {1})
      /\ Cardinality(S \ {1}) = IF 1 \in S THEN Cardinality(S) - 1 ELSE Cardinality(S)
  BY <1>2, FS_RemoveElement
<1>7. Cardinality(T) <= Cardinality(S \ {1})
  BY <1>5, <1>6, FS_Surjection
<1>8. Chains(Head(q).task) = 1 => 1 \in S
  BY <1>1 DEF Waiting, Chains
<1>9. Chains(Head(q).task) \in {0, 1}
  BY DEF Chains
<1> HIDE DEF S, T, g
<1>10. Cardinality(T) + Chains(Head(q).task) <= Cardinality(S)
  BY <1>2, <1>6, <1>7, <1>8, <1>9
<1> QED BY <1>10 DEF S, T, r

(***************************************************************************)
(* The inductive invariant.                                                *)
(***************************************************************************)
Typed ==
    /\ queue \in Seq(Entries)
    /\ running \in Tasks \cup {NoTask}
    /\ program \in Nat
    /\ mpc # "none" => running.kind = "metadata"

\* The chains of metadata tasks, and the tasks that will begin one.
ChainsBounded == Cardinality(Waiting(queue)) + Chains(running) <= 2

IInv == Typed /\ ChainsBounded /\ IncompleteIsPending

\* Fields of the tasks the session schedules.
LEMMA TaskFields ==
  /\ \A k \in Kinds, f \in Nat :
        (k \in {"tune", "step"} => f # NoProgram) /\ (k = "step" => RangesOf(f) # {})
          => Task(k, f) \in Tasks
  /\ \A b \in Bands : BandTask(b) \in Tasks
  /\ \A k, f : Task(k, f).kind = k
  /\ \A b : BandTask(b).kind = "band"
  BY DEF Task, BandTask, Tasks, Kinds, Bands, NoProgram

\* A step stays in its range, which it wraps around, and so in its modulation.
LEMMA SteppedInRange ==
  ASSUME NEW r \in RangesOf(program), program \in Nat, NEW up \in BOOLEAN
  PROVE  /\ Stepped(up, r) \in Nat \ {NoProgram}
         /\ RangesOf(program) = {r} /\ RangesOf(Stepped(up, r)) = {r}
         /\ ModulationOf(Stepped(up, r)) = ModulationOf(program)
<1>1. /\ r \in Ranges /\ program \in r.lower..r.upper
      /\ r.lower \in Nat /\ r.upper \in Nat /\ r.spacing \in Nat \ {0}
      /\ r.spacing <= r.lower /\ r.lower + r.spacing <= r.upper
  BY RangesAssumption DEF RangesOf, FreqsOf
<1>2. Stepped(up, r) \in r.lower..r.upper
  <2>1. CASE up
    BY <1>1, <2>1 DEF Stepped
  <2>2. CASE ~up
    BY <1>1, <2>2 DEF Stepped
  <2> QED BY <2>1, <2>2
<1>3. Stepped(up, r) \in Nat \ {NoProgram}
  BY <1>1, <1>2 DEF NoProgram
<1>4. program \in FreqsOf(r) /\ Stepped(up, r) \in FreqsOf(r)
  BY <1>1, <1>2 DEF FreqsOf
<1>5. \A f \in FreqsOf(r) : RangesOf(f) = {r}
  BY <1>1, RangesAssumption DEF RangesOf
<1>6. ModulationOf(Stepped(up, r)) = ModulationOf(program)
  BY <1>1, <1>4, RangesAssumption
<1> QED BY <1>3, <1>4, <1>5, <1>6

\* The band of a frequency that is tuned to.
LEMMA BandOfProgram ==
  ASSUME NEW f \in Programs
  PROVE  f \in Nat \ {NoProgram} /\ GetBand[f] \in Bands
BY BandsAssumption DEF Freqs, NoProgram

LEMMA InitIInv == Init => IInv
<1> SUFFICES ASSUME Init PROVE IInv
  OBVIOUS
<1>1. <<>> \in Seq(Entries) /\ BandTask("FM") \in Tasks /\ BandTask("FM").kind = "band"
  BY TaskFields DEF Bands
<1>2. Typed
  BY <1>1, ScheduleType DEF Init, SwitchAmFmBand, Typed, NoProgram
<1>3. ChainsBounded
  <2>1. Cardinality(Waiting(<<>>)) = 0
    <3>1. Waiting(<<>>) = {}
      BY DEF Waiting
    <3> QED BY <3>1, FS_EmptySet
  <2>2. Chains(BandTask("FM")) = 0 /\ Chains(NoTask) = 0
    BY <1>1 DEF Chains, NoTask, Task
  <2>3. Cardinality(Waiting(queue)) <= 0 + 0
    BY <1>1, <2>1, <2>2, ScheduleWaiting DEF Init, SwitchAmFmBand
  <2>4. Cardinality(Waiting(queue)) \in Nat
    BY <1>2, WaitingFinite DEF Typed
  <2> QED BY <2>2, <2>3, <2>4 DEF Init, ChainsBounded
<1> QED BY <1>2, <1>3 DEF IInv, IncompleteIsPending, Init, NoProgram

(***************************************************************************)
(* The calls.                                                              *)
(***************************************************************************)
LEMMA NoneWaiting == <<>> \in Seq(Entries) /\ Cardinality(Waiting(<<>>)) = 0
<1>1. Waiting(<<>>) = {}
  BY DEF Waiting
<1> QED BY <1>1, FS_EmptySet

\* What a call leaves: perhaps a switch of the band, and one task that tunes.
LEMMA ScheduledByCall ==
  ASSUME NEW t \in Tasks, t.kind \in Tuning, NEW b \in Bands,
         NEW q \in {<<>>, SwitchAmFmBand(b)}
  PROVE  /\ Schedule(q, t) \in Seq(Entries)
         /\ Cardinality(Waiting(Schedule(q, t))) <= 1
         /\ KindsOf(Schedule(q, t)) \cap Tuning # {}
<1>1. BandTask(b) \in Tasks /\ Chains(BandTask(b)) = 0 /\ Chains(t) = 1
  BY TaskFields DEF Chains, Tuning
<1>2. q \in Seq(Entries) /\ Cardinality(Waiting(q)) <= 0
  <2>1. CASE q = <<>>
    BY <2>1, NoneWaiting
  <2>2. CASE q = SwitchAmFmBand(b)
    <3>1. Schedule(<<>>, BandTask(b)) \in Seq(Entries)
      BY <1>1, NoneWaiting, ScheduleType
    <3>2. Cardinality(Waiting(Schedule(<<>>, BandTask(b)))) <= 0 + 0
      BY <1>1, NoneWaiting, ScheduleWaiting
    <3> QED BY <2>2, <3>1, <3>2 DEF SwitchAmFmBand
  <2> QED BY <2>1, <2>2
<1>3. Cardinality(Waiting(q)) \in Nat
  BY <1>2, WaitingFinite
<1>4. Schedule(q, t) \in Seq(Entries)
  BY <1>2, ScheduleType
<1>5. Cardinality(Waiting(Schedule(q, t))) \in Nat
  BY <1>4, WaitingFinite
<1>6. Cardinality(Waiting(Schedule(q, t))) <= Cardinality(Waiting(q)) + 1
  BY <1>1, <1>2, ScheduleWaiting
<1>7. t.kind \in KindsOf(Schedule(q, t))
  BY <1>2, ScheduleKinds
<1> QED BY <1>2, <1>3, <1>4, <1>5, <1>6, <1>7

\* A call that leaves at most one task, and either says that a tune is under way and
\* leaves one that tunes, or takes back what is not known to be complete.
LEMMA CallKeeps ==
  ASSUME IInv, Called, NEW q \in Seq(Entries), CancelLocked(q),
         Cardinality(Waiting(q)) <= 1,
         KindsOf(q) \cap Tuning # {} \/ completed' = CancelledTune
  PROVE  IInv'
<1>1. queue' = q /\ UNCHANGED <<running, mpc, program, isClosed, life>>
  BY DEF CancelLocked, Called
<1>2. Typed'
  BY <1>1 DEF IInv, Typed
<1>3. ChainsBounded'
  <2>1. Cardinality(Waiting(q)) \in Nat
    BY WaitingFinite
  <2>2. Chains(running) \in {0, 1}
    BY DEF Chains
  <2>3. Cardinality(Waiting(q)) + Chains(running) <= 2
    BY <2>1, <2>2
  <2> QED BY <1>1, <2>3 DEF ChainsBounded
<1>4. IncompleteIsPending'
  <2>1. CASE KindsOf(q) \cap Tuning # {}
    BY <1>1, <2>1 DEF IncompleteIsPending, Pending
  <2>2. CASE completed' = CancelledTune
    BY <1>1, <2>2 DEF IncompleteIsPending, CancelledTune
  <2> QED BY <2>1, <2>2
<1> QED BY <1>2, <1>3, <1>4 DEF IInv

LEMMA ClientKeepsIInv == IInv /\ Client => IInv'
<1> SUFFICES ASSUME IInv, Client PROVE IInv'
  OBVIOUS
<1>1. ASSUME NEW f \in Programs, Tune(f)
      PROVE  IInv'
  <2> DEFINE q == IF GetBand[f] # band THEN SwitchAmFmBand(GetBand[f]) ELSE <<>>
             t == Task("tune", f)
  <2>1. t \in Tasks /\ t.kind = "tune"
    BY BandOfProgram, TaskFields DEF Kinds
  <2>2. q \in {<<>>, SwitchAmFmBand(GetBand[f])} /\ GetBand[f] \in Bands
    BY BandOfProgram
  <2>3. Called /\ CancelLocked(Schedule(q, t))
    BY <1>1 DEF Tune
  <2> HIDE DEF q, t
  <2> QED BY <2>1, <2>2, <2>3, ScheduledByCall, CallKeeps DEF Tuning
<1>2. CASE Scan
  <2> DEFINE q == IF band = "UNKNOWN" THEN SwitchAmFmBand("FM") ELSE <<>>
             t == Task("seek", NoProgram)
  <2>1. t \in Tasks /\ t.kind = "seek"
    BY TaskFields DEF Kinds, NoProgram
  <2>2. q \in {<<>>, SwitchAmFmBand("FM")} /\ "FM" \in Bands
    BY DEF Bands
  <2>3. Called /\ CancelLocked(Schedule(q, t))
    BY <1>2 DEF Scan
  <2> HIDE DEF q, t
  <2> QED BY <2>1, <2>2, <2>3, ScheduledByCall, CallKeeps DEF Tuning
<1>3. ASSUME NEW up \in BOOLEAN, Step(up)
      PROVE  IInv'
  <2>1. PICK r \in RangesOf(program) : CancelLocked(Schedule(<<>>, Task("step", Stepped(up, r))))
    BY <1>3 DEF Step
  <2> DEFINE t == Task("step", Stepped(up, r))
  <2>2. program \in Nat
    BY DEF IInv, Typed
  <2>3. Stepped(up, r) \in Nat \ {NoProgram} /\ RangesOf(Stepped(up, r)) # {}
    BY <2>2, SteppedInRange
  <2>4. t \in Tasks /\ t.kind = "step"
    BY <2>3, TaskFields DEF Kinds
  <2>5. Called /\ CancelLocked(Schedule(<<>>, t))
    BY <1>3, <2>1 DEF Step
  <2> HIDE DEF t
  <2>6. /\ Schedule(<<>>, t) \in Seq(Entries)
        /\ Cardinality(Waiting(Schedule(<<>>, t))) <= 1
        /\ KindsOf(Schedule(<<>>, t)) \cap Tuning # {}
    BY <2>4, ScheduledByCall DEF Tuning, Bands
  <2> QED BY <2>5, <2>6, CallKeeps
<1>4. CASE StepRefused \/ Cancel
  <2>1. Called /\ CancelLocked(<<>>) /\ completed' = CancelledTune
    BY <1>4 DEF StepRefused, Cancel
  <2>2. <<>> \in Seq(Entries) /\ Cardinality(Waiting(<<>>)) <= 1
    BY NoneWaiting
  <2> QED BY <2>1, <2>2, CallKeeps, Zenon
<1>5. CASE Close
  <2>1. queue' = <<>> /\ isClosed' = TRUE /\ UNCHANGED <<running, mpc, program>>
    BY <1>5 DEF Close
  <2>2. Typed' /\ IncompleteIsPending'
    BY <2>1, NoneWaiting DEF IInv, Typed, IncompleteIsPending
  <2>3. ChainsBounded'
    <3>1. Chains(running) \in {0, 1}
      BY DEF Chains
    <3> QED BY <2>1, <3>1, NoneWaiting DEF ChainsBounded
  <2> QED BY <2>2, <2>3 DEF IInv
<1>6. CASE Destroy
  <2>1. life' = "dying" /\ UNCHANGED <<queue, running, mpc, program>>
    BY <1>6 DEF Destroy
  <2> QED BY <2>1 DEF IInv, Typed, ChainsBounded, IncompleteIsPending
<1> QED BY <1>1, <1>2, <1>3, <1>4, <1>5, <1>6 DEF Client

(***************************************************************************)
(* The worker.                                                             *)
(***************************************************************************)
\* A task that is done and scheduled nothing, but perhaps the first of a chain in its
\* own place.
Replaced == \/ queue' = queue
            \/ Chains(running) = 1 /\ queue' = Schedule(queue, Task("metadata", NoProgram))

LEMMA ReplacedKeeps ==
  ASSUME IInv, running.kind # "none", TaskDone, Replaced, program' \in Nat
  PROVE  Typed' /\ ChainsBounded' /\ KindsOf(queue) \subseteq KindsOf(queue')
<1> DEFINE m == Task("metadata", NoProgram)
<1>1. m \in Tasks /\ Chains(m) = 1
  BY TaskFields DEF Kinds, NoProgram, Chains
<1>2. queue \in Seq(Entries) /\ Cardinality(Waiting(queue)) \in Nat
  BY WaitingFinite DEF IInv, Typed
<1>3. queue' \in Seq(Entries) /\ KindsOf(queue) \subseteq KindsOf(queue')
  BY <1>1, <1>2, ScheduleType, ScheduleKinds DEF Replaced
<1>4. Cardinality(Waiting(queue')) \in Nat
  BY <1>3, WaitingFinite
<1>5. running' = NoTask /\ mpc' = "none" /\ Chains(running') = 0
  BY DEF TaskDone, Chains, NoTask, Task
<1>6. Typed'
  BY <1>3, <1>5 DEF Typed
<1>7. Chains(running) \in {0, 1} /\ Cardinality(Waiting(queue)) + Chains(running) <= 2
  BY DEF Chains, IInv, ChainsBounded
<1>8. Cardinality(Waiting(queue')) <= 2
  <2>1. CASE queue' = queue
    BY <1>2, <1>7, <2>1
  <2>2. CASE Chains(running) = 1 /\ queue' = Schedule(queue, m)
    <3>1. Cardinality(Waiting(queue')) <= Cardinality(Waiting(queue)) + 1
      BY <1>1, <1>2, <2>2, ScheduleWaiting
    <3> QED BY <1>2, <1>4, <1>7, <2>2, <3>1
  <2> QED BY <2>1, <2>2 DEF Replaced
<1>9. ChainsBounded'
  BY <1>4, <1>5, <1>8 DEF ChainsBounded
<1> QED BY <1>3, <1>6, <1>9

LEMMA WorkerKeepsIInv == IInv /\ Worker => IInv'
<1> SUFFICES ASSUME IInv, Worker PROVE IInv'
  OBVIOUS
<1>1. CASE Take
  <2> DEFINE h == Head(queue)
  <2>1. /\ queue \in Seq(Entries) /\ queue # <<>> /\ h \in Entries
        /\ Tail(queue) \in Seq(Entries)
    BY <1>1 DEF Take, IInv, Typed
  <2>2. /\ running = NoTask /\ running' = h.task /\ queue' = Tail(queue)
        /\ mpc' = IF running'.kind = "metadata" THEN "read" ELSE "none"
        /\ UNCHANGED <<program, completed, isClosed, life>>
    BY <1>1 DEF Take, session, client
  <2>3. Typed'
    BY <2>1, <2>2 DEF Typed, IInv, Entries
  <2>4. ChainsBounded'
    <3>1. Chains(running) = 0
      BY <2>2 DEF Chains, NoTask, Task
    <3>2. Cardinality(Waiting(Tail(queue))) + Chains(h.task) <= Cardinality(Waiting(queue))
      BY <2>1, TailWaiting
    <3>3. /\ Cardinality(Waiting(Tail(queue))) \in Nat /\ Cardinality(Waiting(queue)) \in Nat
          /\ Chains(h.task) \in {0, 1}
      BY <2>1, WaitingFinite DEF Chains
    <3>4. Cardinality(Waiting(Tail(queue))) + Chains(h.task) <= 2
      BY <3>1, <3>2, <3>3 DEF IInv, ChainsBounded
    <3> QED BY <2>2, <3>4 DEF ChainsBounded
  <2>5. KindsOf(queue) \subseteq KindsOf(queue') \cup {running'.kind}
    <3>1. ASSUME NEW i \in 1..Len(queue)
          PROVE  queue[i].task.kind \in KindsOf(queue') \cup {running'.kind}
      <4>1. CASE i = 1
        BY <2>1, <2>2, <4>1
      <4>2. CASE i # 1
        <5>1. i - 1 \in 1..Len(Tail(queue)) /\ Tail(queue)[i - 1] = queue[(i - 1) + 1]
          BY <2>1, <4>2
        <5>2. Tail(queue)[i - 1] = queue[i]
          BY <5>1
        <5> QED BY <2>2, <5>1, <5>2 DEF KindsOf
      <4> QED BY <4>1, <4>2
    <3> QED BY <3>1 DEF KindsOf
  <2>6. IncompleteIsPending'
    <3>1. running.kind \notin Tuning
      BY <2>2 DEF NoTask, Task, Tuning
    <3>2. Pending => Pending'
      BY <2>5, <3>1 DEF Pending
    <3> QED BY <2>2, <3>2 DEF IInv, IncompleteIsPending
  <2> QED BY <2>3, <2>4, <2>6 DEF IInv
<1>2. CASE DoSwitchBand
  <2>1. /\ TaskDone /\ queue' = queue /\ UNCHANGED <<program, completed, isClosed, life>>
        /\ running.kind = "band"
    BY <1>2 DEF DoSwitchBand
  <2>2. Typed' /\ ChainsBounded' /\ KindsOf(queue) \subseteq KindsOf(queue')
    BY <2>1, ReplacedKeeps DEF Replaced, IInv, Typed
  <2>3. Pending => Pending'
    BY <2>1, <2>2 DEF Pending, Tuning
  <2> QED BY <2>1, <2>2, <2>3 DEF IInv, IncompleteIsPending
<1>3. CASE DoTune \/ DoSeek
  <2>1. TaskDone /\ completed' = TRUE /\ running.kind \in Tuning
    BY <1>3 DEF DoTune, DoSeek, Tuning
  <2>2. program' \in Nat
    <3>1. CASE DoTune
      <4>1. running \in Tasks /\ program' = running.freq
        BY <3>1 DEF DoTune, IInv, Typed, NoTask, Task
      <4> QED BY <4>1 DEF Tasks
    <3>2. CASE DoSeek
      <4>1. program' \in Programs \/ program' = program
        BY <3>2 DEF DoSeek
      <4> QED BY <4>1, BandOfProgram DEF IInv, Typed
    <3> QED BY <1>3, <3>1, <3>2
  <2>3. Replaced
    <3>1. Chains(running) = 1
      BY <2>1 DEF Chains, Tuning
    <3> QED BY <1>3, <3>1 DEF Replaced, DoTune, DoSeek, LaunchMetadataFetchTask
  <2>4. Typed' /\ ChainsBounded'
    BY <2>1, <2>2, <2>3, ReplacedKeeps DEF Tuning
  <2> QED BY <2>1, <2>2, <2>4 DEF IInv, IncompleteIsPending
<1>4. CASE MetadataRead
  <2>1. /\ mpc = "read" /\ UNCHANGED <<queue, running, program, completed, isClosed, life>>
    BY <1>4 DEF MetadataRead, UsesMembers, session
  <2> QED BY <2>1 DEF IInv, Typed, ChainsBounded,
                      IncompleteIsPending, Pending
<1>5. CASE MetadataTest \/ MetadataSchedule
  <2>1. running.kind = "metadata" /\ UNCHANGED <<program, completed, isClosed, life>>
    BY <1>5 DEF MetadataTest, MetadataSchedule, UsesMembers, session, client, IInv, Typed
  <2>2. CASE UNCHANGED <<queue, running>>
    BY <2>1, <2>2 DEF IInv, Typed, ChainsBounded,
                      IncompleteIsPending, Pending
  <2>3. CASE TaskDone /\ Replaced
    <3>1. Typed' /\ ChainsBounded' /\ KindsOf(queue) \subseteq KindsOf(queue')
      BY <2>1, <2>3, ReplacedKeeps DEF IInv, Typed
    <3>2. Pending => Pending'
      BY <2>1, <3>1 DEF Pending, Tuning
    <3> QED BY <2>1, <3>1, <3>2 DEF IInv, IncompleteIsPending
  <2>4. UNCHANGED <<queue, running>> \/ (TaskDone /\ Replaced)
    <3>1. Chains(running) = 1
      BY <2>1 DEF Chains
    <3> QED BY <1>5, <3>1 DEF MetadataTest, MetadataSchedule, Replaced
  <2> QED BY <2>2, <2>3, <2>4
<1> QED BY <1>1, <1>2, <1>3, <1>4, <1>5 DEF Worker

\* Time moves no task.
LEMMA TickKeepsTasks ==
  ASSUME queue \in Seq(Entries), Tick
  PROVE  /\ queue' \in Seq(Entries) /\ Len(queue') = Len(queue)
         /\ \A i \in 1..Len(queue) : queue'[i].task = queue[i].task
<1> DEFINE e(i) == [queue[i] EXCEPT !.in = IF @ > 0 THEN @ - 1 ELSE 0]
<1>1. Len(queue) \in Nat
  OBVIOUS
<1>2. ASSUME NEW i \in 1..Len(queue)
      PROVE  e(i) \in Entries /\ e(i).task = queue[i].task
  <2>1. queue[i] \in Entries
    OBVIOUS
  <2> QED BY <2>1 DEF Entries
<1>3. queue' = [i \in 1..Len(queue) |-> e(i)]
  BY DEF Tick
<1> HIDE DEF e
<1> QED BY <1>1, <1>2, <1>3

\* The worker's queue and the session agree in every reachable state.
THEOREM Invariance == Spec => []IInv
<1>1. IInv /\ [Next]_vars => IInv'
  <2> SUFFICES ASSUME IInv, [Next]_vars PROVE IInv'
    OBVIOUS
  <2>1. CASE Tick
    <3>1. UNCHANGED <<running, mpc, program, completed, isClosed, life>>
      BY <2>1 DEF Tick, session, client
    <3>2. /\ queue' \in Seq(Entries) /\ Len(queue') = Len(queue)
          /\ \A i \in 1..Len(queue) : queue'[i].task = queue[i].task
      BY <2>1, TickKeepsTasks DEF IInv, Typed
    <3>3. Waiting(queue') = Waiting(queue) /\ KindsOf(queue') = KindsOf(queue)
      BY <3>2 DEF Waiting, KindsOf
    <3> QED BY <3>1, <3>2, <3>3 DEF IInv, Typed, ChainsBounded,
                                    IncompleteIsPending, Pending
  <2>2. CASE Joined
    <3>1. queue' = <<>> /\ life' = "gone" /\ UNCHANGED <<running, mpc, program>>
      BY <2>2 DEF Joined, session
    <3>2. Chains(running) \in {0, 1}
      BY DEF Chains
    <3> QED BY <3>1, <3>2, NoneWaiting DEF IInv, Typed, ChainsBounded,
                                           IncompleteIsPending
  <2>3. CASE UNCHANGED vars
    BY <2>3 DEF vars, session, client, IInv, Typed, ChainsBounded,
                IncompleteIsPending, Pending
  <2> QED BY <2>1, <2>2, <2>3, WorkerKeepsIInv, ClientKeepsIInv DEF Next
<1> QED BY InitIInv, <1>1, PTL DEF Spec

\* No call leaves mIsTuneCompleted behind: a tune that is not complete will be, but for
\* one that was cancelled before the first.
THEOREM TunesArePending == Spec => []IncompleteIsPending
<1>1. IInv => IncompleteIsPending
  BY DEF IInv
<1> QED BY <1>1, Invariance, PTL

\* However many calls there are, no more than two chains of metadata tasks run at a time,
\* though cancelAll does not reach the task the worker has taken.
THEOREM ChainsDoNotPileUp == Spec => []AtMostTwoChains
<1>1. ASSUME IInv
      PROVE  AtMostTwoChains
  <2> DEFINE S == {i \in 1..Len(queue) : queue[i].task.kind = "metadata"}
             r == IF running.kind = "metadata" THEN 1 ELSE 0
  <2>1. queue \in Seq(Entries)
    BY <1>1 DEF IInv, Typed
  <2>2. IsFiniteSet(Waiting(queue)) /\ Cardinality(Waiting(queue)) \in Nat
    BY <2>1, WaitingFinite
  <2>3. S \in SUBSET Waiting(queue)
    BY DEF Waiting
  <2>4. Cardinality(S) <= Cardinality(Waiting(queue)) /\ Cardinality(S) \in Nat
    BY <2>2, <2>3, FS_Subset, FS_CardinalityType
  <2>5. r <= Chains(running) /\ r \in {0, 1} /\ Chains(running) \in {0, 1}
    BY DEF Chains
  <2>6. Cardinality(Waiting(queue)) + Chains(running) <= 2
    BY <1>1 DEF IInv, ChainsBounded
  <2> HIDE DEF S, r
  <2>7. Cardinality(S) + r <= 2
    BY <2>2, <2>4, <2>5, <2>6
  <2> QED BY <2>7 DEF AtMostTwoChains, S, r
<1> QED BY <1>1, Invariance, PTL

(***************************************************************************)
(* The band a session is in.  What waits is at most one switch and behind  *)
(* it at most one task that tunes, with metadata tasks anywhere between.   *)
(***************************************************************************)
SwitchAt(q, i) == q[i].task.kind = "band"
TuneAt(q, i) == q[i].task.kind \in Tuning

Ordered(q) ==
    \A i, j \in 1..Len(q) : /\ SwitchAt(q, i) /\ SwitchAt(q, j) => i = j
                            /\ TuneAt(q, i) /\ TuneAt(q, j) => i = j
                            /\ SwitchAt(q, i) /\ TuneAt(q, j) => i < j

Switches(q) == {q[i].task.band : i \in {k \in 1..Len(q) : SwitchAt(q, k)}}
Tunes(q) == {q[i].task : i \in {k \in 1..Len(q) : TuneAt(q, k)}}

\* r waits for the same switch and the same tuning task as q.
Alike(r, q) == Switches(r) = Switches(q) /\ Tunes(r) = Tunes(q) /\ (Ordered(q) => Ordered(r))

\* A metadata task that is put anywhere changes neither.
LEMMA ChainAlike ==
  ASSUME NEW q \in Seq(Entries)
  PROVE  Alike(Schedule(q, Task("metadata", NoProgram)), q)
<1> DEFINE m == Task("metadata", NoProgram)
           r == Schedule(q, m)
<1>1. m \in Tasks /\ m.kind = "metadata"
  BY TaskFields DEF Kinds, NoProgram
<1>2. PICK k \in 1..(Len(q) + 1) : Inserted(r, q, k, Entry(m))
  BY <1>1, ScheduleInserts
<1> HIDE DEF r, m
<1>3. Len(q) \in Nat /\ Len(r) = Len(q) + 1 /\ k \in Nat
  BY <1>2 DEF Inserted
<1>4. r[k].task = m
  BY <1>2, <1>3 DEF Inserted, Entry
<1>5. ~SwitchAt(r, k) /\ ~TuneAt(r, k)
  BY <1>1, <1>4 DEF SwitchAt, TuneAt, Tuning
<1> DEFINE from == [i \in 1..Len(r) |-> IF i < k THEN i ELSE i - 1]
<1>6. ASSUME NEW i \in 1..Len(r), i # k
      PROVE  from[i] \in 1..Len(q) /\ r[i] = q[from[i]]
  BY <1>2, <1>3, <1>6 DEF Inserted
<1>7. ASSUME NEW i \in 1..Len(r), NEW j \in 1..Len(r), i # k, j # k
      PROVE  (from[i] = from[j] => i = j) /\ (from[i] < from[j] => i < j)
  BY <1>3, <1>7
<1>8. ASSUME NEW i \in 1..Len(q)
      PROVE  \E j \in 1..Len(r) : r[j] = q[i]
  <2>1. CASE i < k
    <3>1. i \in 1..Len(r) /\ r[i] = q[i]
      BY <1>2, <1>3, <2>1 DEF Inserted
    <3> QED BY <3>1
  <2>2. CASE i >= k
    <3>1. i + 1 \in 1..Len(r) /\ r[i + 1] = q[(i + 1) - 1]
      BY <1>2, <1>3, <2>2 DEF Inserted
    <3>2. r[i + 1] = q[i]
      BY <3>1
    <3> QED BY <3>1, <3>2
  <2> QED BY <1>3, <2>1, <2>2
<1> HIDE DEF from
<1>9. Switches(r) = Switches(q) /\ Tunes(r) = Tunes(q)
  <2>1. Switches(r) \subseteq Switches(q) /\ Tunes(r) \subseteq Tunes(q)
    BY <1>5, <1>6 DEF Switches, Tunes, SwitchAt, TuneAt
  <2>2. Switches(q) \subseteq Switches(r) /\ Tunes(q) \subseteq Tunes(r)
    BY <1>8 DEF Switches, Tunes, SwitchAt, TuneAt
  <2> QED BY <2>1, <2>2
<1>10. ASSUME Ordered(q)
       PROVE  Ordered(r)
  <2>1. ASSUME NEW i \in 1..Len(r), NEW j \in 1..Len(r)
        PROVE  /\ SwitchAt(r, i) /\ SwitchAt(r, j) => i = j
               /\ TuneAt(r, i) /\ TuneAt(r, j) => i = j
               /\ SwitchAt(r, i) /\ TuneAt(r, j) => i < j
    <3>1. CASE i # k /\ j # k
      BY <1>6, <1>7, <1>10, <3>1 DEF Ordered, SwitchAt, TuneAt
    <3>2. CASE i = k \/ j = k
      BY <1>5, <3>2
    <3> QED BY <3>1, <3>2
  <2> QED BY <2>1 DEF Ordered
<1> QED BY <1>9, <1>10 DEF Alike, r, m

\* What is left when the first task is taken.
LEMMA TailOrdered ==
  ASSUME NEW q \in Seq(Entries), q # <<>>, Ordered(q)
  PROVE  LET t == Head(q).task IN
         /\ Ordered(Tail(q))
         /\ t.kind = "metadata" => Alike(Tail(q), q)
         /\ t.kind = "band" => /\ Switches(Tail(q)) = {} /\ Switches(q) = {t.band}
                               /\ Tunes(Tail(q)) = Tunes(q)
         /\ t.kind \in Tuning => /\ Switches(Tail(q)) = {} /\ Switches(q) = {}
                                 /\ Tunes(Tail(q)) = {} /\ Tunes(q) = {t}
<1> DEFINE t == Head(q).task
           r == Tail(q)
<1>1. Len(q) \in Nat /\ Len(q) > 0 /\ Len(r) = Len(q) - 1
      /\ t = q[1].task
  OBVIOUS
<1>2. \A i \in 1..Len(r) : i + 1 \in 1..Len(q) /\ i + 1 # 1 /\ r[i] = q[i + 1]
  OBVIOUS
<1>3. ASSUME NEW i \in 1..Len(q), i # 1
      PROVE  \E j \in 1..Len(r) : r[j] = q[i]
  <2>1. i - 1 \in 1..Len(r) /\ r[i - 1] = q[(i - 1) + 1]
    BY <1>1, <1>2, <1>3
  <2>2. r[i - 1] = q[i]
    BY <2>1
  <2> QED BY <2>1, <2>2
<1> HIDE DEF r, t
<1>4. Ordered(r)
  <2>1. ASSUME NEW i \in 1..Len(r), NEW j \in 1..Len(r)
        PROVE  /\ SwitchAt(r, i) /\ SwitchAt(r, j) => i = j
               /\ TuneAt(r, i) /\ TuneAt(r, j) => i = j
               /\ SwitchAt(r, i) /\ TuneAt(r, j) => i < j
    <3>1. /\ SwitchAt(q, i + 1) /\ SwitchAt(q, j + 1) => i + 1 = j + 1
          /\ TuneAt(q, i + 1) /\ TuneAt(q, j + 1) => i + 1 = j + 1
          /\ SwitchAt(q, i + 1) /\ TuneAt(q, j + 1) => i + 1 < j + 1
      BY <1>2 DEF Ordered
    <3>2. /\ SwitchAt(r, i) = SwitchAt(q, i + 1) /\ SwitchAt(r, j) = SwitchAt(q, j + 1)
          /\ TuneAt(r, i) = TuneAt(q, i + 1) /\ TuneAt(r, j) = TuneAt(q, j + 1)
      BY <1>2 DEF SwitchAt, TuneAt
    <3>3. /\ i + 1 = j + 1 => i = j
          /\ i + 1 < j + 1 => i < j
      OBVIOUS
    <3> QED BY <3>1, <3>2, <3>3
  <2> QED BY <2>1 DEF Ordered
<1>5. Switches(r) \subseteq Switches(q) /\ Tunes(r) \subseteq Tunes(q)
  BY <1>2 DEF Switches, Tunes, SwitchAt, TuneAt
<1>6. t.kind # "band" => Switches(q) \subseteq Switches(r)
  BY <1>1, <1>3 DEF Switches, SwitchAt
<1>7. t.kind \notin Tuning => Tunes(q) \subseteq Tunes(r)
  BY <1>1, <1>3 DEF Tunes, TuneAt
<1>8. ASSUME t.kind = "band"
      PROVE  Switches(r) = {} /\ Switches(q) = {t.band}
  <2>1. 1 \in 1..Len(q) /\ SwitchAt(q, 1)
    BY <1>1, <1>8 DEF SwitchAt
  <2>2. \A i \in 1..Len(q) : SwitchAt(q, i) => i = 1
    BY <2>1 DEF Ordered
  <2>3. Switches(q) = {t.band}
    BY <1>1, <2>1, <2>2 DEF Switches
  <2>4. \A i \in 1..Len(r) : ~SwitchAt(r, i)
    BY <1>2, <2>2 DEF SwitchAt
  <2> QED BY <2>3, <2>4 DEF Switches
<1>9. ASSUME t.kind \in Tuning
      PROVE  Switches(q) = {} /\ Tunes(r) = {} /\ Tunes(q) = {t}
  <2>1. 1 \in 1..Len(q) /\ TuneAt(q, 1)
    BY <1>1, <1>9 DEF TuneAt
  <2>2. \A i \in 1..Len(q) : (TuneAt(q, i) => i = 1) /\ (SwitchAt(q, i) => i < 1)
    BY <2>1 DEF Ordered
  <2>3. Tunes(q) = {t}
    BY <1>1, <2>1, <2>2 DEF Tunes
  <2>4. \A i \in 1..Len(r) : ~TuneAt(r, i)
    BY <1>2, <2>2 DEF TuneAt
  <2>5. \A i \in 1..Len(q) : ~SwitchAt(q, i)
    BY <2>2
  <2> QED BY <2>3, <2>4, <2>5 DEF Switches, Tunes
<1>10. t.kind = "band" => t.kind \notin Tuning
  BY DEF Tuning
<1>11. t.kind = "metadata" => t.kind \notin Tuning /\ t.kind # "band"
  BY DEF Tuning
<1> QED BY <1>4, <1>5, <1>6, <1>7, <1>8, <1>9, <1>10, <1>11 DEF Alike, r, t


\* The order of the delays puts the switch a call asks for before its tuning task.
LEMMA ScheduledInOrder ==
  ASSUME NEW t \in Tasks, t.kind \in Tuning, NEW b \in Bands
  PROVE  /\ Ordered(<<>>) /\ Switches(<<>>) = {} /\ Tunes(<<>>) = {}
         /\ LET q == Schedule(<<>>, t)
            IN  Ordered(q) /\ Switches(q) = {} /\ Tunes(q) = {t}
         /\ LET q == SwitchAmFmBand(b)
            IN  Ordered(q) /\ Switches(q) = {b} /\ Tunes(q) = {}
         /\ LET q == Schedule(SwitchAmFmBand(b), t)
            IN  Ordered(q) /\ Switches(q) = {b} /\ Tunes(q) = {t}
<1> DEFINE s == BandTask(b)
<1>1. s \in Tasks /\ s.kind = "band" /\ s.band = b /\ t.kind # "band" /\ "band" \notin Tuning
  BY TaskFields DEF BandTask, Tuning
<1>2. Entry(s).task = s /\ Entry(t).task = t
  BY DEF Entry
<1> HIDE DEF s
<1>3. \A u \in Tasks : LET q == Schedule(<<>>, u)
                       IN  q \in Seq(Entries) /\ Len(q) = 1 /\ q[1] = Entry(u)
  <2> TAKE u \in Tasks
  <2>1. <<>> \in Seq(Entries) /\ Len(<<>>) = 0
    OBVIOUS
  <2>2. PICK k \in 1..(Len(<<>>) + 1) : Inserted(Schedule(<<>>, u), <<>>, k, Entry(u))
    BY <2>1, ScheduleInserts
  <2> QED BY <2>1, <2>2 DEF Inserted
<1> DEFINE w == SwitchAmFmBand(b)
           q1 == Schedule(<<>>, t)
           q2 == Schedule(w, t)
<1>4. w \in Seq(Entries) /\ Len(w) = 1 /\ w[1] = Entry(s)
  BY <1>1, <1>3 DEF SwitchAmFmBand, s
<1>5. q1 \in Seq(Entries) /\ Len(q1) = 1 /\ q1[1] = Entry(t)
  BY <1>3
<1> HIDE DEF w, q1
<1>6. Len(q2) = 2 /\ q2[1] = Entry(s) /\ q2[2] = Entry(t)
  <2>1. w[1].in <= Entry(t).in
    BY <1>1, <1>4, DelayAssumption DEF Entry, Tasks, Kinds, Tuning
  <2>2. {i \in 1..Len(w) : w[i].in <= Entry(t).in} = {1}
    BY <1>4, <2>1
  <2>3. q2 = InsertAt(w, 1 + 1, Entry(t))
    BY <2>2, FS_Singleton DEF Schedule
  <2>4. Inserted(InsertAt(w, 1 + 1, Entry(t)), w, 1 + 1, Entry(t))
    BY <1>4, EntryType, InsertedAt
  <2> HIDE DEF q2
  <2> QED BY <1>4, <2>3, <2>4 DEF Inserted
<1> HIDE DEF q2
<1>7. Ordered(<<>>) /\ Switches(<<>>) = {} /\ Tunes(<<>>) = {}
  BY DEF Ordered, Switches, Tunes
<1>8. Ordered(q1) /\ Switches(q1) = {} /\ Tunes(q1) = {t}
  BY <1>1, <1>2, <1>5 DEF Ordered, Switches, Tunes, SwitchAt, TuneAt
<1>9. Ordered(w) /\ Switches(w) = {b} /\ Tunes(w) = {}
  BY <1>1, <1>2, <1>4 DEF Ordered, Switches, Tunes, SwitchAt, TuneAt
<1>10. Ordered(q2) /\ Switches(q2) = {b} /\ Tunes(q2) = {t}
  <2>1. 1..Len(q2) = {1, 2} /\ q2[1].task = s /\ q2[2].task = t
    BY <1>2, <1>6
  <2>2. \A i \in 1..Len(q2) : (SwitchAt(q2, i) <=> i = 1) /\ (TuneAt(q2, i) <=> i = 2)
    BY <1>1, <2>1 DEF SwitchAt, TuneAt
  <2>3. Ordered(q2)
    BY <2>1, <2>2 DEF Ordered
  <2>4. Switches(q2) = {b} /\ Tunes(q2) = {t}
    BY <1>1, <2>1, <2>2 DEF Switches, Tunes
  <2> QED BY <2>3, <2>4
<1> QED BY <1>7, <1>8, <1>9, <1>10 DEF w, q1, q2

\* The band the session will be in when the switch that waits or runs is done.
Reaches(b) ==
    /\ \A s \in Switches(queue) : s = b
    /\ Switches(queue) = {} => b = IF running.kind = "band" THEN running.band ELSE band

\* A device told of band b suits f, and what is tuned to.
SuitsBand(b, f) == f # NoProgram => Suits(Modulation(b), f)
InBand(b) == SuitsBand(b, program)

\* Where a task leaves the session if the driver agrees, and a step the range it is in.
Goal(t) == IF t.kind = "seek" THEN program ELSE t.freq
StaysInRange(t) == t.kind = "step" => RangesOf(t.freq) = RangesOf(program)

\* An open session with no tune under way.
Resting == life = "alive" /\ ~isClosed /\ running.kind \notin Tuning /\ Tunes(queue) = {}

\* A task that waits to tune will find its band.
Finds(t) == StaysInRange(t) /\ \E b \in Bands : Reaches(b) /\ SuitsBand(b, Goal(t))
TunesInBand == \A t \in Tunes(queue) : running.kind \notin Tuning /\ Finds(t)

\* A task that tunes is in its band.
RunsInBand ==
    running.kind \in Tuning =>
        Switches(queue) = {} /\ StaysInRange(running) /\ SuitsBand(band, Goal(running))

\* And so is the program when none does: only the first switch, openSession's, is made
\* for its own sake.
Fresh == band = "UNKNOWN" /\ program = NoProgram
RestsInBand ==
    Resting => /\ InBand(band)
               /\ running.kind = "band" => Fresh /\ Switches(queue) = {}
               /\ Switches(queue) # {} => Fresh

BandInv ==
    /\ Ordered(queue)
    /\ deviceBand = Modulation(band) /\ band \in Bands
    /\ ~disturbed => TunesInBand /\ RunsInBand /\ RestsInBand

LEMMA InitBandInv == Init => BandInv
<1> SUFFICES ASSUME Init PROVE BandInv
  OBVIOUS
<1>1. NoTask.kind = "none" /\ "FM" \in Bands
  BY DEF Task, NoTask, Bands
<1>2. PICK t \in {Task("seek", NoProgram)} : t \in Tasks /\ t.kind \in Tuning
  BY TaskFields DEF Kinds, NoProgram, Tuning
<1>3. Ordered(queue) /\ Tunes(queue) = {}
  BY <1>1, <1>2, ScheduledInOrder DEF Init
<1>4. program = NoProgram /\ band = "UNKNOWN" /\ deviceBand = "none" /\ running = NoTask
  BY DEF Init
<1>5. deviceBand = Modulation(band) /\ band \in Bands
  BY <1>4 DEF Modulation, Bands, AmBands
<1> QED BY <1>1, <1>3, <1>4, <1>5 DEF BandInv, TunesInBand, RunsInBand, RestsInBand, InBand,
                                SuitsBand, Fresh, Resting, Tuning

\* A call made when the tune before it was answered finds the session at rest.
LEMMA CallAtRest ==
  ASSUME Called, NEW q, CancelLocked(q)
  PROVE  /\ queue' = q
         /\ UNCHANGED <<running, program, band, deviceBand, life, isClosed>>
         /\ disturbed => disturbed'
         /\ ~disturbed' => Resting
<1>1. queue' = q /\ UNCHANGED <<running, program, band, deviceBand, life, isClosed>>
  BY DEF Called, CancelLocked
<1>2. disturbed' = (disturbed \/ Pending) /\ life = "alive" /\ ~isClosed
  BY DEF Called
<1>3. ASSUME ~Pending
      PROVE  running.kind \notin Tuning /\ Tunes(queue) = {}
  BY <1>3 DEF Pending, KindsOf, Tunes, TuneAt
<1> QED BY <1>1, <1>2, <1>3 DEF Resting

LEMMA ClientKeepsBandInv == IInv /\ BandInv /\ Client => BandInv'
<1> SUFFICES ASSUME IInv, BandInv, Client PROVE BandInv'
  OBVIOUS
\* A call that leaves q, with one tuning task t or none, when the session was at rest.
<1>a. ASSUME Called, NEW q, CancelLocked(q), Ordered(q),
             Resting /\ ~disturbed =>
                 \/ Tunes(q) = {} /\ Switches(q) = {}
                 \/ \E t : Tunes(q) = {t} /\ t.kind \in Tuning /\ Finds(t)'
      PROVE  BandInv'
  <2>1. /\ queue' = q /\ UNCHANGED <<running, program, band, deviceBand, life, isClosed>>
        /\ disturbed => disturbed'
        /\ ~disturbed' => Resting
    BY <1>a, CallAtRest
  <2>2. Ordered(queue') /\ deviceBand' = Modulation(band') /\ band' \in Bands
    BY <1>a, <2>1 DEF BandInv
  <2>3. ASSUME ~disturbed'
        PROVE  TunesInBand' /\ RunsInBand' /\ RestsInBand'
    <3>1. Resting /\ ~disturbed /\ running.kind \notin Tuning
      BY <2>1, <2>3 DEF Resting
    <3>2. RestsInBand
      BY <3>1 DEF BandInv
    <3>3. RunsInBand'
      BY <2>1, <3>1 DEF RunsInBand, Tuning
    <3>4. InBand(band)' /\ (running'.kind = "band" => Fresh')
      BY <2>1, <3>1, <3>2 DEF RestsInBand, InBand, SuitsBand, Fresh
    <3>5. CASE Tunes(q) = {} /\ Switches(q) = {}
      BY <2>1, <3>3, <3>4, <3>5 DEF TunesInBand, RestsInBand
    <3>6. CASE \E t : Tunes(q) = {t} /\ t.kind \in Tuning /\ Finds(t)'
      <4>1. PICK t : Tunes(queue') = {t} /\ Finds(t)'
        BY <2>1, <3>6
      <4>2. TunesInBand'
        BY <2>1, <3>1, <4>1 DEF TunesInBand
      <4>3. ~Resting'
        BY <4>1 DEF Resting
      <4> QED BY <3>3, <4>2, <4>3 DEF RestsInBand
    <3> QED BY <1>a, <3>1, <3>5, <3>6
  <2> QED BY <2>2, <2>3 DEF BandInv
<1>b. ASSUME Resting, ~disturbed
      PROVE  InBand(band) /\ (running.kind = "band" => Fresh)
  BY <1>b DEF BandInv, RestsInBand
<1>1. ASSUME NEW f \in Programs, Tune(f)
      PROVE  BandInv'
  <2> DEFINE t == Task("tune", f)
             q == Schedule(IF GetBand[f] # band THEN SwitchAmFmBand(GetBand[f]) ELSE <<>>, t)
  <2>1. t \in Tasks /\ t.kind = "tune" /\ t.freq = f /\ t.kind \in Tuning
    BY BandOfProgram, TaskFields DEF Kinds, Task, Tuning
  <2>2. GetBand[f] \in Bands
    BY BandOfProgram
  <2>3. Called /\ CancelLocked(q)
    BY <1>1 DEF Tune
  <2> HIDE DEF t
  <2>4. /\ Ordered(q) /\ Tunes(q) = {t}
        /\ Switches(q) = IF GetBand[f] # band THEN {GetBand[f]} ELSE {}
    BY <2>1, <2>2, ScheduledInOrder
  <2> HIDE DEF q
  <2>5. queue' = q /\ running' = running /\ band' = band /\ program' = program
    BY <2>3, CallAtRest
  <2>6. ASSUME Resting, ~disturbed
        PROVE  Finds(t)'
    <3>1. CASE running.kind = "band" /\ Switches(q) = {}
      <4>1. GetBand[f] = "UNKNOWN"
        BY <1>b, <2>4, <2>6, <3>1 DEF Fresh
      <4>2. SuitsBand(running.band, f)
        BY <4>1 DEF SuitsBand, Suits, ModulationOf, Modulation, AmBands
      <4>3. running.band \in Bands
        BY <3>1 DEF IInv, Typed, Tasks, NoTask, Task
      <4>4. Reaches(running.band)'
        BY <2>5, <3>1 DEF Reaches
      <4> QED BY <2>1, <2>5, <4>2, <4>3, <4>4 DEF Finds, StaysInRange, Goal, SuitsBand
    <3>2. CASE ~(running.kind = "band" /\ Switches(q) = {})
      <4>1. Reaches(GetBand[f])'
        BY <2>4, <2>5, <3>2 DEF Reaches
      <4>2. SuitsBand(GetBand[f], f)
        BY DEF SuitsBand, Suits, ModulationOf
      <4> QED BY <2>1, <2>2, <2>5, <4>1, <4>2 DEF Finds, StaysInRange, Goal, SuitsBand
    <3> QED BY <3>1, <3>2
  <2> QED BY <1>a, <2>1, <2>3, <2>4, <2>6
<1>2. CASE Scan
  <2> DEFINE t == Task("seek", NoProgram)
             q == Schedule(IF band = "UNKNOWN" THEN SwitchAmFmBand("FM") ELSE <<>>, t)
  <2>1. t \in Tasks /\ t.kind = "seek" /\ t.kind \in Tuning
    BY TaskFields DEF Kinds, NoProgram, Tuning
  <2>2. Called /\ CancelLocked(q)
    BY <1>2 DEF Scan
  <2> HIDE DEF t
  <2>3. /\ Ordered(q) /\ Tunes(q) = {t}
        /\ Switches(q) = IF band = "UNKNOWN" THEN {"FM"} ELSE {}
    BY <2>1, ScheduledInOrder DEF Bands
  <2>4. PICK b \in Bands : b = IF band = "UNKNOWN" THEN "FM" ELSE band
    BY DEF BandInv, Bands
  <2> HIDE DEF q
  <2>5. queue' = q /\ running' = running /\ band' = band /\ program' = program
    BY <2>2, CallAtRest
  <2>6. ASSUME Resting, ~disturbed
        PROVE  Finds(t)'
    <3>1. Reaches(b)'
      BY <1>b, <2>3, <2>4, <2>5, <2>6 DEF Reaches, Fresh
    <3>2. InBand(b)
      <4>1. CASE band = "UNKNOWN"
        BY <1>b, <2>6, <4>1 DEF InBand, SuitsBand, Suits, Modulation, AmBands
      <4>2. CASE band # "UNKNOWN"
        BY <1>b, <2>4, <2>6, <4>2
      <4> QED BY <4>1, <4>2
    <3> QED BY <2>1, <2>4, <2>5, <3>1, <3>2 DEF Finds, StaysInRange, Goal, InBand, SuitsBand
  <2> QED BY <1>a, <2>1, <2>2, <2>3, <2>6
<1>3. ASSUME NEW up \in BOOLEAN, Step(up)
      PROVE  BandInv'
  <2>1. PICK r \in RangesOf(program) : CancelLocked(Schedule(<<>>, Task("step", Stepped(up, r))))
    BY <1>3 DEF Step
  <2>a. PICK t : t = Task("step", Stepped(up, r))
    OBVIOUS
  <2> DEFINE q == Schedule(<<>>, t)
  <2>2. program \in Nat
    BY DEF IInv, Typed
  <2>3. Stepped(up, r) \in Nat \ {NoProgram} /\ RangesOf(Stepped(up, r)) # {}
    BY <2>2, SteppedInRange
  <2>4. t \in Tasks /\ t.kind = "step" /\ t.freq = Stepped(up, r) /\ t.kind \in Tuning
    BY <2>3, <2>a, TaskFields DEF Kinds, Task, Tuning
  <2>5. RangesOf(t.freq) = RangesOf(program) /\ ModulationOf(t.freq) = ModulationOf(program)
    BY <2>2, <2>4, SteppedInRange
  <2>6. Called /\ CancelLocked(q) /\ program # NoProgram
    BY <1>3, <2>1, <2>a DEF Step
  <2>7. Ordered(q) /\ Tunes(q) = {t} /\ Switches(q) = {}
    BY <2>4, ScheduledInOrder DEF Bands
  <2> HIDE DEF q
  <2>8. queue' = q /\ running' = running /\ band' = band /\ program' = program
    BY <2>6, CallAtRest
  <2>9. ASSUME Resting, ~disturbed
        PROVE  Finds(t)'
    <3>1. InBand(band) /\ running.kind # "band"
      BY <1>b, <2>6, <2>9 DEF Fresh
    <3>2. Reaches(band)'
      BY <2>7, <2>8, <3>1 DEF Reaches
    <3>3. SuitsBand(band, t.freq)
      BY <2>5, <2>6, <3>1 DEF InBand, SuitsBand, Suits
    <3>4. band \in Bands
      BY DEF BandInv
    <3> QED BY <2>4, <2>5, <2>8, <3>2, <3>3, <3>4 DEF Finds, StaysInRange, Goal, SuitsBand
  <2> QED BY <1>a, <2>4, <2>6, <2>7, <2>9
<1>4. CASE StepRefused \/ Cancel
  <2>1. Called /\ CancelLocked(<<>>)
    BY <1>4 DEF StepRefused, Cancel
  <2>2. Ordered(<<>>) /\ Tunes(<<>>) = {} /\ Switches(<<>>) = {}
    BY DEF Ordered, Tunes, Switches
  <2> QED BY <1>a, <2>1, <2>2
<1>5. CASE Close
  <2>1. /\ queue' = <<>> /\ isClosed' = TRUE
        /\ UNCHANGED <<running, program, band, deviceBand, disturbed>>
    BY <1>5 DEF Close, client
  <2>2. Ordered(<<>>) /\ Tunes(<<>>) = {} /\ Switches(<<>>) = {}
    BY DEF Ordered, Tunes, Switches
  <2>3. ~Resting' /\ TunesInBand' /\ (RunsInBand => RunsInBand')
    BY <2>1, <2>2 DEF Resting, TunesInBand, RunsInBand, StaysInRange, Goal, SuitsBand
  <2> QED BY <2>1, <2>2, <2>3 DEF BandInv, RestsInBand
<1>6. CASE Destroy
  <2>1. /\ life' = "dying"
        /\ UNCHANGED <<queue, running, program, band, deviceBand, disturbed>>
    BY <1>6 DEF Destroy
  <2>2. ~Resting' /\ (TunesInBand => TunesInBand') /\ (RunsInBand => RunsInBand')
    BY <2>1 DEF Resting, TunesInBand, RunsInBand, Finds, StaysInRange, Goal, SuitsBand, Reaches
  <2> QED BY <2>1, <2>2 DEF BandInv, RestsInBand
<1> QED BY <1>1, <1>2, <1>3, <1>4, <1>5, <1>6 DEF Client


\* The session changes nothing that a task's band depends on, and its queue is like q's.
LEMMA SameBand ==
  ASSUME BandInv, Alike(queue', queue),
         UNCHANGED <<program, band, deviceBand, life, isClosed, disturbed>>,
         \/ running' = running
         \/ /\ running.kind \in {"none", "metadata"}
            /\ running'.kind \in {"none", "metadata"}
  PROVE  BandInv'
<1>1. Ordered(queue') /\ Switches(queue') = Switches(queue) /\ Tunes(queue') = Tunes(queue)
  BY DEF BandInv, Alike
<1>2. /\ (running'.kind \in Tuning) = (running.kind \in Tuning)
      /\ (running'.kind = "band") = (running.kind = "band")
      /\ (running'.kind = "seek") = (running.kind = "seek")
      /\ (running'.kind \in {"tune", "step"}) = (running.kind \in {"tune", "step"})
  BY DEF Tuning
<1>3. running.kind \in Tuning \cup {"band"} => running' = running
  BY DEF Tuning
<1>4. Resting' = Resting /\ Fresh' = Fresh /\ InBand(band)' = InBand(band)
  BY <1>1, <1>2 DEF Resting, Fresh, InBand, SuitsBand
<1>5. \A b : Reaches(b)' = Reaches(b)
  BY <1>1, <1>2, <1>3 DEF Reaches
<1>6. \A u : Finds(u)' = Finds(u)
  BY <1>5 DEF Finds, StaysInRange, Goal, SuitsBand
<1>7. TunesInBand => TunesInBand'
  BY <1>1, <1>2, <1>6 DEF TunesInBand
<1>8. RunsInBand => RunsInBand'
  BY <1>1, <1>2, <1>3 DEF RunsInBand, StaysInRange, Goal, SuitsBand
<1>9. RestsInBand => RestsInBand'
  BY <1>1, <1>2, <1>4 DEF RestsInBand
<1> QED BY <1>1, <1>7, <1>8, <1>9 DEF BandInv

LEMMA WorkerKeepsBandInv == IInv /\ BandInv /\ Worker => BandInv'
<1> SUFFICES ASSUME IInv, BandInv, Worker PROVE BandInv'
  OBVIOUS
<1>q. queue \in Seq(Entries) /\ Alike(queue, queue)
  BY DEF IInv, Typed, Alike
<1>n. NoTask.kind = "none"
  BY DEF NoTask, Task
\* The task is done, perhaps with the first metadata task in its place.
<1>m. ASSUME queue' = queue \/ queue' = Schedule(queue, Task("metadata", NoProgram))
      PROVE  Alike(queue', queue)
  BY <1>q, <1>m, ChainAlike
<1>1. CASE Take
  <2> DEFINE t == Head(queue).task
  <2>1. queue # <<>> /\ t \in Tasks
    <3>1. queue # <<>>
      BY <1>1 DEF Take
    <3>2. Head(queue) \in Entries
      BY <1>q, <3>1
    <3> QED BY <3>1, <3>2 DEF Entries
  <2>2. /\ running = NoTask /\ running' = t /\ queue' = Tail(queue)
        /\ UNCHANGED <<program, band, deviceBand, life, isClosed, disturbed>>
    BY <1>1 DEF Take, session, client
  <2>3. /\ Ordered(queue')
        /\ t.kind = "metadata" => Alike(queue', queue)
        /\ t.kind = "band" => /\ Switches(queue') = {} /\ Switches(queue) = {t.band}
                              /\ Tunes(queue') = Tunes(queue)
        /\ t.kind \in Tuning => /\ Switches(queue') = {} /\ Switches(queue) = {}
                                /\ Tunes(queue') = {} /\ Tunes(queue) = {t}
    BY <1>q, <2>1, <2>2, TailOrdered DEF BandInv
  <2>4. t.kind \in Tuning \cup {"band", "metadata"}
    BY <2>1 DEF Tasks, Kinds, Tuning
  <2> HIDE DEF t
  <2>5. CASE t.kind = "metadata"
    BY <1>n, <2>2, <2>3, <2>5, SameBand
  <2>6. CASE t.kind = "band"
    <3>1. t.kind \notin Tuning /\ running.kind \notin Tuning /\ running.kind # "band"
      BY <1>n, <2>2, <2>6 DEF Tuning
    <3>2. \A b : Reaches(b) => Reaches(b)'
      BY <2>2, <2>3, <2>6, <3>1 DEF Reaches
    <3>3. InBand(band)' = InBand(band) /\ Fresh' = Fresh /\ \A u : Finds(u) => Finds(u)'
      BY <2>2, <3>2 DEF InBand, SuitsBand, Fresh, Finds, StaysInRange, Goal
    <3>4. TunesInBand => TunesInBand'
      BY <2>2, <2>3, <2>6, <3>1, <3>3 DEF TunesInBand
    <3>5. RunsInBand'
      BY <2>2, <2>6, <3>1 DEF RunsInBand, Tuning
    <3>6. Resting' => Resting
      BY <2>2, <2>3, <2>6, <3>1 DEF Resting
    <3>7. RestsInBand => RestsInBand'
      BY <2>2, <2>3, <2>6, <3>3, <3>6 DEF RestsInBand
    <3> QED BY <2>2, <2>3, <3>4, <3>5, <3>7 DEF BandInv
  <2>7. CASE t.kind \in Tuning
    <3>1. Tunes(queue') = {} /\ Switches(queue') = {} /\ Switches(queue) = {}
          /\ t \in Tunes(queue) /\ running.kind # "band"
      BY <1>n, <2>2, <2>3, <2>7
    <3>2. ~Resting' /\ TunesInBand'
      BY <2>2, <2>7, <3>1 DEF Resting, TunesInBand
    <3>3. ASSUME TunesInBand
          PROVE  RunsInBand'
      <4>1. PICK b \in Bands : Reaches(b) /\ SuitsBand(b, Goal(t)) /\ StaysInRange(t)
        BY <3>1, <3>3 DEF TunesInBand, Finds
      <4>2. b = band
        BY <3>1, <4>1 DEF Reaches
      <4> QED BY <2>2, <3>1, <4>1, <4>2 DEF RunsInBand, StaysInRange, Goal, SuitsBand
    <3> QED BY <2>2, <2>3, <2>7, <3>2, <3>3 DEF BandInv, RestsInBand
  <2> QED BY <2>4, <2>5, <2>6, <2>7
<1>2. CASE DoSwitchBand
  <2>1. /\ running.kind = "band" /\ running' = NoTask
        /\ UNCHANGED <<queue, program, life, isClosed>>
        /\ running \in Tasks /\ running.band \in Bands
    BY <1>2, <1>n DEF DoSwitchBand, TaskDone, IInv, Typed, Tasks
  <2>2. CASE disturbed' = TRUE /\ UNCHANGED <<band, deviceBand>>
    BY <2>1, <2>2 DEF BandInv
  <2>3. CASE band' = running.band /\ deviceBand' = Modulation(running.band) /\ UNCHANGED disturbed
    <3>1. \A b : Reaches(b) => Reaches(b)'
      BY <1>n, <2>1, <2>3 DEF Reaches
    <3>2. running.kind \notin Tuning /\ running'.kind \notin Tuning /\ running'.kind # "band"
          /\ running'.kind \notin {"tune", "step", "seek"}
      BY <1>n, <2>1 DEF Tuning
    <3>3. \A u : Finds(u) => Finds(u)'
      BY <2>1, <3>1 DEF Finds, StaysInRange, Goal, SuitsBand
    <3>4. TunesInBand => TunesInBand'
      BY <2>1, <3>2, <3>3 DEF TunesInBand
    <3>5. RunsInBand'
      BY <3>2 DEF RunsInBand
    <3>6. Resting' => Resting
      BY <2>1, <3>2 DEF Resting
    <3>7. ASSUME RestsInBand
          PROVE  RestsInBand'
      <4>1. Resting => program = NoProgram /\ Switches(queue) = {}
        BY <2>1, <3>7 DEF RestsInBand, Fresh
      <4> QED BY <2>1, <3>2, <3>6, <4>1 DEF RestsInBand, InBand, SuitsBand
    <3> QED BY <2>1, <2>3, <3>4, <3>5, <3>7 DEF BandInv
  <2> QED BY <1>2, <2>2, <2>3 DEF DoSwitchBand
<1>3. CASE DoTune \/ DoSeek
  <2>1. /\ running.kind \in Tuning /\ running' = NoTask
        /\ UNCHANGED <<band, deviceBand, life, isClosed>>
        /\ ~disturbed' => ~disturbed
    <3>1. /\ running.kind \in Tuning /\ running' = NoTask
          /\ UNCHANGED <<band, deviceBand, life, isClosed>>
      BY <1>3 DEF DoTune, DoSeek, TaskDone, UsesMembers, Tuning
    <3>2. disturbed' = disturbed \/ disturbed' = (disturbed \/ ~Suits(deviceBand, program'))
      BY <1>3 DEF DoTune, DoSeek
    <3>3. ~disturbed' => ~disturbed
      BY <3>2, Zenon
    <3> QED BY <3>1, <3>3
  <2>2. Alike(queue', queue)
    BY <1>3, <1>m DEF DoTune, DoSeek, LaunchMetadataFetchTask
  <2>3. ASSUME ~disturbed
        PROVE  Switches(queue') = {} /\ Tunes(queue') = {}
    BY <2>1, <2>2, <2>3 DEF BandInv, TunesInBand, RunsInBand, Alike
  <2>4. ASSUME ~disturbed'
        PROVE  InBand(band)'
    <3>1. SuitsBand(band, Goal(running)) /\ deviceBand = Modulation(band)
      BY <2>1, <2>4 DEF BandInv, RunsInBand
    <3>2. CASE DoTune
      BY <2>1, <3>1, <3>2 DEF DoTune, Goal, InBand, SuitsBand
    <3>3. CASE DoSeek
      <4>1. SuitsBand(band, program) /\ band' = band
        BY <2>1, <3>1, <3>3 DEF DoSeek, Goal
      <4>2. program' = program \/ Suits(deviceBand, program')
        BY <2>4, <3>3 DEF DoSeek
      <4> QED BY <3>1, <4>1, <4>2 DEF InBand, SuitsBand
    <3> QED BY <1>3, <3>2, <3>3
  <2>5. running'.kind \notin Tuning /\ running'.kind \notin {"tune", "step", "seek", "band"}
    BY <1>n, <2>1 DEF Tuning
  <2>6. ~disturbed' => TunesInBand' /\ RunsInBand' /\ RestsInBand'
    BY <2>1, <2>3, <2>4, <2>5 DEF TunesInBand, RunsInBand, RestsInBand
  <2> QED BY <2>1, <2>2, <2>6 DEF BandInv, Alike
<1>4. CASE MetadataRead \/ MetadataTest \/ MetadataSchedule
  <2>1. /\ running.kind = "metadata"
        /\ UNCHANGED <<program, band, deviceBand, life, isClosed, disturbed>>
    BY <1>4 DEF MetadataRead, MetadataTest, MetadataSchedule, UsesMembers, session, client,
                IInv, Typed
  <2>2. running' = running \/ running'.kind = "none"
    BY <1>4, <1>n DEF MetadataRead, MetadataTest, MetadataSchedule, TaskDone
  <2>3. Alike(queue', queue)
    BY <1>4, <1>m DEF MetadataRead, MetadataTest, MetadataSchedule
  <2> QED BY <2>1, <2>2, <2>3, SameBand
<1> QED BY <1>1, <1>2, <1>3, <1>4 DEF Worker

\* The band of the device is that of what is tuned to, and of what will be.
THEOREM BandInvariance == Spec => []BandInv
<1>1. IInv /\ BandInv /\ [Next]_vars => BandInv'
  <2> SUFFICES ASSUME IInv, BandInv, [Next]_vars PROVE BandInv'
    OBVIOUS
  <2>1. CASE Tick
    <3>1. UNCHANGED <<running, program, band, deviceBand, life, isClosed, disturbed>>
      BY <2>1 DEF Tick, session, client
    <3>2. /\ Len(queue') = Len(queue)
          /\ \A i \in 1..Len(queue) : queue'[i].task = queue[i].task
      BY <2>1, TickKeepsTasks DEF IInv, Typed
    <3>3. Alike(queue', queue)
      <4>1. Switches(queue') = Switches(queue) /\ Tunes(queue') = Tunes(queue)
        BY <3>2 DEF Switches, Tunes, SwitchAt, TuneAt
      <4>2. Ordered(queue) => Ordered(queue')
        BY <3>2 DEF Ordered, SwitchAt, TuneAt
      <4> QED BY <4>1, <4>2 DEF Alike
    <3> QED BY <3>1, <3>3, SameBand
  <2>2. CASE Joined
    <3>1. queue' = <<>> /\ life' = "gone" /\ running = NoTask
          /\ UNCHANGED <<running, program, band, deviceBand, disturbed>>
      BY <2>2 DEF Joined, session
    <3>2. Ordered(<<>>) /\ Tunes(<<>>) = {} /\ Switches(<<>>) = {}
      BY DEF Ordered, Tunes, Switches
    <3>3. running'.kind = "none"
      BY <3>1 DEF NoTask, Task
    <3>4. ~Resting' /\ TunesInBand' /\ RunsInBand'
      BY <3>1, <3>2, <3>3 DEF Resting, TunesInBand, RunsInBand, Tuning
    <3> QED BY <3>1, <3>2, <3>4 DEF BandInv, RestsInBand
  <2>3. CASE UNCHANGED vars
    <3>1. Alike(queue', queue)
      BY <2>3 DEF vars, Alike
    <3> QED BY <2>3, <3>1, SameBand DEF vars, session, client
  <2> QED BY <2>1, <2>2, <2>3, WorkerKeepsBandInv, ClientKeepsBandInv DEF Next
<1> QED BY InitBandInv, <1>1, Invariance, PTL DEF Spec

\* A task that tunes and is done has tuned.
LEMMA DoneIsTuned ==
  ASSUME IInv, [Next]_vars, running.kind \in {"tune", "step"}, running' = NoTask
  PROVE  DoTune /\ running \in Tasks
<1>1. running # NoTask /\ running # running' /\ mpc = "none"
  BY DEF NoTask, Task, IInv, Typed
<1>2. ~Tick /\ ~Client /\ ~Joined /\ ~UNCHANGED vars
  BY <1>1 DEF Tick, Client, Joined, vars, Tune, Scan, Step, StepRefused, Cancel, Close, Destroy,
              Called
<1>3. ~Take /\ ~DoSwitchBand /\ ~DoSeek /\ ~MetadataRead /\ ~MetadataTest /\ ~MetadataSchedule
  BY <1>1 DEF Take, DoSwitchBand, DoSeek, MetadataRead, MetadataTest, MetadataSchedule
<1> QED BY <1>1, <1>2, <1>3 DEF Next, Worker, IInv, Typed

\* Whatever a client that waits for its answers tunes, seeks and steps to, in the ranges or
\* not, and however metadata tasks come between, a channel is reported as tuned with the
\* device in its band, as long as the driver refuses no band and reports no other one.
THEOREM ReportsItsBand == Spec => TunedInItsBand
<1>1. ASSUME IInv, BandInv, [Next]_vars
      PROVE  [~disturbed /\ running.kind \in {"tune", "step"} /\ running' = NoTask
                => Suits(deviceBand, program')]_vars
  <2> SUFFICES ASSUME ~disturbed, running.kind \in {"tune", "step"}, running' = NoTask
               PROVE  Suits(deviceBand, program')
    OBVIOUS
  <2>1. DoTune /\ running \in Tasks
    BY <1>1, DoneIsTuned
  <2>2. SuitsBand(band, running.freq) /\ deviceBand = Modulation(band)
    BY <1>1 DEF BandInv, RunsInBand, Goal, Tuning
  <2> QED BY <2>1, <2>2 DEF DoTune, SuitsBand, Tasks
<1> QED BY <1>1, Invariance, BandInvariance, PTL DEF Spec, TunedInItsBand

\* A step wraps around at the ends of the range it began in: no tune or seek comes between
\* for a client that waits, and none takes a step out of the ranges for any other.
THEOREM StepsStayInRange == Spec => StepStaysInRange
<1>1. ASSUME IInv, BandInv, [Next]_vars
      PROVE  [running.kind = "step" /\ running' = NoTask
                => /\ RangesOf(program') # {}
                   /\ ~disturbed => RangesOf(program') = RangesOf(program)]_vars
  <2> SUFFICES ASSUME running.kind = "step", running' = NoTask
               PROVE  /\ RangesOf(program') # {}
                      /\ ~disturbed => RangesOf(program') = RangesOf(program)
    OBVIOUS
  <2>1. DoTune /\ running \in Tasks
    BY <1>1, DoneIsTuned
  <2>2. ~disturbed => StaysInRange(running)
    BY <1>1 DEF BandInv, RunsInBand, Tuning
  <2> QED BY <2>1, <2>2 DEF DoTune, StaysInRange, Tasks
<1> QED BY <1>1, Invariance, BandInvariance, PTL DEF Spec, StepStaysInRange

(***************************************************************************)
(* The module that opens the sessions (BroadcastRadio), for any number of  *)
(* binder threads and of sessions: the locks are where the code holds them,*)
(* and at most one session is open.                                        *)
(*                                                                         *)
(* OneOpenSession is not inductive: openSession clears mSession and, some  *)
(* steps later, sets it.  SessionsKnown adds what holds between: the       *)
(* session being closed is mSession, and at openNew no session is open.    *)
(* That another thread is not at openNew too comes from the lock, that is, *)
(* from TypeOK.                                                            *)
(***************************************************************************)
SessionsKnown ==
    /\ \A t \in Threads : arg[t] # NoSession => arg[t] \in alive
    /\ \A t \in Threads :
          pc[t] \in {"openCloseLock", "lock"} \cup SessionHeld => arg[t] # NoSession
    /\ \A t \in Threads : pc[t] \in {"openCloseLock", "openClosing"} => arg[t] = mSession
    /\ \A t \in Threads : pc[t] = "openNew" => mSession \notin alive \ closed

RadioIInv == RadioTypeOK /\ OneOpenSession /\ SessionsKnown

\* Nothing is open when the service starts.
LEMMA RadioInitIInv == RadioInit => RadioIInv
BY RadioAssumption DEF RadioInit, RadioIInv, RadioTypeOK, OneOpenSession,
   SessionsKnown, PCs, ModuleHeld, SessionHeld, Opening

\* openSession, from taking mMut to handing out the new session.
LEMMA OpeningKeepsRadioIInv ==
    ASSUME NEW t \in Threads, RadioIInv,
           OpenLocked(t) \/ OpenCloseLocked(t) \/ OpenClosed(t) \/ OpenNew(t)
    PROVE  RadioIInv'
<1> USE RadioAssumption DEF RadioIInv, ModuleHeld, SessionHeld, Opening,
        PCs, At, TakeModule,
        TakeSession, DropSession, state, locks
<1>1. CASE OpenLocked(t)
  <2>1. RadioTypeOK'
    BY <1>1 DEF OpenLocked, RadioTypeOK, SessionsKnown
  <2>2. OneOpenSession'
    BY <1>1 DEF OpenLocked, OneOpenSession
  <2>3. SessionsKnown'
    BY <1>1 DEF OpenLocked, RadioTypeOK, SessionsKnown
  <2> QED BY <2>1, <2>2, <2>3
<1>2. CASE OpenCloseLocked(t)
  <2>1. RadioTypeOK'
    BY <1>2 DEF OpenCloseLocked, RadioTypeOK, SessionsKnown
  <2>2. OneOpenSession'
    BY <1>2 DEF OpenCloseLocked, OneOpenSession
  <2>3. SessionsKnown'
    BY <1>2 DEF OpenCloseLocked, RadioTypeOK, SessionsKnown
  <2> QED BY <2>1, <2>2, <2>3
<1>3. CASE OpenClosed(t)
  <2>1. RadioTypeOK'
    BY <1>3 DEF OpenClosed, RadioTypeOK, SessionsKnown
  <2>2. OneOpenSession'
    BY <1>3 DEF OpenClosed, OneOpenSession, SessionsKnown, RadioTypeOK
  <2>3. SessionsKnown'
    BY <1>3 DEF OpenClosed, RadioTypeOK, SessionsKnown
  <2> QED BY <2>1, <2>2, <2>3
<1>4. CASE OpenNew(t)
  <2>1. RadioTypeOK'
    BY <1>4 DEF OpenNew, RadioTypeOK, SessionsKnown
  <2>2. OneOpenSession'
    BY <1>4 DEF OpenNew, OneOpenSession, SessionsKnown, RadioTypeOK
  <2>3. SessionsKnown'
    BY <1>4 DEF OpenNew, RadioTypeOK, SessionsKnown
  <2> QED BY <2>1, <2>2, <2>3
<1> QED BY <1>1, <1>2, <1>3, <1>4

\* The calls on the module's configuration and on a session, up to the return.
LEMMA CallsKeepRadioIInv ==
    ASSUME NEW t \in Threads, RadioIInv,
           \/ Open(t) \/ GetConfig(t) \/ GetConfigLocked(t) \/ GetConfigReturns(t)
           \/ \E s \in Sessions : SessionCall(t, s)
           \/ CallLocked(t)
           \/ StepFindsRange(t) \/ StepConfigLocked(t) \/ StepConfigRead(t)
    PROVE  RadioIInv'
<1> USE RadioAssumption DEF RadioIInv, ModuleHeld, SessionHeld, Opening,
        PCs, At, TakeModule,
        TakeSession, state, locks
<1>1. CASE Open(t) \/ GetConfig(t)
  BY <1>1 DEF Open, GetConfig, RadioTypeOK, OneOpenSession, SessionsKnown
<1>2. CASE GetConfigLocked(t) \/ GetConfigReturns(t)
  BY <1>2 DEF GetConfigLocked, GetConfigReturns, RadioTypeOK, OneOpenSession,
     SessionsKnown
<1>3. CASE \E s \in Sessions : SessionCall(t, s)
  BY <1>3 DEF SessionCall, RadioTypeOK, OneOpenSession, SessionsKnown
<1>4. CASE CallLocked(t)
  BY <1>4 DEF CallLocked, RadioTypeOK, OneOpenSession, SessionsKnown
<1>5. CASE StepFindsRange(t) \/ StepConfigLocked(t) \/ StepConfigRead(t)
  BY <1>5 DEF StepFindsRange, StepConfigLocked, StepConfigRead, RadioTypeOK,
     OneOpenSession,
     SessionsKnown
<1> QED BY <1>1, <1>2, <1>3, <1>4, <1>5

\* The return from a call, and a session that its client drops.
LEMMA ReturnsKeepRadioIInv ==
    ASSUME NEW t \in Threads, RadioIInv,
           \/ TuneReturns(t) \/ CloseReturns(t) \/ StepReturns(t)
           \/ \E s \in Sessions : Dropped(s)
    PROVE  RadioIInv'
<1> USE RadioAssumption DEF RadioIInv, ModuleHeld, SessionHeld, Opening,
        PCs, At, Returns,
        DropSession, state, locks
<1>1. CASE TuneReturns(t) \/ StepReturns(t)
  BY <1>1 DEF TuneReturns, StepReturns, RadioTypeOK, OneOpenSession, SessionsKnown
<1>2. CASE CloseReturns(t)
  <2>1. RadioTypeOK'
    BY <1>2 DEF CloseReturns, RadioTypeOK, SessionsKnown
  <2>2. OneOpenSession' /\ SessionsKnown'
    BY <1>2 DEF CloseReturns, RadioTypeOK, OneOpenSession, SessionsKnown
  <2> QED BY <2>1, <2>2
<1>3. CASE \E s \in Sessions : Dropped(s)
  BY <1>3 DEF Dropped, RadioTypeOK, OneOpenSession, SessionsKnown
<1> QED BY <1>1, <1>2, <1>3

LEMMA RadioNextIInv ==
    ASSUME RadioIInv, [RadioNext]_radioVars
    PROVE  RadioIInv'
<1>1. CASE \E t \in Threads : Open(t) \/ GetConfig(t) \/ Runs(t)
  BY <1>1, OpeningKeepsRadioIInv, CallsKeepRadioIInv, ReturnsKeepRadioIInv DEF Runs
<1>2. CASE \E t \in Threads, s \in Sessions : SessionCall(t, s)
  BY <1>2, CallsKeepRadioIInv
<1>3. CASE \E s \in Sessions : Dropped(s)
  BY <1>3, RadioAssumption DEF Dropped, locks, RadioIInv, RadioTypeOK,
     OneOpenSession, SessionsKnown
<1>4. CASE UNCHANGED radioVars
  BY <1>4 DEF radioVars, RadioIInv, RadioTypeOK, OneOpenSession, SessionsKnown
<1> QED BY <1>1, <1>2, <1>3, <1>4 DEF RadioNext

\* The locks are where the threads are, and the session that is open is known.
THEOREM RadioInvariance == RadioSpec => []RadioIInv
BY RadioInitIInv, RadioNextIInv, PTL DEF RadioSpec

\* The variables keep their ranges, and each lock is held exactly by the thread
\* that is between lock_guard and its end: openSession, getAmFmConfig and the
\* calls of a session release what they take on every path.
THEOREM RadioTypeCorrect == RadioSpec => []RadioTypeOK
<1>1. RadioIInv => RadioTypeOK
  BY DEF RadioIInv
<1> QED BY <1>1, RadioInvariance, PTL

\* However many threads open, use, close and drop sessions, the tuner has one open
\* session at most, and it is the one openSession would close.
THEOREM RadioOneSession == RadioSpec => []OneOpenSession
<1>1. RadioIInv => OneOpenSession
  BY DEF RadioIInv
<1> QED BY <1>1, RadioInvariance, PTL

=============================================================================
