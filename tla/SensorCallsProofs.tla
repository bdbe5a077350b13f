-------------------------- MODULE SensorCallsProofs --------------------------
(***************************************************************************)
(* Proofs about SensorCalls and SensorCallsAlone, for any number of binder *)
(* threads, any virtual sensors and any rates.                             *)
(***************************************************************************)
EXTENDS SensorCallsAlone, NaturalsInduction, WellFoundedInduction, TLAPS

(***************************************************************************)
(* Lemmas about the sensors and their groups.                              *)
(***************************************************************************)
Members(g) == Sensor!Members(g)
GroupMax(o, g) == Sensor!GroupMax(o, g)

LEMMA TheSensors ==
  /\ Hw = {"ACC", "MAG", "GYR"} /\ Groups = {"AccMagn", "Gyro"}
  /\ Hw \cap Virtual = {}
  /\ Members("AccMagn") = {"ACC", "MAG"} /\ Members("Gyro") = {"GYR"}
  /\ \A h \in Hw : GroupOf(h) \in Groups /\ h \in Members(GroupOf(h))
  /\ \A g \in Groups : Members(g) \subseteq Hw /\ Members(g) # {}
  /\ \A g \in Groups : \A h \in Hw : h \in Members(g) <=> GroupOf(h) = g
<1>1. Hw = {"ACC", "MAG", "GYR"} /\ Groups = {"AccMagn", "Gyro"}
  BY DEF Hw, Groups, Sensor!Hw, Sensor!Groups
<1>2. Hw \cap Virtual = {}
  BY SensorCallsAssumption DEF Sensor!SensorsAssumption, Hw, Sensor!Hw
<1>3. \A h \in Hw : GroupOf(h) = IF h = "GYR" THEN "Gyro" ELSE "AccMagn"
  BY DEF GroupOf, Sensor!GroupOf
<1>4. \A g : Members(g) = {h \in Hw : GroupOf(h) = g}
  BY DEF Members, Sensor!Members, Hw, GroupOf, Sensor!Hw
<1>5. Members("AccMagn") = {"ACC", "MAG"} /\ Members("Gyro") = {"GYR"}
  BY <1>1, <1>3, <1>4
<1> QED BY <1>1, <1>2, <1>3, <1>4, <1>5

\* The sensor a call goes to next is one of those it has to go to.
LEMMA FirstIsMember ==
  ASSUME NEW s \in SUBSET Hw, s # {}
  PROVE  First(s) \in s /\ First(s) \in Hw
<1>1. Hw = {"ACC", "MAG", "GYR"}
  BY TheSensors
<1>2. "ACC" \in s \/ "MAG" \in s \/ "GYR" \in s
  BY <1>1
<1>3. First(s) \in s
  BY <1>2 DEF First
<1> QED BY <1>3

\* A call goes to some hardware sensors, and is in their groups.
LEMMA PartsAndTouches ==
  ASSUME NEW c \in Calls
  PROVE  /\ Parts(c.of) \subseteq Hw /\ Parts(c.of) # {}
         /\ Touches(c) \subseteq Groups
         /\ \A h \in Parts(c.of) : GroupOf(h) \in Touches(c)
         /\ \A g \in Touches(c) : \E h \in Parts(c.of) : GroupOf(h) = g
<1>1. Sensor!Uses(c.of) \subseteq Hw /\ "ACC" \in Sensor!Uses(c.of)
  BY TheSensors DEF Sensor!Uses
<1>2. Parts(c.of) \subseteq Hw /\ Parts(c.of) # {}
  BY <1>1 DEF Parts
<1>3. Touches(c) = {GroupOf(h) : h \in Parts(c.of)}
  BY DEF Touches, Parts
<1> QED BY <1>2, <1>3, TheSensors

(***************************************************************************)
(* Lemmas about the rates: they are numbers, and what getMaxODRFromGroup   *)
(* finds when it has looked at a whole group is the highest of its rates.  *)
(***************************************************************************)
\* Sets of numbers have a least element.
LEMMA HasLeast ==
  ASSUME NEW S \in SUBSET Nat, S # {}
  PROVE  \E m \in S : \A n \in S : m <= n
<1>1. IsWellFoundedOn(OpToRel(<, Nat), Nat)
  BY NatLessThanWellFounded
<1>2. PICK m \in S : \A n \in S : <<n, m>> \notin OpToRel(<, Nat)
  BY <1>1, WFMin
<1>3. \A n \in S : ~(n < m)
  BY <1>2 DEF OpToRel
<1> QED BY <1>3

LEMMA LeastIsMember ==
  ASSUME NEW S \in SUBSET Nat, S # {}
  PROVE  Sensor!Min(S) \in S
<1>1. \E m \in S : \A n \in S : m <= n
  BY HasLeast
<1> QED BY <1>1 DEF Sensor!Min

LEMMA GreatestIsMember ==
  ASSUME NEW S \in SUBSET Nat, S # {}, NEW b \in Nat, \A n \in S : n <= b
  PROVE  Sensor!Max(S) \in S
<1> DEFINE T == {b - n : n \in S}
<1>1. T \in SUBSET Nat /\ T # {}
  <2>1. \A n \in S : n \in Nat /\ b - n \in Nat
    OBVIOUS
  <2> QED BY <2>1
<1>2. PICK k \in T : \A n \in T : k <= n
  <2> HIDE DEF T
  <2> QED BY <1>1, HasLeast
<1>3. PICK m \in S : k = b - m
  OBVIOUS
<1>4. \A n \in S : b - m <= b - n
  BY <1>2, <1>3
<1>5. ASSUME NEW n \in S
      PROVE  m >= n
  <2>1. b - m <= b - n
    BY <1>4
  <2>2. m \in Nat /\ n \in Nat
    OBVIOUS
  <2> HIDE DEF T
  <2> QED BY <2>1, <2>2
<1> QED BY <1>5 DEF Sensor!Max

\* The rates of a sensor are numbers, up to some limit.
LEMMA RatesOfSensor ==
  ASSUME NEW h \in Hw
  PROVE  /\ Sensor!Available[h] \in SUBSET Nat /\ Sensor!Available[h] # {}
         /\ \E b \in Nat : \A o \in Sensor!Available[h] : o <= b
<1> DEFINE listed == {o \in Sysfs[h] : MinODR[h] <= o /\ o <= MaxODR[h]}
<1>1. Sysfs[h] \subseteq Nat /\ MaxODR[h] \in Nat /\ DefaultODR[h] \in Nat
  BY SensorCallsAssumption DEF Sensor!SensorsAssumption, Hw
<1>2. Sensor!Available[h] = IF listed = {} THEN {DefaultODR[h]} ELSE listed
  BY DEF Sensor!Available, Hw
<1>3. CASE listed = {}
  BY <1>1, <1>2, <1>3
<1>4. CASE listed # {}
  BY <1>1, <1>2, <1>4
<1> QED BY <1>3, <1>4

LEMMA StoredRate ==
  ASSUME NEW h \in Hw, NEW p \in Periods
  PROVE  Sensor!HWRate(h, p) \in Nat
<1> DEFINE r == Sensor!SamplingPeriodNsToODR(p)
           above == {o \in Sensor!Available[h] : o >= r}
<1>1. PICK b \in Nat : \A o \in Sensor!Available[h] : o <= b
  BY RatesOfSensor
<1>2. Sensor!Max(Sensor!Available[h]) \in Nat
  BY <1>1, RatesOfSensor, GreatestIsMember
<1>3. above # {} => Sensor!Min(above) \in Nat
  <2>1. above \in SUBSET Nat
    BY RatesOfSensor
  <2> HIDE DEF above
  <2> QED BY <2>1, LeastIsMember
<1>4. Sensor!HWRate(h, p) = IF above = {} THEN Sensor!Max(Sensor!Available[h]) ELSE Sensor!Min(above)
  BY DEF Sensor!HWRate, Sensor!ClosestOdr
<1> HIDE DEF above
<1> QED BY <1>2, <1>3, <1>4

\* n is what getMaxODRFromGroup has when it has looked at the sensors s.
IsHighest(o, n, s) == (\A m \in s : o[m] <= n) /\ (n = 0 \/ \E m \in s : o[m] = n)

LEMMA LooksAtOneMore ==
  ASSUME NEW o \in [Hw -> Nat], NEW n \in Nat, NEW s \in SUBSET Hw, NEW h \in Hw,
         IsHighest(o, n, s)
  PROVE  Larger(n, o[h]) \in Nat /\ IsHighest(o, Larger(n, o[h]), s \cup {h})
<1>1. CASE o[h] > n
  BY <1>1 DEF IsHighest, Larger
<1>2. CASE ~(o[h] > n)
  BY <1>2 DEF IsHighest, Larger
<1> QED BY <1>1, <1>2

LEMMA HighestOfGroup ==
  ASSUME NEW o \in [Hw -> Nat], NEW g \in Groups
  PROVE  /\ GroupMax(o, g) \in Nat
         /\ \A n \in Nat : IsHighest(o, n, Members(g)) => n = GroupMax(o, g)
<1> DEFINE S == {o[h] : h \in Members(g)}
<1>1. GroupMax(o, g) = CHOOSE x \in S : \A y \in S : x >= y
  BY DEF GroupMax, Sensor!GroupMax, Sensor!Max, Members
<1>2. S \in SUBSET Nat
  BY TheSensors
<1>3. \E x \in S : \A y \in S : x >= y
  <2>1. CASE g = "Gyro"
    <3>1. S = {o["GYR"]} /\ o["GYR"] \in Nat
      BY <2>1, TheSensors
    <3> HIDE DEF S
    <3> QED BY <3>1
  <2>2. CASE g = "AccMagn"
    <3>1. S = {o["ACC"], o["MAG"]} /\ o["ACC"] \in Nat /\ o["MAG"] \in Nat
      BY <2>2, TheSensors
    <3> HIDE DEF S
    <3> QED BY <3>1
  <2> QED BY <2>1, <2>2, TheSensors
<1>4. GroupMax(o, g) \in S /\ \A y \in S : GroupMax(o, g) >= y
  <2> HIDE DEF S
  <2> QED BY <1>1, <1>3
<1>5. ASSUME NEW n \in Nat, IsHighest(o, n, Members(g))
      PROVE  n = GroupMax(o, g)
  <2>1. \A y \in S : y <= n
    BY <1>5 DEF IsHighest
  <2>2. n = 0 \/ n \in S
    BY <1>5 DEF IsHighest
  <2> HIDE DEF S
  <2>3. GroupMax(o, g) \in Nat /\ GroupMax(o, g) <= n
    BY <1>2, <1>4, <2>1
  <2>4. n \in S => n <= GroupMax(o, g)
    BY <1>2, <1>4, <2>3
  <2> HIDE DEF GroupMax
  <2> QED BY <2>2, <2>3, <2>4
<1> QED
  <2> HIDE DEF S
  <2> QED BY <1>2, <1>4, <1>5


(***************************************************************************)
(* Where the calls are.                                                    *)
(***************************************************************************)
Kinds == {"activate", "batch"}
ActivateStages == {"enable", "use", "listen", "ask", "set", "flag", "list", "switch"}
BatchStages == {"old", "rate", "new", "trigger"}
Places == [stage : ActivateStages \cup BatchStages \cup {"out", "done"},
           left : SUBSET Hw, looks : SUBSET Hw]
Locals == [value : BOOLEAN, seen : BOOLEAN, old : Nat, new : Nat, wrote : SUBSET Groups]

TypeOK ==
    /\ enabled \in [Hw \cup Virtual -> BOOLEAN]
    /\ listeners \in [Hw -> SUBSET Virtual]
    /\ switch \in [Groups -> BOOLEAN]
    /\ odr \in [Hw -> Nat]
    /\ trigger \in [Groups -> Nat]
    /\ calls \subseteq Calls
    /\ call \in [Threads -> Calls \cup {NoCall}]
    /\ at \in [Threads -> Places]
    /\ local \in [Threads -> Locals]
    /\ shared \in [Threads -> SUBSET Groups]
    /\ doubtful \subseteq [kind : Kinds, group : Groups]

\* A call goes only to sensors it uses, and looks only at their groups.
Fits(c, p) ==
    /\ p.stage = "done" \/ p.stage \in IF c.kind = "batch" THEN BatchStages ELSE ActivateStages
    /\ p.left \subseteq Parts(c.of)
    /\ p.stage = "done" <=> p.left = {}
    /\ p.looks \subseteq Members(GroupOf(First(p.left)))
    /\ p.stage \in {"flag", "list", "old", "new"} <=> p.looks # {}
    /\ p.stage \in {"enable", "use", "listen", "ask"} => c.of \notin Hw
    /\ p.stage \in {"enable", "ask"} => p.left = Parts(c.of)

InPlace(t) == IF InCall(t) THEN Fits(call[t], at[t]) ELSE at[t] = Out

\* The rates found are forgotten with the group.
Forgets(t) == /\ at[t].stage \notin BatchStages => local[t].old = 0
              /\ at[t].stage \notin {"new", "trigger"} => local[t].new = 0

Typed == TypeOK /\ \A t \in Threads : InPlace(t) /\ Forgets(t)

LEMMA ActivateFromFits ==
  ASSUME NEW c \in Calls, c.kind = "activate", NEW l \in SUBSET Parts(c.of)
  PROVE  ActivateFrom(l) \in Places /\ Fits(c, ActivateFrom(l))
<1>1. l \in SUBSET Hw
  BY PartsAndTouches
<1>2. CASE l = {}
  BY <1>2 DEF ActivateFrom, Done, Place, Places, Fits
<1>3. CASE l # {}
  <2>1. ActivateFrom(l) = Place("set", l, {})
    BY <1>3 DEF ActivateFrom
  <2> QED BY <1>1, <1>3, <2>1 DEF Place, Places, Fits, ActivateStages
<1> QED BY <1>2, <1>3

LEMMA FusionFromFits ==
  ASSUME NEW c \in Calls, c.kind = "activate", c.of \notin Hw, NEW e \in BOOLEAN,
         NEW l \in SUBSET Parts(c.of)
  PROVE  FusionFrom(c.of, e, l) \in Places /\ Fits(c, FusionFrom(c.of, e, l))
<1>1. l \in SUBSET Hw /\ Parts(c.of) \subseteq Hw /\ Parts(c.of) # {}
  BY PartsAndTouches
<1>2. CASE l = {}
  <2>1. FusionFrom(c.of, e, l) = Place("ask", Parts(c.of), {})
    BY <1>2 DEF FusionFrom
  <2> QED BY <1>1, <2>1 DEF Place, Places, Fits, ActivateStages
<1>3. CASE l # {}
  <2>1. \/ FusionFrom(c.of, e, l) = Place("use", l, {})
        \/ FusionFrom(c.of, e, l) = Place("listen", l, {})
    BY <1>3 DEF FusionFrom
  <2> QED BY <1>1, <1>3, <2>1 DEF Place, Places, Fits, ActivateStages
<1> QED BY <1>2, <1>3

LEMMA HWBatchFromFits ==
  ASSUME NEW c \in Calls, c.kind = "batch", NEW l \in SUBSET Parts(c.of)
  PROVE  HWBatchFrom(l) \in Places /\ Fits(c, HWBatchFrom(l))
<1>1. l \in SUBSET Hw
  BY PartsAndTouches
<1>2. CASE l = {}
  BY <1>2 DEF HWBatchFrom, Done, Place, Places, Fits
<1>3. CASE l # {}
  <2>1. HWBatchFrom(l) = Place("old", l, Members(GroupOf(First(l))))
    BY <1>3 DEF HWBatchFrom, Members
  <2>2. /\ Members(GroupOf(First(l))) \subseteq Hw
        /\ Members(GroupOf(First(l))) # {}
    BY <1>1, <1>3, FirstIsMember, TheSensors
  <2> QED BY <1>1, <1>3, <2>1, <2>2 DEF Place, Places, Fits, BatchStages
<1> QED BY <1>2, <1>3

LEMMA EntryFits ==
  ASSUME NEW c \in Calls
  PROVE  Entry(c) \in Places /\ Fits(c, Entry(c))
<1>1. c.kind = "batch" \/ c.kind = "activate"
  BY DEF Calls
<1>2. CASE c.kind = "batch"
  <2>1. Entry(c) = HWBatchFrom(Parts(c.of))
    BY <1>2 DEF Entry
  <2> QED BY <1>2, <2>1, HWBatchFromFits
<1>3. CASE c.kind = "activate" /\ c.of \in Hw
  <2>1. Entry(c) = ActivateFrom(Parts(c.of))
    BY <1>3 DEF Entry, Parts
  <2> QED BY <1>3, <2>1, ActivateFromFits
<1>4. CASE c.kind = "activate" /\ c.of \notin Hw
  <2>1. Entry(c) = Place("enable", Parts(c.of), {})
    BY <1>4 DEF Entry
  <2> QED BY <1>4, <2>1, PartsAndTouches DEF Place, Places, Fits, ActivateStages
<1> QED BY <1>1, <1>2, <1>3, <1>4

\* What a thread in a call is at, and what it has left.
LEMMA Whereabouts ==
  ASSUME Typed, NEW t \in Threads, at[t].stage # "out"
  PROVE  /\ InCall(t) /\ call[t] \in Calls /\ Fits(call[t], at[t])
         /\ call[t].kind = IF at[t].stage \in BatchStages THEN "batch"
                           ELSE IF at[t].stage \in ActivateStages THEN "activate" ELSE call[t].kind
         /\ at[t].stage # "done" =>
               /\ at[t].left \in SUBSET Hw /\ Here(t) \in at[t].left /\ Here(t) \in Hw
               /\ Here(t) \in Parts(call[t].of)
               /\ GroupOf(Here(t)) \in Groups /\ GroupOf(Here(t)) \in Touches(call[t])
               /\ Members(GroupOf(Here(t))) \subseteq Hw /\ Members(GroupOf(Here(t))) # {}
               /\ at[t].looks \subseteq Members(GroupOf(Here(t)))
               /\ Rest(t) \in SUBSET Parts(call[t].of)
         /\ at[t].stage \in {"flag", "list", "old", "new"} =>
               /\ Seen(t) \in at[t].looks /\ Seen(t) \in Hw
               /\ Unseen(t) \subseteq at[t].looks
<1>1. InCall(t) /\ call[t] \in Calls /\ Fits(call[t], at[t])
  <2>1. InCall(t)
    BY DEF Typed, InPlace, Out, Place
  <2> QED BY <2>1 DEF Typed, TypeOK, InPlace, InCall
<1>2. call[t].kind \in Kinds
  BY <1>1 DEF Calls, Kinds
<1>3. at[t].left \in SUBSET Hw /\ at[t].looks \in SUBSET Hw
  BY DEF Typed, TypeOK, Places
<1>4. ASSUME at[t].stage # "done"
      PROVE  /\ Here(t) \in at[t].left /\ Here(t) \in Hw /\ Here(t) \in Parts(call[t].of)
             /\ Rest(t) \in SUBSET Parts(call[t].of)
  BY <1>1, <1>3, <1>4, FirstIsMember DEF Fits, Here, Rest
<1>5. ASSUME at[t].stage # "done"
      PROVE  /\ GroupOf(Here(t)) \in Groups /\ GroupOf(Here(t)) \in Touches(call[t])
             /\ Members(GroupOf(Here(t))) \subseteq Hw /\ Members(GroupOf(Here(t))) # {}
             /\ at[t].looks \subseteq Members(GroupOf(Here(t)))
  <2>1. at[t].looks \subseteq Members(GroupOf(Here(t)))
    BY <1>1 DEF Fits, Here
  <2> QED BY <1>1, <1>4, <1>5, <2>1, TheSensors, PartsAndTouches
<1>6. ASSUME at[t].stage \in {"flag", "list", "old", "new"}
      PROVE  Seen(t) \in at[t].looks /\ Seen(t) \in Hw /\ Unseen(t) \subseteq at[t].looks
  BY <1>1, <1>3, <1>6, FirstIsMember DEF Fits, Seen, Unseen
<1>7. call[t].kind = IF at[t].stage \in BatchStages THEN "batch"
                     ELSE IF at[t].stage \in ActivateStages THEN "activate" ELSE call[t].kind
  BY <1>1, <1>2 DEF Fits, Kinds, BatchStages, ActivateStages
<1> QED BY <1>1, <1>3, <1>4, <1>5, <1>6, <1>7

LEMMA InitTyped == Init => Typed
<1> SUFFICES ASSUME Init
             PROVE  Typed
  OBVIOUS
<1>1. odr \in [Hw -> Nat]
  <2>1. \A h \in Hw : Sensor!Min(Sensor!Available[h]) \in Nat
    BY RatesOfSensor, LeastIsMember
  <2> QED BY <2>1 DEF Init
<1>2. trigger \in [Groups -> Nat]
  <2>1. \A g \in Groups : GroupMax(odr, g) \in Nat
    BY <1>1, HighestOfGroup
  <2> QED BY <2>1 DEF Init, GroupMax
<1>3. calls \subseteq Calls /\ NoCall \notin Calls
  BY SensorCallsAssumption DEF Init
<1>4. Fresh(FALSE) \in Locals /\ Out \in Places
  BY DEF Fresh, Locals, Out, Place, Places
<1>5. TypeOK
  BY <1>1, <1>2, <1>3, <1>4 DEF Init, TypeOK
<1>6. \A t \in Threads : InPlace(t) /\ Forgets(t)
  BY DEF Init, InPlace, InCall, Forgets, Fresh, Out, Place
<1> QED BY <1>5, <1>6 DEF Typed

\* A thread that goes from one place of its call to another.
LEMMA MovesOn ==
  ASSUME Typed, NEW t \in Threads, at[t].stage # "out", NEW p \in Places, Fits(call[t], p),
         GoTo(t, p)
  PROVE  /\ calls' \subseteq Calls
         /\ call' \in [Threads -> Calls \cup {NoCall}]
         /\ at' \in [Threads -> Places]
         /\ shared' \in [Threads -> SUBSET Groups]
         /\ doubtful' \subseteq [kind : Kinds, group : Groups]
         /\ at'[t] = p
         /\ \A u \in Threads \ {t} : at'[u] = at[u]
         /\ \A u \in Threads : InPlace(u)'
<1>1. calls' = calls /\ call' = call /\ shared' = shared /\ doubtful' = doubtful
  BY DEF GoTo, historyVars
<1>2. at' = [at EXCEPT ![t] = p]
  BY DEF GoTo
<1>3. at \in [Threads -> Places]
  BY DEF Typed, TypeOK
<1>4. at'[t] = p /\ (\A u \in Threads \ {t} : at'[u] = at[u]) /\ at' \in [Threads -> Places]
  BY <1>2, <1>3
<1>5. InPlace(t)'
  <2>1. InCall(t) /\ call'[t] = call[t]
    BY <1>1, Whereabouts
  <2> QED BY <1>1, <1>4, <2>1 DEF InPlace, InCall
<1>6. ASSUME NEW u \in Threads, u # t
      PROVE  InPlace(u)'
  BY <1>1, <1>4, <1>6 DEF Typed, InPlace, InCall
<1> QED BY <1>1, <1>4, <1>5, <1>6 DEF Typed, TypeOK

LEMMA TypedSteps ==
  ASSUME Typed, NEW t \in Threads, Steps(t)
  PROVE  Typed'
<1> DEFINE Hal == /\ enabled' \in [Hw \cup Virtual -> BOOLEAN]
                  /\ listeners' \in [Hw -> SUBSET Virtual]
                  /\ switch' \in [Groups -> BOOLEAN]
                  /\ odr' \in [Hw -> Nat]
                  /\ trigger' \in [Groups -> Nat]
           Moves(p) == at[t].stage # "out" /\ p \in Places /\ Fits(call[t], p) /\ GoTo(t, p)
           Remembers(r) == /\ local' = [local EXCEPT ![t] = r] /\ r \in Locals
                           /\ at'[t].stage \notin BatchStages => r.old = 0
                           /\ at'[t].stage \notin {"new", "trigger"} => r.new = 0
<1>1. /\ TypeOK /\ \A u \in Threads : InPlace(u) /\ Forgets(u)
      /\ at[t] \in Places /\ local[t] \in Locals /\ local \in [Threads -> Locals]
  BY DEF Typed, TypeOK
<1>2. ASSUME NEW p, Moves(p), NEW r, Remembers(r), Hal
      PROVE  Typed'
  <2>1. /\ at'[t] = p /\ \A u \in Threads \ {t} : at'[u] = at[u]
        /\ \A u \in Threads : InPlace(u)'
    BY <1>2, MovesOn
  <2>2. /\ local' \in [Threads -> Locals] /\ local'[t] = r
        /\ \A u \in Threads \ {t} : local'[u] = local[u]
    BY <1>1, <1>2
  <2>3. TypeOK'
    BY <1>2, <2>2, MovesOn DEF TypeOK
  <2>4. \A u \in Threads : Forgets(u)'
    BY <1>1, <1>2, <2>1, <2>2 DEF Forgets
  <2> QED BY <2>1, <2>3, <2>4 DEF Typed
<1> HIDE DEF Hal, Moves, Remembers
\* local is unchanged
<1>3. ASSUME NEW p, Moves(p), local' = local, Hal,
             at[t].stage \in BatchStages => p.stage \in BatchStages,
             at[t].stage \in {"new", "trigger"} => p.stage \in {"new", "trigger"}
      PROVE  Typed'
  <2>1. at'[t] = p
    BY <1>3, MovesOn DEF Moves
  <2>2. Remembers(local[t])
    BY <1>1, <1>3, <2>1 DEF Remembers, Forgets
  <2> QED BY <1>2, <1>3, <2>2
<1>4. CASE \E c \in calls : Begin(t, c)
  <2>1. PICK c \in calls : Begin(t, c)
    BY <1>4
  <2>2. c \in Calls /\ c \in Calls \cup {NoCall} /\ c # NoCall /\ c.kind \in Kinds
    BY <1>1, SensorCallsAssumption DEF TypeOK, Calls, Kinds
  <2>3. Entry(c) \in Places /\ Fits(c, Entry(c)) /\ Entry(c).stage \notin {"new", "trigger"}
    <3>1. Entry(c).stage \notin {"new", "trigger"}
      BY DEF Entry, HWBatchFrom, ActivateFrom, Done, Place
    <3> QED BY <2>2, <3>1, EntryFits
  <2>4. /\ call' = [call EXCEPT ![t] = c] /\ at' = [at EXCEPT ![t] = Entry(c)]
        /\ local' = [local EXCEPT ![t] = Fresh(c.kind = "activate" /\ c.arg)]
        /\ calls' = calls /\ enabled' = enabled /\ listeners' = listeners /\ switch' = switch
        /\ odr' = odr /\ trigger' = trigger
    BY <2>1 DEF Begin, halVars
  <2>5. Fresh(c.kind = "activate" /\ c.arg) \in Locals
    <3>1. c.kind = "activate" => c.arg \in BOOLEAN
      BY <2>2 DEF Calls
    <3>2. (c.kind = "activate" /\ c.arg) \in BOOLEAN
      BY <3>1
    <3> QED BY <3>2 DEF Fresh, Locals
  <2>6. /\ shared' \in [Threads -> SUBSET Groups]
        /\ doubtful' \subseteq [kind : Kinds, group : Groups]
    <3> DEFINE common == [u \in Threads \ {t} |-> Common(c, u)]
               all == UNION {common[u] : u \in Threads \ {t}}
    <3>1. \A u \in Threads : Common(c, u) \subseteq Groups
      BY <2>2, PartsAndTouches DEF Common
    <3>2. all \subseteq Groups /\ \A u \in Threads \ {t} : common[u] \subseteq Groups
      BY <3>1
    <3>3. /\ shared' = [u \in Threads |-> IF u = t THEN all ELSE shared[u] \cup common[u]]
          /\ doubtful' = doubtful \cup {[kind |-> c.kind, group |-> g] : g \in all}
      BY <2>1 DEF Begin
    <3> HIDE DEF all, common
    <3> QED BY <1>1, <2>2, <3>2, <3>3 DEF TypeOK
  <2>7. call' \in [Threads -> Calls \cup {NoCall}] /\ at' \in [Threads -> Places]
    BY <1>1, <2>2, <2>3, <2>4 DEF TypeOK
  <2>8. TypeOK'
    BY <1>1, <2>4, <2>5, <2>6, <2>7 DEF TypeOK
  <2>9. ASSUME NEW u \in Threads, u = t
        PROVE  InPlace(u)' /\ Forgets(u)'
    <3>1. call'[u] = c /\ at'[u] = Entry(c) /\ local'[u] = Fresh(c.kind = "activate" /\ c.arg)
      BY <1>1, <2>4, <2>9 DEF TypeOK
    <3> QED BY <2>2, <2>3, <3>1 DEF InPlace, InCall, Forgets, Fresh
  <2>10. ASSUME NEW u \in Threads, u # t
         PROVE  InPlace(u)' /\ Forgets(u)'
    <3>1. call'[u] = call[u] /\ at'[u] = at[u] /\ local'[u] = local[u]
      BY <2>4, <2>10
    <3> QED BY <1>1, <3>1 DEF InPlace, InCall, Forgets
  <2> QED BY <2>8, <2>9, <2>10 DEF Typed
<1>5. CASE EnableVirtual(t)
  <2>1. /\ Here(t) \in Hw /\ call[t] \in Calls /\ call[t].kind = "activate"
        /\ call[t].of \in Virtual /\ call[t].of \notin Hw /\ at[t].left \in SUBSET Parts(call[t].of)
    BY <1>5, Whereabouts DEF EnableVirtual, ActivateStages, BatchStages, Fits, Calls
  <2>2. Moves(FusionFrom(call[t].of, local[t].value, at[t].left))
    BY <1>1, <1>5, <2>1, FusionFromFits DEF EnableVirtual, Moves, Locals
  <2>3. Hal
    BY <1>1, <1>5, <2>1 DEF EnableVirtual, TypeOK, Locals, Hal
  <2> QED BY <1>3, <1>5, <2>2, <2>3 DEF EnableVirtual, BatchStages
<1>6. CASE Use(t)
  <2>1. Fits(call[t], at[t]) /\ Here(t) \in Hw /\ call[t].kind = "activate"
    BY <1>6, Whereabouts DEF Use, ActivateStages, BatchStages
  <2>2. Moves(Place("listen", at[t].left, {}))
    BY <1>1, <1>6, <2>1 DEF Use, Moves, Place, Places, Fits, ActivateStages
  <2>3. Hal
    BY <1>1, <1>6, <2>1 DEF Use, TypeOK, Hal
  <2> QED BY <1>3, <1>6, <2>2, <2>3 DEF Use, BatchStages
<1>7. CASE Listen(t)
  <2>1. /\ Here(t) \in Hw /\ call[t] \in Calls /\ call[t].kind = "activate"
        /\ call[t].of \in Virtual /\ call[t].of \notin Hw /\ Rest(t) \in SUBSET Parts(call[t].of)
    BY <1>7, Whereabouts DEF Listen, ActivateStages, BatchStages, Fits, Calls
  <2>2. Moves(FusionFrom(call[t].of, local[t].value, Rest(t)))
    BY <1>1, <1>7, <2>1, FusionFromFits DEF Listen, Moves, Locals
  <2>3. Hal
    <3>1. PICK handlers \in SUBSET Virtual : listeners' = [listeners EXCEPT ![Here(t)] = handlers]
      BY <1>1, <1>7, <2>1 DEF Listen, TypeOK
    <3> QED BY <1>1, <1>7, <3>1 DEF Listen, TypeOK, Hal
  <2> QED BY <1>3, <1>7, <2>2, <2>3 DEF Listen, BatchStages
<1>8. CASE AskVirtual(t)
  <2>1. /\ call[t] \in Calls /\ call[t].kind = "activate" /\ call[t].of \in Virtual
        /\ at[t].left \in SUBSET Parts(call[t].of)
    BY <1>8, Whereabouts DEF AskVirtual, ActivateStages, BatchStages, Fits, Calls
  <2>2. Moves(ActivateFrom(at[t].left))
    BY <1>1, <1>8, <2>1, ActivateFromFits DEF AskVirtual, Moves
  <2>3. Remembers([local[t] EXCEPT !.value = enabled[call[t].of]])
    <3>1. at'[t] = ActivateFrom(at[t].left)
      BY <2>2, MovesOn DEF Moves
    <3> QED BY <1>1, <1>8, <2>1, <3>1
            DEF AskVirtual, Remembers, TypeOK, Locals, Forgets, BatchStages, ActivateFrom, Done, Place
  <2>4. Hal
    BY <1>1, <1>8 DEF AskVirtual, TypeOK, Hal, halVars
  <2> QED BY <1>2, <2>2, <2>3, <2>4
<1>9. CASE SetHw(t)
  <2>1. /\ Fits(call[t], at[t]) /\ Here(t) \in Hw /\ call[t].kind = "activate"
        /\ Members(GroupOf(Here(t))) \subseteq Hw /\ Members(GroupOf(Here(t))) # {}
    BY <1>9, Whereabouts DEF SetHw, ActivateStages, BatchStages
  <2>2. Moves(Place("flag", at[t].left, Members(GroupOf(Here(t)))))
    BY <1>1, <1>9, <2>1 DEF SetHw, Moves, Place, Places, Fits, ActivateStages, Here, Members
  <2>3. Hal
    BY <1>1, <1>9, <2>1 DEF SetHw, TypeOK, Hal, Locals
  <2> QED BY <1>3, <1>9, <2>2, <2>3 DEF SetHw, BatchStages, Members
<1>10. CASE LookAtFlag(t)
  <2>1. Fits(call[t], at[t]) /\ Seen(t) \in Hw /\ call[t].kind = "activate"
    BY <1>10, Whereabouts DEF LookAtFlag, ActivateStages, BatchStages
  <2>2. PICK p : Moves(p) /\ p.stage \in {"switch", "list"}
    <3>1. Moves(Place("switch", at[t].left, {})) \/ Moves(Place("list", at[t].left, at[t].looks))
      BY <1>1, <1>10, <2>1 DEF LookAtFlag, Moves, Place, Places, Fits, ActivateStages
    <3> QED BY <3>1 DEF Place
  <2>3. Remembers([local[t] EXCEPT !.seen = enabled[Seen(t)]])
    <3>1. at'[t] = p
      BY <2>2, MovesOn DEF Moves
    <3> QED BY <1>1, <1>10, <2>1, <2>2, <3>1
            DEF LookAtFlag, Remembers, TypeOK, Locals, Forgets, BatchStages
  <2>4. Hal
    BY <1>1, <1>10 DEF LookAtFlag, TypeOK, Hal, halVars
  <2> QED BY <1>2, <2>2, <2>3, <2>4
<1>11. CASE LookAtList(t)
  <2>1. Fits(call[t], at[t]) /\ Seen(t) \in Hw /\ Unseen(t) \subseteq at[t].looks /\ call[t].kind = "activate"
    BY <1>11, Whereabouts DEF LookAtList, ActivateStages, BatchStages
  <2>2. PICK p : Moves(p) /\ p.stage \in {"switch", "flag"}
    <3>1. Moves(Place("switch", at[t].left, {})) \/ (Unseen(t) # {} /\ Moves(Place("flag", at[t].left, Unseen(t))))
      BY <1>1, <1>11, <2>1 DEF LookAtList, Moves, Place, Places, Fits, ActivateStages
    <3> QED BY <3>1 DEF Place
  <2>3. Remembers([local[t] EXCEPT !.seen = (listeners[Seen(t)] # {})])
    <3>1. at'[t] = p
      BY <2>2, MovesOn DEF Moves
    <3> QED BY <1>1, <1>11, <2>1, <2>2, <3>1
            DEF LookAtList, Remembers, TypeOK, Locals, Forgets, BatchStages
  <2>4. Hal
    BY <1>1, <1>11 DEF LookAtList, TypeOK, Hal, halVars
  <2> QED BY <1>2, <2>2, <2>3, <2>4
<1>12. CASE WriteSwitch(t)
  <2>1. /\ call[t] \in Calls /\ call[t].kind = "activate" /\ GroupOf(Here(t)) \in Groups
        /\ Rest(t) \in SUBSET Parts(call[t].of)
    BY <1>12, Whereabouts DEF WriteSwitch, ActivateStages, BatchStages
  <2>2. Moves(ActivateFrom(Rest(t)))
    BY <1>1, <1>12, <2>1, ActivateFromFits DEF WriteSwitch, Moves
  <2>3. Remembers([local[t] EXCEPT !.seen = FALSE])
    <3>1. at'[t] = ActivateFrom(Rest(t))
      BY <2>2, MovesOn DEF Moves
    <3> QED BY <1>1, <1>12, <3>1
            DEF WriteSwitch, Remembers, Locals, Forgets, BatchStages, ActivateFrom, Done, Place
  <2>4. Hal
    BY <1>1, <1>12, <2>1 DEF WriteSwitch, TypeOK, Hal, Locals
  <2> QED BY <1>2, <2>2, <2>3, <2>4
<1>13. CASE OldRate(t)
  <2>1. Fits(call[t], at[t]) /\ Seen(t) \in Hw /\ Unseen(t) \subseteq at[t].looks /\ call[t].kind = "batch"
    BY <1>13, Whereabouts DEF OldRate, BatchStages
  <2>2. PICK p : Moves(p) /\ p.stage \in {"rate", "old"}
    <3>1. \/ Unseen(t) = {} /\ Moves(Place("rate", at[t].left, Unseen(t)))
          \/ Unseen(t) # {} /\ Moves(Place("old", at[t].left, Unseen(t)))
      BY <1>1, <1>13, <2>1 DEF OldRate, Moves, Place, Places, Fits, BatchStages
    <3> QED BY <3>1 DEF Place
  <2>3. Remembers([local[t] EXCEPT !.old = Larger(@, odr[Seen(t)])])
    <3>1. at'[t] = p
      BY <2>2, MovesOn DEF Moves
    <3> QED BY <1>1, <1>13, <2>1, <2>2, <3>1
            DEF OldRate, Remembers, TypeOK, Locals, Forgets, BatchStages, Larger
  <2>4. Hal
    BY <1>1, <1>13 DEF OldRate, TypeOK, Hal, halVars
  <2> QED BY <1>2, <2>2, <2>3, <2>4
<1>14. CASE StoreRate(t)
  <2>1. /\ call[t] \in Calls /\ Fits(call[t], at[t]) /\ Here(t) \in Hw /\ call[t].kind = "batch"
        /\ Members(GroupOf(Here(t))) \subseteq Hw /\ Members(GroupOf(Here(t))) # {}
    BY <1>14, Whereabouts DEF StoreRate, BatchStages
  <2>2. Moves(Place("new", at[t].left, Members(GroupOf(Here(t)))))
    BY <1>1, <1>14, <2>1 DEF StoreRate, Moves, Place, Places, Fits, BatchStages, Here, Members
  <2>3. Sensor!HWRate(Here(t), call[t].arg) \in Nat
    BY <2>1, StoredRate DEF Calls
  <2>4. Hal
    BY <1>1, <1>14, <2>1, <2>3 DEF StoreRate, TypeOK, Hal
  <2>5. Remembers(local[t])
    <3>1. at'[t].stage = "new"
      BY <2>2, MovesOn DEF Moves, Place
    <3> QED BY <1>1, <1>14, <3>1 DEF StoreRate, Remembers, BatchStages
  <2> QED BY <1>2, <2>2, <2>4, <2>5
<1>15. CASE NewRate(t)
  <2>1. Fits(call[t], at[t]) /\ Seen(t) \in Hw /\ Unseen(t) \subseteq at[t].looks /\ call[t].kind = "batch"
    BY <1>15, Whereabouts DEF NewRate, BatchStages
  <2>2. PICK p : Moves(p) /\ p.stage \in {"trigger", "new"}
    <3>1. \/ Unseen(t) = {} /\ Moves(Place("trigger", at[t].left, Unseen(t)))
          \/ Unseen(t) # {} /\ Moves(Place("new", at[t].left, Unseen(t)))
      BY <1>1, <1>15, <2>1 DEF NewRate, Moves, Place, Places, Fits, BatchStages
    <3> QED BY <3>1 DEF Place
  <2>3. Remembers([local[t] EXCEPT !.new = Larger(@, odr[Seen(t)])])
    <3>1. at'[t] = p
      BY <2>2, MovesOn DEF Moves
    <3> QED BY <1>1, <1>15, <2>1, <2>2, <3>1
            DEF NewRate, Remembers, TypeOK, Locals, Forgets, BatchStages, Larger
  <2>4. Hal
    BY <1>1, <1>15 DEF NewRate, TypeOK, Hal, halVars
  <2> QED BY <1>2, <2>2, <2>3, <2>4
<1>16. CASE WriteTrigger(t)
  <2> DEFINE g == GroupOf(Here(t))
             r == [local[t] EXCEPT !.old = 0, !.new = 0,
                                   !.wrote = IF local[t].new # local[t].old THEN @ \cup {g} ELSE @]
  <2>1. /\ call[t] \in Calls /\ call[t].kind = "batch" /\ g \in Groups
        /\ Rest(t) \in SUBSET Parts(call[t].of)
    BY <1>16, Whereabouts DEF WriteTrigger, BatchStages
  <2>2. Moves(HWBatchFrom(Rest(t)))
    BY <1>1, <1>16, <2>1, HWBatchFromFits DEF WriteTrigger, Moves
  <2>3. r \in Locals /\ r.old = 0 /\ r.new = 0
    BY <1>1, <2>1 DEF Locals
  <2>4. local' = [local EXCEPT ![t] = r]
    BY <1>1, <1>16 DEF WriteTrigger, Locals
  <2>5. Remembers(r)
    BY <2>3, <2>4 DEF Remembers
  <2>6. Hal
    BY <1>1, <1>16, <2>1 DEF WriteTrigger, TypeOK, Hal, Locals
  <2> HIDE DEF r
  <2> QED BY <1>2, <2>2, <2>5, <2>6
<1>17. CASE Return(t)
  <2>1. /\ call' = [call EXCEPT ![t] = NoCall] /\ at' = [at EXCEPT ![t] = Out]
        /\ local' = [local EXCEPT ![t] = Fresh(FALSE)] /\ shared' = [shared EXCEPT ![t] = {}]
        /\ doubtful' \subseteq doubtful /\ calls' = calls /\ enabled' = enabled
        /\ listeners' = listeners /\ switch' = switch /\ odr' = odr /\ trigger' = trigger
    BY <1>17 DEF Return, halVars
  <2>2. Fresh(FALSE) \in Locals /\ Out \in Places
    BY DEF Fresh, Locals, Out, Place, Places
  <2>3. TypeOK'
    BY <1>1, <2>1, <2>2 DEF TypeOK
  <2>4. ASSUME NEW u \in Threads, u = t
        PROVE  InPlace(u)' /\ Forgets(u)'
    <3>1. call'[u] = NoCall /\ at'[u] = Out /\ local'[u] = Fresh(FALSE)
      BY <1>1, <2>1, <2>4 DEF TypeOK
    <3> QED BY <3>1 DEF InPlace, InCall, Forgets, Fresh
  <2>5. ASSUME NEW u \in Threads, u # t
        PROVE  InPlace(u)' /\ Forgets(u)'
    <3>1. call'[u] = call[u] /\ at'[u] = at[u] /\ local'[u] = local[u]
      BY <2>1, <2>5
    <3> QED BY <1>1, <3>1 DEF InPlace, InCall, Forgets
  <2> QED BY <2>3, <2>4, <2>5 DEF Typed
<1> QED BY <1>4, <1>5, <1>6, <1>7, <1>8, <1>9, <1>10, <1>11, <1>12, <1>13, <1>14, <1>15, <1>16, <1>17
        DEF Steps

(***************************************************************************)
(* Calls that meet, and those that are alone in a group.                   *)
(***************************************************************************)
\* Two calls of a kind that touch a group know that they have met in it.
Met(t) ==
    InCall(t) =>
        /\ shared[t] \subseteq Touches(call[t])
        /\ local[t].wrote \subseteq Touches(call[t])
        /\ \A g \in shared[t] : [kind |-> call[t].kind, group |-> g] \in doubtful
        /\ \A u \in Threads \ {t} : Common(call[t], u) \subseteq shared[t]

\* The part of the state that decides whether a group is right.
Same(kind, g) ==
    IF kind = "activate"
    THEN /\ switch'[g] = switch[g]
         /\ \A h \in Members(g) : enabled'[h] = enabled[h] /\ listeners'[h] = listeners[h]
    ELSE trigger'[g] = trigger[g] /\ \A h \in Members(g) : odr'[h] = odr[h]

InGroup(t, kind, g) == InCall(t) /\ call[t].kind = kind /\ g \in Touches(call[t])

\* A thread changes only what belongs to its call.
LEMMA TouchesItsGroups ==
  ASSUME Typed, NEW t \in Threads, Steps(t), NEW kind \in Kinds, NEW g \in Groups,
         ~InGroup(t, kind, g)
  PROVE  Same(kind, g)
<1>1. /\ enabled \in [Hw \cup Virtual -> BOOLEAN] /\ listeners \in [Hw -> SUBSET Virtual]
      /\ switch \in [Groups -> BOOLEAN] /\ odr \in [Hw -> Nat] /\ trigger \in [Groups -> Nat]
  BY DEF Typed, TypeOK
<1>2. CASE (\E c \in calls : Begin(t, c)) \/ AskVirtual(t) \/ LookAtFlag(t) \/ LookAtList(t)
           \/ OldRate(t) \/ NewRate(t) \/ Return(t)
  BY <1>2 DEF Begin, AskVirtual, LookAtFlag, LookAtList, OldRate, NewRate, Return, halVars, Same
<1>3. \A h \in Members(g) : h \in Hw /\ h \notin Virtual /\ GroupOf(h) = g
  BY TheSensors
<1>4. ASSUME at[t].stage \in BatchStages, kind = "batch"
      PROVE  GroupOf(Here(t)) # g
  BY <1>4, Whereabouts DEF InGroup, BatchStages
<1>5. ASSUME at[t].stage \in ActivateStages, kind = "activate"
      PROVE  GroupOf(Here(t)) # g
  <2>1. at[t].stage \notin BatchStages
    BY <1>5 DEF ActivateStages, BatchStages
  <2> QED BY <1>5, <2>1, Whereabouts DEF InGroup, ActivateStages
<1>6. CASE EnableVirtual(t)
  <2>1. call[t].of \notin Hw
    BY <1>6, Whereabouts DEF EnableVirtual, Fits
  <2> QED BY <1>1, <1>3, <1>6, <2>1 DEF EnableVirtual, Same
<1>7. CASE Use(t)
  <2>1. kind = "activate" => GroupOf(Here(t)) # g
    BY <1>5, <1>7 DEF Use, ActivateStages
  <2> QED BY <1>1, <1>3, <1>7, <2>1 DEF Use, Same
<1>8. CASE Listen(t)
  <2>1. kind = "activate" => GroupOf(Here(t)) # g
    BY <1>5, <1>8 DEF Listen, ActivateStages
  <2>2. PICK handlers : listeners' = [listeners EXCEPT ![Here(t)] = handlers]
    BY <1>8 DEF Listen
  <2> QED BY <1>1, <1>3, <1>8, <2>1, <2>2 DEF Listen, Same
<1>9. CASE SetHw(t)
  <2>1. kind = "activate" => GroupOf(Here(t)) # g
    BY <1>5, <1>9 DEF SetHw, ActivateStages
  <2> QED BY <1>1, <1>3, <1>9, <2>1 DEF SetHw, Same
<1>10. CASE WriteSwitch(t)
  <2>1. kind = "activate" => GroupOf(Here(t)) # g
    BY <1>5, <1>10 DEF WriteSwitch, ActivateStages
  <2> QED BY <1>1, <1>10, <2>1 DEF WriteSwitch, Same
<1>11. CASE StoreRate(t)
  <2>1. kind = "batch" => GroupOf(Here(t)) # g
    BY <1>4, <1>11 DEF StoreRate, BatchStages
  <2>2. PICK r : odr' = [odr EXCEPT ![Here(t)] = r]
    BY <1>11 DEF StoreRate
  <2>3. \A h \in Members(g) : kind = "batch" => odr'[h] = odr[h]
    BY <1>1, <1>3, <2>1, <2>2
  <2> QED BY <1>11, <2>3 DEF StoreRate, Same, Kinds
<1>12. CASE WriteTrigger(t)
  <2>1. kind = "batch" => GroupOf(Here(t)) # g
    BY <1>4, <1>12 DEF WriteTrigger, BatchStages
  <2> QED BY <1>1, <1>12, <2>1 DEF WriteTrigger, Same, Kinds
<1> QED BY <1>2, <1>6, <1>7, <1>8, <1>9, <1>10, <1>11, <1>12 DEF Steps

\* Whether a group is right depends on nothing else.
LEMMA RightStays ==
  ASSUME NEW kind \in Kinds, NEW g \in Groups, Same(kind, g)
  PROVE  /\ Right(kind, g)' <=> Right(kind, g)
         /\ kind = "activate" => (IsActiveGroup(g)' <=> IsActiveGroup(g))
         /\ kind = "batch" => \A n, s : s \subseteq Members(g) => (IsHighest(odr, n, s)' <=> IsHighest(odr, n, s))
<1>1. CASE kind = "activate"
  <2>1. IsActiveGroup(g)' <=> IsActiveGroup(g)
    BY <1>1, TheSensors DEF Same, IsActiveGroup
  <2> QED BY <1>1, <2>1 DEF Same, Right
<1>2. CASE kind = "batch"
  <2>1. trigger'[g] = trigger[g] /\ \A h \in Members(g) : odr'[h] = odr[h]
    BY <1>2 DEF Same
  <2>2. {odr'[h] : h \in Members(g)} = {odr[h] : h \in Members(g)}
    BY <2>1
  <2>3. GroupMax(odr, g)' = GroupMax(odr, g)
    BY <2>2 DEF GroupMax, Sensor!GroupMax, Members
  <2>4. \A n, s : s \subseteq Members(g) => (IsHighest(odr, n, s)' <=> IsHighest(odr, n, s))
    BY <2>1 DEF IsHighest
  <2> QED BY <1>2, <2>1, <2>3, <2>4 DEF Right, GroupMax
<1> QED BY <1>1, <1>2 DEF Kinds

LEMMA MetStays ==
  ASSUME Typed, \A u \in Threads : Met(u), NEW t \in Threads, Steps(t)
  PROVE  \A u \in Threads : Met(u)'
<1>1. /\ call \in [Threads -> Calls \cup {NoCall}] /\ shared \in [Threads -> SUBSET Groups]
      /\ local \in [Threads -> Locals]
  BY DEF Typed, TypeOK
<1>2. CASE \E c \in calls : Begin(t, c)
  <2>1. PICK c \in calls : Begin(t, c)
    BY <1>2
  <2> DEFINE all == UNION {Common(c, u) : u \in Threads \ {t}}
  <2>2. c \in Calls /\ c # NoCall
    BY SensorCallsAssumption, <2>1 DEF Typed, TypeOK
  <2>3. /\ call' = [call EXCEPT ![t] = c]
        /\ local' = [local EXCEPT ![t] = Fresh(c.kind = "activate" /\ c.arg)]
        /\ shared' = [u \in Threads |-> IF u = t THEN all ELSE shared[u] \cup Common(c, u)]
        /\ doubtful' = doubtful \cup {[kind |-> c.kind, group |-> g] : g \in all}
    <3> DEFINE common == [u \in Threads \ {t} |-> Common(c, u)]
               both == UNION {common[u] : u \in DOMAIN common}
    <3>1. /\ shared' = [u \in Threads |-> IF u = t THEN both ELSE shared[u] \cup common[u]]
          /\ doubtful' = doubtful \cup {[kind |-> c.kind, group |-> g] : g \in both}
      BY <2>1 DEF Begin
    <3>2. both = all /\ \A u \in Threads \ {t} : common[u] = Common(c, u)
      OBVIOUS
    <3> HIDE DEF both, common, all
    <3>3. [u \in Threads |-> IF u = t THEN both ELSE shared[u] \cup common[u]]
            = [u \in Threads |-> IF u = t THEN all ELSE shared[u] \cup Common(c, u)]
      BY <3>2
    <3> QED BY <2>1, <3>1, <3>2, <3>3 DEF Begin
  <2>4. \A u \in Threads \ {t} : /\ Common(c, u) \subseteq all
                                 /\ Common(c, u) \subseteq Touches(c)
                                 /\ InCall(u) => Common(c, u) \subseteq Touches(call[u])
                                 /\ Common(c, u) # {} => call[u].kind = c.kind
    BY DEF Common
  <2>5. \A g \in all : g \in Touches(c) /\ [kind |-> c.kind, group |-> g] \in doubtful'
    BY <2>3, <2>4
  <2>6. call'[t] = c /\ \A u \in Threads \ {t} : call'[u] = call[u] /\ local'[u] = local[u]
    BY <1>1, <2>3
  <2>7. \A u \in Threads \ {t} : Common(c, u)' = Common(c, u)
    BY <2>6 DEF Common, InCall
  <2>8. ASSUME NEW u \in Threads, u = t
        PROVE  Met(u)'
    <3>1. call'[u] = c /\ shared'[u] = all /\ local'[u].wrote = {}
      BY <1>1, <2>3, <2>6, <2>8 DEF Fresh
    <3>2. \A w \in Threads \ {u} : Common(call[u], w)' \subseteq all
      <4>1. \A w \in Threads \ {u} : Common(c, w)' \subseteq all
        BY <2>4, <2>7, <2>8
      <4> QED BY <3>1, <4>1 DEF Common, InCall
    <3> HIDE DEF all
    <3> QED BY <2>5, <3>1, <3>2 DEF Met
  <2>9. ASSUME NEW u \in Threads, u # t, InCall(u)
        PROVE  Met(u)'
    <3>1. /\ call'[u] = call[u] /\ local'[u] = local[u]
          /\ shared'[u] = shared[u] \cup Common(c, u)
      BY <2>3, <2>6, <2>9
    <3>2. Met(u) /\ InCall(u)
      BY <2>9
    <3>3. shared'[u] \subseteq Touches(call'[u]) /\ local'[u].wrote \subseteq Touches(call'[u])
      BY <2>4, <2>9, <3>1, <3>2 DEF Met
    <3>4. \A g \in shared'[u] : [kind |-> call'[u].kind, group |-> g] \in doubtful'
      <4>1. ASSUME NEW g \in Common(c, u)
            PROVE  [kind |-> call[u].kind, group |-> g] \in doubtful'
        BY <2>4, <2>5, <2>9, <4>1
      <4>2. ASSUME NEW g \in shared[u]
            PROVE  [kind |-> call[u].kind, group |-> g] \in doubtful'
        BY <2>3, <3>2, <4>2 DEF Met
      <4> QED BY <3>1, <4>1, <4>2
    <3>5. \A w \in Threads \ {u} : Common(call[u], w)' \subseteq shared'[u]
      <4>1. Common(call[u], t)' \subseteq Common(c, u)
        BY <2>6, <2>9, <3>1 DEF Common, InCall
      <4>2. \A w \in Threads \ {u} : w # t => Common(call[u], w)' \subseteq Common(call[u], w)
        BY <2>6, <3>1 DEF Common, InCall
      <4> QED BY <3>1, <3>2, <4>1, <4>2 DEF Met
    <3> QED BY <3>3, <3>4, <3>5 DEF Met
  <2>10. ASSUME NEW u \in Threads, u # t, ~InCall(u)
         PROVE  Met(u)'
    BY <2>6, <2>10 DEF Met, InCall
  <2> QED BY <2>8, <2>9, <2>10
<1>3. CASE Return(t)
  <2>1. /\ call'[t] = NoCall /\ \A u \in Threads \ {t} : /\ call'[u] = call[u]
                                                        /\ shared'[u] = shared[u] /\ local'[u] = local[u]
        /\ doubtful' = doubtful \ PutRight(t)
    BY <1>1, <1>3 DEF Return
  <2>2. InCall(t)
    BY <1>3, Whereabouts DEF Return
  <2>3. ASSUME NEW u \in Threads \ {t}, InCall(u), NEW g \in shared[u]
        PROVE  [kind |-> call[u].kind, group |-> g] \notin PutRight(t)
    <3>1. SUFFICES ASSUME [kind |-> call[u].kind, group |-> g] \in PutRight(t)
                   PROVE  FALSE
      OBVIOUS
    <3>2. call[u].kind = call[t].kind /\ g \notin shared[t] /\ g \in Touches(call[t])
      BY <2>2, <3>1 DEF PutRight, Met
    <3>3. g \in Touches(call[u])
      BY <2>3 DEF Met
    <3>4. g \in Common(call[t], u)
      BY <2>3, <3>2, <3>3 DEF Common
    <3> QED BY <2>2, <3>2, <3>4 DEF Met
  <2>4. ASSUME NEW u \in Threads, u # t, InCall(u)
        PROVE  Met(u)'
    <3>1. \A w \in Threads \ {u} : Common(call[u], w)' \subseteq Common(call[u], w)
      BY <2>1, <2>4 DEF Common, InCall
    <3>2. \A g \in shared'[u] : [kind |-> call'[u].kind, group |-> g] \in doubtful'
      BY <2>1, <2>3, <2>4 DEF Met
    <3> QED BY <2>1, <2>4, <3>1, <3>2 DEF Met
  <2>5. \A u \in Threads : ~InCall(u) \/ u = t => Met(u)'
    BY <2>1 DEF Met, InCall
  <2> QED BY <2>4, <2>5
<1>4. ASSUME at[t].stage # "out", NEW p, GoTo(t, p),
             \/ \A u \in Threads : local'[u].wrote = local[u].wrote
             \/ WriteTrigger(t)
      PROVE  \A u \in Threads : Met(u)'
  <2>1. call' = call /\ shared' = shared /\ doubtful' = doubtful
    BY <1>4 DEF GoTo, historyVars
  <2>2. ASSUME NEW u \in Threads, InCall(u)
        PROVE  local'[u].wrote \subseteq Touches(call[u])
    <3>1. CASE WriteTrigger(t) /\ u = t
      <4>1. GroupOf(Here(t)) \in Touches(call[t])
        BY <1>4, <3>1, Whereabouts DEF WriteTrigger
      <4>2. local'[t].wrote = IF local[t].new # local[t].old THEN local[t].wrote \cup {GroupOf(Here(t))}
                              ELSE local[t].wrote
        BY <1>1, <3>1 DEF WriteTrigger, Locals
      <4> QED BY <2>2, <3>1, <4>1, <4>2 DEF Met
    <3>2. CASE ~(WriteTrigger(t) /\ u = t)
      <4>1. local'[u].wrote = local[u].wrote
        BY <1>1, <1>4, <3>2 DEF WriteTrigger
      <4> QED BY <2>2, <4>1 DEF Met
    <3> QED BY <3>1, <3>2
  <2>3. ASSUME NEW u \in Threads
        PROVE  Met(u)'
    <3>1. \A w \in Threads \ {u} : Common(call[u], w)' = Common(call[u], w)
      BY <2>1 DEF Common, InCall
    <3> QED BY <2>1, <2>2, <3>1 DEF Met, InCall
  <2> QED BY <2>3
<1>5. CASE EnableVirtual(t) \/ Use(t) \/ Listen(t) \/ SetHw(t) \/ StoreRate(t)
  <2>1. at[t].stage # "out" /\ local' = local /\ \E p : GoTo(t, p)
    BY <1>5 DEF EnableVirtual, Use, Listen, SetHw, StoreRate
  <2> QED BY <1>4, <2>1
<1>6. CASE AskVirtual(t) \/ LookAtFlag(t) \/ LookAtList(t) \/ WriteSwitch(t) \/ OldRate(t) \/ NewRate(t)
  <2>1. at[t].stage # "out" /\ \E p : GoTo(t, p)
    BY <1>6 DEF AskVirtual, LookAtFlag, LookAtList, WriteSwitch, OldRate, NewRate
  <2>2. \A u \in Threads : local'[u].wrote = local[u].wrote
    BY <1>1, <1>6 DEF AskVirtual, LookAtFlag, LookAtList, WriteSwitch, OldRate, NewRate, Locals
  <2> QED BY <1>4, <2>1, <2>2
<1>7. CASE WriteTrigger(t)
  <2>1. at[t].stage # "out" /\ \E p : GoTo(t, p)
    BY <1>7 DEF WriteTrigger
  <2> QED BY <1>4, <1>7, <2>1
<1> QED BY <1>2, <1>3, <1>5, <1>6, <1>7 DEF Steps

\* What an activate that is alone in a group has done to it, or found in it, so far.
Looked(t, g) == Members(g) \ at[t].looks

ToCome(t, g) == \E h \in at[t].left : GroupOf(h) = g

ActivateAlone(t, g) ==
    IF at[t].stage \in {"enable", "use", "listen", "ask"} THEN TRUE
    ELSE IF at[t].stage \in {"flag", "list", "switch"} /\ GroupOf(Here(t)) = g
    THEN /\ at[t].stage \in {"flag", "list"} =>
               \A m \in Looked(t, g) : ~enabled[m] /\ listeners[m] = {}
         /\ at[t].stage = "list" => ~enabled[Seen(t)]
         /\ at[t].stage = "switch" => (local[t].seen <=> IsActiveGroup(g))
    ELSE ToCome(t, g) \/ Right("activate", g)

\* The same of a batch.  A trigger that was wrong before stays so until it is written.
Excused(t, g) == [kind |-> "batch", group |-> g] \in doubtful /\ g \notin local[t].wrote

BatchAlone(t, g) ==
    IF at[t].stage # "done" /\ GroupOf(Here(t)) = g
    THEN /\ at[t].stage \in {"old", "rate"} =>
               /\ Right("batch", g) \/ Excused(t, g)
               /\ IsHighest(odr, local[t].old, Looked(t, g))
         /\ at[t].stage \in {"new", "trigger"} =>
               /\ trigger[g] = local[t].old \/ Excused(t, g)
               /\ IsHighest(odr, local[t].new, Looked(t, g))
    ELSE Right("batch", g) \/ Excused(t, g)

Alone(t) ==
    InCall(t) => \A g \in Touches(call[t]) \ shared[t] :
        IF call[t].kind = "batch" THEN BatchAlone(t, g) ELSE ActivateAlone(t, g)

\* The inductive invariant.
IInv == Typed /\ (\A t \in Threads : Met(t) /\ Alone(t)) /\ CallsPutRight

\* A thread knows nothing new of a group that the others leave alone.
LEMMA AloneStays ==
  ASSUME Typed, \A u \in Threads : Met(u) /\ Alone(u), NEW t \in Threads, Steps(t),
         NEW u \in Threads, u # t
  PROVE  Alone(u)'
<1>1. /\ call \in [Threads -> Calls \cup {NoCall}] /\ shared \in [Threads -> SUBSET Groups]
      /\ at \in [Threads -> Places] /\ local \in [Threads -> Locals]
  BY DEF Typed, TypeOK
<1>2. /\ call'[u] = call[u] /\ at'[u] = at[u] /\ local'[u] = local[u]
      /\ shared[u] \subseteq shared'[u]
  <2>1. CASE \E c \in calls : Begin(t, c)
    BY <1>1, <2>1 DEF Begin
  <2>2. CASE Return(t)
    BY <1>1, <2>2 DEF Return
  <2>3. CASE ~(\E c \in calls : Begin(t, c)) /\ ~Return(t)
    <3>1. /\ \E p : GoTo(t, p)
          /\ local'[u] = local[u]
      BY <1>1, <2>3 DEF Steps, EnableVirtual, Use, Listen, AskVirtual, SetHw, LookAtFlag, LookAtList,
                        WriteSwitch, OldRate, StoreRate, NewRate, WriteTrigger
    <3> QED BY <1>1, <3>1 DEF GoTo, historyVars
  <2> QED BY <2>1, <2>2, <2>3
<1>3. SUFFICES ASSUME InCall(u), NEW g \in Touches(call[u]) \ shared[u]
               PROVE  IF call[u].kind = "batch" THEN BatchAlone(u, g)' ELSE ActivateAlone(u, g)'
  BY <1>2 DEF Alone, InCall
<1>4. call[u] \in Calls /\ call[u].kind \in Kinds /\ g \in Groups
  <2>1. call[u] \in Calls
    BY <1>1, <1>3 DEF InCall
  <2> QED BY <1>3, <2>1, PartsAndTouches DEF Calls, Kinds
<1>5. ~InGroup(t, call[u].kind, g)
  <2>1. SUFFICES ASSUME InCall(t), call[t].kind = call[u].kind, g \in Touches(call[t])
                 PROVE  FALSE
    BY DEF InGroup
  <2>2. g \in Common(call[u], t)
    BY <1>3, <2>1 DEF Common
  <2> QED BY <1>3, <2>2 DEF Met
<1>6. Same(call[u].kind, g)
  BY <1>4, <1>5, TouchesItsGroups
<1>7. Looked(u, g)' = Looked(u, g) /\ Looked(u, g) \subseteq Members(g) /\ Here(u)' = Here(u) /\ Seen(u)' = Seen(u)
      /\ (ToCome(u, g)' <=> ToCome(u, g))
  BY <1>2 DEF Looked, Here, Seen, ToCome
<1>8. CASE call[u].kind = "batch"
  <2>1. BatchAlone(u, g)
    BY <1>3, <1>8 DEF Alone
  <2>2. /\ Right("batch", g)' <=> Right("batch", g)
        /\ \A n : IsHighest(odr, n, Looked(u, g))' <=> IsHighest(odr, n, Looked(u, g))
        /\ trigger'[g] = trigger[g]
    <3>1. /\ Right("batch", g)' <=> Right("batch", g)
          /\ \A n, s : s \subseteq Members(g) => (IsHighest(odr, n, s)' <=> IsHighest(odr, n, s))
      BY <1>4, <1>6, <1>8, RightStays
    <3>2. trigger'[g] = trigger[g]
      BY <1>6, <1>8 DEF Same
    <3>3. PICK s : s = Looked(u, g)
      OBVIOUS
    <3>4. \A n : IsHighest(odr, n, s)' <=> IsHighest(odr, n, s)
      BY <1>7, <3>1, <3>3
    <3>5. \A n : IsHighest(odr, n, Looked(u, g))' <=> IsHighest(odr, n, Looked(u, g))
      BY <1>7, <3>3, <3>4 DEF IsHighest
    <3> QED BY <3>1, <3>2, <3>5
  <2>3. [kind |-> "batch", group |-> g] \in doubtful => [kind |-> "batch", group |-> g] \in doubtful'
    <3>1. CASE \E c \in calls : Begin(t, c)
      BY <3>1 DEF Begin
    <3>2. CASE Return(t)
      <4>1. InCall(t)
        BY <3>2, Whereabouts DEF Return
      <4>2. [kind |-> "batch", group |-> g] \notin PutRight(t)
        BY <1>5, <1>8, <4>1 DEF PutRight, InGroup, Met
      <4> QED BY <3>2, <4>2 DEF Return
    <3>3. CASE ~(\E c \in calls : Begin(t, c)) /\ ~Return(t)
      BY <3>3 DEF Steps, EnableVirtual, Use, Listen, AskVirtual, SetHw, LookAtFlag, LookAtList,
                  WriteSwitch, OldRate, StoreRate, NewRate, WriteTrigger, GoTo, historyVars
    <3> QED BY <3>1, <3>2, <3>3
  <2>4. Excused(u, g) => Excused(u, g)'
    BY <1>2, <2>3 DEF Excused
  <2>5. IsHighest(odr, local[u].old, Looked(u, g)) => IsHighest(odr, local[u].old, Looked(u, g))'
    BY <1>2, <2>2
  <2>6. IsHighest(odr, local[u].new, Looked(u, g)) => IsHighest(odr, local[u].new, Looked(u, g))'
    BY <1>2, <2>2
  <2>7. BatchAlone(u, g)'
    BY <1>2, <1>7, <2>1, <2>2, <2>4, <2>5, <2>6 DEF BatchAlone
  <2> QED BY <1>8, <2>7
<1>9. CASE call[u].kind = "activate"
  <2>1. ActivateAlone(u, g)
    BY <1>3, <1>9 DEF Alone
  <2>2. /\ Right("activate", g)' <=> Right("activate", g)
        /\ IsActiveGroup(g)' <=> IsActiveGroup(g)
    BY <1>4, <1>6, <1>9, RightStays
  <2>3. \A h \in Members(g) : enabled'[h] = enabled[h] /\ listeners'[h] = listeners[h]
    BY <1>6, <1>9 DEF Same
  <2>4. at[u].stage = "list" /\ GroupOf(Here(u)) = g => Seen(u) \in Members(g)
    BY Whereabouts
  <2>5. ActivateAlone(u, g)'
    BY <1>2, <1>7, <2>1, <2>2, <2>3, <2>4 DEF ActivateAlone
  <2> QED BY <1>9, <2>5
<1> QED BY <1>4, <1>8, <1>9 DEF Kinds

\* Where a call enters a group that is right, or whose trigger is doubtful, it is alone in it.
LEMMA BeginAlone ==
  ASSUME IInv, NEW t \in Threads, NEW c \in calls, Begin(t, c)
  PROVE  Alone(t)'
<1>1. Typed /\ CallsPutRight /\ c \in Calls
  BY DEF IInv, Typed, TypeOK
<1>2. /\ ~InCall(t) /\ call'[t] = c /\ at'[t] = Entry(c) /\ local'[t] = Fresh(c.kind = "activate" /\ c.arg)
      /\ \A u \in Threads \ {t} : Common(c, u) \subseteq shared'[t]
      /\ trigger' = trigger /\ odr' = odr /\ doubtful \subseteq doubtful'
  BY <1>1 DEF Begin, Typed, TypeOK, halVars
<1>3. SUFFICES ASSUME NEW g \in Touches(c) \ shared'[t]
               PROVE  IF c.kind = "batch" THEN BatchAlone(t, g)' ELSE ActivateAlone(t, g)'
  BY <1>2 DEF Alone
<1>4. c.kind \in Kinds /\ g \in Groups
  BY <1>1, <1>3, PartsAndTouches DEF Calls, Kinds
<1>5. CASE c.kind = "activate" /\ c.of \in Hw
  <2>1. Entry(c) = Place("set", Parts(c.of), {})
    BY <1>1, <1>5, PartsAndTouches DEF Entry, ActivateFrom, Parts
  <2>2. PICK h \in Parts(c.of) : GroupOf(h) = g
    BY <1>1, <1>3, PartsAndTouches
  <2>3. ToCome(t, g)'
    BY <1>2, <2>1, <2>2 DEF ToCome, Place
  <2> QED BY <1>2, <1>5, <2>1, <2>3 DEF ActivateAlone, Place
<1>6. CASE c.kind = "activate" /\ c.of \notin Hw
  <2>1. Entry(c) = Place("enable", Parts(c.of), {})
    BY <1>6 DEF Entry
  <2> QED BY <1>2, <1>6, <2>1 DEF ActivateAlone, Place
<1>7. CASE c.kind = "batch"
  <2>1. Parts(c.of) # {} /\ Parts(c.of) \subseteq Hw
    BY <1>1, PartsAndTouches
  <2>2. Entry(c) = Place("old", Parts(c.of), Members(GroupOf(First(Parts(c.of)))))
    BY <1>7, <2>1 DEF Entry, HWBatchFrom, Members
  <2>3. Right("batch", g) \/ [kind |-> "batch", group |-> g] \in doubtful
    <3>1. ~Busy("batch", g)
      BY <1>2, <1>3, <1>7 DEF Busy, Common
    <3> QED BY <1>1, <1>4, <3>1 DEF CallsPutRight
  <2>4. Right("batch", g)' \/ Excused(t, g)'
    BY <1>2, <2>3 DEF Right, Excused, Fresh
  <2>5. GroupOf(Here(t))' = g => Looked(t, g)' = {}
    BY <1>2, <2>2 DEF Here, Looked, Place
  <2>6. IsHighest(odr', 0, {})
    BY DEF IsHighest
  <2> QED BY <1>2, <1>7, <2>2, <2>4, <2>5, <2>6 DEF BatchAlone, Place, Fresh
<1> QED BY <1>4, <1>5, <1>6, <1>7 DEF Kinds

\* The steps of an activate.
LEMMA ActivateStaysAlone ==
  ASSUME Typed, NEW t \in Threads, Alone(t), call[t].kind = "activate", at[t].stage \in ActivateStages,
         Steps(t)
  PROVE  Alone(t)'
<1>1. /\ call \in [Threads -> Calls \cup {NoCall}] /\ at \in [Threads -> Places] /\ local \in [Threads -> Locals]
      /\ enabled \in [Hw \cup Virtual -> BOOLEAN] /\ listeners \in [Hw -> SUBSET Virtual]
      /\ switch \in [Groups -> BOOLEAN]
  BY DEF Typed, TypeOK
<1>2. at[t].stage # "out" /\ at[t].stage # "done" /\ at[t].stage \notin BatchStages
  BY DEF ActivateStages, BatchStages
<1>3. /\ InCall(t) /\ call[t] \in Calls /\ Fits(call[t], at[t])
      /\ at[t].left \in SUBSET Hw /\ Here(t) \in at[t].left /\ Here(t) \in Hw
      /\ GroupOf(Here(t)) \in Groups /\ at[t].looks \subseteq Members(GroupOf(Here(t)))
      /\ Rest(t) \in SUBSET Parts(call[t].of)
      /\ at[t].stage \in {"flag", "list"} => Seen(t) \in at[t].looks
  BY <1>2, Whereabouts
<1>4. PICK p : GoTo(t, p)
  BY <1>2, <1>3 DEF Steps, Begin, EnableVirtual, Use, Listen, AskVirtual, SetHw, LookAtFlag, LookAtList,
          WriteSwitch, OldRate, StoreRate, NewRate, WriteTrigger, Return
<1>5. call' = call /\ shared' = shared /\ doubtful' = doubtful
  BY <1>4 DEF GoTo, historyVars
<1>6. SUFFICES ASSUME NEW g \in Touches(call[t]) \ shared[t]
               PROVE  ActivateAlone(t, g)'
  BY <1>3, <1>5 DEF Alone, InCall
<1>7. ActivateAlone(t, g) /\ g \in Groups
  BY <1>3, <1>6, PartsAndTouches DEF Alone
<1>8. CASE EnableVirtual(t) \/ Use(t) \/ Listen(t)
  <2>1. at'[t].stage \in {"ask", "use", "listen"}
    BY <1>1, <1>8 DEF EnableVirtual, Use, Listen, GoTo, FusionFrom, Place
  <2> QED BY <2>1 DEF ActivateAlone
<1>9. CASE AskVirtual(t)
  <2>1. at[t].left = Parts(call[t].of) /\ at[t].left # {}
    BY <1>3, <1>9 DEF AskVirtual, Fits
  <2>2. at'[t] = Place("set", at[t].left, {})
    BY <1>1, <1>9, <2>1 DEF AskVirtual, GoTo, ActivateFrom
  <2>3. PICK h \in Parts(call[t].of) : GroupOf(h) = g
    BY <1>3, <1>6, PartsAndTouches
  <2>4. ToCome(t, g)'
    BY <2>1, <2>2, <2>3 DEF ToCome, Place
  <2> QED BY <2>2, <2>4 DEF ActivateAlone, Place
<1>10. CASE SetHw(t)
  <2>1. at'[t] = Place("flag", at[t].left, Members(GroupOf(Here(t))))
    BY <1>1, <1>10 DEF SetHw, GoTo, Members
  <2>2. Here(t)' = Here(t) /\ (ToCome(t, g)' <=> ToCome(t, g))
    BY <2>1 DEF Here, Place, ToCome
  <2>3. CASE GroupOf(Here(t)) = g
    <3>1. Looked(t, g)' = {}
      BY <2>1, <2>3 DEF Looked, Place
    <3> QED BY <2>1, <2>2, <2>3, <3>1 DEF ActivateAlone, Place
  <2>4. CASE GroupOf(Here(t)) # g
    <3>1. ToCome(t, g) \/ Right("activate", g)
      BY <1>7, <1>10, <2>4 DEF ActivateAlone, SetHw
    <3>2. \A h \in Hw : GroupOf(h) = g => enabled'[h] = enabled[h] /\ listeners'[h] = listeners[h]
      BY <1>1, <1>3, <1>10, <2>4 DEF SetHw
    <3>3. Right("activate", g)' <=> Right("activate", g)
      BY <1>10, <3>2 DEF Right, IsActiveGroup, SetHw
    <3> QED BY <2>1, <2>2, <2>4, <3>1, <3>3 DEF ActivateAlone, Place
  <2> QED BY <2>3, <2>4
<1>11. ASSUME \/ LookAtFlag(t)
              \/ LookAtList(t)
       PROVE  ActivateAlone(t, g)'
  <2>1. /\ enabled' = enabled /\ listeners' = listeners /\ switch' = switch
        /\ at'[t].left = at[t].left /\ at'[t].stage \in {"flag", "list", "switch"}
    BY <1>1, <1>11 DEF LookAtFlag, LookAtList, GoTo, Place, halVars
  <2>2. /\ Here(t)' = Here(t) /\ (ToCome(t, g)' <=> ToCome(t, g))
        /\ (IsActiveGroup(g)' <=> IsActiveGroup(g))
        /\ (Right("activate", g)' <=> Right("activate", g))
    BY <2>1 DEF Here, ToCome, IsActiveGroup, Right
  <2>3. CASE GroupOf(Here(t)) # g
    <3>1. ToCome(t, g) \/ Right("activate", g)
      BY <1>7, <1>11, <2>3 DEF ActivateAlone, LookAtFlag, LookAtList
    <3> QED BY <2>1, <2>2, <2>3, <3>1 DEF ActivateAlone
  <2>4. CASE GroupOf(Here(t)) = g
    <3>1. \A m \in Looked(t, g) : ~enabled[m] /\ listeners[m] = {}
      BY <1>7, <1>11, <2>4 DEF ActivateAlone, LookAtFlag, LookAtList
    <3>2. Seen(t) \in at[t].looks /\ Seen(t) \in Members(g) /\ Seen(t) \in Hw /\ GroupOf(Seen(t)) = g
      BY <1>3, <1>7, <1>11, <2>4, TheSensors DEF LookAtFlag, LookAtList
    <3>3. CASE LookAtFlag(t) /\ enabled[Seen(t)]
      <4>1. at'[t].stage = "switch" /\ local'[t].seen = TRUE
        BY <1>1, <3>2, <3>3 DEF LookAtFlag, GoTo, Place, Locals
      <4>2. IsActiveGroup(g)
        BY <3>2, <3>3 DEF IsActiveGroup
      <4> QED BY <2>2, <2>4, <4>1, <4>2 DEF ActivateAlone
    <3>4. CASE LookAtFlag(t) /\ ~enabled[Seen(t)]
      <4>1. at'[t] = Place("list", at[t].left, at[t].looks)
        BY <1>1, <3>4 DEF LookAtFlag, GoTo
      <4>2. Looked(t, g)' = Looked(t, g) /\ Seen(t)' = Seen(t)
        BY <4>1 DEF Looked, Seen, Place
      <4> QED BY <2>1, <2>2, <2>4, <3>1, <3>4, <4>1, <4>2 DEF ActivateAlone, Place
    <3>5. CASE LookAtList(t) /\ listeners[Seen(t)] # {}
      <4>1. at'[t].stage = "switch" /\ local'[t].seen = TRUE
        BY <1>1, <3>5 DEF LookAtList, GoTo, Place, Locals
      <4>2. IsActiveGroup(g)
        BY <3>2, <3>5 DEF IsActiveGroup
      <4> QED BY <2>2, <2>4, <4>1, <4>2 DEF ActivateAlone
    <3>6. CASE LookAtList(t) /\ listeners[Seen(t)] = {}
      <4>1. ~enabled[Seen(t)]
        BY <1>7, <2>4, <3>6 DEF ActivateAlone, LookAtList
      <4>2. \A m \in Members(g) \ Unseen(t) : ~enabled[m] /\ listeners[m] = {}
        BY <3>1, <3>6, <4>1 DEF Looked, Unseen
      <4>3. CASE Unseen(t) = {}
        <5>1. at'[t].stage = "switch" /\ local'[t].seen = FALSE
          BY <1>1, <3>6, <4>3 DEF LookAtList, GoTo, Place, Locals
        <5>2. ~IsActiveGroup(g)
          BY <1>7, <4>2, <4>3, TheSensors DEF IsActiveGroup
        <5> QED BY <2>2, <2>4, <5>1, <5>2 DEF ActivateAlone
      <4>4. CASE Unseen(t) # {}
        <5>1. at'[t] = Place("flag", at[t].left, Unseen(t))
          BY <1>1, <3>6, <4>4 DEF LookAtList, GoTo
        <5>2. Looked(t, g)' = Members(g) \ Unseen(t)
          BY <5>1 DEF Looked, Place
        <5> QED BY <2>1, <2>2, <2>4, <4>2, <5>1, <5>2 DEF ActivateAlone, Place
      <4> QED BY <4>3, <4>4
    <3> QED BY <1>11, <3>3, <3>4, <3>5, <3>6
  <2> QED BY <2>3, <2>4
<1>12. CASE WriteSwitch(t)
  <2>1. /\ at'[t] = ActivateFrom(Rest(t)) /\ switch' = [switch EXCEPT ![GroupOf(Here(t))] = local[t].seen]
        /\ enabled' = enabled /\ listeners' = listeners
    BY <1>1, <1>12 DEF WriteSwitch, GoTo
  <2>2. at'[t].stage \in {"set", "done"} /\ at'[t].left = Rest(t)
    BY <2>1 DEF ActivateFrom, Done, Place
  <2>3. IsActiveGroup(g)' <=> IsActiveGroup(g)
    BY <2>1 DEF IsActiveGroup
  <2>4. CASE GroupOf(Here(t)) = g
    <3>1. local[t].seen <=> IsActiveGroup(g)
      BY <1>7, <1>12, <2>4 DEF ActivateAlone, WriteSwitch
    <3>2. switch'[g] = local[t].seen
      BY <1>1, <1>7, <2>1, <2>4
    <3>3. Right("activate", g)'
      BY <2>3, <3>1, <3>2 DEF Right
    <3> QED BY <2>2, <3>3 DEF ActivateAlone
  <2>5. CASE GroupOf(Here(t)) # g
    <3>1. ToCome(t, g) \/ Right("activate", g)
      BY <1>7, <1>12, <2>5 DEF ActivateAlone, WriteSwitch
    <3>2. ToCome(t, g) => ToCome(t, g)'
      BY <2>2, <2>5 DEF ToCome, Rest
    <3>3. switch'[g] = switch[g]
      BY <1>1, <1>7, <2>1, <2>5
    <3>4. Right("activate", g) => Right("activate", g)'
      BY <2>3, <3>3 DEF Right
    <3> QED BY <2>2, <3>1, <3>2, <3>4 DEF ActivateAlone
  <2> QED BY <2>4, <2>5
<1>13. ~Return(t) /\ ~OldRate(t) /\ ~StoreRate(t) /\ ~NewRate(t) /\ ~WriteTrigger(t)
       /\ ~(\E c \in calls : Begin(t, c))
  BY <1>2, <1>3 DEF Return, OldRate, StoreRate, NewRate, WriteTrigger, Begin, BatchStages
<1> QED BY <1>8, <1>9, <1>10, <1>11, <1>12, <1>13 DEF Steps

\* The steps of a batch.
LEMMA BatchStaysAlone ==
  ASSUME Typed, NEW t \in Threads, Alone(t), call[t].kind = "batch", at[t].stage \in BatchStages,
         Steps(t)
  PROVE  Alone(t)'
<1>1. /\ call \in [Threads -> Calls \cup {NoCall}] /\ at \in [Threads -> Places]
      /\ local \in [Threads -> Locals] /\ local[t] \in Locals
      /\ odr \in [Hw -> Nat] /\ trigger \in [Groups -> Nat] /\ Forgets(t)
  BY DEF Typed, TypeOK
<1>2. at[t].stage # "out" /\ at[t].stage # "done" /\ at[t].stage \notin ActivateStages
  BY DEF ActivateStages, BatchStages
<1>3. /\ InCall(t) /\ call[t] \in Calls /\ Fits(call[t], at[t])
      /\ at[t].left \in SUBSET Hw /\ Here(t) \in Hw
      /\ GroupOf(Here(t)) \in Groups /\ at[t].looks \subseteq Members(GroupOf(Here(t)))
      /\ Members(GroupOf(Here(t))) \subseteq Hw
      /\ Rest(t) \in SUBSET Hw
      /\ at[t].stage \in {"old", "new"} => Seen(t) \in at[t].looks /\ Seen(t) \in Hw
  BY <1>2, Whereabouts DEF Rest
<1>4. PICK p : GoTo(t, p)
  BY <1>2, <1>3 DEF Steps, Begin, EnableVirtual, Use, Listen, AskVirtual, SetHw, LookAtFlag, LookAtList,
          WriteSwitch, OldRate, StoreRate, NewRate, WriteTrigger, Return
<1>5. call' = call /\ shared' = shared /\ doubtful' = doubtful
  BY <1>4 DEF GoTo, historyVars
<1>6. SUFFICES ASSUME NEW g \in Touches(call[t]) \ shared[t]
               PROVE  BatchAlone(t, g)'
  BY <1>3, <1>5 DEF Alone, InCall
<1>7. BatchAlone(t, g) /\ g \in Groups
  BY <1>3, <1>6, PartsAndTouches DEF Alone
<1>8. local[t].old \in Nat /\ local[t].new \in Nat
  BY <1>1 DEF Locals
<1>9. CASE OldRate(t) \/ NewRate(t)
  <2>1. /\ at'[t] = Place(at'[t].stage, at[t].left, Unseen(t)) /\ odr' = odr /\ trigger' = trigger
        /\ local'[t].wrote = local[t].wrote /\ at'[t].stage # "done"
    BY <1>1, <1>9 DEF OldRate, NewRate, GoTo, Place, halVars, Locals
  <2>2. /\ Here(t)' = Here(t) /\ (Right("batch", g)' <=> Right("batch", g))
        /\ (Excused(t, g)' <=> Excused(t, g))
    BY <1>5, <2>1 DEF Here, Right, Excused, Place
  <2>3. CASE GroupOf(Here(t)) # g
    BY <1>2, <1>7, <2>1, <2>2, <2>3 DEF BatchAlone
  <2>4. CASE GroupOf(Here(t)) = g
    <3>1. Seen(t) \in at[t].looks /\ Seen(t) \in Members(g)
      BY <1>3, <1>9, <2>4 DEF OldRate, NewRate
    <3>2. Looked(t, g)' = Looked(t, g) \cup {Seen(t)} /\ Looked(t, g) \in SUBSET Hw
      BY <1>3, <2>1, <2>4, <3>1 DEF Looked, Place, Unseen
    <3>3. CASE OldRate(t)
      <4>1. /\ at'[t].stage \in {"old", "rate"} /\ local'[t].old = Larger(local[t].old, odr[Seen(t)])
            /\ at[t].stage = "old"
        BY <1>1, <3>3 DEF OldRate, GoTo, Place, Locals
      <4>2. IsHighest(odr, Larger(local[t].old, odr[Seen(t)]), Looked(t, g) \cup {Seen(t)})
        BY <1>1, <1>2, <1>3, <1>7, <1>8, <2>4, <3>2, <4>1, LooksAtOneMore DEF BatchAlone
      <4>3. IsHighest(odr, local[t].old, Looked(t, g))'
        BY <2>1, <3>2, <4>1, <4>2 DEF IsHighest
      <4> QED BY <1>2, <1>7, <2>2, <2>4, <4>1, <4>3 DEF BatchAlone
    <3>4. CASE NewRate(t)
      <4>1. /\ at'[t].stage \in {"new", "trigger"} /\ local'[t].new = Larger(local[t].new, odr[Seen(t)])
            /\ at[t].stage = "new" /\ local'[t].old = local[t].old
        BY <1>1, <3>4 DEF NewRate, GoTo, Place, Locals
      <4>2. IsHighest(odr, Larger(local[t].new, odr[Seen(t)]), Looked(t, g) \cup {Seen(t)})
        BY <1>1, <1>2, <1>3, <1>7, <1>8, <2>4, <3>2, <4>1, LooksAtOneMore DEF BatchAlone
      <4>3. IsHighest(odr, local[t].new, Looked(t, g))'
        BY <2>1, <3>2, <4>1, <4>2 DEF IsHighest
      <4> QED BY <1>2, <1>7, <2>1, <2>2, <2>4, <4>1, <4>3 DEF BatchAlone
    <3> QED BY <1>9, <3>3, <3>4
  <2> QED BY <2>3, <2>4
<1>10. CASE StoreRate(t)
  <2>1. /\ at'[t] = Place("new", at[t].left, Members(GroupOf(Here(t)))) /\ trigger' = trigger
        /\ local' = local /\ at[t].stage = "rate"
    BY <1>1, <1>10 DEF StoreRate, GoTo, Members
  <2>2. Here(t)' = Here(t) /\ (Excused(t, g)' <=> Excused(t, g))
    BY <1>5, <2>1 DEF Here, Excused, Place
  <2>3. CASE GroupOf(Here(t)) # g
    <3>1. Right("batch", g) \/ Excused(t, g)
      BY <1>2, <1>7, <2>3 DEF BatchAlone
    <3>2. PICK r : odr' = [odr EXCEPT ![Here(t)] = r]
      BY <1>10 DEF StoreRate
    <3>3. \A h \in Members(g) : h \in Hw /\ h # Here(t)
      BY <1>7, <2>3, TheSensors
    <3>4. \A h \in Members(g) : odr'[h] = odr[h]
      BY <1>1, <3>2, <3>3
    <3>5. Same("batch", g)
      BY <2>1, <3>4 DEF Same
    <3>6. Right("batch", g)' <=> Right("batch", g)
      BY <1>7, <3>5, RightStays DEF Kinds
    <3> QED BY <2>1, <2>2, <2>3, <3>1, <3>6 DEF BatchAlone
  <2>4. CASE GroupOf(Here(t)) = g
    <3>1. /\ Right("batch", g) \/ Excused(t, g)
          /\ IsHighest(odr, local[t].old, Looked(t, g))
      BY <1>2, <1>7, <2>1, <2>4 DEF BatchAlone
    <3>2. Looked(t, g) = Members(g)
      BY <1>3, <2>1 DEF Looked, Fits
    <3>3. local[t].old = GroupMax(odr, g)
      BY <1>1, <1>7, <1>8, <3>1, <3>2, HighestOfGroup
    <3>4. trigger'[g] = local'[t].old \/ Excused(t, g)'
      BY <2>1, <2>2, <3>1, <3>3 DEF Right, GroupMax
    <3>5. Looked(t, g)' = {} /\ local'[t].new = 0
      BY <1>1, <2>1, <2>4 DEF Looked, Place, Forgets
    <3>6. IsHighest(odr, local[t].new, Looked(t, g))'
      BY <3>5 DEF IsHighest
    <3> QED BY <2>1, <2>2, <2>4, <3>4, <3>6 DEF BatchAlone, Place
  <2> QED BY <2>3, <2>4
<1>11. CASE WriteTrigger(t)
  <2>1. /\ at'[t] = HWBatchFrom(Rest(t)) /\ odr' = odr /\ at[t].stage = "trigger"
        /\ trigger' = IF local[t].new # local[t].old
                      THEN [trigger EXCEPT ![GroupOf(Here(t))] = local[t].new] ELSE trigger
        /\ local'[t].old = 0 /\ local'[t].new = 0
        /\ local'[t].wrote = IF local[t].new # local[t].old
                             THEN local[t].wrote \cup {GroupOf(Here(t))} ELSE local[t].wrote
    BY <1>1, <1>11 DEF WriteTrigger, GoTo, Locals
  <2>2. Right("batch", g)' \/ Excused(t, g)'
    <3>1. CASE GroupOf(Here(t)) # g
      <4>1. Right("batch", g) \/ Excused(t, g)
        BY <1>2, <1>7, <3>1 DEF BatchAlone
      <4>2. trigger'[g] = trigger[g]
        BY <1>1, <1>7, <2>1, <3>1
      <4>3. Right("batch", g) => Right("batch", g)'
        BY <2>1, <4>2 DEF Right
      <4>4. Excused(t, g) => Excused(t, g)'
        BY <1>5, <2>1, <3>1 DEF Excused
      <4> QED BY <4>1, <4>3, <4>4
    <3>2. CASE GroupOf(Here(t)) = g
      <4>1. /\ trigger[g] = local[t].old \/ Excused(t, g)
            /\ IsHighest(odr, local[t].new, Looked(t, g))
        BY <1>2, <1>7, <2>1, <3>2 DEF BatchAlone
      <4>2. Looked(t, g) = Members(g)
        BY <1>3, <2>1 DEF Looked, Fits
      <4>3. local[t].new = GroupMax(odr, g)
        BY <1>1, <1>7, <1>8, <4>1, <4>2, HighestOfGroup
      <4>4. trigger'[g] = local[t].new => Right("batch", g)'
        BY <2>1, <4>3 DEF Right, GroupMax
      <4>5. CASE local[t].new # local[t].old
        BY <1>1, <1>7, <2>1, <3>2, <4>4, <4>5
      <4>6. CASE local[t].new = local[t].old
        <5>1. Excused(t, g) => Excused(t, g)'
          BY <1>5, <2>1, <4>6 DEF Excused
        <5> QED BY <2>1, <4>1, <4>4, <4>6, <5>1
      <4> QED BY <4>5, <4>6
    <3> QED BY <3>1, <3>2
  <2>3. CASE Rest(t) = {}
    <3>1. at'[t].stage = "done"
      BY <2>1, <2>3 DEF HWBatchFrom, Done, Place
    <3> QED BY <2>2, <3>1 DEF BatchAlone
  <2>4. CASE Rest(t) # {}
    <3>1. at'[t] = Place("old", Rest(t), Members(GroupOf(First(Rest(t)))))
      BY <2>1, <2>4 DEF HWBatchFrom, Members
    <3>2. GroupOf(Here(t))' = g => Looked(t, g)' = {}
      BY <3>1 DEF Looked, Here, Place
    <3>3. GroupOf(Here(t))' = g => IsHighest(odr, local[t].old, Looked(t, g))'
      BY <2>1, <3>2 DEF IsHighest
    <3> QED BY <2>2, <3>1, <3>3 DEF BatchAlone, Place
  <2> QED BY <2>3, <2>4
<1>12. /\ ~EnableVirtual(t) /\ ~Use(t) /\ ~Listen(t) /\ ~AskVirtual(t) /\ ~SetHw(t) /\ ~LookAtFlag(t)
       /\ ~LookAtList(t) /\ ~WriteSwitch(t) /\ ~Return(t) /\ ~(\E c \in calls : Begin(t, c))
  BY <1>2, <1>3 DEF EnableVirtual, Use, Listen, AskVirtual, SetHw, LookAtFlag, LookAtList, WriteSwitch,
                    Return, Begin, ActivateStages
<1> QED BY <1>9, <1>10, <1>11, <1>12 DEF Steps

\* A call that returns leaves what it was alone in as it should be.
LEMMA PutsRight ==
  ASSUME IInv, NEW t \in Threads, Steps(t)
  PROVE  CallsPutRight'
<1>1. Typed /\ call \in [Threads -> Calls \cup {NoCall}] /\ Met(t) /\ Alone(t)
  BY DEF IInv, Typed, TypeOK
<1>2. SUFFICES ASSUME NEW kind \in Kinds, NEW g \in Groups
               PROVE  Right(kind, g)' \/ Busy(kind, g)' \/ [kind |-> kind, group |-> g] \in doubtful'
  BY DEF CallsPutRight, Kinds
<1>3. Right(kind, g) \/ Busy(kind, g) \/ [kind |-> kind, group |-> g] \in doubtful
  BY DEF IInv, CallsPutRight, Kinds
<1>4. CASE \E c \in calls : Begin(t, c)
  <2>1. ~InCall(t) /\ doubtful \subseteq doubtful' /\ \A u \in Threads \ {t} : call'[u] = call[u]
    BY <1>1, <1>4 DEF Begin
  <2>2. Same(kind, g)
    BY <1>1, <2>1, TouchesItsGroups DEF InGroup
  <2>3. Busy(kind, g) => Busy(kind, g)'
    BY <2>1 DEF Busy, InCall
  <2> QED BY <1>3, <2>1, <2>2, <2>3, RightStays
<1>5. CASE Return(t)
  <2>1. /\ InCall(t) /\ doubtful' = doubtful \ PutRight(t) /\ \A u \in Threads \ {t} : call'[u] = call[u]
        /\ at[t].stage = "done" /\ call[t] \in Calls /\ Fits(call[t], at[t])
    BY <1>1, <1>5, Whereabouts DEF Return
  <2>2. Right(kind, g)' <=> Right(kind, g)
    <3>1. Same(kind, g)
      BY <1>5 DEF Return, halVars, Same
    <3> QED BY <3>1, RightStays
  <2>3. CASE ~InGroup(t, kind, g)
    <3>1. Busy(kind, g) => Busy(kind, g)'
      BY <2>1, <2>3 DEF Busy, InCall, InGroup
    <3>2. [kind |-> kind, group |-> g] \notin PutRight(t)
      BY <1>1, <2>1, <2>3 DEF PutRight, InGroup, Met
    <3> QED BY <1>3, <2>1, <2>2, <3>1, <3>2
  <2>4. CASE InGroup(t, kind, g) /\ g \in shared[t]
    <3>1. [kind |-> kind, group |-> g] \notin PutRight(t)
      BY <2>4 DEF PutRight
    <3>2. [kind |-> kind, group |-> g] \in doubtful
      BY <1>1, <2>1, <2>4 DEF Met, InGroup
    <3> QED BY <2>1, <3>1, <3>2
  <2>5. CASE InGroup(t, kind, g) /\ g \notin shared[t]
    <3>1. CASE kind = "activate"
      <4>1. ActivateAlone(t, g)
        BY <1>1, <2>1, <2>5, <3>1 DEF Alone, InGroup
      <4>2. ~ToCome(t, g)
        BY <2>1 DEF ToCome, Fits
      <4> QED BY <2>1, <2>2, <3>1, <4>1, <4>2 DEF ActivateAlone
    <3>2. CASE kind = "batch"
      <4>1. BatchAlone(t, g) /\ call[t].kind = "batch"
        BY <1>1, <2>1, <2>5, <3>2 DEF Alone, InGroup
      <4>2. Right("batch", g) \/ Excused(t, g)
        BY <2>1, <4>1 DEF BatchAlone
      <4>3. Excused(t, g) => [kind |-> "batch", group |-> g] \in doubtful'
        BY <2>1, <4>1 DEF Excused, PutRight
      <4> QED BY <2>2, <3>2, <4>2, <4>3
    <3> QED BY <3>1, <3>2 DEF Kinds
  <2> QED BY <2>3, <2>4, <2>5
<1>6. CASE ~(\E c \in calls : Begin(t, c)) /\ ~Return(t)
  <2>1. \E p : GoTo(t, p)
    BY <1>6 DEF Steps, EnableVirtual, Use, Listen, AskVirtual, SetHw, LookAtFlag, LookAtList,
                WriteSwitch, OldRate, StoreRate, NewRate, WriteTrigger
  <2>2. call' = call /\ doubtful' = doubtful
    BY <2>1 DEF GoTo, historyVars
  <2>3. Busy(kind, g)' <=> Busy(kind, g)
    BY <2>2 DEF Busy, InCall
  <2>4. CASE InGroup(t, kind, g)
    BY <2>3, <2>4 DEF Busy, InGroup
  <2>5. CASE ~InGroup(t, kind, g)
    <3>1. Same(kind, g)
      BY <1>1, <2>5, TouchesItsGroups
    <3> QED BY <1>3, <2>2, <2>3, <3>1, RightStays
  <2> QED BY <2>4, <2>5
<1> QED BY <1>4, <1>5, <1>6

LEMMA InitIInv == Init => IInv
<1> SUFFICES ASSUME Init
             PROVE  IInv
  OBVIOUS
<1>1. \A t \in Threads : Met(t) /\ Alone(t)
  BY DEF Init, Met, Alone, InCall
<1>2. CallsPutRight
  <2>1. \A g \in Groups : Right("batch", g)
    BY DEF Init, Right
  <2>2. ASSUME NEW g \in Groups
        PROVE  Right("activate", g)
    <3>1. switch[g] = TRUE
      BY DEF Init
    <3>2. PICK h \in Hw : GroupOf(h) = g
      BY TheSensors
    <3>3. enabled[h] = TRUE
      BY DEF Init
    <3> QED BY <3>1, <3>2, <3>3 DEF Right, IsActiveGroup
  <2> QED BY <2>1, <2>2 DEF CallsPutRight
<1> QED BY <1>1, <1>2, InitTyped DEF IInv

LEMMA StepIInv == IInv /\ [Next]_vars => IInv'
<1> SUFFICES ASSUME IInv, [Next]_vars
             PROVE  IInv'
  OBVIOUS
<1>1. CASE UNCHANGED vars
  BY <1>1 DEF vars, halVars, threadVars, historyVars, IInv, Typed, TypeOK, InPlace, Forgets, InCall, Met,
              Common, Alone, ActivateAlone, BatchAlone, Looked, ToCome, Excused, Here, Seen, Right,
              IsActiveGroup, IsHighest, CallsPutRight, Busy
<1>2. CASE Next
  <2>1. PICK t \in Threads : Steps(t)
    BY <1>2 DEF Next
  <2>2. Typed' /\ (\A u \in Threads : Met(u)') /\ CallsPutRight'
    BY <2>1, TypedSteps, MetStays, PutsRight DEF IInv
  <2>3. \A u \in Threads \ {t} : Alone(u)'
    BY <2>1, AloneStays DEF IInv
  <2>4. Alone(t)'
    <3>1. CASE \E c \in calls : Begin(t, c)
      BY <3>1, BeginAlone
    <3>2. CASE Return(t)
      BY <3>2 DEF Return, Alone, InCall, IInv, Typed, TypeOK
    <3>3. CASE ~(\E c \in calls : Begin(t, c)) /\ ~Return(t)
      <4>1. at[t].stage \in ActivateStages \cup BatchStages
        BY <2>1, <3>3 DEF Steps, EnableVirtual, Use, Listen, AskVirtual, SetHw, LookAtFlag, LookAtList,
                WriteSwitch, OldRate, StoreRate, NewRate, WriteTrigger, ActivateStages, BatchStages
      <4>2. at[t].stage # "out" /\ (at[t].stage \in ActivateStages => at[t].stage \notin BatchStages)
        BY <4>1 DEF ActivateStages, BatchStages
      <4>3. call[t].kind = IF at[t].stage \in BatchStages THEN "batch" ELSE "activate"
        BY <4>1, <4>2, Whereabouts DEF IInv
      <4> QED BY <2>1, <4>1, <4>3, ActivateStaysAlone, BatchStaysAlone DEF IInv
    <3> QED BY <3>1, <3>2, <3>3
  <2> QED BY <2>2, <2>3, <2>4 DEF IInv
<1> QED BY <1>1, <1>2

\* Where a call is, what it remembers and what it has still to write agree, however
\* many threads activate and batch are on.
THEOREM Invariance == Spec => []IInv
BY InitIInv, StepIInv, PTL DEF Spec

\* What is in memory, in sysfs and in the calls keeps its range; a call goes only to the
\* sensors it uses.
THEOREM TypeCorrect == Spec => []Typed
<1>1. IInv => Typed
  BY DEF IInv
<1> QED BY <1>1, Invariance, PTL

\* Two calls of a kind that meet in a group may leave it wrong; nothing else does, for any
\* number of binder threads, and a call that is alone puts it right.
THEOREM CallsRight == Spec => []CallsPutRight
<1>1. IInv => CallsPutRight
  BY DEF IInv
<1> QED BY <1>1, Invariance, PTL

(***************************************************************************)
(* Calls that come one at a time implement those of Sensors.  What a call  *)
(* will have done when it ends, if no other comes, is what its atomic form *)
(* does, and no access of it changes that.                                 *)
(***************************************************************************)
Flags(e, l, s) == [enabled |-> e, listeners |-> l, switch |-> s]
Rates(o, r) == [odr |-> o, trigger |-> r]

ActivateOne(s, h, e) == Sensor!ActivateHw(s, h, e, Groups)
BatchOne(b, h, p) == Sensor!HWBatch(b, h, p, Groups)

\* The same for the sensors l, in their order.
ActivateAll(s, l, e) ==
    LET a == IF "ACC" \in l THEN ActivateOne(s, "ACC", e) ELSE s
        m == IF "MAG" \in l THEN ActivateOne(a, "MAG", e) ELSE a
    IN  IF "GYR" \in l THEN ActivateOne(m, "GYR", e) ELSE m

BatchAll(b, l, p) ==
    LET a == IF "ACC" \in l THEN BatchOne(b, "ACC", p) ELSE b
        m == IF "MAG" \in l THEN BatchOne(a, "MAG", p) ELSE a
    IN  IF "GYR" \in l THEN BatchOne(m, "GYR", p) ELSE m

\* FusionSensor::activate of the sensors l.
FuseAll(s, v, e, l) ==
    Flags([x \in Hw \cup Virtual |-> (e /\ x \in l) \/ s.enabled[x]],
          [h \in Hw |-> IF h \in l THEN IF e THEN s.listeners[h] \cup {v} ELSE s.listeners[h] \ {v}
                        ELSE s.listeners[h]],
          s.switch)

Active(s, g) == \E h \in Members(g) : s.enabled[h] \/ s.listeners[h] # {}
Switched(s, g) == Flags(s.enabled, s.listeners, [s.switch EXCEPT ![g] = Active(s, g)])
Triggered(b, g, old) ==
    Rates(b.odr, IF GroupMax(b.odr, g) # old THEN [b.trigger EXCEPT ![g] = GroupMax(b.odr, g)] ELSE b.trigger)

LEMMA ActivateOneMore ==
  ASSUME NEW l \in SUBSET Hw, l # {}, NEW s, NEW e
  PROVE  ActivateAll(s, l, e) = ActivateAll(ActivateOne(s, First(l), e), l \ {First(l)}, e)
<1>1. "ACC" \in l \/ "MAG" \in l \/ "GYR" \in l
  <2>1. Hw = {"ACC", "MAG", "GYR"}
    BY TheSensors
  <2> QED BY <2>1
<1>2. CASE "ACC" \in l
  BY <1>2 DEF ActivateAll, First
<1>3. CASE "ACC" \notin l /\ "MAG" \in l
  BY <1>3 DEF ActivateAll, First
<1>4. CASE "ACC" \notin l /\ "MAG" \notin l
  BY <1>1, <1>4 DEF ActivateAll, First
<1> QED BY <1>2, <1>3, <1>4

LEMMA BatchOneMore ==
  ASSUME NEW l \in SUBSET Hw, l # {}, NEW b, NEW p
  PROVE  BatchAll(b, l, p) = BatchAll(BatchOne(b, First(l), p), l \ {First(l)}, p)
<1>1. "ACC" \in l \/ "MAG" \in l \/ "GYR" \in l
  <2>1. Hw = {"ACC", "MAG", "GYR"}
    BY TheSensors
  <2> QED BY <2>1
<1>2. CASE "ACC" \in l
  BY <1>2 DEF BatchAll, First
<1>3. CASE "ACC" \notin l /\ "MAG" \in l
  BY <1>3 DEF BatchAll, First
<1>4. CASE "ACC" \notin l /\ "MAG" \notin l
  BY <1>1, <1>4 DEF BatchAll, First
<1> QED BY <1>2, <1>3, <1>4

\* What one of them does.
LEMMA ActivateOneDoes ==
  ASSUME NEW en \in [Hw \cup Virtual -> BOOLEAN], NEW li \in [Hw -> SUBSET Virtual],
         NEW sw \in [Groups -> BOOLEAN], NEW h \in Hw, NEW e \in BOOLEAN
  PROVE  ActivateOne(Flags(en, li, sw), h, e) = Switched(Flags([en EXCEPT ![h] = e], li, sw), GroupOf(h))
<1> DEFINE s == Flags(en, li, sw)
           t == Flags([en EXCEPT ![h] = e], li, sw)
           g == GroupOf(h)
<1>1. g \in Groups
  BY TheSensors
<1>2. [s EXCEPT !.enabled[h] = e] = t
  BY DEF Flags
<1>3. ActivateOne(s, h, e) = [t EXCEPT !.switch[g] = Sensor!IsActiveGroup(t, g)]
  BY <1>1, <1>2 DEF ActivateOne, Sensor!ActivateHw, GroupOf
<1>4. Sensor!IsActiveGroup(t, g) = Active(t, g)
  BY DEF Sensor!IsActiveGroup, Active, Members
<1>5. [t EXCEPT !.switch[g] = Active(t, g)] = Switched(t, g)
  BY DEF Switched, Flags
<1> QED BY <1>3, <1>4, <1>5

LEMMA BatchOneDoes ==
  ASSUME NEW o \in [Hw -> Nat], NEW r \in [Groups -> Nat], NEW h \in Hw, NEW p \in Periods
  PROVE  BatchOne(Rates(o, r), h, p)
            = Triggered(Rates([o EXCEPT ![h] = Sensor!HWRate(h, p)], r), GroupOf(h), GroupMax(o, GroupOf(h)))
<1>1. GroupOf(h) \in Groups
  BY TheSensors
<1> QED BY <1>1 DEF BatchOne, Sensor!HWBatch, Rates, Triggered, GroupOf, GroupMax

\* Where a call at place p ends.
ActivateEnds(s, p, v, e) ==
    IF p.stage = "enable" THEN ActivateAll(Sensor!FusionActivate(s, v, e), p.left, e)
    ELSE IF p.stage \in {"use", "listen"} THEN ActivateAll(FuseAll(s, v, e, p.left), Parts(v), e)
    ELSE IF p.stage \in {"flag", "list", "switch"}
    THEN ActivateAll(Switched(s, GroupOf(First(p.left))), p.left \ {First(p.left)}, e)
    ELSE ActivateAll(s, p.left, e)

BatchEnds(b, p, period, old) ==
    IF p.stage \in {"new", "trigger"}
    THEN BatchAll(Triggered(b, GroupOf(First(p.left)), old), p.left \ {First(p.left)}, period)
    ELSE BatchAll(b, p.left, period)

\* FuseAll once VirtualSensor::activate has set the flag, sensor by sensor, and at its end.
LEMMA FuseStarts ==
  ASSUME NEW en \in [Hw \cup Virtual -> BOOLEAN], NEW li \in [Hw -> SUBSET Virtual],
         NEW sw, NEW v \in Virtual, NEW e \in BOOLEAN
  PROVE  FuseAll(Flags([en EXCEPT ![v] = e], li, sw), v, e, Parts(v)) = Sensor!FusionActivate(Flags(en, li, sw), v, e)
<1>1. v \notin Hw /\ Parts(v) = Sensor!Uses(v) /\ Sensor!Uses(v) \subseteq Hw
  BY TheSensors DEF Parts, Sensor!Uses
<1>2. Sensor!Hw = Hw
  BY DEF Hw
<1>3. CASE e
  <2>1. [x \in Hw \cup Virtual |-> (e /\ x \in Parts(v)) \/ [en EXCEPT ![v] = e][x]]
          = [x \in DOMAIN en |-> x = v \/ x \in Sensor!Uses(v) \/ en[x]]
    BY <1>1, <1>3
  <2> DEFINE f == [x \in DOMAIN en |-> x = v \/ x \in Sensor!Uses(v) \/ en[x]]
             m == [h \in Hw |-> IF h \in Parts(v) THEN li[h] \cup {v} ELSE li[h]]
  <2>2. Sensor!FusionActivate(Flags(en, li, sw), v, e) = Flags(f, m, sw)
    BY <1>1, <1>2, <1>3 DEF Flags, Sensor!FusionActivate
  <2>3. [h \in Hw |-> IF h \in Parts(v) THEN IF e THEN li[h] \cup {v} ELSE li[h] \ {v} ELSE li[h]] = m
    BY <1>3
  <2>4. [x \in Hw \cup Virtual |-> (e /\ x \in Parts(v)) \/ [en EXCEPT ![v] = e][x]] = f
    BY <2>1
  <2> HIDE DEF f, m
  <2> QED BY <2>2, <2>3, <2>4 DEF FuseAll, Flags
<1>4. CASE ~e
  <2>1. [x \in Hw \cup Virtual |-> (e /\ x \in Parts(v)) \/ [en EXCEPT ![v] = e][x]] = [en EXCEPT ![v] = FALSE]
    BY <1>4
  <2> DEFINE m == [h \in Hw |-> IF h \in Parts(v) THEN li[h] \ {v} ELSE li[h]]
  <2>2. Sensor!FusionActivate(Flags(en, li, sw), v, e) = Flags([en EXCEPT ![v] = FALSE], m, sw)
    BY <1>1, <1>2, <1>4 DEF Flags, Sensor!FusionActivate
  <2>3. [h \in Hw |-> IF h \in Parts(v) THEN IF e THEN li[h] \cup {v} ELSE li[h] \ {v} ELSE li[h]] = m
    BY <1>4
  <2> HIDE DEF m
  <2> QED BY <2>1, <2>2, <2>3 DEF FuseAll, Flags
<1> QED BY <1>3, <1>4

LEMMA FuseEnds ==
  ASSUME NEW en \in [Hw \cup Virtual -> BOOLEAN], NEW li \in [Hw -> SUBSET Virtual],
         NEW sw, NEW v \in Virtual, NEW e \in BOOLEAN
  PROVE  FuseAll(Flags(en, li, sw), v, e, {}) = Flags(en, li, sw)
<1>1. [x \in Hw \cup Virtual |-> (e /\ x \in {}) \/ en[x]] = en
  OBVIOUS
<1>2. [h \in Hw |-> IF h \in {} THEN IF e THEN li[h] \cup {v} ELSE li[h] \ {v} ELSE li[h]] = li
  OBVIOUS
<1> QED BY <1>1, <1>2 DEF FuseAll, Flags

flags == Flags(enabled, listeners, switch)
rates == Rates(odr, trigger)
restFlags == Flags(rest.enabled, rest.listeners, rest.switch)
restRates == Rates(rest.odr, rest.trigger)

AtomicActivate(s, x, e) ==
    IF x \in Hw THEN Sensor!ActivateHw(s, x, e, Groups) ELSE Sensor!ActivateVirtual(s, x, e, Groups)
AtomicBatch(b, x, p) ==
    IF x \in Hw THEN Sensor!HWBatch(b, x, p, Groups) ELSE Sensor!VirtualBatch(b, x, p, Groups)

\* The call of t, which is the only one, will have done what its atomic form does.
Ends(t) ==
    LET x == call[t].of
        e == local[t].value
    IN  IF call[t].kind = "batch"
        THEN /\ flags = restFlags
             /\ BatchEnds(rates, at[t], call[t].arg, local[t].old)
                   = AtomicBatch(restRates, x, call[t].arg)
        ELSE /\ rates = restRates
             /\ e = call[t].arg
             /\ at[t].stage \in {"use", "listen", "ask"} => enabled[x] = e
             /\ at[t].stage = "use" => e
             /\ at[t].stage = "listen" /\ e => enabled[Here(t)]
             /\ ActivateEnds(flags, at[t], x, e) = AtomicActivate(restFlags, x, call[t].arg)

OneAtATime ==
    ~met => /\ \A t, u \in Threads : InCall(t) /\ InCall(u) => t = u
            /\ (\A t \in Threads : ~InCall(t)) => rest = shown
            /\ \A t \in Threads : InCall(t) => shared[t] = {} /\ Ends(t)

\* A call starts from the state that its atomic form starts from.
LEMMA BeginEnds ==
  ASSUME Typed, NEW t \in Threads, NEW c \in calls, Begin(t, c), rest = shown, rest' = rest
  PROVE  Ends(t)'
<1>1. c \in Calls /\ Parts(c.of) \in SUBSET Hw /\ Parts(c.of) # {}
  BY PartsAndTouches DEF Typed, TypeOK
<1>2. /\ call'[t] = c /\ at'[t] = Entry(c) /\ local'[t] = Fresh(c.kind = "activate" /\ c.arg)
      /\ enabled' = enabled /\ listeners' = listeners /\ switch' = switch /\ odr' = odr /\ trigger' = trigger
  BY DEF Begin, Typed, TypeOK, halVars
<1>3. flags = restFlags /\ rates = restRates
  BY DEF flags, rates, restFlags, restRates, shown
<1>4. /\ flags' = flags /\ rates' = rates /\ restFlags' = restFlags /\ restRates' = restRates
  BY <1>2 DEF flags, rates, restFlags, restRates
<1>5. CASE c.kind = "batch"
  <2>1. Entry(c) = Place("old", Parts(c.of), Members(GroupOf(First(Parts(c.of)))))
    BY <1>1, <1>5 DEF Entry, HWBatchFrom, Members
  <2>2. BatchEnds(rates, Entry(c), c.arg, 0) = BatchAll(rates, Parts(c.of), c.arg)
    BY <2>1 DEF BatchEnds, Place
  <2>3. BatchAll(rates, Parts(c.of), c.arg) = AtomicBatch(rates, c.of, c.arg)
    <3>1. CASE c.of \in Hw
      <4>1. c.of = "ACC" \/ c.of = "MAG" \/ c.of = "GYR"
        BY <3>1, TheSensors
      <4>2. Parts(c.of) = {c.of}
        BY <3>1 DEF Parts
      <4> QED BY <3>1, <4>1, <4>2 DEF BatchAll, BatchOne, AtomicBatch
    <3>2. CASE c.of \notin Hw
      <4>1. Parts(c.of) = Sensor!Uses(c.of) /\ "ACC" \in Sensor!Uses(c.of)
        BY <3>2 DEF Parts, Sensor!Uses
      <4> QED BY <3>2, <4>1 DEF BatchAll, BatchOne, AtomicBatch, Sensor!VirtualBatch
    <3> QED BY <3>1, <3>2
  <2>4. local'[t].old = 0
    BY <1>2 DEF Fresh
  <2> QED BY <1>2, <1>3, <1>4, <1>5, <2>2, <2>3, <2>4 DEF Ends
<1>6. CASE c.kind = "activate"
  <2>1. c.arg \in BOOLEAN /\ local'[t].value = c.arg
    BY <1>1, <1>2, <1>6 DEF Fresh, Calls
  <2>2. CASE c.of \in Hw
    <3>1. c.of = "ACC" \/ c.of = "MAG" \/ c.of = "GYR"
      BY <2>2, TheSensors
    <3>2. Entry(c) = Place("set", {c.of}, {})
      BY <1>6, <2>2 DEF Entry, ActivateFrom
    <3>3. ActivateEnds(flags, Entry(c), c.of, c.arg) = ActivateAll(flags, {c.of}, c.arg)
      BY <3>2 DEF ActivateEnds, Place
    <3>4. ActivateAll(flags, {c.of}, c.arg) = AtomicActivate(flags, c.of, c.arg)
      BY <2>2, <3>1 DEF ActivateAll, ActivateOne, AtomicActivate
    <3>5. at'[t].stage = "set"
      BY <1>2, <3>2 DEF Place
    <3> QED BY <1>2, <1>3, <1>4, <1>6, <2>1, <3>3, <3>4, <3>5 DEF Ends
  <2>3. CASE c.of \notin Hw
    <3>1. Entry(c) = Place("enable", Parts(c.of), {})
      BY <1>6, <2>3 DEF Entry
    <3>2. Parts(c.of) = Sensor!Uses(c.of) /\ "ACC" \in Sensor!Uses(c.of)
      BY <2>3 DEF Parts, Sensor!Uses
    <3>3. ActivateEnds(flags, Entry(c), c.of, c.arg)
             = ActivateAll(Sensor!FusionActivate(flags, c.of, c.arg), Parts(c.of), c.arg)
      BY <3>1 DEF ActivateEnds, Place
    <3>4. ActivateEnds(flags, Entry(c), c.of, c.arg) = AtomicActivate(flags, c.of, c.arg)
      BY <2>3, <3>2, <3>3 DEF ActivateAll, ActivateOne, AtomicActivate, Sensor!ActivateVirtual
    <3>5. at'[t].stage = "enable"
      BY <1>2, <3>1 DEF Place
    <3> QED BY <1>2, <1>3, <1>4, <1>6, <2>1, <3>4, <3>5 DEF Ends
  <2> QED BY <2>2, <2>3
<1> QED BY <1>1, <1>5, <1>6 DEF Calls

\* What the access of t changes in the state, it need no longer do.
LEMMA BatchEndsStay ==
  ASSUME Typed, NEW t \in Threads, Alone(t), shared[t] = {}, call[t].kind = "batch", Ends(t), rest' = rest,
         OldRate(t) \/ StoreRate(t) \/ NewRate(t) \/ WriteTrigger(t)
  PROVE  Ends(t)'
<1> DEFINE g == GroupOf(Here(t))
           period == call[t].arg
<1>1. /\ at \in [Threads -> Places] /\ local \in [Threads -> Locals]
      /\ odr \in [Hw -> Nat] /\ trigger \in [Groups -> Nat] /\ local[t].old \in Nat /\ local[t].new \in Nat
  BY DEF Typed, TypeOK, Locals
<1>2. at[t].stage \in BatchStages /\ at[t].stage # "out" /\ at[t].stage # "done"
  BY DEF OldRate, StoreRate, NewRate, WriteTrigger, BatchStages
<1>3. /\ InCall(t) /\ call[t] \in Calls /\ Fits(call[t], at[t])
      /\ at[t].left \in SUBSET Hw /\ at[t].left # {} /\ Here(t) \in Hw /\ g \in Groups /\ g \in Touches(call[t])
  BY <1>2, Whereabouts DEF Fits
<1>4. period \in Periods
  BY <1>3 DEF Calls
<1>5. BatchAlone(t, g)
  BY <1>3 DEF Alone
<1>6. /\ call' = call /\ enabled' = enabled /\ listeners' = listeners /\ switch' = switch
  BY DEF OldRate, StoreRate, NewRate, WriteTrigger, GoTo, halVars
<1>7. flags' = flags /\ restFlags' = restFlags /\ restRates' = restRates
  BY <1>6 DEF flags, restFlags, restRates
<1>8. SUFFICES BatchEnds(Rates(odr', trigger'), at'[t], period, local'[t].old)
                  = BatchEnds(Rates(odr, trigger), at[t], period, local[t].old)
  BY <1>6, <1>7 DEF Ends, rates
<1>9. CASE OldRate(t)
  <2>1. /\ odr' = odr /\ trigger' = trigger /\ at'[t].left = at[t].left
        /\ at'[t].stage \notin {"new", "trigger"} /\ at[t].stage \notin {"new", "trigger"}
    BY <1>1, <1>9 DEF OldRate, GoTo, Place, halVars
  <2> QED BY <2>1 DEF BatchEnds
<1>10. CASE NewRate(t)
  <2>1. /\ odr' = odr /\ trigger' = trigger /\ at'[t].left = at[t].left /\ local'[t].old = local[t].old
        /\ at'[t].stage \in {"new", "trigger"} /\ at[t].stage \in {"new", "trigger"}
    BY <1>1, <1>10 DEF NewRate, GoTo, Place, halVars, Locals
  <2> QED BY <2>1 DEF BatchEnds
<1>11. CASE StoreRate(t)
  <2>1. /\ odr' = [odr EXCEPT ![Here(t)] = Sensor!HWRate(Here(t), period)] /\ trigger' = trigger
        /\ local' = local /\ at[t].stage = "rate"
        /\ at'[t].left = at[t].left /\ at'[t].stage = "new"
    BY <1>1, <1>11 DEF StoreRate, GoTo, Place
  <2>2. local[t].old = GroupMax(odr, g)
    <3>1. IsHighest(odr, local[t].old, Looked(t, g))
      BY <1>5, <2>1 DEF BatchAlone
    <3>2. Looked(t, g) = Members(g)
      BY <1>3, <2>1 DEF Looked, Fits
    <3> QED BY <1>1, <1>3, <3>1, <3>2, HighestOfGroup
  <2>3. BatchOne(Rates(odr, trigger), Here(t), period) = Triggered(Rates(odr', trigger'), g, local'[t].old)
    BY <1>1, <1>3, <1>4, <2>1, <2>2, BatchOneDoes
  <2>4. BatchAll(Rates(odr, trigger), at[t].left, period)
          = BatchAll(BatchOne(Rates(odr, trigger), Here(t), period), at[t].left \ {Here(t)}, period)
    BY <1>3, BatchOneMore DEF Here
  <2>5. BatchEnds(Rates(odr, trigger), at[t], period, local[t].old) = BatchAll(Rates(odr, trigger), at[t].left, period)
    BY <2>1 DEF BatchEnds
  <2>6. BatchEnds(Rates(odr', trigger'), at'[t], period, local'[t].old)
          = BatchAll(Triggered(Rates(odr', trigger'), g, local'[t].old), at[t].left \ {Here(t)}, period)
    BY <2>1 DEF BatchEnds, Here
  <2> QED BY <2>3, <2>4, <2>5, <2>6
<1>12. CASE WriteTrigger(t)
  <2>1. /\ at'[t] = HWBatchFrom(Rest(t)) /\ odr' = odr /\ at[t].stage = "trigger"
        /\ trigger' = IF local[t].new # local[t].old THEN [trigger EXCEPT ![g] = local[t].new] ELSE trigger
    BY <1>1, <1>12 DEF WriteTrigger, GoTo
  <2>2. local[t].new = GroupMax(odr, g)
    <3>1. IsHighest(odr, local[t].new, Looked(t, g))
      BY <1>5, <2>1 DEF BatchAlone
    <3>2. Looked(t, g) = Members(g)
      BY <1>3, <2>1 DEF Looked, Fits
    <3> QED BY <1>1, <1>3, <3>1, <3>2, HighestOfGroup
  <2>3. Triggered(Rates(odr, trigger), g, local[t].old) = Rates(odr', trigger')
    BY <2>1, <2>2 DEF Triggered, Rates
  <2>4. BatchEnds(Rates(odr, trigger), at[t], period, local[t].old) = BatchAll(Rates(odr', trigger'), Rest(t), period)
    BY <2>1, <2>3 DEF BatchEnds, Rest, Here
  <2>5. at'[t].left = Rest(t) /\ at'[t].stage \notin {"new", "trigger"}
    BY <2>1 DEF HWBatchFrom, Done, Place
  <2>6. BatchEnds(Rates(odr', trigger'), at'[t], period, local'[t].old) = BatchAll(Rates(odr', trigger'), Rest(t), period)
    BY <2>5 DEF BatchEnds
  <2> QED BY <2>4, <2>6
<1> QED BY <1>9, <1>10, <1>11, <1>12

\* The group is active for the atomic calls when it is for isActiveGroup.
LEMMA SeenIsActive ==
  ASSUME NEW g \in Groups
  PROVE  Active(flags, g) <=> IsActiveGroup(g)
<1>1. \A h \in Members(g) : h \in Hw /\ GroupOf(h) = g
  BY DEF Members, Sensor!Members, Hw, GroupOf
<1>2. \A h \in Hw : GroupOf(h) = g => h \in Members(g)
  BY DEF Members, Sensor!Members, Hw, GroupOf
<1> QED BY <1>1, <1>2 DEF Active, flags, Flags, IsActiveGroup

\* The same for activate.  Its listeners are its own to change, as it is the only call.
LEMMA ActivateEndsStay ==
  ASSUME NEW t \in Threads
  PROVE  /\ Typed /\ Alone(t) /\ shared[t] = {} /\ call[t].kind = "activate" /\ Ends(t) /\ rest' = rest
         /\ \A u \in Threads \ {t} : ~InCall(u)
         /\ \/ EnableVirtual(t) \/ Use(t) \/ Listen(t) \/ AskVirtual(t)
            \/ SetHw(t) \/ LookAtFlag(t) \/ LookAtList(t) \/ WriteSwitch(t)
         => Ends(t)'
<1>0. SUFFICES
        ASSUME Typed, Alone(t), shared[t] = {}, call[t].kind = "activate", Ends(t), rest' = rest,
               \A u \in Threads \ {t} : ~InCall(u),
               EnableVirtual(t) \/ Use(t) \/ Listen(t) \/ AskVirtual(t)
                  \/ SetHw(t) \/ LookAtFlag(t) \/ LookAtList(t) \/ WriteSwitch(t)
        PROVE  Ends(t)'
  OBVIOUS
<1> DEFINE h == Here(t)
           g == GroupOf(h)
           x == call[t].of
           e == local[t].value
<1>1. /\ at \in [Threads -> Places] /\ local \in [Threads -> Locals] /\ e \in BOOLEAN
      /\ enabled \in [Hw \cup Virtual -> BOOLEAN] /\ listeners \in [Hw -> SUBSET Virtual]
      /\ switch \in [Groups -> BOOLEAN]
  BY <1>0 DEF Typed, TypeOK, Locals
<1>2. at[t].stage \in ActivateStages /\ at[t].stage # "out" /\ at[t].stage # "done" /\ at[t].stage \notin BatchStages
  BY <1>0 DEF EnableVirtual, Use, Listen, AskVirtual, SetHw, LookAtFlag, LookAtList, WriteSwitch, ActivateStages, BatchStages
<1>3. /\ InCall(t) /\ call[t] \in Calls /\ Fits(call[t], at[t])
      /\ at[t].left \in SUBSET Hw /\ at[t].left # {} /\ h \in at[t].left /\ h \in Hw
      /\ g \in Groups /\ g \in Touches(call[t])
  BY <1>0, <1>2, Whereabouts DEF Fits
<1>4. x \in Hw \cup Virtual /\ e = call[t].arg
  BY <1>0, <1>3 DEF Calls, Ends
<1>5. ActivateAlone(t, g)
  BY <1>0, <1>3 DEF Alone
<1>6. /\ call' = call /\ odr' = odr /\ trigger' = trigger
  BY <1>0 DEF EnableVirtual, Use, Listen, AskVirtual, SetHw, LookAtFlag, LookAtList, WriteSwitch, GoTo, halVars
<1>7. rates' = rates /\ restFlags' = restFlags /\ restRates' = restRates
  BY <1>0, <1>6 DEF rates, restFlags, restRates
<1>8. SUFFICES /\ local'[t].value = e
               /\ at'[t].stage \in {"use", "listen", "ask"} => enabled'[x] = e
               /\ at'[t].stage = "use" => e
               /\ at'[t].stage = "listen" /\ e => enabled'[Here(t)']
               /\ ActivateEnds(Flags(enabled', listeners', switch'), at'[t], x, e)
                     = ActivateEnds(Flags(enabled, listeners, switch), at[t], x, e)
  BY <1>0, <1>4, <1>6, <1>7 DEF Ends, flags
<1>9. CASE EnableVirtual(t)
  <2>1. /\ enabled' = [enabled EXCEPT ![x] = e] /\ listeners' = listeners /\ switch' = switch
        /\ local' = local /\ at'[t] = FusionFrom(x, e, at[t].left) /\ at[t].stage = "enable"
    BY <1>1, <1>9 DEF EnableVirtual, GoTo
  <2>2. x \notin Hw /\ x \in Virtual /\ at[t].left = Parts(x)
    BY <1>3, <1>4, <2>1 DEF Fits
  <2>3. at'[t] = Place(IF e THEN "use" ELSE "listen", Parts(x), {})
    BY <1>3, <2>1, <2>2 DEF FusionFrom
  <2>4. at'[t].left = Parts(x) /\ at'[t].stage = IF e THEN "use" ELSE "listen"
    BY <2>3 DEF Place
  <2>5. ActivateEnds(Flags(enabled', listeners', switch'), at'[t], x, e)
          = ActivateAll(FuseAll(Flags(enabled', listeners', switch'), x, e, Parts(x)), Parts(x), e)
    BY <1>1, <2>4 DEF ActivateEnds
  <2>6. ActivateEnds(Flags(enabled, listeners, switch), at[t], x, e)
          = ActivateAll(Sensor!FusionActivate(Flags(enabled, listeners, switch), x, e), Parts(x), e)
    BY <2>1, <2>2 DEF ActivateEnds
  <2>7. FuseAll(Flags(enabled', listeners', switch'), x, e, Parts(x))
          = Sensor!FusionActivate(Flags(enabled, listeners, switch), x, e)
    <3>1. FuseAll(Flags([enabled EXCEPT ![x] = e], listeners, switch), x, e, Parts(x))
            = Sensor!FusionActivate(Flags(enabled, listeners, switch), x, e)
      <4>1. PICK y \in Virtual, f \in BOOLEAN : y = x /\ f = e
        BY <1>1, <2>2
      <4>2. FuseAll(Flags([enabled EXCEPT ![y] = f], listeners, switch), y, f, Parts(y))
              = Sensor!FusionActivate(Flags(enabled, listeners, switch), y, f)
        BY <1>1, FuseStarts
      <4> QED BY <4>1, <4>2
    <3> QED BY <2>1, <3>1
  <2>8. enabled'[x] = e
    BY <1>1, <1>4, <2>1
  <2> QED BY <2>1, <2>4, <2>5, <2>6, <2>7, <2>8
<1>10. CASE Use(t)
  <2>1. /\ enabled' = [enabled EXCEPT ![h] = TRUE] /\ listeners' = listeners /\ switch' = switch
        /\ local' = local /\ at'[t] = Place("listen", at[t].left, {}) /\ at[t].stage = "use"
    BY <1>1, <1>10 DEF Use, GoTo
  <2>2. x \notin Hw /\ x \in Virtual /\ e /\ enabled[x] = e
    BY <1>0, <1>3, <1>4, <2>1 DEF Fits, Ends
  <2>3. at'[t].left = at[t].left /\ at'[t].stage = "listen" /\ Here(t)' = h
    BY <2>1 DEF Place, Here
  <2>4. enabled'[x] = e /\ enabled'[h]
    BY <1>1, <1>3, <2>1, <2>2
  <2>5. FuseAll(Flags(enabled', listeners', switch'), x, e, at[t].left)
          = FuseAll(Flags(enabled, listeners, switch), x, e, at[t].left)
    <3>1. [z \in Hw \cup Virtual |-> (e /\ z \in at[t].left) \/ enabled'[z]]
            = [z \in Hw \cup Virtual |-> (e /\ z \in at[t].left) \/ enabled[z]]
      BY <1>1, <1>3, <2>1, <2>2
    <3> QED BY <2>1, <3>1 DEF FuseAll, Flags
  <2>6. ActivateEnds(Flags(enabled', listeners', switch'), at'[t], x, e)
          = ActivateEnds(Flags(enabled, listeners, switch), at[t], x, e)
    BY <2>1, <2>3, <2>5 DEF ActivateEnds
  <2> QED BY <2>1, <2>3, <2>4, <2>6
<1>11. CASE Listen(t)
  <2>1. /\ enabled' = enabled /\ switch' = switch
        /\ local' = local /\ at'[t] = FusionFrom(x, e, Rest(t)) /\ at[t].stage = "listen"
    BY <1>1, <1>11 DEF Listen, GoTo
  <2>2. x \notin Hw /\ x \in Virtual /\ (e => enabled[h]) /\ enabled[x] = e
    BY <1>0, <1>3, <1>4, <2>1 DEF Fits, Ends
  <2>3. ~ \E u \in Threads \ {t} : at[u].stage = "listen" /\ Here(u) = h
    <3>1. \A u \in Threads \ {t} : at[u].stage = "out"
      BY <1>0 DEF Typed, InPlace, Out, Place
    <3> QED BY <3>1
  <2>4. listeners' = [listeners EXCEPT ![h] = IF e THEN @ \cup {x} ELSE @ \ {x}]
    BY <1>1, <1>3, <1>11, <2>3 DEF Listen
  <2>5. FuseAll(Flags(enabled', listeners', switch'), x, e, at[t].left \ {h})
          = FuseAll(Flags(enabled, listeners, switch), x, e, at[t].left)
    <3>1. [z \in Hw \cup Virtual |-> (e /\ z \in at[t].left \ {h}) \/ enabled[z]]
            = [z \in Hw \cup Virtual |-> (e /\ z \in at[t].left) \/ enabled[z]]
      BY <1>1, <1>3, <2>2
    <3>2. [z \in Hw |-> IF z \in at[t].left \ {h}
                        THEN IF e THEN listeners'[z] \cup {x} ELSE listeners'[z] \ {x} ELSE listeners'[z]]
            = [z \in Hw |-> IF z \in at[t].left
                            THEN IF e THEN listeners[z] \cup {x} ELSE listeners[z] \ {x} ELSE listeners[z]]
      BY <1>1, <1>3, <2>4
    <3> QED BY <2>1, <3>1, <3>2 DEF FuseAll, Flags
  <2>6. ActivateEnds(Flags(enabled, listeners, switch), at[t], x, e)
          = ActivateAll(FuseAll(Flags(enabled, listeners, switch), x, e, at[t].left), Parts(x), e)
    BY <2>1 DEF ActivateEnds
  <2>7. CASE Rest(t) = {}
    <3>1. at'[t].stage = "ask" /\ at'[t].left = Parts(x)
      BY <2>1, <2>7 DEF FusionFrom, Place
    <3>2. listeners' \in [Hw -> SUBSET Virtual]
      BY <1>1, <1>3, <2>2, <2>4
    <3>3. FuseAll(Flags(enabled', listeners', switch'), x, e, {}) = Flags(enabled', listeners', switch')
      <4>1. enabled' \in [Hw \cup Virtual -> BOOLEAN]
        BY <1>1, <2>1
      <4>2. PICK y \in Virtual, f \in BOOLEAN : y = x /\ f = e
        BY <1>1, <2>2
      <4>3. FuseAll(Flags(enabled', listeners', switch'), y, f, {}) = Flags(enabled', listeners', switch')
        BY <3>2, <4>1, FuseEnds
      <4> QED BY <4>2, <4>3
    <3>4. ActivateEnds(Flags(enabled', listeners', switch'), at'[t], x, e)
            = ActivateAll(Flags(enabled', listeners', switch'), Parts(x), e)
      BY <3>1 DEF ActivateEnds
    <3>5. at[t].left \ {h} = {}
      BY <2>7 DEF Rest
    <3> QED BY <2>1, <2>2, <2>5, <2>6, <3>1, <3>3, <3>4, <3>5
  <2>8. CASE Rest(t) # {}
    <3>1. at'[t].stage = (IF e THEN "use" ELSE "listen") /\ at'[t].left = at[t].left \ {h}
      BY <2>1, <2>8 DEF FusionFrom, Place, Rest
    <3>2. ActivateEnds(Flags(enabled', listeners', switch'), at'[t], x, e)
            = ActivateAll(FuseAll(Flags(enabled', listeners', switch'), x, e, at[t].left \ {h}), Parts(x), e)
      BY <1>1, <3>1 DEF ActivateEnds
    <3> QED BY <1>1, <2>1, <2>2, <2>5, <2>6, <3>1, <3>2
  <2> QED BY <2>7, <2>8
<1>12. CASE AskVirtual(t)
  <2>1. /\ enabled' = enabled /\ listeners' = listeners /\ switch' = switch
        /\ local' = [local EXCEPT ![t].value = enabled[x]]
        /\ at'[t] = ActivateFrom(at[t].left) /\ at[t].stage = "ask"
    BY <1>1, <1>12 DEF AskVirtual, GoTo, halVars
  <2>2. enabled[x] = e
    BY <1>0, <1>3, <2>1 DEF Ends
  <2>3. local'[t].value = e
    BY <1>1, <2>1, <2>2 DEF Locals
  <2>4. at'[t].stage = "set" /\ at'[t].left = at[t].left
    BY <1>3, <2>1 DEF ActivateFrom, Place
  <2>5. ActivateEnds(Flags(enabled', listeners', switch'), at'[t], x, e)
          = ActivateEnds(Flags(enabled, listeners, switch), at[t], x, e)
    BY <2>1, <2>4 DEF ActivateEnds
  <2> QED BY <2>3, <2>4, <2>5
<1>13. CASE SetHw(t)
  <2>1. /\ enabled' = [enabled EXCEPT ![h] = e] /\ listeners' = listeners /\ switch' = switch
        /\ local' = local /\ at[t].stage = "set"
        /\ at'[t].stage = "flag" /\ at'[t].left = at[t].left
    BY <1>1, <1>13 DEF SetHw, GoTo, Place
  <2>2. ActivateOne(Flags(enabled, listeners, switch), h, e) = Switched(Flags(enabled', listeners', switch'), g)
    <3>1. ActivateOne(Flags(enabled, listeners, switch), h, e)
            = Switched(Flags([enabled EXCEPT ![h] = e], listeners, switch), g)
      <4> HIDE DEF h, g, e
      <4> QED BY <1>1, <1>3, ActivateOneDoes DEF g
    <3> QED BY <2>1, <3>1
  <2>3. ActivateAll(Flags(enabled, listeners, switch), at[t].left, e)
          = ActivateAll(ActivateOne(Flags(enabled, listeners, switch), h, e), at[t].left \ {h}, e)
    BY <1>3, ActivateOneMore DEF Here
  <2>4. ActivateEnds(Flags(enabled, listeners, switch), at[t], x, e)
          = ActivateAll(Flags(enabled, listeners, switch), at[t].left, e)
    BY <2>1 DEF ActivateEnds
  <2>5. ActivateEnds(Flags(enabled', listeners', switch'), at'[t], x, e)
          = ActivateAll(Switched(Flags(enabled', listeners', switch'), g), at[t].left \ {h}, e)
    BY <2>1 DEF ActivateEnds, Here
  <2> QED BY <2>1, <2>2, <2>3, <2>4, <2>5
<1>14. CASE LookAtFlag(t) \/ LookAtList(t)
  <2>1. /\ enabled' = enabled /\ listeners' = listeners /\ switch' = switch
        /\ at[t].stage \in {"flag", "list", "switch"}
        /\ at'[t].stage \in {"flag", "list", "switch"} /\ at'[t].left = at[t].left
        /\ local'[t].value = local[t].value
    BY <1>1, <1>14 DEF LookAtFlag, LookAtList, GoTo, Place, halVars, Locals
  <2>2. ActivateEnds(Flags(enabled', listeners', switch'), at'[t], x, e)
          = ActivateEnds(Flags(enabled, listeners, switch), at[t], x, e)
    BY <2>1 DEF ActivateEnds
  <2> QED BY <2>1, <2>2
<1>15. CASE WriteSwitch(t)
  <2>1. /\ enabled' = enabled /\ listeners' = listeners
        /\ switch' = [switch EXCEPT ![g] = local[t].seen]
        /\ local'[t].value = local[t].value
        /\ at'[t] = ActivateFrom(Rest(t)) /\ at[t].stage = "switch"
    BY <1>1, <1>15 DEF WriteSwitch, GoTo, Locals
  <2>2. local[t].seen = Active(flags, g)
    <3>1. local[t].seen <=> Active(flags, g)
      BY <1>3, <1>5, <2>1, SeenIsActive DEF ActivateAlone
    <3>2. local[t].seen \in BOOLEAN /\ Active(flags, g) \in BOOLEAN
      BY <1>1 DEF Locals, Active
    <3> QED BY <3>1, <3>2
  <2>3. Switched(Flags(enabled, listeners, switch), g) = Flags(enabled', listeners', switch')
    BY <2>1, <2>2 DEF Switched, Flags, flags
  <2>4. ActivateEnds(Flags(enabled, listeners, switch), at[t], x, e)
          = ActivateAll(Flags(enabled', listeners', switch'), Rest(t), e)
    BY <2>1, <2>3 DEF ActivateEnds, Rest, Here
  <2>5. at'[t].left = Rest(t) /\ at'[t].stage \in {"set", "done"}
    BY <2>1 DEF ActivateFrom, Done, Place
  <2>6. ActivateEnds(Flags(enabled', listeners', switch'), at'[t], x, e)
          = ActivateAll(Flags(enabled', listeners', switch'), Rest(t), e)
    BY <2>5 DEF ActivateEnds
  <2> QED BY <2>1, <2>4, <2>5, <2>6
<1> QED BY <1>0, <1>9, <1>10, <1>11, <1>12, <1>13, <1>14, <1>15

\* The operators of Sensors do not depend on its variables.
LEMMA SameActivation ==
  /\ Atomic!Hw = Hw /\ Atomic!Groups = Groups
  /\ \A s, h, e, w : Atomic!ActivateHw(s, h, e, w) = Sensor!ActivateHw(s, h, e, w)
  /\ \A s, v, e, w : Atomic!ActivateVirtual(s, v, e, w) = Sensor!ActivateVirtual(s, v, e, w)
<1>1. Atomic!Hw = Hw /\ Atomic!Groups = Groups
  BY DEF Atomic!Hw, Sensor!Hw, Hw, Atomic!Groups, Sensor!Groups, Groups
<1>2. \A s, h, e, w : Atomic!ActivateHw(s, h, e, w) = Sensor!ActivateHw(s, h, e, w)
  BY DEF Atomic!ActivateHw, Sensor!ActivateHw, Atomic!IsActiveGroup, Sensor!IsActiveGroup,
         Atomic!Members, Sensor!Members, Atomic!GroupOf, Sensor!GroupOf, Atomic!Hw, Sensor!Hw
<1>3. \A s, v, e : Atomic!FusionActivate(s, v, e) = Sensor!FusionActivate(s, v, e)
  BY DEF Atomic!FusionActivate, Sensor!FusionActivate, Atomic!Uses, Sensor!Uses, Atomic!Mode, Sensor!Mode,
         Atomic!Hw, Sensor!Hw
<1>4. \A v : Atomic!Uses(v) = Sensor!Uses(v)
  BY DEF Atomic!Uses, Sensor!Uses, Atomic!Mode, Sensor!Mode
<1>5. \A s, v, e, w : Atomic!ActivateVirtual(s, v, e, w) = Sensor!ActivateVirtual(s, v, e, w)
  BY <1>2, <1>3, <1>4 DEF Atomic!ActivateVirtual, Sensor!ActivateVirtual
<1> QED BY <1>1, <1>2, <1>5

LEMMA SameBatch ==
  /\ \A b, h, p, w : Atomic!HWBatch(b, h, p, w) = Sensor!HWBatch(b, h, p, w)
  /\ \A b, v, p, w : Atomic!VirtualBatch(b, v, p, w) = Sensor!VirtualBatch(b, v, p, w)
<1>1. \A h, p : Atomic!HWRate(h, p) = Sensor!HWRate(h, p)
  BY DEF Atomic!HWRate, Sensor!HWRate, Atomic!ClosestOdr, Sensor!ClosestOdr, Atomic!Available, Sensor!Available,
         Atomic!SamplingPeriodNsToODR, Sensor!SamplingPeriodNsToODR, Atomic!Max, Sensor!Max,
         Atomic!Min, Sensor!Min, Atomic!Hw, Sensor!Hw
<1>2. \A o, g : Atomic!GroupMax(o, g) = Sensor!GroupMax(o, g)
  BY DEF Atomic!GroupMax, Sensor!GroupMax, Atomic!Max, Sensor!Max, Atomic!Members, Sensor!Members,
         Atomic!GroupOf, Sensor!GroupOf, Atomic!Hw, Sensor!Hw
<1>3. \A b, h, p, w : Atomic!HWBatch(b, h, p, w) = Sensor!HWBatch(b, h, p, w)
  BY <1>1, <1>2 DEF Atomic!HWBatch, Sensor!HWBatch, Atomic!GroupOf, Sensor!GroupOf
<1>4. \A v : Atomic!Uses(v) = Sensor!Uses(v)
  BY DEF Atomic!Uses, Sensor!Uses, Atomic!Mode, Sensor!Mode
<1>5. \A b, v, p, w : Atomic!VirtualBatch(b, v, p, w) = Sensor!VirtualBatch(b, v, p, w)
  BY <1>3, <1>4 DEF Atomic!VirtualBatch, Sensor!VirtualBatch
<1> QED BY <1>3, <1>5

\* A step of the only call there is.
LEMMA StepsAlone ==
  ASSUME IInv, OneAtATime, RestNext, ~met', NEW t \in Threads, Steps(t)
  PROVE  /\ ~met
         /\ \A u \in Threads \ {t} : ~InCall(u) /\ ~InCall(u)'
         /\ InCall(t)' => rest' = rest
         /\ ~InCall(t)' => rest' = shown'
<1>1. /\ call \in [Threads -> Calls \cup {NoCall}] /\ calls \subseteq Calls
  BY DEF IInv, Typed, TypeOK
<1>2. ~met /\ (\A u, v \in Callers' : u = v)
  BY DEF RestNext
<1>3. \A u \in Threads \ {t} : call'[u] = call[u]
  BY <1>1 DEF Steps, Begin, Return, EnableVirtual, Use, Listen, AskVirtual, SetHw, LookAtFlag, LookAtList,
          WriteSwitch, OldRate, StoreRate, NewRate, WriteTrigger, GoTo
<1>4. InCall(t) \/ InCall(t)'
  <2>1. CASE \E c \in calls : Begin(t, c)
    BY <1>1, <2>1, SensorCallsAssumption DEF Begin, InCall
  <2>2. CASE ~ \E c \in calls : Begin(t, c)
    <3>1. at[t].stage # "out"
      BY <2>2 DEF Steps, Return, EnableVirtual, Use, Listen, AskVirtual, SetHw, LookAtFlag, LookAtList,
              WriteSwitch, OldRate, StoreRate, NewRate, WriteTrigger
    <3> QED BY <3>1, Whereabouts DEF IInv
  <2> QED BY <2>1, <2>2
<1>5. ASSUME NEW u \in Threads \ {t}
      PROVE  ~InCall(u) /\ ~InCall(u)'
  <2>1. InCall(u)' <=> InCall(u)
    BY <1>3 DEF InCall
  <2>2. InCall(t) => ~InCall(u)
    BY <1>2 DEF OneAtATime
  <2>3. InCall(t)' => ~InCall(u)'
    BY <1>2 DEF Callers
  <2> QED BY <1>4, <2>1, <2>2, <2>3
<1>6. Callers' = IF InCall(t)' THEN {t} ELSE {}
  BY <1>5 DEF Callers
<1>7. rest' = IF Callers' = {} THEN shown' ELSE rest
  BY DEF RestNext
<1> QED BY <1>2, <1>5, <1>6, <1>7

LEMMA StaysOneAtATime == IInv /\ OneAtATime /\ [RestNext]_<<vars, rest, met>> => OneAtATime'
<1> SUFFICES ASSUME IInv, OneAtATime, [RestNext]_<<vars, rest, met>>, ~met'
             PROVE  OneAtATime'
  BY DEF OneAtATime
<1>1. CASE UNCHANGED <<vars, rest, met>>
  <2>1. /\ flags' = flags /\ rates' = rates /\ restFlags' = restFlags /\ restRates' = restRates
        /\ call' = call /\ local' = local /\ at' = at /\ enabled' = enabled /\ shared' = shared
        /\ shown' = shown /\ rest' = rest /\ met' = met
    BY <1>1 DEF vars, halVars, threadVars, historyVars, flags, rates, restFlags, restRates, shown
  <2>2. \A t \in Threads : (InCall(t)' <=> InCall(t)) /\ (Ends(t)' <=> Ends(t))
    BY <2>1 DEF Ends, InCall, Here
  <2> QED BY <2>1, <2>2 DEF OneAtATime
<1>2. CASE RestNext
  <2>1. PICK t \in Threads : Steps(t)
    BY <1>2 DEF RestNext, Next
  <2>2. /\ ~met /\ \A u \in Threads \ {t} : ~InCall(u) /\ ~InCall(u)'
        /\ InCall(t)' => rest' = rest
        /\ ~InCall(t)' => rest' = shown'
    BY <1>2, <2>1, StepsAlone
  <2>3. ASSUME InCall(t)'
        PROVE  shared'[t] = {} /\ Ends(t)'
    <3>1. CASE \E c \in calls : Begin(t, c)
      <4>1. PICK c \in calls : Begin(t, c)
        BY <3>1
      <4>2. rest = shown
        BY <2>2, <4>1 DEF OneAtATime, Begin
      <4>3. Ends(t)'
        BY <2>2, <2>3, <4>1, <4>2, BeginEnds DEF IInv
      <4>4. \A u \in Threads \ {t} : Common(c, u) = {}
        BY <2>2 DEF Common
      <4>5. shared'[t] = {}
        BY <4>1, <4>4 DEF Begin
      <4> QED BY <4>3, <4>5
    <3>2. CASE Return(t)
      <4>1. call'[t] = NoCall
        BY <3>2 DEF Return, IInv, Typed, TypeOK
      <4> QED BY <2>3, <4>1 DEF InCall
    <3>3. CASE ~(\E c \in calls : Begin(t, c)) /\ ~Return(t)
      <4>1. /\ at[t].stage \in ActivateStages \cup BatchStages /\ at[t].stage # "out"
            /\ \E p : GoTo(t, p)
        BY <2>1, <3>3 DEF Steps, EnableVirtual, Use, Listen, AskVirtual, SetHw, LookAtFlag, LookAtList,
                WriteSwitch, OldRate, StoreRate, NewRate, WriteTrigger, ActivateStages, BatchStages
      <4>2. InCall(t) /\ call[t].kind = IF at[t].stage \in BatchStages THEN "batch" ELSE "activate"
        BY <4>1, Whereabouts DEF IInv
      <4>3. shared[t] = {} /\ Ends(t) /\ shared' = shared
        BY <2>2, <4>1, <4>2 DEF OneAtATime, GoTo, historyVars
      <4>4. Typed /\ Alone(t) /\ rest' = rest
        BY <2>2, <2>3 DEF IInv
      <4>5. CASE at[t].stage \in BatchStages
        <5>1. OldRate(t) \/ StoreRate(t) \/ NewRate(t) \/ WriteTrigger(t)
          BY <2>1, <3>3, <4>5 DEF Steps, EnableVirtual, Use, Listen, AskVirtual, SetHw, LookAtFlag, LookAtList,
                  WriteSwitch, BatchStages
        <5> QED BY <4>2, <4>3, <4>4, <4>5, <5>1, BatchEndsStay
      <4>6. CASE at[t].stage \notin BatchStages
        <5>1. \/ EnableVirtual(t) \/ Use(t) \/ Listen(t) \/ AskVirtual(t)
              \/ SetHw(t) \/ LookAtFlag(t) \/ LookAtList(t) \/ WriteSwitch(t)
          BY <2>1, <3>3, <4>6 DEF Steps, OldRate, StoreRate, NewRate, WriteTrigger, BatchStages
        <5> QED BY <2>2, <4>2, <4>3, <4>4, <4>6, <5>1, ActivateEndsStay
      <4> QED BY <4>5, <4>6
    <3> QED BY <3>1, <3>2, <3>3
  <2> QED BY <2>2, <2>3 DEF OneAtATime
<1> QED BY <1>1, <1>2

\* When a call returns, the state between calls has taken the step of its atomic form.
LEMMA StepImplements ==
  IInv /\ OneAtATime /\ [RestNext]_<<vars, rest, met>> => [met' \/ Atomic!Next]_(Atomic!vars)
<1> SUFFICES ASSUME IInv, OneAtATime, [RestNext]_<<vars, rest, met>>, ~met'
             PROVE  Atomic!Next \/ UNCHANGED Atomic!vars
  OBVIOUS
<1>1. ASSUME rest' = rest
      PROVE  UNCHANGED Atomic!vars
  BY <1>1 DEF Atomic!vars, Atomic!rateVars, Atomic!tickVars
<1>2. CASE UNCHANGED <<vars, rest, met>>
  BY <1>1, <1>2
<1>3. CASE RestNext
  <2>1. PICK t \in Threads : Steps(t)
    BY <1>3 DEF RestNext, Next
  <2>2. ~met /\ (InCall(t)' => rest' = rest) /\ (~InCall(t)' => rest' = shown')
    BY <1>3, <2>1, StepsAlone
  <2>3. CASE InCall(t)'
    BY <1>1, <2>2, <2>3
  <2>4. CASE ~InCall(t)'
    <3>1. /\ call \in [Threads -> Calls \cup {NoCall}] /\ calls \subseteq Calls
      BY DEF IInv, Typed, TypeOK
    <3>2. Return(t)
      <4>1. ~ \E c \in calls : Begin(t, c)
        BY <2>4, <3>1, SensorCallsAssumption DEF Begin, InCall
      <4>2. CASE ~Return(t)
        <5>1. at[t].stage # "out" /\ \E p : GoTo(t, p)
          BY <2>1, <4>1, <4>2 DEF Steps, EnableVirtual, Use, Listen, AskVirtual, SetHw, LookAtFlag, LookAtList,
                  WriteSwitch, OldRate, StoreRate, NewRate, WriteTrigger
        <5>2. InCall(t) /\ call' = call
          BY <5>1, Whereabouts DEF IInv, GoTo
        <5> QED BY <2>4, <5>2 DEF InCall
      <4> QED BY <4>2
    <3>3. at[t].stage = "done" /\ UNCHANGED halVars
      BY <3>2 DEF Return
    <3>4. InCall(t) /\ call[t] \in Calls /\ at[t].left = {}
      BY <3>3, Whereabouts DEF IInv, Fits
    <3>5. Ends(t)
      BY <2>2, <3>4 DEF OneAtATime
    <3>6. rest' = shown
      BY <2>2, <2>4, <3>3 DEF shown, halVars
    <3>7. call[t].of \in Atomic!Hw \cup Virtual
      BY <3>4, SameActivation DEF Calls
    <3>8. CASE call[t].kind = "activate"
      <4>1. ActivateEnds(flags, at[t], call[t].of, local[t].value) = flags
        BY <3>3, <3>4 DEF ActivateEnds, ActivateAll
      <4>2. flags = AtomicActivate(restFlags, call[t].of, call[t].arg) /\ rates = restRates
        BY <3>5, <3>8, <4>1 DEF Ends
      <4>3. call[t].arg \in BOOLEAN
        BY <3>4, <3>8 DEF Calls
      <4>4. Atomic!hal = restFlags
        BY DEF Atomic!hal, restFlags, Flags
      <4>5. flags = IF call[t].of \in Atomic!Hw
                    THEN Atomic!ActivateHw(Atomic!hal, call[t].of, call[t].arg, Atomic!Groups)
                    ELSE Atomic!ActivateVirtual(Atomic!hal, call[t].of, call[t].arg, Atomic!Groups)
        BY <4>2, <4>4, SameActivation DEF AtomicActivate
      <4>6. /\ rest'.enabled = flags.enabled /\ rest'.listeners = flags.listeners /\ rest'.switch = flags.switch
            /\ rest'.odr = rest.odr /\ rest'.trigger = rest.trigger
        BY <3>6, <4>2 DEF shown, flags, Flags, rates, restRates, Rates
      <4>7. Atomic!Becomes(flags)
        BY <4>6 DEF Atomic!Becomes
      <4>8. Atomic!Activate(call[t].of, call[t].arg)
        <5>1. UNCHANGED <<Atomic!rateVars, Atomic!tickVars, 1>>
          BY <4>6 DEF Atomic!rateVars, Atomic!tickVars
        <5> QED BY <4>5, <4>7, <5>1 DEF Atomic!Activate
      <4> QED BY <3>7, <4>3, <4>8 DEF Atomic!Next
    <3>9. CASE call[t].kind = "batch"
      <4>1. BatchEnds(rates, at[t], call[t].arg, local[t].old) = rates
        BY <3>3, <3>4 DEF BatchEnds, BatchAll
      <4>2. rates = AtomicBatch(restRates, call[t].of, call[t].arg) /\ flags = restFlags
        BY <3>5, <3>9, <4>1 DEF Ends
      <4>3. call[t].arg \in Periods
        BY <3>4, <3>9 DEF Calls
      <4>4. [odr |-> rest.odr, trigger |-> rest.trigger] = restRates
        BY DEF restRates, Rates
      <4>5. rates = IF call[t].of \in Atomic!Hw
                    THEN Atomic!HWBatch(restRates, call[t].of, call[t].arg, Atomic!Groups)
                    ELSE Atomic!VirtualBatch(restRates, call[t].of, call[t].arg, Atomic!Groups)
        BY <4>2, SameActivation, SameBatch DEF AtomicBatch
      <4>6. /\ rest'.enabled = rest.enabled /\ rest'.listeners = rest.listeners /\ rest'.switch = rest.switch
            /\ rest'.odr = rates.odr /\ rest'.trigger = rates.trigger
        BY <3>6, <4>2 DEF shown, flags, Flags, restFlags, rates, Rates
      <4>7. Atomic!Batch(call[t].of, call[t].arg)
        BY <4>4, <4>5, <4>6, SameActivation DEF Atomic!Batch
      <4> QED BY <3>7, <4>3, <4>7 DEF Atomic!Next
    <3> QED BY <3>4, <3>8, <3>9 DEF Calls
  <2> QED BY <2>3, <2>4
<1> QED BY <1>2, <1>3

\* As long as calls come one at a time they do, access by access, what their atomic forms
\* do, for any number of binder threads, any calls, sensors, rates and periods.
THEOREM CallsImplementSensors == RestSpec => ImplementsSensors
<1>1. RestInit => IInv /\ OneAtATime
  <2> SUFFICES ASSUME RestInit
               PROVE  IInv /\ OneAtATime
    OBVIOUS
  <2>1. IInv
    BY InitIInv DEF RestInit
  <2>2. \A t \in Threads : ~InCall(t)
    BY DEF RestInit, Init, InCall
  <2> QED BY <2>1, <2>2 DEF OneAtATime, RestInit
<1>2. IInv /\ OneAtATime /\ [RestNext]_<<vars, rest, met>> => (IInv /\ OneAtATime)'
  <2>1. [RestNext]_<<vars, rest, met>> => [Next]_vars
    BY DEF RestNext
  <2> QED BY <2>1, StepIInv, StaysOneAtATime
<1>3. RestSpec => [](IInv /\ OneAtATime)
  BY <1>1, <1>2, PTL DEF RestSpec
<1>4. IInv /\ OneAtATime /\ [RestNext]_<<vars, rest, met>> => [met' \/ Atomic!Next]_(Atomic!vars)
  BY StepImplements
<1> QED BY <1>3, <1>4, PTL DEF RestSpec, ImplementsSensors

=============================================================================
