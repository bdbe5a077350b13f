---------------------------- MODULE SensorsProofs ----------------------------
(***************************************************************************)
(* Proofs about Sensors, for any set of virtual sensors, any rates and any *)
(* number of calls of initialize: lists and switches follow the flags, the *)
(* triggers follow the rates, and samples come in time.                    *)
(***************************************************************************)
EXTENDS Sensors, FiniteSetTheorems, WellFoundedInduction, TLAPS

(***************************************************************************)
(* Lemmas: what the operators of activate do to a record of flags, lists   *)
(* and switches.                                                           *)
(***************************************************************************)
Hal == [enabled : [Hw \cup Virtual -> BOOLEAN],
        listeners : [Hw -> SUBSET Virtual],
        switch : [Groups -> BOOLEAN]]

\* r is s after v has been activated or deactivated, as far as flags of virtual
\* sensors and lists go.
Follows(r, s, v, e) ==
    /\ r \in Hal
    /\ \A x \in Virtual : r.enabled[x] = IF x = v THEN e ELSE s.enabled[x]
    /\ \A h \in Hw : r.listeners[h] = IF h \in Uses(v)
                                      THEN IF e THEN s.listeners[h] \cup {v}
                                                ELSE s.listeners[h] \ {v}
                                      ELSE s.listeners[h]

LEMMA NamesDiffer ==
  /\ Hw \cap Virtual = {}
  /\ \A v \in Virtual : /\ Uses(v) \subseteq Hw /\ "ACC" \in Uses(v) /\ "GYR" \in Uses(v)
                        /\ v \notin Uses(v)
  /\ "ACC" \in Hw /\ "MAG" \in Hw /\ "GYR" \in Hw
  BY SensorsAssumption DEF SensorsAssumption, Hw, Uses, Mode

\* A switch that is written agrees with its group; the flag changes, and nothing else.
LEMMA ActivateHwEffect ==
  ASSUME NEW s \in Hal, NEW h \in Hw, NEW e \in BOOLEAN, NEW written \in SUBSET Groups
  PROVE  LET r == ActivateHw(s, h, e, written)
         IN  /\ r \in Hal
             /\ r.listeners = s.listeners
             /\ r.enabled = [s.enabled EXCEPT ![h] = e]
             /\ \A g \in Groups : IF g = GroupOf(h) /\ g \in written
                                  THEN r.switch[g] = IsActiveGroup(r, g)
                                  ELSE r.switch[g] = s.switch[g]
<1> DEFINE r == ActivateHw(s, h, e, written)
           t == [s EXCEPT !.enabled[h] = e]
           g == GroupOf(h)
<1>1. /\ t \in Hal /\ t.listeners = s.listeners /\ t.switch = s.switch
      /\ t.enabled = [s.enabled EXCEPT ![h] = e]
  BY DEF Hal
<1>2. g \in Groups
  BY DEF GroupOf, Groups
<1>3. CASE g \notin written
  <2>1. r = t
    BY <1>3 DEF ActivateHw
  <2> QED BY <1>1, <1>3, <2>1
<1>4. CASE g \in written
  <2>1. r = [t EXCEPT !.switch[g] = IsActiveGroup(t, g)]
    BY <1>4 DEF ActivateHw
  <2>2. IsActiveGroup(t, g) \in BOOLEAN
    BY DEF IsActiveGroup
  <2> HIDE DEF t
  <2>3. /\ r \in Hal /\ r.listeners = t.listeners /\ r.enabled = t.enabled
        /\ r.switch = [t.switch EXCEPT ![g] = IsActiveGroup(t, g)]
    BY <1>1, <1>2, <2>1, <2>2 DEF Hal
  <2>4. IsActiveGroup(r, g) = IsActiveGroup(t, g)
    BY <2>3 DEF IsActiveGroup
  <2>5. r.switch[g] = IsActiveGroup(r, g)
    BY <1>1, <1>2, <2>3, <2>4 DEF Hal
  <2>6. \A k \in Groups : k # g => r.switch[k] = s.switch[k]
    BY <1>1, <2>3 DEF Hal
  <2> QED BY <1>1, <1>4, <2>3, <2>5, <2>6
<1> QED BY <1>3, <1>4

\* A virtual sensor takes its place in the lists of the sensors it uses, or leaves it.
LEMMA FusionActivateEffect ==
  ASSUME NEW s \in Hal, NEW v \in Virtual, NEW e \in BOOLEAN
  PROVE  Follows(FusionActivate(s, v, e), s, v, e)
<1> DEFINE r == FusionActivate(s, v, e)
<1> SUFFICES Follows(r, s, v, e)
  OBVIOUS
<1>1. \A x \in Virtual : x \notin Uses(v)
  BY NamesDiffer
<1>2. /\ s.enabled \in [Hw \cup Virtual -> BOOLEAN] /\ s.listeners \in [Hw -> SUBSET Virtual]
      /\ s.switch \in [Groups -> BOOLEAN]
  BY DEF Hal
<1>3. CASE e
  <2>1. r = [s EXCEPT !.enabled = [x \in DOMAIN @ |-> x = v \/ x \in Uses(v) \/ @[x]],
                      !.listeners = [h \in Hw |-> IF h \in Uses(v) THEN @[h] \cup {v} ELSE @[h]]]
    BY <1>3 DEF FusionActivate
  <2>2. /\ r.enabled = [x \in Hw \cup Virtual |-> x = v \/ x \in Uses(v) \/ s.enabled[x]]
        /\ r.listeners = [h \in Hw |-> IF h \in Uses(v) THEN s.listeners[h] \cup {v}
                                                        ELSE s.listeners[h]]
        /\ r.switch = s.switch
        /\ r = [enabled |-> r.enabled, listeners |-> r.listeners, switch |-> r.switch]
    BY <2>1 DEF Hal
  <2>3. r \in Hal
    <3>1. r.enabled \in [Hw \cup Virtual -> BOOLEAN]
      BY <2>2, Zenon
    <3>2. r.listeners \in [Hw -> SUBSET Virtual]
      BY <1>2, <2>2
    <3> HIDE DEF r
    <3> QED BY <1>2, <2>2, <3>1, <3>2 DEF Hal
  <2>4. \A x \in Virtual : r.enabled[x] = IF x = v THEN e ELSE s.enabled[x]
    <3> SUFFICES ASSUME NEW x \in Virtual
                 PROVE  r.enabled[x] = IF x = v THEN e ELSE s.enabled[x]
      OBVIOUS
    <3> HIDE DEF r
    <3>1. r.enabled[x] = (x = v \/ x \in Uses(v) \/ s.enabled[x])
      BY <2>2
    <3>2. CASE x = v
      BY <1>3, <3>1, <3>2, Zenon
    <3>3. CASE x # v
      <4>1. s.enabled[x] \in BOOLEAN
        BY <1>2
      <4> QED BY <1>1, <3>1, <3>3, <4>1
    <3> QED BY <3>2, <3>3
  <2> HIDE DEF r
  <2> QED BY <1>3, <2>2, <2>3, <2>4 DEF Follows
<1>4. CASE ~e
  <2>1. r = [s EXCEPT !.enabled[v] = FALSE,
                      !.listeners = [h \in Hw |-> IF h \in Uses(v) THEN @[h] \ {v} ELSE @[h]]]
    BY <1>4 DEF FusionActivate
  <2>2. /\ r.enabled = [s.enabled EXCEPT ![v] = FALSE]
        /\ r.listeners = [h \in Hw |-> IF h \in Uses(v) THEN s.listeners[h] \ {v}
                                                        ELSE s.listeners[h]]
        /\ r.switch = s.switch
        /\ r = [enabled |-> r.enabled, listeners |-> r.listeners, switch |-> r.switch]
    BY <2>1 DEF Hal
  <2>3. r \in Hal
    <3>1. r.enabled \in [Hw \cup Virtual -> BOOLEAN]
      BY <1>2, <2>2
    <3>2. r.listeners \in [Hw -> SUBSET Virtual]
      BY <1>2, <2>2
    <3> HIDE DEF r
    <3> QED BY <1>2, <2>2, <3>1, <3>2 DEF Hal
  <2>4. \A x \in Virtual : r.enabled[x] = IF x = v THEN e ELSE s.enabled[x]
    BY <1>4, <1>2, <2>2
  <2> HIDE DEF r
  <2> QED BY <1>4, <2>2, <2>3, <2>4 DEF Follows
<1> QED BY <1>3, <1>4

\* The hardware sensors that activateGroup goes on to reach both groups, so that
\* every switch that can be written agrees in the end, whatever it was.
LEMMA ActivateVirtualEffect ==
  ASSUME NEW s \in Hal, NEW v \in Virtual, NEW e \in BOOLEAN, NEW written \in SUBSET Groups
  PROVE  LET r == ActivateVirtual(s, v, e, written)
         IN  /\ Follows(r, s, v, e)
             /\ written = Groups => \A g \in Groups : r.switch[g] = IsActiveGroup(r, g)
<1> DEFINE f == FusionActivate(s, v, e)
           a == ActivateHw(f, "ACC", e, written)
           m == IF "MAG" \in Uses(v) THEN ActivateHw(a, "MAG", e, written) ELSE a
           r == ActivateHw(m, "GYR", e, written)
<1>1. ActivateVirtual(s, v, e, written) = r
  BY NamesDiffer DEF ActivateVirtual
<1>2. Follows(f, s, v, e)
  BY FusionActivateEffect
<1>3. /\ "ACC" \in Hw /\ "MAG" \in Hw /\ "GYR" \in Hw
      /\ \A x \in Virtual : x # "ACC" /\ x # "MAG" /\ x # "GYR"
  BY NamesDiffer
<1>4. /\ GroupOf("ACC") = "AccMagn" /\ GroupOf("MAG") = "AccMagn" /\ GroupOf("GYR") = "Gyro"
      /\ Members("AccMagn") = {"ACC", "MAG"} /\ Members("Gyro") = {"GYR"}
      /\ Groups = {"AccMagn", "Gyro"}
  BY DEF GroupOf, Members, Groups, Hw
<1> HIDE DEF f
<1>5. f \in Hal
  BY <1>2 DEF Follows
<1>6. /\ a \in Hal /\ a.listeners = f.listeners
      /\ a.enabled = [f.enabled EXCEPT !["ACC"] = e]
      /\ "AccMagn" \in written => a.switch["AccMagn"] = IsActiveGroup(a, "AccMagn")
  BY <1>3, <1>4, <1>5, ActivateHwEffect
<1> HIDE DEF a
<1>7. /\ m \in Hal /\ m.listeners = a.listeners
      /\ \A x \in Virtual : m.enabled[x] = a.enabled[x]
      /\ "AccMagn" \in written => m.switch["AccMagn"] = IsActiveGroup(m, "AccMagn")
  <2>1. CASE "MAG" \in Uses(v)
    <3>1. m = ActivateHw(a, "MAG", e, written)
      BY <2>1
    <3> HIDE DEF m
    <3>2. /\ m \in Hal /\ m.listeners = a.listeners
          /\ m.enabled = [a.enabled EXCEPT !["MAG"] = e]
          /\ "AccMagn" \in written => m.switch["AccMagn"] = IsActiveGroup(m, "AccMagn")
      BY <1>3, <1>4, <1>6, <3>1, ActivateHwEffect
    <3> QED BY <1>3, <1>6, <3>2 DEF Hal
  <2>2. CASE "MAG" \notin Uses(v)
    <3>1. m = a
      BY <2>2
    <3> QED BY <1>6, <3>1
  <2> QED BY <2>1, <2>2
<1> HIDE DEF m
<1>8. /\ r \in Hal /\ r.listeners = m.listeners
      /\ r.enabled = [m.enabled EXCEPT !["GYR"] = e]
      /\ "Gyro" \in written => r.switch["Gyro"] = IsActiveGroup(r, "Gyro")
      /\ r.switch["AccMagn"] = m.switch["AccMagn"]
  BY <1>3, <1>4, <1>7, ActivateHwEffect
<1> HIDE DEF r
<1>9. \A x \in Virtual : r.enabled[x] = f.enabled[x]
  <2>1. \A x \in Virtual : r.enabled[x] = m.enabled[x] /\ a.enabled[x] = f.enabled[x]
    BY <1>3, <1>5, <1>6, <1>7, <1>8 DEF Hal
  <2> QED BY <1>7, <2>1
<1>10. IsActiveGroup(r, "AccMagn") = IsActiveGroup(m, "AccMagn")
  <2>1. \A h \in Members("AccMagn") : r.enabled[h] = m.enabled[h]
    BY <1>3, <1>4, <1>7, <1>8 DEF Hal
  <2>2. r.listeners = m.listeners
    BY <1>8
  <2> QED BY <2>1, <2>2 DEF IsActiveGroup
<1>11. written = Groups => \A g \in Groups : r.switch[g] = IsActiveGroup(r, g)
  BY <1>4, <1>7, <1>8, <1>10
<1>12. r.listeners = f.listeners
  BY <1>6, <1>7, <1>8
<1>13. Follows(r, s, v, e)
  BY <1>2, <1>8, <1>9, <1>12 DEF Follows
<1> QED BY <1>1, <1>11, <1>13

(***************************************************************************)
(* The invariant.                                                          *)
(***************************************************************************)
\* Before initialize every buffer is on, as the constructor has left it, so that the
\* first one finds none off.
SwitchesOn == ~failed /\ inits = 0 => \A g \in Groups : switch[g]

HalInv ==
    /\ hal \in Hal /\ failed \in BOOLEAN /\ inits \in Nat /\ leftOff \subseteq Groups
    /\ SwitchesOn /\ ListenersFollow /\ SwitchFollows

\* activate of any sensor keeps lists and switches in step with the flags.
LEMMA ActivateKeeps ==
  ASSUME HalInv, inits > 0, NEW x \in Hw \cup Virtual, NEW e \in BOOLEAN, Activate(x, e)
  PROVE  HalInv'
<1> DEFINE After(written) == IF x \in Hw THEN ActivateHw(hal, x, e, written)
                                         ELSE ActivateVirtual(hal, x, e, written)
<1>1. PICK written \in SUBSET Groups : /\ Becomes(After(written))
                                       /\ failed' = (failed \/ written # Groups)
  BY DEF Activate
<1> DEFINE r == After(written)
<1>2. /\ hal \in Hal /\ inits' = inits /\ inits \in Nat /\ failed \in BOOLEAN
      /\ leftOff' = leftOff \ Reached(x) /\ leftOff \subseteq Groups
  BY DEF HalInv, Activate
<1>3. r \in Hal
  BY <1>2, ActivateHwEffect, ActivateVirtualEffect DEF Follows
<1>4. /\ enabled' = r.enabled /\ listeners' = r.listeners /\ switch' = r.switch
  BY <1>1 DEF Becomes
<1>5. hal' = r
  <2> HIDE DEF r
  <2> QED BY <1>3, <1>4 DEF hal, Hal
<1>6. /\ hal.enabled = enabled /\ hal.listeners = listeners /\ hal.switch = switch
  BY DEF hal
<1>7. failed' \in BOOLEAN /\ SwitchesOn'
  BY <1>1, <1>2 DEF SwitchesOn
<1>8. ListenersFollow'
  <2>1. \A h \in Hw : listeners[h] = {v \in Virtual : enabled[v] /\ h \in Uses(v)}
    BY <1>2 DEF HalInv, ListenersFollow
  <2>2. CASE x \in Hw
    <3>1. /\ r.listeners = listeners
          /\ r.enabled = [enabled EXCEPT ![x] = e]
      BY <1>2, <1>6, <2>2, ActivateHwEffect
    <3>2. \A v \in Virtual : r.enabled[v] = enabled[v]
      BY <1>2, <1>6, <2>2, <3>1, NamesDiffer DEF Hal
    <3> HIDE DEF r
    <3> QED BY <1>4, <2>1, <3>1, <3>2 DEF ListenersFollow
  <2>3. CASE x \notin Hw
    <3>1. x \in Virtual /\ r = ActivateVirtual(hal, x, e, written)
      BY <2>3
    <3>2. Follows(r, hal, x, e)
      BY <1>2, <3>1, ActivateVirtualEffect
    <3> HIDE DEF r
    <3>3. \A h \in Hw : r.listeners[h] = {v \in Virtual : r.enabled[v] /\ h \in Uses(v)}
      <4> SUFFICES ASSUME NEW h \in Hw
                   PROVE  r.listeners[h] = {v \in Virtual : r.enabled[v] /\ h \in Uses(v)}
        OBVIOUS
      <4>1. \A v \in Virtual : r.enabled[v] = IF v = x THEN e ELSE enabled[v]
        BY <1>6, <3>2 DEF Follows
      <4>2. r.listeners[h] = IF h \in Uses(x)
                             THEN IF e THEN listeners[h] \cup {x} ELSE listeners[h] \ {x}
                             ELSE listeners[h]
        BY <1>6, <3>2 DEF Follows
      <4>3. CASE e
        BY <2>1, <3>1, <4>1, <4>2, <4>3
      <4>4. CASE ~e
        BY <2>1, <3>1, <4>1, <4>2, <4>4
      <4> QED BY <4>3, <4>4
    <3> QED BY <1>4, <3>3 DEF ListenersFollow
  <2> QED BY <2>2, <2>3
<1>9. SwitchFollows'
  <2> SUFFICES ASSUME ~failed'
               PROVE  /\ inits = 1 => leftOff' = {}
                      /\ \A g \in Groups : r.switch[g] = (g \notin leftOff' /\ IsActiveGroup(r, g))
    BY <1>2, <1>3, <1>4 DEF SwitchFollows, IsActiveGroup, Hal
  <2>1. written = Groups /\ ~failed
    BY <1>1, <1>2
  <2>2. /\ inits = 1 => leftOff = {}
        /\ \A g \in Groups : switch[g] = (g \notin leftOff /\ IsActiveGroup(hal, g))
    BY <1>2, <1>6, <2>1 DEF HalInv, SwitchFollows, IsActiveGroup, Hal
  <2>3. CASE x \in Hw
    <3>1. /\ r.listeners = hal.listeners
          /\ r.enabled = [hal.enabled EXCEPT ![x] = e]
          /\ r.switch[GroupOf(x)] = IsActiveGroup(r, GroupOf(x))
          /\ \A g \in Groups : g # GroupOf(x) => r.switch[g] = switch[g]
      BY <1>2, <1>6, <2>1, <2>3, ActivateHwEffect DEF GroupOf, Groups
    <3>2. leftOff' = leftOff \ {GroupOf(x)}
      BY <1>2, <2>3 DEF Reached
    <3> HIDE DEF r
    <3>3. ASSUME NEW g \in Groups, g # GroupOf(x)
          PROVE  IsActiveGroup(r, g) = IsActiveGroup(hal, g)
      <4>1. \A h \in Members(g) : r.enabled[h] = hal.enabled[h]
        BY <1>2, <3>1, <3>3 DEF Members, Hal
      <4>2. r.listeners = hal.listeners
        BY <3>1
      <4> QED BY <4>1, <4>2 DEF IsActiveGroup
    <3>4. \A g \in Groups : IsActiveGroup(r, g) \in BOOLEAN
      BY DEF IsActiveGroup
    <3> QED BY <2>2, <3>1, <3>2, <3>3, <3>4
  <2>4. CASE x \notin Hw
    <3>1. \A g \in Groups : r.switch[g] = IsActiveGroup(r, g)
      BY <1>2, <2>1, <2>4, ActivateVirtualEffect
    <3>2. leftOff' = {}
      <4>1. Uses(x) \subseteq Hw /\ "ACC" \in Uses(x) /\ "GYR" \in Uses(x)
        BY <2>4, NamesDiffer
      <4>2. Reached(x) = Groups
        BY <2>4, <4>1 DEF Reached, GroupOf, Groups
      <4> QED BY <1>2, <4>2
    <3>3. \A g \in Groups : IsActiveGroup(r, g) \in BOOLEAN
      BY DEF IsActiveGroup
    <3> HIDE DEF r
    <3> QED BY <3>1, <3>2, <3>3
  <2> QED BY <2>3, <2>4
<1>10. leftOff' \subseteq Groups
  BY <1>2
<1> QED BY <1>2, <1>3, <1>5, <1>7, <1>8, <1>9, <1>10 DEF HalInv

LEMMA InitializeKeeps ==
  ASSUME HalInv, Initialize
  PROVE  HalInv'
<1>1. PICK ok \in BOOLEAN :
         /\ enabled' = [x \in Hw \cup Virtual |-> ok]
         /\ listeners' = [h \in Hw |-> IF ok THEN {v \in Virtual : h \in Uses(v)} ELSE {}]
         /\ failed' = (failed \/ ~ok)
  BY DEF Initialize
<1>2. /\ inits' = inits + 1 /\ inits \in Nat /\ failed \in BOOLEAN
      /\ switch' = switch /\ switch \in [Groups -> BOOLEAN]
      /\ leftOff' = {g \in Groups : ~switch[g]}
  BY DEF HalInv, Initialize, hal, Hal
<1>3. hal' \in Hal
  <2>1. enabled' \in [Hw \cup Virtual -> BOOLEAN]
    BY <1>1
  <2>2. listeners' \in [Hw -> SUBSET Virtual]
    BY <1>1
  <2> QED BY <1>2, <2>1, <2>2 DEF hal, Hal
<1>4. failed' \in BOOLEAN /\ inits' \in Nat /\ SwitchesOn'
  BY <1>1, <1>2 DEF SwitchesOn
<1>5. ListenersFollow'
  <2>1. \A v \in Virtual : enabled'[v] = ok
    BY <1>1
  <2>2. \A h \in Hw : listeners'[h] = IF ok THEN {v \in Virtual : h \in Uses(v)} ELSE {}
    BY <1>1
  <2>3. CASE ok
    BY <2>1, <2>2, <2>3 DEF ListenersFollow
  <2>4. CASE ~ok
    BY <2>1, <2>2, <2>4 DEF ListenersFollow
  <2> QED BY <2>3, <2>4
<1>6. SwitchFollows'
  <2> SUFFICES ASSUME ~failed'
               PROVE  /\ inits' = 1 => leftOff' = {}
                      /\ \A g \in Groups : \E h \in Members(g) : enabled'[h]
    BY <1>2 DEF SwitchFollows
  <2>1. ok /\ ~failed
    BY <1>1, Zenon
  <2>2. inits' = 1 => leftOff' = {}
    <3> SUFFICES ASSUME inits' = 1 PROVE leftOff' = {}
      OBVIOUS
    <3>1. \A g \in Groups : switch[g]
      BY <1>2, <2>1 DEF HalInv, SwitchesOn
    <3> QED BY <1>2, <3>1
  <2>3. \A h \in Hw : enabled'[h]
    BY <1>1, <2>1
  <2>4. \A g \in Groups : \E h \in Hw : h \in Members(g)
    BY DEF Members, GroupOf, Groups, Hw
  <2> QED BY <2>2, <2>3, <2>4 DEF Members
<1>7. leftOff' \subseteq Groups
  BY <1>2
<1> QED BY <1>3, <1>4, <1>5, <1>6, <1>7 DEF HalInv

\* Flags and lists agree in every reachable state, through second initializes and failed
\* writes; flags and switches do while writes succeed, but for the groups that a second
\* initialize has found off.
THEOREM Invariance == Spec => []HalInv
<1>1. Init => HalInv
  <2> SUFFICES ASSUME Init PROVE HalInv
    OBVIOUS
  <2>1. enabled \in [Hw \cup Virtual -> BOOLEAN]
    BY Zenon DEF Init
  <2>2. listeners \in [Hw -> SUBSET Virtual] /\ switch \in [Groups -> BOOLEAN]
    BY DEF Init
  <2>3. inits = 0 /\ leftOff = {} /\ failed = FALSE /\ \A g \in Groups : switch[g]
    BY DEF Init
  <2>4. hal \in Hal
    BY <2>1, <2>2 DEF hal, Hal
  <2>5. failed \in BOOLEAN /\ inits \in Nat /\ leftOff \subseteq Groups /\ SwitchesOn
    BY <2>3 DEF SwitchesOn
  <2>6. ListenersFollow /\ SwitchFollows
    BY <2>3 DEF ListenersFollow, SwitchFollows
  <2> QED BY <2>4, <2>5, <2>6 DEF HalInv
<1>2. HalInv /\ [Next]_vars => HalInv'
  <2> SUFFICES ASSUME HalInv, [Next]_vars PROVE HalInv'
    OBVIOUS
  <2>1. CASE UNCHANGED <<enabled, listeners, switch, inits, leftOff>> /\ failed' \in {failed, TRUE}
    <3>1. hal' = hal /\ failed' \in BOOLEAN /\ (~failed' => ~failed)
      BY <2>1 DEF hal, HalInv
    <3> QED BY <2>1, <3>1 DEF HalInv, SwitchesOn, ListenersFollow, SwitchFollows
  <2>2. CASE UNCHANGED vars
    BY <2>1, <2>2 DEF vars
  <2>3. CASE Initialize
    BY <2>3, InitializeKeeps
  <2>4. CASE \E g \in Groups : ReadBuffer(g)
    BY <2>1, <2>4 DEF ReadBuffer
  <2>5. ASSUME NEW x \in Hw \cup Virtual, NEW p \in Periods, Batch(x, p)
        PROVE  HalInv'
    <3>1. UNCHANGED <<enabled, listeners, switch, inits, leftOff>>
      BY <2>5 DEF Batch
    <3>2. PICK written \in SUBSET Groups : failed' = (failed \/ written # Groups)
      BY <2>5 DEF Batch
    <3>3. failed' \in {failed, TRUE}
      BY <3>2 DEF HalInv
    <3> QED BY <2>1, <3>1, <3>3
  <2>6. ASSUME NEW x \in Hw \cup Virtual, NEW e \in BOOLEAN, inits > 0, Activate(x, e)
        PROVE  HalInv'
    BY <2>6, ActivateKeeps
  <2> QED BY <2>2, <2>3, <2>4, <2>5, <2>6 DEF Next
<1> QED BY <1>1, <1>2, PTL DEF Spec

\* A hardware sensor's listeners are the enabled virtual sensors that use it, through
\* every activation, initialize and failed write.
THEOREM ListenersAgree == Spec => []ListenersFollow
<1>1. HalInv => ListenersFollow
  BY DEF HalInv
<1> QED BY <1>1, Invariance, PTL

\* While writes succeed a buffer is on exactly when a member of its group is enabled
\* or listened to, whatever the sequence of calls, except that a group a second
\* initialize finds off stays off until a member of it is activated or deactivated.
THEOREM SwitchesAgree == Spec => []SwitchFollows
<1>1. HalInv => SwitchFollows
  BY DEF HalInv
<1> QED BY <1>1, Invariance, PTL

(***************************************************************************)
(* Rates: the maximum and the minimum of a finite set of numbers are       *)
(* members of it.  An order on a finite set has a maximal element: one for *)
(* which the set of what lies above it is minimal.                         *)
(***************************************************************************)
LEMMA FiniteHasMaximal ==
  ASSUME NEW S, IsFiniteSet(S), S # {}, NEW R,
         \A x \in S : <<x, x>> \notin R,
         \A x, y, z \in S : <<x, y>> \in R /\ <<y, z>> \in R => <<x, z>> \in R
  PROVE  \E m \in S : \A n \in S : <<m, n>> \notin R
<1> DEFINE above == [x \in S |-> {y \in S : <<x, y>> \in R}]
           T == {above[x] : x \in S}
<1>1. IsWellFoundedOn(StrictSubsetOrdering(S), SUBSET S)
  <2>1. FiniteSubsetsOf(S) = SUBSET S
    BY FS_FiniteSubsetsOfFinite
  <2>2. IsWellFoundedOn(StrictSubsetOrdering(S), FiniteSubsetsOf(S))
    BY FS_StrictSubsetOrderingWellFounded, Zenon
  <2> QED BY <2>1, <2>2
<1>2. T \subseteq SUBSET S /\ T # {}
  <2>1. \A x \in S : above[x] \in SUBSET S
    OBVIOUS
  <2> HIDE DEF above
  <2> QED BY <2>1
<1>3. PICK t \in T : \A u \in T : <<u, t>> \notin StrictSubsetOrdering(S)
  <2> HIDE DEF T
  <2> QED BY <1>1, <1>2, WFMin
<1>4. PICK m \in S : t = above[m]
  OBVIOUS
<1>5. ASSUME NEW n \in S, <<m, n>> \in R
      PROVE  FALSE
  <2>1. n \in above[m] /\ n \notin above[n]
    BY <1>5
  <2>2. above[n] \subseteq above[m]
    BY <1>5
  <2>3. above[n] \in T /\ above[m] \in T
    OBVIOUS
  <2> HIDE DEF above, T
  <2>4. <<above[n], above[m]>> \in StrictSubsetOrdering(S)
    BY <1>2, <2>1, <2>2, <2>3 DEF StrictSubsetOrdering
  <2>5. <<above[n], t>> \in StrictSubsetOrdering(S)
    BY <1>4, <2>4
  <2> QED BY <1>3, <2>3, <2>5
<1> QED BY <1>5

LEMMA MaxIsMember ==
  ASSUME NEW S, S \subseteq Int, IsFiniteSet(S), S # {}
  PROVE  Max(S) \in S /\ \A n \in S : Max(S) >= n
<1> DEFINE R == {d \in S \X S : d[1] < d[2]}
<1>1. \A x, y \in S : <<x, y>> \in R <=> x < y
  OBVIOUS
<1>2. \A x \in S : x \in Int
  OBVIOUS
<1> HIDE DEF R
<1>3. /\ \A x \in S : <<x, x>> \notin R
      /\ \A x, y, z \in S : <<x, y>> \in R /\ <<y, z>> \in R => <<x, z>> \in R
  BY <1>1, <1>2
<1>4. PICK m \in S : \A n \in S : <<m, n>> \notin R
  BY <1>3, FiniteHasMaximal
<1>5. \A n \in S : ~(m < n)
  BY <1>1, <1>4
<1>6. \A n \in S : m >= n
  BY <1>2, <1>5
<1> QED BY <1>6 DEF Max

LEMMA MinIsMember ==
  ASSUME NEW S, S \subseteq Int, IsFiniteSet(S), S # {}
  PROVE  Min(S) \in S
<1> DEFINE R == {d \in S \X S : d[1] > d[2]}
<1>1. \A x, y \in S : <<x, y>> \in R <=> x > y
  OBVIOUS
<1>2. \A x \in S : x \in Int
  OBVIOUS
<1> HIDE DEF R
<1>3. /\ \A x \in S : <<x, x>> \notin R
      /\ \A x, y, z \in S : <<x, y>> \in R /\ <<y, z>> \in R => <<x, z>> \in R
  BY <1>1, <1>2
<1>4. PICK m \in S : \A n \in S : <<m, n>> \notin R
  BY <1>3, FiniteHasMaximal
<1>5. \A n \in S : ~(m > n)
  BY <1>1, <1>4
<1>6. \A n \in S : m <= n
  BY <1>2, <1>5
<1> QED BY <1>6 DEF Min

(***************************************************************************)
(* batch: what it does to the rates and the triggers.                      *)
(***************************************************************************)
\* Every sensor has a rate of its own table.
Supported(o) == o \in [Hw -> Nat] /\ \A h \in Hw : o[h] \in Available[h]

\* The triggers are rates of the group, and as long as writes succeed the highest.
Triggered(b, ok) ==
    /\ Supported(b.odr) /\ b.trigger \in [Groups -> Nat]
    /\ \A g \in Groups : /\ ok => b.trigger[g] = GroupMax(b.odr, g)
                         /\ \E h \in Members(g) : b.trigger[g] \in Available[h]

LEMMA AvailableRates ==
  ASSUME NEW h \in Hw
  PROVE  /\ IsFiniteSet(Available[h]) /\ Available[h] # {}
         /\ \A o \in Available[h] : o \in Nat /\ o > 0 /\ 2 * o <= TickModulus
<1> DEFINE listed == {o \in Sysfs[h] : MinODR[h] <= o /\ o <= MaxODR[h]}
<1>1. /\ Sysfs[h] \subseteq Nat \ {0} /\ IsFiniteSet(Sysfs[h])
      /\ MaxODR[h] \in Nat \ {0} /\ DefaultODR[h] \in Nat \ {0}
      /\ 2 * MaxODR[h] <= TickModulus /\ 2 * DefaultODR[h] <= TickModulus
      /\ TickModulus \in Nat
  BY SensorsAssumption
<1>2. Available[h] = IF listed = {} THEN {DefaultODR[h]} ELSE listed
  BY DEF Available
<1>3. IsFiniteSet(listed) /\ IsFiniteSet({DefaultODR[h]})
  BY <1>1, FS_Subset, FS_Singleton
<1>4. \A o \in listed : o \in Nat /\ o > 0 /\ 2 * o <= TickModulus
  BY <1>1
<1> HIDE DEF listed
<1> QED BY <1>1, <1>2, <1>3, <1>4

LEMMA ClosestOdrAvailable ==
  ASSUME NEW h \in Hw, NEW r \in Nat
  PROVE  ClosestOdr(h, r) \in Available[h]
<1> DEFINE above == {o \in Available[h] : o >= r}
<1>1. /\ Available[h] \subseteq Int /\ IsFiniteSet(Available[h]) /\ Available[h] # {}
      /\ above \subseteq Available[h]
  BY AvailableRates
<1>2. IsFiniteSet(above)
  BY <1>1, FS_Subset
<1>3. ClosestOdr(h, r) = IF above = {} THEN Max(Available[h]) ELSE Min(above)
  BY DEF ClosestOdr
<1> HIDE DEF above
<1>4. Max(Available[h]) \in Available[h]
  BY <1>1, MaxIsMember
<1>5. above # {} => Min(above) \in Available[h]
  BY <1>1, <1>2, MinIsMember
<1> QED BY <1>3, <1>4, <1>5

LEMMA HWRateAvailable ==
  ASSUME NEW h \in Hw, NEW p \in Periods
  PROVE  HWRate(h, p) \in Available[h]
<1>1. p \in Nat /\ (p # 0 => p > 15258)
  BY SensorsAssumption
<1>2. SamplingPeriodNsToODR(p) \in Nat
  BY <1>1 DEF SamplingPeriodNsToODR
<1> QED BY <1>2, ClosestOdrAvailable DEF HWRate

LEMMA GroupMembers ==
  /\ Members("AccMagn") = {"ACC", "MAG"} /\ Members("Gyro") = {"GYR"}
  /\ \A h \in Hw : GroupOf(h) \in Groups /\ h \in Members(GroupOf(h))
  /\ \A g \in Groups : /\ Members(g) \subseteq Hw /\ Members(g) # {} /\ IsFiniteSet(Members(g))
                       /\ \A h \in Members(g) : GroupOf(h) = g
<1>1. /\ Members("AccMagn") = {"ACC", "MAG"} /\ Members("Gyro") = {"GYR"}
      /\ \A h \in Hw : GroupOf(h) \in Groups /\ h \in Members(GroupOf(h))
      /\ \A g \in Groups : \A h \in Members(g) : GroupOf(h) = g /\ h \in Hw
  BY DEF Members, GroupOf, Groups, Hw
<1>2. IsFiniteSet({"ACC", "MAG"}) /\ IsFiniteSet({"GYR"})
  <2>1. IsFiniteSet({"ACC"}) /\ IsFiniteSet({"GYR"}) /\ {"ACC", "MAG"} = {"ACC"} \cup {"MAG"}
    BY FS_Singleton
  <2> QED BY <2>1, FS_AddElement
<1> QED BY <1>1, <1>2 DEF Groups

LEMMA GroupMaxIsRate ==
  ASSUME NEW o, Supported(o), NEW g \in Groups
  PROVE  /\ \E h \in Members(g) : GroupMax(o, g) = o[h]
         /\ \A h \in Members(g) : GroupMax(o, g) >= o[h]
<1> DEFINE rates == {o[h] : h \in Members(g)}
<1>1. rates \subseteq Int /\ rates # {}
  BY GroupMembers DEF Supported
<1>2. IsFiniteSet(rates)
  <2>1. rates = {o["ACC"]} \cup {o["MAG"]} \/ rates = {o["GYR"]}
    BY GroupMembers DEF Groups
  <2>2. /\ IsFiniteSet({o["GYR"]}) /\ IsFiniteSet({o["ACC"]})
    BY FS_Singleton
  <2>3. IsFiniteSet({o["ACC"]} \cup {o["MAG"]})
    BY <2>2, FS_AddElement
  <2> QED BY <2>1, <2>2, <2>3
<1>3. GroupMax(o, g) = Max(rates)
  BY DEF GroupMax
<1>4. \A h \in Members(g) : o[h] \in rates
  OBVIOUS
<1>5. Max(rates) \in rates /\ \A n \in rates : Max(rates) >= n
  <2> HIDE DEF rates
  <2> QED BY <1>1, <1>2, MaxIsMember
<1>6. PICK h \in Members(g) : Max(rates) = o[h]
  BY <1>5
<1> HIDE DEF rates
<1> QED BY <1>3, <1>4, <1>5, <1>6

LEMMA HWBatchTriggers ==
  ASSUME NEW b, NEW ok \in BOOLEAN, Triggered(b, ok), NEW h \in Hw, NEW p \in Periods,
         NEW written \in SUBSET Groups
  PROVE  Triggered(HWBatch(b, h, p, written), ok /\ written = Groups)
<1> DEFINE o == [b.odr EXCEPT ![h] = HWRate(h, p)]
           g == GroupOf(h)
           r == HWBatch(b, h, p, written)
<1> SUFFICES Triggered(r, ok /\ written = Groups)
  OBVIOUS
<1>1. r.odr = o /\ r.trigger = IF GroupMax(o, g) # GroupMax(b.odr, g) /\ g \in written
                               THEN [b.trigger EXCEPT ![g] = GroupMax(o, g)] ELSE b.trigger
  BY DEF HWBatch
<1>2. Supported(o)
  <2>1. HWRate(h, p) \in Available[h] /\ HWRate(h, p) \in Nat
    BY HWRateAvailable, AvailableRates
  <2> QED BY <2>1 DEF Triggered, Supported
<1>3. g \in Groups /\ g \in Groups /\ h \in Members(g)
  BY GroupMembers
<1>4. \A k \in Groups : k # g => GroupMax(o, k) = GroupMax(b.odr, k)
  <2> SUFFICES ASSUME NEW k \in Groups, k # g
               PROVE  GroupMax(o, k) = GroupMax(b.odr, k)
    OBVIOUS
  <2>1. \A i \in Members(k) : i # h /\ i \in Hw
    BY GroupMembers
  <2>2. \A i \in Members(k) : o[i] = b.odr[i]
    BY <2>1 DEF Triggered, Supported
  <2> HIDE DEF o
  <2>3. {o[i] : i \in Members(k)} = {b.odr[i] : i \in Members(k)}
    BY <2>2
  <2> QED BY <2>3 DEF GroupMax
<1>5. PICK i \in Members(g) : GroupMax(o, g) = o[i]
  BY <1>2, <1>3, GroupMaxIsRate
<1>6. GroupMax(o, g) \in Available[i] /\ GroupMax(o, g) \in Nat
  BY <1>2, <1>3, <1>5, GroupMembers DEF Supported
<1> HIDE DEF o, r
<1> USE DEF Triggered
<1>7. r.trigger \in [Groups -> Nat]
  BY <1>1, <1>6
<1>8. ASSUME NEW k \in Groups
      PROVE  /\ ok /\ written = Groups => r.trigger[k] = GroupMax(r.odr, k)
             /\ \E j \in Members(k) : r.trigger[k] \in Available[j]
  <2>1. CASE k = g /\ GroupMax(o, g) # GroupMax(b.odr, g) /\ g \in written
    <3>1. r.trigger[k] = GroupMax(o, g)
      BY <1>1, <2>1
    <3> QED BY <1>1, <1>6, <2>1, <3>1
  <2>2. CASE ~ (k = g /\ GroupMax(o, g) # GroupMax(b.odr, g) /\ g \in written)
    <3>1. r.trigger[k] = b.trigger[k]
      BY <1>1, <2>2
    <3>2. written = Groups => GroupMax(o, k) = GroupMax(b.odr, k)
      BY <1>3, <1>4, <2>2
    <3> QED BY <1>1, <3>1, <3>2
  <2> QED BY <2>1, <2>2
<1> QED BY <1>1, <1>2, <1>7, <1>8

LEMMA VirtualBatchTriggers ==
  ASSUME NEW b, NEW ok \in BOOLEAN, Triggered(b, ok), NEW v \in Virtual, NEW p \in Periods,
         NEW written \in SUBSET Groups
  PROVE  Triggered(VirtualBatch(b, v, p, written), ok /\ written = Groups)
<1> DEFINE a == HWBatch(b, "ACC", p, written)
           m == IF "MAG" \in Uses(v) THEN HWBatch(a, "MAG", p, written) ELSE a
           r == IF "GYR" \in Uses(v) THEN HWBatch(m, "GYR", p, written) ELSE m
           fine == (ok /\ written = Groups)
<1>1. {"ACC", "MAG", "GYR"} \subseteq Hw /\ fine \in BOOLEAN /\ (fine <=> fine /\ written = Groups)
  BY DEF Hw
<1>2. Triggered(a, fine)
  BY <1>1, HWBatchTriggers
<1> HIDE DEF a
<1>3. Triggered(m, fine)
  <2>1. Triggered(HWBatch(a, "MAG", p, written), fine /\ written = Groups)
    BY <1>1, <1>2, HWBatchTriggers
  <2> QED BY <1>1, <1>2, <2>1 DEF Triggered
<1> HIDE DEF m
<1>4. Triggered(r, fine)
  <2>1. Triggered(HWBatch(m, "GYR", p, written), fine /\ written = Groups)
    BY <1>1, <1>3, HWBatchTriggers
  <2> QED BY <1>1, <1>3, <2>1 DEF Triggered
<1> QED BY <1>4 DEF VirtualBatch, a, m

(***************************************************************************)
(* The second invariant: rates, triggers and ticks.                        *)
(*                                                                         *)
(* The time since a sensor was due is in its ticks, which are too few to   *)
(* overflow: below the rate of the trigger of a moment ago, and a uint16_t.*)
(***************************************************************************)
rates == [odr |-> odr, trigger |-> trigger]

Ticking(h) ==
    /\ ticks[h] \in 0..(TickModulus - 1) /\ waited[h] \in Nat
    /\ h \in counted => 2 * ticks[h] < TickModulus /\ waited[h] * odr[h] <= ticks[h]
    /\ h \notin counted => waited[h] = 0
    /\ waited[h] * odr[h] < GroupMax(odr, GroupOf(h))

RateInv ==
    /\ Triggered(rates, ~failed)
    /\ ticks \in [Hw -> Int] /\ waited \in [Hw -> Int] /\ counted \subseteq Hw
    /\ failed \in BOOLEAN /\ inits \in 0..MaxInits
    /\ \A h \in Hw : Ticking(h)

LEMMA HighestRate ==
  ASSUME NEW o, Supported(o), NEW h \in Hw
  PROVE  /\ GroupMax(o, GroupOf(h)) \in Nat \ {0} /\ 2 * GroupMax(o, GroupOf(h)) <= TickModulus
         /\ o[h] \in Nat \ {0} /\ o[h] <= GroupMax(o, GroupOf(h))
<1>1. GroupOf(h) \in Groups /\ h \in Members(GroupOf(h))
  BY GroupMembers
<1>2. PICK i \in Members(GroupOf(h)) : GroupMax(o, GroupOf(h)) = o[i]
  BY <1>1, GroupMaxIsRate
<1>3. i \in Hw
  BY <1>1, GroupMembers
<1>4. o[i] \in Available[i] /\ o[h] \in Available[h]
  BY <1>3 DEF Supported
<1>5. o[h] <= GroupMax(o, GroupOf(h))
  BY <1>1, <1>2, <1>3, <1>4, GroupMaxIsRate, AvailableRates
<1> QED BY <1>2, <1>3, <1>4, <1>5, AvailableRates

LEMMA InitRateInv == Init => RateInv
<1> SUFFICES ASSUME Init PROVE RateInv
  OBVIOUS
<1>1. Supported(odr)
  <2>1. odr = [k \in Hw |-> Min(Available[k])]
    BY DEF Init
  <2>2. ASSUME NEW h \in Hw PROVE Min(Available[h]) \in Available[h]
    <3>1. Available[h] \subseteq Int /\ IsFiniteSet(Available[h]) /\ Available[h] # {}
      BY AvailableRates
    <3> QED BY <3>1, MinIsMember
  <2>3. \A h \in Hw : Min(Available[h]) \in Nat
    BY <2>2, AvailableRates
  <2> QED BY <2>1, <2>2, <2>3 DEF Supported
<1>2. Triggered(rates, ~failed)
  <2>1. ASSUME NEW g \in Groups
        PROVE  GroupMax(odr, g) \in Nat /\ \E h \in Members(g) : GroupMax(odr, g) \in Available[h]
    <3>1. PICK i \in Members(g) : GroupMax(odr, g) = odr[i]
      BY <1>1, GroupMaxIsRate
    <3>2. odr[i] \in Available[i] /\ odr[i] \in Nat
      BY <1>1, GroupMembers DEF Supported
    <3> QED BY <3>1, <3>2
  <2>2. trigger = [g \in Groups |-> GroupMax(odr, g)]
    BY DEF Init
  <2> QED BY <1>1, <2>1, <2>2 DEF Triggered, rates
<1>3. /\ ticks \in [Hw -> FirstTicks] /\ waited = [h \in Hw |-> 0] /\ counted = {}
      /\ failed = FALSE /\ inits = 0 /\ MaxInits \in Nat /\ TickModulus \in Nat \ {0}
      /\ FirstTicks \subseteq 0..(TickModulus - 1)
  BY SensorsAssumption DEF Init
<1>4. ASSUME NEW h \in Hw PROVE Ticking(h)
  <2>1. ticks[h] \in 0..(TickModulus - 1) /\ waited[h] = 0 /\ h \notin counted
    BY <1>3
  <2>2. odr[h] \in Nat \ {0} /\ GroupMax(odr, GroupOf(h)) \in Nat \ {0}
    BY <1>1, HighestRate
  <2>3. waited[h] * odr[h] = 0
    BY <2>1, <2>2
  <2> QED BY <2>1, <2>2, <2>3 DEF Ticking
<1>5. ticks \in [Hw -> Int] /\ waited \in [Hw -> Int]
  <2>1. \A n \in FirstTicks : n \in Int
    BY <1>3
  <2>2. waited \in [Hw -> Int]
    BY <1>3
  <2>3. ticks \in [Hw -> Int]
    BY <2>1 DEF Init
  <2> QED BY <2>2, <2>3
<1>6. failed \in BOOLEAN /\ inits \in 0..MaxInits
  <2>1. inits = 0 /\ MaxInits \in Nat
    BY <1>3, Zenon
  <2>2. inits \in 0..MaxInits
    BY <2>1
  <2>3. failed \in BOOLEAN
    BY <1>3, Zenon
  <2> QED BY <2>2, <2>3
<1> QED BY <1>2, <1>3, <1>4, <1>5, <1>6 DEF RateInv

\* batch changes rates and triggers together, and starts the wait of every sensor anew.
LEMMA BatchKeepsRateInv ==
  ASSUME RateInv, NEW x \in Hw \cup Virtual, NEW p \in Periods, Batch(x, p)
  PROVE  RateInv'
<1> DEFINE After(written) == IF x \in Hw THEN HWBatch(rates, x, p, written)
                                         ELSE VirtualBatch(rates, x, p, written)
<1>1. PICK written \in SUBSET Groups :
         /\ odr' = After(written).odr /\ trigger' = After(written).trigger
         /\ failed' = (failed \/ written # Groups)
  BY DEF Batch, rates
<1>2. /\ waited' = [h \in Hw |-> 0] /\ UNCHANGED <<ticks, counted, inits>>
  BY DEF Batch
<1> DEFINE r == After(written)
           ok == ~failed
<1>3. ok \in BOOLEAN /\ Triggered(rates, ok)
  BY DEF RateInv
<1>4. Triggered(r, ok /\ written = Groups)
  <2>1. CASE x \in Hw
    BY <1>3, <2>1, HWBatchTriggers
  <2>2. CASE x \notin Hw
    BY <1>3, <2>2, VirtualBatchTriggers
  <2> QED BY <2>1, <2>2
<1>5. failed' \in BOOLEAN /\ (~failed' => ok /\ written = Groups)
  BY <1>1 DEF RateInv
<1> HIDE DEF After
<1>6. Triggered(rates', ~failed')
  <2>1. rates'.odr = r.odr /\ rates'.trigger = r.trigger
    BY <1>1 DEF rates
  <2> QED BY <1>4, <1>5, <2>1 DEF Triggered
<1>7. Supported(odr')
  BY <1>6 DEF Triggered, rates
<1>8. ASSUME NEW h \in Hw PROVE Ticking(h)'
  <2>1. waited'[h] = 0 /\ ticks'[h] = ticks[h] /\ counted' = counted
    BY <1>2
  <2>2. odr'[h] \in Nat \ {0} /\ GroupMax(odr', GroupOf(h)) \in Nat \ {0}
    BY <1>7, HighestRate
  <2>3. waited'[h] * odr'[h] = 0
    BY <2>1, <2>2
  <2> QED BY <2>1, <2>2, <2>3 DEF Ticking, RateInv
<1> QED BY <1>2, <1>5, <1>6, <1>8 DEF RateInv

\* A sensor that is not due has waited one buffer more, and its rate is in its ticks.
LEMMA ReadBufferKeepsRateInv ==
  ASSUME RateInv, NEW g \in Groups, ReadBuffer(g)
  PROVE  RateInv'
<1> DEFINE due == {h \in Members(g) : IsDue(h)}
           Sum(h) == ticks[h] + odr[h]
<1>1. /\ ticks' = [h \in Hw |-> IF h \in due THEN 0
                                ELSE IF h \in Members(g) THEN Sum(h) % TickModulus
                                ELSE ticks[h]]
      /\ counted' = counted \cup due
      /\ waited' = [h \in Hw |-> IF h \in due THEN 0
                                 ELSE IF h \in Members(g) \cap counted THEN waited[h] + 1
                                 ELSE waited[h]]
      /\ UNCHANGED <<odr, trigger, failed, inits>>
  BY DEF ReadBuffer, rateVars
<1>2. due \subseteq Hw
  BY DEF Members
<1>3. TickModulus \in Nat \ {0}
  BY SensorsAssumption
<1>4. Supported(odr)
  BY DEF RateInv, Triggered, rates
<1>5. ASSUME NEW h \in Hw
      PROVE  /\ ticks'[h] \in Int /\ waited'[h] \in Int
             /\ Ticking(h)'
  <2> DEFINE G == GroupMax(odr, GroupOf(h))
  <2>1. /\ ticks[h] \in 0..(TickModulus - 1) /\ waited[h] \in Nat
        /\ h \in counted => 2 * ticks[h] < TickModulus /\ waited[h] * odr[h] <= ticks[h]
        /\ h \notin counted => waited[h] = 0
        /\ waited[h] * odr[h] < G
    BY DEF RateInv, Ticking
  <2>2. /\ G \in Nat \ {0} /\ 2 * G <= TickModulus
        /\ odr[h] \in Nat \ {0} /\ odr[h] <= G
    BY <1>4, HighestRate
  <2>3. G' = G /\ odr' = odr
    BY <1>1
  <2>4. IsDue(h) <=> Sum(h) % TickModulus >= G
    BY DEF IsDue
  <2> HIDE DEF G
  <2>5. CASE h \in due
    <3>1. ticks'[h] = 0 /\ waited'[h] = 0 /\ h \in counted'
      BY <1>1, <2>5
    <3>2. waited'[h] * odr'[h] = 0
      BY <2>2, <2>3, <3>1
    <3> QED BY <1>3, <2>2, <2>3, <3>1, <3>2 DEF Ticking, G
  <2>6. CASE h \in Members(g) /\ h \notin due
    <3>1. /\ ticks'[h] = Sum(h) % TickModulus
          /\ waited'[h] = IF h \in counted THEN waited[h] + 1 ELSE waited[h]
          /\ h \in counted' <=> h \in counted
      BY <1>1, <2>6
    <3>2. Sum(h) % TickModulus < G
      <4>1. Sum(h) \in Nat
        BY <2>1, <2>2
      <4>2. Sum(h) % TickModulus \in Nat
        BY <1>3, <4>1
      <4> HIDE DEF Sum
      <4> QED BY <2>2, <2>4, <2>6, <4>2
    <3>3. Sum(h) % TickModulus \in 0..(TickModulus - 1)
      BY <1>3, <2>1, <2>2
    <3>4. CASE h \in counted
      <4>1. Sum(h) \in 0..(TickModulus - 1)
        BY <1>3, <2>1, <2>2, <3>4
      <4>2. Sum(h) % TickModulus = Sum(h)
        <5> HIDE DEF Sum
        <5> QED BY <1>3, <4>1
      <4>3. waited'[h] * odr[h] = waited[h] * odr[h] + odr[h]
        <5>1. \A w, o \in Nat : (w + 1) * o = w * o + o
          OBVIOUS
        <5> QED BY <2>1, <2>2, <3>1, <3>4, <5>1
      <4>4. waited[h] * odr[h] \in Nat
        BY <2>1, <2>2
      <4>5. ticks'[h] = Sum(h) /\ 2 * ticks'[h] < TickModulus
        BY <1>3, <2>2, <3>1, <3>2, <4>1, <4>2
      <4>6. waited'[h] * odr[h] <= ticks'[h] /\ waited'[h] * odr[h] < G
        BY <2>1, <2>2, <3>2, <3>4, <4>2, <4>3, <4>4, <4>5
      <4>7. waited'[h] \in Nat /\ h \in counted'
        BY <2>1, <3>1, <3>4
      <4> QED BY <2>3, <3>1, <3>3, <4>5, <4>6, <4>7 DEF Ticking, G
    <3>5. CASE h \notin counted
      <4>1. waited'[h] = 0 /\ h \notin counted'
        BY <2>1, <3>1, <3>5
      <4>2. waited'[h] * odr'[h] = 0
        BY <2>2, <2>3, <4>1
      <4> QED BY <2>2, <2>3, <3>1, <3>3, <4>1, <4>2 DEF Ticking, G
    <3> QED BY <3>4, <3>5
  <2>7. CASE h \notin Members(g)
    <3>1. h \notin due
      BY <2>7
    <3>2. ticks'[h] = ticks[h] /\ waited'[h] = waited[h] /\ (h \in counted' <=> h \in counted)
      BY <1>1, <2>7, <3>1
    <3> QED BY <2>1, <2>3, <3>2 DEF Ticking, G
  <2> QED BY <2>5, <2>6, <2>7
<1>6. ticks' \in [Hw -> Int] /\ waited' \in [Hw -> Int]
  <2> HIDE DEF due
  <2> QED BY <1>1, <1>5
<1>7. counted' \subseteq Hw /\ rates' = rates
  BY <1>1, <1>2 DEF RateInv, rates
<1> QED BY <1>1, <1>5, <1>6, <1>7 DEF RateInv

\* What leaves rates and ticks alone.
LEMMA OthersKeepRateInv ==
  ASSUME RateInv, UNCHANGED <<rateVars, tickVars>>, failed' \in {failed, TRUE},
         inits' \in 0..MaxInits
  PROVE  RateInv'
<1>1. failed' \in BOOLEAN /\ (~failed' => ~failed)
  BY DEF RateInv
<1>2. odr' = odr /\ trigger' = trigger /\ ticks' = ticks /\ counted' = counted /\ waited' = waited
  BY DEF rateVars, tickVars
<1>3. Triggered(rates', ~failed')
  BY <1>1, <1>2 DEF RateInv, Triggered, rates
<1>4. \A h \in Hw : Ticking(h)'
  BY <1>2 DEF RateInv, Ticking
<1> QED BY <1>1, <1>2, <1>3, <1>4 DEF RateInv

\* Rates, triggers and ticks agree in every reachable state.
THEOREM RatesInvariance == Spec => []RateInv
<1>1. RateInv /\ [Next]_vars => RateInv'
  <2> SUFFICES ASSUME RateInv, [Next]_vars PROVE RateInv'
    OBVIOUS
  <2>1. failed \in BOOLEAN /\ inits \in 0..MaxInits /\ MaxInits \in Nat
    BY SensorsAssumption DEF RateInv
  <2>2. CASE UNCHANGED vars
    BY <2>1, <2>2, OthersKeepRateInv DEF vars
  <2>3. CASE Initialize
    <3>1. failed' \in {failed, TRUE}
      BY <2>1, <2>3 DEF Initialize
    <3>2. inits' \in 0..MaxInits
      BY <2>1, <2>3 DEF Initialize
    <3> QED BY <2>3, <3>1, <3>2, OthersKeepRateInv DEF Initialize
  <2>4. CASE \E g \in Groups : ReadBuffer(g)
    BY <2>4, ReadBufferKeepsRateInv
  <2>5. ASSUME NEW x \in Hw \cup Virtual, NEW p \in Periods, Batch(x, p)
        PROVE  RateInv'
    BY <2>5, BatchKeepsRateInv
  <2>6. ASSUME NEW x \in Hw \cup Virtual, NEW e \in BOOLEAN, Activate(x, e)
        PROVE  RateInv'
    <3>1. failed' \in {failed, TRUE}
      BY <2>1, <2>6 DEF Activate
    <3> QED BY <2>1, <2>6, <3>1, OthersKeepRateInv DEF Activate
  <2> QED BY <2>2, <2>3, <2>4, <2>5, <2>6 DEF Next
<1> QED BY InitRateInv, <1>1, PTL DEF Spec

\* Whatever rates the drivers list and the clients ask for, a device is triggered at
\* the highest rate of its sensors as long as writes succeed, and always at a rate one
\* of them supports.
THEOREM TriggersFollow == Spec => []TriggerIsMax
<1>1. RateInv => TriggerIsMax
  BY DEF RateInv, Triggered, rates, TriggerIsMax
<1> QED BY <1>1, RatesInvariance, PTL

\* However rates change, the buffers between two samples of a sensor take no more time
\* than its own rate allows: no tick is lost, by overflow or by another sensor's rate.
THEOREM SamplesInTime == Spec => []SampledAtItsRate
<1>1. RateInv => SampledAtItsRate
  BY DEF RateInv, Ticking, SampledAtItsRate
<1> QED BY <1>1, RatesInvariance, PTL

\* The variables keep their ranges; a sensor's rate is always one it supports.
THEOREM TypeCorrect == Spec => []TypeOK
<1>1. HalInv /\ RateInv => TypeOK
  <2> SUFFICES ASSUME HalInv, RateInv PROVE TypeOK
    OBVIOUS
  <2>1. enabled \in [Hw \cup Virtual -> BOOLEAN] /\ listeners \in [Hw -> SUBSET Virtual]
        /\ switch \in [Groups -> BOOLEAN]
    BY DEF HalInv, hal, Hal
  <2>2. ticks \in [Hw -> 0..(TickModulus - 1)] /\ waited \in [Hw -> Nat]
    BY DEF RateInv, Ticking
  <2>3. odr \in [Hw -> Nat] /\ (\A h \in Hw : odr[h] \in Available[h]) /\ trigger \in [Groups -> Nat]
    BY DEF RateInv, Triggered, Supported, rates
  <2>4. counted \subseteq Hw /\ failed \in BOOLEAN /\ inits \in 0..MaxInits
    BY DEF RateInv
  <2>5. leftOff \subseteq Groups
    BY DEF HalInv
  <2> QED BY <2>1, <2>2, <2>3, <2>4, <2>5 DEF TypeOK
<1> QED BY <1>1, Invariance, RatesInvariance, PTL

=============================================================================
