--------------------------- MODULE NTNSliceTyping ---------------------------
(* The decision engine on every input, and the types of the reconciler that runs it, for every policy, *)
(* every set of readings and every bound.                                                              *)
EXTENDS NTNSlice, FailoverCases, TLAPS

(***************************************************************************)
(* The engine on every input.                                              *)
(***************************************************************************)
(* Two readings that show the same, as far as live metrics go. *)
SameLive(r, m) ==
  r.missing = m.missing /\ \A metric \in MetricNames \ m.missing : r.value[metric] = m.value[metric]

(* Whatever stands in the field of a metric without a live source, no trigger list tells the two
   readings apart. *)
LEMMA PlaceholderUnread ==
  ASSUME NEW triggers, NEW r, NEW m, NEW margin, SameLive(r, m)
  PROVE  /\ parseTriggerSet(triggers, r) = parseTriggerSet(triggers, m)
         /\ \A t \in parseTriggerSet(triggers, m).parsed : EvaluateRecovery(t, r, margin) = EvaluateRecovery(t, m, margin)
         /\ terrestrialDegraded(triggers, r) = terrestrialDegraded(triggers, m)
         /\ terrestrialConfirmedRecovered(triggers, r, margin) = terrestrialConfirmedRecovered(triggers, m, margin)
<1> DEFINE live(x) == {t \in triggers : ParseTrigger(t) /\ ~metricMissing(t, x)}
<1>1. \A t : metricMissing(t, r) = metricMissing(t, m)
  BY Zenon DEF metricMissing, SameLive
<1>2. ASSUME NEW t, ParseTrigger(t), ~metricMissing(t, m)
      PROVE  Evaluate(t, r) = Evaluate(t, m) /\ EvaluateRecovery(t, r, margin) = EvaluateRecovery(t, m, margin)
  <2>1. r.value[t.metric] = m.value[t.metric]
    BY <1>2, Zenon DEF ParseTrigger, metricMissing, SameLive
  <2>2. QED BY <2>1, Zenon DEF Evaluate, EvaluateRecovery
<1>3. live(r) = live(m) /\ InertTriggers(triggers, r) = InertTriggers(triggers, m)
  BY <1>1, Zenon DEF InertTriggers
<1>4. (\E t \in live(r) : Evaluate(t, r)) = (\E t \in live(m) : Evaluate(t, m))
  BY <1>2, <1>3, Zenon
<1>5. parseTriggerSet(triggers, r) = parseTriggerSet(triggers, m)
  BY <1>3, <1>4, Zenon DEF parseTriggerSet
<1>6. \A t \in parseTriggerSet(triggers, m).parsed : EvaluateRecovery(t, r, margin) = EvaluateRecovery(t, m, margin)
  BY <1>2, Zenon DEF parseTriggerSet
<1>7. terrestrialDegraded(triggers, r) = terrestrialDegraded(triggers, m)
  BY <1>1, <1>2, Zenon DEF terrestrialDegraded
<1>8. terrestrialConfirmedRecovered(triggers, r, margin) = terrestrialConfirmedRecovered(triggers, m, margin)
  BY <1>1, <1>2, Zenon DEF terrestrialConfirmedRecovered
<1>9. QED BY <1>5, <1>6, <1>7, <1>8, Zenon

(* So the whole engine answers the same and leaves the same state, under every policy, at every time
   and from every state. *)
LEMMA PlaceholderUndecided ==
  ASSUME NEW path, NEW p, NEW observedAt, NEW available, NEW now, NEW st, NEW r, NEW m, SameLive(r, m)
  PROVE  EvaluateFailoverWithAntiFlap(path, p, r, observedAt, available, now, st)
           = EvaluateFailoverWithAntiFlap(path, p, m, observedAt, available, now, st)
<1> DEFINE count(x) == CountObservation(p, x, observedAt, now, st)
           raw(x, last) == EvaluateFailoverWithHysteresis(path, p.triggers, x, available, p.delay, last, now,
                                                          p.margin)
           result(x) == IF /\ raw(x, count(x).recovery).decision = "Failover" /\ path = Terrestrial
                           /\ FailoverGated(p, count(x), now)
                        THEN Stay(path) ELSE raw(x, count(x).recovery)
           state(x) == IF HandBack(result(x), path, available)
                       THEN [count(x) EXCEPT !.lastSwitchback = now] ELSE count(x)
<1>1. /\ parseTriggerSet(p.triggers, r) = parseTriggerSet(p.triggers, m)
      /\ \A t \in parseTriggerSet(p.triggers, m).parsed :
           EvaluateRecovery(t, r, p.margin) = EvaluateRecovery(t, m, p.margin)
      /\ terrestrialDegraded(p.triggers, r) = terrestrialDegraded(p.triggers, m)
      /\ terrestrialConfirmedRecovered(p.triggers, r, p.margin)
           = terrestrialConfirmedRecovered(p.triggers, m, p.margin)
  BY PlaceholderUnread, Zenon
<1>2. count(r) = count(m)
  BY <1>1, Zenon DEF CountObservation
<1>3. ASSUME NEW last PROVE raw(r, last) = raw(m, last)
  BY <1>1 DEF EvaluateFailoverWithHysteresis, EvaluateFailoverWithContext
<1>4. ASSUME NEW x
      PROVE  EvaluateFailoverWithAntiFlap(path, p, x, observedAt, available, now, st)
               = [result |-> result(x), state |-> state(x)]
  BY Zenon DEF EvaluateFailoverWithAntiFlap
<1> HIDE DEF count, raw
<1>5. result(r) = result(m) /\ state(r) = state(m)
  BY <1>2, <1>3, Zenon
<1> HIDE DEF result, state
<1>6. QED BY <1>4, <1>5, Zenon

(* A metric without a live source never matters: whatever placeholder stands in its field, the engine
   decides the same and leaves the same anti-flap state, for every trigger list and every reading. *)
THEOREM PlaceholdersNeverMatter == CaseSpec => []PlaceholderNeverMatters
<1>1. ASSUME NEW r \in ReadingsOf(input.reading.missing),
             \A metric \in MetricNames \ input.reading.missing : r.value[metric] = input.reading.value[metric]
      PROVE  SameLive(r, input.reading)
  BY <1>1 DEF ReadingsOf, Reading, SameLive
<1>2. PlaceholderNeverMatters
  BY <1>1, PlaceholderUndecided DEF PlaceholderNeverMatters, Decide
<1>3. QED BY <1>2, PTL

(* Hysteresis only delays: on the same reading a margin never switches back where the plain
   thresholds would have stayed, and never changes any other decision. *)
THEOREM HysteresisDelays == CaseSpec => []HysteresisOnlyDelays
<1>1. HysteresisOnlyDelays
  <2>1. CASE input.path # Satellite \/ input.margin <= 0
    BY <2>1 DEF HysteresisOnlyDelays, EvaluateFailoverWithHysteresis
  <2>2. CASE ~(input.path # Satellite \/ input.margin <= 0)
    BY <2>2 DEF HysteresisOnlyDelays, EvaluateFailoverWithHysteresis, EvaluateFailoverWithContext, Satellite,
      Terrestrial
  <2>3. QED BY <2>1, <2>2, Zenon
<1>2. QED BY <1>1, PTL

(***************************************************************************)
(* Two policies on the same evaluation.                                    *)
(***************************************************************************)
Policies(triggers) == [triggers : {triggers}, margin : Nat, delay : Nat, samples : Nat, dwell : Nat]

(* q asks for at least the margin, the delay, the confirmations and the dwell that p asks for. *)
Stricter(q, p) == p.margin <= q.margin /\ p.delay <= q.delay /\ p.samples <= q.samples /\ p.dwell <= q.dwell

(* A larger margin is harder to clear. *)
LEMMA RecoveryShrinks ==
  ASSUME NEW t, NEW m, t.value \in Int, m.value[t.metric] \in Int, NEW less \in Nat, NEW more \in Nat, less <= more,
         EvaluateRecovery(t, m, more)
  PROVE  EvaluateRecovery(t, m, less)
<1> DEFINE actual == m.value[t.metric]
           floor(margin) == IF t.value - margin < 0 THEN 0 ELSE t.value - margin
<1>1. actual >= t.value + more => actual >= t.value + less
  OBVIOUS
<1>2. actual <= floor(more) => actual <= floor(less)
  OBVIOUS
<1>3. QED BY <1>1, <1>2, Zenon DEF EvaluateRecovery

(* What the satellite path asks of a return, whichever of the two recovery tests the margin selects. *)
MayReturn(triggers, m, margin) ==
  /\ ~parseTriggerSet(triggers, m).allInvalid
  /\ ~terrestrialDegraded(triggers, m) /\ InertTriggers(triggers, m) = {}
  /\ margin > 0 => \A t \in triggers : ParseTrigger(t) /\ ~metricMissing(t, m) => EvaluateRecovery(t, m, margin)

(* On an available satellite the engine returns exactly when that is met and no delay is pending. *)
LEMMA ReturnsWhen ==
  ASSUME NEW triggers, NEW m, NEW delay, NEW last, NEW now, NEW margin \in Nat
  PROVE  EvaluateFailoverWithHysteresis(Satellite, triggers, m, TRUE, delay, last, now, margin)
           = IF MayReturn(triggers, m, margin) /\ ~DelayPending(last, now, delay) THEN SwitchBack ELSE Stay(Satellite)
<1> DEFINE ts == parseTriggerSet(triggers, m)
<1>1. ts.anyTriggered <=> terrestrialDegraded(triggers, m)
  BY Zenon DEF parseTriggerSet, terrestrialDegraded
<1>2. ts.hasUnknownTrigger <=> InertTriggers(triggers, m) # {}
  BY Zenon DEF parseTriggerSet
<1>3. (\E t \in ts.parsed : ~EvaluateRecovery(t, m, margin)) <=>
        ~(\A t \in triggers : ParseTrigger(t) /\ ~metricMissing(t, m) => EvaluateRecovery(t, m, margin))
  BY Zenon DEF parseTriggerSet
<1>4. Satellite # Terrestrial
  BY Zenon DEF Satellite, Terrestrial
<1>5. CASE margin = 0
  <2>1. margin <= 0 /\ ~(margin > 0)
    BY <1>5
  <2>2. EvaluateFailoverWithHysteresis(Satellite, triggers, m, TRUE, delay, last, now, margin)
          = IF ts.allInvalid THEN Stay(Satellite)
            ELSE IF ts.anyTriggered \/ ts.hasUnknownTrigger \/ DelayPending(last, now, delay)
                 THEN Stay(Satellite) ELSE SwitchBack
    BY <1>4, <2>1, Zenon DEF EvaluateFailoverWithHysteresis, EvaluateFailoverWithContext
  <2> HIDE DEF ts
  <2>3. MayReturn(triggers, m, margin) <=> ~ts.allInvalid /\ ~ts.anyTriggered /\ ~ts.hasUnknownTrigger
    BY <1>1, <1>2, <2>1, Zenon DEF MayReturn, ts
  <2>4. QED BY <2>2, <2>3, Zenon
<1>6. CASE margin > 0
  <2>1. ~(margin <= 0)
    BY <1>6
  <2>2. EvaluateFailoverWithHysteresis(Satellite, triggers, m, TRUE, delay, last, now, margin)
          = IF \/ ts.allInvalid \/ ts.anyTriggered \/ ts.hasUnknownTrigger
               \/ \E t \in ts.parsed : ~EvaluateRecovery(t, m, margin)
               \/ DelayPending(last, now, delay)
            THEN Stay(Satellite) ELSE SwitchBack
    BY <2>1, Zenon DEF EvaluateFailoverWithHysteresis
  <2> HIDE DEF ts
  <2>3. MayReturn(triggers, m, margin) <=>
          /\ ~ts.allInvalid /\ ~ts.anyTriggered /\ ~ts.hasUnknownTrigger
          /\ ~\E t \in ts.parsed : ~EvaluateRecovery(t, m, margin)
    BY <1>1, <1>2, <1>3, <1>6, Zenon DEF MayReturn, ts
  <2>4. QED BY <2>2, <2>3, Zenon
<1>7. margin = 0 \/ margin > 0
  OBVIOUS
<1>8. QED BY <1>5, <1>6, <1>7, Zenon

(* A reading that clears the larger margin clears the smaller one, and starts the same recovery clock. *)
LEMMA MayReturnShrinks ==
  ASSUME NEW triggers, NEW m, \A t \in triggers : ParseTrigger(t) => t.value \in Int /\ m.value[t.metric] \in Int,
         NEW less \in Nat, NEW more \in Nat, less <= more, MayReturn(triggers, m, more)
  PROVE  /\ MayReturn(triggers, m, less)
         /\ terrestrialConfirmedRecovered(triggers, m, less) = terrestrialConfirmedRecovered(triggers, m, more)
<1>1. CASE more = 0
  BY <1>1
<1>2. CASE more > 0
  <2>1. ASSUME NEW t \in triggers, ParseTrigger(t)
        PROVE  ~metricMissing(t, m) /\ EvaluateRecovery(t, m, more) /\ EvaluateRecovery(t, m, less)
    <3>1. ~metricMissing(t, m)
      BY <2>1, Zenon DEF MayReturn, InertTriggers
    <3>2. EvaluateRecovery(t, m, more)
      BY <1>2, <2>1, <3>1, Zenon DEF MayReturn
    <3>3. QED BY <2>1, <3>1, <3>2, RecoveryShrinks, Zenon
  <2>2. terrestrialConfirmedRecovered(triggers, m, less) = terrestrialConfirmedRecovered(triggers, m, more)
    BY <2>1, Zenon DEF terrestrialConfirmedRecovered
  <2>3. QED BY <2>1, <2>2, Zenon DEF MayReturn
<1>3. more = 0 \/ more > 0
  OBVIOUS
<1>4. QED BY <1>1, <1>2, <1>3, Zenon

(* A stricter policy only delays: on the same state and reading, at the same time, it decides what the laxer
   one decides or stays on the current path.  More confirmations, a longer dwell, a wider margin or a longer
   delay never cause a switch (EvaluateFailoverWithAntiFlap and the engines under it). *)
THEOREM StricterOnlyDelays ==
  ASSUME NEW triggers, NEW p \in Policies(triggers), NEW q \in Policies(triggers), Stricter(q, p),
         NEW m, \A t \in triggers : ParseTrigger(t) => t.value \in Int /\ m.value[t.metric] \in Int,
         NEW path \in PathType, NEW available \in BOOLEAN, NEW observedAt, NEW now \in Nat,
         NEW st \in [degraded : Nat, recovery : Nat, lastSwitchback : Nat, cursor : Nat]
  PROVE  LET lax    == EvaluateFailoverWithAntiFlap(path, p, m, observedAt, available, now, st).result
             strict == EvaluateFailoverWithAntiFlap(path, q, m, observedAt, available, now, st).result
         IN  strict = lax \/ strict = Stay(path)
<1> DEFINE count(x) == CountObservation(x, m, observedAt, now, st)
           raw(x) == EvaluateFailoverWithHysteresis(path, x.triggers, m, available, x.delay, count(x).recovery, now,
                                                    x.margin)
           result(x) == IF raw(x).decision = "Failover" /\ path = Terrestrial /\ FailoverGated(x, count(x), now)
                        THEN Stay(path) ELSE raw(x)
           answer(x) == EvaluateFailoverWithAntiFlap(path, x, m, observedAt, available, now, st).result
<1>1. answer(p) = result(p) /\ answer(q) = result(q)
  BY Zenon DEF EvaluateFailoverWithAntiFlap
<1>2. /\ p.triggers = triggers /\ q.triggers = triggers
      /\ p.margin \in Nat /\ p.delay \in Nat /\ p.samples \in Nat /\ p.dwell \in Nat
      /\ q.margin \in Nat /\ q.delay \in Nat /\ q.samples \in Nat /\ q.dwell \in Nat
  BY Zenon DEF Policies
<1>3. /\ p.margin <= q.margin /\ p.delay <= q.delay /\ p.samples <= q.samples /\ p.dwell <= q.dwell
  BY Zenon DEF Stricter
<1>4. st.degraded \in Nat /\ st.recovery \in Nat /\ st.lastSwitchback \in Nat
  BY Zenon
<1>5. CASE path # Satellite
  <2>1. raw(q) = raw(p)
    BY <1>2, <1>5, Zenon DEF EvaluateFailoverWithHysteresis, EvaluateFailoverWithContext
  <2>2. /\ count(p).degraded = count(q).degraded /\ count(p).lastSwitchback = st.lastSwitchback
        /\ count(q).lastSwitchback = st.lastSwitchback
    BY <1>2, Zenon DEF CountObservation
  <2>3. count(q).degraded \in Nat
    BY <1>4 DEF CountObservation
  <2>4. FailoverGated(p, count(p), now) => FailoverGated(q, count(q), now)
    <3>1. PICK dp, dq : dp = count(p) /\ dq = count(q)
      BY Zenon
    <3>2. dp.degraded = dq.degraded /\ dp.lastSwitchback = st.lastSwitchback /\ dq.lastSwitchback = st.lastSwitchback
          /\ dq.degraded \in Nat
      BY <2>2, <2>3, <3>1, Zenon
    <3> HIDE DEF count
    <3>3. FailoverGated(p, dp, now) => FailoverGated(q, dq, now)
      BY <1>2, <1>3, <1>4, <3>2 DEF FailoverGated
    <3>4. QED BY <3>1, <3>3, Zenon
  <2>5. result(q) = result(p) \/ result(q) = Stay(path)
    BY <2>1, <2>4, Zenon
  <2>6. QED BY <1>1, <2>5, Zenon
<1>6. CASE path = Satellite /\ ~available
  <2>1. raw(q) = SwitchBack /\ raw(p) = SwitchBack
    BY <1>6, Zenon DEF EvaluateFailoverWithHysteresis, EvaluateFailoverWithContext
  <2>2. path # Terrestrial
    BY <1>6, Zenon DEF Satellite, Terrestrial
  <2>3. QED BY <1>1, <2>1, <2>2, Zenon
<1>7. CASE path = Satellite /\ available
  <2> DEFINE back(x) == MayReturn(triggers, m, x.margin) /\ ~DelayPending(count(x).recovery, now, x.delay)
  <2>1. /\ raw(p) = IF back(p) THEN SwitchBack ELSE Stay(Satellite)
        /\ raw(q) = IF back(q) THEN SwitchBack ELSE Stay(Satellite)
    <3>1. available = TRUE
      BY <1>7, Zenon
    <3>2. ASSUME NEW x, x.triggers = triggers, x.margin \in Nat
          PROVE  raw(x) = IF back(x) THEN SwitchBack ELSE Stay(Satellite)
      <4>1. PICK last : last = count(x).recovery
        BY Zenon
      <4>2. EvaluateFailoverWithHysteresis(Satellite, triggers, m, TRUE, x.delay, last, now, x.margin)
              = IF MayReturn(triggers, m, x.margin) /\ ~DelayPending(last, now, x.delay)
                THEN SwitchBack ELSE Stay(Satellite)
        BY <3>2, ReturnsWhen, Zenon
      <4>3. raw(x) = EvaluateFailoverWithHysteresis(Satellite, triggers, m, TRUE, x.delay, last, now, x.margin)
        BY <1>7, <3>1, <3>2, <4>1, Zenon
      <4>4. QED BY <4>1, <4>2, <4>3, Zenon
    <3>3. QED BY <1>2, <3>2, Zenon
  <2>2. ASSUME back(q) PROVE back(p)
    <3>1. /\ MayReturn(triggers, m, p.margin)
          /\ terrestrialConfirmedRecovered(triggers, m, p.margin) = terrestrialConfirmedRecovered(triggers, m, q.margin)
      <4>1. PICK less \in Nat, more \in Nat : less = p.margin /\ more = q.margin
        BY <1>2, Zenon
      <4>2. less <= more /\ MayReturn(triggers, m, more)
        BY <1>3, <2>2, <4>1, Zenon
      <4>3. /\ MayReturn(triggers, m, less)
            /\ terrestrialConfirmedRecovered(triggers, m, less) = terrestrialConfirmedRecovered(triggers, m, more)
        BY <4>2, MayReturnShrinks, Zenon
      <4>4. QED BY <4>1, <4>3, Zenon
    <3>2. count(p).recovery = count(q).recovery
      BY <1>2, <3>1, Zenon DEF CountObservation
    <3>3. count(q).recovery \in Nat
      BY <1>4 DEF CountObservation
    <3>4. PICK last : last = count(q).recovery
      BY Zenon
    <3> HIDE DEF count
    <3>5. last \in Nat
      BY <3>3, <3>4, Zenon
    <3>6. DelayPending(last, now, p.delay) => DelayPending(last, now, q.delay)
      BY <1>2, <1>3, <3>5 DEF DelayPending
    <3>7. QED BY <2>2, <3>1, <3>2, <3>4, <3>6, Zenon
  <2>3. path # Terrestrial
    BY <1>7, Zenon DEF Satellite, Terrestrial
  <2>4. QED BY <1>1, <1>7, <2>1, <2>2, <2>3, Zenon
<1>8. QED BY <1>5, <1>6, <1>7, Zenon

(***************************************************************************)
(* The engine under the policy of one slice.                               *)
(***************************************************************************)
EngineStates == [degraded : Nat, recovery : Nat, lastSwitchback : Nat, cursor : Nat]
UsedPath == {Terrestrial, Satellite}
Results == [decision : Decision, target : UsedPath]

(* What a return from an available satellite rests on: no trigger fires or is unknown, not all of them
   are unreadable, and with a margin each of them has cleared its threshold by the margin. *)
Cleared(m, margin) ==
  LET ts == parseTriggerSet(Triggers, m) IN
  /\ ~ts.allInvalid /\ ~ts.anyTriggered /\ ~ts.hasUnknownTrigger
  /\ margin > 0 => \A t \in ts.parsed : EvaluateRecovery(t, m, margin)

(* On a path in use the plain engine stays, fails over from terrestrial to an available satellite
   while a trigger fires, or switches back from the satellite; from an available one only when no
   trigger fires or is unknown and the delay has run out. *)
LEMMA ContextResult ==
  ASSUME NEW path \in UsedPath, NEW m, NEW available \in BOOLEAN, NEW delay, NEW last, NEW now
  PROVE  LET r == EvaluateFailoverWithContext(path, Triggers, m, available, delay, last, now) IN
         \/ r = Stay(path)
         \/ r = FailOver /\ path = Terrestrial /\ available /\ terrestrialDegraded(Triggers, m)
         \/ r = SwitchBack /\ path = Satellite /\ (available => Cleared(m, 0) /\ ~DelayPending(last, now, delay))
<1> DEFINE ts == parseTriggerSet(Triggers, m)
<1>1. CASE path = Satellite
  BY <1>1 DEF EvaluateFailoverWithContext, Cleared, Satellite, Terrestrial, Unavailable
<1>2. CASE path = Terrestrial
  <2>1. ts.anyTriggered <=> terrestrialDegraded(Triggers, m)
    BY Zenon DEF parseTriggerSet, terrestrialDegraded
  <2>2. QED
    BY <1>2, <2>1, Zenon DEF EvaluateFailoverWithContext, Satellite, Terrestrial, Unavailable
<1>3. QED BY <1>1, <1>2, Zenon DEF UsedPath

(* The margin only replaces the recovery test: the shape of the answer is the same. *)
LEMMA HysteresisResult ==
  ASSUME NEW path \in UsedPath, NEW m, NEW available \in BOOLEAN, NEW delay, NEW last, NEW now,
         NEW margin \in Int
  PROVE  LET r == EvaluateFailoverWithHysteresis(path, Triggers, m, available, delay, last, now, margin) IN
         \/ r = Stay(path)
         \/ r = FailOver /\ path = Terrestrial /\ available /\ terrestrialDegraded(Triggers, m)
         \/ r = SwitchBack /\ path = Satellite /\ (available => Cleared(m, margin) /\ ~DelayPending(last, now, delay))
<1>1. CASE path # Satellite \/ margin <= 0
  <2>1. path = Satellite /\ Cleared(m, 0) => Cleared(m, margin)
    BY <1>1 DEF Cleared
  <2>2. QED BY <1>1, <2>1, ContextResult DEF EvaluateFailoverWithHysteresis
<1>2. CASE ~(path # Satellite \/ margin <= 0)
  BY <1>2, Zenon DEF EvaluateFailoverWithHysteresis, Cleared
<1>3. QED BY <1>1, <1>2, Zenon

(* What clears the engine's test confirms recovery by the same margin: no live trigger fires, each is
   clear by the margin, and a list of unreadable triggers confirms nothing. *)
LEMMA ClearedConfirms ==
  ASSUME NEW m \in Readings, Cleared(m, Margin)
  PROVE  ~terrestrialDegraded(Triggers, m) /\ terrestrialConfirmedRecovered(Triggers, m, Margin)
<1> DEFINE live == {t \in Triggers : ParseTrigger(t) /\ ~metricMissing(t, m)}
<1>1. /\ ~(live = {} /\ (\E t \in Triggers : ~ParseTrigger(t)))
      /\ ~(\E t \in live : Evaluate(t, m))
      /\ InertTriggers(Triggers, m) = {}
      /\ Margin > 0 => \A t \in live : EvaluateRecovery(t, m, Margin)
  BY Zenon DEF Cleared, parseTriggerSet
<1>2. ~terrestrialDegraded(Triggers, m)
  BY <1>1, Zenon DEF terrestrialDegraded
<1>3. ASSUME NEW t \in Triggers, ParseTrigger(t)
      PROVE  ~metricMissing(t, m) /\ EvaluateRecovery(t, m, Margin)
  <2>1. ~metricMissing(t, m) /\ t \in live /\ ~Evaluate(t, m)
    BY <1>1, <1>3, Zenon DEF InertTriggers
  <2>2. CASE Margin > 0
    BY <1>1, <2>1, <2>2, Zenon
  <2>3. CASE Margin = 0
    <3>1. t.value \in Int /\ m.value[t.metric] \in Int /\ t.op \in Operators
      BY <1>3, NumberAssumption, Zenon DEF ParseTrigger
    <3>2. QED BY <2>1, <2>3, <3>1 DEF Evaluate, EvaluateRecovery, Operators
  <2>4. QED BY <2>1, <2>2, <2>3, PolicyAssumption
<1>4. Triggers # {} => \E t \in Triggers : ParseTrigger(t)
  BY <1>1, Zenon
<1>5. QED BY <1>2, <1>3, <1>4, Zenon DEF terrestrialConfirmedRecovered

(* Counting an observation keeps the shape of the state and never touches the dwell clock. *)
LEMMA CountKeeps ==
  ASSUME NEW m, NEW observedAt \in Nat, NEW now \in Nat, NEW st \in EngineStates
  PROVE  LET c == CountObservation(policy, m, observedAt, now, st) IN
         c \in EngineStates /\ c.lastSwitchback = st.lastSwitchback
<1>1. CASE observedAt # 0 /\ observedAt <= st.cursor
  BY <1>1, Zenon DEF CountObservation
<1>2. CASE ~(observedAt # 0 /\ observedAt <= st.cursor)
  BY <1>2 DEF CountObservation, EngineStates
<1>3. QED BY <1>1, <1>2, Zenon

(***************************************************************************)
(* Whole seconds.                                                          *)
(***************************************************************************)
(* Truncation to a whole second is a natural number no later than the time itself. *)
LEMMA TruncBelow ==
  ASSUME NEW t \in Nat
  PROVE  Trunc(t) \in Nat /\ Trunc(t) <= t
<1>1. t % Second \in 0..(Second - 1) /\ t % Second <= t
  BY BoundAssumption
<1>2. QED BY <1>1, BoundAssumption DEF Trunc

(* A time is its whole seconds and a remainder. *)
LEMMA WholeSeconds ==
  ASSUME NEW t \in Nat
  PROVE  /\ t \div Second \in Nat /\ Second * (t \div Second) \in Nat
         /\ Trunc(t) = Second * (t \div Second)
         /\ Trunc(t) <= t /\ t < Trunc(t) + Second
<1>1. /\ t \div Second \in Nat /\ t % Second \in Nat /\ t % Second < Second
      /\ t = Second * (t \div Second) + (t % Second)
  BY BoundAssumption
<1>2. ASSUME NEW n \in Nat PROVE Second * n \in Nat
  BY BoundAssumption
<1>3. Second * (t \div Second) \in Nat
  BY <1>1, <1>2, Zenon
<1>4. QED
  BY <1>1, <1>3, BoundAssumption DEF Trunc

(* Comparing two multiples of a positive unit compares their factors. *)
LEMMA SecondTimes ==
  ASSUME NEW a \in Nat, NEW b \in Nat, a < b
  PROVE  Second * a + Second <= Second * b
<1>1. PICK d \in Nat : b = a + 1 + d
  <2>1. b - a - 1 \in Nat /\ b = a + 1 + (b - a - 1)
    OBVIOUS
  <2>2. QED BY <2>1, Zenon
<1>2. Second * b = Second * a + Second + Second * d
  BY <1>1, BoundAssumption
<1>3. Second * d >= 0
  BY BoundAssumption
<1>4. QED BY <1>2, <1>3, BoundAssumption

(* Truncation preserves order. *)
LEMMA TruncMonotone ==
  ASSUME NEW s \in Nat, NEW t \in Nat, s <= t
  PROVE  Trunc(s) <= Trunc(t)
<1> DEFINE p == s \div Second
           q == t \div Second
<1>1. /\ p \in Nat /\ Second * p \in Nat /\ Trunc(s) = Second * p /\ Trunc(s) <= s
      /\ q \in Nat /\ Second * q \in Nat /\ Trunc(t) = Second * q /\ t < Trunc(t) + Second
  BY WholeSeconds, Zenon
<1>2. q < p => Second * q + Second <= Second * p
  BY <1>1, SecondTimes, Zenon
<1>3. p < q => Second * p + Second <= Second * q
  BY <1>1, SecondTimes, Zenon
<1> HIDE DEF p, q
<1>4. QED BY <1>1, <1>2, <1>3, BoundAssumption

(* The first second is whole, so no later time truncates to the zero time. *)
LEMMA TruncPositive ==
  ASSUME NEW t \in Nat, t >= Second
  PROVE  Trunc(t) >= Second
<1>1. Trunc(Second) = Second
  BY BoundAssumption DEF Trunc
<1>2. QED BY <1>1, TruncMonotone, BoundAssumption, Zenon

(***************************************************************************)
(* Type correctness.                                                       *)
(***************************************************************************)
(* A read of the metrics source always yields a reading and a time. *)
LEMMA QualityTyped ==
  ASSUME TypeOK, NEW fetch \in Fetches
  PROVE  /\ readPathQuality(fetch).reading \in Readings
         /\ readPathQuality(fetch).observedAt \in Nat
<1>1. AnyReading \in Readings
  BY PolicyAssumption, Zenon DEF AnyReading
<1>2. /\ fetch.kind \in {"new", "same", "failed", "unbuildable"} /\ fetch.reading \in Readings
  BY <1>1, Zenon DEF Fetches
<1>3. /\ sample.reading \in Readings /\ sample.at \in Nat /\ clock \in Nat
      /\ staleCache.reading \in Readings /\ staleCache.observedAt \in Nat
  BY Zenon DEF TypeOK
<1>4. CASE fetch.kind = "new"
  BY <1>2, <1>3, <1>4, Zenon DEF readPathQuality
<1>5. CASE fetch.kind = "same"
  BY <1>3, <1>5, Zenon DEF readPathQuality
<1>6. CASE fetch.kind = "failed" /\ staleCache.uid = cached.uid
  BY <1>3, <1>6, Zenon DEF readPathQuality
<1>7. CASE ~(fetch.kind \in {"new", "same"}) /\ ~(fetch.kind = "failed" /\ staleCache.uid = cached.uid)
  BY <1>1, <1>7, Zenon DEF readPathQuality
<1>8. QED BY <1>4, <1>5, <1>6, <1>7, Zenon

(* What loadFlapState and the seed from status hand to the engine is a well-typed state: the streaks in
   memory and the newer dwell clock. *)
LEMMA SeededTyped ==
  ASSUME TypeOK
  PROVE  /\ loadFlapState(cached) \in Entries /\ Seeded \in Entries /\ Wall \in Nat
         /\ SeededState \in FlapStates /\ SeededState \in EngineStates
<1>1. flapState \in Entries /\ flapState.state \in FlapStates /\ flapState.stamp \in Nat /\ cached \in Objects
      /\ cached.status.lastSwitchback \in Nat
  BY Zenon DEF TypeOK, Entries, Objects, Statuses
<1>2. NoFlapState \in FlapStates
  BY BoundAssumption DEF NoFlapState, FlapStates
<1>z. 0 \in Nat
  OBVIOUS
<1>3. NoEntry \in Entries
  BY <1>2, <1>z, Zenon DEF NoEntry, Entries
<1>4. [NoFlapState EXCEPT !.lastSwitchback = flapState.state.lastSwitchback] \in FlapStates
  BY <1>1, <1>2, Zenon DEF FlapStates
<1>5. loadFlapState(cached) \in Entries
  BY <1>1, <1>3, <1>4, Zenon DEF loadFlapState, Entries, Objects
<1>6. ASSUME NEW entry \in Entries, NEW durable \in Nat
      PROVE  seedLastSwitchbackFromStatus(entry, durable) \in Entries
  <2>1. [entry.state EXCEPT !.lastSwitchback = 0] \in FlapStates
    BY <1>z, Zenon DEF Entries, FlapStates
  <2>2. Adopted(entry, durable) \in Entries
    BY <2>1, Zenon DEF Adopted, Entries
  <2>3. QED BY <2>2, Zenon DEF seedLastSwitchbackFromStatus
<1>7. Seeded \in Entries
  BY <1>1, <1>5, <1>6, Zenon DEF Seeded
<1>8. Wall \in Nat /\ behind \in Nat
  BY BoundAssumption DEF Wall, TypeOK
<1>9. Seeded.state \in FlapStates /\ Seeded.stamp \in Nat
  BY <1>7, Zenon DEF Entries
<1>10. Seeded.stamp + behind \in Nat
  BY <1>8, <1>9
<1>11. SeededState \in FlapStates
  BY <1>9, <1>10, Zenon DEF SeededState, FlapStates
<1>12. SeededState \in EngineStates
  BY <1>11, BoundAssumption DEF FlapStates, EngineStates
<1>13. QED BY <1>5, <1>7, <1>8, <1>11, <1>12, Zenon

(* The seed replaces the dwell clock and nothing else. *)
LEMMA SeedKeepsStreaks ==
  ASSUME TypeOK
  PROVE  /\ SeededState.degraded = loadFlapState(cached).state.degraded
         /\ SeededState.recovery = loadFlapState(cached).state.recovery
         /\ SeededState.cursor = loadFlapState(cached).state.cursor
<1>1. PICK entry \in Entries : entry = loadFlapState(cached)
  BY SeededTyped, Zenon
<1>2. entry.state \in FlapStates
  BY Zenon DEF Entries
<1>3. /\ Seeded.state.degraded = entry.state.degraded /\ Seeded.state.recovery = entry.state.recovery
      /\ Seeded.state.cursor = entry.state.cursor
  BY <1>1, <1>2, Zenon DEF Seeded, seedLastSwitchbackFromStatus, Adopted, FlapStates
<1>4. Seeded.state \in FlapStates
  BY SeededTyped, Zenon DEF Entries
<1>5. /\ SeededState.degraded = Seeded.state.degraded /\ SeededState.recovery = Seeded.state.recovery
      /\ SeededState.cursor = Seeded.state.cursor
  BY <1>4, Zenon DEF SeededState, FlapStates
<1>6. QED BY <1>1, <1>3, <1>5, Zenon

(* An answer stays on the path, leaves the terrestrial path for an available contact, or returns to it. *)
DecidesPath(result, contact) ==
  \/ result.decision = "Stay" /\ result.target = cached.status.path
  \/ /\ result.decision = "Failover" /\ contact = "available"
     /\ cached.status.path = Terrestrial /\ result.target = Satellite
  \/ /\ result.decision = "Switchback"
     /\ cached.status.path = Satellite /\ result.target = Terrestrial

(* What the anti-flap engine answers: a failover has passed both gates and was made on a degraded
   reading under an available satellite; a return from an available satellite has passed the recovery
   test and the delay; the dwell clock moves to now on such a return, and on nothing else. *)
LEMMA AntiFlapResult ==
  ASSUME TypeOK, NEW quality, quality.observedAt \in Nat, NEW contact
  PROVE  LET c == CountObservation(policy, quality.reading, quality.observedAt, clock, SeededState)
             e == Evaluation(quality, contact) IN
         /\ e.result \in Results
         /\ e.state \in EngineStates
         /\ e.state.degraded = c.degraded /\ e.state.recovery = c.recovery /\ e.state.cursor = c.cursor
         /\ DecidesPath(e.result, contact)
         /\ e.result.decision = "Stay" => e.result.target = cached.status.path
         /\ e.result.decision = "Failover" =>
              /\ cached.status.path = Terrestrial /\ e.result.target = Satellite /\ contact = "available"
              /\ terrestrialDegraded(Triggers, quality.reading) /\ ~FailoverGated(policy, c, clock)
              /\ e.state = c
         /\ e.result.decision = "Switchback" => cached.status.path = Satellite /\ e.result.target = Terrestrial
         /\ e.result.decision = "Switchback" /\ contact = "available" =>
              /\ Cleared(quality.reading, Margin) /\ ~DelayPending(c.recovery, clock, SwitchbackDelay)
              /\ e.state.lastSwitchback = clock
         /\ ~(e.result.decision = "Switchback" /\ contact = "available") =>
              e.state.lastSwitchback = SeededState.lastSwitchback
<1> DEFINE path == cached.status.path
           m == quality.reading
           available == contact = "available"
           c == CountObservation(policy, m, quality.observedAt, clock, SeededState)
           raw == EvaluateFailoverWithHysteresis(path, Triggers, m, available, SwitchbackDelay, c.recovery,
                                                 clock, Margin)
           result == IF raw.decision = "Failover" /\ path = Terrestrial /\ FailoverGated(policy, c, clock)
                     THEN Stay(path) ELSE raw
           handBack == result.decision = "Switchback" /\ available /\ path = Satellite
           state == IF handBack THEN [c EXCEPT !.lastSwitchback = clock] ELSE c
           cleared == Cleared(m, Margin) /\ ~DelayPending(c.recovery, clock, SwitchbackDelay)
<1>1. Evaluation(quality, contact) = [result |-> result, state |-> state]
  BY Zenon DEF Evaluation, EvaluateFailoverWithAntiFlap, HandBack, policy
<1>2. path \in UsedPath /\ clock \in Nat /\ SeededState \in EngineStates
  BY SeededTyped, Zenon DEF TypeOK, Objects, Statuses, UsedPath
<1>3. c \in EngineStates /\ c.lastSwitchback = SeededState.lastSwitchback
  BY <1>2, CountKeeps
<1>4. \/ raw = Stay(path)
      \/ raw = FailOver /\ path = Terrestrial /\ available /\ terrestrialDegraded(Triggers, m)
      \/ raw = SwitchBack /\ path = Satellite /\ (available => cleared)
  <2>1. available \in BOOLEAN /\ Margin \in Int
    BY PolicyAssumption
  <2> HIDE DEF available, c, path
  <2>2. QED BY <1>2, <2>1, HysteresisResult
<1> HIDE DEF c, raw, cleared
<1>5. /\ result \in Results
      /\ result.decision = "Stay" => result.target = path
      /\ result.decision = "Failover" =>
           /\ path = Terrestrial /\ result.target = Satellite /\ available
           /\ terrestrialDegraded(Triggers, m) /\ ~FailoverGated(policy, c, clock)
      /\ result.decision = "Switchback" => path = Satellite /\ result.target = Terrestrial
      /\ result.decision = "Switchback" /\ available => cleared
  <2> HIDE DEF path, m
  <2>1. QED
    BY <1>2, <1>4 DEF Stay, FailOver, SwitchBack, Result, Results, Decision, UsedPath, Terrestrial, Satellite
<1>d. DecidesPath(result, contact)
  <2> HIDE DEF result
  <2>1. result.decision \in {"Stay", "Failover", "Switchback"}
    BY <1>5, Zenon DEF Results, Decision
  <2>2. QED BY <1>5, <2>1, Zenon DEF DecidesPath
<1> HIDE DEF result
<1>6. /\ state \in EngineStates
      /\ state.degraded = c.degraded /\ state.recovery = c.recovery /\ state.cursor = c.cursor
      /\ handBack => state.lastSwitchback = clock
      /\ ~handBack => state = c
  BY <1>2, <1>3, Zenon DEF EngineStates
<1>7. QED
  BY <1>1, <1>3, <1>5, <1>d, <1>6 DEF c, cleared

(* A hand-back dates the dwell clock with both readings of now; every other answer leaves the seeded one. *)
IsHandBack(e, contact) == e.result.decision = "Switchback" /\ contact = "available"

(* What an evaluation leaves for memory: the counted streaks, the counter saturated, and the dwell clock. *)
LEMMA EntryLeft ==
  ASSUME TypeOK, NEW quality, quality.observedAt \in Nat, NEW contact
  PROVE  LET e == Evaluation(quality, contact)
             n == EntryOf(e, contact) IN
         /\ n \in Entries /\ n.uid = cached.uid /\ n.generation = cached.generation
         /\ n.state.degraded = IF e.state.degraded > DegradedCap THEN DegradedCap ELSE e.state.degraded
         /\ n.state.recovery = e.state.recovery /\ n.state.cursor = e.state.cursor
         /\ IsHandBack(e, contact) => n.stamp = Wall /\ n.state.lastSwitchback = clock
         /\ ~IsHandBack(e, contact) => n.stamp = Seeded.stamp /\ n.state.lastSwitchback = Seeded.state.lastSwitchback
<1> DEFINE e == Evaluation(quality, contact)
<1>1. /\ e.state \in EngineStates
      /\ IsHandBack(e, contact) => cached.status.path = Satellite /\ e.state.lastSwitchback = clock
  <2>1. e.state \in EngineStates
    BY AntiFlapResult, Zenon
  <2>2. e.result.decision = "Switchback" => cached.status.path = Satellite
    BY AntiFlapResult, Zenon
  <2>3. e.result.decision = "Switchback" /\ contact = "available" => e.state.lastSwitchback = clock
    BY AntiFlapResult
  <2> HIDE DEF e
  <2>4. QED BY <2>1, <2>2, <2>3, Zenon DEF IsHandBack
<1> HIDE DEF e
<1>2. HandBack(e.result, cached.status.path, contact = "available") <=> IsHandBack(e, contact)
  BY <1>1, Zenon DEF HandBack, IsHandBack
<1>3. /\ Seeded.stamp \in Nat /\ Seeded.state.lastSwitchback \in Nat /\ Wall \in Nat /\ clock \in Nat
      /\ cached.uid \in Nat /\ cached.generation \in Nat
  BY SeededTyped, Zenon DEF Entries, FlapStates, TypeOK, Objects
<1>4. PICK last \in Nat : last = IF IsHandBack(e, contact) THEN e.state.lastSwitchback ELSE Seeded.state.lastSwitchback
  BY <1>1, <1>3, Zenon
<1>5. PICK st : st = [e.state EXCEPT !.lastSwitchback = last]
  BY Zenon
<1>6. /\ st \in EngineStates /\ st.degraded = e.state.degraded /\ st.recovery = e.state.recovery
      /\ st.cursor = e.state.cursor /\ st.lastSwitchback = last
  BY <1>1, <1>4, <1>5, Zenon DEF EngineStates
<1>7. /\ Saturated(st) \in FlapStates
      /\ Saturated(st).degraded = IF st.degraded > DegradedCap THEN DegradedCap ELSE st.degraded
      /\ Saturated(st).recovery = st.recovery /\ Saturated(st).cursor = st.cursor
      /\ Saturated(st).lastSwitchback = st.lastSwitchback
  BY <1>6, BoundAssumption DEF Saturated, EngineStates, FlapStates
<1>8. PICK stamp \in Nat : stamp = IF IsHandBack(e, contact) THEN Wall ELSE Seeded.stamp
  BY <1>3, Zenon
<1>9. PICK n : n = EntryOf(e, contact)
  BY Zenon
<1>10. n = [uid |-> cached.uid, generation |-> cached.generation, state |-> Saturated(st), stamp |-> stamp]
  BY <1>2, <1>4, <1>5, <1>8, <1>9, Zenon DEF EntryOf
<1>11. /\ n \in Entries /\ n.uid = cached.uid /\ n.generation = cached.generation
       /\ n.state = Saturated(st) /\ n.stamp = stamp
  BY <1>3, <1>7, <1>10, Zenon DEF Entries
<1>12. /\ n.state.degraded = IF e.state.degraded > DegradedCap THEN DegradedCap ELSE e.state.degraded
       /\ n.state.recovery = e.state.recovery /\ n.state.cursor = e.state.cursor
       /\ n.state.lastSwitchback = last
  BY <1>6, <1>7, <1>11
<1>13. /\ IsHandBack(e, contact) => n.stamp = Wall /\ n.state.lastSwitchback = clock
       /\ ~IsHandBack(e, contact) => n.stamp = Seeded.stamp /\ n.state.lastSwitchback = Seeded.state.lastSwitchback
  BY <1>1, <1>4, <1>8, <1>11, <1>12, Zenon
<1>14. QED BY <1>9, <1>11, <1>12, <1>13, Zenon DEF e

(* What an evaluation decides and leaves is well formed. *)
LEMMA EvaluationTyped ==
  ASSUME TypeOK, NEW fetch \in Fetches, NEW contact \in Contacts
  PROVE  LET e == Evaluation(readPathQuality(fetch), contact) IN
         /\ e.result \in Results /\ e.state \in EngineStates
         /\ StatusOf(e, contact) \in Statuses /\ EntryOf(e, contact) \in Entries
<1> DEFINE e == Evaluation(readPathQuality(fetch), contact)
<1>1. cached.status \in Statuses /\ cached.status.lastSwitchback \in Nat /\ Wall \in Nat
  BY SeededTyped, Zenon DEF TypeOK, Objects, Statuses
<1>2. e.result \in Results /\ e.state \in EngineStates /\ EntryOf(e, contact) \in Entries
  BY QualityTyped, AntiFlapResult, EntryLeft, Zenon
<1> HIDE DEF e
<1>3. EntryOf(e, contact).stamp \in Nat
  BY <1>2, Zenon DEF Entries
<1>z. 0 \in Nat
  OBVIOUS
<1>4. persistLastSwitchbackToStatus(cached.status.lastSwitchback, EntryOf(e, contact).stamp) \in Nat
  BY <1>1, <1>3, <1>z, TruncBelow, Zenon DEF persistLastSwitchbackToStatus
<1>5. StatusOf(e, contact) \in Statuses
  BY <1>1, <1>4, Zenon DEF StatusOf, Statuses
<1>6. QED BY <1>2, <1>5, Zenon DEF e

(* A reconcile that has decided is a well-formed reconcile in flight. *)
LEMMA DecidedTyped ==
  ASSUME TypeOK, NEW result \in Results, NEW status \in Statuses, NEW flap \in Entries,
         NEW contact \in Contacts, NEW kept \in Evidences, Decided(result, status, flap, contact, kept)
  PROVE  work' \in Works
<1>1. ApplyDecision(status, result) \in Statuses
  BY DEF ApplyDecision, Statuses, Results, UsedPath
<1>2. cached \in Objects /\ clock \in Nat /\ Wall \in Nat /\ result.decision \in Decision
  BY SeededTyped, Zenon DEF TypeOK, Results
<1>3. QED
  BY <1>1, <1>2, Zenon DEF Decided, Works

(* What the reader leaves in the source and in its cache is well formed. *)
LEMMA StartsTyped ==
  ASSUME TypeOK, NEW fetch \in Fetches, NEW contact, Starts(fetch, contact)
  PROVE  /\ sample' \in [at : Nat, reading : Readings]
         /\ staleCache' \in [uid : Nat, reading : Readings, freshAt : Nat, observedAt : Nat]
<1>1. AnyReading \in Readings
  BY PolicyAssumption, Zenon DEF AnyReading
<1>2. fetch.reading \in Readings
  BY <1>1, Zenon DEF Fetches
<1>3. SampleAfter(fetch) \in [at : Nat, reading : Readings]
  BY <1>2, Zenon DEF SampleAfter, TypeOK
<1>4. StaleCacheAfter(fetch) \in [uid : Nat, reading : Readings, freshAt : Nat, observedAt : Nat]
  BY <1>3, Zenon DEF StaleCacheAfter, TypeOK, Objects
<1>5. QED BY <1>3, <1>4, Zenon DEF Starts

(* Runs of evaluations stay well formed as they grow, break and change object. *)
LEMMA EvidenceTyped ==
  ASSUME TypeOK, NEW e \in Evidences, NEW reading, NEW observedAt \in Nat
  PROVE  /\ NoEvidenceOf(cached) \in Evidences
         /\ Extended(Current(e, cached), reading, observedAt) \in Evidences
<1>1. NoEvidenceOf(cached) \in Evidences
  BY BoundAssumption DEF NoEvidenceOf, Evidences, TypeOK, Objects
<1> DEFINE c == Current(e, cached)
<1>2. c \in Evidences
  BY <1>1, Zenon DEF Current
<1> HIDE DEF c
<1>3. Extended(c, reading, observedAt) \in Evidences
  BY <1>2, BoundAssumption DEF Extended, Evidences, TypeOK
<1>4. QED BY <1>1, <1>3, Zenon DEF c

(* The state that is no longer in flight after a reconcile ends is well typed. *)
LEMMA RestTyped ==
  /\ NoEntry \in Entries
  /\ NoStale \in [uid : Nat, reading : Readings, freshAt : Nat, observedAt : Nat]
  /\ Idle \in Works
  /\ \A n \in Nat : NewSlice(n) \in Objects
<1>1. AnyReading \in Readings
  BY PolicyAssumption, Zenon DEF AnyReading
<1>2. NoFlapState \in FlapStates
  BY BoundAssumption DEF NoFlapState, FlapStates
<1>3. NoEntry \in Entries
  BY <1>2, Zenon DEF NoEntry, Entries
<1>4. NoStatus \in Statuses
  BY Zenon DEF NoStatus, Statuses
<1>5. \A n \in Nat : NewSlice(n) \in Objects
  BY <1>4, Zenon DEF NewSlice, Objects
<1>6. NoEvidence \in Evidences
  BY BoundAssumption DEF NoEvidence, Evidences
<1>7. Idle \in Works
  BY <1>3, <1>4, <1>5, <1>6, Zenon DEF Idle, Works, Decision, Contacts
<1>8. NoStale \in [uid : Nat, reading : Readings, freshAt : Nat, observedAt : Nat]
  BY <1>1, Zenon DEF NoStale
<1>9. QED BY <1>3, <1>5, <1>7, <1>8, Zenon

(* The operator starts with a well-typed state. *)
LEMMA InitTyped == Init => TypeOK
<1> SUFFICES ASSUME Init PROVE TypeOK
  BY Zenon
<1>1. AnyReading \in Readings
  BY PolicyAssumption, Zenon DEF AnyReading
<1>2. NoEvidence \in Evidences
  BY BoundAssumption DEF NoEvidence, Evidences
<1>3. clock \in Nat /\ behind \in 0..MaxSkew /\ behind < clock
  BY BoundAssumption DEF Init
<1>4. QED
  BY <1>1, <1>2, <1>3, RestTyped, BoundAssumption, Zenon DEF Init, TypeOK

(* The reconcile's decision steps keep the types. *)
LEMMA ReconcileTyped ==
  ASSUME TypeOK, NEW fetch \in Fetches, NEW contact \in Contacts,
         HoldUnknown(fetch, contact) \/ FailStatic(fetch, contact) \/ EvaluateQuality(fetch, contact)
  PROVE  TypeOK'
<1>1. /\ cached \in Objects /\ cached.status \in Statuses /\ cached.status.path \in UsedPath
      /\ flapState \in Entries /\ flapState.state \in FlapStates
      /\ evidence \in Evidences /\ seen \in Evidences
  BY Zenon DEF TypeOK, Objects, Statuses, UsedPath, Entries
<1>2. NoEvidenceOf(cached) \in Evidences
  BY <1>1, EvidenceTyped, Zenon
<1>3. resetRecoveryStreak \in Entries
  <2>1. [degraded |-> 0, recovery |-> 0, lastSwitchback |-> flapState.state.lastSwitchback,
         cursor |-> flapState.state.cursor] \in FlapStates
    BY <1>1, BoundAssumption DEF FlapStates
  <2>2. QED BY <1>1, <2>1, Zenon DEF resetRecoveryStreak, Entries
<1>4. Starts(fetch, contact) =>
        /\ sample' \in [at : Nat, reading : Readings]
        /\ staleCache' \in [uid : Nat, reading : Readings, freshAt : Nat, observedAt : Nat]
        /\ UNCHANGED <<clock, behind, slice, cached, settled, handback>>
  BY StartsTyped, Zenon DEF Starts
<1>5. NoEntry \in Entries
  BY RestTyped, Zenon
<1>6. ASSUME Starts(fetch, contact), Gap(cached),
             NEW result \in Results, Decided(result, cached.status, NoEntry, contact, evidence')
      PROVE  TypeOK'
  <2>1. flapState' \in Entries /\ evidence' \in Evidences /\ seen' \in Evidences
    BY <1>1, <1>2, <1>3, <1>6, Zenon DEF Gap
  <2>2. work' \in Works
    BY <1>1, <1>5, <1>6, <2>1, DecidedTyped, Zenon
  <2>3. QED BY <1>4, <1>6, <2>1, <2>2, Zenon DEF TypeOK
<1>7. CASE HoldUnknown(fetch, contact)
  <2>1. Stay(cached.status.path) \in Results
    BY <1>1, Zenon DEF Stay, Result, Results, Decision
  <2>2. QED BY <1>6, <1>7, <2>1, Zenon DEF HoldUnknown
<1>8. CASE FailStatic(fetch, contact)
  <2>1. EvaluateSafeHold(cached.status.path, contact = "available") \in Results
    BY <1>1, Zenon DEF EvaluateSafeHold, SwitchBack, Stay, Result, Results, Decision, UsedPath
  <2>2. QED BY <1>6, <1>8, <2>1, Zenon DEF FailStatic
<1>9. CASE EvaluateQuality(fetch, contact)
  <2> DEFINE quality == readPathQuality(fetch)
             e == Evaluation(quality, contact)
             kept == Extended(Current(evidence, cached), quality.reading, quality.observedAt)
             all == Extended(Current(seen, cached), quality.reading, quality.observedAt)
  <2>1. e.result \in Results /\ StatusOf(e, contact) \in Statuses /\ EntryOf(e, contact) \in Entries
    BY EvaluationTyped, Zenon
  <2>2. quality.observedAt \in Nat
    BY QualityTyped, Zenon
  <2>3. kept \in Evidences /\ all \in Evidences
    BY <1>1, <2>2, EvidenceTyped, Zenon
  <2>4. /\ Starts(fetch, contact) /\ Decided(e.result, StatusOf(e, contact), EntryOf(e, contact), contact, kept)
        /\ flapState' = loadFlapState(cached) /\ evidence' = evidence
        /\ seen' = IF TrackSeen THEN all ELSE seen
    BY <1>9, Zenon DEF EvaluateQuality
  <2> HIDE DEF quality, e, kept, all
  <2>5. work' \in Works
    BY <2>1, <2>3, <2>4, DecidedTyped, Zenon
  <2>6. flapState' \in Entries
    BY <2>4, SeededTyped, Zenon
  <2>7. evidence' \in Evidences /\ seen' \in Evidences
    BY <1>1, <2>3, <2>4, Zenon
  <2>8. QED BY <1>4, <2>4, <2>5, <2>6, <2>7, Zenon DEF TypeOK
<1>10. QED BY <1>7, <1>8, <1>9, Zenon

(* Every step keeps the types. *)
LEMMA NextTyped == TypeOK /\ [Next]_vars => TypeOK'
<1> SUFFICES ASSUME TypeOK, [Next]_vars PROVE TypeOK'
  BY Zenon
<1>1. CASE Tick
  BY <1>1 DEF Tick, TypeOK, history
<1>2. CASE InformerSync
  BY <1>2, Zenon DEF InformerSync, TypeOK, history
<1>3. CASE EditSpec \/ Delete \/ ForceDelete
  <2>1. slice' \in Objects
    BY <1>3 DEF EditSpec, Delete, ForceDelete, TypeOK, Objects
  <2>2. QED BY <1>3, <2>1, Zenon DEF EditSpec, Delete, ForceDelete, TypeOK, history
<1>4. CASE Recreate
  <2>1. slice' \in Objects
    BY <1>4, RestTyped DEF Recreate, TypeOK, Objects
  <2>2. QED BY <1>4, <2>1, Zenon DEF Recreate, TypeOK
<1>5. CASE \E how \in {"degraded", "set"} : Settle(how)
  BY <1>5, Zenon DEF Settle, TypeOK, history
<1>s. CASE \E skew \in 1..MaxSkew : StepBack(skew)
  BY <1>s, BoundAssumption DEF StepBack, Wall, TypeOK, history
<1>6. CASE \E skew \in 0..MaxSkew : Handoff(skew)
  <2>1. clock' \in Nat /\ behind' \in 0..MaxSkew /\ behind' < clock'
    BY <1>6, BoundAssumption DEF Handoff, Wall, TypeOK
  <2>2. QED BY <1>6, <2>1, RestTyped, Zenon DEF Handoff, TypeOK, history
<1>7. CASE Reconcile
  <2>1. CASE ReconcileGone
    BY <2>1, RestTyped, Zenon DEF ReconcileGone, TypeOK, history
  <2>2. CASE ReconcileDeleted
    <3>1. slice' \in Objects
      BY <2>2, Zenon DEF ReconcileDeleted, TypeOK, Objects
    <3>2. QED BY <2>2, <3>1, RestTyped, Zenon DEF ReconcileDeleted, TypeOK, history
  <2>3. QED BY <1>7, <2>1, <2>2, ReconcileTyped, Zenon DEF Reconcile
<1>8. ASSUME Accept PROVE slice' \in Objects /\ handback' \in Nat
  BY <1>8, Zenon DEF Accept, TypeOK, Objects, Works
<1>9. work.stage = "write" => [work EXCEPT !.stage = "commit"] \in Works
  BY Zenon DEF TypeOK, Works
<1>10. CASE WriteStatus
  BY <1>8, <1>9, <1>10, Zenon DEF WriteStatus, TypeOK
<1>11. CASE SkipWrite
  BY <1>9, <1>11, Zenon DEF SkipWrite, TypeOK, history
<1>12. CASE WriteFails
  BY <1>12, RestTyped, Zenon DEF WriteFails, TypeOK, history
<1>13. CASE WriteReplyLost
  BY <1>8, <1>13, RestTyped, Zenon DEF WriteReplyLost, TypeOK
<1>14. CASE Commit
  <2>1. work.flap \in Entries /\ work.evidence \in Evidences
    BY Zenon DEF TypeOK, Works
  <2>2. QED BY <1>14, <2>1, RestTyped, Zenon DEF Commit, TypeOK
<1>15. CASE UNCHANGED vars
  BY <1>15, Zenon DEF vars, TypeOK
<1>16. QED
  BY <1>1, <1>2, <1>3, <1>4, <1>5, <1>s, <1>6, <1>7, <1>10, <1>11, <1>12, <1>13, <1>14, <1>15, Zenon
    DEF Next

(* Every reachable state of the reconciler is well typed, for every policy, every set of readings and
   every bound: in particular the active path never becomes "unavailable". *)
THEOREM TypeCorrect == Spec => []TypeOK
  BY InitTyped, NextTyped, PTL DEF Spec
=============================================================================
