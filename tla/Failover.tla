------------------------------ MODULE Failover ------------------------------
(***************************************************************************)
(* The failover decision engine of pkg/slice/failover.go, as operators.    *)
(*                                                                         *)
(* A time is a natural number of clock ticks and 0 is Go's zero time.      *)
(* A trigger expression is a record [metric, op, value]; an expression     *)
(* that does not parse has an op outside Operators.  A reading of the      *)
(* terrestrial link is a record [value, missing]: the number each metric   *)
(* was read at and the set of metrics that have no live source.            *)
(***************************************************************************)
EXTENDS Integers

Terrestrial == "terrestrial"
Satellite   == "satellite"
Unavailable == "unavailable"
PathType    == {Terrestrial, Satellite, Unavailable}

Operators == {"<", ">", "<=", ">="}
MetricNames == {"rsrp", "latency", "packetLoss"}

(* A trigger string either parses to a trigger over a known metric or is an error. *)
ParseTrigger(t) == t.op \in Operators /\ t.metric \in MetricNames

metricMissing(t, m) == t.metric \in m.missing

Evaluate(t, m) ==
  LET actual == m.value[t.metric] IN
  \/ t.op = "<"  /\ actual < t.value
  \/ t.op = ">"  /\ actual > t.value
  \/ t.op = "<=" /\ actual <= t.value
  \/ t.op = ">=" /\ actual >= t.value

EvaluateRecovery(t, m, margin) ==
  LET actual    == m.value[t.metric]
      threshold == IF t.value - margin < 0 THEN 0 ELSE t.value - margin
  IN  \/ t.op \in {"<", "<="} /\ actual >= t.value + margin
      \/ t.op \in {">", ">="} /\ actual <= threshold

InertTriggers(triggers, m) == {t \in triggers : ParseTrigger(t) /\ metricMissing(t, m)}

(* What one pass over the trigger list establishes; the list is a disjunction, so its order is immaterial. *)
parseTriggerSet(triggers, m) ==
  LET parsed == {t \in triggers : ParseTrigger(t) /\ ~metricMissing(t, m)} IN
  [ parsed            |-> parsed,
    anyTriggered      |-> \E t \in parsed : Evaluate(t, m),
    allInvalid        |-> parsed = {} /\ (\E t \in triggers : ~ParseTrigger(t)),
    hasUnknownTrigger |-> InertTriggers(triggers, m) # {} ]

Decision == {"Stay", "Failover", "Switchback"}
Result(decision, target) == [decision |-> decision, target |-> target]
Stay(path)  == Result("Stay", path)
FailOver    == Result("Failover", Satellite)
SwitchBack  == Result("Switchback", Terrestrial)

(* The switchback delay is still running: measured from last, unless last is the zero time. *)
DelayPending(last, now, delay) == last # 0 /\ now - last < delay

EvaluateFailoverWithContext(path, triggers, m, available, delay, last, now) ==
  LET ts == parseTriggerSet(triggers, m) IN
  IF path = Satellite /\ ~available THEN SwitchBack
  ELSE IF ts.allInvalid THEN Stay(path)
  ELSE CASE path = Terrestrial ->
              IF ts.anyTriggered /\ available THEN FailOver ELSE Stay(Terrestrial)
         [] path = Satellite ->
              IF ts.anyTriggered \/ ts.hasUnknownTrigger \/ DelayPending(last, now, delay)
              THEN Stay(Satellite) ELSE SwitchBack
         [] OTHER ->
              IF available /\ (ts.anyTriggered \/ ts.hasUnknownTrigger) THEN FailOver
              ELSE IF ts.anyTriggered THEN Stay(Unavailable) ELSE SwitchBack

(* Fault: a set satellite leaves the slice on no path at all. *)
SetSatelliteLeavesNoPath(path, triggers, m, available, delay, last, now, margin) ==
  IF path = Satellite /\ ~available THEN Result("Switchback", Unavailable)
  ELSE EvaluateFailoverWithContext(path, triggers, m, available, delay, last, now)

(* Fault: the margin's own recovery test forgets the switchback delay. *)
MarginSkipsDelay(path, triggers, m, available, delay, last, now, margin) ==
  EvaluateFailoverWithContext(path, triggers, m, available, IF margin > 0 THEN 0 ELSE delay, last, now)

(* On the satellite, a positive margin asks every live trigger to clear its threshold by the margin. *)
EvaluateFailoverWithHysteresis(path, triggers, m, available, delay, last, now, margin) ==
  LET ts == parseTriggerSet(triggers, m) IN
  IF path # Satellite \/ margin <= 0
  THEN EvaluateFailoverWithContext(path, triggers, m, available, delay, last, now)
  ELSE IF ~available THEN SwitchBack
  ELSE IF \/ ts.allInvalid
          \/ ts.anyTriggered
          \/ ts.hasUnknownTrigger
          \/ \E t \in ts.parsed : ~EvaluateRecovery(t, m, margin)
          \/ DelayPending(last, now, delay)
       THEN Stay(Satellite) ELSE SwitchBack

(***************************************************************************)
(* The anti-flap gates.  A policy is the record of the FailoverPolicy      *)
(* fields: [triggers, margin, delay, samples, dwell].                      *)
(***************************************************************************)
NoFlapState == [degraded |-> 0, recovery |-> 0, lastSwitchback |-> 0, cursor |-> 0]

(* Fault: the placeholder of a metric without a live source is compared with the threshold. *)
DegradedByPlaceholder(triggers, m) == \E t \in triggers : ParseTrigger(t) /\ Evaluate(t, m)

terrestrialDegraded(triggers, m) ==
  \E t \in triggers : ParseTrigger(t) /\ ~metricMissing(t, m) /\ Evaluate(t, m)

terrestrialConfirmedRecovered(triggers, m, margin) ==
  /\ \A t \in triggers : ParseTrigger(t) => ~metricMissing(t, m) /\ EvaluateRecovery(t, m, margin)
  /\ triggers # {} => \E t \in triggers : ParseTrigger(t)

(* Fault: a replayed sample is counted again. *)
CountReplays(policy, m, observedAt, now, st) ==
  LET degraded == terrestrialDegraded(policy.triggers, m) IN
  [st EXCEPT !.degraded = IF degraded THEN @ + 1 ELSE 0, !.cursor = observedAt]

(* Step 1: only an observation newer than the cursor, or one without a timestamp, moves the clocks. *)
CountObservation(policy, m, observedAt, now, st) ==
  LET degraded  == terrestrialDegraded(policy.triggers, m)
      recovered == ~degraded /\ terrestrialConfirmedRecovered(policy.triggers, m, policy.margin)
  IN  IF observedAt # 0 /\ observedAt <= st.cursor THEN st
      ELSE [ degraded       |-> IF degraded THEN st.degraded + 1 ELSE 0,
             recovery       |-> IF ~recovered THEN 0 ELSE IF st.recovery = 0 THEN now ELSE st.recovery,
             lastSwitchback |-> st.lastSwitchback,
             cursor         |-> observedAt ]

(* Fault: the dwell never runs out. *)
DwellNeverEnds(policy, st, now) ==
  \/ policy.samples > 1 /\ st.degraded < policy.samples
  \/ policy.dwell > 0 /\ st.lastSwitchback # 0

(* Step 3: a failover off terrestrial waits for N confirmations, then for the dwell. *)
FailoverGated(policy, st, now) ==
  \/ policy.samples > 1 /\ st.degraded < policy.samples
  \/ policy.dwell > 0 /\ st.lastSwitchback # 0 /\ now - st.lastSwitchback < policy.dwell

(* Fault: a pass that ended starts the dwell as well. *)
EveryReturn(result, path, available) == result.decision = "Switchback" /\ path = Satellite

(* Step 4: only a return from an available satellite starts the dwell. *)
HandBack(result, path, available) == result.decision = "Switchback" /\ available /\ path = Satellite

EvaluateFailoverWithAntiFlap(path, policy, m, observedAt, available, now, st) ==
  LET counted == CountObservation(policy, m, observedAt, now, st)
      raw     == EvaluateFailoverWithHysteresis(path, policy.triggers, m, available,
                                                policy.delay, counted.recovery, now, policy.margin)
      result  == IF raw.decision = "Failover" /\ path = Terrestrial /\ FailoverGated(policy, counted, now)
                 THEN Stay(path) ELSE raw
  IN  [ result |-> result,
        state  |-> IF HandBack(result, path, available) THEN [counted EXCEPT !.lastSwitchback = now] ELSE counted ]

(* Fault: unreliable metrics hold the slice even on a satellite that has set. *)
HoldAlways(path, available) == Stay(path)

(* Unreliable metrics fail static: only an ended pass still moves the path. *)
EvaluateSafeHold(path, available) ==
  IF path = Satellite /\ ~available THEN SwitchBack ELSE Stay(path)
=============================================================================
