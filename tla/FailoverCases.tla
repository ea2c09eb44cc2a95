--------------------------- MODULE FailoverCases ----------------------------
(* The engine of Failover on every combination of small inputs: one state per *)
(* combination of path, trigger list, reading, contact, margin and anti-flap  *)
(* state.                                                                     *)
EXTENDS Failover

CONSTANTS TriggerPool, RsrpValues, LatencyValues, Margins, Times   \* small sets of each input

VARIABLE input

Reading(rsrp, latency, missing) ==
  [value |-> [rsrp |-> rsrp, latency |-> latency, packetLoss |-> 0], missing |-> missing]
ReadingsOf(missing) == {Reading(rsrp, latency, missing) : rsrp \in RsrpValues, latency \in LatencyValues}

CasePolicy(i) == [triggers |-> i.triggers, margin |-> i.margin, delay |-> 1, samples |-> 2, dwell |-> 1]

Inputs ==
  [path : PathType, triggers : SUBSET TriggerPool,
   reading : UNION {ReadingsOf(missing) : missing \in SUBSET {"rsrp", "latency"}},
   available : BOOLEAN, margin : Margins, recovery : Times, degraded : 0..2]

CaseInit == input \in Inputs
CaseNext == UNCHANGED input
CaseSpec == CaseInit /\ [][CaseNext]_input

Decide(i, reading) ==
  EvaluateFailoverWithAntiFlap(i.path, CasePolicy(i), reading, 0, i.available, 2,
    [degraded |-> i.degraded, recovery |-> i.recovery, lastSwitchback |-> 0, cursor |-> 0])

(* A metric without a live source never matters: whatever placeholder stands in its field, the
   decision and the anti-flap state that follow are the same. *)
PlaceholderNeverMatters ==
  \A r \in ReadingsOf(input.reading.missing) :
    (\A metric \in MetricNames \ input.reading.missing : r.value[metric] = input.reading.value[metric]) =>
      Decide(input, r) = Decide(input, input.reading)

(* Hysteresis only delays: on the same reading, a margin never switches back where the plain
   thresholds would have stayed, and never changes any other decision. *)
HysteresisOnlyDelays ==
  LET with    == EvaluateFailoverWithHysteresis(input.path, input.triggers, input.reading, input.available,
                                                1, input.recovery, 2, input.margin)
      without == EvaluateFailoverWithHysteresis(input.path, input.triggers, input.reading, input.available,
                                                1, input.recovery, 2, 0)
  IN  with # without => with = Stay(Satellite) /\ without = SwitchBack
=============================================================================
