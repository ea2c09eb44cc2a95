----------------------------- MODULE MCNTNSlice -----------------------------
(* Small instances of NTNSlice: one trigger "rsrp < 2" with a margin of 1, so *)
(* that a reading of 1 is degraded, 2 is in the dead-band and 3 is recovered. *)
EXTENDS NTNSlicePolicy

Rsrp(v) == [value |-> [metric \in MetricNames |-> v], missing |-> {}]
MCTriggers == {[metric |-> "rsrp", op |-> "<", value |-> 2]}
MCReadings == {Rsrp(1), Rsrp(2), Rsrp(3)}
MCTwoReadings == {Rsrp(1), Rsrp(3)}
=============================================================================
