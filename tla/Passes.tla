------------------------------- MODULE Passes --------------------------------
(***************************************************************************)
(* Pass prediction as operators: from the sky over the stations to the     *)
(* windows of a status, and from those to the contact of a slice.  A pass  *)
(* is [sat, station, aos, los]; `Second` ticks make the whole second to    *)
(* which a stored time is rounded.  The sky itself (SGP4) is an input.     *)
(***************************************************************************)
EXTENDS Integers, FiniteSets

CONSTANTS
  Label,            \* the bounded name of each satellite: not always unique
  Second,           \* ticks in a second
  DefaultHorizon, MaxHorizon,
  MaxPassWindows,   \* how many windows a status may hold
  MaxEpochAge       \* age beyond which an element set is not delivered

ASSUME PassesAssumption ==
  /\ Second \in Nat \ {0} /\ DefaultHorizon \in Nat /\ MaxHorizon \in Nat
  /\ MaxPassWindows \in Nat \ {0} /\ MaxEpochAge \in Nat

(***************************************************************************)
(* The producer.                                                           *)
(***************************************************************************)
ValidHorizon(raw) == raw >= 0
effectivePassHorizon(raw) == CASE raw = 0 -> DefaultHorizon [] raw > MaxHorizon -> MaxHorizon [] OTHER -> raw

ceilToSecond(t) == ((t + Second - 1) \div Second) * Second
floorToSecond(t) == (t \div Second) * Second

(* Fault: both ends are truncated, as a serialised time would be. *)
TruncatedWindow(pass) == [pass EXCEPT !.aos = floorToSecond(@), !.los = floorToSecond(@)]
conservativePassWindow(pass) == [pass EXCEPT !.aos = ceilToSecond(@), !.los = floorToSecond(@)]

(* GeneratePasses looks from the start of the sweep to its end: a pass under way then is cut there. *)
Clipped(pass, start, stop) ==
  [sat |-> pass.sat, station |-> pass.station, aos |-> IF pass.aos < start THEN start ELSE pass.aos,
   los |-> IF pass.los > stop THEN stop ELSE pass.los]

(* predictSingle for every work item: the passes of the horizon, rounded inwards; one that collapses goes. *)
Predicted(sky, start, horizon) ==
  LET stop == start + horizon
  IN  {pass \in {conservativePassWindow(Clipped(p, start, stop)) : p \in {q \in sky : q.los > start /\ q.aos < stop}} :
         pass.aos < pass.los}

lessPass(p, q) ==
  \/ p.aos < q.aos
  \/ p.aos = q.aos /\ Label[p.sat] < Label[q.sat]
  \/ p.aos = q.aos /\ Label[p.sat] = Label[q.sat] /\ p.station < q.station
  \/ p.aos = q.aos /\ Label[p.sat] = Label[q.sat] /\ p.station = q.station /\ p.los < q.los
Before(p, passes) == {q \in passes : lessPass(q, p)}
Earliest(passes, n) == {p \in passes : Cardinality(Before(p, passes)) < n}

(* Fault: the earliest passes are kept, whatever their satellite. *)
CapOverall(passes, limit) == Earliest(passes, limit)
capPerSatellite(passes, limit) ==
  LET names == {Label[p.sat] : p \in passes}
      share == limit \div Cardinality(names)
      quota == IF share > 1 THEN share ELSE 1
      kept  == Earliest({p \in passes : Cardinality({q \in Before(p, passes) : Label[q.sat] = Label[p.sat]}) < quota}, limit)
  IN  IF Cardinality(passes) <= limit THEN passes
      ELSE kept \cup Earliest(passes \ kept, limit - Cardinality(kept))

PredictPasses(sky, start, horizon) == capPerSatellite(Predicted(sky, start, horizon), MaxPassWindows)

(***************************************************************************)
(* The consumer: checkSatelliteAvailability of a slice.                    *)
(***************************************************************************)
sourceEpochFresh(now, epoch) == now - epoch <= MaxEpochAge

(* Fault: the window still counts at its end. *)
ActiveThroughLOS(pass, now) == pass.aos <= now /\ now <= pass.los
Active(pass, now) == pass.aos <= now /\ now < pass.los

earlierLOSCandidate(p, q) ==
  \/ p.los < q.los
  \/ p.los = q.los /\ p.sat < q.sat
  \/ p.los = q.los /\ p.sat = q.sat /\ p.station < q.station

NoPass == [sat |-> 0, station |-> 0, aos |-> 0, los |-> 0]
Unknown(reason) == [known |-> FALSE, available |-> FALSE, reason |-> reason, pass |-> NoPass, validUntil |-> 0]
Unavailable(reason) == [Unknown(reason) EXCEPT !.known = TRUE]

(* The contact that a status shows at a time; epoch gives the source epoch of each propagated state. *)
Stale(sat, epoch, now) == sat \in DOMAIN epoch /\ ~sourceEpochFresh(now, epoch[sat])
checkSatelliteAvailability(predicted, windows, epoch, now) ==
  LET active == {p \in windows : Active(p, now)}
      usable == {p \in active : ~Stale(p.sat, epoch, now)}
      best   == CHOOSE p \in usable : \A q \in usable : ~earlierLOSCandidate(q, p)
      expiry == IF best.sat \in DOMAIN epoch THEN epoch[best.sat] + MaxEpochAge ELSE best.los
  IN  CASE predicted # "True" -> Unknown("PredictionUnavailable")
        [] predicted = "True" /\ usable # {} ->
             [known |-> TRUE, available |-> TRUE, reason |-> "ConstellationMemberAvailable", pass |-> best,
              validUntil |-> IF expiry < best.los THEN expiry ELSE best.los]
        [] predicted = "True" /\ usable = {} /\ active # {} -> Unavailable("AllCandidatesStale")
        [] OTHER -> Unavailable("NoActiveContact")
=============================================================================
