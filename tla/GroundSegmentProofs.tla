------------------------ MODULE GroundSegmentProofs -------------------------
(***************************************************************************)
(* Theorems about the ground segment: the firmware updates of a ground     *)
(* station (GroundStation), for every set of specs and versions, every     *)
(* timeout and every bound; and what PassesPredicted=True vouches for      *)
(* (PassPrediction) and what the cap of the windows keeps, for any         *)
(* stations, places, specs, skies and number of edits while a sweep runs.  *)
(***************************************************************************)
EXTENDS GroundStation, PassPrediction, WellFoundedInduction, FiniteSetTheorems, TLAPS

(***************************************************************************)
(* Firmware updates.                                                       *)
(***************************************************************************)
IsUpdating(st) == st.phase = "Updating"

(* The spec asks for updates, and lets one begin at time now. *)
Opens(spec, now) ==
  /\ spec.firmware = "auto"
  /\ spec.window.set => spec.window.start # spec.window.end /\ IsWithinMaintenanceWindow(spec.window, now)

(* What an evaluation at time now may make of the status st: an update that goes on keeps its start and,
   if the spec has firmware, is within the timeout; one that begins is let in by the spec and dated now. *)
UpdateStep(st, spec, result, now) ==
  /\ result.started \in Nat
  /\ IsUpdating(result) =>
       /\ IsUpdating(st) => result.started = st.started
       /\ ~IsUpdating(st) => Opens(spec, now) /\ result.started = now
       /\ IsUpdating(st) /\ spec.firmware # "none" /\ st.started # 0 => now - st.started <= Timeout

(* The inductive invariant.  Beside the two properties it says what the reconcile in flight will store,
   and that a station that is updating has a firmware spec unless users may take it away. *)
UpdateInv ==
  /\ time \in Nat \ {0} /\ began \in Nat
  /\ DOMAIN station = {"generation", "spec", "status"}
  /\ station.status.started \in Nat /\ station.spec \in Specs
  /\ StartedIsThisUpdate
  /\ ~RemovedWhileUpdating /\ IsUpdating(station.status) => station.spec.firmware # "none"
  /\ check.stage = "write" =>
       /\ check.now \in Nat \ {0}
       /\ UpdateStep(station.status, station.spec, check.status, check.now)

(* reconcileHealth starts no update, turns one it ends into Offline, and leaves the start time alone. *)
LEMMA HealthKeepsUpdate ==
  ASSUME NEW st, NEW spec, NEW node, NEW probe
  PROVE  /\ reconcileHealth(st, spec, node, probe).started = st.started
         /\ IsUpdating(reconcileHealth(st, spec, node, probe)) => IsUpdating(st) /\ node.lookup \notin {"error", "none"}
         /\ IsUpdating(st) => reconcileHealth(st, spec, node, probe).phase \in {"Updating", "Offline"}
<1> DEFINE result == reconcileHealth(st, spec, node, probe)
<1>1. CASE node.lookup \in {"error", "none"}
  BY <1>1, Zenon DEF reconcileHealth, Health, IsUpdating
<1>2. CASE node.lookup \notin {"error", "none"}
  BY <1>2, Zenon DEF reconcileHealth, HealthOfNode, NodePhase, Health, IsUpdating
<1> QED BY <1>1, <1>2, Zenon

(* reconcileFirmware treats an update as UpdateStep says, and begins none while the station is Offline. *)
LEMMA FirmwareStep ==
  ASSUME NEW st, st.started \in Nat, NEW spec, NEW node, NEW now \in Nat,
         IsUpdating(st) => node.lookup # "none"
  PROVE  /\ UpdateStep(st, spec, reconcileFirmware(st, spec, node, now), now)
         /\ st.phase = "Offline" => ~IsUpdating(reconcileFirmware(st, spec, node, now))
<1> DEFINE result == reconcileFirmware(st, spec, node, now)
<1>1. CASE spec.firmware = "none" \/ node.lookup = "none"
  <2>1. result.phase = st.phase /\ result.started = st.started
    BY <1>1, Zenon DEF reconcileFirmware, Firmware
  <2> QED BY <1>1, <2>1, Zenon DEF UpdateStep, IsUpdating
<1>2. CASE spec.firmware # "none" /\ node.lookup # "none" /\ st.phase = "Updating"
  <2>1. result = ContinueUpdate(st, node, now)
    BY <1>2, Zenon DEF reconcileFirmware
  <2>2. result.started \in {0, st.started}
    BY <2>1 DEF ContinueUpdate, Firmware
  <2>3. IsUpdating(result) => result.started = st.started /\ ~(st.started # 0 /\ now - st.started > Timeout)
    BY <2>1 DEF ContinueUpdate, Firmware, IsUpdating
  <2> QED BY <1>2, <2>2, <2>3, StationAssumption DEF UpdateStep, IsUpdating
<1>3. CASE spec.firmware # "none" /\ node.lookup # "none" /\ st.phase # "Updating"
  <2>1. result = StartUpdate(st, spec, node, now)
    BY <1>3, Zenon DEF reconcileFirmware
  <2>2. \/ result.phase = "Updating" /\ result.started = now /\ st.phase # "Offline" /\ Opens(spec, now)
        \/ result.phase = st.phase /\ result.started = st.started
    BY <2>1 DEF StartUpdate, Firmware, Opens
  <2> QED BY <1>3, <2>2, Zenon DEF UpdateStep, IsUpdating
<1> QED BY <1>1, <1>2, <1>3, Zenon

(* The whole evaluation treats an update as UpdateStep says. *)
LEMMA EvaluationStep ==
  ASSUME station.status.started \in Nat, time \in Nat, NEW node \in Nodes, NEW probe
  PROVE  UpdateStep(station.status, station.spec, Evaluated(node, probe), time)
<1> DEFINE health == reconcileHealth(station.status, station.spec, node, probe)
<1>1. /\ health.started = station.status.started
      /\ IsUpdating(health) => IsUpdating(station.status) /\ node.lookup \notin {"error", "none"}
      /\ IsUpdating(station.status) => health.phase \in {"Updating", "Offline"}
  BY HealthKeepsUpdate, Zenon
<1>2. CASE node.lookup = "error"
  BY <1>1, <1>2, Zenon DEF Evaluated, UpdateStep
<1>3. CASE node.lookup # "error"
  <2>1. Evaluated(node, probe) = reconcileFirmware(health, station.spec, node, time)
    BY <1>3, Zenon DEF Evaluated
  <2>2. /\ UpdateStep(health, station.spec, Evaluated(node, probe), time)
        /\ health.phase = "Offline" => ~IsUpdating(Evaluated(node, probe))
    BY <1>1, <2>1, FirmwareStep, Zenon
  <2> QED BY <1>1, <2>2, Zenon DEF UpdateStep, IsUpdating
<1> QED BY <1>2, <1>3, Zenon

(* The invariant holds initially. *)
LEMMA UpdateInvInit == StationInit => UpdateInv
<1> SUFFICES ASSUME StationInit PROVE UpdateInv
  BY Zenon
<1>1. PICK spec \in Specs : station = [generation |-> 1, spec |-> spec, status |-> NoStatus]
  BY Zenon DEF StationInit
<1>2. DOMAIN station = {"generation", "spec", "status"} /\ station.status = NoStatus
  BY <1>1, Zenon
<1>3. NoStatus.phase # "Updating" /\ NoStatus.started = 0
  BY Zenon DEF NoStatus
<1>4. check.stage # "write"
  BY Zenon DEF StationInit, Stage
<1> QED BY <1>2, <1>3, <1>4 DEF StationInit, UpdateInv, StartedIsThisUpdate, IsUpdating

(* Every step preserves the invariant. *)
LEMMA UpdateInvNext == UpdateInv /\ [StationNext]_stationVars => UpdateInv'
<1> SUFFICES ASSUME UpdateInv, [StationNext]_stationVars PROVE UpdateInv'
  BY Zenon
<1>1. CASE TimePasses
  BY <1>1 DEF TimePasses, UpdateInv, StartedIsThisUpdate
<1>2. CASE InformerSync
  BY <1>2, Zenon DEF InformerSync, UpdateInv, StartedIsThisUpdate
<1>3. CASE \E spec \in Specs : EditSpec(spec)
  <2>1. PICK spec \in Specs : EditSpec(spec)
    BY <1>3, Zenon
  <2>2. /\ station'.status = station.status /\ station'.spec = spec
        /\ DOMAIN station' = DOMAIN station
    BY <2>1, Zenon DEF EditSpec, UpdateInv
  <2>3. check'.stage # "write"
    BY <2>1, Zenon DEF EditSpec, Stage
  <2> QED BY <2>1, <2>2, <2>3, Zenon DEF EditSpec, UpdateInv, StartedIsThisUpdate, IsUpdating
<1>4. CASE Settle
  BY <1>4, Zenon DEF Settle, UpdateInv, StartedIsThisUpdate
<1>5. CASE \E node \in Nodes, probe \in BOOLEAN : HealthCheck(node, probe)
  <2>1. PICK node \in Nodes, probe \in BOOLEAN : HealthCheck(node, probe)
    BY <1>5, Zenon
  <2>2. UpdateStep(station.status, station.spec, Evaluated(node, probe), time)
    BY EvaluationStep, Zenon DEF UpdateInv
  <2>3. check'.now = time /\ check'.status = Evaluated(node, probe)
    BY <2>1, Zenon DEF HealthCheck
  <2>4. UNCHANGED <<time, station, began>>
    BY <2>1, Zenon DEF HealthCheck
  <2>5. UpdateStep(station.status, station.spec, check.status, check.now)'
    BY <2>2, <2>3, <2>4, Zenon DEF UpdateStep, IsUpdating
  <2> QED BY <2>3, <2>4, <2>5, Zenon DEF UpdateInv, StartedIsThisUpdate, IsUpdating
<1>6. CASE ReconcileStale \/ SkipWrite \/ WriteFails
  <2>1. UNCHANGED <<time, station, began>> /\ check'.stage # "write"
    BY <1>6 DEF ReconcileStale, SkipWrite, WriteFails, Stage
  <2> QED BY <2>1, Zenon DEF UpdateInv, StartedIsThisUpdate, IsUpdating
<1>7. CASE WriteStatus
  <2>1. /\ station'.status = check.status /\ station'.spec = station.spec
        /\ DOMAIN station' = DOMAIN station
    BY <1>7, Zenon DEF WriteStatus, UpdateInv
  <2>2. check'.stage # "write" /\ time' = time
    BY <1>7, Zenon DEF WriteStatus, Stage
  <2>3. /\ check.now \in Nat \ {0}
        /\ UpdateStep(station.status, station.spec, check.status, check.now)
    BY <1>7, Zenon DEF WriteStatus, UpdateInv
  <2>4. began' = IF ~IsUpdating(check.status) THEN 0
                 ELSE IF ~IsUpdating(station.status) THEN check.now ELSE began
    BY <1>7, Zenon DEF WriteStatus, IsUpdating
  <2>5. StartedIsThisUpdate'
    BY <2>1, <2>3, <2>4, Zenon DEF UpdateStep, UpdateInv, StartedIsThisUpdate, IsUpdating
  <2>6. ~RemovedWhileUpdating /\ IsUpdating(check.status) => station.spec.firmware # "none"
    BY <2>3, Zenon DEF UpdateStep, Opens, UpdateInv
  <2>7. check.status.started \in Nat /\ began' \in Nat
    BY <2>3, <2>4, Zenon DEF UpdateStep, UpdateInv
  <2> QED BY <2>1, <2>2, <2>5, <2>6, <2>7, Zenon DEF UpdateInv, IsUpdating
<1>8. CASE UNCHANGED stationVars
  BY <1>8, Zenon DEF stationVars, UpdateInv, StartedIsThisUpdate, UpdateStep, IsUpdating
<1> QED BY <1>1, <1>2, <1>3, <1>4, <1>5, <1>6, <1>7, <1>8, Zenon DEF StationNext, Checker

(* The start time in status is always that of the update in progress (reconcileFirmware sets it when an
   update begins and nothing else moves it while the station is Updating). *)
THEOREM UpdateClockOwn == StationSpec => []StartedIsThisUpdate
<1>1. UpdateInv => StartedIsThisUpdate
  BY Zenon DEF UpdateInv
<1> QED BY <1>1, UpdateInvInit, UpdateInvNext, PTL DEF StationSpec

(* No reconcile keeps a station Updating past firmwareUpdateTimeout, as long as spec.firmware is not
   removed during an update. *)
THEOREM UpdateTimesOut ==
  ASSUME RemovedWhileUpdating = FALSE
  PROVE  StationSpec => []UpdateBounded
<1>1. UpdateInv => UpdateBounded
  BY Zenon DEF UpdateInv, UpdateBounded, UpdateStep, StartedIsThisUpdate, IsUpdating
<1> QED BY <1>1, UpdateInvInit, UpdateInvNext, PTL DEF StationSpec

(* Inside the window, which may run over midnight, is a tick of it counted from its start: the count
   IsWithinMaintenanceWindow replaces by two comparisons. *)
LEMMA WindowTicks ==
  ASSUME NEW window, window.start \in 0..(Day - 1), window.end \in 0..(Day - 1), window.start # window.end,
         NEW now \in Nat, IsWithinMaintenanceWindow(window, now)
  PROVE  \E k \in 0..(Day - 1) :
           /\ (window.start + k) % Day = now % Day
           /\ \A j \in 0..k : (window.start + j) % Day # window.end
<1> DEFINE minute == now % Day
           start == window.start
           end == window.end
<1>1. Day \in Nat \ {0} /\ minute \in 0..(Day - 1)
  BY StationAssumption
<1>2. ASSUME NEW x \in 0..(Day - 1) PROVE x % Day = x
  BY <1>1
<1>3. ASSUME NEW x \in Day..(2 * Day - 1) PROVE x % Day = x - Day
  BY <1>1
<1>4. IF start < end THEN minute >= start /\ minute < end ELSE minute >= start \/ minute < end
  BY Zenon DEF IsWithinMaintenanceWindow
<1> HIDE DEF minute, start, end
<1>5. start \in 0..(Day - 1) /\ end \in 0..(Day - 1) /\ start # end
  BY Zenon DEF start, end
<1>6. CASE minute >= start
  <2>1. minute - start \in 0..(Day - 1)
    BY <1>1, <1>5, <1>6
  <2>2. (start + (minute - start)) % Day = minute
    BY <1>1, <1>2, <1>5
  <2>3. \A j \in 0..(minute - start) : (start + j) % Day = start + j /\ start + j # end
    BY <1>1, <1>2, <1>4, <1>5, <1>6
  <2> QED BY <2>1, <2>2, <2>3, Zenon DEF minute, start, end
<1>7. CASE minute < start
  <2> DEFINE k == minute + Day - start
  <2>1. k \in 0..(Day - 1) /\ minute < end /\ end < start
    BY <1>1, <1>4, <1>5, <1>7
  <2>2. (start + k) % Day = minute
    <3>1. start + k = minute + Day /\ start + k \in Day..(2 * Day - 1)
      BY <1>1, <1>5
    <3> HIDE DEF k
    <3> QED BY <1>1, <1>3, <3>1
  <2>3. \A j \in 0..k : (start + j) % Day # end
    <3> SUFFICES ASSUME NEW j \in 0..k PROVE (start + j) % Day # end
      BY Zenon
    <3> DEFINE x == start + j
    <3>0. x \in Nat /\ x >= start /\ x <= minute + Day /\ Day \in Nat /\ minute \in Nat /\ end \in Nat
      BY <1>1, <1>5
    <3> HIDE DEF x, k
    <3>1. CASE x < Day
      <4>1. x \in 0..(Day - 1)
        BY <3>0, <3>1
      <4> QED BY <1>2, <1>5, <2>1, <3>0, <4>1 DEF x
    <3>2. CASE x >= Day
      <4>1. x \in Day..(2 * Day - 1) /\ x - Day <= minute
        BY <1>1, <3>0, <3>2
      <4>2. x % Day = x - Day
        BY <1>3, <4>1, Zenon
      <4> QED BY <2>1, <3>0, <4>1, <4>2 DEF x
    <3> QED BY <3>0, <3>1, <3>2
  <2> QED BY <2>1, <2>2, <2>3, Zenon DEF minute, start, end
<1> QED BY <1>1, <1>5, <1>6, <1>7

(* An update that becomes durable was begun at a tick of the maintenance window of the stored spec, which
   asks for updates (reconcileFirmware and IsWithinMaintenanceWindow), for windows of any length that may
   run over midnight and any edits and stale reads between. *)
THEOREM UpdatesBeginInWindow == StationSpec => []UpdateBeginsInWindow
<1>1. UpdateInv => UpdateBeginsInWindow
  <2> SUFFICES ASSUME UpdateInv, check.stage = "write", check.status.phase = "Updating",
                      station.status.phase # "Updating"
               PROVE  /\ station.spec.firmware = "auto"
                      /\ station.spec.window.set =>
                           \E k \in 0..(Day - 1) :
                             /\ (station.spec.window.start + k) % Day = check.now % Day
                             /\ \A j \in 0..k : (station.spec.window.start + j) % Day # station.spec.window.end
    BY Zenon DEF UpdateBeginsInWindow
  <2>1. Opens(station.spec, check.now) /\ check.now \in Nat /\ station.spec \in Specs
    BY Zenon DEF UpdateInv, UpdateStep, IsUpdating
  <2>2. station.spec.window.start \in 0..(Day - 1) /\ station.spec.window.end \in 0..(Day - 1)
    BY <2>1, StationAssumption, Zenon
  <2> QED BY <2>1, <2>2, WindowTicks, Zenon DEF Opens
<1> QED BY <1>1, UpdateInvInit, UpdateInvNext, PTL DEF StationSpec

(* How many more checks a healthy, current station needs: an update is completed or timed out first, and an
   uncertain one is found current before its station counts as healthy. *)
ChecksLeft(st) ==
  IF st.phase = "Running" THEN 0
  ELSE IF st.phase = "Updating" THEN 3
  ELSE IF st.phase = "Degraded" /\ firmwareUncertain(st) THEN 2 ELSE 1

(* Running for good, as far as the checks decide. *)
Converged ==
  settled /\ station.status.phase = "Running" /\ (check.stage = "write" => check.status.phase = "Running")

(* The safety part of ConvergesToRunning: a check of a healthy, current station takes it a step nearer to
   Running, and none takes it away from there. *)
ChecksConverge ==
  [][/\ settled /\ check.stage = "idle" /\ check'.stage = "write" =>
          check'.status.phase = "Running" \/ ChecksLeft(check'.status) < ChecksLeft(station.status)
     /\ Converged => Converged']_stationVars

(* A healthy node whose firmware is current: what one evaluation makes of a status. *)
LEMMA SettledEvaluation ==
  ASSUME settled, NEW node \in Nodes, NEW probe \in BOOLEAN, WhenSettled(node, probe),
         IsUpdating(station.status) => station.spec.firmware # "none"
  PROVE  \/ Evaluated(node, probe).phase = "Running"
         \/ station.status.phase # "Running" /\ ChecksLeft(Evaluated(node, probe)) < ChecksLeft(station.status)
<1>1. /\ probe /\ node.lookup = "one" /\ node.ready /\ ~node.pressure
      /\ node.version # None /\ node.version = node.available
  BY Zenon DEF WhenSettled
<1>2. PICK st, spec, health : /\ st = station.status /\ spec = station.spec
                              /\ health = reconcileHealth(st, spec, node, probe)
  BY Zenon
<1>3. Evaluated(node, probe) = reconcileFirmware(health, spec, node, time)
  BY <1>1, <1>2, Zenon DEF Evaluated
<1>4. PICK result : result = reconcileFirmware(health, spec, node, time)
  BY Zenon
<1>5. health = HealthOfNode(st, spec, node, probe)
  BY <1>1, <1>2, Zenon DEF reconcileHealth
<1>6. /\ health.phase = IF IsUpdating(st) \/ (st.phase = "Degraded" /\ firmwareUncertain(st)) THEN st.phase ELSE "Running"
      /\ health.firmware = st.firmware
  BY <1>1, <1>5, Zenon DEF HealthOfNode, NodePhase, Health, IsUpdating
<1>7. CurrentVersion(health, node) = node.version /\ UpToDate(health, node)
      /\ FirmwareReason(health, node) = "UpToDate"
  BY <1>1, Zenon DEF CurrentVersion, UpToDate, FirmwareReason
<1>8. CASE IsUpdating(st)
  <2>1. result = ContinueUpdate(health, node, time)
    BY <1>1, <1>2, <1>4, <1>6, <1>8, Zenon DEF reconcileFirmware, IsUpdating
  <2>2. result.phase \in {"Running", "Degraded"}
    BY <1>1, <2>1, Zenon DEF ContinueUpdate, Firmware
  <2>3. ChecksLeft(st) = 3 /\ ChecksLeft(result) \in {0, 1, 2}
    BY <1>8, <2>2, Zenon DEF ChecksLeft, IsUpdating
  <2> QED BY <1>2, <1>3, <1>4, <1>8, <2>3 DEF IsUpdating
<1>9. CASE ~IsUpdating(st)
  <2>1. result.phase = health.phase /\ result.firmware \in {"absent", "UpToDate"}
    <3>1. CASE spec.firmware = "none"
      BY <1>4, <3>1, Zenon DEF reconcileFirmware, Firmware
    <3>2. CASE spec.firmware # "none"
      <4>1. result = StartUpdate(health, spec, node, time)
        BY <1>1, <1>4, <1>6, <1>9, <3>2, Zenon DEF reconcileFirmware, IsUpdating
      <4> QED BY <1>7, <4>1, Zenon DEF StartUpdate, Firmware
    <3> QED BY <3>1, <3>2, Zenon
  <2>2. CASE st.phase = "Degraded" /\ firmwareUncertain(st)
    <3>1. result.phase = "Degraded" /\ ~firmwareUncertain(result)
      BY <1>6, <2>1, <2>2, Zenon DEF firmwareUncertain
    <3>2. ChecksLeft(result) = 1 /\ ChecksLeft(st) = 2
      BY <2>2, <3>1, Zenon DEF ChecksLeft
    <3> QED BY <1>2, <1>3, <1>4, <2>2, <3>2
  <2>3. CASE ~(st.phase = "Degraded" /\ firmwareUncertain(st))
    BY <1>3, <1>4, <1>6, <1>9, <2>1, <2>3, Zenon
  <2> QED BY <2>2, <2>3, Zenon
<1> QED BY <1>8, <1>9, Zenon

(* Every edit, stale read, timed-out update and failed write before notwithstanding: three checks of a healthy
   station reach Running, which no later one leaves, as long as spec.firmware is not removed during an update. *)
THEOREM ChecksReachRunning == ~RemovedWhileUpdating => (StationSpec => ChecksConverge)
<1> SUFFICES ASSUME ~RemovedWhileUpdating PROVE StationSpec => ChecksConverge
  BY Zenon
<1>1. ASSUME UpdateInv, [StationNext]_stationVars
      PROVE  [/\ settled /\ check.stage = "idle" /\ check'.stage = "write" =>
                   check'.status.phase = "Running" \/ ChecksLeft(check'.status) < ChecksLeft(station.status)
              /\ Converged => Converged']_stationVars
  <2>1. IsUpdating(station.status) => station.spec.firmware # "none"
    BY <1>1, Zenon DEF UpdateInv
  <2>2. CASE \E node \in Nodes, probe \in BOOLEAN : HealthCheck(node, probe)
    <3>1. PICK node \in Nodes, probe \in BOOLEAN : HealthCheck(node, probe)
      BY <2>2, Zenon
    <3>2. check'.status = Evaluated(node, probe) /\ station' = station /\ settled' = settled /\ WhenSettled(node, probe)
      BY <3>1, Zenon DEF HealthCheck
    <3>3. settled => \/ check'.status.phase = "Running"
                     \/ /\ station.status.phase # "Running"
                        /\ ChecksLeft(check'.status) < ChecksLeft(station.status)
      BY <2>1, <3>2, SettledEvaluation, Zenon
    <3> QED BY <3>2, <3>3, Zenon DEF Converged
  <2>3. CASE ~\E node \in Nodes, probe \in BOOLEAN : HealthCheck(node, probe)
    <3>0. Stage("idle").stage # "write" /\ Stage("conflict").stage # "write"
      BY Zenon DEF Stage
    <3>c. check' \in {check, Stage("idle"), Stage("conflict")}
      BY <1>1, <2>3, Zenon
         DEF StationNext, Checker, TimePasses, InformerSync, EditSpec, Settle, ReconcileStale, WriteStatus, SkipWrite,
             WriteFails, stationVars
    <3>1. ~(check.stage = "idle" /\ check'.stage = "write")
      BY <3>0, <3>c, Zenon
    <3>2. Converged => Converged'
      <4> SUFFICES ASSUME Converged PROVE Converged'
        BY Zenon
      <4>1. CASE WriteStatus
        <5>1. station'.status = check.status
          BY <1>1, <4>1, Zenon DEF WriteStatus, UpdateInv
        <5> QED BY <3>0, <4>1, <5>1, Zenon DEF WriteStatus, Converged
      <4>2. CASE TimePasses \/ InformerSync \/ Settle \/ ReconcileStale \/ SkipWrite \/ WriteFails
        <5>1. station' = station /\ settled' = settled
          BY <4>2, Zenon DEF TimePasses, InformerSync, Settle, ReconcileStale, SkipWrite, WriteFails, Converged
        <5> QED BY <3>0, <3>c, <5>1, Zenon DEF Converged
      <4>3. ~\E spec \in Specs : EditSpec(spec)
        BY Zenon DEF EditSpec, Converged
      <4>4. CASE UNCHANGED stationVars
        BY <4>4, Zenon DEF stationVars, Converged
      <4> QED BY <1>1, <2>3, <4>1, <4>2, <4>3, <4>4, Zenon DEF StationNext, Checker
    <3> QED BY <3>1, <3>2, Zenon
  <2> QED BY <2>2, <2>3, Zenon
<1> QED BY <1>1, UpdateInvInit, UpdateInvNext, PTL DEF StationSpec, ChecksConverge

(***************************************************************************)
(* Pass prediction.                                                        *)
(***************************************************************************)
IsStatus(st) ==
  st = [predicted |-> st.predicted, windows |-> st.windows, sweptAt |-> st.sweptAt, sig |-> st.sig,
        epoch |-> st.epoch, of |-> st.of]
IsWork(w) == w = [stage |-> w.stage, now |-> w.now, omms |-> w.omms, sig |-> w.sig, due |-> w.due, status |-> w.status]
IsStation(st) == st = [phase |-> st.phase, place |-> st.place, version |-> st.version]

Types ==
  /\ config \in Configs
  /\ stations = [s \in Stations |-> stations[s]]
  /\ \A s \in Stations : IsStation(stations[s]) /\ stations[s].version \in Nat
                         /\ stations[s].phase \in {"live", "terminating", "absent"}
  /\ IsStatus(status) /\ IsWork(work) /\ IsStatus(work.status)
  /\ work.stage \in {"idle", "conflict", "writeA", "sweep", "writeB"}

(* What a signature says of a station was so once, and what a station has been it never is again: with each *)
(* version it is live, then terminating, then absent.                                                       *)
Past(phase, version, st) ==
  \/ version < st.version
  \/ /\ version = st.version
     /\ \/ st.phase = phase
        \/ phase = "live" /\ st.phase = "terminating"
        \/ st.phase = "absent"
Seen(entry, st) ==
  \/ entry = <<"absent">>
  \/ \E phase \in {"live", "terminating"}, version \in Nat : entry = <<phase, version>> /\ Past(phase, version, st)
Older(sig, sts) == \A x \in sig : x.config \in Configs /\ \A s \in x.config.stations : Seen(x.stations[s], sts[s])

(* The windows are what the sweep would give now, if nothing that was signed has changed. *)
Current(x, sts) ==
  \A s \in x.config.stations : sts[s].phase # "absent" /\ x.stations[s] = <<sts[s].phase, sts[s].version>>
SkyOf(cfg, omms, sts) ==
  UNION {{[sat |-> p.sat, station |-> s, aos |-> p.aos, los |-> p.los] :
            p \in {q \in Sky[sts[s].place] : q.sat \in omms /\ (cfg.sats = {} \/ q.sat \in cfg.sats)}} :
         s \in {t \in cfg.stations : sts[t].phase = "live"}}
Swath(cfg, of, sts) == PredictPasses(SkyOf(cfg, of.omms, sts), of.now, effectivePassHorizon(cfg.horizon))
Faithful(st, sts) ==
  st.predicted = "True" => \A x \in st.sig : Current(x, sts) => st.windows = Swath(x.config, st.of, sts)

Good(st, sts) == IsStatus(st) /\ Older(st.sig, sts) /\ Faithful(st, sts)

Running == work.stage \in {"writeA", "sweep", "writeB"}
PredictionInv ==
  /\ Types
  /\ Good(status, stations) /\ Good(work.status, stations) /\ Older(work.sig, stations)
  /\ Running => \A x \in work.sig : x.config = config
  /\ Running /\ work.status.predicted = "True" => work.status.sig = work.sig

(***************************************************************************)
(* Lemmas.                                                                 *)
(***************************************************************************)
LEMMA Blank ==
  ASSUME NEW sts
  PROVE  /\ IsWork(Idle) /\ IsStatus(Idle.status) /\ Good(Idle.status, sts) /\ Older(Idle.sig, sts)
         /\ Idle.stage = "idle" /\ Idle.sig = {} /\ Idle.status.predicted = "absent" /\ Idle.status.sig = {}
BY Zenon DEF Idle, IsWork, IsStatus, NoSig, Good, Older, Faithful

LEMMA SkyKept ==
  ASSUME NEW cfg, NEW omms, NEW sts, NEW sts2, \A s \in cfg.stations : sts2[s] = sts[s]
  PROVE  SkyOf(cfg, omms, sts2) = SkyOf(cfg, omms, sts)
<1>1. {t \in cfg.stations : sts2[t].phase = "live"} = {t \in cfg.stations : sts[t].phase = "live"} BY Zenon
<1> QED BY <1>1 DEF SkyOf

(* What a user does to a station takes it past everything that was seen of it. *)
LEMMA Onward ==
  ASSUME NEW entry, NEW old, NEW new, old.version \in Nat, Seen(entry, old),
         old.phase \in {"live", "terminating", "absent"},
         \/ new.phase = "live" /\ new.version = old.version + 1
         \/ new.phase = "terminating" /\ old.phase = "live" /\ new.version = old.version
         \/ new.phase = "absent" /\ old.phase # "absent" /\ new.version = old.version
  PROVE  Seen(entry, new) /\ (new.phase # "absent" => entry # <<new.phase, new.version>>)
<1>1. CASE entry = <<"absent">> BY <1>1, Zenon DEF Seen
<1>2. CASE entry # <<"absent">>
  <2>1. PICK phase \in {"live", "terminating"}, version \in Nat : entry = <<phase, version>> /\ Past(phase, version, old)
    BY <1>2, Zenon DEF Seen
  <2>2. Past(phase, version, new) BY <2>1 DEF Past
  <2>3. new.phase # "absent" => ~(phase = new.phase /\ version = new.version) BY <2>1 DEF Past
  <2>4. new.phase # "absent" => entry # <<new.phase, new.version>> BY <2>1, <2>3, Zenon
  <2> QED BY <2>1, <2>2, <2>4, Zenon DEF Seen
<1> QED BY <1>1, <1>2, Zenon

(* One station is edited: signatures stay old, and vouch only for windows without that station. *)
LEMMA OlderOnward ==
  ASSUME NEW sig, NEW sts, NEW sts2, Older(sig, sts), NEW edited,
         \A s \in Stations : s # edited => sts2[s] = sts[s],
         \A entry : Seen(entry, sts[edited]) => Seen(entry, sts2[edited])
  PROVE  Older(sig, sts2)
BY PredictionAssumption, Zenon DEF Older

LEMMA GoodOnward ==
  ASSUME NEW st, NEW sts, NEW sts2, Good(st, sts), NEW edited,
         \A s \in Stations : s # edited => sts2[s] = sts[s],
         \A entry : Seen(entry, sts[edited]) => Seen(entry, sts2[edited]),
         \A entry : Seen(entry, sts[edited]) /\ sts2[edited].phase # "absent" =>
           entry # <<sts2[edited].phase, sts2[edited].version>>
  PROVE  Good(st, sts2)
<1>1. Older(st.sig, sts2) BY OlderOnward DEF Good
<1>2. ASSUME st.predicted = "True", NEW x \in st.sig, Current(x, sts2) PROVE st.windows = Swath(x.config, st.of, sts2)
  <2>1. edited \notin x.config.stations BY <1>2, Zenon DEF Good, Older, Current
  <2>2. \A s \in x.config.stations : sts2[s] = sts[s] BY <2>1, PredictionAssumption, Zenon DEF Good, Older
  <2>3. Current(x, sts) BY <1>2, <2>2, Zenon DEF Current
  <2>4. SkyOf(x.config, st.of.omms, sts2) = SkyOf(x.config, st.of.omms, sts) BY <2>2, SkyKept
  <2> QED BY <1>2, <2>3, <2>4, Zenon DEF Good, Faithful, Swath
<1> QED BY <1>1, <1>2, Zenon DEF Good, Faithful

LEMMA InitPrediction == Init => PredictionInv
<1> SUFFICES ASSUME Init PROVE PredictionInv BY Zenon
<1>1. Types BY Blank, PredictionAssumption, Zenon DEF Init, Types, IsStation
<1> QED BY <1>1, Blank, Zenon DEF Init, PredictionInv, Running

LEMMA EditStationStep == PredictionInv /\ EditStation => PredictionInv'
<1> SUFFICES ASSUME PredictionInv, EditStation PROVE PredictionInv' BY Zenon
<1>0. Types BY Zenon DEF PredictionInv
<1>1. PICK s \in Stations, place \in Places, phase \in {"live", "terminating", "absent"} :
        /\ phase = "terminating" => stations[s].phase = "live"
        /\ phase = "absent" => stations[s].phase # "absent"
        /\ stations' = [stations EXCEPT ![s] = [phase |-> phase, place |-> place,
                          version |-> IF phase = "live" THEN @.version + 1 ELSE @.version]]
  BY Zenon DEF EditStation
<1>2. config' = config /\ status' = status /\ work' = work BY Zenon DEF EditStation
<1>3. PICK new : new = [phase |-> phase, place |-> place,
                        version |-> IF phase = "live" THEN stations[s].version + 1 ELSE stations[s].version]
  BY Zenon
<1>4. /\ stations' = [t \in Stations |-> stations'[t]]
      /\ stations'[s] = new /\ \A t \in Stations : t # s => stations'[t] = stations[t]
  BY <1>0, <1>1, <1>3, Zenon DEF Types
<1>5. /\ IsStation(new) /\ new.version \in Nat /\ new.phase \in {"live", "terminating", "absent"}
      /\ \/ new.phase = "live" /\ new.version = stations[s].version + 1
         \/ new.phase = "terminating" /\ stations[s].phase = "live" /\ new.version = stations[s].version
         \/ new.phase = "absent" /\ stations[s].phase # "absent" /\ new.version = stations[s].version
  BY <1>0, <1>1, <1>3 DEF Types, IsStation
<1>6. Types' BY <1>0, <1>2, <1>4, <1>5, Zenon DEF Types
<1>7. /\ \A entry : Seen(entry, stations[s]) => Seen(entry, stations'[s])
      /\ \A entry : Seen(entry, stations[s]) /\ stations'[s].phase # "absent" =>
           entry # <<stations'[s].phase, stations'[s].version>>
  BY <1>0, <1>4, <1>5, Onward, Zenon DEF Types
<1>8. Good(status, stations') /\ Good(work.status, stations') /\ Older(work.sig, stations')
  BY <1>4, <1>7, GoodOnward, OlderOnward DEF PredictionInv
<1> QED BY <1>2, <1>6, <1>8, Zenon DEF PredictionInv, Running

(* Steps after which no reconcile is under way. *)
LEMMA IdleStep ==
  ASSUME PredictionInv, stations' = stations, config' \in Configs, NEW stage \in {"idle", "conflict"},
         work' = [stage |-> stage, now |-> Never, omms |-> {}, sig |-> {}, due |-> FALSE, status |-> Idle.status],
         status' = status \/ (Running /\ status' = work.status)
  PROVE  PredictionInv'
<1>2. IsWork(work') /\ work'.stage = stage /\ work'.sig = {} /\ work'.status = Idle.status BY Zenon DEF IsWork
<1>3. Good(status', stations) BY Zenon DEF PredictionInv
<1>4. Good(work'.status, stations) /\ Older(work'.sig, stations) BY <1>2, Blank, Zenon DEF Older
<1>5. Types' BY <1>2, <1>3, <1>4, Zenon DEF PredictionInv, Types, Good
<1> QED BY <1>2, <1>3, <1>4, <1>5, Zenon DEF PredictionInv, Running

LEMMA IdleFields ==
  ASSUME NEW stage, NEW w, w = [Idle EXCEPT !.stage = stage] \/ (w = Idle /\ stage = "idle")
  PROVE  w = [stage |-> stage, now |-> Never, omms |-> {}, sig |-> {}, due |-> FALSE, status |-> Idle.status]
BY Zenon DEF Idle, NoSig

LEMMA EnvironmentStep == PredictionInv /\ (Tick \/ EditConfig \/ Handoff \/ GiveUp \/ WriteB \/ UNCHANGED vars) => PredictionInv'
<1> SUFFICES ASSUME PredictionInv, Tick \/ EditConfig \/ Handoff \/ GiveUp \/ WriteB \/ UNCHANGED vars PROVE PredictionInv'
      BY Zenon
<1>1. CASE Tick \/ UNCHANGED vars BY <1>1, Zenon DEF Tick, vars, PredictionInv, Types, Running
<1>2. CASE EditConfig
  <2>1. PICK stage \in {"idle", "conflict"} : work' = [Idle EXCEPT !.stage = stage] \/ (work' = Idle /\ stage = "idle")
    BY <1>2, Zenon DEF EditConfig
  <2>2. work' = [stage |-> stage, now |-> Never, omms |-> {}, sig |-> {}, due |-> FALSE, status |-> Idle.status]
    BY <2>1, IdleFields, Zenon
  <2> QED BY <1>2, <2>2, IdleStep, Zenon DEF EditConfig
<1>3. CASE Handoff \/ GiveUp \/ WriteB
  <2>1. work' = Idle BY <1>3, Zenon DEF Handoff, GiveUp, WriteB
  <2>2. work' = [stage |-> "idle", now |-> Never, omms |-> {}, sig |-> {}, due |-> FALSE, status |-> Idle.status]
    BY <2>1, IdleFields, Zenon
  <2>3. stations' = stations /\ config' \in Configs /\ (status' = status \/ (Running /\ status' = work.status))
    BY <1>3, Zenon DEF Handoff, GiveUp, WriteB, persistEphStatus, PredictionInv, Types, Running
  <2> QED BY <2>2, <2>3, IdleStep, Zenon
<1> QED BY <1>1, <1>2, <1>3, Zenon

(* Steps of a reconcile that is under way. *)
LEMMA RunningStep ==
  ASSUME PredictionInv, stations' = stations, config' = config, NEW stage \in {"writeA", "sweep", "writeB"},
         NEW now, NEW omms, NEW sig, NEW due, NEW st,
         work' = [stage |-> stage, now |-> now, omms |-> omms, sig |-> sig, due |-> due, status |-> st],
         Good(st, stations), Older(sig, stations), \A x \in sig : x.config = config,
         st.predicted = "True" => st.sig = sig, status' = status \/ (Running /\ status' = work.status)
  PROVE  PredictionInv'
<1>1. IsWork(work') /\ work'.stage = stage /\ work'.sig = sig /\ work'.status = st BY Zenon DEF IsWork
<1>2. Good(status', stations) BY Zenon DEF PredictionInv
<1>3. Types' BY <1>1, <1>2, Zenon DEF PredictionInv, Types, Good
<1> QED BY <1>1, <1>2, <1>3, Zenon DEF PredictionInv, Running

LEMMA Invalidated ==
  ASSUME NEW st, IsStatus(st), NEW r, r = invalidatePassPredictionStatus(st)
  PROVE  r = [predicted |-> "absent", windows |-> {}, sweptAt |-> Never, sig |-> {}, epoch |-> st.epoch, of |-> NoSweep]
BY Zenon DEF IsStatus, invalidatePassPredictionStatus, NoSig

LEMMA NotVouching ==
  ASSUME NEW predicted, predicted # "True", NEW epoch, NEW sts, NEW r,
         r = [predicted |-> predicted, windows |-> {}, sweptAt |-> Never, sig |-> {}, epoch |-> epoch, of |-> NoSweep]
  PROVE  Good(r, sts) /\ r.predicted # "True"
<1>1. r.predicted = predicted /\ r.sig = {} /\ IsStatus(r) BY Zenon DEF IsStatus
<1> QED BY <1>1, Zenon DEF Good, Older, Faithful

LEMMA EpochOnly ==
  ASSUME NEW st, NEW sts, Good(st, sts), NEW epoch, NEW r, r = Propagated(st, epoch)
  PROVE  Good(r, sts)
<1>1. r = [predicted |-> st.predicted, windows |-> st.windows, sweptAt |-> st.sweptAt, sig |-> st.sig,
           epoch |-> epoch, of |-> st.of]
  BY Zenon DEF Propagated, Good, IsStatus
<1>2. IsStatus(r) /\ r.predicted = st.predicted /\ r.windows = st.windows /\ r.sig = st.sig /\ r.of = st.of
  BY <1>1 DEF IsStatus
<1> QED BY <1>2, Zenon DEF Good, Faithful

LEMMA Withdrawn ==
  ASSUME NEW st, NEW sts, Good(st, sts), NEW cfg, NEW sig, NEW r, r = WithdrawStale(st, cfg, sig)
  PROVE  Good(r, sts) /\ (r.predicted = "True" => r.sig = sig)
<1>0. IsStatus(st) BY Zenon DEF Good
<1>1. PICK gone : gone = invalidatePassPredictionStatus(st) BY Zenon
<1>2. gone = [predicted |-> "absent", windows |-> {}, sweptAt |-> Never, sig |-> {}, epoch |-> st.epoch, of |-> NoSweep]
  BY <1>0, <1>1, Invalidated, Zenon
<1>3. CASE ~passPredictionConfigured(cfg)
  <2>1. r = gone BY <1>1, <1>3, Zenon DEF WithdrawStale
  <2> QED BY <1>2, <2>1, NotVouching, Zenon
<1>4. CASE passPredictionConfigured(cfg) /\ sig # st.sig
  <2>1. r = [gone EXCEPT !.predicted = "Unknown"] BY <1>1, <1>4, Zenon DEF WithdrawStale
  <2>2. r = [predicted |-> "Unknown", windows |-> {}, sweptAt |-> Never, sig |-> {}, epoch |-> st.epoch, of |-> NoSweep]
    BY <1>2, <2>1, Zenon
  <2> QED BY <2>2, NotVouching, Zenon
<1>5. CASE passPredictionConfigured(cfg) /\ sig = st.sig
  <2>1. r = st BY <1>5, Zenon DEF WithdrawStale
  <2> QED BY <1>5, <2>1, Zenon
<1> QED BY <1>3, <1>4, <1>5, Zenon

LEMMA Signed ==
  ASSUME Types, NEW unread, NEW sig, sig = passPredictionInputSignature(config, unread)
  PROVE  Older(sig, stations) /\ \A x \in sig : x.config = config
<1> SUFFICES ASSUME NEW x \in sig
             PROVE  x.config = config /\ x.config \in Configs
                    /\ \A s \in config.stations : Seen(x.stations[s], stations[s])
  BY Zenon DEF Older
<1>1. x = [config   |-> config,
           stations |-> [s \in config.stations |->
                           IF s = unread \/ stations[s].phase = "absent" THEN <<"absent">>
                           ELSE <<stations[s].phase, stations[s].version>>]]
  BY Zenon DEF passPredictionInputSignature
<1>2. x.config = config BY <1>1, Zenon
<1>3. ASSUME NEW s \in config.stations PROVE Seen(x.stations[s], stations[s])
  <2>1. x.stations[s] = IF s = unread \/ stations[s].phase = "absent" THEN <<"absent">>
                        ELSE <<stations[s].phase, stations[s].version>>
    BY <1>1, Zenon
  <2>2. stations[s].version \in Nat /\ stations[s].phase \in {"live", "terminating", "absent"}
    BY PredictionAssumption, Zenon DEF Types
  <2> QED BY <2>1, <2>2, Zenon DEF Seen, Past
<1> QED BY <1>2, <1>3, Zenon DEF Types

LEMMA ReconcileStep == PredictionInv /\ (Reconcile \/ ReconcileUnfetched \/ WriteA) => PredictionInv'
<1> SUFFICES ASSUME PredictionInv, Reconcile \/ ReconcileUnfetched \/ WriteA PROVE PredictionInv' BY Zenon
<1>0. Types /\ Good(status, stations) /\ IsStatus(status) BY Zenon DEF PredictionInv, Good
<1>1. CASE Reconcile
  <2>1. PICK epoch, unread, sig, due, now, omms :
          /\ sig = NoSig \/ sig = passPredictionInputSignature(config, unread)
          /\ work' = [stage |-> "writeA", due |-> due, sig |-> sig, now |-> now, omms |-> omms,
                      status |-> WithdrawStale(Propagated(status, epoch), config, sig)]
    BY <1>1, Zenon DEF Reconcile
  <2>2. PICK before : before = Propagated(status, epoch) BY Zenon
  <2>3. PICK st : st = WithdrawStale(before, config, sig) BY Zenon
  <2>4. Good(before, stations) BY <1>0, <2>2, EpochOnly, Zenon
  <2>5. Good(st, stations) /\ (st.predicted = "True" => st.sig = sig) BY <2>3, <2>4, Withdrawn
  <2>6. Older(sig, stations) /\ \A x \in sig : x.config = config
    <3>1. CASE sig = NoSig BY <3>1, Zenon DEF NoSig, Older
    <3>2. CASE sig = passPredictionInputSignature(config, unread) BY <1>0, <3>2, Signed, Zenon
    <3> QED BY <2>1, <3>1, <3>2, Zenon
  <2>7. work' = [stage |-> "writeA", now |-> now, omms |-> omms, sig |-> sig, due |-> due, status |-> st]
    BY <2>1, <2>2, <2>3, Zenon
  <2>8. stations' = stations /\ config' = config /\ status' = status BY <1>1, Zenon DEF Reconcile
  <2> QED BY <2>5, <2>6, <2>7, <2>8, RunningStep, Zenon
<1>2. CASE ReconcileUnfetched
  <2>1. PICK st : st = invalidatePassPredictionStatus(status) BY Zenon
  <2>2. work' = [Idle EXCEPT !.stage = "writeA", !.status = st] BY <1>2, <2>1, Zenon DEF ReconcileUnfetched
  <2>3. work' = [stage |-> "writeA", now |-> Never, omms |-> {}, sig |-> {}, due |-> FALSE, status |-> st]
    BY <2>2, Zenon DEF Idle, NoSig
  <2>4. Good(st, stations) /\ st.predicted # "True"
    <3>1. st = [predicted |-> "absent", windows |-> {}, sweptAt |-> Never, sig |-> {}, epoch |-> status.epoch, of |-> NoSweep]
      BY <1>0, <2>1, Invalidated, Zenon
    <3> QED BY <3>1, NotVouching, Zenon
  <2>5. Older({}, stations) BY Zenon DEF Older
  <2>6. stations' = stations /\ config' = config /\ status' = status BY <1>2, Zenon DEF ReconcileUnfetched
  <2>7. PICK stage, sig : stage = "writeA" /\ stage \in {"writeA", "sweep", "writeB"} /\ sig = {} BY Zenon
  <2>8. /\ work' = [stage |-> stage, now |-> Never, omms |-> {}, sig |-> sig, due |-> FALSE, status |-> st]
        /\ Older(sig, stations) /\ \A x \in sig : x.config = config
    BY <2>3, <2>5, <2>7, Zenon
  <2>9. st.predicted = "True" => st.sig = sig BY <2>4, Zenon
  <2> QED BY <2>4, <2>6, <2>7, <2>8, <2>9, RunningStep, Zenon
<1>3. CASE WriteA
  <2>1. Running /\ stations' = stations /\ config' = config /\ status' = work.status
    BY <1>3, Zenon DEF WriteA, persistEphStatus, Running
  <2>2. CASE ~work.due
    <3>1. work' = Idle BY <1>3, <2>2, Zenon DEF WriteA
    <3>2. work' = [stage |-> "idle", now |-> Never, omms |-> {}, sig |-> {}, due |-> FALSE, status |-> Idle.status]
      BY <3>1, IdleFields, Zenon
    <3> QED BY <1>0, <2>1, <3>2, IdleStep, Zenon DEF Types
  <2>3. CASE work.due
    <3>1. work' = [work EXCEPT !.stage = "sweep"] BY <1>3, <2>3, Zenon DEF WriteA
    <3>2. work' = [stage |-> "sweep", now |-> work.now, omms |-> work.omms, sig |-> work.sig, due |-> work.due,
                   status |-> work.status]
      BY <1>0, <3>1, Zenon DEF Types, IsWork
    <3>3. /\ Good(work.status, stations) /\ Older(work.sig, stations) /\ (\A x \in work.sig : x.config = config)
          /\ work.status.predicted = "True" => work.status.sig = work.sig
      BY <2>1, Zenon DEF PredictionInv
    <3> QED BY <2>1, <3>2, <3>3, RunningStep, Zenon
  <2> QED BY <2>2, <2>3, Zenon
<1> QED BY <1>1, <1>2, <1>3, Zenon

(* The result of a sweep, under the signature that was read before it. *)
LEMMA SweptStep ==
  ASSUME PredictionInv, work.stage = "sweep", NEW st, IsStatus(st), Swept(st),
         st.predicted # "True" \/ (st.predicted = "True" /\ st.windows = Swath(config, st.of, stations))
  PROVE  PredictionInv'
<1>0. /\ IsWork(work) /\ Running /\ Older(work.sig, stations) /\ \A x \in work.sig : x.config = config
  BY Zenon DEF PredictionInv, Types, Running
<1>1. PICK new : new = [st EXCEPT !.sweptAt = clock, !.sig = work.sig] BY Zenon
<1>2. new = [predicted |-> st.predicted, windows |-> st.windows, sweptAt |-> clock, sig |-> work.sig,
             epoch |-> st.epoch, of |-> st.of]
  BY <1>1, Zenon DEF IsStatus
<1>3. work' = [work EXCEPT !.stage = "writeB", !.status = new] BY <1>1, Zenon DEF Swept, StampedSignature
<1>4. work' = [stage |-> "writeB", now |-> work.now, omms |-> work.omms, sig |-> work.sig, due |-> work.due, status |-> new]
  BY <1>0, <1>3, Zenon DEF IsWork
<1>5. /\ IsStatus(new) /\ new.predicted = st.predicted /\ new.windows = st.windows /\ new.sig = work.sig /\ new.of = st.of
  BY <1>2, Zenon DEF IsStatus
<1>6. Good(new, stations) BY <1>0, <1>5, Zenon DEF Good, Faithful
<1>7. stations' = stations /\ config' = config /\ status' = status BY Zenon DEF Swept
<1> QED BY <1>0, <1>4, <1>5, <1>6, <1>7, RunningStep, Zenon

LEMMA SweepStep == PredictionInv /\ (predictPasses \/ handlePassPredictionFailure) => PredictionInv'
<1> SUFFICES ASSUME PredictionInv, predictPasses \/ handlePassPredictionFailure PROVE PredictionInv' BY Zenon
<1>0. IsStatus(work.status) BY Zenon DEF PredictionInv, Types
<1>1. CASE predictPasses
  <2>1. PICK of : of = [now |-> work.now, omms |-> work.omms] BY Zenon
  <2>2. PICK windows : windows = PredictPasses(SkyOver(config, work.omms), work.now, effectivePassHorizon(config.horizon))
    BY Zenon
  <2>3. PICK st : st = [work.status EXCEPT !.predicted = "True", !.windows = windows, !.of = of] BY Zenon
  <2>4. st = [predicted |-> "True", windows |-> windows, sweptAt |-> work.status.sweptAt, sig |-> work.status.sig,
              epoch |-> work.status.epoch, of |-> of]
    BY <1>0, <2>3, Zenon DEF IsStatus
  <2>5. IsStatus(st) /\ st.predicted = "True" /\ st.windows = windows /\ st.of = of BY <2>4, Zenon DEF IsStatus
  <2>6. windows = Swath(config, of, stations)
    <3>1. SkyOver(config, work.omms) = SkyOf(config, work.omms, stations) BY Zenon DEF SkyOver, SkyOf
    <3>2. of.now = work.now /\ of.omms = work.omms BY <2>1, Zenon
    <3> QED BY <2>2, <3>1, <3>2, Zenon DEF Swath
  <2>7. Swept(st) /\ work.stage = "sweep" BY <1>1, <2>1, <2>2, <2>3, Zenon DEF predictPasses
  <2> QED BY <2>5, <2>6, <2>7, SweptStep, Zenon
<1>2. CASE handlePassPredictionFailure
  <2>1. PICK st : st = [work.status EXCEPT !.predicted = "False", !.windows = {}, !.of = NoSweep] BY Zenon
  <2>2. st = [predicted |-> "False", windows |-> {}, sweptAt |-> work.status.sweptAt, sig |-> work.status.sig,
              epoch |-> work.status.epoch, of |-> NoSweep]
    BY <1>0, <2>1, Zenon DEF IsStatus
  <2>3. IsStatus(st) /\ st.predicted = "False" BY <2>2, Zenon DEF IsStatus
  <2>4. Swept(st) /\ work.stage = "sweep" BY <1>2, <2>1, Zenon DEF handlePassPredictionFailure
  <2> QED BY <2>3, <2>4, SweptStep, Zenon
<1> QED BY <1>1, <1>2, Zenon

LEMMA NextStep == PredictionInv /\ [Next]_vars => PredictionInv'
BY EnvironmentStep, EditStationStep, ReconcileStep, SweepStep, Zenon DEF Next, Worker

(* ResolvedWindowsReflectInputs, for any stations, places, specs, skies    *)
(* and edits between the reads of a reconcile: a signature of versions     *)
(* that is current again was never anything else in between.               *)
THEOREM WindowsAreCurrent == Spec => []ResolvedWindowsReflectInputs
<1>1. PredictionInv => ResolvedWindowsReflectInputs
  <2> SUFFICES ASSUME PredictionInv, InStep, Resolvable(config) PROVE status.windows = LiveWindows
    BY Zenon DEF ResolvedWindowsReflectInputs
  <2>1. PICK x : x = [config |-> config, stations |-> [s \in config.stations |->
                        IF s = Nobody \/ stations[s].phase = "absent" THEN <<"absent">>
                        ELSE <<stations[s].phase, stations[s].version>>]]
    BY Zenon
  <2>2. status.predicted = "True" /\ status.sig = {x}
    BY <2>1, Zenon DEF InStep, LiveSignature, passPredictionInputSignature
  <2>3. x.config = config /\ Current(x, stations)
    BY <2>1, PredictionAssumption, Zenon DEF Current, Resolvable, PredictionInv, Types
  <2>4. status.windows = Swath(config, status.of, stations) BY <2>2, <2>3, Zenon
                                                               DEF PredictionInv, Good, Faithful
  <2>5. SkyOver(config, status.of.omms) = SkyOf(config, status.of.omms, stations) BY Zenon DEF SkyOver, SkyOf
  <2> QED BY <2>4, <2>5, Zenon DEF Swath, LiveWindows
<1> QED BY <1>1, InitPrediction, NextStep, PTL DEF Spec

(* NoWriteVouchesForOldInputs, for the same: persistEphStatus never writes *)
(* PassesPredicted=True under a signature other than the one the reconcile *)
(* has read.                                                               *)
THEOREM WritesVouchForInputsRead == Spec => NoWriteVouchesForOldInputs
<1>1. PredictionInv /\ [Next]_vars => [status' # status /\ status'.predicted = "True" => status'.sig = work.sig]_vars
  BY Zenon
     DEF PredictionInv, Running, Next, Worker, Tick, EditConfig, EditStation, Handoff, WriteA, WriteB,
     predictPasses,
         handlePassPredictionFailure, Reconcile, ReconcileUnfetched, GiveUp, Swept, persistEphStatus, vars
<1> QED BY <1>1, InitPrediction, NextStep, PTL DEF Spec, NoWriteVouchesForOldInputs

(***************************************************************************)
(* The contact of a slice.                                                 *)
(***************************************************************************)
Dated(st) == (\A sat \in DOMAIN st.epoch : st.epoch[sat] \in Int) /\ st.of.now \in Int

(* What the windows and the element sets of a status are measured in. *)
ContactTypes ==
  /\ clock \in Nat
  /\ \A s \in Stations : stations[s].place \in Places
  /\ Dated(status) /\ Dated(work.status) /\ work.now \in Int

(* A sweep leaves the element sets alone. *)
LEMMA SweptEpoch ==
  ASSUME IsWork(work), IsStatus(work.status), Dated(work.status),
         NEW predicted, NEW windows, NEW of, of.now \in Int, NEW st, Swept(st),
         st = [work.status EXCEPT !.predicted = predicted, !.windows = windows, !.of = of]
  PROVE  Dated(work'.status) /\ work'.now = work.now
<1>1. st = [predicted |-> predicted, windows |-> windows, sweptAt |-> work.status.sweptAt, sig |-> work.status.sig,
            epoch |-> work.status.epoch, of |-> of]
  BY Zenon DEF IsStatus
<1>2. PICK new : new = [st EXCEPT !.sweptAt = clock, !.sig = StampedSignature(work.sig, config)]
  BY Zenon
<1>3. new.epoch = work.status.epoch /\ new.of = of
  BY <1>1, <1>2, Zenon
<1>4. work' = [work EXCEPT !.stage = "writeB", !.status = new]
  BY <1>2, Zenon DEF Swept
<1>5. work'.status = new /\ work'.now = work.now
  BY <1>4, Zenon DEF IsWork
<1> QED BY <1>3, <1>5, Zenon DEF Dated

(* The element sets that a reconcile goes on with are those it acquired or those of a status before. *)
LEMMA EpochFrom ==
  ASSUME Types, ContactTypes, [Next]_vars
  PROVE  Dated(work'.status) /\ work'.now \in Int
<1>n. Never \in Int /\ NoSweep.now \in Int
  BY DEF Never, NoSweep
<1>0. Dated(Idle.status) /\ Idle.now \in Int /\ Dated(status) /\ Dated(work.status) /\ work.now \in Int
  <2>1. Idle.status.epoch = <<>> /\ Idle.status.of = NoSweep /\ Idle.now = Never
    BY Zenon DEF Idle
  <2>2. Dated(Idle.status)
    BY <1>n, <2>1 DEF Dated
  <2> QED BY <1>n, <2>1, <2>2, Zenon DEF ContactTypes
<1>t. IsStatus(status) /\ IsWork(work) /\ IsStatus(work.status)
  BY Zenon DEF Types
<1>1. CASE work' = Idle
  BY <1>0, <1>1, Zenon
<1>2. CASE EditConfig /\ work' # Idle
  <2>1. work' = [Idle EXCEPT !.stage = "conflict"]
    BY <1>2, Zenon DEF EditConfig
  <2>2. work'.status = Idle.status /\ work'.now = Idle.now
    BY <2>1, IdleFields, Zenon DEF Idle
  <2> QED BY <1>0, <2>2, Zenon
<1>3. CASE Reconcile
  <2>1. PICK epoch, sig :
          /\ epoch \in Acquisitions /\ work'.status = WithdrawStale(Propagated(status, epoch), config, sig)
          /\ work'.now \in {clock, Never}
    <3>1. PICK e, g, due, now, omms :
            /\ e \in Acquisitions /\ now \in {clock, Never}
            /\ work' = [stage |-> "writeA", due |-> due, sig |-> g, now |-> now, omms |-> omms,
                        status |-> WithdrawStale(Propagated(status, e), config, g)]
      BY <1>3, Zenon DEF Reconcile
    <3>2. work'.status = WithdrawStale(Propagated(status, e), config, g) /\ work'.now = now
      BY <3>1, Zenon
    <3> QED BY <3>1, <3>2, Zenon
  <2>p. PICK before : before = Propagated(status, epoch)
    BY Zenon
  <2> DEFINE after == WithdrawStale(before, config, sig)
  <2>2. before = [predicted |-> status.predicted, windows |-> status.windows, sweptAt |-> status.sweptAt,
                  sig |-> status.sig, epoch |-> epoch, of |-> status.of]
    BY <1>t, <2>p, Zenon DEF Propagated, IsStatus
  <2>3. IsStatus(before) /\ before.epoch = epoch /\ before.of = status.of
    BY <2>2, Zenon DEF IsStatus
  <2>4. PICK gone : gone = invalidatePassPredictionStatus(before)
    BY Zenon
  <2>5. gone = [predicted |-> "absent", windows |-> {}, sweptAt |-> Never, sig |-> {}, epoch |-> before.epoch, of |-> NoSweep]
    BY <2>3, <2>4, Invalidated, Zenon
  <2>6. after \in {gone, [gone EXCEPT !.predicted = "Unknown"], before}
    BY <2>4, Zenon DEF WithdrawStale
  <2>7. after.epoch = epoch /\ after.of \in {status.of, NoSweep}
    BY <2>3, <2>5, <2>6
  <2>8. after.of.now \in Int
    BY <1>n, <1>0, <2>7, Zenon DEF Dated
  <2>9. work'.now \in Int
    BY <1>n, <2>1 DEF ContactTypes
  <2> QED BY <2>1, <2>p, <2>7, <2>8, <2>9, PredictionAssumption, Zenon DEF Dated
<1>4. CASE ReconcileUnfetched
  <2>1. PICK st : st = invalidatePassPredictionStatus(status)
    BY Zenon
  <2>2. st.epoch = status.epoch /\ st.of = NoSweep
    BY <1>t, <2>1, Invalidated
  <2>3. work' = [Idle EXCEPT !.stage = "writeA", !.status = st]
    BY <1>4, <2>1, Zenon DEF ReconcileUnfetched
  <2>4. work'.status = st /\ work'.now = Idle.now
    BY <2>3, Zenon DEF Idle
  <2> QED BY <1>n, <1>0, <2>2, <2>4, Zenon DEF Dated
<1>5. CASE predictPasses
  <2>1. PICK windows, of, st :
          st = [work.status EXCEPT !.predicted = "True", !.windows = windows, !.of = of] /\ Swept(st)
          /\ of = [now |-> work.now, omms |-> work.omms]
    BY <1>5, Zenon DEF predictPasses
  <2>2. of.now \in Int
    BY <1>0, <2>1, Zenon
  <2> QED BY <1>0, <1>t, <2>1, <2>2, SweptEpoch, Zenon
<1>8. CASE handlePassPredictionFailure
  <2>1. PICK st :
          st = [work.status EXCEPT !.predicted = "False", !.windows = {}, !.of = NoSweep] /\ Swept(st)
    BY <1>8, Zenon DEF handlePassPredictionFailure
  <2> QED BY <1>n, <1>0, <1>t, <2>1, SweptEpoch, Zenon
<1>6. CASE WriteA /\ work' # Idle
  <2>1. work' = [work EXCEPT !.stage = "sweep"]
    BY <1>6, Zenon DEF WriteA
  <2>2. work'.status = work.status /\ work'.now = work.now
    BY <1>t, <2>1, Zenon DEF IsWork
  <2> QED BY <1>0, <2>2, Zenon
<1>7. CASE work' = work
  BY <1>0, <1>7, Zenon
<1> QED BY <1>1, <1>2, <1>3, <1>4, <1>5, <1>6, <1>7, <1>8, Zenon
        DEF Next, Worker, Tick, EditStation, Handoff, WriteB, GiveUp, vars

LEMMA ContactInit == Init => ContactTypes
<1> SUFFICES ASSUME Init PROVE ContactTypes
  BY Zenon
<1>1. clock = 0 /\ status = Idle.status /\ work.status = Idle.status /\ work.now = Never
  BY Zenon DEF Init, Idle
<1>2. Idle.status.epoch = <<>> /\ Idle.status.of.now = Never
  BY Zenon DEF Idle, NoSweep
<1>3. Never \in Int
  BY DEF Never
<1>4. Dated(Idle.status)
  BY <1>2, <1>3 DEF Dated
<1> QED BY <1>1, <1>3, <1>4, PredictionAssumption DEF Init, ContactTypes

LEMMA NextContact == Types /\ ContactTypes /\ [Next]_vars => ContactTypes'
<1> SUFFICES ASSUME Types, ContactTypes, [Next]_vars PROVE ContactTypes'
  BY Zenon
<1>1. clock' \in Nat
  BY DEF ContactTypes, Next, Worker, Tick, EditConfig, EditStation, Handoff, WriteA, WriteB, predictPasses,
         handlePassPredictionFailure, Reconcile, ReconcileUnfetched, GiveUp, Swept, vars
<1>2. status' = status \/ status' = work.status
  BY Zenon
     DEF Next, Worker, Tick, EditConfig, EditStation, Handoff, WriteA, WriteB, predictPasses, persistEphStatus,
         handlePassPredictionFailure, Reconcile, ReconcileUnfetched, GiveUp, Swept, vars
<1>3. \A s \in Stations : stations'[s].place \in Places
  <2>1. CASE EditStation
    BY <2>1 DEF EditStation, Types, ContactTypes
  <2>2. CASE stations' = stations
    BY <2>2, Zenon DEF ContactTypes
  <2> QED BY <2>1, <2>2, Zenon DEF Next, Worker, Tick, EditConfig, Handoff, WriteA, WriteB, predictPasses,
         handlePassPredictionFailure, Reconcile, ReconcileUnfetched, GiveUp, Swept, vars
<1> QED BY <1>1, <1>2, <1>3, EpochFrom, Zenon DEF ContactTypes

(* A set of naturals has a least element. *)
LEMMA LeastNatural ==
  ASSUME NEW T, T \subseteq Nat, T # {}
  PROVE  \E n \in T : \A m \in T : n <= m
<1> DEFINE R == OpToRel(<, Nat)
<1>1. IsWellFoundedOn(R, Nat)
  BY NatLessThanWellFounded, Zenon
<1>2. \A a, b \in Nat : a < b => <<a, b>> \in R
  BY Zenon DEF OpToRel
<1> HIDE DEF R
<1>3. PICK n \in T : \A m \in T : ~(<<m, n>> \in R)
  BY <1>1, WFMin, Zenon
<1>4. \A m \in T : ~(m < n)
  BY <1>2, <1>3, Zenon
<1> QED BY <1>3, <1>4

(* The loop of checkSatelliteAvailability ends on a window that no other precedes. *)
LEMMA SoonestExists ==
  ASSUME NEW usable, usable # {}, NEW now \in Int,
         \A p \in usable : p.los \in Int /\ now < p.los /\ p.sat \in Nat /\ p.station \in Nat
  PROVE  \E p \in usable : \A q \in usable : ~earlierLOSCandidate(q, p)
<1> DEFINE A == {p.los - now : p \in usable}
<1>1. A \subseteq Nat /\ A # {}
  OBVIOUS
<1>2. PICK a \in A : \A b \in A : a <= b
  BY <1>1, LeastNatural, Zenon
<1> DEFINE U == {p \in usable : p.los - now = a}
           B == {p.sat : p \in U}
<1>3. B \subseteq Nat /\ B # {}
  BY <1>2, Zenon
<1>4. PICK sat \in B : \A b \in B : sat <= b
  <2> HIDE DEF B
  <2> QED BY <1>3, LeastNatural, Zenon
<1> DEFINE V == {p \in U : p.sat = sat}
           C == {p.station : p \in V}
<1>5. C \subseteq Nat /\ C # {}
  BY <1>4, Zenon
<1>6. PICK station0 \in C : \A b \in C : station0 <= b
  <2> HIDE DEF C
  <2> QED BY <1>5, LeastNatural, Zenon
<1>7. PICK p \in V : p.station = station0
  BY <1>6, Zenon
<1>8. p \in usable /\ p.los - now = a /\ p.sat = sat
  BY <1>7, Zenon
<1>9. ASSUME NEW q \in usable PROVE ~earlierLOSCandidate(q, p)
  <2>1. p.los <= q.los
    <3>1. q.los - now \in A /\ q.los \in Int /\ p.los \in Int
      BY <1>8, Zenon
    <3> HIDE DEF A, U, B, V, C
    <3>2. p.los - now <= q.los - now
      BY <1>2, <1>8, <3>1, Zenon
    <3> QED BY <3>1, <3>2
  <2>2. q.los = p.los => p.sat <= q.sat
    BY <1>4, <1>8, Zenon
  <2>3. q.los = p.los /\ q.sat = p.sat => p.station <= q.station
    BY <1>6, <1>7, <1>8, Zenon
  <2> HIDE DEF A, U, B, V, C
  <2> QED BY <1>8, <2>1, <2>2, <2>3 DEF earlierLOSCandidate
<1> QED BY <1>8, <1>9, Zenon

(* The cap drops windows and adds none. *)
LEMMA CapKeeps ==
  ASSUME NEW passes, NEW limit
  PROVE  capPerSatellite(passes, limit) \subseteq passes
BY Zenon DEF capPerSatellite, Earliest

(* Rounding inwards to whole seconds. *)
LEMMA Rounding ==
  ASSUME NEW t \in Int
  PROVE  /\ ceilToSecond(t) \in Int /\ t <= ceilToSecond(t)
         /\ floorToSecond(t) \in Int /\ floorToSecond(t) <= t
<1>1. Second \in Nat \ {0}
  BY PassesAssumption, Zenon
<1>2. ASSUME NEW u \in Int
      PROVE  /\ u \div Second \in Int /\ u % Second \in 0..(Second - 1)
             /\ u = Second * (u \div Second) + (u % Second)
  BY <1>1
<1>3. ASSUME NEW u \in Int
      PROVE  (u \div Second) * Second \in Int /\ (u \div Second) * Second <= u /\ u - Second < (u \div Second) * Second
  BY <1>1, <1>2
<1>4. t + Second - 1 \in Int
  BY <1>1
<1> QED BY <1>1, <1>3, <1>4 DEF ceilToSecond, floorToSecond

(* A pass cut to the sweep and rounded lies within the pass. *)
LEMMA ClippedWindow ==
  ASSUME NEW p, p.aos \in Int, p.los \in Int, NEW start \in Int, NEW stop \in Int
  PROVE  LET w == conservativePassWindow(Clipped(p, start, stop))
         IN  /\ w = [sat |-> w.sat, station |-> w.station, aos |-> w.aos, los |-> w.los]
             /\ w.sat = p.sat /\ w.station = p.station
             /\ w.aos \in Int /\ p.aos <= w.aos
             /\ w.los \in Int /\ w.los <= p.los
<1>1. PICK aos, los : /\ aos = IF p.aos < start THEN start ELSE p.aos
                      /\ los = IF p.los > stop THEN stop ELSE p.los
  BY Zenon
<1>2. aos \in Int /\ p.aos <= aos /\ los \in Int /\ los <= p.los
  BY <1>1
<1>3. PICK cut : cut = Clipped(p, start, stop)
  BY Zenon
<1>4. cut = [sat |-> p.sat, station |-> p.station, aos |-> aos, los |-> los]
  BY <1>1, <1>3, Zenon DEF Clipped
<1>c. cut.aos = aos /\ cut.los = los
  BY <1>4, Zenon
<1>6. PICK up, down : up = ceilToSecond(aos) /\ down = floorToSecond(los)
  BY Zenon
<1>w. PICK w : w = conservativePassWindow(cut)
  BY Zenon
<1>d. w = [cut EXCEPT !.aos = up, !.los = down]
  BY <1>6, <1>c, <1>w, Zenon DEF conservativePassWindow
<1>5. w = [sat |-> p.sat, station |-> p.station, aos |-> up, los |-> down]
  BY <1>4, <1>d, Zenon
<1>7. up \in Int /\ aos <= up /\ down \in Int /\ down <= los
  BY <1>2, <1>6, Rounding, Zenon
<1>8. p.aos <= up /\ down <= p.los
  BY <1>2, <1>7
<1>9. w.sat = p.sat /\ w.station = p.station /\ w.aos = up /\ w.los = down
  BY <1>5, Zenon
<1> QED BY <1>3, <1>w, <1>5, <1>7, <1>8, <1>9, Zenon

(* The sweep of a status begins and ends at a time. *)
LEMMA SweepTimes ==
  ASSUME Types, NEW start \in Int
  PROVE  start + effectivePassHorizon(config.horizon) \in Int
<1>1. config.horizon \in Int
  BY PredictionAssumption, Zenon DEF Types
<1>2. effectivePassHorizon(config.horizon) \in Int
  BY <1>1, PassesAssumption DEF effectivePassHorizon
<1> QED BY <1>2

(* Every window of the live inputs lies within a pass of the sky over its station. *)
LEMMA WindowOfSky ==
  ASSUME Types, ContactTypes, NEW w \in LiveWindows
  PROVE  /\ w.sat \in Nat /\ w.station \in Stations /\ w.aos \in Int /\ w.los \in Int
         /\ \E p \in Sky[stations[w.station].place] : p.sat = w.sat /\ p.aos \in Int /\ p.los \in Int
                                                      /\ p.aos <= w.aos /\ w.los <= p.los
<1> DEFINE sky == SkyOver(config, status.of.omms)
<1>1. w \in Predicted(sky, status.of.now, effectivePassHorizon(config.horizon))
  BY CapKeeps, Zenon DEF LiveWindows, PredictPasses
<1>t. PICK start, stop : start = status.of.now /\ stop = start + effectivePassHorizon(config.horizon)
  BY Zenon
<1>i. start \in Int /\ stop \in Int
  BY <1>t, SweepTimes, Zenon DEF ContactTypes, Dated
<1>2. PICK v \in sky : w = conservativePassWindow(Clipped(v, start, stop))
  BY <1>1, <1>t, Zenon DEF Predicted
<1>s. PICK s \in config.stations : \E p \in Sky[stations[s].place] :
        v = [sat |-> p.sat, station |-> s, aos |-> p.aos, los |-> p.los]
  BY <1>2, Zenon DEF SkyOver
<1>3. PICK p \in Sky[stations[s].place] : v = [sat |-> p.sat, station |-> s, aos |-> p.aos, los |-> p.los]
  BY <1>s, Zenon
<1>4. s \in Stations /\ stations[s].place \in Places
  BY PredictionAssumption, Zenon DEF Types, ContactTypes
<1>5. p.sat \in Nat /\ p.aos \in Int /\ p.los \in Int
  BY <1>4, PredictionAssumption, Zenon
<1>6. v.sat = p.sat /\ v.station = s /\ v.aos = p.aos /\ v.los = p.los
  BY <1>3, Zenon
<1>7. /\ w.sat = v.sat /\ w.station = v.station
      /\ w.aos \in Int /\ v.aos <= w.aos /\ w.los \in Int /\ w.los <= v.los
  BY <1>i, <1>2, <1>5, <1>6, ClippedWindow, Zenon
<1> QED BY <1>4, <1>5, <1>6, <1>7, Zenon

(* A contact of checkSatelliteAvailability is one of the windows, active and deliverable, until the end of the
   window or until its elements age out. *)
LEMMA ContactIsWindow ==
  ASSUME ContactTypes, Contact.available,
         \A p \in status.windows : p.sat \in Nat /\ p.station \in Nat /\ p.los \in Int
  PROVE  /\ Contact.pass \in status.windows /\ Active(Contact.pass, clock)
         /\ ~Stale(Contact.pass.sat, status.epoch, clock)
         /\ Contact.validUntil \in Int /\ Contact.validUntil <= Contact.pass.los
         /\ Contact.pass.sat \in DOMAIN status.epoch =>
              Contact.validUntil <= status.epoch[Contact.pass.sat] + MaxEpochAge
<1> DEFINE usable == {p \in {q \in status.windows : Active(q, clock)} : ~Stale(p.sat, status.epoch, clock)}
           best == CHOOSE p \in usable : \A q \in usable : ~earlierLOSCandidate(q, p)
           expiry == IF best.sat \in DOMAIN status.epoch THEN status.epoch[best.sat] + MaxEpochAge ELSE best.los
           until == IF expiry < best.los THEN expiry ELSE best.los
<1>1. usable # {} /\ Contact = [known |-> TRUE, available |-> TRUE, reason |-> "ConstellationMemberAvailable",
                                pass |-> best, validUntil |-> until]
  <2>1. Unknown("PredictionUnavailable").available = FALSE
    BY Zenon DEF Unknown
  <2>2. Unavailable("AllCandidatesStale").available = FALSE /\ Unavailable("NoActiveContact").available = FALSE
    BY Zenon DEF Unavailable, Unknown
  <2>3. status.predicted = "True"
    BY <2>1, Zenon DEF Contact, checkSatelliteAvailability
  <2>4. usable # {}
    BY <2>2, <2>3, Zenon DEF Contact, checkSatelliteAvailability
  <2> QED BY <2>3, <2>4, Zenon DEF Contact, checkSatelliteAvailability
<1>2. \E p \in usable : \A q \in usable : ~earlierLOSCandidate(q, p)
  <2>1. clock \in Int /\ \A p \in usable : p.los \in Int /\ clock < p.los /\ p.sat \in Nat /\ p.station \in Nat
    BY DEF ContactTypes, Active
  <2> HIDE DEF usable
  <2> QED BY <1>1, <2>1, SoonestExists, Zenon
<1>3. best \in usable
  BY <1>2, Zenon
<1>4. best \in status.windows /\ Active(best, clock) /\ ~Stale(best.sat, status.epoch, clock) /\ best.los \in Int
  BY <1>3, Zenon
<1> HIDE DEF best
<1>5. best.sat \in DOMAIN status.epoch => status.epoch[best.sat] + MaxEpochAge \in Int
  BY PassesAssumption DEF ContactTypes, Dated
<1>6. until \in Int /\ until <= best.los
      /\ (best.sat \in DOMAIN status.epoch => until <= status.epoch[best.sat] + MaxEpochAge)
  BY <1>4, <1>5
<1>7. Contact.pass = best /\ Contact.validUntil = until
  <2> HIDE DEF until, usable
  <2> QED BY <1>1, Zenon
<1> HIDE DEF until, usable
<1> QED BY <1>4, <1>6, <1>7, Zenon

(* checkSatelliteAvailability on the windows of predictPasses: for any sky, stations and element sets, a contact
   that a slice fails over on holds until its validUntil, rounding and the cap included. *)
THEOREM ContactsHold == Spec => []ContactHoldsUntilItsEnd
<1>1. ASSUME PredictionInv, ContactTypes, ResolvedWindowsReflectInputs
      PROVE  ContactHoldsUntilItsEnd
  <2> SUFFICES ASSUME InStep, Resolvable(config), Contact.available,
                      NEW t \in {clock} \cup clock..(Contact.validUntil - 1)
               PROVE  /\ ~Stale(Contact.pass.sat, status.epoch, t)
                      /\ \E p \in Sky[stations[Contact.pass.station].place] :
                           p.sat = Contact.pass.sat /\ p.aos <= t /\ t < p.los
    BY Zenon DEF ContactHoldsUntilItsEnd
  <2> DEFINE pass == Contact.pass
             until == Contact.validUntil
  <2>1. Types /\ status.windows = LiveWindows
    BY <1>1, Zenon DEF PredictionInv, ResolvedWindowsReflectInputs
  <2>2. \A p \in status.windows : p.sat \in Nat /\ p.station \in Nat /\ p.los \in Int
    BY <1>1, <2>1, WindowOfSky, PredictionAssumption, Zenon
  <2>3. /\ pass \in status.windows /\ Active(pass, clock) /\ ~Stale(pass.sat, status.epoch, clock)
        /\ until \in Int /\ until <= pass.los
        /\ pass.sat \in DOMAIN status.epoch => until <= status.epoch[pass.sat] + MaxEpochAge
    BY <1>1, <2>2, ContactIsWindow, Zenon
  <2>4. /\ pass.aos \in Int /\ pass.los \in Int
        /\ \E p \in Sky[stations[pass.station].place] : p.sat = pass.sat /\ p.aos \in Int /\ p.los \in Int
                                                        /\ p.aos <= pass.aos /\ pass.los <= p.los
    BY <1>1, <2>1, <2>3, WindowOfSky, Zenon
  <2>5. clock \in Nat /\ MaxEpochAge \in Nat /\ Dated(status)
    BY <1>1, PassesAssumption, Zenon DEF ContactTypes
  <2> HIDE DEF pass, until
  <2>6. t \in Int /\ clock <= t /\ (t = clock \/ t < until)
    BY <2>3, <2>5 DEF until
  <2>7. pass.aos <= t /\ t < pass.los
    BY <2>3, <2>4, <2>5, <2>6 DEF Active
  <2>8. ~Stale(pass.sat, status.epoch, t)
    BY <2>3, <2>5, <2>6 DEF Stale, sourceEpochFresh, Dated
  <2>9. \E p \in Sky[stations[pass.station].place] : p.sat = pass.sat /\ p.aos <= t /\ t < p.los
    <3>1. PICK p \in Sky[stations[pass.station].place] :
            p.sat = pass.sat /\ p.aos \in Int /\ p.los \in Int /\ p.aos <= pass.aos /\ pass.los <= p.los
      BY <2>4, Zenon
    <3>2. p.aos <= t /\ t < p.los
      BY <2>4, <2>6, <2>7, <3>1
    <3> QED BY <3>1, <3>2, Zenon
  <2> QED BY <2>8, <2>9, Zenon DEF pass
<1>2. Init => ContactTypes
  BY ContactInit, Zenon
<1>3. PredictionInv => Types
  BY Zenon DEF PredictionInv
<1> QED BY <1>1, <1>2, <1>3, InitPrediction, NextStep, NextContact, WindowsAreCurrent, PTL DEF Spec

(***************************************************************************)
(* The cap of the windows.                                                 *)
(***************************************************************************)
(* No two satellites have the same bounded name. *)
DistinctNames == \A a, b \in Sats : Label[a] = Label[b] => a = b

IsPass(p) ==
  /\ p = [sat |-> p.sat, station |-> p.station, aos |-> p.aos, los |-> p.los]
  /\ p.sat \in Sats /\ p.station \in Nat /\ p.aos \in Int /\ p.los \in Int
ArePasses(S) == IsFiniteSet(S) /\ \A p \in S : IsPass(p)

(* With distinct names, lessPass is a strict total order. *)
LEMMA LessPassOrder ==
  ASSUME DistinctNames
  PROVE  /\ \A p : IsPass(p) => ~lessPass(p, p)
         /\ \A p, q, r : IsPass(p) /\ IsPass(q) /\ IsPass(r) /\ lessPass(p, q) /\ lessPass(q, r) => lessPass(p, r)
         /\ \A p, q : IsPass(p) /\ IsPass(q) /\ p # q => lessPass(p, q) \/ lessPass(q, p)
<1>0. \A p : IsPass(p) => /\ Label[p.sat] \in Nat /\ p.sat \in Sats /\ p.station \in Nat /\ p.aos \in Int /\ p.los \in Int
  BY SkyAssumption, Zenon DEF IsPass
<1>1. ASSUME NEW p, IsPass(p) PROVE ~lessPass(p, p)
  BY <1>0, <1>1 DEF lessPass
<1>2. ASSUME NEW p, NEW q, NEW r, IsPass(p), IsPass(q), IsPass(r), lessPass(p, q), lessPass(q, r) PROVE lessPass(p, r)
  BY <1>0, <1>2 DEF lessPass
<1>3. ASSUME NEW p, NEW q, IsPass(p), IsPass(q), p # q PROVE lessPass(p, q) \/ lessPass(q, p)
  <2> SUFFICES ASSUME ~lessPass(p, q), ~lessPass(q, p) PROVE FALSE
    BY Zenon
  <2>1. p.aos = q.aos /\ Label[p.sat] = Label[q.sat] /\ p.station = q.station /\ p.los = q.los
    BY <1>0, <1>3 DEF lessPass
  <2>2. p.sat = q.sat
    BY <1>0, <1>3, <2>1, Zenon DEF DistinctNames
  <2> QED BY <1>3, <2>1, <2>2, Zenon DEF IsPass
<1> QED BY <1>1, <1>2, <1>3, Zenon

(* A rank is a number, and grows along the order: what comes before an earlier pass, and that pass itself,
   come before the later one.  T are the passes counted, all of them or those of one name. *)
LEMMA RankGrows ==
  ASSUME DistinctNames, NEW T, ArePasses(T), NEW p \in T, NEW q, IsPass(q), lessPass(p, q)
  PROVE  /\ Cardinality(Before(p, T)) \in Nat /\ Cardinality(Before(q, T)) \in Nat
         /\ Cardinality(Before(p, T)) < Cardinality(Before(q, T))
<1>1. Before(p, T) \in SUBSET T /\ Before(q, T) \in SUBSET T /\ IsFiniteSet(T) /\ IsPass(p)
  BY Zenon DEF Before, ArePasses
<1>2. IsFiniteSet(Before(p, T)) /\ IsFiniteSet(Before(q, T))
  BY <1>1, FS_Subset, Zenon
<1>3. p \notin Before(p, T)
  BY <1>1, LessPassOrder, Zenon DEF Before
<1>4. Before(p, T) \cup {p} \in SUBSET Before(q, T)
  BY <1>1, LessPassOrder, Zenon DEF Before, ArePasses
<1>5. Cardinality(Before(p, T) \cup {p}) = Cardinality(Before(p, T)) + 1
  BY <1>2, <1>3, FS_AddElement, Zenon
<1>6. Cardinality(Before(p, T) \cup {p}) <= Cardinality(Before(q, T))
  BY <1>2, <1>4, FS_Subset, Zenon
<1>7. Cardinality(Before(p, T)) \in Nat /\ Cardinality(Before(q, T)) \in Nat
  BY <1>2, FS_CardinalityType, Zenon
<1> QED BY <1>5, <1>6, <1>7

(* No more than n passes are the earliest n. *)
LEMMA EarliestFit ==
  ASSUME DistinctNames, NEW S, ArePasses(S), NEW n \in Nat
  PROVE  ArePasses(Earliest(S, n)) /\ Cardinality(Earliest(S, n)) <= n
<1> DEFINE E == Earliest(S, n)
           f == [p \in E |-> Cardinality(Before(p, S))]
<1>1. E \in SUBSET S
  BY Zenon DEF Earliest
<1>2. \A p \in E : f[p] \in 0..(n - 1)
  <2> SUFFICES ASSUME NEW p \in E PROVE Cardinality(Before(p, S)) \in 0..(n - 1)
    BY Zenon
  <2>1. Before(p, S) \in SUBSET S /\ IsFiniteSet(S)
    BY Zenon DEF Before, ArePasses
  <2>2. Cardinality(Before(p, S)) \in Nat
    BY <2>1, FS_Subset, FS_CardinalityType, Zenon
  <2>3. Cardinality(Before(p, S)) < n
    BY Zenon DEF Earliest
  <2> QED BY <2>2, <2>3
<1>3. ASSUME NEW p \in E, NEW q \in E, f[p] = f[q] PROVE p = q
  <2>1. p \in S /\ q \in S /\ IsPass(p) /\ IsPass(q)
    BY <1>1, Zenon DEF ArePasses
  <2>2. ~lessPass(p, q)
    <3> SUFFICES ASSUME lessPass(p, q) PROVE FALSE BY Zenon
    <3>1. Cardinality(Before(p, S)) = Cardinality(Before(q, S)) BY <1>3, Zenon
    <3>2. /\ Cardinality(Before(p, S)) \in Nat /\ Cardinality(Before(q, S)) \in Nat
          /\ Cardinality(Before(p, S)) < Cardinality(Before(q, S))
      BY <2>1, RankGrows, Zenon
    <3> QED BY <3>1, <3>2
  <2>3. ~lessPass(q, p)
    <3> SUFFICES ASSUME lessPass(q, p) PROVE FALSE BY Zenon
    <3>1. Cardinality(Before(p, S)) = Cardinality(Before(q, S)) BY <1>3, Zenon
    <3>2. /\ Cardinality(Before(p, S)) \in Nat /\ Cardinality(Before(q, S)) \in Nat
          /\ Cardinality(Before(q, S)) < Cardinality(Before(p, S))
      BY <2>1, RankGrows, Zenon
    <3> QED BY <3>1, <3>2
  <2> QED BY <2>1, <2>2, <2>3, LessPassOrder, Zenon
<1>4. f \in Injection(E, 0..(n - 1))
  <2>1. f \in [E -> 0..(n - 1)]
    BY <1>2, Zenon
  <2>2. DOMAIN f = E BY Zenon
  <2> HIDE DEF f, E
  <2> QED BY <1>3, <2>1, <2>2, Zenon DEF Injection, IsInjective
<1>5. IsFiniteSet(0..(n - 1)) /\ Cardinality(0..(n - 1)) = n
  <2>1. 0 \in Int /\ n - 1 \in Int OBVIOUS
  <2> QED BY <2>1, FS_Interval
<1> HIDE DEF f, E
<1>6. IsFiniteSet(E) /\ Cardinality(E) <= Cardinality(0..(n - 1))
  BY <1>4, <1>5, FS_Injection, Zenon
<1> QED BY <1>1, <1>5, <1>6, Zenon DEF ArePasses, E

(* The passes of a name, and how many of them come before one. *)
Named(S, name) == {q \in S : Label[q.sat] = name}
OwnBefore(p, S) == {q \in Before(p, S) : Label[q.sat] = Label[p.sat]}
Names(S) == {Label[p.sat] : p \in S}
WithinQuota(S, quota) == {p \in S : Cardinality(OwnBefore(p, S)) < quota}

(* Among the passes of one name the ranks differ. *)
LEMMA OwnRanks ==
  ASSUME DistinctNames, NEW S, ArePasses(S)
  PROVE  /\ \A p \in S : Cardinality(OwnBefore(p, S)) \in Nat
         /\ \A p, q \in S : Label[p.sat] = Label[q.sat] /\ Cardinality(OwnBefore(p, S)) = Cardinality(OwnBefore(q, S)) => p = q
<1>1. ASSUME NEW p \in S PROVE Cardinality(OwnBefore(p, S)) \in Nat
  <2>1. OwnBefore(p, S) \in SUBSET S /\ IsFiniteSet(S)
    BY Zenon DEF OwnBefore, Before, ArePasses
  <2> QED BY <2>1, FS_Subset, FS_CardinalityType, Zenon
<1>2. ASSUME NEW p \in S, NEW q \in S, Label[p.sat] = Label[q.sat], lessPass(p, q)
      PROVE  Cardinality(OwnBefore(p, S)) # Cardinality(OwnBefore(q, S))
  <2>1. PICK T : T = Named(S, Label[p.sat])
    BY Zenon
  <2>2. OwnBefore(p, S) = Before(p, T) /\ OwnBefore(q, S) = Before(q, T)
    BY <1>2, <2>1, Zenon DEF OwnBefore, Before, Named
  <2>3. T \in SUBSET S /\ p \in T /\ IsPass(q)
    BY <1>2, <2>1, Zenon DEF Named, ArePasses
  <2>4. ArePasses(T)
    BY <2>3, FS_Subset, Zenon DEF ArePasses
  <2>5. /\ Cardinality(Before(p, T)) \in Nat /\ Cardinality(Before(q, T)) \in Nat
        /\ Cardinality(Before(p, T)) < Cardinality(Before(q, T))
    BY <1>2, <2>3, <2>4, RankGrows, Zenon
  <2> QED BY <2>2, <2>5
<1>3. ASSUME NEW p \in S, NEW q \in S, Label[p.sat] = Label[q.sat],
             Cardinality(OwnBefore(p, S)) = Cardinality(OwnBefore(q, S))
      PROVE  p = q
  <2>1. ~lessPass(p, q) /\ ~lessPass(q, p)
    BY <1>2, <1>3, Zenon
  <2> QED BY <2>1, LessPassOrder, Zenon DEF ArePasses
<1> QED BY <1>1, <1>3, Zenon

(* A pass within the quota is told from the others by its name and its rank. *)
LEMMA QuotaFits ==
  ASSUME DistinctNames, NEW S, ArePasses(S), IsFiniteSet(Names(S)), NEW quota \in Nat
  PROVE  /\ IsFiniteSet(WithinQuota(S, quota))
         /\ Cardinality(WithinQuota(S, quota)) <= Cardinality(Names(S)) * quota
<1> DEFINE K == WithinQuota(S, quota)
           T == Names(S) \X (0..(quota - 1))
           f == [p \in K |-> <<Label[p.sat], Cardinality(OwnBefore(p, S))>>]
<1>1. \A p \in K : p \in S /\ Label[p.sat] \in Names(S) /\ Cardinality(OwnBefore(p, S)) \in 0..(quota - 1)
  <2> SUFFICES ASSUME NEW p \in K
               PROVE  p \in S /\ Label[p.sat] \in Names(S) /\ Cardinality(OwnBefore(p, S)) \in 0..(quota - 1)
    BY Zenon
  <2>1. p \in S /\ Label[p.sat] \in Names(S) /\ Cardinality(OwnBefore(p, S)) < quota
    BY Zenon DEF WithinQuota, Names
  <2>2. Cardinality(OwnBefore(p, S)) \in Nat
    BY <2>1, OwnRanks, Zenon
  <2> QED BY <2>1, <2>2
<1>2. f \in [K -> T]
  BY <1>1
<1>3. ASSUME NEW p \in K, NEW q \in K, f[p] = f[q] PROVE p = q
  <2>1. <<Label[p.sat], Cardinality(OwnBefore(p, S))>> = <<Label[q.sat], Cardinality(OwnBefore(q, S))>>
    BY <1>3, Zenon
  <2>2. Label[p.sat] = Label[q.sat] /\ Cardinality(OwnBefore(p, S)) = Cardinality(OwnBefore(q, S))
    BY <2>1
  <2> QED BY <1>1, <2>2, OwnRanks, Zenon
<1>4. f \in Injection(K, T)
  <2>1. DOMAIN f = K BY Zenon
  <2> HIDE DEF f, K, T
  <2> QED BY <1>2, <1>3, <2>1, Zenon DEF Injection, IsInjective
<1>5. IsFiniteSet(0..(quota - 1)) /\ Cardinality(0..(quota - 1)) = quota
  <2>1. 0 \in Int /\ quota - 1 \in Int OBVIOUS
  <2> QED BY <2>1, FS_Interval
<1>6. IsFiniteSet(T) /\ Cardinality(T) = Cardinality(Names(S)) * quota
  BY <1>5, FS_Product, Zenon
<1> HIDE DEF f, K, T
<1>7. IsFiniteSet(K) /\ Cardinality(K) <= Cardinality(T)
  BY <1>4, <1>6, FS_Injection, Zenon
<1> QED BY <1>6, <1>7, Zenon DEF K

(* Two equal names are of one satellite, so there are no more names than satellites. *)
LEMMA NamesFit ==
  ASSUME IsFiniteSet(Sats), NEW S, ArePasses(S)
  PROVE  IsFiniteSet(Names(S)) /\ Cardinality(Names(S)) <= Cardinality(Sats)
<1> DEFINE g == [n \in Names(S) |-> CHOOSE s \in Sats : Label[s] = n]
<1>1. ASSUME NEW n \in Names(S) PROVE g[n] \in Sats /\ Label[g[n]] = n
  <2>1. \E s \in Sats : Label[s] = n
    BY Zenon DEF Names, ArePasses, IsPass
  <2>2. PICK t : t = (CHOOSE s \in Sats : Label[s] = n)
    BY Zenon
  <2>3. t \in Sats /\ Label[t] = n
    BY <2>1, <2>2, Zenon
  <2>4. g[n] = t
    BY <2>2, Zenon
  <2> QED BY <2>3, <2>4, Zenon
<1>2. DOMAIN g = Names(S)
  BY Zenon
<1>3. g \in [Names(S) -> Sats]
  BY <1>1, Zenon
<1> HIDE DEF g
<1>4. ASSUME NEW a \in Names(S), NEW b \in Names(S), g[a] = g[b] PROVE a = b
  BY <1>1, <1>4, Zenon
<1>5. g \in Injection(Names(S), Sats)
  BY <1>2, <1>3, <1>4, Zenon DEF Injection, IsInjective
<1> QED BY <1>5, FS_Injection, Zenon

(* capPerSatellite, its three parts named. *)
LEMMA CapParts ==
  ASSUME NEW S, NEW limit \in Nat, ~(Cardinality(S) <= limit)
  PROVE  \E share, quota, kept :
           /\ share = limit \div Cardinality(Names(S))
           /\ quota = IF share > 1 THEN share ELSE 1
           /\ kept = Earliest(WithinQuota(S, quota), limit)
           /\ capPerSatellite(S, limit) = kept \cup Earliest(S \ kept, limit - Cardinality(kept))
BY Zenon DEF capPerSatellite, Names, WithinQuota, OwnBefore

(* The cap holds for any number of satellites. *)
LEMMA CapFits ==
  ASSUME DistinctNames, NEW S, ArePasses(S), NEW limit \in Nat
  PROVE  Cardinality(capPerSatellite(S, limit)) <= limit
<1>1. CASE Cardinality(S) <= limit
  BY <1>1, Zenon DEF capPerSatellite
<1>2. CASE ~(Cardinality(S) <= limit)
  <2>1. PICK share, quota, kept :
          /\ share = limit \div Cardinality(Names(S))
          /\ quota = IF share > 1 THEN share ELSE 1
          /\ kept = Earliest(WithinQuota(S, quota), limit)
          /\ capPerSatellite(S, limit) = kept \cup Earliest(S \ kept, limit - Cardinality(kept))
    BY <1>2, CapParts, Zenon
  <2>2. WithinQuota(S, quota) \in SUBSET S /\ S \ kept \in SUBSET S
    BY Zenon DEF WithinQuota
  <2>3. ArePasses(WithinQuota(S, quota)) /\ ArePasses(S \ kept)
    BY <2>2, FS_Subset, Zenon DEF ArePasses
  <2>4. IsFiniteSet(kept) /\ Cardinality(kept) <= limit
    BY <2>1, <2>3, EarliestFit, Zenon DEF ArePasses
  <2>5. PICK n : n = limit - Cardinality(kept)
    BY Zenon
  <2>6. Cardinality(kept) \in Nat
    BY <2>4, FS_CardinalityType, Zenon
  <2>7. n \in Nat
    BY <2>4, <2>5, <2>6
  <2>8. PICK rest : rest = Earliest(S \ kept, n)
    BY Zenon
  <2>9. IsFiniteSet(rest) /\ Cardinality(rest) <= n
    BY <2>3, <2>7, <2>8, EarliestFit, Zenon DEF ArePasses
  <2>10. Cardinality(kept \cup rest) = Cardinality(kept) + Cardinality(rest) - Cardinality(kept \cap rest)
    BY <2>4, <2>9, FS_Union, Zenon
  <2>11. Cardinality(rest) \in Nat /\ Cardinality(kept \cap rest) \in Nat
    BY <2>4, <2>9, FS_Intersection, FS_CardinalityType, Zenon
  <2>12. Cardinality(kept \cup rest) <= limit
    BY <2>5, <2>6, <2>9, <2>10, <2>11
  <2> QED BY <2>1, <2>5, <2>8, <2>12, Zenon
<1> QED BY <1>1, <1>2, Zenon

(* A share is the quota of every name, and all shares together fit. *)
LEMMA SharesFit ==
  ASSUME NEW limit \in Nat, NEW n \in Nat \ {0}, n <= limit,
         NEW share, share = limit \div n, NEW quota, quota = IF share > 1 THEN share ELSE 1
  PROVE  quota \in Nat \ {0} /\ n * quota <= limit
<1>1. limit \div n \in Int /\ limit % n \in 0..(n - 1) /\ limit = n * (limit \div n) + (limit % n)
  OBVIOUS
<1>2. share \in Int /\ n * share \in Int /\ limit = n * share + (limit % n)
  BY <1>1
<1>3. n * share <= limit /\ limit < n * share + n
  BY <1>1, <1>2
<1>4. ~(share <= 0)
  <2> SUFFICES ASSUME share <= 0 PROVE FALSE
    BY Zenon
  <2>1. n * share <= 0
    BY <1>2
  <2> QED BY <1>2, <1>3, <2>1
<1>5. quota = share /\ share \in Nat \ {0}
  BY <1>2, <1>4
<1> QED BY <1>3, <1>5

(* The cap keeps the first pass of every satellite when a status has room for as many windows as there are
   satellites. *)
LEMMA CapKeepsFirst ==
  ASSUME DistinctNames, IsFiniteSet(Sats), NEW limit \in Nat, Cardinality(Sats) <= limit,
         NEW S, ArePasses(S), NEW p \in S, \A q \in S \ {p} : q.sat = p.sat => lessPass(p, q)
  PROVE  p \in capPerSatellite(S, limit)
<1>1. CASE Cardinality(S) <= limit
  BY <1>1, Zenon DEF capPerSatellite
<1>2. CASE ~(Cardinality(S) <= limit)
  <2>1. PICK share, quota, kept : /\ share = limit \div Cardinality(Names(S))
                                  /\ quota = IF share > 1 THEN share ELSE 1
                                  /\ kept = Earliest(WithinQuota(S, quota), limit)
                                  /\ capPerSatellite(S, limit) = kept \cup Earliest(S \ kept, limit - Cardinality(kept))
    BY <1>2, CapParts, Zenon
  <2>2. IsFiniteSet(Names(S)) /\ Cardinality(Names(S)) <= Cardinality(Sats) /\ Names(S) # {}
    BY NamesFit, Zenon DEF Names
  <2>3. Cardinality(Names(S)) \in Nat /\ Cardinality(Sats) \in Nat /\ Cardinality(Names(S)) # 0
    BY <2>2, FS_CardinalityType, FS_EmptySet, Zenon
  <2>4. PICK n \in Nat \ {0} : n = Cardinality(Names(S)) /\ n <= limit
    BY <2>2, <2>3
  <2>5. quota \in Nat \ {0} /\ n * quota <= limit
    BY <2>1, <2>4, SharesFit, Zenon
  <2>6. p \in WithinQuota(S, quota)
    <3>1. OwnBefore(p, S) = {}
      <4> SUFFICES ASSUME NEW q \in S, lessPass(q, p), Label[q.sat] = Label[p.sat] PROVE FALSE
        BY Zenon DEF OwnBefore, Before
      <4>1. IsPass(p) /\ IsPass(q)
        BY Zenon DEF ArePasses
      <4>2. q.sat = p.sat /\ q # p
        BY <4>1, LessPassOrder, Zenon DEF DistinctNames, IsPass
      <4>3. lessPass(p, q)
        BY <4>2, Zenon
      <4> QED BY <4>1, <4>3, LessPassOrder, Zenon
    <3>2. Cardinality(OwnBefore(p, S)) < quota
      <4>1. Cardinality(OwnBefore(p, S)) = 0
        BY <3>1, FS_EmptySet, Zenon
      <4> QED BY <2>5, <4>1
    <3> QED BY <3>2, Zenon DEF WithinQuota
  <2>7. PICK K : K = WithinQuota(S, quota)
    BY Zenon
  <2>8. IsFiniteSet(K) /\ Cardinality(K) <= n * quota
    <3>1. quota \in Nat
      BY <2>5
    <3> QED BY <2>2, <2>4, <2>7, <3>1, QuotaFits, Zenon
  <2>9. Before(p, K) \in SUBSET (K \ {p}) /\ p \in K
    BY <2>6, <2>7, LessPassOrder, Zenon DEF Before, ArePasses
  <2>10. Cardinality(Before(p, K)) <= Cardinality(K \ {p}) /\ Cardinality(K \ {p}) = Cardinality(K) - 1
    BY <2>8, <2>9, FS_RemoveElement, FS_Subset, Zenon
  <2>11. Cardinality(Before(p, K)) \in Nat /\ Cardinality(K) \in Nat
    BY <2>8, <2>9, FS_RemoveElement, FS_Subset, FS_CardinalityType, Zenon
  <2>12. n * quota \in Nat
    BY <2>4, <2>5
  <2>13. Cardinality(Before(p, K)) < limit
    BY <2>5, <2>8, <2>10, <2>11, <2>12
  <2>14. p \in kept
    BY <2>1, <2>7, <2>9, <2>13, Zenon DEF Earliest
  <2> QED BY <2>1, <2>14, Zenon
<1> QED BY <1>1, <1>2, Zenon

(* What a function gives for the elements of a finite set is finite. *)
LEMMA ImageFinite ==
  ASSUME NEW S, IsFiniteSet(S), NEW f
  PROVE  IsFiniteSet({f[x] : x \in S})
<1> DEFINE T == {f[x] : x \in S}
           g == [x \in S |-> f[x]]
<1>1. g \in Surjection(S, T)
  BY Zenon DEF Surjection
<1> HIDE DEF g, T
<1>2. IsFiniteSet(T)
  BY <1>1, FS_Surjection, Zenon
<1> QED BY <1>2, Zenon DEF T

(* A sweep has finitely many passes to order. *)
LEMMA SkyArePasses ==
  ASSUME Types, ContactTypes, NEW omms
  PROVE  ArePasses(SkyOver(config, omms))
<1> DEFINE up(s) == {q \in Sky[stations[s].place] : q.sat \in omms /\ (config.sats = {} \/ q.sat \in config.sats)}
           over(s) == {[sat |-> p.sat, station |-> s, aos |-> p.aos, los |-> p.los] : p \in up(s)}
           live == {t \in config.stations : stations[t].phase = "live"}
           f == [s \in live |-> over(s)]
<1>1. SkyOver(config, omms) = UNION {over(s) : s \in live}
  BY Zenon DEF SkyOver
<1>2. IsFiniteSet(live) /\ live \subseteq Stations
  <2>1. live \in SUBSET config.stations /\ config \in Configs
    BY Zenon DEF Types
  <2>2. IsFiniteSet(config.stations) /\ config.stations \subseteq Stations
    BY <2>1, SkyAssumption, PredictionAssumption, Zenon
  <2> HIDE DEF live
  <2> QED BY <2>1, <2>2, FS_Subset, Zenon
<1>3. ASSUME NEW s \in live PROVE IsFiniteSet(over(s)) /\ \A v \in over(s) : IsPass(v)
  <2>1. s \in Stations /\ stations[s].place \in Places
    BY <1>2, Zenon DEF ContactTypes
  <2>2. up(s) \in SUBSET Sky[stations[s].place] /\ IsFiniteSet(Sky[stations[s].place])
    BY <2>1, SkyAssumption, Zenon
  <2>3. IsFiniteSet(up(s))
    <3> HIDE DEF up
    <3> QED BY <2>2, FS_Subset, Zenon
  <2>4. PICK g : g = [p \in up(s) |-> [sat |-> p.sat, station |-> s, aos |-> p.aos, los |-> p.los]]
    BY Zenon
  <2>5. over(s) = {g[p] : p \in up(s)}
    <3> HIDE DEF up
    <3> QED BY <2>4, Zenon
  <2>6. IsFiniteSet(over(s))
    <3> HIDE DEF up
    <3>1. IsFiniteSet({g[p] : p \in up(s)})
      BY <2>3, ImageFinite, Zenon
    <3> HIDE DEF over
    <3> QED BY <2>5, <3>1, Zenon
  <2>7. ASSUME NEW v \in over(s) PROVE IsPass(v)
    <3>1. PICK p \in Sky[stations[s].place] : v = [sat |-> p.sat, station |-> s, aos |-> p.aos, los |-> p.los]
      BY Zenon
    <3>2. p.sat \in Sats /\ p.aos \in Int /\ p.los \in Int /\ s \in Nat
      BY <2>1, PredictionAssumption, Zenon
    <3>3. v.sat = p.sat /\ v.station = s /\ v.aos = p.aos /\ v.los = p.los
      BY <3>1, Zenon
    <3> QED BY <3>1, <3>2, <3>3, Zenon DEF IsPass
  <2> QED BY <2>6, <2>7, Zenon
<1>4. {over(s) : s \in live} = {f[s] : s \in live}
  <2> HIDE DEF live, over
  <2> QED BY Zenon
<1>5. PICK all : all = {over(s) : s \in live}
  BY Zenon
<1>6. IsFiniteSet(all)
  <2> HIDE DEF f, live, over
  <2> QED BY <1>2, <1>4, <1>5, ImageFinite, Zenon
<1>7. \A T \in all : IsFiniteSet(T) /\ \A v \in T : IsPass(v)
  <2> HIDE DEF live, over
  <2> QED BY <1>3, <1>5, Zenon
<1>8. IsFiniteSet(UNION all)
  BY <1>6, <1>7, FS_UNION, Zenon
<1> HIDE DEF f, live, over
<1> QED BY <1>1, <1>5, <1>7, <1>8, Zenon DEF ArePasses

(* The passes that are left of a sky once cut to the horizon and rounded. *)
LEMMA PredictedArePasses ==
  ASSUME NEW sky, ArePasses(sky), NEW start \in Int, NEW horizon, start + horizon \in Int
  PROVE  ArePasses(Predicted(sky, start, horizon))
<1> DEFINE window(p) == conservativePassWindow(Clipped(p, start, start + horizon))
<1>1. PICK Q : Q = {q \in sky : q.los > start /\ q.aos < start + horizon}
  BY Zenon
<1>2. Q \in SUBSET sky /\ IsFiniteSet(sky)
  BY <1>1, Zenon DEF ArePasses
<1>3. IsFiniteSet(Q)
  BY <1>2, FS_Subset, Zenon
<1>4. PICK f : f = [p \in Q |-> window(p)]
  BY Zenon
<1>5. PICK T : T = {window(p) : p \in Q}
  BY Zenon
<1>6. T = {f[p] : p \in Q}
  BY <1>4, <1>5, Zenon
<1>7. IsFiniteSet(T)
  BY <1>3, <1>6, ImageFinite, Zenon
<1>8. ASSUME NEW w \in T PROVE IsPass(w)
  <2>1. PICK p \in sky : w = window(p)
    BY <1>2, <1>5, Zenon
  <2>2. IsPass(p)
    BY Zenon DEF ArePasses
  <2>3. /\ w = [sat |-> w.sat, station |-> w.station, aos |-> w.aos, los |-> w.los]
        /\ w.sat = p.sat /\ w.station = p.station /\ w.aos \in Int /\ w.los \in Int
    BY <2>1, <2>2, ClippedWindow, Zenon DEF IsPass
  <2> QED BY <2>2, <2>3, Zenon DEF IsPass
<1>9. Predicted(sky, start, horizon) = {w \in T : w.aos < w.los}
  BY <1>1, <1>5, Zenon DEF Predicted
<1>10. Predicted(sky, start, horizon) \in SUBSET T
  BY <1>9, Zenon
<1> QED BY <1>7, <1>8, <1>10, FS_Subset, Zenon DEF ArePasses

(* capPerSatellite and checkSatelliteAvailability: with distinct names, and room for a window of every satellite,
   no number of passes of other satellites hides the first pass of one from the slices, for any sky. *)
THEOREM FirstPassesSeen ==
  DistinctNames /\ IsFiniteSet(Sats) /\ Cardinality(Sats) <= MaxPassWindows => (Spec => []FirstPassIsSeen)
<1> SUFFICES ASSUME DistinctNames, IsFiniteSet(Sats), Cardinality(Sats) <= MaxPassWindows
             PROVE  Spec => []FirstPassIsSeen
  BY Zenon
<1>1. ASSUME Types, ContactTypes, ResolvedWindowsReflectInputs
      PROVE  FirstPassIsSeen
  <2> DEFINE all == Predicted(SkyOver(config, status.of.omms), status.of.now, effectivePassHorizon(config.horizon))
  <2> SUFFICES ASSUME InStep, Resolvable(config), NEW p \in all, Active(p, clock), ~Stale(p.sat, status.epoch, clock),
                      \A q \in all \ {p} : q.sat = p.sat => lessPass(p, q)
               PROVE  Contact.available
    BY Zenon DEF FirstPassIsSeen
  <2>1. ArePasses(all)
    <3>1. status.of.now \in Int
      BY <1>1, Zenon DEF ContactTypes, Dated
    <3> QED BY <1>1, <3>1, SkyArePasses, PredictedArePasses, SweepTimes, Zenon
  <2>2. MaxPassWindows \in Nat
    BY PassesAssumption
  <2>3. p \in capPerSatellite(all, MaxPassWindows)
    <3> HIDE DEF all
    <3> QED BY <2>1, <2>2, CapKeepsFirst, Zenon
  <2>4. p \in status.windows
    BY <1>1, <2>3, Zenon DEF ResolvedWindowsReflectInputs, LiveWindows, PredictPasses
  <2>5. status.predicted = "True"
    BY Zenon DEF InStep
  <2> HIDE DEF all
  <2> DEFINE usable == {q \in {r \in status.windows : Active(r, clock)} : ~Stale(q.sat, status.epoch, clock)}
             best == CHOOSE q \in usable : \A r \in usable : ~earlierLOSCandidate(r, q)
             expiry == IF best.sat \in DOMAIN status.epoch THEN status.epoch[best.sat] + MaxEpochAge ELSE best.los
             until == IF expiry < best.los THEN expiry ELSE best.los
  <2>6. usable # {}
    BY <2>4, Zenon
  <2>7. Contact = [known |-> TRUE, available |-> TRUE, reason |-> "ConstellationMemberAvailable",
                   pass |-> best, validUntil |-> until]
    BY <2>5, <2>6, Zenon DEF Contact, checkSatelliteAvailability
  <2> HIDE DEF until, best
  <2> QED BY <2>7, Zenon
<1>2. Init => ContactTypes
  BY ContactInit, Zenon
<1>3. PredictionInv => Types
  BY Zenon DEF PredictionInv
<1> QED BY <1>1, <1>2, <1>3, InitPrediction, NextStep, NextContact, WindowsAreCurrent, PTL DEF Spec

(* What a status holds fits in it. *)
Fits(st) == Cardinality(st.windows) <= MaxPassWindows
WindowsFit == Fits(status) /\ Fits(work.status)

(* The windows a reconcile goes on with are none, those of a status before, or those of a sweep of the live sky. *)
LEMMA WindowsFrom ==
  ASSUME Types, ContactTypes, [Next]_vars
  PROVE  \/ work'.status.windows \in {{}, status.windows, work.status.windows}
         \/ \E sky, start, horizon, omms : /\ sky = SkyOver(config, omms) /\ start \in Int /\ start + horizon \in Int
                                           /\ work'.status.windows = PredictPasses(sky, start, horizon)
<1>t. IsStatus(status) /\ IsWork(work) /\ IsStatus(work.status)
  BY Zenon DEF Types
<1>0. Idle.status.windows = {}
  BY Zenon DEF Idle
<1>s. ASSUME NEW st, NEW predicted, NEW windows, NEW of, Swept(st),
             st = [work.status EXCEPT !.predicted = predicted, !.windows = windows, !.of = of]
      PROVE  work'.status.windows = windows
  <2>1. st = [predicted |-> predicted, windows |-> windows, sweptAt |-> work.status.sweptAt, sig |-> work.status.sig,
              epoch |-> work.status.epoch, of |-> of]
    BY <1>t, <1>s, Zenon DEF IsStatus
  <2>2. PICK new : new = [st EXCEPT !.sweptAt = clock, !.sig = StampedSignature(work.sig, config)]
    BY Zenon
  <2>3. new.windows = windows
    BY <2>1, <2>2, Zenon
  <2>4. work' = [work EXCEPT !.stage = "writeB", !.status = new]
    BY <1>s, <2>2, Zenon DEF Swept
  <2>5. work'.status = new
    BY <1>t, <2>4, Zenon DEF IsWork
  <2> QED BY <2>3, <2>5, Zenon
<1>1. CASE work' = Idle
  BY <1>0, <1>1, Zenon
<1>2. CASE EditConfig /\ work' # Idle
  <2>1. work' = [Idle EXCEPT !.stage = "conflict"]
    BY <1>2, Zenon DEF EditConfig
  <2>2. work'.status = Idle.status
    BY <2>1, IdleFields
  <2> QED BY <1>0, <2>2, Zenon
<1>3. CASE Reconcile
  <2>1. PICK epoch, sig : work'.status = WithdrawStale(Propagated(status, epoch), config, sig)
    <3>1. PICK e, g, due, now, omms :
            work' = [stage |-> "writeA", due |-> due, sig |-> g, now |-> now, omms |-> omms,
                     status |-> WithdrawStale(Propagated(status, e), config, g)]
      BY <1>3, Zenon DEF Reconcile
    <3>2. work'.status = WithdrawStale(Propagated(status, e), config, g)
      BY <3>1, Zenon
    <3> QED BY <3>2, Zenon
  <2>2. PICK before : before = Propagated(status, epoch)
    BY Zenon
  <2>3. before = [predicted |-> status.predicted, windows |-> status.windows, sweptAt |-> status.sweptAt,
                  sig |-> status.sig, epoch |-> epoch, of |-> status.of]
    BY <1>t, <2>2, Zenon DEF Propagated, IsStatus
  <2>4. IsStatus(before) /\ before.windows = status.windows
    BY <2>3, Zenon DEF IsStatus
  <2>5. PICK gone : gone = invalidatePassPredictionStatus(before)
    BY Zenon
  <2>6. gone = [predicted |-> "absent", windows |-> {}, sweptAt |-> Never, sig |-> {}, epoch |-> before.epoch, of |-> NoSweep]
    BY <2>4, <2>5, Invalidated, Zenon
  <2>7. work'.status \in {gone, [gone EXCEPT !.predicted = "Unknown"], before}
    BY <2>1, <2>2, <2>5, Zenon DEF WithdrawStale
  <2> QED BY <2>4, <2>6, <2>7
<1>4. CASE ReconcileUnfetched
  <2>1. PICK st : st = invalidatePassPredictionStatus(status)
    BY Zenon
  <2>2. st.windows = {}
    BY <1>t, <2>1, Invalidated
  <2>3. work' = [Idle EXCEPT !.stage = "writeA", !.status = st]
    BY <1>4, <2>1, Zenon DEF ReconcileUnfetched
  <2>4. work'.status = st
    BY <2>3, Zenon DEF Idle
  <2> QED BY <2>2, <2>4, Zenon
<1>5. CASE predictPasses
  <2>1. PICK windows, of, st :
          /\ st = [work.status EXCEPT !.predicted = "True", !.windows = windows, !.of = of] /\ Swept(st)
          /\ windows = PredictPasses(SkyOver(config, work.omms), work.now, effectivePassHorizon(config.horizon))
    BY <1>5, Zenon DEF predictPasses
  <2>2. work.now \in Int /\ work.now + effectivePassHorizon(config.horizon) \in Int
    BY SweepTimes, Zenon DEF ContactTypes
  <2> QED BY <1>s, <2>1, <2>2, Zenon
<1>6. CASE handlePassPredictionFailure
  <2>1. PICK st :
          st = [work.status EXCEPT !.predicted = "False", !.windows = {}, !.of = NoSweep] /\ Swept(st)
    BY <1>6, Zenon DEF handlePassPredictionFailure
  <2> QED BY <1>s, <2>1, Zenon
<1>7. CASE WriteA /\ work' # Idle
  <2>1. work' = [work EXCEPT !.stage = "sweep"]
    BY <1>7, Zenon DEF WriteA
  <2>2. work'.status = work.status
    BY <1>t, <2>1, Zenon DEF IsWork
  <2> QED BY <2>2, Zenon
<1>8. CASE work' = work
  BY <1>8, Zenon
<1> QED BY <1>1, <1>2, <1>3, <1>4, <1>5, <1>6, <1>7, <1>8, Zenon
        DEF Next, Worker, Tick, EditStation, Handoff, WriteB, GiveUp, vars

(* MaxPassWindows: with distinct names no write of a status, and none in flight, holds more windows than an object
   has room for, whatever the sky, the number of satellites and the edits between sweeps. *)
THEOREM WindowsFitStatus == DistinctNames => (Spec => []WindowsFit)
<1> SUFFICES ASSUME DistinctNames PROVE Spec => []WindowsFit
  BY Zenon
<1>0. MaxPassWindows \in Nat /\ Cardinality({}) <= MaxPassWindows
  BY PassesAssumption, FS_EmptySet
<1>1. Init => WindowsFit
  <2>1. Idle.status.windows = {}
    BY Zenon DEF Idle
  <2>2. Init => status = Idle.status /\ work = Idle
    BY Zenon DEF Init
  <2> QED BY <1>0, <2>1, <2>2, Zenon DEF WindowsFit, Fits
<1>2. ASSUME Types, ContactTypes, WindowsFit, [Next]_vars PROVE WindowsFit'
  <2>1. status' = status \/ status' = work.status
    BY <1>2, Zenon
       DEF Next, Worker, Tick, EditConfig, EditStation, Handoff, WriteA, WriteB, predictPasses, persistEphStatus,
           handlePassPredictionFailure, Reconcile, ReconcileUnfetched, GiveUp, Swept, vars
  <2>2. CASE work'.status.windows \in {{}, status.windows, work.status.windows}
    BY <1>0, <1>2, <2>1, <2>2, Zenon DEF WindowsFit, Fits
  <2>3. ASSUME NEW sky, NEW start, NEW horizon, NEW omms, sky = SkyOver(config, omms), start \in Int, start + horizon \in Int,
               work'.status.windows = PredictPasses(sky, start, horizon)
        PROVE  WindowsFit'
    <3>1. ArePasses(Predicted(sky, start, horizon))
      BY <1>2, <2>3, SkyArePasses, PredictedArePasses, Zenon
    <3>2. Cardinality(PredictPasses(sky, start, horizon)) <= MaxPassWindows
      BY <1>0, <3>1, CapFits, Zenon DEF PredictPasses
    <3> QED BY <1>2, <2>1, <2>3, <3>2, Zenon DEF WindowsFit, Fits
  <2> QED BY <1>2, <2>2, <2>3, WindowsFrom, Zenon
<1>3. PredictionInv => Types
  BY Zenon DEF PredictionInv
<1> QED BY <1>1, <1>2, <1>3, ContactInit, InitPrediction, NextStep, NextContact, PTL DEF Spec
=============================================================================
