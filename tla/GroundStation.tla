---------------------------- MODULE GroundStation ----------------------------
(***************************************************************************)
(* The GroundStationLifecycle reconciler for one station: health, phase    *)
(* and firmware updates.  A reconcile reads the informer cache's copy of   *)
(* the station and whatever the cluster shows of its node, evaluates, and  *)
(* then writes the status under optimistic concurrency.  It keeps nothing  *)
(* in memory.  So a restart and a lost reply look like a failed and a      *)
(* successful write, and a reconcile that read an old copy has no effect:  *)
(* it skips its write or the API server refuses it.  What the node shows,  *)
(* which its own firmware agent changes, is an input of every reconcile.   *)
(***************************************************************************)
EXTENDS Integers

CONSTANTS
  Specs,                  \* the specs users may give the station: [firmware, window, endpoint]
  Versions,               \* firmware versions a node may report
  Offered,                \* firmware versions that may become available
  Timeout,                \* firmwareUpdateTimeout, in ticks
  Day,                    \* ticks in a day
  RemovedWhileUpdating,   \* whether users may remove spec.firmware during an update
  MaxTime, MaxGeneration, SettleBy   \* bounds

ASSUME StationAssumption ==
  /\ Timeout \in Nat /\ Day \in Nat \ {0} /\ RemovedWhileUpdating \in BOOLEAN
  /\ MaxTime \in Nat /\ MaxGeneration \in Nat /\ SettleBy \in Nat
  \* a window that parses has its ends within the day
  /\ \A spec \in Specs : spec.window.start \in 0..(Day - 1) /\ spec.window.end \in 0..(Day - 1)

VARIABLES
  time,
  station,      \* the stored object
  fresh,        \* whether the informer cache shows the stored version of it
  check,         \* the reconcile in flight; "conflict": its base is no longer the stored version
  settled,      \* whether the node is healthy and current for good
  began         \* history: when the update that the stored status shows was decided

stationVars == <<time, station, fresh, check, settled, began>>

None == ""      \* an annotation that is not set, a version that was never reported
NoWindow == [start |-> 0, end |-> 0, set |-> FALSE]

(* What a reconcile can find: no node, one, or an error (of the API, or because several match); and what
   its node shows. *)
Nodes ==
  [lookup : {"error", "none"}, ready : {FALSE}, pressure : {FALSE}, version : {None}, available : {None}]
  \cup [lookup : {"one"}, ready : BOOLEAN, pressure : BOOLEAN,
        version : Versions \cup {None}, available : Offered \cup {None}]

NoStatus == [phase |-> "", version |-> None, started |-> 0,
             nodeReady |-> "absent", rf |-> "absent", firmware |-> "absent"]
Stage(stage) == [stage |-> stage, now |-> 0, stamp |-> FALSE, status |-> NoStatus]

(***************************************************************************)
(* The maintenance window, which may run over midnight.                    *)
(***************************************************************************)
(* Fault: the end of the window still belongs to it. *)
EndIncluded(window, now) ==
  LET minute == now % Day
  IN  IF window.start < window.end
      THEN minute >= window.start /\ minute <= window.end
      ELSE minute >= window.start \/ minute <= window.end

IsWithinMaintenanceWindow(window, now) ==
  LET minute == now % Day
  IN  IF window.start < window.end
      THEN minute >= window.start /\ minute < window.end
      ELSE minute >= window.start \/ minute < window.end

(***************************************************************************)
(* reconcileHealth.                                                        *)
(***************************************************************************)
Health(st, phase, nodeReady, rf) ==
  [phase |-> phase, version |-> st.version, started |-> st.started,
   nodeReady |-> nodeReady, rf |-> rf, firmware |-> st.firmware]

firmwareUncertain(st) == st.firmware \in {"UpdateInterrupted", "UpdateTimedOut"}

(* Fault: a station that is degraded for any reason stays so. *)
DegradedSticks(st, node) ==
  IF ~node.ready THEN "Offline"
  ELSE IF st.phase \in {"Updating", "Degraded"} THEN st.phase
  ELSE IF node.pressure THEN "Degraded" ELSE "Running"

(* The phase that the node alone justifies; an update, or an uncertain one, is not overruled. *)
NodePhase(st, node) ==
  IF ~node.ready THEN "Offline"
  ELSE IF st.phase = "Updating" \/ (st.phase = "Degraded" /\ firmwareUncertain(st)) THEN st.phase
  ELSE IF node.pressure THEN "Degraded" ELSE "Running"

HealthOfNode(st, spec, node, probe) ==
  LET phase == NodePhase(st, node)
  IN  Health(st, IF spec.endpoint /\ ~probe /\ phase = "Running" THEN "Degraded" ELSE phase,
             IF node.ready THEN "True" ELSE "False",
             IF ~spec.endpoint THEN "absent" ELSE IF probe THEN "True" ELSE "False")

reconcileHealth(st, spec, node, probe) ==
  IF node.lookup = "error" THEN Health(st, "Offline", "False", "Unknown")
  ELSE IF node.lookup = "none"
       THEN Health(st, IF st.phase \in {"", "Provisioning"} THEN "Provisioning" ELSE "Offline",
                   "False", "Unknown")
       ELSE HealthOfNode(st, spec, node, probe)

(***************************************************************************)
(* reconcileFirmware.                                                      *)
(***************************************************************************)
Firmware(st, phase, version, started, reason) ==
  [phase |-> phase, version |-> version, started |-> started,
   nodeReady |-> st.nodeReady, rf |-> st.rf, firmware |-> reason]

CurrentVersion(st, node) == IF node.version # None THEN node.version ELSE st.version
UpToDate(st, node) == node.available = None \/ CurrentVersion(st, node) = node.available
FirmwareReason(st, node) ==
  IF CurrentVersion(st, node) = None THEN "VersionUnknown"
  ELSE IF UpToDate(st, node) THEN "UpToDate" ELSE "UpdateAvailable"

(* Fault: the update's age is not looked at. *)
NeverTimesOut(st, node, now) ==
  LET version == CurrentVersion(st, node)
  IN  IF node.available = None THEN Firmware(st, "Degraded", version, 0, "UpdateInterrupted")
      ELSE IF node.version = node.available
           THEN Firmware(st, "Running", node.available, 0, "UpdateCompleted")
           ELSE Firmware(st, "Updating", version, st.started, FirmwareReason(st, node))

(* An update times out, is interrupted, completes or goes on. *)
ContinueUpdate(st, node, now) ==
  LET version == CurrentVersion(st, node)
  IN  IF st.started # 0 /\ now - st.started > Timeout
      THEN Firmware(st, "Degraded", version, 0, "UpdateTimedOut")
      ELSE IF node.available = None
           THEN Firmware(st, "Degraded", version, 0, "UpdateInterrupted")
           ELSE IF node.version = node.available
                THEN Firmware(st, "Running", node.available, 0, "UpdateCompleted")
                ELSE Firmware(st, "Updating", version, st.started, FirmwareReason(st, node))

(* Fault: a start time that is still in status is kept. *)
StartKeepsOldTime(st, spec, node, now) ==
  LET reason == FirmwareReason(st, node)
  IN  IF ~UpToDate(st, node) /\ spec.firmware = "auto" /\ st.phase \in {"Running", "Degraded"}
      THEN Firmware(st, "Updating", CurrentVersion(st, node), IF st.started = 0 THEN now ELSE st.started, reason)
      ELSE Firmware(st, st.phase, CurrentVersion(st, node), st.started, reason)

(* An update starts when it is wanted, the station can take it and the window is open. *)
StartUpdate(st, spec, node, now) ==
  LET wanted  == ~UpToDate(st, node) /\ spec.firmware = "auto" /\ st.phase \in {"Running", "Degraded"}
      invalid == spec.window.set /\ spec.window.start = spec.window.end
      open    == ~spec.window.set \/ (~invalid /\ IsWithinMaintenanceWindow(spec.window, now))
  IN  IF wanted /\ open
      THEN Firmware(st, "Updating", CurrentVersion(st, node), now, FirmwareReason(st, node))
      ELSE Firmware(st, st.phase, CurrentVersion(st, node), st.started,
                    IF wanted /\ invalid THEN "InvalidMaintenanceWindow" ELSE FirmwareReason(st, node))

reconcileFirmware(st, spec, node, now) ==
  IF spec.firmware = "none" THEN Firmware(st, st.phase, st.version, st.started, "absent")
  ELSE IF node.lookup = "none" THEN Firmware(st, st.phase, None, st.started, "absent")
  ELSE IF st.phase = "Updating" THEN ContinueUpdate(st, node, now)
  ELSE StartUpdate(st, spec, node, now)

(* Whether lastHealthCheck is set: before the endpoint is probed. *)
Stamps(st, node) == node.lookup = "one" /\ NodePhase(st, node) \in {"Running", "Updating"}

(* A failed lookup leaves the firmware alone. *)
Evaluated(node, probe) ==
  LET health == reconcileHealth(station.status, station.spec, node, probe)
  IN  IF node.lookup = "error" THEN health
      ELSE reconcileFirmware(health, station.spec, node, time)

(***************************************************************************)
(* The station, its users and its reconciler.                              *)
(***************************************************************************)
StationInit ==
  /\ time = 1
  /\ \E spec \in Specs : station = [generation |-> 1, spec |-> spec, status |-> NoStatus]
  /\ check = Stage("idle")
  /\ fresh = TRUE /\ settled = FALSE /\ began = 0

TimePasses ==
  /\ time < MaxTime
  /\ time' = time + 1
  /\ UNCHANGED <<station, fresh, check, settled, began>>

InformerSync ==
  /\ ~fresh
  /\ fresh' = TRUE
  /\ UNCHANGED <<time, station, check, settled, began>>

EditSpec(spec) ==
  /\ ~settled /\ station.generation < MaxGeneration /\ spec # station.spec
  /\ spec.firmware = "none" /\ station.status.phase = "Updating" => RemovedWhileUpdating
  /\ station' = [station EXCEPT !.generation = @ + 1, !.spec = spec]
  /\ fresh' = FALSE
  /\ check' = IF check.stage = "write" THEN Stage("conflict") ELSE check
  /\ UNCHANGED <<time, settled, began>>

(* From now on the node is ready, unpressed, reachable and runs the version that is available. *)
Settle ==
  /\ ~settled /\ time <= SettleBy
  /\ settled' = TRUE
  /\ UNCHANGED <<time, station, fresh, check, began>>

WhenSettled(node, probe) ==
  settled => /\ probe /\ node.lookup = "one" /\ node.ready /\ ~node.pressure
             /\ node.version # None /\ node.version = node.available

HealthCheck(node, probe) ==
  /\ check.stage = "idle" /\ fresh
  /\ WhenSettled(node, probe)
  /\ check' = [stage |-> "write", now |-> time, stamp |-> Stamps(station.status, node),
             status |-> Evaluated(node, probe)]
  /\ UNCHANGED <<time, station, fresh, settled, began>>

ReconcileStale ==
  /\ check.stage = "idle" /\ ~fresh
  /\ check' = Stage("conflict")
  /\ UNCHANGED <<time, station, fresh, settled, began>>

WriteStatus ==
  /\ check.stage = "write" /\ (check.stamp \/ check.status # station.status)
  /\ station' = [station EXCEPT !.status = check.status]
  /\ fresh' = FALSE
  /\ began' = IF check.status.phase # "Updating" THEN 0
              ELSE IF station.status.phase # "Updating" THEN check.now ELSE began
  /\ check' = Stage("idle")
  /\ UNCHANGED <<time, settled>>

(* An unchanged status is not written, nor is one stamped twice in a second; no event is queued then. *)
SkipWrite ==
  /\ check.stage = "write" /\ check.status = station.status
  /\ check' = Stage("idle")
  /\ UNCHANGED <<time, station, fresh, settled, began>>

(* A conflict, any other error, or a restart before the write. *)
WriteFails ==
  /\ check.stage = "conflict" \/ (check.stage = "write" /\ ~settled)
  /\ check' = Stage("idle")
  /\ UNCHANGED <<time, station, fresh, settled, began>>

Checker ==
  \/ ReconcileStale \/ WriteStatus \/ SkipWrite \/ WriteFails
  \/ \E node \in Nodes, probe \in BOOLEAN : HealthCheck(node, probe)

StationNext == TimePasses \/ InformerSync \/ (\E spec \in Specs : EditSpec(spec)) \/ Settle \/ Checker

(* Every reconcile asks for the next health check, every error is retried, and the cache catches up. *)
Fairness == WF_stationVars(InformerSync) /\ WF_stationVars(Checker)

StationSpec == StationInit /\ [][StationNext]_stationVars
FairStationSpec == StationSpec /\ Fairness

(***************************************************************************)
(* Properties.                                                             *)
(***************************************************************************)
(* The start time in status is that of the update in progress, never of an earlier one that a lost
   node or a failed lookup cut short: the timeout is measured from the right moment. *)
StartedIsThisUpdate ==
  station.status.phase = "Updating" => station.status.started = began /\ began # 0

(* No reconcile keeps a station Updating longer than firmwareUpdateTimeout after the update began,
   whatever failed lookups, node losses and edits came between. *)
UpdateBounded ==
  check.stage = "write" /\ station.status.phase = "Updating" /\ check.status.phase = "Updating" =>
    check.now - began <= Timeout

(* An update that becomes durable was begun at a tick of the maintenance window of the very spec that
   is stored, counted tick by tick from its start to its end, and that spec asks for updates. *)
UpdateBeginsInWindow ==
  check.stage = "write" /\ check.status.phase = "Updating" /\ station.status.phase # "Updating" =>
    /\ station.spec.firmware = "auto"
    /\ station.spec.window.set =>
         \E k \in 0..(Day - 1) :
           /\ (station.spec.window.start + k) % Day = check.now % Day
           /\ \A j \in 0..k : (station.spec.window.start + j) % Day # station.spec.window.end

(* Once the node is healthy for good and runs the available firmware, the station becomes and stays
   Running, whatever update, timeout, interruption or outage came before. *)
ConvergesToRunning == settled ~> [](station.status.phase = "Running")
=============================================================================
