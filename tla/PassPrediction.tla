--------------------------- MODULE PassPrediction ----------------------------
(***************************************************************************)
(* Pass prediction of one SatelliteEphemeris: a reconcile that writes its  *)
(* status twice, over ground stations that other users edit and delete,    *)
(* read by the slices that fail over on it.                                *)
(*                                                                         *)
(* Write A carries the propagated states and withdraws windows whose       *)
(* inputs changed; the sweep follows, and write B publishes its windows    *)
(* under the signature that was read before write A.                       *)
(***************************************************************************)
EXTENDS Passes

CONSTANTS
  Stations, Sats,   \* names, numbered in their order
  Places,           \* where a station may stand
  Sky,              \* the passes over each place: [sat, aos, los]
  Configs,          \* what a spec may say: [stations, sats, horizon]
  FirstConfig, FirstPlace,
  Acquisitions,     \* element sets a reconcile may obtain: source epochs by satellite
  SweepInterval,    \* passPredictionInterval
  MaxEvents,        \* bound on edits, deletions, handoffs and failed calls together
  MaxClock

Nobody == 0         \* no station has this name

ASSUME PredictionAssumption ==
  /\ FirstConfig \in Configs /\ FirstPlace \in Places /\ SweepInterval \in Nat \ {0} /\ MaxEvents \in Nat /\ MaxClock \in Nat
  /\ Nobody \notin Stations /\ \A cfg \in Configs : cfg.stations \subseteq Stations /\ cfg.horizon \in Int
  /\ Stations \subseteq Nat /\ Sats \subseteq Nat
  /\ \A place \in Places : \A pass \in Sky[place] : pass.sat \in Sats /\ pass.aos \in Int /\ pass.los \in Int
  /\ \A epoch \in Acquisitions : \A sat \in DOMAIN epoch : epoch[sat] \in Int

(* A spec lists its stations, a sweep its passes; names compare as numbers do. *)
ASSUME SkyAssumption ==
  /\ \A cfg \in Configs : IsFiniteSet(cfg.stations)
  /\ \A place \in Places : IsFiniteSet(Sky[place])
  /\ \A sat \in Sats : Label[sat] \in Nat

VARIABLES
  clock,            \* the time the controllers read
  config,           \* the prediction part of the live spec
  stations,         \* the ground stations: [phase, place, version]
  status,           \* [predicted, windows, sweptAt, sig, epoch], and the history `of` of the windows
  work,             \* the reconcile in progress
  events

vars == <<clock, config, stations, status, work, events>>

Never == -1
NoSig == {}         \* an empty hash; a hash is the singleton of what it digests

(***************************************************************************)
(* The inputs of a sweep and their signature.                              *)
(***************************************************************************)
passPredictionConfigured(cfg) == cfg.stations # {}

(* Fault: a station counts by its name and phase, not by its version. *)
SignatureByName(cfg, unread) ==
  {[config |-> cfg, stations |-> [s \in cfg.stations |-> <<IF s = unread THEN "absent" ELSE stations[s].phase>>]]}
(* unread is a station whose read fails for now: it looks absent. *)
passPredictionInputSignature(cfg, unread) ==
  {[config   |-> cfg,
    stations |-> [s \in cfg.stations |->
                    IF s = unread \/ stations[s].phase = "absent" THEN <<"absent">>
                    ELSE <<stations[s].phase, stations[s].version>>]]}

(* Fault: once swept, only a change of the inputs sweeps again. *)
DueOnChange(st, now, sig) == sig # st.sig \/ st.sweptAt = Never
passSweepDue(st, now, sig) ==
  \/ sig # st.sig
  \/ st.sweptAt = Never
  \/ st.sweptAt > now
  \/ now >= st.sweptAt + SweepInterval

passSweepDecision(cfg, st, now, sig) == passPredictionConfigured(cfg) /\ passSweepDue(st, now, sig)

NoSweep == [now |-> Never, omms |-> {}]
invalidatePassPredictionStatus(st) ==
  [st EXCEPT !.predicted = "absent", !.windows = {}, !.sweptAt = Never, !.sig = NoSig, !.of = NoSweep]

(* The sky of a sweep: the acquired, selected satellites over the stations that are not going away. *)
SkyOver(cfg, omms) ==
  UNION {{[sat |-> p.sat, station |-> s, aos |-> p.aos, los |-> p.los] :
            p \in {q \in Sky[stations[s].place] : q.sat \in omms /\ (cfg.sats = {} \/ q.sat \in cfg.sats)}} :
         s \in {t \in cfg.stations : stations[t].phase = "live"}}

(***************************************************************************)
(* The users of the ground stations and of the spec.                       *)
(***************************************************************************)
Idle == [stage |-> "idle", now |-> Never, omms |-> {}, sig |-> NoSig, due |-> FALSE,
         status |-> [predicted |-> "absent", windows |-> {}, sweptAt |-> Never, sig |-> NoSig,
                    epoch |-> << >>, of |-> NoSweep]]

Init ==
  /\ clock = 0 /\ config = FirstConfig /\ events = 0
  /\ stations = [s \in Stations |-> [phase |-> "live", place |-> FirstPlace, version |-> 1]]
  /\ status = Idle.status
  /\ work = Idle

Event == events < MaxEvents /\ events' = events + 1

Tick ==
  /\ clock < MaxClock
  /\ clock' = clock + 1
  /\ UNCHANGED <<config, stations, status, work, events>>

(* What a reconcile in progress still does is lost: its next write conflicts. *)
EditConfig ==
  /\ Event
  /\ config' \in Configs \ {config}
  /\ work' = IF work.stage = "idle" THEN Idle ELSE [Idle EXCEPT !.stage = "conflict"]
  /\ UNCHANGED <<clock, stations, status>>

(* Moved, deleted while a finalizer holds it, gone, or created again: only the last two pass unnoticed by a generation. *)
EditStation ==
  /\ Event
  /\ \E s \in Stations, place \in Places, phase \in {"live", "terminating", "absent"} :
       /\ phase = "live" => \/ stations[s].phase = "absent"
                            \/ stations[s].phase = "live" /\ place # stations[s].place
       /\ phase = "terminating" => stations[s].phase = "live" /\ place = stations[s].place
       /\ phase = "absent" => stations[s].phase # "absent" /\ place = stations[s].place
       /\ stations' = [stations EXCEPT ![s] = [phase |-> phase, place |-> place,
                                               version |-> IF phase = "live" THEN @.version + 1 ELSE @.version]]
  /\ UNCHANGED <<clock, config, status, work>>

(* Another replica takes over; its clock may be a tick behind. *)
Handoff ==
  /\ Event
  /\ clock' \in {clock, clock - 1} \cap Nat
  /\ work' = Idle
  /\ UNCHANGED <<config, stations, status>>

(***************************************************************************)
(* The reconcile, up to write A.                                           *)
(***************************************************************************)
Propagated(st, epoch) == [st EXCEPT !.epoch = epoch]

(* Fault: the windows of other inputs stay until write B replaces them. *)
KeepUntilSweep(st, cfg, sig) == IF passPredictionConfigured(cfg) THEN st ELSE invalidatePassPredictionStatus(st)
WithdrawStale(st, cfg, sig) ==
  CASE ~passPredictionConfigured(cfg) -> invalidatePassPredictionStatus(st)
    [] passPredictionConfigured(cfg) /\ sig # st.sig ->
         [invalidatePassPredictionStatus(st) EXCEPT !.predicted = "Unknown"]
    [] OTHER -> st

Reconcile ==
  /\ work.stage = "idle"
  /\ \E epoch \in Acquisitions, unread \in config.stations \cup {Nobody} :
       /\ IF unread = Nobody THEN UNCHANGED events ELSE Event
       /\ LET sig == IF passPredictionConfigured(config) THEN passPredictionInputSignature(config, unread) ELSE NoSig
              due == passSweepDecision(config, status, clock, sig)
          IN  work' = [stage |-> "writeA", due |-> due, sig |-> sig,
                       now |-> IF due THEN clock ELSE Never, omms |-> IF due THEN DOMAIN epoch ELSE {},
                       status |-> WithdrawStale(Propagated(status, epoch), config, sig)]
  /\ UNCHANGED <<clock, config, stations, status>>

(* Nothing acquired and nothing cached: the predictions go, the states stay as they were. *)
ReconcileUnfetched ==
  /\ work.stage = "idle"
  /\ Event
  /\ work' = [Idle EXCEPT !.stage = "writeA", !.status = invalidatePassPredictionStatus(status)]
  /\ UNCHANGED <<clock, config, stations, status>>

persistEphStatus == status' = work.status

WriteA ==
  /\ work.stage = "writeA"
  /\ persistEphStatus
  /\ work' = IF work.due THEN [work EXCEPT !.stage = "sweep"] ELSE Idle
  /\ UNCHANGED <<clock, config, stations, events>>

(* A conflict, an API error or a cancelled context: the reconcile ends and is retried. *)
GiveUp ==
  /\ \/ work.stage = "conflict" /\ UNCHANGED events
     \/ work.stage \in {"writeA", "sweep", "writeB"} /\ Event
  /\ work' = Idle
  /\ UNCHANGED <<clock, config, stations, status>>

(***************************************************************************)
(* The sweep and write B.                                                  *)
(***************************************************************************)
(* Fault: the signature is read again once the sweep is done. *)
StampLate(sig, cfg) == passPredictionInputSignature(cfg, Nobody)
StampedSignature(sig, cfg) == sig

Swept(st) ==
  /\ work' = [work EXCEPT !.stage = "writeB",
                          !.status = [st EXCEPT !.sweptAt = clock, !.sig = StampedSignature(work.sig, config)]]
  /\ UNCHANGED <<clock, config, stations, status>>

Resolvable(cfg) == \A s \in cfg.stations : stations[s].phase # "absent"

predictPasses ==
  /\ work.stage = "sweep"
  /\ UNCHANGED events
  /\ Resolvable(config) /\ ValidHorizon(config.horizon)
  /\ Swept([work.status EXCEPT
              !.predicted = "True",
              !.windows = PredictPasses(SkyOver(config, work.omms), work.now,
                                        effectivePassHorizon(config.horizon)),
              !.of = [now |-> work.now, omms |-> work.omms]])

(* A station that is absent or cannot be read, or a horizon that is not one. *)
handlePassPredictionFailure ==
  /\ work.stage = "sweep"
  /\ \/ ~Resolvable(config) /\ UNCHANGED events
     \/ ~ValidHorizon(config.horizon) /\ UNCHANGED events
     \/ Resolvable(config) /\ ValidHorizon(config.horizon) /\ Event
  /\ Swept([work.status EXCEPT !.predicted = "False", !.windows = {}, !.of = NoSweep])

WriteB ==
  /\ work.stage = "writeB"
  /\ persistEphStatus
  /\ work' = Idle
  /\ UNCHANGED <<clock, config, stations, events>>

Worker == WriteA \/ WriteB \/ predictPasses \/ handlePassPredictionFailure \/ Reconcile \/ ReconcileUnfetched \/ GiveUp
Next == Tick \/ EditConfig \/ EditStation \/ Handoff \/ Worker
Spec == Init /\ [][Next]_vars

(* A reconcile is requeued at least every propagation interval, and time passes. *)
FairSpec == Spec /\ WF_vars(Worker) /\ WF_vars(Tick)

(***************************************************************************)
(* Properties.                                                             *)
(***************************************************************************)
Contact == checkSatelliteAvailability(status.predicted, status.windows, status.epoch, clock)

LiveSignature == passPredictionInputSignature(config, Nobody)
InStep == status.predicted = "True" /\ status.sig = LiveSignature
LiveWindows == PredictPasses(SkyOver(config, status.of.omms), status.of.now, effectivePassHorizon(config.horizon))

(* Windows that PassesPredicted=True vouches for, under the hash of the live *)
(* inputs, are those that the live spec and stations give, whatever was      *)
(* edited while the sweep ran (Reconcile stamps the signature it read before *)
(* write A).                                                                 *)
WindowsReflectInputs == InStep => status.windows = LiveWindows

(* The same for signatures that found every station: an absent station has  *)
(* no version in the signature, so one that comes and goes is not told from *)
(* one that never was.                                                      *)
ResolvedWindowsReflectInputs == InStep /\ Resolvable(config) => status.windows = LiveWindows

(* A contact that checkSatelliteAvailability reports from windows in step is  *)
(* real until its validUntil: the satellite is above the station at the exact *)
(* times of the sky, and its elements stay deliverable.                       *)
ContactHoldsUntilItsEnd ==
  InStep /\ Resolvable(config) /\ Contact.available =>
    \A t \in {clock} \cup clock..(Contact.validUntil - 1) :
      /\ ~Stale(Contact.pass.sat, status.epoch, t)
      /\ \E p \in Sky[stations[Contact.pass.station].place] :
           p.sat = Contact.pass.sat /\ p.aos <= t /\ t < p.los

(* The cap never hides a satellite: while the first pass that the sweep found *)
(* for it lasts, the slices see a contact, however many passes others have.   *)
FirstPassIsSeen ==
  InStep /\ Resolvable(config) =>
    LET all == Predicted(SkyOver(config, status.of.omms), status.of.now, effectivePassHorizon(config.horizon))
    IN  \A p \in all :
          /\ Active(p, clock)
          /\ ~Stale(p.sat, status.epoch, clock)
          /\ \A q \in all \ {p} : q.sat = p.sat => lessPass(p, q)
          => Contact.available

(* No write leaves PassesPredicted=True on windows of other inputs than the *)
(* reconcile has read: write A withdraws what write B may never replace.    *)
NoWriteVouchesForOldInputs ==
  [][status' # status /\ status'.predicted = "True" => status'.sig = work.sig]_vars

(* Once nothing is edited and no call fails, predictions that can be made are *)
(* published, even when a failed sweep was stamped as done, or stamped by a    *)
(* replica whose clock was ahead.                                             *)
PredictionsCatchUp ==
  /\ events = MaxEvents /\ clock + SweepInterval < MaxClock
  /\ passPredictionConfigured(config) /\ Resolvable(config) /\ ValidHorizon(config.horizon)
  ~> InStep /\ status.windows = LiveWindows
=============================================================================
