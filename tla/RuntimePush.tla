---------------------------- MODULE RuntimePush ------------------------------
(***************************************************************************)
(* The runtime push: a SatelliteEphemeris that propagates states on its    *)
(* heartbeat, an NTNCellConfig that pushes the one it selects, and a gNB   *)
(* behind an exchange that can fail on either side of the frame.           *)
(*                                                                         *)
(* Time is relative: what carries an epoch counts the ticks until it, so   *)
(* the system runs for ever in finitely many states.  Digests are kept as  *)
(* relations in the same way: a marker is that of the present state        *)
(* ("current") or of an earlier one ("old").                               *)
(***************************************************************************)
EXTENDS Integers, FiniteSets

CONSTANTS
  Feeds,            \* element sets a heartbeat may work on: sets of [sat, age]
  Cells,            \* what a cell may say: [ref, norad, switch]
  FirstCell,
  FirstFeed,
  Period,           \* propagationRefreshInterval: the producer's heartbeat
  Lead,             \* propagationEpochLead: how far ahead an epoch is stamped
  Margin,           \* epochSkewMargin: how far ahead it must be to be pushed
  Timeout,          \* wsDialTimeout: how long an exchange may take
  MaxAge, MaxAhead, \* bounds on the age of elements, and on how far ahead they are dated
  MaxStates,        \* how many states a status may hold
  MaxEvents         \* bound on edits and faults together

ASSUME PushAssumption ==
  /\ FirstCell \in Cells /\ FirstFeed \in Feeds /\ MaxEvents \in Nat
  /\ Lead \in Nat /\ Period \in Nat \ {0} /\ Margin \in Nat /\ Timeout \in Nat /\ MaxAge \in Nat /\ MaxAhead \in Nat
  /\ MaxStates \in Nat \ {0}
  /\ Timeout <= Margin /\ Margin < Lead - Period

VARIABLES
  feed,             \* the element sets the producer works on
  stalled,          \* whether the producer has stopped
  eph,              \* status of the ephemeris: [present, fresh, left, inputs]
  cell,             \* spec and status of the cell
  queue,            \* [queued, timer]: in the work queue, requeued for later
  ready,            \* the EphemerisPushReady series: absent, 0 or 1
  broken,           \* whether ApplyCellConfig or the read-back fails
  work,             \* the reconcile in progress
  gnb,              \* the gNB: what it broadcasts, [sat, left], and history: the marker of the
                    \* last states it took, which switches it received and how often it applied one
  asked, lost,      \* history: switches asked for, and switches whose delivery went unrecorded
  events

vars == <<feed, stalled, eph, cell, queue, ready, broken, work, gnb, asked, lost, events>>

NoSat == 0
NoSwitch == 0
Slack == Margin - Timeout  \* what the margin leaves for the time between the gate and the dial
Less(n) == IF n > 0 THEN n - 1 ELSE 0

(***************************************************************************)
(* The producer.                                                           *)
(***************************************************************************)
(* Fault: whichever element set comes first is kept. *)
AnyPerNorad(omms) == {o \in omms : \A p \in omms : p.sat = o.sat => p.age <= o.age}
canonicalizeOMMs(omms) == {o \in omms : \A p \in omms : p.sat = o.sat => o.age <= p.age}

sourceEpochPlausible(o) == o.age >= -MaxAhead
sourceEpochFresh(o) == o.age <= MaxAge

(* States for the plausible satellites, the lowest catalogue numbers first, up to the cap. *)
propagateStates(omms) ==
  LET usable == {o \in canonicalizeOMMs(omms) : sourceEpochPlausible(o)}
      kept == {o \in usable : Cardinality({p \in usable : p.sat < o.sat}) < MaxStates}
  IN  [present |-> {o.sat : o \in kept}, fresh |-> {o.sat : o \in {p \in kept : sourceEpochFresh(p)}}]

(***************************************************************************)
(* The consumer's gates.  A verdict is a reason for not pushing, or none.  *)
(***************************************************************************)
selectPropagatedState(norad) ==
  IF norad # NoSat THEN (IF norad \in eph.present THEN norad ELSE NoSat)
  ELSE IF eph.present = {} THEN NoSat ELSE CHOOSE s \in eph.present : \A t \in eph.present : s <= t

isEphemerisPushUpToDate(st) == st.pushed = "True" /\ st.observed /\ st.marker = "current"

(* Fault: any epoch still ahead will do. *)
CurrentNow(norad) == eph.left > 0 /\ selectPropagatedState(norad) \in eph.fresh
Current(norad) == eph.left > Margin /\ selectPropagatedState(norad) \in eph.fresh

Ambiguous(spec) == spec.norad = NoSat /\ Cardinality(eph.present) > 1

(* Fault: a marker that did not change is not looked at again. *)
DedupFirst(spec, st) ==
  IF ~eph.inputs THEN "InputsStale"
  ELSE IF Ambiguous(spec) THEN "SelectionAmbiguous"
  ELSE IF selectPropagatedState(spec.norad) = NoSat THEN "PayloadMissing"
  ELSE IF isEphemerisPushUpToDate(st) THEN "UpToDate"
  ELSE IF ~Current(spec.norad) THEN "EphemerisStale" ELSE "Push"
pushRuntimeEphemeris(spec, st) ==
  IF ~eph.inputs THEN "InputsStale"
  ELSE IF Ambiguous(spec) THEN "SelectionAmbiguous"
  ELSE IF selectPropagatedState(spec.norad) = NoSat THEN "PayloadMissing"
  ELSE IF ~Current(spec.norad) THEN "EphemerisStale"
  ELSE IF isEphemerisPushUpToDate(st) THEN "UpToDate" ELSE "Push"

ephemerisPushShouldRequeue(reason) ==
  reason \notin {"RefNotFound", "PayloadMissing", "EphemerisStale", "InputsStale", "ProviderPushRejected"}

(* Fault: a switch rides in every frame. *)
AlwaysAttach(spec, st) == spec.switch
AttachedSwitch(spec, st) == IF spec.switch # st.digest THEN spec.switch ELSE NoSwitch

(***************************************************************************)
(* States and the environment.                                             *)
(***************************************************************************)
NoStatus == [pushed |-> "", observed |-> FALSE, marker |-> "old", digest |-> NoSwitch]
NoFrame == [sat |-> NoSat, left |-> 0, switch |-> NoSwitch, marker |-> "old"]
Idle == [stage |-> "idle", frame |-> NoFrame, status |-> NoStatus, waited |-> 0, ttl |-> 0,
         gauge |-> "", requeue |-> FALSE, changed |-> FALSE, conflict |-> FALSE]

Init ==
  /\ feed = FirstFeed /\ stalled = FALSE
  /\ eph = [present |-> {}, fresh |-> {}, left |-> 0, inputs |-> FALSE]
  /\ cell = [spec |-> FirstCell, status |-> NoStatus]
  /\ queue = [queued |-> TRUE, timer |-> FALSE]
  /\ ready = "absent" /\ broken = FALSE /\ work = Idle
  /\ gnb = [sat |-> NoSat, left |-> 0, took |-> "nothing", received |-> {}, switches |-> 0]
  /\ asked = IF FirstCell.switch = NoSwitch THEN 0 ELSE 1
  /\ lost = 0 /\ events = 0

Event == events < MaxEvents /\ events' = events + 1

Wake(q) == [q EXCEPT !.queued = TRUE]

(* The heartbeat comes in time unless the producer stalls.  wsDialTimeout bounds the exchange; nothing bounds *)
(* the read of the credential before it, and one that uses up the margin is a fault of the API server.         *)
Tick ==
  /\ ~stalled => eph.inputs /\ eph.left > Lead - Period
  /\ work.stage = "exchange" => work.ttl > 0
  /\ IF work.stage = "resolve" /\ work.waited >= Slack THEN Event ELSE UNCHANGED events
  /\ eph' = [eph EXCEPT !.left = Less(eph.left)]
  /\ gnb' = [gnb EXCEPT !.left = Less(gnb.left)]
  /\ work' = [work EXCEPT !.ttl = Less(work.ttl), !.frame.left = Less(work.frame.left),
       !.waited = IF work.stage = "resolve" /\ work.waited <= Slack THEN work.waited + 1 ELSE work.waited]
  /\ UNCHANGED <<feed, stalled, cell, queue, ready, broken, asked, lost>>

TimerFires ==
  /\ queue.timer /\ queue' = [queued |-> TRUE, timer |-> FALSE]
  /\ UNCHANGED <<feed, stalled, eph, cell, ready, broken, work, gnb, asked, lost, events>>

Aged(marker) == IF marker = "current" THEN "old" ELSE marker

(* runtimeEphemerisPushMarker hashes the states and the generation of their object: when either changes, *)
(* every marker recorded, in flight or taken is an earlier one.                                          *)
MarkersAge ==
  /\ cell' = [cell EXCEPT !.status.marker = Aged(cell.status.marker)]
  /\ work' = [work EXCEPT !.frame.marker = Aged(work.frame.marker),
                          !.status.marker = Aged(work.status.marker)]
  /\ gnb' = [gnb EXCEPT !.took = Aged(gnb.took)]

ephemerisToNTNCellConfig == queue' = Wake(queue) /\ UNCHANGED events

(* One reconcile of the producer: new states, a new hash, and the fan-out to the referencing cell, *)
(* which is dropped when the index cannot be read.                                                 *)
Propagate ==
  /\ ~stalled /\ (eph.inputs => eph.left <= Lead - Period)
  /\ LET p == propagateStates(feed)
     IN  eph' = [present |-> p.present, fresh |-> p.fresh, left |-> Lead, inputs |-> TRUE]
  /\ MarkersAge
  /\ \/ ephemerisToNTNCellConfig
     \/ Event /\ UNCHANGED queue
  /\ UNCHANGED <<feed, stalled, ready, broken, asked, lost>>

(* An edit of the ephemeris: the inputs its states were computed under, or those of an earlier edit undone, *)
(* or others that do not matter to them; its generation is new in any case.                                 *)
EditEphemeris ==
  /\ Event /\ \E inputs \in BOOLEAN : eph' = [eph EXCEPT !.inputs = inputs]
  /\ MarkersAge /\ queue' = Wake(queue)
  /\ UNCHANGED <<feed, stalled, ready, broken, asked, lost>>

NewFeed ==
  /\ Event /\ feed' \in Feeds \ {feed}
  /\ UNCHANGED <<stalled, eph, cell, queue, ready, broken, work, gnb, asked, lost>>

(* The elements behind the states grow too old before the next heartbeat. *)
ElementsAge ==
  /\ Event /\ eph.fresh # {} /\ eph' = [eph EXCEPT !.fresh = {}]
  /\ UNCHANGED <<feed, stalled, cell, queue, ready, broken, work, gnb, asked, lost>>

ProducerStalls ==
  /\ Event /\ stalled' = ~stalled
  /\ UNCHANGED <<feed, eph, cell, queue, ready, broken, work, gnb, asked, lost>>

ApplyBreaks ==
  /\ Event /\ broken' = ~broken
  /\ UNCHANGED <<feed, stalled, eph, cell, queue, ready, work, gnb, asked, lost>>

EditCell ==
  /\ Event
  /\ \E c \in Cells \ {cell.spec} :
       /\ cell' = [cell EXCEPT !.spec = c, !.status.observed = FALSE]
       /\ asked' = IF c.switch \notin {NoSwitch, cell.spec.switch} THEN asked + 1 ELSE asked
  /\ work' = [work EXCEPT !.conflict = work.stage # "idle"]
  /\ queue' = Wake(queue)
  /\ UNCHANGED <<feed, stalled, eph, ready, broken, gnb, lost>>

GnbRestarts ==
  /\ Event /\ gnb.sat # NoSat
  /\ gnb' = [gnb EXCEPT !.sat = NoSat, !.left = 0]
  /\ UNCHANGED <<feed, stalled, eph, cell, queue, ready, broken, work, asked, lost>>

(***************************************************************************)
(* One reconcile of the cell: apply, gates, credential, exchange, status   *)
(* write.                                                                  *)
(***************************************************************************)
(* Ends with a status to write, a gauge to set and a requeue to ask for. *)
Conclude(status, gauge, requeue, frame) ==
  work' = [stage |-> "persist", frame |-> frame, status |-> status, waited |-> 0, ttl |-> 0,
           gauge |-> gauge, requeue |-> requeue, changed |-> status # cell.status,
           conflict |-> work.conflict]

Fails(reason, frame) ==
  /\ Conclude([cell.status EXCEPT !.pushed = "False", !.observed = TRUE], "0",
              ephemerisPushShouldRequeue(reason), frame)
  /\ UNCHANGED ready

Take == work.stage = "idle" /\ queue.queued /\ queue' = [queue EXCEPT !.queued = FALSE]

(* ApplyCellConfig or the read-back fails: the push is not looked at. *)
ReconcileUnapplied ==
  /\ Take /\ broken
  /\ Conclude(cell.status, "", TRUE, NoFrame)
  /\ UNCHANGED <<feed, stalled, eph, cell, ready, broken, gnb, asked, lost, events>>

ReconcileNoRef ==
  /\ Take /\ ~broken /\ ~cell.spec.ref
  /\ Conclude([cell.status EXCEPT !.pushed = ""], "absent", TRUE, NoFrame)
  /\ ready' = "absent"
  /\ UNCHANGED <<feed, stalled, eph, cell, broken, gnb, asked, lost, events>>

ReconcileGated ==
  /\ Take /\ ~broken /\ cell.spec.ref
  /\ LET verdict == pushRuntimeEphemeris(cell.spec, cell.status)
     IN  \/ verdict = "UpToDate" /\ Conclude(cell.status, "1", TRUE, NoFrame) /\ ready' = "1"
         \/ verdict \notin {"UpToDate", "Push"} /\ Fails(verdict, NoFrame)
  /\ UNCHANGED <<feed, stalled, eph, cell, broken, gnb, asked, lost, events>>

(* The gates are passed: the frame and what a success will record are fixed from here on. *)
ReconcilePush ==
  /\ Take /\ ~broken /\ cell.spec.ref
  /\ pushRuntimeEphemeris(cell.spec, cell.status) = "Push"
  /\ work' = [Idle EXCEPT !.stage = "resolve",
                !.frame = [sat |-> selectPropagatedState(cell.spec.norad), left |-> eph.left,
                           switch |-> AttachedSwitch(cell.spec, cell.status), marker |-> "current"],
                !.status = [pushed |-> "True", observed |-> TRUE, marker |-> "current",
                            digest |-> cell.spec.switch]]
  /\ UNCHANGED <<feed, stalled, eph, cell, ready, broken, gnb, asked, lost, events>>

Refusals == {"RemoteControlEndpointNotAllowed"}
Credentials == {"RemoteControlCredentialUnavailable"}

(* The endpoint is not on the allow-list, or the credential cannot be read or used: one reason for every cause. *)
Unresolved ==
  /\ Event /\ work.stage = "resolve"
  /\ \E reason \in Refusals \cup Credentials : Fails(reason, NoFrame)
  /\ UNCHANGED <<feed, stalled, eph, cell, queue, broken, gnb, asked, lost>>

(* resolveRemoteControlTLS has answered, with a credential or with none needed; the timeout starts here. *)
Dial ==
  /\ work.stage = "resolve"
  /\ work' = [work EXCEPT !.stage = "exchange", !.ttl = Timeout]
  /\ UNCHANGED <<feed, stalled, eph, cell, queue, ready, broken, gnb, asked, lost, events>>

(***************************************************************************)
(* The exchange, pushNTNConfigUpdate.                                      *)
(***************************************************************************)
Applies ==
  LET f == work.frame
      s == {f.switch} \ {NoSwitch}
  IN  gnb' = [sat |-> f.sat, left |-> f.left, took |-> f.marker,
              received |-> gnb.received \cup s, switches |-> gnb.switches + Cardinality(s)]

Unrecorded == lost + (IF work.frame.switch = NoSwitch THEN 0 ELSE 1)

Acknowledged ==
  /\ work.stage = "exchange" /\ Applies
  /\ Conclude(work.status, "1", TRUE, [NoFrame EXCEPT !.switch = work.frame.switch]) /\ ready' = "1"
  /\ UNCHANGED <<feed, stalled, eph, cell, queue, broken, asked, lost, events>>

(* The frame is applied, its reply is lost or cannot be read. *)
ReplyLost ==
  /\ Event /\ work.stage = "exchange" /\ Applies /\ lost' = Unrecorded
  /\ Fails("ProviderPushFailed", NoFrame)
  /\ UNCHANGED <<feed, stalled, eph, cell, queue, broken, asked>>

PushErrors == {"ProviderPushFailed", "ProviderPushRejected", "RemoteEndpointRejected"}

(* Fault: an unreachable gNB is taken for an idempotent success. *)
TakenForDelivered ==
  /\ Event /\ work.stage = "exchange"
  /\ Conclude(work.status, "1", TRUE, NoFrame) /\ ready' = "1"
  /\ UNCHANGED <<feed, stalled, eph, cell, queue, broken, gnb, asked, lost>>

(* The gNB cannot be reached, answers with an error, or refuses the handshake. *)
NotDelivered ==
  /\ Event /\ work.stage = "exchange"
  /\ \E reason \in PushErrors : Fails(reason, NoFrame)
  /\ UNCHANGED <<feed, stalled, eph, cell, queue, broken, gnb, asked, lost>>

(***************************************************************************)
(* persistStatusIfChanged, the gauge of a failed push, and the requeue.    *)
(***************************************************************************)
Persist ==
  /\ work.stage = "persist"
  /\ work.changed => ~work.conflict
  /\ cell' = IF work.changed THEN [cell EXCEPT !.status = work.status] ELSE cell
  /\ ready' = IF work.gauge = "0" THEN "0" ELSE ready
  /\ queue' = [queue EXCEPT !.timer = queue.timer \/ work.requeue]
  /\ work' = Idle
  /\ UNCHANGED <<feed, stalled, eph, broken, gnb, asked, lost, events>>

PersistFails ==
  /\ work.stage = "persist" /\ work.changed
  /\ IF work.conflict THEN UNCHANGED events ELSE Event
  /\ lost' = Unrecorded
  /\ queue' = Wake(queue) /\ work' = Idle
  /\ UNCHANGED <<feed, stalled, eph, cell, ready, broken, gnb, asked>>

Worker ==
  ReconcileUnapplied \/ ReconcileNoRef \/ ReconcileGated \/ ReconcilePush \/ Dial
    \/ Acknowledged \/ Persist \/ PersistFails

Next ==
  \/ Tick \/ TimerFires \/ Propagate \/ EditEphemeris \/ NewFeed \/ ElementsAge \/ ProducerStalls
  \/ ApplyBreaks \/ EditCell \/ GnbRestarts \/ Worker \/ Unresolved \/ ReplyLost \/ NotDelivered

Spec == Init /\ [][Next]_vars

(* One worker runs while there is work, timers fire, the producer runs unless it stalls, time passes. *)
FairSpec == Spec /\ WF_vars(Worker) /\ WF_vars(TimerFires) /\ WF_vars(Propagate) /\ WF_vars(Tick)

(***************************************************************************)
(* Properties.                                                             *)
(***************************************************************************)
TypeOK ==
  /\ eph.left \in 0..Lead /\ eph.fresh \subseteq eph.present /\ gnb.left \in 0..Lead
  /\ cell.spec \in Cells /\ feed \in Feeds /\ ready \in {"absent", "0", "1"}
  /\ work.stage \in {"idle", "resolve", "exchange", "persist"}
  /\ work.ttl \in 0..Timeout /\ work.waited \in 0..(Slack + 1)

(* The gNB is given an epoch that is still ahead, unless the read of the credential before the exchange took *)
(* longer than epochSkewMargin exceeds wsDialTimeout: what is left of the margin outlasts the exchange.       *)
DeliveredAhead ==
  [][work.stage = "exchange" /\ work'.stage = "persist" /\ Applies /\ work.waited <= Slack => gnb'.left > 0]_vars

(* When a cell reports the present states as pushed, they are the last that its gNB took, whether or not it *)
(* has restarted since: no failed, refused or unanswered exchange is recorded as a push.                    *)
PushedMeansTaken ==
  cell.status.pushed = "True" /\ cell.status.marker = "current" => gnb.took = "current"

(* A satellite switch is applied once for each time it is asked for, but for deliveries whose record was lost. *)
SwitchNotRepeated == gnb.switches <= asked + lost

Expired == gnb.sat # NoSat /\ gnb.left = 0

(* A cell is not reported ready for ever while the epoch its gNB was given has run out, as long as its *)
(* configuration applies: either the push is seen to be stale or a new epoch reaches the gNB.         *)
StaleIsNoticed == (ready = "1" /\ Expired) ~> (ready # "1" \/ ~Expired \/ broken)

(* The same without the proviso: the push fails closed whatever else fails. *)
StaleAlwaysNoticed == (ready = "1" /\ Expired) ~> (ready # "1" \/ ~Expired)

Latest(s) == {o \in feed : o.sat = s /\ \A p \in feed : p.sat = s => o.age <= p.age}
Plausible(s) == \E o \in Latest(s) : o.age >= -MaxAhead
Usable(s) == \E o \in Latest(s) : o.age \in -MaxAhead..MaxAge

(* Fewer than MaxStates satellites come before s, so that the cap on the states does not omit it. *)
Listed(s) == Cardinality({t \in {o.sat : o \in feed} : t < s /\ Plausible(t)}) < MaxStates

(* Once edits and faults stop, a working producer and a cell that selects a satellite with usable elements *)
(* that the cap on the states does not omit bring live states of it, and any switch asked for, to the gNB.  *)
StatesReachTheGnb ==
  (events = MaxEvents /\ ~broken /\ ~stalled /\ cell.spec.ref /\ cell.spec.norad # NoSat
     /\ Usable(cell.spec.norad) /\ Listed(cell.spec.norad))
    ~> (/\ gnb.sat = cell.spec.norad /\ gnb.left > 0
        /\ cell.spec.switch # NoSwitch => cell.spec.switch \in gnb.received)
=============================================================================
