----------------------------- MODULE SliceReport -----------------------------
(***************************************************************************)
(* What one NTNSlice reports: the conditions and the contact candidate in  *)
(* its status, the events and the FailoverTotal counter, along the same    *)
(* read / write / commit steps of the reconciler as NTNSlice.  Which path  *)
(* decision is taken is left open here; NTNSlice says when each is.        *)
(***************************************************************************)
EXTENDS Integers

CONSTANTS MaxFailovers, MaxGeneration, MaxCutOff   \* bounds

VARIABLES
  slice,          \* the stored object: [generation, status]
  cached,         \* the informer cache's copy of it
  work,           \* the reconcile in flight
  failoverTotal,  \* the FailoverTotal counter of this process
  counterBase,    \* history: status.failoverCount minus what failoverTotal stands for
  owed,           \* history: per event, durable transitions minus announcements, of all processes
  cutOff          \* history: per event, durable transitions whose reconcile ended before announcing them

vars == <<slice, cached, work, failoverTotal, counterBase, owed, cutOff>>

EventKinds == {"FailoverTriggered", "Switchback", "MetricsStale", "InertTriggers"}
Tristate   == {"True", "False", "Unknown"}
Contacts   == {"unknown", "available", "unavailable"}
(* A fresh value; a replay within the freshness bound; one beyond it; no value at all. *)
Qualities  == {"fresh", "stale", "tooStale", "unusable"}
Reliable(quality) == quality \in {"fresh", "stale"}

NoStatus == [path |-> "terrestrial", count |-> 0, ready |-> "Unknown", candidate |-> FALSE,
             stale |-> "Unknown", triggers |-> [status |-> "Unknown", generation |-> 0]]
NewSlice == [generation |-> 1, status |-> NoStatus]
Idle     == [stage |-> "idle", base |-> NewSlice, status |-> NoStatus, decision |-> "Stay", pending |-> {}]

Init ==
  /\ slice = NewSlice /\ cached = NewSlice /\ work = Idle
  /\ failoverTotal = 0 /\ counterBase = 0
  /\ owed = [k \in EventKinds |-> 0] /\ cutOff = [k \in EventKinds |-> 0]

InformerSync ==
  /\ cached # slice
  /\ cached' = slice
  /\ UNCHANGED <<slice, work, failoverTotal, counterBase, owed, cutOff>>

EditSpec ==
  /\ slice.generation < MaxGeneration
  /\ slice' = [slice EXCEPT !.generation = @ + 1]
  /\ UNCHANGED <<cached, work, failoverTotal, counterBase, owed, cutOff>>

(***************************************************************************)
(* The reconcile's report, built on the cached status.                     *)
(***************************************************************************)
(* readPathQuality and setMetricsDegraded. *)
QualityStatus(status, quality) ==
  LET stale == CASE quality = "fresh" -> "False" [] quality = "unusable" -> "Unknown" [] OTHER -> "True"
  IN  [status EXCEPT !.stale = stale, !.ready = IF Reliable(quality) THEN @ ELSE "Unknown"]

(* failoverReadyCondition, with the candidate the evaluation was decided on. *)
ReadyStatus(status, quality, contact) ==
  IF Reliable(quality)
  THEN [status EXCEPT !.ready = CASE contact = "unknown" -> "Unknown" [] contact = "available" -> "True"
                                  [] OTHER -> "False",
                      !.candidate = (contact = "available")]
  ELSE status

(* conditionEpisodeChanged for TriggersReady=False, InertTriggers. *)
InertEpisode(object) ==
  object.status.triggers # [status |-> "False", generation |-> object.generation]

(* Fault: unreliable metrics leave the earlier verdict in place. *)
TriggersKept(status, generation, quality, inert) ==
  IF ~Reliable(quality) THEN status
  ELSE [status EXCEPT !.triggers = [status |-> IF inert THEN "False" ELSE "True", generation |-> generation]]

(* reportInertTriggers, or Unknown while metrics are unreliable. *)
TriggersStatus(status, generation, quality, inert) ==
  [status EXCEPT !.triggers =
    [status |-> IF ~Reliable(quality) THEN "Unknown" ELSE IF inert THEN "False" ELSE "True",
     generation |-> generation]]

(* Fault: the inert-trigger event is queued on every reconcile. *)
PendingEveryTime(object, quality, inert) ==
  (IF quality \in {"stale", "tooStale"} /\ object.status.stale # "True" THEN {"MetricsStale"} ELSE {})
  \cup (IF Reliable(quality) /\ inert THEN {"InertTriggers"} ELSE {})

PendingEvents(object, quality, inert) ==
  (IF quality \in {"stale", "tooStale"} /\ object.status.stale # "True" THEN {"MetricsStale"} ELSE {})
  \cup (IF Reliable(quality) /\ inert /\ InertEpisode(object) THEN {"InertTriggers"} ELSE {})

(* The decisions the reconciler may take on this path with this much known. *)
Possible(path, quality, contact) ==
  {"Stay"}
  \cup (IF path = "terrestrial" /\ Reliable(quality) /\ contact = "available" THEN {"Failover"} ELSE {})
  \cup (IF path = "satellite" /\ (contact = "unavailable" \/ (contact = "available" /\ Reliable(quality)))
        THEN {"Switchback"} ELSE {})

DecisionStatus(status, decision) ==
  CASE decision = "Failover"   -> [status EXCEPT !.path = "satellite", !.count = @ + 1]
    [] decision = "Switchback" -> [status EXCEPT !.path = "terrestrial"]
    [] OTHER -> status

Reconcile(quality, contact, inert, decision) ==
  LET measured == QualityStatus(cached.status, quality)
      ready    == ReadyStatus(measured, quality, contact)
      reported == TriggersStatus(ready, cached.generation, quality, inert)
  IN
  /\ work.stage = "idle"
  /\ decision \in Possible(cached.status.path, quality, contact)
  /\ decision = "Failover" => cached.status.count < MaxFailovers
  /\ work' = [stage |-> "write", base |-> cached, status |-> DecisionStatus(reported, decision),
              decision |-> decision, pending |-> PendingEvents(cached, quality, inert)]
  /\ UNCHANGED <<slice, cached, failoverTotal, counterBase, owed, cutOff>>

(***************************************************************************)
(* The write and what follows it.                                          *)
(***************************************************************************)
(* History: the transitions that a status write makes durable. *)
Transition(kind, before, after) ==
  CASE kind = "FailoverTriggered" -> before.path = "terrestrial" /\ after.path = "satellite"
    [] kind = "Switchback"        -> before.path = "satellite" /\ after.path = "terrestrial"
    [] kind = "MetricsStale"      -> before.stale # "True" /\ after.stale = "True"
    [] kind = "InertTriggers"     -> after.triggers.status = "False" /\ before.triggers # after.triggers

Transitions == {k \in EventKinds : Transition(k, slice.status, work.status)}
Plus(history, kinds) == [k \in EventKinds |-> history[k] + IF k \in kinds THEN 1 ELSE 0]

(* The bound: so many durable transitions are cut off from their announcement, of all kinds together. *)
CutOffBound ==
  cutOff'["FailoverTriggered"] + cutOff'["Switchback"] + cutOff'["MetricsStale"] + cutOff'["InertTriggers"] <= MaxCutOff

Accept == work.base = slice /\ slice' = [slice EXCEPT !.status = work.status]

WriteStatus ==
  /\ work.stage = "write"
  /\ Accept
  /\ owed' = Plus(owed, Transitions)
  /\ work' = [work EXCEPT !.stage = "commit"]
  /\ UNCHANGED <<cached, failoverTotal, counterBase, cutOff>>

(* persistStatusIfChanged: no write for an unchanged status without a queued event. *)
CanSkipWrite == work.status = work.base.status /\ work.pending = {}

SkipWrite ==
  /\ work.stage = "write" /\ CanSkipWrite
  /\ work' = [work EXCEPT !.stage = "commit"]
  /\ UNCHANGED <<slice, cached, failoverTotal, counterBase, owed, cutOff>>

(* Fault: a failover is counted although its write failed. *)
WriteFailsCounting ==
  /\ work.stage = "write"
  /\ failoverTotal' = failoverTotal + IF work.decision = "Failover" THEN 1 ELSE 0
  /\ work' = Idle
  /\ UNCHANGED <<slice, cached, counterBase, owed, cutOff>>

WriteFails ==
  /\ work.stage = "write"
  /\ work' = Idle
  /\ UNCHANGED <<slice, cached, failoverTotal, counterBase, owed, cutOff>>

(* The update is applied but its answer is lost: Reconcile returns the error, and what became durable
   is never announced, since the next reconcile reads it as the old state. *)
WriteReplyLost ==
  /\ work.stage = "write"
  /\ Accept
  /\ counterBase' = counterBase + (IF work.decision = "Failover" THEN 1 ELSE 0)
  /\ owed' = Plus(owed, Transitions)
  /\ cutOff' = Plus(cutOff, Transitions)
  /\ CutOffBound
  /\ work' = Idle
  /\ UNCHANGED <<cached, failoverTotal>>

Announced ==
  work.pending \cup (CASE work.decision = "Failover" -> {"FailoverTriggered"}
                       [] work.decision = "Switchback" -> {"Switchback"}
                       [] OTHER -> {})

Uncounted == IF work.stage = "commit" /\ work.decision = "Failover" THEN 1 ELSE 0

(* The counter and the events, once the status is durable. *)
Commit ==
  /\ work.stage = "commit"
  /\ failoverTotal' = failoverTotal + Uncounted
  /\ owed' = [k \in EventKinds |-> owed[k] - IF k \in Announced THEN 1 ELSE 0]
  /\ work' = Idle
  /\ UNCHANGED <<slice, cached, counterBase, cutOff>>

(* A restart: the process counter starts again, and a reconcile between its write and its commit never
   announces what it wrote. *)
Restart ==
  /\ work' = Idle
  /\ failoverTotal' = 0 /\ counterBase' = slice.status.count
  /\ cutOff' = Plus(cutOff, IF work.stage = "commit" THEN Announced ELSE {})
  /\ CutOffBound
  /\ UNCHANGED <<slice, cached, owed>>

Next ==
  \/ InformerSync \/ EditSpec \/ WriteStatus \/ SkipWrite \/ WriteFails \/ WriteReplyLost \/ Commit \/ Restart
  \/ \E quality \in Qualities, contact \in Contacts, inert \in BOOLEAN,
        decision \in {"Stay", "Failover", "Switchback"} : Reconcile(quality, contact, inert, decision)

Spec == Init /\ [][Next]_vars

(***************************************************************************)
(* Properties.                                                             *)
(***************************************************************************)
(* Each durable transition of the path, of MetricsStale into True and of TriggersReady into a new inert
   episode is announced exactly once, unless the answer to the write that stored it was lost or the
   process ended between that write and the announcement; then it is never announced.  Nothing is
   announced twice, and a conflicting or failed write announces nothing, however often it is retried. *)
AnnouncedOnceUnlessCutOff == work.stage # "commit" => \A k \in EventKinds : owed[k] = cutOff[k]

(* FailoverTotal stays in step with status.failoverCount: apart from what earlier processes counted
   and from updates whose answer was lost, each recorded failover is counted exactly once. *)
CounterInStep == failoverTotal + Uncounted = slice.status.count - counterBase

(* The stored conditions come from one evaluation: while metric freshness is unknown, neither
   FailoverReady nor TriggersReady still claims the verdict of an earlier reading. *)
ConditionsAgree ==
  slice.status.stale = "Unknown" => slice.status.ready = "Unknown" /\ slice.status.triggers.status = "Unknown"
=============================================================================
