-------------------------- MODULE NTNSliceStreaks ---------------------------
(* What the anti-flap engine remembers of NTNSlice's metrics: no failover without a confirmed run of
   degraded samples, no hand-back without an elapsed recovery, for every policy and every bound. *)
EXTENDS NTNSliceTyping

(***************************************************************************)
(* The steps, seen from the memory of the anti-flap engine.                *)
(***************************************************************************)
(* The in-memory entry is dropped, and with it the reconcile that was in flight. *)
Forgets ==
  /\ flapState' = NoEntry /\ work'.stage = "idle"
  /\ staleCache' = NoStale \/ staleCache' = staleCache
  /\ UNCHANGED <<sample, evidence>>

(* Memory stands still while everything else moves; the reconcile in flight ends, waits or advances. *)
Quiet ==
  /\ clock' >= clock
  /\ UNCHANGED <<sample, flapState, staleCache, evidence>>
  /\ \/ work' = work
     \/ work'.stage = "idle"
     \/ work.stage = "write" /\ work' = [work EXCEPT !.stage = "commit"]

(* A step decides, commits, forgets or leaves memory alone. *)
LEMMA StepKinds ==
  ASSUME TypeOK, [Next]_vars
  PROVE  \/ \E fetch \in Fetches, contact \in Contacts :
               HoldUnknown(fetch, contact) \/ FailStatic(fetch, contact) \/ EvaluateQuality(fetch, contact)
         \/ Commit \/ Forgets \/ Quiet
<1>1. clock \in Nat /\ Idle.stage = "idle"
  BY Zenon DEF TypeOK, Idle
<1>2. CASE Tick \/ InformerSync \/ EditSpec \/ Delete \/ ForceDelete \/ Recreate
  BY <1>1, <1>2 DEF Tick, InformerSync, EditSpec, Delete, ForceDelete, Recreate, history, Quiet
<1>3. CASE \E how \in {"degraded", "set"} : Settle(how)
  BY <1>1, <1>3 DEF Settle, history, Quiet
<1>s. CASE \E skew \in 1..MaxSkew : StepBack(skew)
  BY <1>1, <1>s DEF StepBack, history, Quiet
<1>4. CASE \E skew \in 0..MaxSkew : Handoff(skew)
  BY <1>1, <1>4, Zenon DEF Handoff, history, Forgets
<1>5. CASE ReconcileGone \/ ReconcileDeleted
  BY <1>5, Zenon DEF ReconcileGone, ReconcileDeleted, history, Forgets
<1>6. CASE WriteStatus \/ SkipWrite \/ WriteFails \/ WriteReplyLost
  BY <1>1, <1>6 DEF WriteStatus, SkipWrite, WriteFails, WriteReplyLost, history, Quiet
<1>7. CASE UNCHANGED vars
  BY <1>1, <1>7 DEF vars, Quiet
<1>8. QED BY <1>2, <1>3, <1>s, <1>4, <1>5, <1>6, <1>7, Zenon DEF Next, Reconcile

(* Without telemetry or without a known contact the slice holds, or leaves a satellite that has set;
   the streaks are broken and the dwell clock stands still. *)
LEMMA GapStep ==
  ASSUME TypeOK, NEW fetch \in Fetches, NEW contact \in Contacts,
         HoldUnknown(fetch, contact) \/ FailStatic(fetch, contact)
  PROVE  /\ Starts(fetch, contact)
         /\ work'.stage = "write" /\ work'.now = clock /\ work'.wall = Wall /\ work'.base = cached
         /\ work'.status.lastSwitchback = cached.status.lastSwitchback
         /\ work'.flap = NoEntry /\ work'.contact = contact
         /\ work'.evidence = NoEvidenceOf(cached) /\ evidence' = NoEvidenceOf(cached)
         /\ flapState'.uid = flapState.uid /\ flapState'.generation = flapState.generation
         /\ flapState'.stamp = flapState.stamp
         /\ flapState'.state = [degraded |-> 0, recovery |-> 0, cursor |-> flapState.state.cursor,
                                lastSwitchback |-> flapState.state.lastSwitchback]
         /\ \/ work'.decision = "Stay" /\ work'.status.path = cached.status.path
            \/ /\ work'.decision = "Switchback" /\ contact = "unavailable"
               /\ cached.status.path = Satellite /\ work'.status.path = Terrestrial
<1>1. flapState \in Entries /\ flapState.state \in FlapStates
  BY Zenon DEF TypeOK, Entries
<1>2. PICK result :
        /\ Starts(fetch, contact) /\ Gap(cached)
        /\ Decided(result, cached.status, NoEntry, contact, evidence')
        /\ \/ result = Stay(cached.status.path)
           \/ result = SwitchBack /\ contact = "unavailable" /\ cached.status.path = Satellite
  <2>1. CASE HoldUnknown(fetch, contact)
    BY <2>1, Zenon DEF HoldUnknown
  <2>2. CASE FailStatic(fetch, contact)
    BY <2>2, Zenon DEF FailStatic, EvaluateSafeHold, Contacts
  <2>3. QED BY <2>1, <2>2, Zenon
<1>3. /\ work'.stage = "write" /\ work'.now = clock /\ work'.wall = Wall /\ work'.base = cached
      /\ work'.status.lastSwitchback = cached.status.lastSwitchback /\ work'.status.path = result.target
      /\ work'.flap = NoEntry /\ work'.contact = contact /\ work'.decision = result.decision
      /\ work'.evidence = evidence'
  BY <1>2, Zenon DEF Decided, ApplyDecision
<1>4. /\ flapState'.uid = flapState.uid /\ flapState'.generation = flapState.generation
      /\ flapState'.stamp = flapState.stamp
      /\ flapState'.state = [degraded |-> 0, recovery |-> 0, cursor |-> flapState.state.cursor,
                             lastSwitchback |-> flapState.state.lastSwitchback]
      /\ evidence' = NoEvidenceOf(cached)
  BY <1>1, <1>2, Zenon DEF Gap, resetRecoveryStreak, Entries
<1>5. \/ result.decision = "Stay" /\ result.target = cached.status.path
      \/ /\ result.decision = "Switchback" /\ contact = "unavailable"
         /\ cached.status.path = Satellite /\ result.target = Terrestrial
  BY <1>2 DEF Stay, SwitchBack, Result
<1>6. QED BY <1>2, <1>3, <1>4, <1>5, Zenon

(* With both known the engine's answer is what the reconcile carries to the status write. *)
LEMMA EvaluationStep ==
  ASSUME TypeOK, NEW fetch \in Fetches, NEW contact \in Contacts, EvaluateQuality(fetch, contact)
  PROVE  LET quality == readPathQuality(fetch)
             e == Evaluation(quality, contact) IN
         /\ Starts(fetch, contact) /\ quality.reliable /\ contact # "unknown"
         /\ flapState' = loadFlapState(cached) /\ evidence' = evidence
         /\ work'.stage = "write" /\ work'.now = clock /\ work'.wall = Wall /\ work'.base = cached
         /\ work'.contact = contact
         /\ work'.decision = e.result.decision /\ work'.status.path = e.result.target
         /\ work'.status.lastSwitchback = StatusOf(e, contact).lastSwitchback
         /\ work'.flap = EntryOf(e, contact)
         /\ work'.flap.uid = cached.uid /\ work'.flap.generation = cached.generation
         /\ work'.flap.state.degraded = IF e.state.degraded > DegradedCap THEN DegradedCap ELSE e.state.degraded
         /\ work'.flap.state.recovery = e.state.recovery /\ work'.flap.state.cursor = e.state.cursor
         /\ work'.evidence = Extended(Current(evidence, cached), quality.reading, quality.observedAt)
<1> DEFINE quality == readPathQuality(fetch)
           e == Evaluation(quality, contact)
           kept == Extended(Current(evidence, cached), quality.reading, quality.observedAt)
<1>1. /\ Starts(fetch, contact) /\ quality.reliable /\ contact # "unknown"
      /\ flapState' = loadFlapState(cached) /\ evidence' = evidence
      /\ Decided(e.result, StatusOf(e, contact), EntryOf(e, contact), contact, kept)
  BY Zenon DEF EvaluateQuality
<1>2. LET n == EntryOf(e, contact) IN
      /\ n.uid = cached.uid /\ n.generation = cached.generation
      /\ n.state.degraded = IF e.state.degraded > DegradedCap THEN DegradedCap ELSE e.state.degraded
      /\ n.state.recovery = e.state.recovery /\ n.state.cursor = e.state.cursor
  BY QualityTyped, EntryLeft, Zenon
<1> HIDE DEF quality, e, kept
<1>3. /\ work'.stage = "write" /\ work'.now = clock /\ work'.wall = Wall /\ work'.base = cached
      /\ work'.contact = contact
      /\ work'.decision = e.result.decision /\ work'.status.path = e.result.target
      /\ work'.status.lastSwitchback = StatusOf(e, contact).lastSwitchback
      /\ work'.flap = EntryOf(e, contact) /\ work'.evidence = kept
  BY <1>1, Zenon DEF Decided, ApplyDecision
<1>4. QED BY <1>1, <1>2, <1>3, Zenon DEF quality, e, kept

(***************************************************************************)
(* No dwell clock is dated in the future, other than by what the process   *)
(* has seen its own wall clock set back.  The durable one may be, after a  *)
(* handoff to a node whose clock is behind: it is memory and the decision  *)
(* in flight that never are.                                               *)
(***************************************************************************)
FutureInv ==
  /\ flapState.stamp <= clock
  /\ work.stage # "idle" =>
       /\ work.now <= clock /\ work.flap.stamp <= work.now
       /\ work.flap # NoEntry => work.status.lastSwitchback <= work.now

(* What an evaluation starts from, and what it leaves for status and for memory, is not in the
   future: seedLastSwitchbackFromStatus refuses a later time and persist clears one. *)
LEMMA EvaluationPast ==
  ASSUME TypeOK, FutureInv, NEW fetch \in Fetches, NEW contact \in Contacts
  PROVE  LET e == Evaluation(readPathQuality(fetch), contact) IN
         /\ loadFlapState(cached).stamp <= clock
         /\ EntryOf(e, contact).stamp <= clock /\ StatusOf(e, contact).lastSwitchback <= clock
<1> DEFINE e == Evaluation(readPathQuality(fetch), contact)
           entry == loadFlapState(cached)
           durable == cached.status.lastSwitchback
           latest == EntryOf(e, contact).stamp
<1>1. /\ clock \in Nat /\ durable \in Nat /\ cached.status \in Statuses
      /\ flapState.stamp \in Nat /\ flapState.stamp <= clock
  BY Zenon DEF TypeOK, Objects, Statuses, Entries, FutureInv
<1>2. entry \in Entries /\ entry.stamp \in Nat /\ Wall \in Nat
  BY SeededTyped, Zenon DEF Entries
<1>w. Wall <= clock
  BY BoundAssumption DEF Wall, TypeOK
<1>3. entry.stamp <= clock
  BY <1>1 DEF loadFlapState, NoEntry
<1> HIDE DEF entry
<1>4. Seeded.stamp <= clock
  <2>1. Seeded = seedLastSwitchbackFromStatus(entry, durable)
    BY Zenon DEF Seeded, entry
  <2> HIDE DEF durable
  <2>2. Seeded.stamp = entry.stamp \/ (Seeded.stamp = durable /\ durable <= Wall)
    BY <2>1, Zenon DEF seedLastSwitchbackFromStatus, Adopted
  <2>3. QED BY <1>1, <1>2, <1>w, <1>3, <2>2
<1>5. latest \in Nat /\ (latest = Wall \/ latest = Seeded.stamp)
  <2>1. readPathQuality(fetch).observedAt \in Nat
    BY QualityTyped, Zenon
  <2>2. EntryOf(e, contact) \in Entries /\ (latest = Wall \/ latest = Seeded.stamp)
    BY <2>1, EntryLeft, Zenon
  <2>3. QED BY <2>2, Zenon DEF Entries
<1> HIDE DEF e
<1>6. latest <= clock /\ Trunc(latest) \in Nat /\ Trunc(latest) <= latest
  <2> HIDE DEF latest
  <2>1. QED BY <1>1, <1>2, <1>w, <1>4, <1>5, TruncBelow
<1>7. StatusOf(e, contact).lastSwitchback = persistLastSwitchbackToStatus(durable, latest)
  BY <1>1, Zenon DEF StatusOf, Statuses
<1>8. persistLastSwitchbackToStatus(durable, latest) <= clock
  <2> HIDE DEF latest, durable
  <2>1. QED BY <1>1, <1>2, <1>w, <1>5, <1>6 DEF persistLastSwitchbackToStatus
<1>9. QED BY <1>3, <1>6, <1>7, <1>8, Zenon DEF e, entry

(* Every step keeps the dwell clocks of memory and of the decision in flight in the past. *)
LEMMA NextFuture == TypeOK /\ FutureInv /\ [Next]_vars => FutureInv'
<1> SUFFICES ASSUME TypeOK, FutureInv, [Next]_vars PROVE FutureInv'
  BY Zenon
<1>1. /\ clock \in Nat /\ work.now \in Nat /\ work.flap.stamp \in Nat
      /\ work.status.lastSwitchback \in Nat /\ flapState.stamp \in Nat
      /\ NoEntry.stamp = 0 /\ Idle.stage = "idle"
  BY Zenon DEF TypeOK, Works, Statuses, Entries, NoEntry, Idle
<1>2. clock' \in Nat
  BY NextTyped, Zenon DEF TypeOK
<1>3. ASSUME NEW fetch \in Fetches, NEW contact \in Contacts,
             HoldUnknown(fetch, contact) \/ FailStatic(fetch, contact)
      PROVE  FutureInv'
  <2>1. /\ Starts(fetch, contact) /\ work'.now = clock /\ work'.flap = NoEntry
        /\ flapState'.stamp = flapState.stamp
    BY <1>3, GapStep
  <2>2. QED BY <1>1, <2>1 DEF FutureInv, Starts
<1>4. ASSUME NEW fetch \in Fetches, NEW contact \in Contacts, EvaluateQuality(fetch, contact)
      PROVE  FutureInv'
  <2> DEFINE e == Evaluation(readPathQuality(fetch), contact)
  <2>1. /\ Starts(fetch, contact) /\ flapState' = loadFlapState(cached) /\ work'.now = clock
        /\ work'.status.lastSwitchback = StatusOf(e, contact).lastSwitchback
        /\ work'.flap = EntryOf(e, contact)
    BY <1>4, EvaluationStep, Zenon
  <2>2. /\ loadFlapState(cached).stamp <= clock
        /\ EntryOf(e, contact).stamp <= clock /\ StatusOf(e, contact).lastSwitchback <= clock
    BY EvaluationPast, Zenon
  <2> HIDE DEF e
  <2>3. clock' = clock
    BY <2>1, Zenon DEF Starts
  <2>4. QED BY <1>1, <2>1, <2>2, <2>3 DEF FutureInv
<1>5. CASE Commit
  BY <1>1, <1>5 DEF Commit, FutureInv
<1>6. CASE Forgets
  BY <1>1, <1>2, <1>6 DEF Forgets, FutureInv
<1>7. CASE Quiet
  <2>1. CASE work' = work
    BY <1>1, <1>2, <1>7, <2>1 DEF Quiet, FutureInv
  <2>2. CASE work'.stage = "idle"
    BY <1>1, <1>2, <1>7, <2>2 DEF Quiet, FutureInv
  <2>3. CASE work.stage = "write" /\ work' = [work EXCEPT !.stage = "commit"]
    <3>1. /\ work'.now = work.now /\ work'.flap = work.flap /\ work'.status = work.status
      BY <2>3, Zenon DEF TypeOK, Works
    <3>2. QED BY <1>1, <1>2, <1>7, <2>3, <3>1 DEF Quiet, FutureInv
  <2>4. QED BY <1>7, <2>1, <2>2, <2>3, Zenon DEF Quiet
<1>8. QED BY <1>3, <1>4, <1>5, <1>6, <1>7, StepKinds, Zenon

(* A dwell clock dated in the future, which a leader whose clock is behind may find in status, is
   never enforced nor kept: no evaluation records or stores one later than the newest time its own
   process has known, so only a wall clock set back under the process leaves one ahead of it. *)
THEOREM DwellNeverFuture == Spec => []NeverFutureDwell
<1>1. Init => TypeOK /\ FutureInv
  BY InitTyped, BoundAssumption DEF Init, FutureInv, NoEntry, NoFlapState, Idle
<1>2. TypeOK /\ FutureInv /\ [Next]_vars => TypeOK' /\ FutureInv'
  BY NextTyped, NextFuture, Zenon
<1>3. TypeOK /\ FutureInv => NeverFutureDwell
  BY Zenon DEF FutureInv, NeverFutureDwell
<1>4. QED BY <1>1, <1>2, <1>3, PTL DEF Spec

(***************************************************************************)
(* Confirmation.  The counter in memory may lag behind what has really     *)
(* been observed, never lead it: each count stands for an observation of   *)
(* the run that was recorded.  A replay leaves the counter alone, and it   *)
(* cannot interrupt the run unnoticed because whatever is read is the      *)
(* newest sample of the source.                                            *)
(***************************************************************************)
(* The entry that memory holds once the reconcile in flight commits. *)
Committing == IF work.flap = NoEntry THEN flapState ELSE work.flap

(* The cursor never passes the newest sample; a streak that has counted it was degraded by it. *)
UpToDate(st) ==
  /\ st.cursor <= sample.at
  /\ st.cursor = sample.at /\ sample.at # 0 /\ st.degraded > 0 => terrestrialDegraded(Triggers, sample.reading)

(* A running streak is one of the recorded run of the same object and generation. *)
StreakKnown(entry, e) ==
  entry.state.degraded > 0 =>
    /\ entry.uid = e.uid /\ entry.generation = e.generation
    /\ entry.state.degraded <= e.degraded /\ entry.state.cursor = e.last

LastDegraded(e) == e.last # 0 => e.degraded > 0

(* What the reader remembers is the newest sample. *)
SampleInv ==
  /\ clock >= Second /\ slice.uid >= 1 /\ cached.uid >= 1
  /\ ~Timestamped => sample.at = 0
  /\ staleCache.uid # 0 =>
       /\ Timestamped /\ sample.at # 0
       /\ staleCache.observedAt = sample.at /\ staleCache.reading = sample.reading

StreakInv ==
  /\ UpToDate(flapState.state) /\ StreakKnown(flapState, evidence) /\ LastDegraded(evidence)
  /\ work.stage # "idle" =>
       /\ UpToDate(Committing.state) /\ StreakKnown(Committing, work.evidence)
       /\ LastDegraded(work.evidence)
  /\ FailoverConfirmed

(* A reliable observation shows the newest sample under its own timestamp, or has none. *)
LEMMA ObservationCurrent ==
  ASSUME TypeOK, SampleInv, NEW fetch \in Fetches, NEW contact,
         Starts(fetch, contact), readPathQuality(fetch).reliable
  PROVE  LET quality == readPathQuality(fetch) IN
         /\ sample'.at \in Nat /\ sample.at \in Nat /\ quality.observedAt \in Nat
         /\ quality.observedAt = sample'.at
         /\ sample'.at # 0 => quality.reading = sample'.reading
         /\ sample' = sample \/ sample.at < sample'.at
         /\ Timestamped => sample'.at # 0
         /\ ~Timestamped => sample'.at = 0
<1>1. /\ clock \in Nat /\ clock # 0 /\ sample.at \in Nat /\ cached.uid # 0 /\ Timestamped \in BOOLEAN
      /\ fetch.kind \in {"new", "same", "failed", "unbuildable"}
  BY BoundAssumption, PolicyAssumption DEF TypeOK, SampleInv, Fetches
<1>2. CanFetch(fetch) /\ sample' = SampleAfter(fetch)
  BY Zenon DEF Starts
<1>3. CASE ~Timestamped
  <2>1. fetch.kind = "new" /\ sample' = sample
    BY <1>2, <1>3, Zenon DEF CanFetch, SampleAfter
  <2>2. QED BY <1>1, <1>3, <2>1, Zenon DEF readPathQuality, SampleInv
<1>4. CASE Timestamped /\ fetch.kind = "new"
  <2>1. sample' = [at |-> clock, reading |-> fetch.reading] /\ sample.at < clock
    BY <1>2, <1>4, Zenon DEF CanFetch, SampleAfter
  <2>2. readPathQuality(fetch).reading = fetch.reading /\ readPathQuality(fetch).observedAt = clock
    BY <1>4, Zenon DEF readPathQuality
  <2>3. QED BY <1>1, <1>4, <2>1, <2>2, Zenon
<1>5. CASE Timestamped /\ fetch.kind = "same"
  <2>1. sample' = sample /\ sample.at # 0
    BY <1>2, <1>5, Zenon DEF CanFetch, SampleAfter
  <2>2. readPathQuality(fetch).reading = sample.reading /\ readPathQuality(fetch).observedAt = sample.at
    BY <1>5, Zenon DEF readPathQuality
  <2>3. QED BY <1>1, <1>5, <2>1, <2>2, Zenon
<1>6. CASE Timestamped /\ fetch.kind = "failed" /\ staleCache.uid = cached.uid
  <2>1. sample' = sample
    BY <1>2, <1>6, Zenon DEF SampleAfter
  <2>2. /\ readPathQuality(fetch).reading = staleCache.reading
        /\ readPathQuality(fetch).observedAt = staleCache.observedAt
    BY <1>6, Zenon DEF readPathQuality
  <2>3. QED BY <1>1, <1>6, <2>1, <2>2, Zenon DEF SampleInv
<1>7. ~readPathQuality(fetch).reliable \/ fetch.kind \in {"new", "same"}
        \/ (fetch.kind = "failed" /\ staleCache.uid = cached.uid)
  BY <1>1, Zenon DEF readPathQuality
<1>8. QED BY <1>1, <1>3, <1>4, <1>5, <1>6, <1>7, Zenon

(* Memory of the newest sample survives every step. *)
LEMMA NextSample == TypeOK /\ SampleInv /\ [Next]_vars => SampleInv'
<1> SUFFICES ASSUME TypeOK, SampleInv, [Next]_vars PROVE SampleInv'
  BY Zenon
<1>1. clock \in Nat /\ slice \in Objects /\ cached \in Objects /\ slice.uid \in Nat /\ cached.uid \in Nat
      /\ sample.at \in Nat
  BY Zenon DEF TypeOK, Objects
<1>2. clock' >= Second
  <2>1. CASE Tick
    BY <1>1, <2>1, BoundAssumption DEF Tick, SampleInv
  <2>2. CASE \E skew \in 0..MaxSkew : Handoff(skew)
    BY <2>2, Zenon DEF Handoff, Wall
  <2>3. CASE ~Tick /\ ~(\E skew \in 0..MaxSkew : Handoff(skew))
    <3>1. clock' = clock
      BY <2>3 DEF Next, Reconcile, InformerSync, EditSpec, Delete, ForceDelete, Recreate, Settle, StepBack, HoldUnknown,
        FailStatic, EvaluateQuality, Starts, ReconcileGone, ReconcileDeleted, WriteStatus, SkipWrite,
        WriteFails, WriteReplyLost, Commit, vars
    <3>2. QED BY <3>1, Zenon DEF SampleInv
  <2>4. QED BY <2>1, <2>2, <2>3, Zenon
<1>3. slice'.uid >= 1
  <2>1. CASE Recreate
    BY <1>1, <2>1 DEF Recreate, NewSlice, SampleInv
  <2>2. CASE EditSpec \/ Delete \/ ForceDelete \/ ReconcileDeleted \/ WriteStatus \/ WriteReplyLost
    <3>1. slice'.uid = slice.uid
      BY <1>1, <2>2, Zenon DEF EditSpec, Delete, ForceDelete, ReconcileDeleted, WriteStatus, WriteReplyLost,
        Accept, Objects
    <3>2. QED BY <3>1, Zenon DEF SampleInv
  <2>3. CASE ~(Recreate \/ EditSpec \/ Delete \/ ForceDelete \/ ReconcileDeleted \/ WriteStatus
                 \/ WriteReplyLost)
    <3>1. slice' = slice
      BY <2>3, Zenon DEF Next, Reconcile, Tick, InformerSync, Settle, StepBack, Handoff, HoldUnknown, FailStatic,
        EvaluateQuality, Starts, ReconcileGone, SkipWrite, WriteFails, Commit, vars
    <3>2. QED BY <3>1, Zenon DEF SampleInv
  <2>4. QED BY <2>1, <2>2, <2>3, Zenon
<1>4. cached'.uid >= 1
  <2>1. CASE InformerSync
    BY <2>1, Zenon DEF InformerSync, SampleInv
  <2>2. CASE ~InformerSync
    <3>1. cached' = cached
      BY <2>2 DEF Next, Reconcile, Tick, EditSpec, Delete, ForceDelete, Recreate, Settle, StepBack, Handoff,
        HoldUnknown, FailStatic, EvaluateQuality, Starts, ReconcileGone, ReconcileDeleted, WriteStatus,
        SkipWrite, WriteFails, WriteReplyLost, Commit, vars
    <3>2. QED BY <3>1, Zenon DEF SampleInv
  <2>3. QED BY <2>1, <2>2, Zenon
<1>5. /\ ~Timestamped => sample'.at = 0
      /\ staleCache'.uid # 0 =>
           /\ Timestamped /\ sample'.at # 0
           /\ staleCache'.observedAt = sample'.at /\ staleCache'.reading = sample'.reading
  <2>1. NoStale.uid = 0
    BY Zenon DEF NoStale
  <2>2. ASSUME NEW fetch \in Fetches, NEW contact \in Contacts, Starts(fetch, contact)
        PROVE  /\ ~Timestamped => sample'.at = 0
               /\ staleCache'.uid # 0 =>
                    /\ Timestamped /\ sample'.at # 0
                    /\ staleCache'.observedAt = sample'.at /\ staleCache'.reading = sample'.reading
    <3>1. CanFetch(fetch) /\ sample' = SampleAfter(fetch) /\ staleCache' = StaleCacheAfter(fetch)
      BY <2>2, Zenon DEF Starts
    <3>2. CASE Timestamped /\ fetch.kind \in {"new", "same"}
      <4>1. /\ staleCache'.observedAt = sample'.at /\ staleCache'.reading = sample'.reading
        BY <3>1, <3>2, Zenon DEF StaleCacheAfter
      <4>2. sample'.at # 0
        BY <1>1, <3>1, <3>2, BoundAssumption DEF SampleAfter, CanFetch, SampleInv
      <4>3. QED BY <3>2, <4>1, <4>2, Zenon
    <3>3. CASE ~(Timestamped /\ fetch.kind \in {"new", "same"})
      BY <3>1, <3>3, Zenon DEF SampleAfter, StaleCacheAfter, SampleInv
    <3>4. QED BY <3>2, <3>3, Zenon
  <2>3. CASE Commit
    BY <2>3, Zenon DEF Commit, SampleInv
  <2>4. CASE Forgets \/ Quiet
    BY <2>1, <2>4, Zenon DEF Forgets, Quiet, SampleInv
  <2>5. QED BY <2>2, <2>3, <2>4, StepKinds, Zenon DEF HoldUnknown, FailStatic, EvaluateQuality
<1>6. QED BY <1>2, <1>3, <1>4, <1>5, Zenon DEF SampleInv

(* Counting an observation no older than the cursor keeps the counter behind the recorded run, and
   a counter that has reached confirmationSamples, or a single degraded reading where one is
   enough, stands for that many observations of the run. *)
LEMMA CountStreak ==
  ASSUME NEW st \in EngineStates, NEW e \in Evidences, NEW reading, NEW now \in Nat, NEW observedAt \in Nat,
         st.degraded <= DegradedCap,
         st.degraded > 0 => st.degraded <= e.degraded /\ st.cursor = e.last,
         LastDegraded(e), st.cursor <= observedAt,
         st.cursor = observedAt /\ observedAt # 0 /\ st.degraded > 0 => terrestrialDegraded(Triggers, reading)
  PROVE  LET c == CountObservation(policy, reading, observedAt, now, st)
             x == Extended(e, reading, observedAt) IN
         /\ c.degraded > 0 => Saturated(c).degraded <= x.degraded /\ c.cursor = x.last
         /\ c.cursor <= observedAt
         /\ c.cursor = observedAt /\ observedAt # 0 /\ c.degraded > 0 => terrestrialDegraded(Triggers, reading)
         /\ LastDegraded(x)
         /\ terrestrialDegraded(Triggers, reading) /\ ~FailoverGated(policy, c, now) =>
              x.degraded >= ConfirmationSamples
<1> DEFINE c == CountObservation(policy, reading, observedAt, now, st)
           x == Extended(e, reading, observedAt)
           degraded == terrestrialDegraded(Triggers, reading)
           counted == e.degraded = DegradedCap \/ (observedAt # 0 /\ observedAt = e.last)
           replay == observedAt # 0 /\ observedAt <= st.cursor
<1>1. /\ st.degraded \in Nat /\ st.cursor \in Nat /\ e.degraded \in 0..DegradedCap /\ e.last \in Nat
      /\ DegradedCap \in Nat /\ ConfirmationSamples \in Nat \ {0} /\ DegradedCap >= ConfirmationSamples
  BY PolicyAssumption, BoundAssumption, Zenon DEF EngineStates, Evidences
<1>2. /\ x.degraded = IF ~degraded THEN 0 ELSE IF counted THEN e.degraded ELSE e.degraded + 1
      /\ x.last = IF degraded THEN observedAt ELSE 0
  BY Zenon DEF Extended
<1>3. c \in EngineStates
  BY CountKeeps, Zenon
<1>4. /\ replay => c = st
      /\ ~replay => c.degraded = (IF degraded THEN st.degraded + 1 ELSE 0) /\ c.cursor = observedAt
  BY Zenon DEF CountObservation, policy
<1>5. Saturated(c).degraded = IF c.degraded > DegradedCap THEN DegradedCap ELSE c.degraded
  BY <1>3, Zenon DEF Saturated, EngineStates
<1>6. ~FailoverGated(policy, c, now) => ~(ConfirmationSamples > 1 /\ c.degraded < ConfirmationSamples)
  BY Zenon DEF FailoverGated, policy
<1> HIDE DEF c, x, degraded
<1>7. c.degraded \in Nat
  BY <1>3, Zenon DEF EngineStates
<1>8. degraded => x.degraded >= 1
  BY <1>1, <1>2 DEF LastDegraded
<1>9. LastDegraded(x)
  BY <1>1, <1>2, <1>8 DEF LastDegraded
<1>10. /\ c.degraded > 0 => Saturated(c).degraded <= x.degraded /\ c.cursor = x.last
       /\ c.cursor <= observedAt
       /\ c.cursor = observedAt /\ observedAt # 0 /\ c.degraded > 0 => degraded
  <2>1. CASE replay
    <3>1. c = st /\ st.cursor = observedAt
      BY <1>1, <1>4, <2>1
    <3>2. st.degraded > 0 => degraded
      BY <2>1, <3>1, Zenon DEF degraded
    <3>3. QED BY <1>1, <1>2, <1>5, <3>1, <3>2
  <2>2. CASE ~replay
    <3>1. c.degraded = (IF degraded THEN st.degraded + 1 ELSE 0) /\ c.cursor = observedAt
      BY <1>4, <2>2, Zenon
    <3>2. st.degraded > 0 /\ counted => e.degraded = DegradedCap
      BY <1>1, <2>2, Zenon
    <3>3. QED BY <1>1, <1>2, <1>5, <1>8, <3>1, <3>2
  <2>3. QED BY <2>1, <2>2, Zenon
<1>11. degraded /\ ~FailoverGated(policy, c, now) => x.degraded >= ConfirmationSamples
  <2>1. x.degraded \in Nat
    BY <1>1, <1>2
  <2>2. CASE ConfirmationSamples = 1
    BY <1>8, <2>2, Zenon
  <2>3. CASE ConfirmationSamples > 1
    BY <1>1, <1>5, <1>6, <1>7, <1>10, <2>1, <2>3
  <2>4. QED BY <1>1, <2>2, <2>3
<1>12. QED BY <1>9, <1>10, <1>11, Zenon DEF c, x, degraded

(* What loadFlapState hands to the engine is a streak of this object and generation, or none. *)
LEMMA SeededStreak ==
  ASSUME TypeOK, StreakInv
  PROVE  LET e == Current(evidence, cached) IN
         /\ UpToDate(loadFlapState(cached).state) /\ StreakKnown(loadFlapState(cached), evidence)
         /\ UpToDate(SeededState) /\ SeededState.degraded <= DegradedCap
         /\ SeededState.degraded > 0 => SeededState.degraded <= e.degraded /\ SeededState.cursor = e.last
         /\ e \in Evidences /\ LastDegraded(e)
         /\ e.uid = cached.uid /\ e.generation = cached.generation
<1> DEFINE entry == loadFlapState(cached)
           e == Current(evidence, cached)
<1>1. /\ flapState \in Entries /\ flapState.state \in FlapStates /\ cached.status.lastSwitchback \in Nat
      /\ sample.at \in Nat /\ evidence \in Evidences /\ cached.uid \in Nat /\ cached.generation \in Nat
      /\ DegradedCap \in Nat
  BY BoundAssumption, Zenon DEF TypeOK, Entries, Objects, Statuses
<1>2. entry.state \in FlapStates
  BY SeededTyped, Zenon DEF Entries
<1>3. /\ entry.state.degraded \in 0..DegradedCap /\ entry.state.cursor \in Nat
      /\ flapState.state.degraded \in 0..DegradedCap
  BY <1>1, <1>2, Zenon DEF FlapStates
<1>4. \/ entry.state.degraded = 0 /\ entry.state.cursor = 0
      \/ /\ entry = flapState /\ flapState.uid = cached.uid /\ flapState.generation = cached.generation
  BY <1>1, Zenon DEF loadFlapState, NoEntry, NoFlapState
<1> HIDE DEF entry
<1>5. SeededState.degraded = entry.state.degraded /\ SeededState.cursor = entry.state.cursor
  BY SeedKeepsStreaks, Zenon DEF entry
<1>6. UpToDate(entry.state) /\ StreakKnown(entry, evidence)
  BY <1>1, <1>3, <1>4 DEF StreakInv, UpToDate, StreakKnown
<1>7. UpToDate(SeededState) /\ SeededState.degraded <= DegradedCap
  BY <1>3, <1>5, <1>6 DEF UpToDate
<1>8. SeededState.degraded > 0 => SeededState.degraded <= e.degraded /\ SeededState.cursor = e.last
  BY <1>3, <1>4, <1>5, <1>6 DEF StreakKnown, Current
<1>9. e \in Evidences /\ LastDegraded(e) /\ e.uid = cached.uid /\ e.generation = cached.generation
  <2>1. CASE evidence.uid = cached.uid /\ evidence.generation = cached.generation
    <3>1. e = evidence
      BY <2>1, Zenon DEF Current
    <3>2. LastDegraded(evidence)
      BY Zenon DEF StreakInv
    <3>3. QED BY <1>1, <2>1, <3>1, <3>2, Zenon
  <2>2. CASE ~(evidence.uid = cached.uid /\ evidence.generation = cached.generation)
    <3>1. e = NoEvidenceOf(cached)
      BY <2>2, Zenon DEF Current
    <3>2. NoEvidenceOf(cached) \in Evidences
      BY <1>1 DEF NoEvidenceOf, Evidences
    <3>3. LastDegraded(NoEvidenceOf(cached))
      BY Zenon DEF NoEvidenceOf, LastDegraded
    <3>4. NoEvidenceOf(cached).uid = cached.uid /\ NoEvidenceOf(cached).generation = cached.generation
      BY Zenon DEF NoEvidenceOf
    <3>5. QED BY <3>1, <3>2, <3>3, <3>4, Zenon
  <2>3. QED BY <2>1, <2>2, Zenon
<1>10. QED BY <1>6, <1>7, <1>8, <1>9, Zenon DEF entry

(* Every step keeps the counter behind the recorded run. *)
LEMMA NextStreak == TypeOK /\ SampleInv /\ StreakInv /\ [Next]_vars => StreakInv'
<1> SUFFICES ASSUME TypeOK, SampleInv, StreakInv, [Next]_vars PROVE StreakInv'
  BY Zenon
<1>1. /\ NoEntry.state.degraded = 0 /\ NoEntry.state.cursor = 0 /\ NoEntry.uid = 0
      /\ Idle.stage = "idle" /\ sample.at \in Nat /\ cached.uid # 0
  BY DEF NoEntry, NoFlapState, Idle, TypeOK, SampleInv
<1>2. ASSUME NEW fetch \in Fetches, NEW contact \in Contacts,
             HoldUnknown(fetch, contact) \/ FailStatic(fetch, contact)
      PROVE  StreakInv'
  <2>a. /\ Starts(fetch, contact) /\ work'.flap = NoEntry
        /\ work'.evidence = NoEvidenceOf(cached) /\ evidence' = NoEvidenceOf(cached)
        /\ flapState'.state = [degraded |-> 0, recovery |-> 0, cursor |-> flapState.state.cursor,
                               lastSwitchback |-> flapState.state.lastSwitchback]
    BY <1>2, GapStep, Zenon
  <2>b. work'.decision = "Stay" \/ work'.decision = "Switchback"
    BY <1>2, GapStep, Zenon
  <2>1. /\ Starts(fetch, contact) /\ work'.flap = NoEntry /\ work'.decision # "Failover"
        /\ work'.evidence = NoEvidenceOf(cached) /\ evidence' = NoEvidenceOf(cached)
        /\ flapState'.state.degraded = 0 /\ flapState'.state.cursor = flapState.state.cursor
    BY <2>a, <2>b
  <2>2. sample.at <= sample'.at
    <3>1. CanFetch(fetch) /\ sample' = SampleAfter(fetch) /\ clock \in Nat
      BY <2>1, Zenon DEF Starts, TypeOK
    <3>2. QED BY <1>1, <3>1 DEF CanFetch, SampleAfter
  <2>3. flapState.state.cursor <= sample.at /\ flapState.state.cursor \in Nat /\ sample'.at \in Nat
    <3>1. flapState.state \in FlapStates
      BY Zenon DEF TypeOK, Entries
    <3>2. flapState.state.cursor \in Nat
      BY <3>1, Zenon DEF FlapStates
    <3>3. flapState.state.cursor <= sample.at
      BY Zenon DEF StreakInv, UpToDate
    <3>4. sample'.at \in Nat
      BY NextTyped, Zenon DEF TypeOK
    <3>5. QED BY <3>2, <3>3, <3>4, Zenon
  <2>4. UpToDate(flapState.state)'
    <3>1. flapState'.state.cursor <= sample'.at
      BY <1>1, <2>1, <2>2, <2>3
    <3>2. ~(flapState'.state.degraded > 0)
      BY <2>1
    <3>3. QED BY <3>1, <3>2, Zenon DEF UpToDate
  <2>5. Committing' = flapState'
    BY <2>1, Zenon DEF Committing
  <2>6. QED
    BY <2>1, <2>4, <2>5 DEF StreakInv, UpToDate, StreakKnown, LastDegraded, NoEvidenceOf, FailoverConfirmed
<1>3. ASSUME NEW fetch \in Fetches, NEW contact \in Contacts, EvaluateQuality(fetch, contact)
      PROVE  StreakInv'
  <2> DEFINE quality == readPathQuality(fetch)
             c == CountObservation(policy, quality.reading, quality.observedAt, clock, SeededState)
             e == Evaluation(quality, contact)
             run == Current(evidence, cached)
             x == Extended(run, quality.reading, quality.observedAt)
             degraded == terrestrialDegraded(Triggers, quality.reading)
  <2>1. /\ Starts(fetch, contact) /\ quality.reliable
        /\ flapState' = loadFlapState(cached) /\ evidence' = evidence
        /\ work'.decision = e.result.decision /\ work'.evidence = x
        /\ work'.flap.uid = cached.uid /\ work'.flap.generation = cached.generation
        /\ work'.flap.state.degraded = IF e.state.degraded > DegradedCap THEN DegradedCap ELSE e.state.degraded
        /\ work'.flap.state.cursor = e.state.cursor
    BY <1>3, EvaluationStep, Zenon
  <2>2. /\ sample'.at \in Nat /\ quality.observedAt \in Nat /\ quality.observedAt = sample'.at
        /\ sample'.at # 0 => quality.reading = sample'.reading
        /\ sample' = sample \/ sample.at < sample'.at
    BY <2>1, ObservationCurrent, Zenon
  <2>3. /\ UpToDate(loadFlapState(cached).state) /\ StreakKnown(loadFlapState(cached), evidence)
        /\ UpToDate(SeededState) /\ SeededState.degraded <= DegradedCap
        /\ SeededState.degraded > 0 => SeededState.degraded <= run.degraded /\ SeededState.cursor = run.last
        /\ run \in Evidences /\ LastDegraded(run)
        /\ run.uid = cached.uid /\ run.generation = cached.generation
    BY SeededStreak, Zenon
  <2>4. /\ SeededState \in EngineStates /\ SeededState.cursor \in Nat /\ clock \in Nat
        /\ loadFlapState(cached).state.cursor \in Nat
    BY SeededTyped, Zenon DEF EngineStates, TypeOK, Entries, FlapStates
  <2>5. /\ e.state \in EngineStates /\ e.state.degraded = c.degraded /\ e.state.cursor = c.cursor
        /\ e.result.decision = "Failover" => degraded /\ ~FailoverGated(policy, c, clock)
    <3>1. quality.observedAt \in Nat
      BY <2>2, Zenon
    <3>2. QED BY <3>1, AntiFlapResult, Zenon
  <2>6. /\ c.degraded > 0 => Saturated(c).degraded <= x.degraded /\ c.cursor = x.last
        /\ c.cursor <= quality.observedAt
        /\ c.cursor = quality.observedAt /\ quality.observedAt # 0 /\ c.degraded > 0 => degraded
        /\ LastDegraded(x)
        /\ degraded /\ ~FailoverGated(policy, c, clock) => x.degraded >= ConfirmationSamples
    <3> HIDE DEF quality, run
    <3>0. /\ SeededState.cursor <= sample.at
          /\ SeededState.cursor = sample.at /\ sample.at # 0 /\ SeededState.degraded > 0 =>
               terrestrialDegraded(Triggers, sample.reading)
      BY <2>3, Zenon DEF UpToDate
    <3>a. sample.at \in Nat /\ sample.at <= sample'.at
      BY <1>1, <2>2
    <3>1. SeededState.cursor <= quality.observedAt
      BY <2>2, <2>4, <3>0, <3>a
    <3>2. SeededState.cursor = quality.observedAt /\ quality.observedAt # 0 /\ SeededState.degraded > 0 =>
            degraded
      <4>1. SUFFICES ASSUME SeededState.cursor = quality.observedAt, quality.observedAt # 0, SeededState.degraded > 0
                     PROVE  degraded
        BY Zenon
      <4>2. sample' = sample
        BY <2>2, <2>4, <3>0, <3>a, <4>1
      <4>3. quality.observedAt = sample.at /\ quality.reading = sample.reading
        BY <2>2, <4>1, <4>2, Zenon
      <4>4. QED BY <3>0, <4>1, <4>3, Zenon
    <3>3. QED BY <2>2, <2>3, <2>4, <3>1, <3>2, CountStreak, Zenon
  <2>7. c \in EngineStates
    BY <2>2, <2>4, CountKeeps, Zenon
  <2>8. x.uid = cached.uid /\ x.generation = cached.generation
    BY <2>3, Zenon DEF Extended
  <2> HIDE DEF quality, c, e, run, x, degraded
  <2>9. /\ work'.flap.state.cursor = c.cursor
        /\ work'.flap.state.degraded = Saturated(c).degraded
        /\ work'.flap.state.degraded > 0 => c.degraded > 0
    BY <2>1, <2>5, <2>7, BoundAssumption DEF Saturated, EngineStates
  <2>10. Committing' = work'.flap
    BY <1>1, <2>1, Zenon DEF Committing
  <2>11. UpToDate(flapState.state)' /\ StreakKnown(flapState, evidence)' /\ LastDegraded(evidence)'
    <3>1. StreakKnown(flapState, evidence)' /\ LastDegraded(evidence)'
      BY <2>1, <2>3, Zenon DEF StreakKnown, LastDegraded, StreakInv
    <3>2. CASE sample' = sample
      BY <2>1, <2>3, <3>1, <3>2, Zenon DEF UpToDate
    <3>3. CASE sample.at < sample'.at
      BY <1>1, <2>1, <2>2, <2>3, <2>4, <3>1, <3>3 DEF UpToDate
    <3>4. QED BY <2>2, <3>2, <3>3, Zenon
  <2>12. UpToDate(Committing.state)'
    BY <2>2, <2>6, <2>9, <2>10, Zenon DEF UpToDate, degraded
  <2>13. StreakKnown(Committing, work.evidence)' /\ LastDegraded(work.evidence)'
    BY <2>1, <2>6, <2>8, <2>9, <2>10, Zenon DEF StreakKnown, LastDegraded
  <2>14. FailoverConfirmed'
    BY <2>1, <2>5, <2>6, Zenon DEF FailoverConfirmed
  <2>15. QED BY <2>11, <2>12, <2>13, <2>14, Zenon DEF StreakInv
<1>4. CASE Commit
  <2>1. /\ flapState' = Committing /\ evidence' = work.evidence /\ work'.stage = "idle"
        /\ sample' = sample /\ work.stage # "idle"
    BY <1>1, <1>4, Zenon DEF Commit, Committing
  <2>2. QED BY <2>1, Zenon DEF StreakInv, UpToDate, StreakKnown, LastDegraded, FailoverConfirmed
<1>5. CASE Forgets
  BY <1>1, <1>5 DEF Forgets, StreakInv, UpToDate, StreakKnown, LastDegraded, FailoverConfirmed
<1>6. CASE Quiet
  <2>1. UNCHANGED <<sample, flapState, evidence>>
    BY <1>6, Zenon DEF Quiet
  <2>2. CASE work'.stage = "idle"
    BY <2>1, <2>2, Zenon DEF StreakInv, UpToDate, StreakKnown, LastDegraded, FailoverConfirmed
  <2>3. CASE work' = work \/ (work.stage = "write" /\ work' = [work EXCEPT !.stage = "commit"])
    <3>1. /\ work'.flap = work.flap /\ work'.evidence = work.evidence /\ work'.decision = work.decision
          /\ work'.stage # "idle" => work.stage # "idle"
          /\ work'.stage = "write" => work.stage = "write"
      BY <2>3, Zenon DEF TypeOK, Works
    <3>2. Committing' = Committing
      BY <2>1, <3>1, Zenon DEF Committing
    <3>3. QED
      BY <2>1, <3>1, <3>2, Zenon DEF StreakInv, UpToDate, StreakKnown, LastDegraded, FailoverConfirmed
  <2>4. QED BY <1>6, <2>2, <2>3, Zenon DEF Quiet
<1>7. QED BY <1>2, <1>3, <1>4, <1>5, <1>6, StepKinds, Zenon

(* The operator starts with nothing observed. *)
LEMMA InitStreak == Init => SampleInv /\ StreakInv
<1> SUFFICES ASSUME Init PROVE SampleInv /\ StreakInv
  BY Zenon
<1>1. /\ clock = Second /\ slice.uid = 1 /\ cached.uid = 1 /\ sample.at = 0 /\ staleCache.uid = 0
      /\ flapState.state.degraded = 0 /\ flapState.state.cursor = 0 /\ evidence.last = 0
      /\ work.stage = "idle"
  BY Zenon DEF Init, NewSlice, NoEntry, NoFlapState, NoStale, NoEvidence, Idle
<1>2. SampleInv
  BY <1>1, BoundAssumption DEF SampleInv
<1>3. StreakInv
  BY <1>1 DEF StreakInv, UpToDate, StreakKnown, LastDegraded, FailoverConfirmed
<1>4. QED BY <1>2, <1>3, Zenon

(* Every failover that is written rests on confirmationSamples distinct degraded observations in an
   unbroken recorded run of this object and generation, whatever the source replays, whichever
   writes fail and however far the clock of a new leader is behind. *)
THEOREM FailoversConfirmed == Spec => []FailoverConfirmed
<1>1. Init => TypeOK /\ SampleInv /\ StreakInv
  BY InitTyped, InitStreak, Zenon
<1>2. TypeOK /\ SampleInv /\ StreakInv /\ [Next]_vars => TypeOK' /\ SampleInv' /\ StreakInv'
  BY NextTyped, NextSample, NextStreak, Zenon
<1>3. StreakInv => FailoverConfirmed
  BY Zenon DEF StreakInv
<1>4. QED BY <1>1, <1>2, <1>3, PTL DEF Spec

(***************************************************************************)
(* Recovery.  With annotations every evaluation counts, so the recovery    *)
(* clock in memory starts no earlier than the recorded recovery did.  (A   *)
(* replayed sample leaves it running while the run has ended: with         *)
(* timestamps the property fails, as the run slice_replay shows.)          *)
(***************************************************************************)
RecoveryKnown(entry, e) ==
  entry.state.recovery # 0 =>
    /\ entry.uid = e.uid /\ entry.generation = e.generation
    /\ e.recovered # 0 /\ e.recovered <= entry.state.recovery

RecoveryInv ==
  /\ evidence.recovered <= clock /\ RecoveryKnown(flapState, evidence)
  /\ work.stage # "idle" => work.evidence.recovered <= clock /\ RecoveryKnown(Committing, work.evidence)
  /\ SwitchbackJustified

(* Counting an observation that has no timestamp starts, keeps or clears the two recovery clocks
   together, and a confirmed recovery always leaves the one of the engine running. *)
LEMMA CountRecovery ==
  ASSUME NEW st \in EngineStates, NEW e \in Evidences, NEW reading, clock \in Nat, clock # 0,
         e.recovered <= clock, st.recovery # 0 => e.recovered # 0 /\ e.recovered <= st.recovery
  PROVE  LET c == CountObservation(policy, reading, 0, clock, st)
             x == Extended(e, reading, 0) IN
         /\ x.recovered \in Nat /\ x.recovered <= clock
         /\ c.recovery # 0 => x.recovered # 0 /\ x.recovered <= c.recovery
         /\ ~terrestrialDegraded(Triggers, reading)
              /\ terrestrialConfirmedRecovered(Triggers, reading, Margin) => c.recovery # 0
<1> DEFINE c == CountObservation(policy, reading, 0, clock, st)
           x == Extended(e, reading, 0)
           recovered == /\ ~terrestrialDegraded(Triggers, reading)
                        /\ terrestrialConfirmedRecovered(Triggers, reading, Margin)
<1>1. st.recovery \in Nat /\ e.recovered \in Nat
  BY Zenon DEF EngineStates, Evidences
<1>2. /\ c.recovery = IF ~recovered THEN 0 ELSE IF st.recovery = 0 THEN clock ELSE st.recovery
      /\ x.recovered = IF ~recovered THEN 0 ELSE IF e.recovered = 0 THEN clock ELSE e.recovered
  BY Zenon DEF CountObservation, Extended, policy
<1> HIDE DEF c, x, recovered
<1>3. /\ x.recovered \in Nat /\ x.recovered <= clock
      /\ c.recovery # 0 => x.recovered # 0 /\ x.recovered <= c.recovery
      /\ recovered => c.recovery # 0
  BY <1>1, <1>2
<1>4. QED BY <1>3, Zenon DEF c, x, recovered

(* What loadFlapState hands to the engine is a recovery of this object and generation, or none. *)
LEMMA SeededRecovery ==
  ASSUME TypeOK, RecoveryInv
  PROVE  LET e == Current(evidence, cached) IN
         /\ RecoveryKnown(loadFlapState(cached), evidence)
         /\ SeededState.recovery # 0 => e.recovered # 0 /\ e.recovered <= SeededState.recovery
         /\ e \in Evidences /\ e.recovered <= clock
         /\ e.uid = cached.uid /\ e.generation = cached.generation
<1> DEFINE entry == loadFlapState(cached)
           e == Current(evidence, cached)
<1>1. /\ flapState \in Entries /\ flapState.state \in FlapStates /\ evidence \in Evidences /\ clock \in Nat
      /\ cached.uid \in Nat /\ cached.generation \in Nat /\ DegradedCap \in Nat
  BY BoundAssumption, Zenon DEF TypeOK, Entries, Objects
<1>2. entry.state \in FlapStates
  BY SeededTyped, Zenon DEF Entries
<1>3. \/ entry.state.recovery = 0
      \/ /\ entry = flapState /\ flapState.uid = cached.uid /\ flapState.generation = cached.generation
  BY <1>1, Zenon DEF loadFlapState, NoEntry, NoFlapState
<1> HIDE DEF entry
<1>4. SeededState.recovery = entry.state.recovery
  BY SeedKeepsStreaks, Zenon DEF entry
<1>5. RecoveryKnown(entry, evidence)
  BY <1>3, Zenon DEF RecoveryInv, RecoveryKnown
<1>6. SeededState.recovery # 0 => e.recovered # 0 /\ e.recovered <= SeededState.recovery
  BY <1>3, <1>4, <1>5, Zenon DEF RecoveryKnown, Current
<1>7. e \in Evidences /\ e.recovered <= clock /\ e.uid = cached.uid /\ e.generation = cached.generation
  BY <1>1 DEF Current, NoEvidenceOf, Evidences, RecoveryInv
<1>8. QED BY <1>5, <1>6, <1>7, Zenon DEF entry

(* Without skew between leaders the clock never goes back. *)
LEMMA ClockGrows ==
  ASSUME MaxSkew = 0
  PROVE  TypeOK /\ [Next]_vars => clock' >= clock
<1> SUFFICES ASSUME TypeOK, [Next]_vars PROVE clock' >= clock
  BY Zenon
<1>1. clock \in Nat
  BY Zenon DEF TypeOK
<1>2. CASE Tick \/ (\E skew \in 0..MaxSkew : Handoff(skew))
  BY <1>1, <1>2 DEF Tick, Handoff, Wall, TypeOK
<1>3. CASE ~Tick /\ ~(\E skew \in 0..MaxSkew : Handoff(skew))
  <2>1. clock' = clock
    BY <1>3, Zenon
       DEF Next, Reconcile, InformerSync, EditSpec, Delete, ForceDelete, Recreate, Settle, StepBack, HoldUnknown,
      FailStatic, EvaluateQuality, Starts, ReconcileGone, ReconcileDeleted, WriteStatus, SkipWrite,
      WriteFails, WriteReplyLost, Commit, vars
  <2>2. QED BY <1>1, <2>1
<1>4. QED BY <1>2, <1>3, Zenon

(* With annotations and without skew, every step keeps the recovery clocks in order. *)
LEMMA NextRecovery ==
  ASSUME ~Timestamped, MaxSkew = 0
  PROVE  TypeOK /\ SampleInv /\ RecoveryInv /\ [Next]_vars => RecoveryInv'
<1> SUFFICES ASSUME TypeOK, SampleInv, RecoveryInv, [Next]_vars PROVE RecoveryInv'
  BY Zenon
<1>1. /\ NoEntry.state.recovery = 0 /\ NoEntry.uid = 0 /\ Idle.stage = "idle"
      /\ clock \in Nat /\ clock # 0 /\ cached.uid # 0
      /\ evidence.recovered \in Nat /\ work.evidence.recovered \in Nat
  BY BoundAssumption DEF NoEntry, NoFlapState, Idle, TypeOK, SampleInv, Works, Evidences
<1>2. clock' \in Nat /\ clock <= clock'
  BY NextTyped, ClockGrows, Zenon DEF TypeOK
<1>3. ASSUME NEW fetch \in Fetches, NEW contact \in Contacts,
             HoldUnknown(fetch, contact) \/ FailStatic(fetch, contact)
      PROVE  RecoveryInv'
  <2>1. /\ work'.flap = NoEntry /\ work'.contact = contact
        /\ work'.evidence = NoEvidenceOf(cached) /\ evidence' = NoEvidenceOf(cached)
    BY <1>3, GapStep, Zenon
  <2>a. flapState'.state.recovery = 0
    <3>1. flapState'.state = [degraded |-> 0, recovery |-> 0, cursor |-> flapState.state.cursor,
                              lastSwitchback |-> flapState.state.lastSwitchback]
      BY <1>3, GapStep, Zenon
    <3>2. QED BY <3>1
  <2>b. work'.decision = "Switchback" => contact = "unavailable"
    <3>1. work'.decision = "Stay" \/ (work'.decision = "Switchback" /\ contact = "unavailable")
      BY <1>3, GapStep, Zenon
    <3>2. QED BY <3>1, Zenon
  <2>2. Committing' = flapState'
    BY <2>1, Zenon DEF Committing
  <2>3. QED BY <1>2, <2>1, <2>a, <2>b, <2>2 DEF RecoveryInv, RecoveryKnown, NoEvidenceOf, SwitchbackJustified
<1>4. ASSUME NEW fetch \in Fetches, NEW contact \in Contacts, EvaluateQuality(fetch, contact)
      PROVE  RecoveryInv'
  <2> DEFINE quality == readPathQuality(fetch)
             c == CountObservation(policy, quality.reading, quality.observedAt, clock, SeededState)
             e == Evaluation(quality, contact)
             run == Current(evidence, cached)
             x == Extended(run, quality.reading, quality.observedAt)
  <2>1. /\ Starts(fetch, contact) /\ quality.reliable /\ contact # "unknown"
        /\ flapState' = loadFlapState(cached) /\ evidence' = evidence
        /\ work'.now = clock /\ work'.contact = contact
        /\ work'.decision = e.result.decision /\ work'.evidence = x
        /\ work'.flap.uid = cached.uid /\ work'.flap.generation = cached.generation
        /\ work'.flap.state.recovery = e.state.recovery
    BY <1>4, EvaluationStep, Zenon
  <2>2. quality.observedAt = 0
    BY <2>1, ObservationCurrent, Zenon
  <2>3. quality.reading \in Readings /\ quality.observedAt \in Nat
    BY QualityTyped, Zenon
  <2>4. /\ RecoveryKnown(loadFlapState(cached), evidence)
        /\ SeededState.recovery # 0 => run.recovered # 0 /\ run.recovered <= SeededState.recovery
        /\ run \in Evidences /\ run.recovered <= clock
        /\ run.uid = cached.uid /\ run.generation = cached.generation
    BY SeededRecovery, Zenon
  <2>5. SeededState \in EngineStates
    BY SeededTyped, Zenon
  <2>6. /\ e.state \in EngineStates /\ e.state.recovery = c.recovery
        /\ e.result.decision = "Switchback" /\ contact = "available" =>
             Cleared(quality.reading, Margin) /\ ~DelayPending(c.recovery, clock, SwitchbackDelay)
    BY <2>3, AntiFlapResult, Zenon
  <2>7. /\ x.recovered \in Nat /\ x.recovered <= clock
        /\ c.recovery # 0 => x.recovered # 0 /\ x.recovered <= c.recovery
        /\ ~terrestrialDegraded(Triggers, quality.reading)
             /\ terrestrialConfirmedRecovered(Triggers, quality.reading, Margin) => c.recovery # 0
    <3> HIDE DEF quality, run
    <3>1. QED BY <1>1, <2>2, <2>4, <2>5, CountRecovery, Zenon
  <2>8. c \in EngineStates
    BY <1>1, <2>3, <2>5, CountKeeps, Zenon
  <2>9. x.uid = cached.uid /\ x.generation = cached.generation
    BY <2>4, Zenon DEF Extended
  <2>10. Cleared(quality.reading, Margin) =>
           ~terrestrialDegraded(Triggers, quality.reading)
             /\ terrestrialConfirmedRecovered(Triggers, quality.reading, Margin)
    BY <2>3, ClearedConfirms, Zenon
  <2> HIDE DEF quality, c, e, run, x
  <2>11. work'.flap.state.recovery = c.recovery
    BY <2>1, <2>6, Zenon
  <2>12. Committing' = work'.flap
    BY <1>1, <2>1, Zenon DEF Committing
  <2>13. clock' = clock
    BY <2>1, Zenon DEF Starts
  <2>14. SwitchbackJustified'
    <3> SUFFICES ASSUME work'.decision = "Switchback"
                 PROVE  \/ work'.contact = "unavailable"
                        \/ /\ work'.contact = "available" /\ work'.evidence.recovered # 0
                           /\ work'.now - work'.evidence.recovered >= SwitchbackDelay
      BY Zenon DEF SwitchbackJustified
    <3>1. CASE contact = "available"
      <4>1. c.recovery # 0 /\ ~DelayPending(c.recovery, clock, SwitchbackDelay)
        BY <2>1, <2>6, <2>7, <2>10, <3>1, Zenon
      <4>2. c.recovery \in Nat
        BY <2>8, Zenon DEF EngineStates
      <4>3. clock - x.recovered >= SwitchbackDelay /\ x.recovered # 0
        BY <1>1, <2>7, <4>1, <4>2, PolicyAssumption DEF DelayPending
      <4>4. QED BY <2>1, <3>1, <4>3, Zenon
    <3>2. QED BY <2>1, <3>1, Zenon DEF Contacts
  <2>15. RecoveryKnown(Committing, work.evidence)' /\ work'.evidence.recovered <= clock'
    BY <2>1, <2>7, <2>9, <2>11, <2>12, <2>13, Zenon DEF RecoveryKnown
  <2>16. RecoveryKnown(flapState, evidence)' /\ evidence'.recovered <= clock'
    BY <2>1, <2>4, <2>13, Zenon DEF RecoveryKnown, RecoveryInv
  <2>17. QED BY <2>14, <2>15, <2>16, Zenon DEF RecoveryInv
<1>5. CASE Commit
  <2>1. /\ flapState' = Committing /\ evidence' = work.evidence /\ work'.stage = "idle"
        /\ clock' = clock /\ work.stage # "idle"
    BY <1>1, <1>5, Zenon DEF Commit, Committing
  <2>2. QED BY <2>1, Zenon DEF RecoveryInv, RecoveryKnown, SwitchbackJustified
<1>6. CASE Forgets
  BY <1>1, <1>2, <1>6 DEF Forgets, RecoveryInv, RecoveryKnown, SwitchbackJustified
<1>7. CASE Quiet
  <2>1. UNCHANGED <<flapState, evidence>> /\ evidence'.recovered <= clock'
    BY <1>1, <1>2, <1>7 DEF Quiet, RecoveryInv
  <2>2. CASE work'.stage = "idle"
    BY <2>1, <2>2, Zenon DEF RecoveryInv, RecoveryKnown, SwitchbackJustified
  <2>3. CASE work' = work \/ (work.stage = "write" /\ work' = [work EXCEPT !.stage = "commit"])
    <3>1. /\ work'.flap = work.flap /\ work'.evidence = work.evidence /\ work'.decision = work.decision
          /\ work'.contact = work.contact /\ work'.now = work.now
          /\ work'.stage # "idle" => work.stage # "idle"
          /\ work'.stage = "write" => work.stage = "write"
      BY <2>3, Zenon DEF TypeOK, Works
    <3>2. Committing' = Committing
      BY <2>1, <3>1, Zenon DEF Committing
    <3>3. work.evidence.recovered <= clock => work.evidence.recovered <= clock'
      BY <1>1, <1>2
    <3>4. QED BY <2>1, <3>1, <3>2, <3>3, Zenon DEF RecoveryInv, RecoveryKnown, SwitchbackJustified
  <2>4. QED BY <1>7, <2>2, <2>3, Zenon DEF Quiet
<1>8. QED BY <1>3, <1>4, <1>5, <1>6, <1>7, StepKinds, Zenon

(* The operator starts with no recovery. *)
LEMMA InitRecovery == Init => RecoveryInv
<1> SUFFICES ASSUME Init PROVE RecoveryInv
  BY Zenon
<1>1. /\ clock = Second /\ flapState.state.recovery = 0 /\ evidence.recovered = 0 /\ work.stage = "idle"
  BY Zenon DEF Init, NoEntry, NoFlapState, NoEvidence, Idle
<1>2. QED BY <1>1, BoundAssumption DEF RecoveryInv, RecoveryKnown, SwitchbackJustified

(* With annotations as the source, the path leaves the satellite only because a known pass ended or
   because recorded evaluations confirmed recovery without a gap for the whole switchbackDelay:
   what the engine accepts as clear always starts the clock it then waits for. *)
THEOREM SwitchbacksJustified ==
  ASSUME ~Timestamped, MaxSkew = 0
  PROVE  Spec => []SwitchbackJustified
<1>1. Init => TypeOK /\ SampleInv /\ RecoveryInv
  BY InitTyped, InitStreak, InitRecovery, Zenon
<1>2. TypeOK /\ SampleInv /\ RecoveryInv /\ [Next]_vars => TypeOK' /\ SampleInv' /\ RecoveryInv'
  BY NextTyped, NextSample, NextRecovery, Zenon
<1>3. RecoveryInv => SwitchbackJustified
  BY Zenon DEF RecoveryInv
<1>4. QED BY <1>1, <1>2, <1>3, PTL DEF Spec
=============================================================================
