--------------------------- MODULE NTNSliceDwell ----------------------------
(* The dwell clock of NTNSlice, and the path policy its reconciler implements, for every policy and
   every bound. *)
EXTENDS NTNSliceStreaks, NTNSlicePolicy

(***************************************************************************)
(* A dwell clock has two readings: the wall clock's, which status shares,  *)
(* and the monotonic one of a process that recorded the hand-back itself.  *)
(* The wall clock may be set back, so it never leads the other.            *)
(***************************************************************************)
WallNoLater(entry) == entry.state.lastSwitchback # 0 => entry.stamp <= entry.state.lastSwitchback

ReadingInv == WallNoLater(flapState) /\ (work.stage # "idle" => WallNoLater(work.flap))

(* The seed keeps the two in that order, and the engine compares with the later one. *)
LEMMA SeededReading ==
  ASSUME TypeOK, WallNoLater(flapState)
  PROVE  /\ WallNoLater(loadFlapState(cached)) /\ WallNoLater(Seeded)
         /\ Seeded.stamp <= SeededState.lastSwitchback
<1>1. PICK entry \in Entries : entry = loadFlapState(cached)
  BY SeededTyped, Zenon
<1>2. entry.state \in FlapStates /\ flapState.state \in FlapStates
  BY Zenon DEF Entries, TypeOK
<1>3. WallNoLater(entry)
  <2>1. \/ entry.state.lastSwitchback = 0
        \/ entry.state.lastSwitchback = flapState.state.lastSwitchback /\ entry.stamp = flapState.stamp
    BY <1>1, Zenon DEF loadFlapState, NoEntry, NoFlapState
  <2>2. QED BY <2>1, Zenon DEF WallNoLater
<1>4. WallNoLater(Seeded)
  <2>1. Seeded = entry \/ Seeded.state.lastSwitchback = 0
    BY <1>1, <1>2, Zenon DEF Seeded, seedLastSwitchbackFromStatus, Adopted, FlapStates
  <2>2. QED BY <1>3, <2>1, Zenon DEF WallNoLater
<1>5. PICK st \in FlapStates, stamp \in Nat : st = Seeded.state /\ stamp = Seeded.stamp
  BY SeededTyped, Zenon DEF Entries
<1>6. SeededState.lastSwitchback
        = IF st.lastSwitchback = 0 /\ stamp # 0 THEN stamp + behind ELSE st.lastSwitchback
  BY <1>5, Zenon DEF SeededState, FlapStates
<1>7. st.lastSwitchback \in Nat /\ behind \in Nat
  BY BoundAssumption DEF FlapStates, TypeOK
<1>8. st.lastSwitchback # 0 => stamp <= st.lastSwitchback
  BY <1>4, <1>5, Zenon DEF WallNoLater
<1>9. stamp <= SeededState.lastSwitchback
  BY <1>5, <1>6, <1>7, <1>8
<1>10. QED BY <1>1, <1>3, <1>4, <1>5, <1>9, Zenon

(* Every step keeps the two readings in that order. *)
LEMMA NextReading == TypeOK /\ ReadingInv /\ [Next]_vars => ReadingInv'
<1> SUFFICES ASSUME TypeOK, ReadingInv, [Next]_vars PROVE ReadingInv'
  BY Zenon
<1>1. NoEntry.state.lastSwitchback = 0 /\ Idle.stage = "idle" /\ WallNoLater(flapState)
  BY Zenon DEF NoEntry, NoFlapState, Idle, ReadingInv
<1>2. ASSUME NEW fetch \in Fetches, NEW contact \in Contacts,
             HoldUnknown(fetch, contact) \/ FailStatic(fetch, contact)
      PROVE  ReadingInv'
  <2>1. /\ work'.flap = NoEntry /\ flapState'.stamp = flapState.stamp
        /\ flapState'.state.lastSwitchback = flapState.state.lastSwitchback
    BY <1>2, GapStep
  <2>2. QED BY <1>1, <2>1, Zenon DEF ReadingInv, WallNoLater
<1>3. ASSUME NEW fetch \in Fetches, NEW contact \in Contacts, EvaluateQuality(fetch, contact)
      PROVE  ReadingInv'
  <2>1. PICK quality, e, n : /\ quality = readPathQuality(fetch) /\ e = Evaluation(quality, contact)
                             /\ n = EntryOf(e, contact)
    BY Zenon
  <2>2. flapState' = loadFlapState(cached) /\ work'.flap = n
    BY <1>3, <2>1, EvaluationStep, Zenon
  <2>3. quality.observedAt \in Nat
    BY <2>1, QualityTyped, Zenon
  <2>4. /\ IsHandBack(e, contact) => n.stamp = Wall /\ n.state.lastSwitchback = clock
        /\ ~IsHandBack(e, contact) => n.stamp = Seeded.stamp /\ n.state.lastSwitchback = Seeded.state.lastSwitchback
    BY <2>1, <2>3, EntryLeft, Zenon
  <2>5. Wall <= clock
    BY BoundAssumption DEF Wall, TypeOK
  <2>6. WallNoLater(loadFlapState(cached)) /\ WallNoLater(Seeded)
    BY <1>1, SeededReading, Zenon
  <2>7. QED BY <2>2, <2>4, <2>5, <2>6, Zenon DEF ReadingInv, WallNoLater
<1>4. CASE Commit
  BY <1>1, <1>4, Zenon DEF Commit, ReadingInv, WallNoLater
<1>5. CASE Forgets
  BY <1>1, <1>5, Zenon DEF Forgets, ReadingInv, WallNoLater
<1>6. CASE Quiet
  <2>1. flapState' = flapState
    BY <1>6, Zenon DEF Quiet
  <2>2. CASE work' = work \/ work'.stage = "idle"
    BY <2>1, <2>2, Zenon DEF ReadingInv, WallNoLater
  <2>3. CASE work.stage = "write" /\ work' = [work EXCEPT !.stage = "commit"]
    <3>1. work'.flap = work.flap
      BY <2>3, Zenon DEF TypeOK, Works
    <3>2. QED BY <2>1, <2>3, <3>1, Zenon DEF ReadingInv, WallNoLater
  <2>4. QED BY <1>6, <2>2, <2>3, Zenon DEF Quiet
<1>7. QED BY <1>2, <1>3, <1>4, <1>5, <1>6, StepKinds, Zenon

(* The operator starts with no dwell clock in memory. *)
LEMMA InitReading == Init => ReadingInv
<1>1. Init => flapState.state.lastSwitchback = 0 /\ work.stage = "idle"
  BY DEF Init, NoEntry, NoFlapState, Idle
<1>2. QED BY <1>1, Zenon DEF ReadingInv, WallNoLater

(***************************************************************************)
(* The dwell clock.  The three dwell properties are not inductive: what a  *)
(* stale cache, an old entry of memory or a reconcile in flight holds is   *)
(* what may reach the stored object later.  The strengthening says how far *)
(* each of them may lag behind it, and that none is ever ahead.            *)
(***************************************************************************)
(* The decision in flight hands the slice back from an available satellite. *)
HandsBack == work.decision = "Switchback" /\ work.contact = "available"

(* An entry of memory is not ahead of the stored dwell clock of its own object. *)
NotAhead(entry) ==
  /\ entry.uid <= slice.uid
  /\ entry.uid = slice.uid => Trunc(entry.stamp) <= slice.status.lastSwitchback

(* The decision in flight was made on a version no newer than the stored one; unless it hands
   back, it keeps the newest dwell clock it knew of, and a failover has waited for that one. *)
DecisionSound ==
  /\ work.now >= Second /\ work.now <= clock
  /\ work.base.uid <= slice.uid
  /\ work.base.status.lastSwitchback <= Trunc(work.now)
  /\ HandsBack =>
       /\ work.status.lastSwitchback = Trunc(work.now) /\ work.flap.stamp = work.now
       /\ work.flap.uid = work.base.uid /\ work.status # work.base.status
  /\ ~HandsBack =>
       /\ work.base.status.lastSwitchback <= work.status.lastSwitchback
       /\ work.base.uid = slice.uid => work.status.lastSwitchback <= slice.status.lastSwitchback
       /\ NotAhead(work.flap)
  /\ work.decision = "Failover" =>
       /\ work.base.status.lastSwitchback <= work.flap.stamp
       /\ \/ MinTerrestrialDwell = 0 \/ work.flap.stamp = 0
          \/ work.now - work.flap.stamp >= MinTerrestrialDwell

DwellInv ==
  /\ clock >= Second /\ behind = 0
  /\ handback = 0 \/ handback >= Second
  /\ handback <= clock /\ slice.status.lastSwitchback = Trunc(handback)
  /\ cached.uid <= slice.uid
  /\ cached.status.lastSwitchback <= Trunc(clock)
  /\ cached.uid = slice.uid => cached.status.lastSwitchback <= slice.status.lastSwitchback
  /\ NotAhead(flapState)
  /\ work.stage = "write" => DecisionSound
  /\ work.stage = "commit" => NotAhead(work.flap)

(* The seeded clock is the newer of the two, and not ahead of the stored one. *)
LEMMA SeededDwell ==
  ASSUME TypeOK, DwellInv
  PROVE  /\ Wall = clock /\ NotAhead(loadFlapState(cached))
         /\ cached.status.lastSwitchback <= Seeded.stamp
         /\ cached.uid = slice.uid => Trunc(Seeded.stamp) <= slice.status.lastSwitchback
<1> DEFINE entry == loadFlapState(cached)
           durable == cached.status.lastSwitchback
<1>1. /\ slice.uid \in Nat /\ slice.status.lastSwitchback \in Nat /\ cached.uid \in Nat /\ durable \in Nat
      /\ flapState.stamp \in Nat /\ clock \in Nat
  BY Zenon DEF TypeOK, Objects, Statuses, Entries
<1>w. Wall = clock
  BY <1>1 DEF Wall, DwellInv
<1>2. entry \in Entries /\ entry.stamp \in Nat
  BY SeededTyped, Zenon DEF Entries
<1>3. \/ entry.uid = 0 /\ entry.stamp = 0
      \/ entry.uid = cached.uid /\ flapState.uid = cached.uid /\ entry.stamp = flapState.stamp
  BY Zenon DEF loadFlapState, NoEntry
<1>4. Trunc(0) = 0
  BY TruncBelow
<1>5. NotAhead(entry)
  BY <1>1, <1>3, <1>4 DEF DwellInv, NotAhead
<1>6. durable <= clock
  BY <1>1, TruncBelow DEF DwellInv
<1>7. (Seeded.stamp = durable \/ Seeded.stamp = entry.stamp) /\ durable <= Seeded.stamp
  <2> HIDE DEF entry, durable
  <2>1. Seeded = IF durable <= Wall /\ durable > entry.stamp THEN Adopted(entry, durable) ELSE entry
    BY Zenon DEF Seeded, seedLastSwitchbackFromStatus, entry, durable
  <2>2. Adopted(entry, durable).stamp = durable
    BY Zenon DEF Adopted
  <2>3. QED BY <1>1, <1>2, <1>w, <1>6, <2>1, <2>2
<1>8. ASSUME cached.uid = slice.uid PROVE Trunc(Seeded.stamp) <= slice.status.lastSwitchback
  <2>1. Trunc(durable) <= slice.status.lastSwitchback
    <3>1. Trunc(durable) \in Nat /\ Trunc(durable) <= durable
      BY <1>1, TruncBelow, Zenon
    <3>2. QED BY <1>1, <1>8, <3>1 DEF DwellInv
  <2>2. Trunc(entry.stamp) <= slice.status.lastSwitchback
    <3> HIDE DEF entry
    <3>1. QED BY <1>1, <1>3, <1>4, <1>5, <1>8 DEF NotAhead
  <2>3. QED BY <1>7, <2>1, <2>2, Zenon
<1>9. QED BY <1>w, <1>5, <1>7, <1>8, Zenon

(* What the engine's evaluation does to the dwell clock, in status and in memory. *)
LEMMA EvaluationDwell ==
  ASSUME TypeOK, ReadingInv, DwellInv, NEW fetch \in Fetches, NEW contact \in Contacts
  PROVE  LET e == Evaluation(readPathQuality(fetch), contact)
             durable == cached.status.lastSwitchback
             kept == StatusOf(e, contact).lastSwitchback
             latest == EntryOf(e, contact).stamp
         IN
         /\ e.result.decision = "Switchback" =>
              cached.status.path = Satellite /\ e.result.target = Terrestrial
         /\ IsHandBack(e, contact) => kept = Trunc(clock) /\ latest = clock
         /\ ~IsHandBack(e, contact) =>
              /\ durable <= kept
              /\ cached.uid = slice.uid => kept <= slice.status.lastSwitchback
              /\ cached.uid = slice.uid => Trunc(latest) <= slice.status.lastSwitchback
         /\ e.result.decision = "Failover" =>
              /\ durable <= latest
              /\ MinTerrestrialDwell = 0 \/ latest = 0 \/ clock - latest >= MinTerrestrialDwell
<1> DEFINE quality == readPathQuality(fetch)
           e == Evaluation(quality, contact)
           counted == CountObservation(policy, quality.reading, quality.observedAt, clock, SeededState)
           durable == cached.status.lastSwitchback
           latest == EntryOf(e, contact).stamp
           kept == StatusOf(e, contact).lastSwitchback
<1>1. /\ clock \in Nat /\ slice.status.lastSwitchback \in Nat /\ cached.uid \in Nat /\ slice.uid \in Nat
      /\ cached.status.path \in UsedPath /\ durable \in Nat /\ cached.status \in Statuses
  BY Zenon DEF TypeOK, Objects, Statuses, UsedPath
<1>2. SeededState.lastSwitchback \in Nat /\ Seeded.stamp \in Nat
  BY SeededTyped, Zenon DEF EngineStates, Entries
<1>3. quality.observedAt \in Nat
  BY QualityTyped, Zenon
<1>4. /\ e.result.decision = "Failover" => ~FailoverGated(policy, counted, clock) /\ e.state = counted
      /\ e.result.decision = "Switchback" => cached.status.path = Satellite /\ e.result.target = Terrestrial
      /\ e.result.decision = "Failover" => e.state.lastSwitchback = SeededState.lastSwitchback
  <2>1. /\ e.result.decision = "Failover" => ~FailoverGated(policy, counted, clock) /\ e.state = counted
        /\ e.result.decision = "Switchback" => cached.status.path = Satellite /\ e.result.target = Terrestrial
        /\ e.result.decision # "Switchback" => e.state.lastSwitchback = SeededState.lastSwitchback
    BY <1>3, AntiFlapResult
  <2> HIDE DEF e, counted
  <2>2. "Failover" # "Switchback"
    BY Zenon
  <2>3. QED BY <2>1, <2>2, Zenon
<1>5. /\ EntryOf(e, contact) \in Entries
      /\ IsHandBack(e, contact) => latest = Wall
      /\ ~IsHandBack(e, contact) => latest = Seeded.stamp
  BY <1>3, EntryLeft, Zenon
<1>6. latest \in Nat /\ Trunc(latest) \in Nat
  BY <1>5, TruncBelow, Zenon DEF Entries
<1> HIDE DEF e, counted
<1>7. /\ Wall = clock /\ durable <= Seeded.stamp
      /\ cached.uid = slice.uid => Trunc(Seeded.stamp) <= slice.status.lastSwitchback
  BY SeededDwell, Zenon
<1>8. durable <= clock /\ durable <= Trunc(clock) /\ Trunc(clock) \in Nat /\ clock # 0
  BY <1>1, TruncBelow, BoundAssumption DEF DwellInv
<1>9. kept = IF latest # 0 /\ (durable = 0 \/ Trunc(latest) > durable) THEN Trunc(latest) ELSE durable
  <2>1. kept = persistLastSwitchbackToStatus(durable, latest)
    BY <1>1, Zenon DEF StatusOf, Statuses
  <2>2. ~(durable > Wall)
    BY <1>1, <1>7, <1>8
  <2>3. QED BY <2>1, <2>2, Zenon DEF persistLastSwitchbackToStatus
<1>10. IsHandBack(e, contact) => kept = Trunc(clock) /\ latest = clock
  <2> HIDE DEF latest, kept, durable
  <2>1. QED BY <1>1, <1>5, <1>7, <1>8, <1>9
<1>11. ASSUME ~IsHandBack(e, contact)
       PROVE  /\ durable <= kept
              /\ cached.uid = slice.uid => kept <= slice.status.lastSwitchback
              /\ cached.uid = slice.uid => Trunc(latest) <= slice.status.lastSwitchback
  <2>1. cached.uid = slice.uid => durable <= slice.status.lastSwitchback
    BY Zenon DEF DwellInv
  <2>2. latest = Seeded.stamp
    BY <1>5, <1>11, Zenon
  <2> HIDE DEF latest, kept, durable
  <2>3. durable <= latest /\ (cached.uid = slice.uid => Trunc(latest) <= slice.status.lastSwitchback)
    BY <1>7, <2>2, Zenon
  <2>4. kept = durable \/ (kept = Trunc(latest) /\ (durable = 0 \/ durable < Trunc(latest)))
    BY <1>1, <1>6, <1>9, Zenon
  <2>5. QED BY <1>1, <1>6, <2>1, <2>3, <2>4
<1>12. ASSUME e.result.decision = "Failover"
       PROVE  /\ durable <= latest
              /\ MinTerrestrialDwell = 0 \/ latest = 0 \/ clock - latest >= MinTerrestrialDwell
  <2>1. latest = Seeded.stamp
    <3>1. e.result.decision # "Switchback"
      BY <1>12
    <3>2. QED BY <1>5, <3>1, Zenon DEF IsHandBack
  <2>2. latest <= SeededState.lastSwitchback
    BY <2>1, SeededReading, Zenon DEF ReadingInv
  <2>3. ~(MinTerrestrialDwell > 0 /\ SeededState.lastSwitchback # 0
          /\ clock - SeededState.lastSwitchback < MinTerrestrialDwell)
    BY <1>4, <1>12, Zenon DEF FailoverGated, policy
  <2> HIDE DEF latest, kept, durable
  <2>4. QED BY <1>1, <1>2, <1>6, <1>7, <2>1, <2>2, <2>3, PolicyAssumption
<1>13. QED BY <1>4, <1>10, <1>11, <1>12, Zenon DEF e

(* A reconcile that decides on the cached version decides soundly. *)
LEMMA ReconcileDwell ==
  ASSUME TypeOK, ReadingInv, DwellInv, NEW fetch \in Fetches, NEW contact \in Contacts,
         HoldUnknown(fetch, contact) \/ FailStatic(fetch, contact) \/ EvaluateQuality(fetch, contact)
  PROVE  DwellInv'
<1>1. /\ clock \in Nat /\ slice.uid \in Nat /\ cached.uid \in Nat /\ slice.status.lastSwitchback \in Nat
      /\ cached.status \in Statuses /\ cached.status.lastSwitchback \in Nat
      /\ cached.status.path \in UsedPath
      /\ flapState \in Entries /\ flapState.uid \in Nat /\ flapState.stamp \in Nat
  BY Zenon DEF TypeOK, Objects, Statuses, UsedPath, Entries
<1>2. UNCHANGED <<clock, behind, slice, cached, handback>>
  BY Zenon DEF HoldUnknown, FailStatic, EvaluateQuality, Starts
<1>3. NotAhead(NoEntry)
  <2>1. Trunc(0) = 0 /\ NoEntry.uid = 0 /\ NoEntry.stamp = 0
    BY TruncBelow DEF NoEntry
  <2>2. QED BY <1>1, <2>1 DEF NotAhead
<1>4. CASE HoldUnknown(fetch, contact) \/ FailStatic(fetch, contact)
  <2>1. /\ work'.stage = "write" /\ work'.now = clock /\ work'.base = cached
        /\ work'.status.lastSwitchback = cached.status.lastSwitchback
        /\ work'.flap = NoEntry /\ work'.contact = contact
        /\ flapState'.uid = flapState.uid /\ flapState'.stamp = flapState.stamp
        /\ work'.decision = "Stay" \/ (work'.decision = "Switchback" /\ contact = "unavailable")
    BY <1>4, GapStep
  <2>2. NotAhead(flapState)'
    BY <1>2, <2>1, Zenon DEF NotAhead, DwellInv
  <2>3. ~HandsBack' /\ work'.decision # "Failover"
    BY <2>1, Zenon DEF HandsBack
  <2>4. NotAhead(work.flap)'
    BY <1>2, <1>3, <2>1, Zenon DEF NotAhead
  <2>5. DecisionSound'
    BY <1>1, <1>2, <2>1, <2>3, <2>4 DEF DecisionSound, DwellInv
  <2>6. QED BY <1>2, <2>1, <2>2, <2>5, Zenon DEF DwellInv
<1>5. CASE EvaluateQuality(fetch, contact)
  <2>1. PICK e : e = Evaluation(readPathQuality(fetch), contact)
    BY Zenon
  <2>2. PICK n, kept : n = EntryOf(e, contact) /\ kept = StatusOf(e, contact).lastSwitchback
    BY Zenon
  <2>3. flapState' = loadFlapState(cached)
    BY <1>5, EvaluationStep, Zenon
  <2>4. /\ work'.stage = "write" /\ work'.now = clock /\ work'.base = cached
        /\ work'.status.lastSwitchback = kept
        /\ work'.status.path = e.result.target /\ work'.flap = n
        /\ work'.flap.uid = cached.uid /\ work'.decision = e.result.decision /\ work'.contact = contact
    BY <1>5, <2>1, <2>2, EvaluationStep, Zenon
  <2>5. NotAhead(flapState)'
    BY <1>2, <2>3, SeededDwell, Zenon DEF NotAhead
  <2>6. HandsBack' <=> IsHandBack(e, contact)
    BY <2>4, Zenon DEF HandsBack, IsHandBack
  <2>7. /\ e.result.decision = "Switchback" => cached.status.path = Satellite /\ e.result.target = Terrestrial
        /\ HandsBack' => kept = Trunc(clock) /\ n.stamp = clock
        /\ ~HandsBack' =>
             /\ cached.status.lastSwitchback <= kept
             /\ cached.uid = slice.uid => kept <= slice.status.lastSwitchback
             /\ cached.uid = slice.uid => Trunc(n.stamp) <= slice.status.lastSwitchback
        /\ e.result.decision = "Failover" =>
             /\ cached.status.lastSwitchback <= n.stamp
             /\ MinTerrestrialDwell = 0 \/ n.stamp = 0 \/ clock - n.stamp >= MinTerrestrialDwell
    BY <2>1, <2>2, <2>6, EvaluationDwell, Zenon
  <2>8. HandsBack' => work'.status # work'.base.status
    <3>1. Terrestrial # Satellite
      BY Zenon DEF Terrestrial, Satellite
    <3>2. QED BY <2>4, <2>6, <2>7, <3>1, Zenon DEF IsHandBack
  <2>9. ~HandsBack' => NotAhead(work.flap)'
    BY <1>1, <1>2, <2>4, <2>7, Zenon DEF NotAhead, DwellInv
  <2>10. DecisionSound'
    <3>1. /\ work'.now >= Second /\ work'.now <= clock'
          /\ work'.base.uid <= slice'.uid
          /\ work'.base.status.lastSwitchback <= Trunc(work'.now)
      BY <1>1, <1>2, <2>4 DEF DwellInv
    <3>2. HandsBack' =>
            /\ work'.status.lastSwitchback = Trunc(work'.now) /\ work'.flap.stamp = work'.now
            /\ work'.flap.uid = work'.base.uid /\ work'.status # work'.base.status
      BY <2>4, <2>7, <2>8, Zenon
    <3>3. ~HandsBack' =>
            /\ work'.base.status.lastSwitchback <= work'.status.lastSwitchback
            /\ work'.base.uid = slice'.uid => work'.status.lastSwitchback <= slice'.status.lastSwitchback
      BY <1>2, <2>4, <2>7, Zenon
    <3>4. work'.decision = "Failover" =>
            /\ work'.base.status.lastSwitchback <= work'.flap.stamp
            /\ \/ MinTerrestrialDwell = 0 \/ work'.flap.stamp = 0
               \/ work'.now - work'.flap.stamp >= MinTerrestrialDwell
      BY <2>4, <2>7, Zenon
    <3>5. QED BY <2>9, <3>1, <3>2, <3>3, <3>4, Zenon DEF DecisionSound
  <2>11. QED BY <1>2, <2>4, <2>5, <2>10, Zenon DEF DwellInv
<1>6. QED BY <1>4, <1>5, Zenon

(* The stored object, when it accepts the write in flight, moves its dwell clock to the hand-back
   being recorded or leaves it alone; it never moves back. *)
LEMMA AcceptDwell ==
  ASSUME TypeOK, DwellInv, work.stage = "write", Accept
  PROVE  /\ slice'.uid = slice.uid /\ work.base.uid = slice.uid
         /\ slice'.status.lastSwitchback = Trunc(handback')
         /\ slice'.status.lastSwitchback = work.status.lastSwitchback
         /\ slice.status.lastSwitchback <= slice'.status.lastSwitchback
         /\ handback' <= clock /\ (handback' = 0 \/ handback' >= Second)
         /\ HandsBack => slice'.status.lastSwitchback = Trunc(work.now)
         /\ ~HandsBack => slice'.status.lastSwitchback = slice.status.lastSwitchback
<1>1. /\ slice \in Objects /\ work.status.lastSwitchback \in Nat /\ slice.status.lastSwitchback \in Nat
      /\ work.now \in Nat
  BY Zenon DEF TypeOK, Works, Objects, Statuses
<1>2. slice'.uid = slice.uid /\ slice'.status = work.status /\ work.base = slice
  BY <1>1, Zenon DEF Accept, Objects
<1>3. DecisionSound
  BY Zenon DEF DwellInv
<1>4. CASE HandsBack
  <2>1. handback' = work.now /\ work.status.lastSwitchback = Trunc(work.now)
    BY <1>3, <1>4, Zenon DEF Accept, HandsBack, DecisionSound
  <2>2. QED BY <1>1, <1>2, <1>3, <1>4, <2>1, Zenon DEF DecisionSound
<1>5. CASE ~HandsBack
  <2>1. handback' = handback
    BY <1>5, Zenon DEF Accept, HandsBack
  <2>2. work.status.lastSwitchback = slice.status.lastSwitchback
    BY <1>1, <1>2, <1>3, <1>5 DEF DecisionSound
  <2>3. QED BY <1>1, <1>2, <1>5, <2>1, <2>2 DEF DwellInv
<1>6. QED BY <1>4, <1>5, Zenon

(* Every step, with no clock skew between leaders, keeps the dwell invariant. *)
LEMMA NextDwell ==
  ASSUME MaxSkew = 0
  PROVE  TypeOK /\ ReadingInv /\ DwellInv /\ [Next]_vars => DwellInv'
<1> SUFFICES ASSUME TypeOK, ReadingInv, DwellInv, [Next]_vars PROVE DwellInv'
  BY Zenon
<1>1. /\ clock \in Nat /\ slice \in Objects /\ cached \in Objects /\ work \in Works /\ flapState \in Entries
      /\ slice.uid \in Nat /\ slice.status.lastSwitchback \in Nat /\ handback \in Nat
      /\ cached.uid \in Nat /\ cached.status.lastSwitchback \in Nat
      /\ work.now \in Nat /\ work.base.uid \in Nat /\ work.flap.uid \in Nat
      /\ work.status.lastSwitchback \in Nat /\ work.base.status.lastSwitchback \in Nat
  BY Zenon DEF TypeOK, Objects, Statuses, Entries, Works
<1>2. Trunc(0) = 0
  BY TruncBelow
<1>b. behind' = 0
  <2>1. behind' \in 0..MaxSkew
    BY NextTyped, Zenon DEF TypeOK
  <2>2. QED BY <2>1
<1>3. Idle.stage = "idle" /\ NoEntry.uid = 0 /\ NoEntry.stamp = 0
  BY Zenon DEF Idle, NoEntry
<1>4. CASE Tick
  <2>1. clock' = clock + 1 /\ UNCHANGED <<slice, cached, flapState, work, handback>>
    BY <1>4, Zenon DEF Tick, history
  <2>2. Trunc(clock) <= Trunc(clock') /\ Trunc(clock) \in Nat /\ Trunc(clock') \in Nat
    <3>1. clock \in Nat /\ clock' \in Nat /\ clock <= clock'
      BY <1>1, <2>1
    <3>2. Trunc(clock) \in Nat /\ Trunc(clock') \in Nat
      BY <3>1, TruncBelow, Zenon
    <3>3. QED BY <3>1, <3>2, TruncMonotone, Zenon
  <2>3. work.stage = "write" => DecisionSound'
    BY <1>1, <2>1 DEF DwellInv, DecisionSound, NotAhead, HandsBack
  <2>4. QED BY <1>1, <1>b, <2>1, <2>2, <2>3, BoundAssumption DEF DwellInv, NotAhead
<1>5. CASE InformerSync
  <2>1. cached' = slice /\ UNCHANGED <<clock, slice, flapState, work, handback>>
    BY <1>5, Zenon DEF InformerSync, history
  <2>2. Trunc(handback) <= Trunc(clock)
    <3>1. handback \in Nat /\ clock \in Nat /\ handback <= clock
      BY <1>1, Zenon DEF DwellInv
    <3>2. QED BY <3>1, TruncMonotone, Zenon
  <2>3. QED BY <1>1, <1>b, <2>1, <2>2 DEF DwellInv, DecisionSound, NotAhead, HandsBack
<1>6. CASE EditSpec \/ Delete \/ ForceDelete
  <2>1. /\ slice'.uid = slice.uid /\ slice'.status = slice.status
        /\ UNCHANGED <<clock, cached, flapState, work, handback>>
    BY <1>1, <1>6, Zenon DEF EditSpec, Delete, ForceDelete, Objects, history
  <2>2. QED BY <1>b, <2>1, Zenon DEF DwellInv, DecisionSound, NotAhead, HandsBack
<1>7. CASE Recreate
  <2>1. /\ slice'.uid = slice.uid + 1 /\ slice'.status.lastSwitchback = 0 /\ handback' = 0
        /\ UNCHANGED <<clock, cached, flapState, work>>
    BY <1>7, Zenon DEF Recreate, NewSlice, NoStatus
  <2>2. ASSUME NEW entry \in Entries, NotAhead(entry)
        PROVE  entry.uid <= slice'.uid /\ entry.uid # slice'.uid
    BY <1>1, <2>1, <2>2 DEF NotAhead, Entries
  <2>3. NotAhead(flapState)' /\ (NotAhead(work.flap) => NotAhead(work.flap)')
    BY <1>1, <2>1, <2>2, Zenon DEF DwellInv, NotAhead, TypeOK, Works
  <2>4. work.stage = "write" => DecisionSound'
    BY <1>1, <2>1, <2>3 DEF DwellInv, DecisionSound, HandsBack
  <2>5. QED BY <1>1, <1>2, <1>b, <2>1, <2>3, <2>4 DEF DwellInv
<1>8. CASE \E how \in {"degraded", "set"} : Settle(how)
  BY <1>b, <1>8, Zenon DEF Settle, history, DwellInv, DecisionSound, NotAhead, HandsBack
<1>s. CASE \E skew \in 1..MaxSkew : StepBack(skew)
  <2>1. 1..MaxSkew = {}
    OBVIOUS
  <2>2. QED BY <1>s, <2>1, Zenon
<1>9. CASE \E skew \in 0..MaxSkew : Handoff(skew)
  <2>1. clock' = clock /\ flapState' = NoEntry /\ work' = Idle /\ UNCHANGED <<slice, cached, handback>>
    <3>1. Wall = clock
      BY <1>1 DEF Wall, DwellInv
    <3>2. QED BY <1>1, <1>9, <3>1 DEF Handoff, history
  <2>2. QED BY <1>1, <1>2, <1>b, <1>3, <2>1 DEF DwellInv, NotAhead
<1>10. CASE Reconcile
  <2>1. CASE ReconcileGone \/ ReconcileDeleted
    <3>1. /\ flapState' = NoEntry /\ work' = work /\ work.stage = "idle"
          /\ slice'.uid = slice.uid /\ slice'.status = slice.status
          /\ UNCHANGED <<clock, cached, handback>>
      BY <1>1, <2>1, Zenon DEF ReconcileGone, ReconcileDeleted, Objects, history
    <3>2. QED BY <1>1, <1>2, <1>b, <1>3, <3>1 DEF DwellInv, NotAhead
  <2>2. QED BY <1>10, <2>1, ReconcileDwell, Zenon DEF Reconcile
<1>11. CASE WriteStatus \/ WriteReplyLost
  <2>1. /\ work.stage = "write" /\ Accept /\ UNCHANGED <<clock, cached, flapState>>
        /\ \/ work'.stage = "commit" /\ work'.flap = work.flap
           \/ work'.stage = "idle"
    BY <1>1, <1>3, <1>11, Zenon DEF WriteStatus, WriteReplyLost, Works
  <2>2. /\ slice'.uid = slice.uid /\ work.base.uid = slice.uid
        /\ slice'.status.lastSwitchback = Trunc(handback')
        /\ slice'.status.lastSwitchback = work.status.lastSwitchback
        /\ slice.status.lastSwitchback <= slice'.status.lastSwitchback
        /\ handback' <= clock /\ (handback' = 0 \/ handback' >= Second)
    BY <2>1, AcceptDwell, Zenon
  <2>3. ASSUME NEW entry \in Entries, NotAhead(entry)
        PROVE  /\ entry.uid <= slice'.uid
               /\ entry.uid = slice'.uid => Trunc(entry.stamp) <= slice'.status.lastSwitchback
    <3>1. Trunc(entry.stamp) \in Nat
      BY TruncBelow, Zenon DEF Entries
    <3>2. QED BY <1>1, <2>2, <2>3, <3>1 DEF NotAhead
  <2>4. NotAhead(flapState)'
    BY <1>1, <2>1, <2>3, Zenon DEF NotAhead, DwellInv
  <2>5. work'.stage = "commit" => NotAhead(work.flap)'
    <3>1. CASE HandsBack
      BY <1>1, <2>1, <2>2, <3>1 DEF NotAhead, DwellInv, DecisionSound
    <3>2. CASE ~HandsBack
      BY <2>1, <2>3, <3>2, Zenon DEF NotAhead, DwellInv, DecisionSound, TypeOK, Works
    <3>3. QED BY <3>1, <3>2, Zenon
  <2>6. cached.uid = slice.uid => cached.status.lastSwitchback <= slice'.status.lastSwitchback
    BY <1>1, <2>2 DEF DwellInv
  <2>7. QED BY <1>b, <2>1, <2>2, <2>4, <2>5, <2>6, Zenon DEF DwellInv
<1>12. CASE SkipWrite
  <2>1. /\ work.stage = "write" /\ work.status = work.base.status
        /\ work'.stage = "commit" /\ work'.flap = work.flap
        /\ UNCHANGED <<clock, slice, cached, flapState, handback>>
    BY <1>1, <1>12, Zenon DEF SkipWrite, Works, history
  <2>2. NotAhead(work.flap)'
    BY <2>1, Zenon DEF DwellInv, DecisionSound, NotAhead
  <2>3. QED BY <1>b, <2>1, <2>2, Zenon DEF DwellInv, NotAhead
<1>13. CASE WriteFails
  BY <1>b, <1>3, <1>13, Zenon DEF WriteFails, history, DwellInv, NotAhead
<1>14. CASE Commit
  BY <1>b, <1>3, <1>14, Zenon DEF Commit, DwellInv, NotAhead
<1>15. CASE UNCHANGED vars
  BY <1>b, <1>15 DEF vars, DwellInv, DecisionSound, NotAhead, HandsBack
<1>16. QED
  BY <1>4, <1>5, <1>6, <1>7, <1>8, <1>s, <1>9, <1>10, <1>11, <1>12, <1>13, <1>14, <1>15, Zenon DEF Next

(* A freshly created slice has no hand-back to remember. *)
LEMMA InitDwell == Init => DwellInv
<1> SUFFICES ASSUME Init PROVE DwellInv
  BY Zenon
<1>1. /\ clock = Second /\ behind = 0 /\ handback = 0 /\ work.stage = "idle"
      /\ slice.uid = 1 /\ cached.uid = 1 /\ flapState.uid = 0
      /\ slice.status.lastSwitchback = 0 /\ cached.status.lastSwitchback = 0
  BY Zenon DEF Init, NewSlice, NoStatus, Idle, NoEntry
<1>2. Trunc(0) = 0 /\ Trunc(Second) >= 0
  BY TruncBelow, BoundAssumption
<1>3. QED BY <1>1, <1>2, BoundAssumption DEF DwellInv, NotAhead

(* The dwell invariant contains the three properties of the dwell clock. *)
LEMMA DwellSafe ==
  ASSUME TypeOK, DwellInv
  PROVE  DurableDwellClock /\ NoSpeculativeDwell /\ MinDwellHonoured
<1>1. DurableDwellClock /\ NoSpeculativeDwell
  BY Zenon DEF DwellInv, NotAhead, DurableDwellClock, NoSpeculativeDwell
<1>2. MinDwellHonoured
  <2> SUFFICES ASSUME Acceptable("Failover"), handback # 0
               PROVE  work.now - Trunc(handback) >= MinTerrestrialDwell
    BY Zenon DEF MinDwellHonoured
  <2>1. /\ work.now \in Nat /\ handback \in Nat /\ work.flap.stamp \in Nat
    BY Zenon DEF TypeOK, Works, Entries
  <2>2. Trunc(handback) \in Nat /\ Trunc(handback) > 0 /\ Trunc(work.now) \in Nat /\ Trunc(work.now) <= work.now
    BY <2>1, TruncBelow, TruncPositive, BoundAssumption DEF DwellInv
  <2>3. DecisionSound /\ work.base.status.lastSwitchback = Trunc(handback) /\ work.decision = "Failover"
    BY Zenon DEF DwellInv, Acceptable
  <2>4. /\ Trunc(handback) <= Trunc(work.now)
        /\ Trunc(handback) <= work.flap.stamp
        /\ \/ MinTerrestrialDwell = 0 \/ work.flap.stamp = 0
           \/ work.now - work.flap.stamp >= MinTerrestrialDwell
    BY <2>3, Zenon DEF DecisionSound
  <2>5. QED BY <2>1, <2>2, <2>4, PolicyAssumption
<1>3. QED BY <1>1, <1>2, Zenon

(* Without clock skew between leaders, status.lastSwitchbackTime is exactly the second of the last
   durable hand-back from an available satellite, through any sequence of conflicts, lost replies,
   stale reads, spec edits, deletions, re-creations and leader handoffs. *)
THEOREM DwellClockDurable ==
  ASSUME MaxSkew = 0
  PROVE  Spec => []DurableDwellClock
<1>1. Init => TypeOK /\ ReadingInv /\ DwellInv
  BY InitTyped, InitReading, InitDwell, Zenon
<1>2. TypeOK /\ ReadingInv /\ DwellInv /\ [Next]_vars => TypeOK' /\ ReadingInv' /\ DwellInv'
  BY NextTyped, NextReading, NextDwell, Zenon
<1>3. TypeOK /\ DwellInv => DurableDwellClock
  BY DwellSafe, Zenon
<1>4. QED BY <1>1, <1>2, <1>3, PTL DEF Spec

(* Without clock skew, memory never runs ahead of the durable dwell clock of the same object. *)
THEOREM DwellNeverSpeculative ==
  ASSUME MaxSkew = 0
  PROVE  Spec => []NoSpeculativeDwell
<1>1. Init => TypeOK /\ ReadingInv /\ DwellInv
  BY InitTyped, InitReading, InitDwell, Zenon
<1>2. TypeOK /\ ReadingInv /\ DwellInv /\ [Next]_vars => TypeOK' /\ ReadingInv' /\ DwellInv'
  BY NextTyped, NextReading, NextDwell, Zenon
<1>3. TypeOK /\ DwellInv => NoSpeculativeDwell
  BY DwellSafe, Zenon
<1>4. QED BY <1>1, <1>2, <1>3, PTL DEF Spec

(* Without clock skew, no failover the API server accepts comes within minTerrestrialDwell of the
   last durable quality-driven hand-back. *)
THEOREM DwellHonoured ==
  ASSUME MaxSkew = 0
  PROVE  Spec => []MinDwellHonoured
<1>1. Init => TypeOK /\ ReadingInv /\ DwellInv
  BY InitTyped, InitReading, InitDwell, Zenon
<1>2. TypeOK /\ ReadingInv /\ DwellInv /\ [Next]_vars => TypeOK' /\ ReadingInv' /\ DwellInv'
  BY NextTyped, NextReading, NextDwell, Zenon
<1>3. TypeOK /\ DwellInv => MinDwellHonoured
  BY DwellSafe, Zenon
<1>4. QED BY <1>1, <1>2, <1>3, PTL DEF Spec
(***************************************************************************)
(* The path policy.  Everything an accepted write does to the path has     *)
(* been shown above, piece by piece: who decides, on what evidence, after  *)
(* which dwell.  Together the pieces are one step of the abstract policy.  *)
(***************************************************************************)
(* The decision in flight says what it does to the path of the version it was made on. *)
PathInv ==
  work.stage = "write" =>
    \/ work.decision = "Stay" /\ work.status.path = work.base.status.path
    \/ /\ work.decision = "Failover" /\ work.contact = "available"
       /\ work.base.status.path = Terrestrial /\ work.status.path = Satellite
    \/ /\ work.decision = "Switchback"
       /\ work.base.status.path = Satellite /\ work.status.path = Terrestrial

(* Every step keeps decision and path together. *)
LEMMA NextPath == TypeOK /\ PathInv /\ [Next]_vars => PathInv'
<1> SUFFICES ASSUME TypeOK, PathInv, [Next]_vars PROVE PathInv'
  BY Zenon
<1>1. ASSUME NEW fetch \in Fetches, NEW contact \in Contacts,
             HoldUnknown(fetch, contact) \/ FailStatic(fetch, contact)
      PROVE  PathInv'
  <2>1. /\ work'.base = cached
        /\ \/ work'.decision = "Stay" /\ work'.status.path = cached.status.path
           \/ /\ work'.decision = "Switchback" /\ contact = "unavailable"
              /\ cached.status.path = Satellite /\ work'.status.path = Terrestrial
    BY <1>1, GapStep, Zenon
  <2>2. QED BY <2>1, Zenon DEF PathInv
<1>2. ASSUME NEW fetch \in Fetches, NEW contact \in Contacts, EvaluateQuality(fetch, contact)
      PROVE  PathInv'
  <2>q. PICK quality : quality = readPathQuality(fetch)
    BY Zenon
  <2>1. PICK e : e = Evaluation(quality, contact)
    BY Zenon
  <2>2. /\ work'.base = cached /\ work'.contact = contact
        /\ work'.decision = e.result.decision /\ work'.status.path = e.result.target
    BY <1>2, <2>q, <2>1, EvaluationStep, Zenon
  <2>3. quality.observedAt \in Nat
    BY <2>q, QualityTyped, Zenon
  <2>4. DecidesPath(Evaluation(quality, contact).result, contact)
    BY <2>3, AntiFlapResult, Zenon
  <2>5. QED BY <2>1, <2>2, <2>4, Zenon DEF PathInv, DecidesPath
<1>3. CASE Commit
  BY <1>3, Zenon DEF Commit, Idle, PathInv
<1>4. CASE Forgets
  BY <1>4, Zenon DEF Forgets, PathInv
<1>5. CASE Quiet
  <2>1. CASE work' = work
    BY <2>1, Zenon DEF PathInv
  <2>2. CASE work'.stage = "idle"
    BY <2>2, Zenon DEF PathInv
  <2>3. CASE work' = [work EXCEPT !.stage = "commit"]
    BY <2>3, Zenon DEF PathInv, TypeOK, Works
  <2>4. QED BY <1>5, <2>1, <2>2, <2>3, Zenon DEF Quiet
<1>6. QED BY <1>1, <1>2, <1>3, <1>4, <1>5, StepKinds, Zenon

(* What is known of a reachable state when a status write is accepted. *)
PolicyInv == TypeOK /\ SampleInv /\ StreakInv /\ RecoveryInv /\ ReadingInv /\ DwellInv /\ PathInv

(* An accepted write is a failover, a hand-back or the end of a pass as the policy allows them, or it
   leaves path and dwell clock alone. *)
LEMMA AcceptPolicy ==
  ASSUME PolicyInv, work.stage = "write", Accept
  PROVE  [Policy!Next]_<<slice.uid, slice.status.path, slice.status.lastSwitchback>>
<1>1. /\ TypeOK /\ DwellInv /\ PathInv /\ DecisionSound /\ FailoverConfirmed /\ SwitchbackJustified
  BY Zenon DEF PolicyInv, DwellInv, StreakInv, RecoveryInv
<1>2. /\ slice'.uid = slice.uid /\ work.base = slice /\ slice'.status.path = work.status.path
      /\ HandsBack => slice'.status.lastSwitchback = Trunc(work.now)
      /\ ~HandsBack => slice'.status.lastSwitchback = slice.status.lastSwitchback
  <2>1. slice \in Objects
    BY <1>1, Zenon DEF TypeOK
  <2>2. slice'.uid = slice.uid /\ work.base = slice /\ slice'.status = work.status
    BY <2>1, Zenon DEF Accept, Objects
  <2>3. QED BY <1>1, <2>2, AcceptDwell, Zenon
<1>3. CASE work.decision = "Stay"
  BY <1>1, <1>2, <1>3, Zenon DEF PathInv, HandsBack
<1>4. CASE work.decision = "Failover"
  <2>1. /\ slice.status.path = "terrestrial" /\ slice'.status.path = "satellite"
        /\ work.contact = "available" /\ slice'.status.lastSwitchback = slice.status.lastSwitchback
    BY <1>1, <1>2, <1>4, Zenon DEF PathInv, HandsBack, Terrestrial, Satellite
  <2>2. work.evidence.degraded >= ConfirmationSamples
    BY <1>1, <1>4, Zenon DEF FailoverConfirmed
  <2>3. slice.status.lastSwitchback # 0 => work.now - slice.status.lastSwitchback >= MinTerrestrialDwell
    <3>1. /\ slice.status.lastSwitchback = Trunc(handback) /\ handback \in Nat
      BY <1>1, Zenon DEF DwellInv, TypeOK
    <3>2. slice.status.lastSwitchback # 0 => handback # 0
      BY <3>1, TruncBelow
    <3>3. MinDwellHonoured /\ Acceptable("Failover")
      BY <1>1, <1>2, <1>4, DwellSafe, Zenon DEF Acceptable
    <3>4. QED BY <3>1, <3>2, <3>3, Zenon DEF MinDwellHonoured
  <2>4. Policy!FailOver
    BY <1>2, <2>1, <2>2, <2>3, Zenon DEF Policy!FailOver, InFlight
  <2>5. QED BY <2>4, Zenon DEF Policy!Next
<1>5. CASE HandsBack
  <2>1. /\ slice.status.path = "satellite" /\ slice'.status.path = "terrestrial"
        /\ work.contact = "available"
    BY <1>1, <1>2, <1>5, Zenon DEF PathInv, HandsBack, Terrestrial, Satellite
  <2>2. work.evidence.recovered # 0 /\ work.now - work.evidence.recovered >= SwitchbackDelay
    BY <1>1, <1>5, Zenon DEF SwitchbackJustified, HandsBack
  <2>3. slice'.status.lastSwitchback = work.now - (work.now % Second)
    BY <1>2, <1>5, Zenon DEF Trunc
  <2>4. Policy!HandBack
    BY <1>2, <2>1, <2>2, <2>3, Zenon DEF Policy!HandBack, InFlight
  <2>5. QED BY <2>4, Zenon DEF Policy!Next
<1>6. CASE work.decision = "Switchback" /\ ~HandsBack
  <2>1. /\ slice.status.path = "satellite" /\ slice'.status.path = "terrestrial"
        /\ slice'.status.lastSwitchback = slice.status.lastSwitchback
    BY <1>1, <1>2, <1>6, Zenon DEF PathInv, Terrestrial, Satellite
  <2>2. work.contact = "unavailable"
    BY <1>1, <1>6, Zenon DEF SwitchbackJustified, HandsBack
  <2>3. Policy!PassEnded
    BY <1>2, <2>1, <2>2, Zenon DEF Policy!PassEnded, InFlight
  <2>4. QED BY <2>3, Zenon DEF Policy!Next
<1>7. QED BY <1>1, <1>3, <1>4, <1>5, <1>6, Zenon DEF PathInv

(* Every step of the reconciler and of its environment is a step of the policy or a stutter. *)
LEMMA StepPolicy ==
  PolicyInv /\ [Next]_vars => [Policy!Next]_<<slice.uid, slice.status.path, slice.status.lastSwitchback>>
<1> SUFFICES ASSUME PolicyInv, [Next]_vars
             PROVE  [Policy!Next]_<<slice.uid, slice.status.path, slice.status.lastSwitchback>>
  BY Zenon
<1>1. slice \in Objects /\ slice.uid \in Nat
  BY Zenon DEF PolicyInv, TypeOK, Objects
<1>2. CASE WriteStatus \/ WriteReplyLost
  <2>1. work.stage = "write" /\ Accept
    BY <1>2, Zenon DEF WriteStatus, WriteReplyLost
  <2>2. QED BY <2>1, AcceptPolicy, Zenon
<1>3. CASE Recreate
  <2>1. /\ slice'.uid # slice.uid /\ slice'.status.path = "terrestrial" /\ slice'.status.lastSwitchback = 0
    BY <1>1, <1>3 DEF Recreate, NewSlice, NoStatus, Terrestrial
  <2>2. Policy!Renewed
    BY <2>1, Zenon DEF Policy!Renewed
  <2>3. QED BY <2>2, Zenon DEF Policy!Next
<1>4. CASE EditSpec \/ Delete \/ ForceDelete \/ ReconcileDeleted
  <2>1. slice'.uid = slice.uid /\ slice'.status = slice.status
    BY <1>1, <1>4, Zenon DEF EditSpec, Delete, ForceDelete, ReconcileDeleted, Objects
  <2>2. QED BY <2>1, Zenon
<1>5. CASE ~(\/ Recreate \/ EditSpec \/ Delete \/ ForceDelete \/ ReconcileDeleted \/ WriteStatus
             \/ WriteReplyLost)
  <2>1. slice' = slice
    BY <1>5, Zenon DEF Next, Reconcile, Tick, InformerSync, Settle, StepBack, Handoff, HoldUnknown, FailStatic,
      EvaluateQuality, Starts, ReconcileGone, SkipWrite, WriteFails, Commit, vars
  <2>2. QED BY <2>1, Zenon
<1>6. QED BY <1>2, <1>3, <1>4, <1>5, Zenon

(* With annotations and without skew between leaders, the reconciler implements the path policy: what
   reaches the stored path, through conflicts, lost replies, stale reads, restarts, spec edits and
   re-creations, is a sequence of the policy's own steps, each with the evidence it asks for. *)
THEOREM ReconcilerImplementsPolicy ==
  ASSUME ~Timestamped, MaxSkew = 0
  PROVE  Spec => ImplementsPathPolicy
<1>1. Init => PolicyInv
  <2>1. Init => PathInv
    <3>1. Init => work.stage = "idle"
      BY DEF Init, Idle
    <3>2. QED BY <3>1, Zenon DEF PathInv
  <2>2. QED BY <2>1, InitTyped, InitStreak, InitRecovery, InitReading, InitDwell, Zenon DEF PolicyInv
<1>2. PolicyInv /\ [Next]_vars => PolicyInv'
  BY NextTyped, NextSample, NextStreak, NextRecovery, NextReading, NextDwell, NextPath, Zenon DEF PolicyInv
<1>3. Init => Policy!Init
  BY DEF Init, Policy!Init, NewSlice, NoStatus, Terrestrial
<1>4. PolicyInv /\ [Next]_vars =>
        [Policy!Next]_<<slice.uid, slice.status.path, slice.status.lastSwitchback>>
  BY StepPolicy, Zenon
<1>5. QED BY <1>1, <1>2, <1>3, <1>4, PTL DEF Spec, ImplementsPathPolicy, Policy!Spec

(***************************************************************************)
(* Clocks that disagree.                                                   *)
(***************************************************************************)
(* The dwell clock that the stored object shows, unless it is dated in the future, is waited for. *)
StoredDwellHonoured ==
  Acceptable("Failover") /\ slice.status.lastSwitchback # 0 /\ slice.status.lastSwitchback <= work.wall =>
    work.now - slice.status.lastSwitchback >= MinTerrestrialDwell

(* The same of the version that the decision in flight was made on. *)
BaseDwellInv ==
  /\ work.stage = "write" /\ work.decision = "Failover"
  /\ work.base.status.lastSwitchback # 0 /\ work.base.status.lastSwitchback <= work.wall
  => work.now - work.base.status.lastSwitchback >= MinTerrestrialDwell

(* The engine gates a failover on the newer of the clocks in memory and in status. *)
LEMMA EvaluationBaseDwell ==
  ASSUME TypeOK, ReadingInv, NEW fetch \in Fetches, NEW contact \in Contacts, EvaluateQuality(fetch, contact)
  PROVE  BaseDwellInv'
<1> DEFINE quality == readPathQuality(fetch)
           e == Evaluation(quality, contact)
           counted == CountObservation(policy, quality.reading, quality.observedAt, clock, SeededState)
<1>1. PICK durable \in Nat, entry \in Entries : durable = cached.status.lastSwitchback /\ entry = loadFlapState(cached)
  BY SeededTyped, Zenon DEF TypeOK, Objects, Statuses
<1>2. clock \in Nat /\ Wall \in Nat /\ entry.stamp \in Nat /\ Seeded.stamp \in Nat /\ SeededState.lastSwitchback \in Nat
  BY SeededTyped, Zenon DEF TypeOK, Entries, FlapStates
<1>3. /\ work'.stage = "write" /\ work'.now = clock /\ work'.wall = Wall /\ work'.base = cached
      /\ work'.decision = e.result.decision
  BY EvaluationStep, Zenon
<1>4. quality.observedAt \in Nat
  BY QualityTyped, Zenon
<1>5. e.result.decision = "Failover" =>
        ~FailoverGated(policy, counted, clock) /\ counted.lastSwitchback = SeededState.lastSwitchback
  <2>1. /\ e.result.decision = "Failover" => ~FailoverGated(policy, counted, clock) /\ e.state = counted
        /\ ~(e.result.decision = "Switchback" /\ cached.status.path = Satellite) =>
             e.state.lastSwitchback = SeededState.lastSwitchback
    BY <1>4, AntiFlapResult
  <2> HIDE DEF e, counted
  <2>2. e.result.decision = "Failover" => e.result.decision # "Switchback"
    BY Zenon
  <2>3. QED BY <2>1, <2>2, Zenon
<1> HIDE DEF e, counted
<1>6. durable <= Wall => durable <= Seeded.stamp
  <2>1. Seeded = IF durable <= Wall /\ durable > entry.stamp THEN Adopted(entry, durable) ELSE entry
    BY <1>1, Zenon DEF Seeded, seedLastSwitchbackFromStatus
  <2>2. Adopted(entry, durable).stamp = durable
    BY Zenon DEF Adopted
  <2>3. QED BY <1>2, <2>1, <2>2
<1>7. Seeded.stamp <= SeededState.lastSwitchback
  BY SeededReading, Zenon DEF ReadingInv
<1>8. e.result.decision = "Failover" =>
        ~(MinTerrestrialDwell > 0 /\ SeededState.lastSwitchback # 0
          /\ clock - SeededState.lastSwitchback < MinTerrestrialDwell)
  BY <1>5, Zenon DEF FailoverGated, policy
<1>9. e.result.decision = "Failover" /\ durable # 0 /\ durable <= Wall => clock - durable >= MinTerrestrialDwell
  <2>1. PICK last \in Nat, stamp \in Nat : last = SeededState.lastSwitchback /\ stamp = Seeded.stamp
    BY <1>2, Zenon
  <2>2. ASSUME e.result.decision = "Failover", durable # 0, durable <= Wall
        PROVE  durable <= Wall /\ durable <= stamp /\ stamp <= last
               /\ ~(MinTerrestrialDwell > 0 /\ last # 0 /\ clock - last < MinTerrestrialDwell)
    BY <1>6, <1>7, <1>8, <2>1, <2>2, Zenon
  <2>w. Wall <= clock
    BY BoundAssumption DEF Wall, TypeOK
  <2>3. ASSUME durable # 0, durable <= Wall, durable <= stamp, stamp <= last,
               ~(MinTerrestrialDwell > 0 /\ last # 0 /\ clock - last < MinTerrestrialDwell)
        PROVE  clock - durable >= MinTerrestrialDwell
    <3>1. last # 0
      BY <2>3
    <3>2. CASE MinTerrestrialDwell > 0
      BY <1>2, <2>3, <3>1, <3>2, PolicyAssumption
    <3>3. CASE MinTerrestrialDwell = 0
      BY <1>2, <2>w, <2>3, <3>3
    <3>4. QED BY <3>2, <3>3, PolicyAssumption
  <2>4. QED BY <2>2, <2>3, Zenon
<1>10. QED BY <1>1, <1>3, <1>9, Zenon DEF BaseDwellInv

(* Every step keeps it so. *)
LEMMA NextBaseDwell == TypeOK /\ ReadingInv /\ BaseDwellInv /\ [Next]_vars => BaseDwellInv'
<1> SUFFICES ASSUME TypeOK, ReadingInv, BaseDwellInv, [Next]_vars PROVE BaseDwellInv'
  BY Zenon
<1>1. ASSUME NEW fetch \in Fetches, NEW contact \in Contacts,
             HoldUnknown(fetch, contact) \/ FailStatic(fetch, contact)
      PROVE  BaseDwellInv'
  <2>1. work'.decision = "Stay" \/ work'.decision = "Switchback"
    BY <1>1, GapStep, Zenon
  <2>2. QED BY <2>1, Zenon DEF BaseDwellInv
<1>2. CASE Commit
  BY <1>2, Zenon DEF Commit, Idle, BaseDwellInv
<1>3. CASE Forgets
  BY <1>3, Zenon DEF Forgets, BaseDwellInv
<1>4. CASE Quiet
  <2>1. CASE work' = work
    BY <2>1, Zenon DEF BaseDwellInv
  <2>2. CASE work'.stage = "idle"
    BY <2>2, Zenon DEF BaseDwellInv
  <2>3. CASE work' = [work EXCEPT !.stage = "commit"]
    BY <2>3, Zenon DEF BaseDwellInv, TypeOK, Works
  <2>4. QED BY <1>4, <2>1, <2>2, <2>3, Zenon DEF Quiet
<1>5. QED BY <1>1, <1>2, <1>3, <1>4, EvaluationBaseDwell, StepKinds, Zenon

(* However far the clocks of successive leaders are apart and however far a leader's own clock is set back, no
   failover that the API server accepts comes within minTerrestrialDwell, as the leader's monotonic clock counts,
   of a lastSwitchbackTime in status that is not in its future (seedLastSwitchbackFromStatus and the dwell gate of
   EvaluateFailoverWithAntiFlap). *)
THEOREM DwellHonouredUnderSkew == Spec => []StoredDwellHonoured
<1>1. Init => BaseDwellInv
  <2>1. Idle.stage = "idle"
    BY Zenon DEF Idle
  <2>2. Init => work.stage = "idle"
    BY <2>1, Zenon DEF Init
  <2>3. QED BY <2>2, Zenon DEF BaseDwellInv
<1>2. BaseDwellInv => StoredDwellHonoured
  BY Zenon DEF BaseDwellInv, StoredDwellHonoured, Acceptable
<1>3. QED BY <1>1, <1>2, InitTyped, NextTyped, InitReading, NextReading, NextBaseDwell, PTL DEF Spec

(***************************************************************************)
(* A satellite that has set.                                               *)
(***************************************************************************)
(* Back on the terrestrial path for good, as far as the reconciler decides. *)
Returned ==
  settled = "set" /\ slice.status.path = Terrestrial /\ (work.stage = "write" => work.status.path = Terrestrial)

(* The safety part of SetSatelliteIsLeft: an evaluation that finds the satellite set decides for the terrestrial
   path, and once that is stored nothing decides or stores another. *)
ReturnsConverge ==
  [][/\ work.stage = "idle" /\ work'.stage = "write" /\ work'.contact = "unavailable" =>
          work'.status.path = Terrestrial
     /\ Returned => Returned']_vars

(* A reconcile that decides: where it goes when no satellite is available. *)
LEMMA DecidesReturn ==
  ASSUME TypeOK, NEW fetch \in Fetches, NEW contact \in Contacts,
         HoldUnknown(fetch, contact) \/ FailStatic(fetch, contact) \/ EvaluateQuality(fetch, contact)
  PROVE  /\ work'.contact = contact /\ Starts(fetch, contact)
         /\ contact = "unavailable" => work'.status.path = Terrestrial
<1>0. cached.status.path \in {Terrestrial, Satellite}
  BY Zenon DEF TypeOK, Objects, Statuses
<1>1. CASE HoldUnknown(fetch, contact)
  <2>1. work'.contact = contact /\ Starts(fetch, contact)
    BY <1>1, GapStep, Zenon
  <2>2. contact # "unavailable"
    BY <1>1, Zenon DEF HoldUnknown
  <2>3. QED BY <2>1, <2>2, Zenon
<1>2. CASE FailStatic(fetch, contact)
  <2>1. work'.contact = contact /\ Starts(fetch, contact)
    BY <1>2, GapStep, Zenon
  <2>2. work'.status.path = EvaluateSafeHold(cached.status.path, contact = "available").target
    BY <1>2, Zenon DEF FailStatic, Decided, ApplyDecision
  <2>3. contact = "unavailable" => EvaluateSafeHold(cached.status.path, contact = "available").target = Terrestrial
    BY <1>0 DEF EvaluateSafeHold, SwitchBack, Stay, Result
  <2>4. QED BY <2>1, <2>2, <2>3, Zenon
<1>3. CASE EvaluateQuality(fetch, contact)
  <2>1. PICK quality, e : quality = readPathQuality(fetch) /\ e = Evaluation(quality, contact)
    BY Zenon
  <2>2. work'.contact = contact /\ Starts(fetch, contact) /\ work'.status.path = e.result.target
    BY <1>3, <2>1, EvaluationStep, Zenon
  <2>3. contact = "unavailable" /\ cached.status.path = Satellite => e.result = SwitchBack
    <3>1. contact = "unavailable" => (contact = "available") = FALSE
      BY Zenon
    <3>2. SwitchBack.decision # "Failover" /\ Terrestrial # Satellite
      BY Zenon DEF SwitchBack, Result, Terrestrial, Satellite
    <3>3. QED
      BY <2>1, <3>1, <3>2, Zenon
         DEF Evaluation, EvaluateFailoverWithAntiFlap, EvaluateFailoverWithHysteresis, EvaluateFailoverWithContext
  <2>4. DecidesPath(e.result, contact)
    <3>1. quality.observedAt \in Nat
      BY <2>1, QualityTyped, Zenon
    <3>2. QED BY <2>1, <3>1, AntiFlapResult, Zenon
  <2>5. contact = "unavailable" => e.result.target = Terrestrial
    <3>1. SwitchBack.target = Terrestrial /\ SwitchBack.decision = "Switchback"
      BY Zenon DEF SwitchBack, Result
    <3>2. contact = "unavailable" => contact # "available"
      BY Zenon
    <3>3. QED BY <1>0, <2>3, <2>4, <3>1, <3>2, Zenon DEF DecidesPath
  <2>6. QED BY <2>2, <2>5, Zenon
<1>4. QED BY <1>1, <1>2, <1>3, Zenon

(* Whatever the margin, delay and dwell, the telemetry and the failing writes: one evaluation that finds the
   satellite set, once stored, returns the slice to the terrestrial path, and none takes it away again. *)
THEOREM SetSatelliteReturns == Spec => ReturnsConverge
<1>1. ASSUME TypeOK, [Next]_vars
      PROVE  [/\ work.stage = "idle" /\ work'.stage = "write" /\ work'.contact = "unavailable" =>
                   work'.status.path = Terrestrial
              /\ Returned => Returned']_vars
  <2>1. ASSUME NEW fetch \in Fetches, NEW contact \in Contacts,
               HoldUnknown(fetch, contact) \/ FailStatic(fetch, contact) \/ EvaluateQuality(fetch, contact)
        PROVE  /\ work'.contact = "unavailable" => work'.status.path = Terrestrial
               /\ Returned => Returned'
    <3>1. /\ work'.contact = contact /\ Starts(fetch, contact)
          /\ contact = "unavailable" => work'.status.path = Terrestrial
      BY <1>1, <2>1, DecidesReturn, Zenon
    <3>2. slice' = slice /\ settled' = settled /\ (settled = "set" => contact = "unavailable")
      BY <3>1, Zenon DEF Starts, WhenSettled
    <3>3. QED BY <3>1, <3>2, Zenon DEF Returned
  <2>2. CASE Commit \/ Forgets \/ Quiet
    <3>1. work'.stage = "write" => work' = work
      <4>1. ASSUME work' = [work EXCEPT !.stage = "commit"] PROVE work'.stage = "commit"
        BY <1>1, <4>1, Zenon DEF TypeOK, Works
      <4>2. Idle.stage = "idle" /\ "idle" # "write" /\ "commit" # "write"
        BY Zenon DEF Idle
      <4>3. QED BY <2>2, <4>1, <4>2, Zenon DEF Commit, Forgets, Quiet
    <3>2. ASSUME Returned PROVE Returned'
      <4>1. settled' = settled
        BY <1>1, <3>2, Zenon
           DEF Next, Reconcile, Tick, InformerSync, EditSpec, Delete, ForceDelete, Recreate, Settle, StepBack, Handoff, HoldUnknown,
               FailStatic, EvaluateQuality, Starts, ReconcileGone, ReconcileDeleted, WriteStatus, SkipWrite, WriteFails,
               WriteReplyLost, Commit, vars, Returned
      <4>2. slice'.status.path = Terrestrial
        <5>1. slice \in Objects
          BY <1>1, Zenon DEF TypeOK
        <5>2. CASE WriteStatus \/ WriteReplyLost
          BY <3>2, <5>1, <5>2, Zenon DEF WriteStatus, WriteReplyLost, Accept, Returned, Objects
        <5>3. CASE Recreate
          BY <5>3, Zenon DEF Recreate, NewSlice, NoStatus
        <5>4. CASE EditSpec \/ Delete \/ ForceDelete \/ ReconcileDeleted
          BY <3>2, <5>1, <5>4, Zenon DEF EditSpec, Delete, ForceDelete, ReconcileDeleted, Objects, Returned
        <5>5. CASE slice' = slice
          BY <3>2, <5>5, Zenon DEF Returned
        <5>6. QED
          BY <1>1, <5>2, <5>3, <5>4, <5>5, Zenon
             DEF Next, Reconcile, Tick, InformerSync, Settle, StepBack, Handoff, HoldUnknown, FailStatic, EvaluateQuality, Starts,
                 ReconcileGone, SkipWrite, WriteFails, Commit, vars
      <4>3. QED BY <3>1, <3>2, <4>1, <4>2, Zenon DEF Returned
    <3>3. QED BY <3>1, <3>2, Zenon
  <2>3. QED BY <1>1, <2>1, <2>2, StepKinds, Zenon
<1>2. QED BY <1>1, InitTyped, NextTyped, PTL DEF Spec, ReturnsConverge
=============================================================================
