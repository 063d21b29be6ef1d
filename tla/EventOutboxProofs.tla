-------------------------- MODULE EventOutboxProofs --------------------------
(***************************************************************************)
(* The claims of registry_event_outbox, for any number of events, requests *)
(* and drains.  What holds whatever fails: a delivered row was processed.  *)
(* What needs handlers that end before their claim goes stale: a claim     *)
(* keeps everybody else away, a delivered event stays handled once and for *)
(* all, and the outbox implements EventDelivery.                           *)
(***************************************************************************)
EXTENDS EventOutbox, TLAPS

USE DEF rowVars, handlerVars, Handlers, Claimed

\* An event emitted without a row has none, and only such an event is worked
\* on without a claim.
UnrecordedApart ==
    /\ \A e \in unrecorded : row[e] = "none"
    /\ \A h \in Handlers : pc[h] = "besteffort" => ev[h] \in unrecorded

\* A handler about to mark its row has processed the event.
CompletedWasHandled ==
    \A h \in Handlers : pc[h] = "complete" => handled[ev[h]] > 0

BaseInv == TypeOK /\ UnrecordedApart /\ CompletedWasHandled /\ DeliveredWasHandled

\* A handler at work holds a live claim on a row that is still to deliver.
ClaimsHeld ==
    \A h \in Handlers :
      pc[h] \in Claimed => claim[ev[h]] = "live" /\ row[ev[h]] = "pending"

ClaimInv == ClaimsHeld /\ OneHandlerPerEvent

\* The initial state satisfies both invariants.
LEMMA InitInv == Init => BaseInv /\ ClaimInv
BY ConstantsAssumption DEF Init, BaseInv, TypeOK, UnrecordedApart, CompletedWasHandled, DeliveredWasHandled, ClaimInv, ClaimsHeld, OneHandlerPerEvent

\* Every step preserves type correctness.
LEMMA TypeStep == TypeOK /\ [Next]_vars => TypeOK'
<1> SUFFICES ASSUME TypeOK, [Next]_vars PROVE TypeOK'
  OBVIOUS
<1> USE ConstantsAssumption DEF TypeOK
<1>1. CASE UNCHANGED vars
  BY <1>1 DEF vars
<1>2. ASSUME NEW e \in Events, Emit(e) PROVE TypeOK'
  BY <1>2 DEF Emit
<1>3. ASSUME NEW e \in Events, EmitUnrecorded(e) PROVE TypeOK'
  BY <1>3 DEF EmitUnrecorded
<1>4. ASSUME NEW e \in Events, PostFails(e) PROVE TypeOK'
  BY <1>4 DEF PostFails
<1>5. ASSUME NEW e \in Events, ClaimExpires(e) PROVE TypeOK'
  BY <1>5 DEF ClaimExpires
<1>6. ASSUME NEW e \in Events, BackoffEnds(e) PROVE TypeOK'
  BY <1>6 DEF BackoffEnds
<1>7. ASSUME NEW e \in Events, NEW r \in Routes, Post(e, r) PROVE TypeOK'
  BY <1>7 DEF Post
<1>8. ASSUME NEW h \in Handlers, BestEffort(h) PROVE TypeOK'
  BY <1>8 DEF BestEffort, Release, Count
<1>9. ASSUME NEW h \in Handlers, Process(h) PROVE TypeOK'
  BY <1>9 DEF Process, Count
<1>10. ASSUME NEW h \in Handlers, ProcessThrows(h) PROVE TypeOK'
  BY <1>10 DEF ProcessThrows
<1>11. ASSUME NEW h \in Handlers, completeOutboxEvent(h) PROVE TypeOK'
  BY <1>11 DEF completeOutboxEvent, Release
<1>12. ASSUME NEW h \in Handlers, CompleteThrows(h) PROVE TypeOK'
  BY <1>12 DEF CompleteThrows
<1>13. ASSUME NEW h \in Handlers, failOutboxEvent(h) PROVE TypeOK'
  <2>1. ev[h] \in Events
    BY <1>13 DEF failOutboxEvent
  <2>2. CASE row[ev[h]] = "swept"
    BY <1>13, <2>2 DEF failOutboxEvent, Release
  <2>3. CASE row[ev[h]] # "swept"
    <3>1. due' = [due EXCEPT ![ev[h]] = FALSE]
      BY <1>13, <2>3 DEF failOutboxEvent
    <3>2. due' \in [Events -> BOOLEAN]
      BY <3>1
    <3> QED
      BY <1>13, <2>1, <2>3, <3>2 DEF failOutboxEvent, Release
  <2> QED
    BY <2>2, <2>3
<1>14. ASSUME NEW h \in Handlers, FailThrows(h) PROVE TypeOK'
  BY <1>14 DEF FailThrows, Release
<1>15. ASSUME NEW h \in Handlers, Crash(h) PROVE TypeOK'
  BY <1>15 DEF Crash
<1>16. ASSUME NEW d \in Drains, DrainSelect(d) PROVE TypeOK'
  BY <1>16 DEF DrainSelect
<1>17. ASSUME NEW d \in Drains, DrainClaim(d) PROVE TypeOK'
  BY <1>17 DEF DrainClaim
<1>18. ASSUME NEW d \in Drains, DrainEnd(d) PROVE TypeOK'
  BY <1>18 DEF DrainEnd
<1>19. CASE RegistrydRestarts
  BY <1>19 DEF RegistrydRestarts
<1> QED
  BY <1>1, <1>2, <1>3, <1>4, <1>5, <1>6, <1>7, <1>8, <1>9, <1>10, <1>11, <1>12, <1>13, <1>14, <1>15, <1>16, <1>17, <1>18, <1>19
  DEF Next, HandlerStep, DrainStep

\* Every step preserves the facts about what has been processed.
LEMMA BaseStep == BaseInv /\ [Next]_vars => UnrecordedApart' /\ CompletedWasHandled' /\ DeliveredWasHandled'
<1> SUFFICES ASSUME BaseInv, [Next]_vars
             PROVE UnrecordedApart' /\ CompletedWasHandled' /\ DeliveredWasHandled'
  OBVIOUS
<1> DEFINE Goal == UnrecordedApart' /\ CompletedWasHandled' /\ DeliveredWasHandled'
<1> USE ConstantsAssumption DEF BaseInv, TypeOK, UnrecordedApart, CompletedWasHandled, DeliveredWasHandled
<1>1. CASE UNCHANGED vars
  BY <1>1 DEF vars
<1>2. ASSUME NEW e \in Events, Emit(e) PROVE Goal
  BY <1>2 DEF Emit
<1>3. ASSUME NEW e \in Events, EmitUnrecorded(e) PROVE Goal
  BY <1>3 DEF EmitUnrecorded
<1>4. ASSUME NEW e \in Events, PostFails(e) PROVE Goal
  BY <1>4 DEF PostFails
<1>5. ASSUME NEW e \in Events, ClaimExpires(e) PROVE Goal
  BY <1>5 DEF ClaimExpires
<1>6. ASSUME NEW e \in Events, BackoffEnds(e) PROVE Goal
  BY <1>6 DEF BackoffEnds
<1>7. ASSUME NEW e \in Events, NEW r \in Routes, Post(e, r) PROVE Goal
  BY <1>7 DEF Post, Claimable
<1>8. ASSUME NEW h \in Handlers, BestEffort(h) PROVE Goal
  BY <1>8 DEF BestEffort, Release, Count
<1>9. ASSUME NEW h \in Handlers, Process(h) PROVE Goal
  BY <1>9 DEF Process, Count
<1>10. ASSUME NEW h \in Handlers, ProcessThrows(h) PROVE Goal
  BY <1>10 DEF ProcessThrows
<1>11. ASSUME NEW h \in Handlers, completeOutboxEvent(h) PROVE Goal
  BY <1>11 DEF completeOutboxEvent, Release
<1>12. ASSUME NEW h \in Handlers, CompleteThrows(h) PROVE Goal
  BY <1>12 DEF CompleteThrows
<1>13. ASSUME NEW h \in Handlers, failOutboxEvent(h) PROVE Goal
  BY <1>13 DEF failOutboxEvent, Release
<1>14. ASSUME NEW h \in Handlers, FailThrows(h) PROVE Goal
  BY <1>14 DEF FailThrows, Release
<1>15. ASSUME NEW h \in Handlers, Crash(h) PROVE Goal
  BY <1>15 DEF Crash
<1>16. ASSUME NEW d \in Drains, DrainSelect(d) PROVE Goal
  BY <1>16 DEF DrainSelect
<1>17. ASSUME NEW d \in Drains, DrainClaim(d) PROVE Goal
  BY <1>17 DEF DrainClaim, Claimable
<1>18. ASSUME NEW d \in Drains, DrainEnd(d) PROVE Goal
  BY <1>18 DEF DrainEnd
<1>19. CASE RegistrydRestarts
  BY <1>19 DEF RegistrydRestarts
<1> QED
  BY <1>1, <1>2, <1>3, <1>4, <1>5, <1>6, <1>7, <1>8, <1>9, <1>10, <1>11, <1>12, <1>13, <1>14, <1>15, <1>16, <1>17, <1>18, <1>19
  DEF Next, HandlerStep, DrainStep

\* Every step preserves the exclusion of claims, unless handlers can outlive
\* their claim.
LEMMA ClaimStep ==
  ASSUME "slow" \notin Faults
  PROVE  BaseInv /\ ClaimInv /\ [Next]_vars => ClaimInv'
<1> SUFFICES ASSUME BaseInv, ClaimInv, [Next]_vars PROVE ClaimInv'
  OBVIOUS
<1> USE ConstantsAssumption DEF BaseInv, TypeOK, UnrecordedApart, ClaimInv, ClaimsHeld, OneHandlerPerEvent
<1>1. CASE UNCHANGED vars
  BY <1>1 DEF vars
<1>2. ASSUME NEW e \in Events, Emit(e) PROVE ClaimInv'
  BY <1>2 DEF Emit
<1>3. ASSUME NEW e \in Events, EmitUnrecorded(e) PROVE ClaimInv'
  BY <1>3 DEF EmitUnrecorded
<1>4. ASSUME NEW e \in Events, PostFails(e) PROVE ClaimInv'
  BY <1>4 DEF PostFails
<1>5. ASSUME NEW e \in Events, ClaimExpires(e) PROVE ClaimInv'
  BY <1>5 DEF ClaimExpires
<1>6. ASSUME NEW e \in Events, BackoffEnds(e) PROVE ClaimInv'
  BY <1>6 DEF BackoffEnds
<1>7. ASSUME NEW e \in Events, NEW r \in Routes, Post(e, r) PROVE ClaimInv'
  BY <1>7 DEF Post, Claimable
<1>8. ASSUME NEW h \in Handlers, BestEffort(h) PROVE ClaimInv'
  BY <1>8 DEF BestEffort, Release, Count
<1>9. ASSUME NEW h \in Handlers, Process(h) PROVE ClaimInv'
  BY <1>9 DEF Process, Count
<1>10. ASSUME NEW h \in Handlers, ProcessThrows(h) PROVE ClaimInv'
  BY <1>10 DEF ProcessThrows
<1>11. ASSUME NEW h \in Handlers, completeOutboxEvent(h) PROVE ClaimInv'
  BY <1>11 DEF completeOutboxEvent, Release
<1>12. ASSUME NEW h \in Handlers, CompleteThrows(h) PROVE ClaimInv'
  BY <1>12 DEF CompleteThrows
<1>13. ASSUME NEW h \in Handlers, failOutboxEvent(h) PROVE ClaimInv'
  BY <1>13 DEF failOutboxEvent, Release
<1>14. ASSUME NEW h \in Handlers, FailThrows(h) PROVE ClaimInv'
  BY <1>14 DEF FailThrows, Release
<1>15. ASSUME NEW h \in Handlers, Crash(h) PROVE ClaimInv'
  BY <1>15 DEF Crash
<1>16. ASSUME NEW d \in Drains, DrainSelect(d) PROVE ClaimInv'
  BY <1>16 DEF DrainSelect
<1>17. ASSUME NEW d \in Drains, DrainClaim(d) PROVE ClaimInv'
  BY <1>17 DEF DrainClaim, Claimable
<1>18. ASSUME NEW d \in Drains, DrainEnd(d) PROVE ClaimInv'
  BY <1>18 DEF DrainEnd
<1>19. CASE RegistrydRestarts
  BY <1>19 DEF RegistrydRestarts
<1> QED
  BY <1>1, <1>2, <1>3, <1>4, <1>5, <1>6, <1>7, <1>8, <1>9, <1>10, <1>11, <1>12, <1>13, <1>14, <1>15, <1>16, <1>17, <1>18, <1>19
  DEF Next, HandlerStep, DrainStep

\* Both invariants hold throughout.
LEMMA BaseInvariance == Spec => []BaseInv
<1>1. BaseInv /\ [Next]_vars => BaseInv'
  BY TypeStep, BaseStep DEF BaseInv
<1> QED
  BY InitInv, <1>1, PTL DEF Spec

\* Claims exclude throughout, if no handler outlives its claim.
LEMMA ClaimInvariance ==
  ASSUME "slow" \notin Faults
  PROVE  Spec => []ClaimInv
<1>1. BaseInv /\ ClaimInv /\ [Next]_vars => ClaimInv'
  BY ClaimStep
<1> QED
  BY InitInv, BaseInvariance, <1>1, PTL DEF Spec

\* Type correctness of the outbox and its handlers.
THEOREM TypeCorrect == Spec => []TypeOK
<1>1. BaseInv => TypeOK
  BY DEF BaseInv
<1> QED
  BY BaseInvariance, <1>1, PTL

\* Whatever fails, crashes or overlaps, a row is marked delivered (and later
\* swept) only when its event was processed.
THEOREM DeliveryIsHonest == Spec => []DeliveredWasHandled
<1>1. BaseInv => DeliveredWasHandled
  BY DEF BaseInv
<1> QED
  BY BaseInvariance, <1>1, PTL

\* Handlers that end before their claim goes stale never share an event.
THEOREM ClaimsExclude ==
  ASSUME "slow" \notin Faults
  PROVE  Spec => []OneHandlerPerEvent
<1>1. ClaimInv => OneHandlerPerEvent
  BY DEF ClaimInv
<1> QED
  BY ClaimInvariance, <1>1, PTL

\* ... and then no retry of the POST and no drain touches a delivered event.
THEOREM DeliveryIsFinal ==
  ASSUME "slow" \notin Faults
  PROVE  Spec => DeliveredIsFinal
<1> DEFINE Step == \A e \in Events : row[e] \in {"delivered", "swept"} =>
                     handled'[e] = handled[e] /\ row'[e] \in {"delivered", "swept"}
<1>1. BaseInv /\ ClaimInv /\ [Next]_vars => [Step]_vars
  <2> SUFFICES ASSUME BaseInv, ClaimInv, Next PROVE Step
    OBVIOUS
  <2> USE ConstantsAssumption DEF BaseInv, TypeOK, UnrecordedApart, ClaimInv, ClaimsHeld
  <2>2. ASSUME NEW e \in Events, Emit(e) PROVE Step
    BY <2>2 DEF Emit
  <2>3. ASSUME NEW e \in Events, EmitUnrecorded(e) PROVE Step
    BY <2>3 DEF EmitUnrecorded
  <2>4. ASSUME NEW e \in Events, PostFails(e) PROVE Step
    BY <2>4 DEF PostFails
  <2>5. ASSUME NEW e \in Events, ClaimExpires(e) PROVE Step
    BY <2>5 DEF ClaimExpires
  <2>6. ASSUME NEW e \in Events, BackoffEnds(e) PROVE Step
    BY <2>6 DEF BackoffEnds
  <2>7. ASSUME NEW e \in Events, NEW r \in Routes, Post(e, r) PROVE Step
    BY <2>7 DEF Post
  <2>8. ASSUME NEW h \in Handlers, BestEffort(h) PROVE Step
    BY <2>8 DEF BestEffort, Release, Count
  <2>9. ASSUME NEW h \in Handlers, Process(h) PROVE Step
    BY <2>9 DEF Process, Count
  <2>10. ASSUME NEW h \in Handlers, ProcessThrows(h) PROVE Step
    BY <2>10 DEF ProcessThrows
  <2>11. ASSUME NEW h \in Handlers, completeOutboxEvent(h) PROVE Step
    BY <2>11 DEF completeOutboxEvent, Release
  <2>12. ASSUME NEW h \in Handlers, CompleteThrows(h) PROVE Step
    BY <2>12 DEF CompleteThrows
  <2>13. ASSUME NEW h \in Handlers, failOutboxEvent(h) PROVE Step
    BY <2>13 DEF failOutboxEvent, Release
  <2>14. ASSUME NEW h \in Handlers, FailThrows(h) PROVE Step
    BY <2>14 DEF FailThrows, Release
  <2>15. ASSUME NEW h \in Handlers, Crash(h) PROVE Step
    BY <2>15 DEF Crash
  <2>16. ASSUME NEW d \in Drains, DrainSelect(d) PROVE Step
    BY <2>16 DEF DrainSelect
  <2>17. ASSUME NEW d \in Drains, DrainClaim(d) PROVE Step
    BY <2>17 DEF DrainClaim
  <2>18. ASSUME NEW d \in Drains, DrainEnd(d) PROVE Step
    BY <2>18 DEF DrainEnd
  <2>19. CASE RegistrydRestarts
    BY <2>19 DEF RegistrydRestarts
  <2> QED
    BY <2>2, <2>3, <2>4, <2>5, <2>6, <2>7, <2>8, <2>9, <2>10, <2>11, <2>12, <2>13, <2>14, <2>15, <2>16, <2>17, <2>18, <2>19
    DEF Next, HandlerStep, DrainStep
<1> QED
  BY BaseInvariance, ClaimInvariance, <1>1, PTL DEF Spec, DeliveredIsFinal

\* An event is processed only with a row, or without ever getting one.
UnhandledBefore == \A e \in Events : row[e] = "none" /\ e \notin unrecorded => handled[e] = 0

LEMMA UnhandledStep ==
  BaseInv /\ ClaimInv /\ UnhandledBefore /\ [Next]_vars => UnhandledBefore'
<1> SUFFICES ASSUME BaseInv, ClaimInv, UnhandledBefore, [Next]_vars PROVE UnhandledBefore'
  OBVIOUS
<1> USE DEF BaseInv, TypeOK, UnhandledBefore
<1>1. \A e \in Events : row'[e] = "none" => row[e] = "none"
  BY DEF Next, vars, HandlerStep, DrainStep, Emit, EmitUnrecorded, PostFails, ClaimExpires, BackoffEnds, Post,
         BestEffort, Process, ProcessThrows, completeOutboxEvent, CompleteThrows, failOutboxEvent, FailThrows,
         Crash, DrainSelect, DrainClaim, DrainEnd, RegistrydRestarts
<1>2. unrecorded \subseteq unrecorded'
  BY DEF Next, vars, HandlerStep, DrainStep, Emit, EmitUnrecorded, PostFails, ClaimExpires, BackoffEnds, Post,
         BestEffort, Process, ProcessThrows, completeOutboxEvent, CompleteThrows, failOutboxEvent, FailThrows,
         Crash, DrainSelect, DrainClaim, DrainEnd, RegistrydRestarts
<1>3. ASSUME NEW h \in Handlers, BestEffort(h) PROVE \A e \in Events : handled'[e] = handled[e] \/ e \in unrecorded
  BY <1>3 DEF BestEffort, Count, UnrecordedApart
<1>4. ASSUME NEW h \in Handlers, Process(h) PROVE \A e \in Events : handled'[e] = handled[e] \/ row[e] = "pending"
  BY <1>4 DEF Process, Count, ClaimInv, ClaimsHeld
<1>5. ASSUME ~\E h \in Handlers : BestEffort(h) \/ Process(h) PROVE handled' = handled
  BY <1>5 DEF Next, vars, HandlerStep, DrainStep, Emit, EmitUnrecorded, PostFails, ClaimExpires, BackoffEnds, Post,
         ProcessThrows, completeOutboxEvent, CompleteThrows, failOutboxEvent, FailThrows,
         Crash, DrainSelect, DrainClaim, DrainEnd, RegistrydRestarts
<1> QED
  BY <1>1, <1>2, <1>3, <1>4, <1>5

\* What the mapping gives for one event.
LEMMA DeliverySeen ==
  ASSUME TypeOK, NEW e \in Events
  PROVE  /\ row[e] = "none" <=> DeliveryStatus[e] = "none"
         /\ row[e] = "pending" <=> DeliveryStatus[e] = "recorded"
         /\ row[e] = "delivered" <=> DeliveryStatus[e] = "delivered"
         /\ row[e] = "swept" <=> DeliveryStatus[e] = "forgotten"
         /\ DeliveryWorkers[e] = {h \in Handlers : pc[h] \in Claimed /\ ev[h] = e}
         /\ DeliveryTimes[e] = IF row[e] = "none" THEN 0 ELSE handled[e]
BY DEF TypeOK, DeliveryStatus, DeliveryWorkers, DeliveryTimes

\* Where the rows stay, EventDelivery sees no change of state.
LEMMA SameStatus == row' = row => DeliveryStatus' = DeliveryStatus
BY DEF DeliveryStatus

\* Where claims stay with whoever has them, it sees the same workers.
LEMMA SameWorkers ==
  ASSUME \A h \in Handlers, e \in Events : pc'[h] \in Claimed /\ ev'[h] = e <=> pc[h] \in Claimed /\ ev[h] = e
  PROVE  DeliveryWorkers' = DeliveryWorkers
BY DEF DeliveryWorkers

\* Where nothing is processed and no row is new but of an unprocessed event,
\* it sees the same counts.
LEMMA SameTimes ==
  ASSUME \A e \in Events : handled'[e] = handled[e] \/ row'[e] = "none",
         \A e \in Events : row'[e] # "none" /\ row[e] = "none" => handled[e] = 0,
         \A e \in Events : row'[e] = "none" => row[e] = "none"
  PROVE  DeliveryTimes' = DeliveryTimes
<1>1. ASSUME NEW e \in Events
      PROVE  (IF row'[e] = "none" THEN 0 ELSE handled'[e]) = (IF row[e] = "none" THEN 0 ELSE handled[e])
  OBVIOUS
<1> QED
  BY <1>1 DEF DeliveryTimes

LEMMA DeliveryInitially == Init => Delivery!Init
<1> SUFFICES ASSUME Init PROVE Delivery!Init
  OBVIOUS
<1>1. DeliveryStatus = [e \in Events |-> "none"]
  BY DEF Init, DeliveryStatus
<1>2. DeliveryWorkers = [e \in Events |-> {}]
  <2>1. \A e \in Events : {h \in Handlers : pc[h] \in Claimed /\ ev[h] = e} = {}
    BY DEF Init
  <2> QED
    BY <2>1 DEF DeliveryWorkers
<1>3. DeliveryTimes = [e \in Events |-> 0]
  BY DEF Init, DeliveryTimes
<1> QED
  BY <1>1, <1>2, <1>3 DEF Delivery!Init

\* Whoever has taken an event is the only one to have it, and whoever lets go
\* of it leaves it to nobody.
LEMMA WorkerAlone ==
  ASSUME TypeOK, ClaimInv, NEW h \in Handlers, pc[h] \in Claimed
  PROVE  ev[h] \in Events /\ row[ev[h]] = "pending" /\ DeliveryWorkers[ev[h]] = {h}
<1>1. ev[h] \in Events /\ row[ev[h]] = "pending"
  BY DEF TypeOK, ClaimInv, ClaimsHeld
<1>2. \A g \in Handlers : pc[g] \in Claimed /\ ev[g] = ev[h] => g = h
  BY DEF ClaimInv, OneHandlerPerEvent
<1> QED
  BY <1>1, <1>2, DeliverySeen

LEMMA LetGo ==
  ASSUME TypeOK, ClaimInv, NEW h \in Handlers, pc[h] \in Claimed, pc'[h] \notin Claimed,
         \A g \in Handlers : g # h => pc'[g] = pc[g] /\ ev'[g] = ev[g]
  PROVE  DeliveryWorkers' = [DeliveryWorkers EXCEPT ![ev[h]] = {}]
<1>1. \A g \in Handlers : pc[g] \in Claimed /\ ev[g] = ev[h] => g = h
  BY DEF ClaimInv, OneHandlerPerEvent
<1>2. ASSUME NEW e \in Events
      PROVE  {g \in Handlers : pc'[g] \in Claimed /\ ev'[g] = e} =
             IF e = ev[h] THEN {} ELSE {g \in Handlers : pc[g] \in Claimed /\ ev[g] = e}
  BY <1>1
<1>3. DeliveryWorkers' = [e \in Events |-> IF e = ev[h] THEN {} ELSE DeliveryWorkers[e]]
  BY <1>2 DEF DeliveryWorkers
<1>4. DeliveryWorkers = [e \in Events |-> DeliveryWorkers[e]]
  BY DEF DeliveryWorkers
<1> QED
  BY <1>3, <1>4

LEMMA Taking ==
  ASSUME TypeOK, NEW h \in Handlers, NEW e \in Events, pc[h] \notin Claimed, pc'[h] \in Claimed, ev'[h] = e,
         DeliveryWorkers[e] = {},
         \A g \in Handlers : g # h => pc'[g] = pc[g] /\ ev'[g] = ev[g]
  PROVE  DeliveryWorkers' = [DeliveryWorkers EXCEPT ![e] = {h}]
<1>1. \A g \in Handlers : ~(pc[g] \in Claimed /\ ev[g] = e)
  BY DEF DeliveryWorkers
<1>2. ASSUME NEW f \in Events
      PROVE  {g \in Handlers : pc'[g] \in Claimed /\ ev'[g] = f} =
             IF f = e THEN {h} ELSE {g \in Handlers : pc[g] \in Claimed /\ ev[g] = f}
  BY <1>1
<1>3. DeliveryWorkers' = [f \in Events |-> IF f = e THEN {h} ELSE DeliveryWorkers[f]]
  BY <1>2 DEF DeliveryWorkers
<1>4. DeliveryWorkers = [f \in Events |-> DeliveryWorkers[f]]
  BY DEF DeliveryWorkers
<1> QED
  BY <1>3, <1>4

\* A claim is a Take: what can be claimed is held by nobody.
LEMMA ClaimTakes ==
  ASSUME TypeOK, ClaimInv, NEW h \in Handlers, NEW e \in Events, Claimable(e),
         pc[h] \notin Claimed, pc'[h] = "work", ev'[h] = e,
         \A g \in Handlers : g # h => pc'[g] = pc[g] /\ ev'[g] = ev[g],
         row' = row, handled' = handled
  PROVE  Delivery!Next
<1>1. row[e] = "pending" /\ claim[e] # "live"
  BY DEF Claimable
<1>2. \A g \in Handlers : ~(pc[g] \in Claimed /\ ev[g] = e)
  BY <1>1 DEF ClaimInv, ClaimsHeld
<1>3. DeliveryWorkers[e] = {}
  BY <1>2, DeliverySeen
<1>4. DeliveryWorkers' = [DeliveryWorkers EXCEPT ![e] = {h}]
  BY <1>3, Taking
<1>5. DeliveryStatus[e] = "recorded" /\ DeliveryStatus' = DeliveryStatus
  BY <1>1, DeliverySeen, SameStatus
<1>6. DeliveryTimes' = DeliveryTimes
  BY DEF DeliveryTimes
<1>7. Delivery!Take(e, h)
  BY <1>3, <1>4, <1>5, <1>6 DEF Delivery!Take
<1> QED
  BY <1>7 DEF Delivery!Next

\* A handler that fails, cannot write or dies gives its event back.
LEMMA LettingGoGivesBack ==
  ASSUME TypeOK, ClaimInv, NEW h \in Handlers, pc[h] \in Claimed, pc'[h] \notin Claimed,
         \A g \in Handlers : g # h => pc'[g] = pc[g] /\ ev'[g] = ev[g],
         row' = row, handled' = handled
  PROVE  Delivery!Next
<1>1. ev[h] \in Events /\ h \in DeliveryWorkers[ev[h]]
  BY WorkerAlone
<1>2. DeliveryWorkers' = [DeliveryWorkers EXCEPT ![ev[h]] = {}]
  BY LetGo
<1>3. DeliveryStatus' = DeliveryStatus /\ DeliveryTimes' = DeliveryTimes
  BY SameStatus DEF DeliveryTimes
<1>4. Delivery!GiveBack(ev[h], h)
  BY <1>1, <1>2, <1>3 DEF Delivery!GiveBack
<1> QED
  BY <1>1, <1>4 DEF Delivery!Next

\* Every step of the outbox is one of EventDelivery, or none.
LEMMA DeliveryStep ==
  ASSUME BaseInv, ClaimInv, UnhandledBefore, BaseInv', ClaimInv', [Next]_vars
  PROVE  [Delivery!Next]_(Delivery!vars)
<1>1. TypeOK /\ TypeOK'
  BY DEF BaseInv
<1>2. ASSUME row' = row, handled' = handled,
             \A h \in Handlers, e \in Events : pc'[h] \in Claimed /\ ev'[h] = e <=> pc[h] \in Claimed /\ ev[h] = e
      PROVE  UNCHANGED Delivery!vars
  BY <1>2, SameStatus, SameWorkers DEF Delivery!vars, DeliveryTimes
<1>3. ASSUME NEW e \in Events, Emit(e) PROVE Delivery!Next
  <2>1. /\ row[e] = "none" /\ e \notin unrecorded /\ row' = [row EXCEPT ![e] = "pending"]
        /\ UNCHANGED <<pc, ev, handled>>
    BY <1>3 DEF Emit
  <2>2. DeliveryWorkers' = DeliveryWorkers
    BY <2>1, SameWorkers
  <2>3. DeliveryTimes' = DeliveryTimes
    BY <1>1, <2>1 DEF DeliveryTimes, UnhandledBefore, TypeOK
  <2>4. \A f \in Events : row'[f] = IF f = e THEN "pending" ELSE row[f]
    BY <1>1, <2>1 DEF TypeOK
  <2>5. DeliveryStatus' = [DeliveryStatus EXCEPT ![e] = "recorded"]
    BY <2>4 DEF DeliveryStatus
  <2>6. Delivery!Record(e)
    BY <1>1, <2>1, <2>2, <2>3, <2>5, DeliverySeen DEF Delivery!Record
  <2> QED
    BY <2>6 DEF Delivery!Next
<1>4. ASSUME NEW e \in Events, NEW r \in Routes, Post(e, r) PROVE [Delivery!Next]_(Delivery!vars)
  <2>1. pc[r] = "idle" /\ r \in Handlers /\ row' = row /\ handled' = handled
    BY <1>4 DEF Post
  <2>2. CASE e \in unrecorded
    BY <1>1, <1>2, <1>4, <2>1, <2>2 DEF Post, TypeOK
  <2>3. CASE e \notin unrecorded /\ Claimable(e)
    <3>1. pc' = [pc EXCEPT ![r] = "work"] /\ ev' = [ev EXCEPT ![r] = e]
      BY <1>4, <2>3 DEF Post
    <3>2. pc'[r] = "work" /\ ev'[r] = e /\ \A g \in Handlers : g # r => pc'[g] = pc[g] /\ ev'[g] = ev[g]
      BY <1>1, <2>1, <3>1 DEF TypeOK
    <3> QED
      BY <1>1, <2>1, <2>3, <3>2, ClaimTakes
  <2>4. CASE e \notin unrecorded /\ ~Claimable(e)
    BY <1>2, <1>4, <2>1, <2>4 DEF Post
  <2> QED
    BY <2>2, <2>3, <2>4
<1>5. ASSUME NEW h \in Handlers, BestEffort(h) PROVE UNCHANGED Delivery!vars
  <2>1. pc[h] = "besteffort" /\ ev[h] \in unrecorded /\ row' = row
    BY <1>5 DEF BestEffort, BaseInv, UnrecordedApart
  <2>2. DeliveryTimes' = DeliveryTimes
    <3>1. row[ev[h]] = "none" /\ ev[h] \in Events
      BY <1>1, <2>1 DEF BaseInv, UnrecordedApart, TypeOK
    <3>2. \A e \in Events : e # ev[h] => handled'[e] = handled[e]
      BY <1>1, <1>5 DEF BestEffort, Count, TypeOK
    <3> QED
      BY <2>1, <3>1, <3>2 DEF DeliveryTimes
  <2>3. DeliveryWorkers' = DeliveryWorkers
    BY <1>1, <1>5, <2>1, SameWorkers DEF BestEffort, Release, TypeOK
  <2> QED
    BY <2>1, <2>2, <2>3, SameStatus DEF Delivery!vars
<1>6. ASSUME NEW h \in Handlers, Process(h) PROVE Delivery!Next
  <2>1. /\ pc[h] \in Claimed /\ pc' = [pc EXCEPT ![h] = "complete"] /\ ev' = ev /\ row' = row
        /\ handled' = [handled EXCEPT ![ev[h]] = IF @ < 2 THEN @ + 1 ELSE @]
    BY <1>6 DEF Process, Count
  <2>2. ev[h] \in Events /\ row[ev[h]] = "pending" /\ h \in DeliveryWorkers[ev[h]]
    BY <1>1, <2>1, WorkerAlone
  <2>3. DeliveryWorkers' = DeliveryWorkers
    BY <1>1, <2>1, SameWorkers DEF TypeOK
  <2>4. \A e \in Events : handled'[e] = IF e = ev[h] THEN (IF handled[e] < 2 THEN handled[e] + 1 ELSE handled[e]) ELSE handled[e]
    BY <1>1, <2>1 DEF TypeOK
  <2>5. DeliveryTimes' = [DeliveryTimes EXCEPT ![ev[h]] = IF @ < 2 THEN @ + 1 ELSE @]
    BY <2>1, <2>2, <2>4 DEF DeliveryTimes
  <2>6. Delivery!Handle(ev[h], h)
    BY <2>1, <2>2, <2>3, <2>5, SameStatus DEF Delivery!Handle
  <2> QED
    BY <2>2, <2>6 DEF Delivery!Next
<1>7. ASSUME NEW h \in Handlers, completeOutboxEvent(h) PROVE Delivery!Next
  <2>1. pc[h] = "complete" /\ handled' = handled
    BY <1>7 DEF completeOutboxEvent
  <2>2. ev[h] \in Events /\ row[ev[h]] = "pending" /\ DeliveryWorkers[ev[h]] = {h} /\ handled[ev[h]] > 0
    BY <1>1, <2>1, WorkerAlone DEF BaseInv, CompletedWasHandled
  <2>3. \A e \in Events : row'[e] = IF e = ev[h] THEN "delivered" ELSE row[e]
    BY <1>1, <1>7, <2>2 DEF completeOutboxEvent, TypeOK
  <2>4. pc'[h] \notin Claimed /\ \A g \in Handlers : g # h => pc'[g] = pc[g] /\ ev'[g] = ev[g]
    BY <1>1, <1>7 DEF completeOutboxEvent, Release, TypeOK
  <2>5. DeliveryWorkers' = [DeliveryWorkers EXCEPT ![ev[h]] = {}]
    BY <1>1, <2>1, <2>4, LetGo
  <2>6. DeliveryStatus' = [DeliveryStatus EXCEPT ![ev[h]] = "delivered"]
    BY <2>3 DEF DeliveryStatus
  <2>7. DeliveryTimes' = DeliveryTimes /\ DeliveryTimes[ev[h]] > 0
    BY <2>1, <2>2, <2>3 DEF DeliveryTimes
  <2>8. Delivery!Deliver(ev[h], h)
    BY <2>2, <2>5, <2>6, <2>7 DEF Delivery!Deliver
  <2> QED
    BY <2>2, <2>8 DEF Delivery!Next
<1>8. ASSUME NEW h \in Handlers, failOutboxEvent(h) \/ FailThrows(h) PROVE Delivery!Next
  <2>1. pc[h] = "fail" /\ row' = row /\ handled' = handled
    BY <1>8 DEF failOutboxEvent, FailThrows
  <2>2. pc'[h] \notin Claimed /\ \A g \in Handlers : g # h => pc'[g] = pc[g] /\ ev'[g] = ev[g]
    BY <1>1, <1>8 DEF failOutboxEvent, FailThrows, Release, TypeOK
  <2> QED
    BY <1>1, <2>1, <2>2, LettingGoGivesBack
<1>9. ASSUME NEW h \in Handlers, Crash(h) PROVE [Delivery!Next]_(Delivery!vars)
  <2>1. /\ row' = row /\ handled' = handled /\ pc'[h] \notin Claimed
        /\ \A g \in Handlers : g # h => pc'[g] = pc[g] /\ ev'[g] = ev[g]
    BY <1>1, <1>9 DEF Crash, TypeOK
  <2>2. CASE pc[h] \in Claimed
    BY <1>1, <2>1, <2>2, LettingGoGivesBack
  <2>3. CASE pc[h] \notin Claimed
    BY <1>2, <2>1, <2>3
  <2> QED
    BY <2>2, <2>3
<1>10. ASSUME NEW h \in Handlers, ProcessThrows(h) \/ CompleteThrows(h) PROVE UNCHANGED Delivery!vars
  BY <1>1, <1>2, <1>10 DEF ProcessThrows, CompleteThrows, TypeOK
<1>11. ASSUME NEW d \in Drains, DrainSelect(d) PROVE UNCHANGED Delivery!vars
  BY <1>1, <1>2, <1>11 DEF DrainSelect, TypeOK
<1>12. ASSUME NEW d \in Drains, DrainClaim(d) PROVE [Delivery!Next]_(Delivery!vars)
  <2>1. pc[d] = "drain" /\ d \in Handlers /\ row' = row /\ handled' = handled
    BY <1>12 DEF DrainClaim
  <2>2. PICK e \in batch[d] :
           IF Claimable(e)
           THEN pc' = [pc EXCEPT ![d] = "work"] /\ ev' = [ev EXCEPT ![d] = e]
           ELSE UNCHANGED <<pc, ev>>
    BY <1>12 DEF DrainClaim
  <2>3. CASE Claimable(e)
    <3>1. e \in Events
      BY <1>1, <2>1 DEF TypeOK
    <3>2. pc'[d] = "work" /\ ev'[d] = e /\ \A g \in Handlers : g # d => pc'[g] = pc[g] /\ ev'[g] = ev[g]
      BY <1>1, <2>1, <2>2, <2>3 DEF TypeOK
    <3> QED
      BY <1>1, <2>1, <2>3, <3>1, <3>2, ClaimTakes
  <2>4. CASE ~Claimable(e)
    BY <1>2, <2>1, <2>2, <2>4
  <2> QED
    BY <2>3, <2>4
<1>13. ASSUME NEW d \in Drains, DrainEnd(d) PROVE Delivery!Next
  <2>1. PICK old \in SUBSET {e \in Events : row[e] = "delivered"} :
           row' = [e \in Events |-> IF e \in old THEN "swept" ELSE row[e]]
    BY <1>13 DEF DrainEnd
  <2>2. pc[d] = "drain" /\ pc' = [pc EXCEPT ![d] = "idle"] /\ ev' = ev /\ handled' = handled
    BY <1>13 DEF DrainEnd
  <2>3. DeliveryWorkers' = DeliveryWorkers
    BY <1>1, <2>2, SameWorkers DEF TypeOK
  <2>4. DeliveryTimes' = DeliveryTimes
    BY <2>1, <2>2 DEF DeliveryTimes
  <2>5. DeliveryStatus' = [e \in Events |-> IF e \in old THEN "forgotten" ELSE DeliveryStatus[e]]
    BY <2>1 DEF DeliveryStatus
  <2>6. old \in SUBSET Events /\ \A e \in old : DeliveryStatus[e] = "delivered"
    BY <1>1, <2>1, DeliverySeen
  <2>7. Delivery!Forget(old)
    BY <2>3, <2>4, <2>5, <2>6 DEF Delivery!Forget
  <2> QED
    BY <2>6, <2>7 DEF Delivery!Next
<1>14. ASSUME NEW e \in Events, EmitUnrecorded(e) \/ PostFails(e) \/ ClaimExpires(e) \/ BackoffEnds(e)
       PROVE  UNCHANGED Delivery!vars
  BY <1>2, <1>14 DEF EmitUnrecorded, PostFails, ClaimExpires, BackoffEnds
<1>15. CASE RegistrydRestarts \/ UNCHANGED vars
  BY <1>2, <1>15 DEF RegistrydRestarts, vars
<1> QED
  BY <1>3, <1>4, <1>5, <1>6, <1>7, <1>8, <1>9, <1>10, <1>11, <1>12, <1>13, <1>14, <1>15 DEF Next, HandlerStep, DrainStep

\* The detailed specification implements the abstract one: unless a handler
\* outlives its claim, what the outbox does with an event, retried, drained
\* and swept by any number of processes that crash and fail to write, is to
\* let one worker at a time have it until it was handled and delivered.
THEOREM OutboxDelivers == ASSUME "slow" \notin Faults PROVE Spec => ImplementsDelivery
<1>1. Init => UnhandledBefore
  BY DEF Init, UnhandledBefore
<1>2. BaseInv /\ ClaimInv /\ UnhandledBefore /\ [Next]_vars => UnhandledBefore'
  BY UnhandledStep
<1>3. BaseInv /\ ClaimInv /\ UnhandledBefore /\ BaseInv' /\ ClaimInv' /\ [Next]_vars => [Delivery!Next]_(Delivery!vars)
  BY DeliveryStep
<1> QED
  BY <1>1, <1>2, <1>3, DeliveryInitially, BaseInvariance, ClaimInvariance, PTL DEF Spec, ImplementsDelivery, Delivery!Spec
=============================================================================
