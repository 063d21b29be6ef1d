-------------------------- MODULE BackgroundProofs -------------------------
(***************************************************************************)
(* What runs in the background, for any number of replicas, jobs, hooks,   *)
(* occurrences and people: what the scheduler's advisory lock gives, and   *)
(* what the bounded log of a webhook keeps.                                *)
(***************************************************************************)
EXTENDS Scheduler, Webhooks, FiniteSetTheorems, SequenceTheorems, TLAPS

-----------------------------------------------------------------------------
(* The scheduler. *)

USE DEF procVars, lockVars

\* Every initial state is type correct.
LEMMA InitType == Init => TypeOK
<1> SUFFICES ASSUME Init PROVE TypeOK
  OBVIOUS
<1> USE DEF Init
<1>1. waiting \in BOOLEAN
  OBVIOUS
<1>2. faults \in 0 .. MaxFaults
  BY ConstantsAssumption
<1>3. /\ pc \in [Procs -> {"idle"}]
      /\ job \in [Procs -> {None}]
      /\ todo \in [Replicas -> SUBSET Jobs]
  OBVIOUS
<1> HIDE DEF Init
<1>4. lock = None /\ believes = {} /\ cut = {} /\ due = {} /\ open = {} /\ old = {}
  BY DEF Init
<1> QED
  BY <1>1, <1>2, <1>3, <1>4 DEF TypeOK

\* Rows stay rows when their owner goes, and what is old stays among them.
LEMMA DisownedRows ==
    ASSUME NEW p, NEW rows \in SUBSET (Jobs \X (Procs \cup {Orphan})), NEW aged \in SUBSET rows
    PROVE  /\ Disowned(rows, p) \in SUBSET (Jobs \X (Procs \cup {Orphan}))
           /\ Disowned(aged, p) \in SUBSET Disowned(rows, p)
BY DEF Disowned

\* Every step preserves type correctness.
LEMMA TypeStep == TypeOK /\ [Next]_vars => TypeOK'
<1> SUFFICES ASSUME TypeOK, [Next]_vars PROVE TypeOK'
  OBVIOUS
<1> USE ConstantsAssumption DEF TypeOK, Procs
<1>1. CASE UNCHANGED vars
  BY <1>1 DEF vars
<1>2. ASSUME NEW r \in Replicas, AcquireLock(r) PROVE TypeOK'
  BY <1>2 DEF AcquireLock, Goto
<1>3. ASSUME NEW r \in Replicas, Drain(r) PROVE TypeOK'
  BY <1>3 DEF Drain, Goto
<1>4. ASSUME NEW r \in Replicas, FailStuckRuns(r) PROVE TypeOK'
  BY <1>4 DEF FailStuckRuns, Goto
<1>5. ASSUME NEW r \in Replicas, SelectDue(r) PROVE TypeOK'
  BY <1>5 DEF SelectDue
<1>6. ASSUME NEW r \in Replicas, CheckRunning(r) PROVE TypeOK'
  BY <1>6 DEF CheckRunning
<1>7. ASSUME NEW r \in Replicas, AdvanceSchedule(r) PROVE TypeOK'
  BY <1>7 DEF AdvanceSchedule, Goto
<1>8. ASSUME NEW r \in Replicas, RecordStatus(r) PROVE TypeOK'
  BY <1>8 DEF RecordStatus
<1>9. ASSUME NEW r \in Replicas, TickEnds(r) PROVE TypeOK'
  BY <1>9 DEF TickEnds, Goto
<1>10. ASSUME NEW r \in Replicas, Restart(r) PROVE TypeOK'
  BY <1>10 DEF Restart, Goto
<1>11. ASSUME NEW r \in Replicas, LockConnectionLost(r) PROVE TypeOK'
  BY <1>11 DEF LockConnectionLost, Fault
<1>12. ASSUME NEW r \in Replicas, TickFails(r) PROVE TypeOK'
  BY <1>12 DEF TickFails, Fault, Goto
<1>13. ASSUME NEW r \in Replicas, ScheduleFails(r) PROVE TypeOK'
  BY <1>13 DEF ScheduleFails, Fault
<1>14. ASSUME NEW p \in Procs, InsertRun(p) PROVE TypeOK'
  BY <1>14 DEF InsertRun
<1>15. ASSUME NEW p \in Procs, RunEnds(p) PROVE TypeOK'
  BY <1>15 DEF RunEnds
<1>16. ASSUME NEW p \in Procs, CloseFails(p) PROVE TypeOK'
  BY <1>16, DisownedRows DEF CloseFails, Fault
<1>17. ASSUME NEW p \in Procs, Crash(p) PROVE TypeOK'
  BY <1>17, DisownedRows DEF Crash, Fault
<1>18. ASSUME NEW q \in Manual, NEW j \in Jobs, RunByHand(q, j) PROVE TypeOK'
  BY <1>18 DEF RunByHand, Fault
<1>19. ASSUME NEW x \in open, GrowsOld(x) PROVE TypeOK'
  BY <1>19 DEF GrowsOld
<1>20. ASSUME NEW j \in Jobs, CronSlot(j) PROVE TypeOK'
  BY <1>20 DEF CronSlot
<1>21. CASE EventArrives
  BY <1>21 DEF EventArrives
<1> QED
  BY <1>1, <1>2, <1>3, <1>4, <1>5, <1>6, <1>7, <1>8, <1>9, <1>10, <1>11, <1>12, <1>13,
     <1>14, <1>15, <1>16, <1>17, <1>18, <1>19, <1>20, <1>21 DEF Next, TickStep

\* The state of the scheduler is well typed in every reachable state, and a
\* run under way has a job; lost locks and failing statements included.
THEOREM TypeCorrect == Spec => []TypeOK
<1> QED
  BY InitType, TypeStep, PTL DEF Spec

-----------------------------------------------------------------------------
\* A replica in the middle of a tick holds the lock in Postgres, or has lost
\* its connection.
TicksHoldLock ==
    \A r \in Replicas : pc[r] \notin {"idle", "down"} => lock = r \/ r \in cut

\* Every step preserves it: the lock is only given to a replica when nobody
\* has it, and only a replica that dies, and whose tick dies with it, or one
\* that is cut off gives it up.
LEMMA LockStep ==
    ASSUME TypeOK, TicksHoldLock, [Next]_vars
    PROVE  TicksHoldLock'
<1> USE ConstantsAssumption DEF TypeOK, Procs, TicksHoldLock
<1>1. CASE UNCHANGED vars
  BY <1>1 DEF vars
<1>2. ASSUME NEW r \in Replicas, AcquireLock(r) PROVE TicksHoldLock'
  BY <1>2 DEF AcquireLock, Goto
<1>3. ASSUME NEW r \in Replicas, TickStep(r), ~AcquireLock(r) PROVE TicksHoldLock'
  BY <1>3 DEF TickStep, Drain, FailStuckRuns, SelectDue, CheckRunning, AdvanceSchedule,
              RecordStatus, TickEnds, Goto
<1>4. ASSUME NEW r \in Replicas, Restart(r) \/ TickFails(r) \/ ScheduleFails(r)
      PROVE  TicksHoldLock'
  BY <1>4 DEF Restart, TickFails, ScheduleFails, Goto
<1>5. ASSUME NEW r \in Replicas, LockConnectionLost(r) PROVE TicksHoldLock'
  BY <1>5 DEF LockConnectionLost
<1>6. ASSUME NEW p \in Procs, InsertRun(p) \/ RunEnds(p) \/ CloseFails(p)
      PROVE  TicksHoldLock'
  BY <1>6 DEF InsertRun, RunEnds, CloseFails
<1>7. ASSUME NEW p \in Procs, Crash(p) PROVE TicksHoldLock'
  BY <1>7 DEF Crash
<1>8. ASSUME NEW q \in Manual, NEW j \in Jobs, RunByHand(q, j) PROVE TicksHoldLock'
  BY <1>8 DEF RunByHand
<1>9. ASSUME NEW x \in open, GrowsOld(x) PROVE TicksHoldLock'
  BY <1>9 DEF GrowsOld
<1>10. ASSUME NEW j \in Jobs, CronSlot(j) PROVE TicksHoldLock'
  BY <1>10 DEF CronSlot
<1>11. CASE EventArrives
  BY <1>11 DEF EventArrives
<1> QED
  BY <1>1, <1>2, <1>3, <1>4, <1>5, <1>6, <1>7, <1>8, <1>9, <1>10, <1>11 DEF Next

\* Replicas that come and go and runs that outlive six hours never make two
\* replicas run scheduled jobs at once, but for one that has lost its lock
\* connection and has not noticed (acquireLock asks only at the start of a
\* tick).
THEOREM LockExcludes == Spec => []OneScheduledRun
<1>1. Init => TicksHoldLock
  BY DEF Init, TicksHoldLock, Procs
<1>2. TypeOK /\ TicksHoldLock /\ [Next]_vars => TicksHoldLock'
  BY LockStep
<1>3. TicksHoldLock => OneScheduledRun
  BY DEF TicksHoldLock, OneScheduledRun
<1> QED
  BY <1>1, <1>2, <1>3, TypeCorrect, PTL DEF Spec

-----------------------------------------------------------------------------
(* Webhooks. *)

\* The deliveries to a hook that have logged and not pruned yet.
Pruning(h) == {o \in Occurrences : sending[<<o, h>>].at = "prune"}

\* Nothing is sent before the fan-out, which comes once.
SentOnce == \A o \in Occurrences : occurred[o].at # "out" => \A h \in Hooks : sending[<<o, h>>] = Idle

\* A log exceeds its bound by at most what is still to prune it.
LogsBounded ==
    \A h \in Hooks : IsFiniteSet(Pruning(h)) /\ Len(hookLog[h]) <= MaxLog + Cardinality(Pruning(h))

\* What makes LogKeepsNewest inductive.
HooksInv == HooksTypeOK /\ SentOnce /\ LogsBounded

LogEntries == Occurrences \X BOOLEAN

\* What the types say of a row, a delivery and a log.
LEMMA HookFields ==
    ASSUME HooksTypeOK, NEW h \in Hooks, NEW o \in Occurrences
    PROVE  /\ hookRow[h] \in HookRows /\ saving[h].row \in HookRows /\ saving[h].update \in BOOLEAN
           /\ sending[<<o, h>>] \in Deliveries /\ hookLog[h] \in Seq(LogEntries)
           /\ hookLog \in [Hooks -> Seq(LogEntries)] /\ sending \in [Occurrences \X Hooks -> Deliveries]
           /\ MaxLog \in Nat /\ MaxLog > 0 /\ MaxTries \in Nat /\ MaxTries > 0
BY HooksAssumption DEF HooksTypeOK, LogEntries

\* A row that the API may write.
LEMMA RowTyped ==
    ASSUME NEW scope \in Scopes, NEW s, s \cap eventsForScope(scope) # {}, NEW on \in BOOLEAN
    PROVE  [scope |-> scope, topics |-> s \cap eventsForScope(scope), enabled |-> on] \in HookRows
BY DEF HookRows, eventsForScope, Topics

\* What is kept of a log, and how long it gets.
RowsStay(s, t) ==
    \E k \in 0..Len(s) : (k > 0 => Len(t) >= MaxLog) /\ IsPrefix(SubSeq(s, k + 1, Len(s)), t)

LEMMA RowsStayWhenNoneGo ==
    ASSUME NEW s, NEW t, Len(s) \in Nat, SubSeq(s, 0 + 1, Len(s)) = s, IsPrefix(s, t)
    PROVE  RowsStay(s, t)
<1>1. 0 \in 0..Len(s) /\ ~(0 > 0)
  OBVIOUS
<1>2. IsPrefix(SubSeq(s, 0 + 1, Len(s)), t)
  BY Zenon
<1>3. \E k \in 0..Len(s) : (k > 0 => Len(t) >= MaxLog) /\ IsPrefix(SubSeq(s, k + 1, Len(s)), t)
  <2> WITNESS 0 \in 0..Len(s)
  <2> QED
    BY <1>1, <1>2
<1> QED
  BY <1>3, Zenon DEF RowsStay

LEMMA UnchangedRowsStay ==
    ASSUME NEW S, NEW s \in Seq(S)
    PROVE  RowsStay(s, s)
<1>1. Len(s) \in Nat /\ SubSeq(s, 0 + 1, Len(s)) = s
  BY SubSeqFull
<1>2. IsPrefix(s, s)
  BY <1>1 DEF IsPrefix
<1> QED
  BY <1>1, <1>2, RowsStayWhenNoneGo

LEMMA AppendedRowsStay ==
    ASSUME NEW S, NEW s \in Seq(S), NEW x \in S
    PROVE  RowsStay(s, Append(s, x)) /\ Append(s, x) \in Seq(S) /\ Len(Append(s, x)) = Len(s) + 1
<1> DEFINE t == Append(s, x)
<1>1. Len(s) \in Nat /\ SubSeq(s, 0 + 1, Len(s)) = s /\ SubSeq(s, 1, Len(s)) = s
  BY SubSeqFull
<1>2. t \in Seq(S) /\ Len(t) = Len(s) + 1 /\ \A i \in 1..Len(s) : t[i] = s[i]
  BY AppendProperties
<1>3. SubSeq(t, 1, Len(s)) = s
  <2>1. t = s \o <<x>> /\ <<x>> \in Seq(S)
    BY AppendIsConcat
  <2> QED
    BY <1>1, <1>2, <2>1
<1>4. IsPrefix(s, t)
  BY <1>1, <1>2, <1>3 DEF IsPrefix
<1> QED
  BY <1>1, <1>2, <1>4, RowsStayWhenNoneGo

LEMMA NewestRowsStay ==
    ASSUME NEW S, NEW s \in Seq(S), MaxLog \in Nat
    PROVE  RowsStay(s, Newest(s)) /\ Newest(s) \in Seq(S) /\ Len(Newest(s)) <= MaxLog
<1> DEFINE k == IF Len(s) > MaxLog THEN Len(s) - MaxLog ELSE 0
           t == SubSeq(s, k + 1, Len(s))
<1>1. Len(s) \in Nat /\ k \in 0..Len(s) /\ k \in Nat
  OBVIOUS
<1>2. Newest(s) = t
  BY <1>1 DEF Newest
<1>3. t \in Seq(S) /\ Len(t) = Len(s) - k
  <2> HIDE DEF k
  <2>1. \A i \in k + 1..Len(s) : s[i] \in S
    BY <1>1
  <2>2. SubSeq(s, k + 1, Len(s)) \in Seq(S) /\ Len(SubSeq(s, k + 1, Len(s))) = IF k + 1 <= Len(s) THEN Len(s) - (k + 1) + 1 ELSE 0
    BY <1>1, <2>1, SubSeqProperties
  <2> QED
    BY <1>1, <2>2
<1>4. Len(t) <= MaxLog /\ (k > 0 => Len(t) >= MaxLog)
  BY <1>1, <1>3
<1> HIDE DEF t
<1>5. IsPrefix(t, t)
  BY <1>3 DEF IsPrefix
<1> HIDE DEF k
<1> QED
  BY <1>1, <1>2, <1>3, <1>4, <1>5 DEF RowsStay, t

\* Steps that write no log and neither begin nor end a pruning.
LEMMA LogsRest ==
    ASSUME HooksInv, hookLog' = hookLog, \A h \in Hooks : Pruning(h)' = Pruning(h)
    PROVE  LogsBounded' /\ \A h \in Hooks : RowsStay(hookLog[h], hookLog'[h])
<1>1. LogsBounded'
  BY DEF HooksInv, LogsBounded
<1>2. ASSUME NEW h \in Hooks PROVE RowsStay(hookLog[h], hookLog'[h])
  <2>1. hookLog[h] \in Seq(LogEntries)
    BY DEF HooksInv, HooksTypeOK, LogEntries
  <2> QED
    BY <2>1, UnchangedRowsStay
<1> QED
  BY <1>1, <1>2

RowsOfHooksStay == \A h \in Hooks : There(h) /\ There(h)' => RowsStay(hookLog[h], hookLog'[h])

\* Settings.
LEMMA SettingsKeep ==
    ASSUME HooksInv,
           \/ \E h \in Hooks : validate(h) \/ webhookHandlers(h) \/ saveWebhook(h) \/ toggleWebhook(h)
           \/ \E p \in People : saveNotificationPreferences(p)
    PROVE  HooksInv' /\ RowsOfHooksStay
<1>1. UNCHANGED <<occurred, sending, hookLog, mailed, told>>
  BY DEF validate, webhookHandlers, saveWebhook, toggleWebhook, saveNotificationPreferences
<1>2. HooksTypeOK
  BY DEF HooksInv
<1>3. HooksTypeOK'
  <2>1. ASSUME NEW h \in Hooks, validate(h) PROVE saving' \in [Hooks -> [row : HookRows, update : BOOLEAN]]
    <3>1. PICK scope \in Scopes, s \in Subscriptions :
            /\ There(h) => scope = hookRow[h].scope
            /\ s \cap eventsForScope(scope) # {}
            /\ saving' = [saving EXCEPT ![h] =
                  [row |-> [scope |-> scope, topics |-> s \cap eventsForScope(scope),
                            enabled |-> There(h) => hookRow[h].enabled],
                   update |-> There(h)]]
      BY <2>1 DEF validate
    <3>2. (There(h) => hookRow[h].enabled) \in BOOLEAN /\ There(h) \in BOOLEAN
      BY DEF There
    <3>3. [scope |-> scope, topics |-> s \cap eventsForScope(scope), enabled |-> There(h) => hookRow[h].enabled] \in HookRows
      BY <3>1, <3>2, RowTyped
    <3>4. saving \in [Hooks -> [row : HookRows, update : BOOLEAN]]
      BY <1>2 DEF HooksTypeOK
    <3> QED
      BY <3>1, <3>2, <3>3, <3>4
  <2>2. ASSUME NEW h \in Hooks, webhookHandlers(h)
        PROVE  hookRow' \in [Hooks -> HookRows] /\ saving' \in [Hooks -> [row : HookRows, update : BOOLEAN]]
    <3>1. saving[h].row \in HookRows /\ Gone \in HookRows
      BY <1>2 DEF HooksTypeOK, HookRows
    <3> QED
      BY <1>2, <2>2, <3>1 DEF HooksTypeOK, webhookHandlers
  <2>3. ASSUME NEW h \in Hooks, saveWebhook(h) PROVE hookRow' \in [Hooks -> HookRows]
    <3>1. PICK s \in Subscriptions :
             /\ s \cap eventsForScope(hookRow[h].scope) # {}
             /\ hookRow' = [hookRow EXCEPT ![h].topics = s \cap eventsForScope(hookRow[h].scope)]
      BY <2>3 DEF saveWebhook
    <3>2. /\ hookRow[h].scope \in Scopes /\ hookRow[h].enabled \in BOOLEAN
          /\ hookRow[h] = [scope |-> hookRow[h].scope, enabled |-> hookRow[h].enabled, topics |-> hookRow[h].topics]
      BY <1>2, <2>3 DEF saveWebhook, There, HooksTypeOK, HookRows
    <3> DEFINE new == [scope |-> hookRow[h].scope, topics |-> s \cap eventsForScope(hookRow[h].scope), enabled |-> hookRow[h].enabled]
    <3>3. new \in HookRows
      BY <3>1, <3>2, RowTyped
    <3>4. [hookRow[h] EXCEPT !.topics = s \cap eventsForScope(hookRow[h].scope)] = new
      BY <3>2
    <3>5. hookRow' = [hookRow EXCEPT ![h] = new]
      BY <3>1, <3>4
    <3> HIDE DEF new
    <3> QED
      BY <1>2, <3>3, <3>5 DEF HooksTypeOK
  <2>4. ASSUME NEW h \in Hooks, toggleWebhook(h) PROVE hookRow' \in [Hooks -> HookRows]
    <3>1. /\ hookRow[h].scope \in Scopes /\ hookRow[h].enabled \in BOOLEAN
          /\ hookRow[h].topics \in SUBSET Topics /\ hookRow[h].topics # {}
          /\ hookRow[h].topics \subseteq eventsForScope(hookRow[h].scope)
          /\ hookRow[h] = [scope |-> hookRow[h].scope, enabled |-> hookRow[h].enabled, topics |-> hookRow[h].topics]
      BY <1>2, <2>4 DEF toggleWebhook, There, HooksTypeOK, HookRows
    <3> DEFINE new == [scope |-> hookRow[h].scope, enabled |-> ~hookRow[h].enabled, topics |-> hookRow[h].topics]
    <3>2. new \in HookRows
      BY <3>1 DEF HookRows
    <3>3. [hookRow[h] EXCEPT !.enabled = ~@] = new
      BY <3>1
    <3>4. hookRow' = [hookRow EXCEPT ![h] = new]
      BY <2>4, <3>3 DEF toggleWebhook
    <3> HIDE DEF new
    <3> QED
      BY <1>2, <3>2, <3>4 DEF HooksTypeOK
  <2>5. ASSUME NEW p \in People, saveNotificationPreferences(p) PROVE wants' \in [People -> {"on", "off", "default"}]
    BY <1>2, <2>5 DEF saveNotificationPreferences, HooksTypeOK
  <2>6. ASSUME NEW h \in Hooks, validate(h) PROVE UNCHANGED <<hookRow, wants>>
    BY <2>6 DEF validate
  <2>7. ASSUME NEW h \in Hooks, webhookHandlers(h) PROVE wants' = wants
    BY <2>7 DEF webhookHandlers
  <2>8. ASSUME NEW h \in Hooks, saveWebhook(h) \/ toggleWebhook(h) PROVE UNCHANGED <<saving, wants>>
    BY <2>8 DEF saveWebhook, toggleWebhook
  <2>9. ASSUME NEW p \in People, saveNotificationPreferences(p) PROVE UNCHANGED <<hookRow, saving>>
    BY <2>9 DEF saveNotificationPreferences
  <2>10. /\ hookRow' \in [Hooks -> HookRows] /\ saving' \in [Hooks -> [row : HookRows, update : BOOLEAN]]
         /\ wants' \in [People -> {"on", "off", "default"}]
    <3>1. /\ hookRow \in [Hooks -> HookRows] /\ saving \in [Hooks -> [row : HookRows, update : BOOLEAN]]
          /\ wants \in [People -> {"on", "off", "default"}]
      BY <1>2 DEF HooksTypeOK
    <3> QED
      BY <2>1, <2>2, <2>3, <2>4, <2>5, <2>6, <2>7, <2>8, <2>9, <3>1
  <2> QED
    BY <1>1, <1>2, <2>10 DEF HooksTypeOK
<1>4. SentOnce'
  BY <1>1 DEF HooksInv, SentOnce
<1>5. \A h \in Hooks : Pruning(h)' = Pruning(h)
  BY <1>1 DEF Pruning
<1>6. LogsBounded' /\ \A h \in Hooks : RowsStay(hookLog[h], hookLog'[h])
  BY <1>1, <1>5, LogsRest
<1> QED
  BY <1>3, <1>4, <1>6 DEF HooksInv, RowsOfHooksStay

\* A hook goes, and its log with it.
LEMMA DeletingKeeps ==
    ASSUME HooksInv, NEW h \in Hooks, deleteWebhook(h)
    PROVE  HooksInv' /\ RowsOfHooksStay
<1>1. /\ hookRow' = [hookRow EXCEPT ![h] = Gone] /\ hookLog' = [hookLog EXCEPT ![h] = <<>>]
      /\ UNCHANGED <<saving, wants, occurred, sending, mailed, told>>
  BY DEF deleteWebhook
<1>2. HooksTypeOK
  BY DEF HooksInv
<1>3. HooksTypeOK'
  <2>1. Gone \in HookRows
    BY DEF HookRows
  <2> QED
    BY <1>1, <1>2, <2>1 DEF HooksTypeOK
<1>4. SentOnce'
  BY <1>1 DEF HooksInv, SentOnce
<1>5. \A g \in Hooks : Pruning(g)' = Pruning(g)
  BY <1>1 DEF Pruning
<1>6. hookLog'[h] = <<>> /\ \A g \in Hooks : g # h => hookLog'[g] = hookLog[g]
  BY <1>1, <1>2 DEF HooksTypeOK
<1>7. LogsBounded'
  <2> SUFFICES ASSUME NEW g \in Hooks
               PROVE  IsFiniteSet(Pruning(g)') /\ Len(hookLog'[g]) <= MaxLog + Cardinality(Pruning(g)')
    BY DEF LogsBounded
  <2>1. IsFiniteSet(Pruning(g)) /\ Len(hookLog[g]) <= MaxLog + Cardinality(Pruning(g)) /\ Cardinality(Pruning(g)) \in Nat
    BY FS_CardinalityType DEF HooksInv, LogsBounded
  <2> QED
    BY <1>5, <1>6, <2>1, HooksAssumption
<1>8. RowsOfHooksStay
  <2> SUFFICES ASSUME NEW g \in Hooks, There(g)' PROVE RowsStay(hookLog[g], hookLog'[g])
    BY DEF RowsOfHooksStay
  <2>1. g # h
    BY <1>1, <1>2 DEF There, HooksTypeOK
  <2>2. hookLog[g] \in Seq(LogEntries)
    BY <1>2 DEF HooksTypeOK, LogEntries
  <2> QED
    BY <1>6, <2>1, <2>2, UnchangedRowsStay
<1> QED
  BY <1>3, <1>4, <1>7, <1>8 DEF HooksInv

\* A mail and the fan-out.
LEMMA NotifyKeeps ==
    ASSUME HooksInv, NEW o \in Occurrences, notify(o)
    PROVE  HooksInv' /\ RowsOfHooksStay
<1>1. PICK t \in Topics :
         /\ occurred[o].at = "new"
         /\ occurred' = [occurred EXCEPT ![o] = [topic |-> t, at |-> "mailed"]]
         /\ mailed' = mailed \cup ({o} \X Recipients(t))
         /\ UNCHANGED <<hookRow, saving, wants, sending, hookLog, told>>
  BY DEF notify
<1>2. HooksTypeOK
  BY DEF HooksInv
<1>3. HooksTypeOK'
  <2>1. Recipients(t) \subseteq People
    BY DEF Recipients, People
  <2>2. [topic |-> t, at |-> "mailed"] \in [topic : Topics \cup {"none"}, at : {"new", "mailed", "out"}]
    OBVIOUS
  <2> QED
    BY <1>1, <1>2, <2>1, <2>2 DEF HooksTypeOK
<1>4. SentOnce'
  BY <1>1, <1>2 DEF HooksInv, SentOnce, HooksTypeOK
<1>5. \A h \in Hooks : Pruning(h)' = Pruning(h)
  BY <1>1 DEF Pruning
<1>6. LogsBounded' /\ \A h \in Hooks : RowsStay(hookLog[h], hookLog'[h])
  BY <1>1, <1>5, LogsRest
<1> QED
  BY <1>3, <1>4, <1>6 DEF HooksInv, RowsOfHooksStay

LEMMA FanOutKeeps ==
    ASSUME HooksInv, NEW o \in Occurrences, deliverAll(o)
    PROVE  HooksInv' /\ RowsOfHooksStay
<1>1. PICK to \in Targets(occurred[o].topic) :
         sending' = [x \in DOMAIN sending |->
             IF x[1] = o /\ x[2] \in to THEN [Idle EXCEPT !.at = "try"] ELSE sending[x]]
  BY DEF deliverAll
<1>2. /\ occurred[o].at = "mailed" /\ occurred' = [occurred EXCEPT ![o].at = "out"]
      /\ UNCHANGED <<hookRow, saving, wants, hookLog, mailed, told>>
  BY DEF deliverAll
<1>3. HooksTypeOK
  BY DEF HooksInv
<1>4. [Idle EXCEPT !.at = "try"] \in Deliveries /\ [Idle EXCEPT !.at = "try"].at = "try"
  <2>1. Idle \in Deliveries
    BY HooksAssumption DEF Idle, Deliveries
  <2>2. ASSUME NEW e \in Deliveries PROVE [e EXCEPT !.at = "try"] \in Deliveries /\ [e EXCEPT !.at = "try"].at = "try"
    BY DEF Deliveries
  <2> QED
    BY <2>1, <2>2
<1>5. sending \in [Occurrences \X Hooks -> Deliveries] /\ sending' \in [Occurrences \X Hooks -> Deliveries]
  BY <1>1, <1>3, <1>4 DEF HooksTypeOK
<1>6. \A q \in Occurrences, h \in Hooks :
         sending'[<<q, h>>] = IF q = o /\ h \in to THEN [Idle EXCEPT !.at = "try"] ELSE sending[<<q, h>>]
  BY <1>1, <1>5
<1>7. /\ occurred' \in [Occurrences -> [topic : Topics \cup {"none"}, at : {"new", "mailed", "out"}]]
      /\ occurred'[o].at = "out" /\ \A q \in Occurrences : q # o => occurred'[q] = occurred[q]
  BY <1>2, <1>3 DEF HooksTypeOK
<1>8. HooksTypeOK'
  BY <1>2, <1>3, <1>5, <1>7 DEF HooksTypeOK
<1>9. SentOnce'
  BY <1>6, <1>7 DEF HooksInv, SentOnce
<1>10. \A h \in Hooks : Pruning(h)' = Pruning(h)
  <2>1. \A h \in Hooks : sending[<<o, h>>].at # "prune"
    BY <1>2 DEF HooksInv, SentOnce, Idle
  <2> QED
    BY <1>4, <1>6, <2>1 DEF Pruning
<1>11. LogsBounded' /\ \A h \in Hooks : RowsStay(hookLog[h], hookLog'[h])
  BY <1>2, <1>10, LogsRest
<1> QED
  BY <1>8, <1>9, <1>11 DEF HooksInv, RowsOfHooksStay

\* A step of one delivery, to d; what that does to what is pruning.
LEMMA DeliveryMoves ==
    ASSUME HooksInv, NEW o \in Occurrences, NEW h \in Hooks, NEW d \in Deliveries, sending[<<o, h>>] # Idle,
           sending' = [sending EXCEPT ![<<o, h>>] = d], occurred' = occurred
    PROVE  /\ sending' \in [Occurrences \X Hooks -> Deliveries] /\ SentOnce'
           /\ \A g \in Hooks : g # h => Pruning(g)' = Pruning(g)
           /\ Pruning(h)' = IF d.at = "prune" THEN Pruning(h) \cup {o} ELSE Pruning(h) \ {o}
<1>1. sending \in [Occurrences \X Hooks -> Deliveries]
  BY DEF HooksInv, HooksTypeOK
<1>2. /\ sending' \in [Occurrences \X Hooks -> Deliveries] /\ sending'[<<o, h>>] = d
      /\ \A q \in Occurrences, g \in Hooks : <<q, g>> # <<o, h>> => sending'[<<q, g>>] = sending[<<q, g>>]
  BY <1>1
<1>3. SentOnce'
  BY <1>2 DEF HooksInv, SentOnce
<1>4. ASSUME NEW g \in Hooks, g # h PROVE Pruning(g)' = Pruning(g)
  <2>1. \A q \in Occurrences : sending'[<<q, g>>] = sending[<<q, g>>]
    BY <1>2, <1>4
  <2> QED
    BY <2>1 DEF Pruning
<1>5. Pruning(h)' = IF d.at = "prune" THEN Pruning(h) \cup {o} ELSE Pruning(h) \ {o}
  <2>1. \A q \in Occurrences : q # o => sending'[<<q, h>>] = sending[<<q, h>>]
    BY <1>2
  <2> QED
    BY <1>2, <2>1 DEF Pruning
<1> QED
  BY <1>2, <1>3, <1>4, <1>5

LEMMA AttemptKeeps ==
    ASSUME HooksInv, NEW o \in Occurrences, NEW h \in Hooks, Attempt(o, h) \/ TellFailure(o, h)
    PROVE  HooksInv' /\ RowsOfHooksStay
<1>1. HooksTypeOK /\ sending[<<o, h>>] \in Deliveries
  BY DEF HooksInv, HooksTypeOK
<1>2. PICK d \in Deliveries : sending' = [sending EXCEPT ![<<o, h>>] = d] /\ d.at # "prune" /\ told' \subseteq Occurrences \X Hooks \X People
  <2>1. CASE Attempt(o, h)
    <3>1. PICK a \in Answers :
             sending' = [sending EXCEPT ![<<o, h>>] =
                   IF a = "error" /\ sending[<<o, h>>].tries + 1 < MaxTries THEN [sending[<<o, h>>] EXCEPT !.tries = @ + 1]
                   ELSE [at |-> "log", tries |-> 0, ok |-> a = "2xx"]]
      BY <2>1 DEF Attempt
    <3>2. sending[<<o, h>>].at = "try" /\ told' = told
      BY <2>1 DEF Attempt
    <3>3. CASE a = "error" /\ sending[<<o, h>>].tries + 1 < MaxTries
      <4> DEFINE d == [sending[<<o, h>>] EXCEPT !.tries = @ + 1]
      <4>1. d \in Deliveries /\ d.at = "try"
        BY <1>1, <3>2, <3>3, HooksAssumption DEF Deliveries
      <4>2. sending' = [sending EXCEPT ![<<o, h>>] = d]
        BY <3>1, <3>3
      <4> HIDE DEF d
      <4> QED
        BY <1>1, <3>2, <4>1, <4>2 DEF HooksTypeOK
    <3>4. CASE ~(a = "error" /\ sending[<<o, h>>].tries + 1 < MaxTries)
      <4> DEFINE d == [at |-> "log", tries |-> 0, ok |-> a = "2xx"]
      <4>1. d \in Deliveries /\ d.at = "log"
        BY HooksAssumption DEF Deliveries
      <4>2. sending' = [sending EXCEPT ![<<o, h>>] = d]
        BY <3>1, <3>4
      <4> HIDE DEF d
      <4> QED
        BY <1>1, <3>2, <4>1, <4>2 DEF HooksTypeOK
    <3> QED
      BY <3>3, <3>4
  <2>2. CASE TellFailure(o, h)
    <3> DEFINE d == [sending[<<o, h>>] EXCEPT !.at = "done"]
    <3>1. d \in Deliveries /\ d.at = "done"
      BY <1>1 DEF Deliveries
    <3>2. sending' = [sending EXCEPT ![<<o, h>>] = d]
      BY <2>2 DEF TellFailure
    <3>3. told' \subseteq Occurrences \X Hooks \X People
      <4>1. Recipients("webhook.failed") \subseteq People
        BY DEF Recipients, People
      <4> QED
        BY <1>1, <2>2, <4>1 DEF TellFailure, HooksTypeOK
    <3> HIDE DEF d
    <3> QED
      BY <3>1, <3>2, <3>3
  <2> QED
    BY <2>1, <2>2
<1>3. sending[<<o, h>>] # Idle /\ sending[<<o, h>>].at # "prune" /\ UNCHANGED <<hookRow, saving, wants, occurred, hookLog, mailed>>
  BY DEF Attempt, TellFailure, Idle
<1>4. /\ sending' \in [Occurrences \X Hooks -> Deliveries] /\ SentOnce'
      /\ \A g \in Hooks : g # h => Pruning(g)' = Pruning(g)
      /\ Pruning(h)' = Pruning(h) \ {o}
  BY <1>2, <1>3, DeliveryMoves
<1>5. \A g \in Hooks : Pruning(g)' = Pruning(g)
  BY <1>3, <1>4 DEF Pruning
<1>6. HooksTypeOK'
  BY <1>1, <1>2, <1>3, <1>4 DEF HooksTypeOK
<1>7. LogsBounded' /\ \A g \in Hooks : RowsStay(hookLog[g], hookLog'[g])
  BY <1>3, <1>5, LogsRest
<1> QED
  BY <1>4, <1>6, <1>7 DEF HooksInv, RowsOfHooksStay

\* The other logs stay as they are, and so does what prunes them.
LEMMA OneLogChanges ==
    ASSUME HooksInv, NEW h \in Hooks, NEW new \in Seq(LogEntries), hookLog' = [hookLog EXCEPT ![h] = new],
           \A g \in Hooks : g # h => Pruning(g)' = Pruning(g),
           IsFiniteSet(Pruning(h)'), Len(new) <= MaxLog + Cardinality(Pruning(h)'), RowsStay(hookLog[h], new)
    PROVE  /\ hookLog' \in [Hooks -> Seq(LogEntries)] /\ LogsBounded' /\ RowsOfHooksStay
<1>1. hookLog \in [Hooks -> Seq(LogEntries)]
  BY DEF HooksInv, HooksTypeOK, LogEntries
<1>2. /\ hookLog' \in [Hooks -> Seq(LogEntries)] /\ hookLog'[h] = new
      /\ \A g \in Hooks : g # h => hookLog'[g] = hookLog[g]
  BY <1>1
<1>3. LogsBounded'
  <2> SUFFICES ASSUME NEW g \in Hooks
               PROVE  IsFiniteSet(Pruning(g)') /\ Len(hookLog'[g]) <= MaxLog + Cardinality(Pruning(g)')
    BY DEF LogsBounded
  <2>1. IsFiniteSet(Pruning(g)) /\ Len(hookLog[g]) <= MaxLog + Cardinality(Pruning(g))
    BY DEF HooksInv, LogsBounded
  <2> QED
    BY <1>2, <2>1
<1>4. ASSUME NEW g \in Hooks PROVE RowsStay(hookLog[g], hookLog'[g])
  <2>1. hookLog[g] \in Seq(LogEntries)
    BY <1>1
  <2> QED
    BY <1>2, <2>1, UnchangedRowsStay
<1> QED
  BY <1>2, <1>3, <1>4 DEF RowsOfHooksStay

LEMMA LogKeeps ==
    ASSUME HooksInv, NEW o \in Occurrences, NEW h \in Hooks, Log(o, h)
    PROVE  HooksInv' /\ RowsOfHooksStay
<1>1. HooksTypeOK /\ sending[<<o, h>>] \in Deliveries /\ hookLog[h] \in Seq(LogEntries)
  BY DEF HooksInv, HooksTypeOK, LogEntries
<1>2. /\ sending[<<o, h>>].at = "log" /\ UNCHANGED <<hookRow, saving, wants, occurred, mailed, told>>
      /\ hookLog' = IF There(h) THEN [hookLog EXCEPT ![h] = Append(@, <<o, sending[<<o, h>>].ok>>)] ELSE hookLog
  BY DEF Log
<1> DEFINE d == [sending[<<o, h>>] EXCEPT !.at = IF There(h) THEN "prune" ELSE "done"]
<1>3. sending' = [sending EXCEPT ![<<o, h>>] = d]
  BY DEF Log
<1>4. d \in Deliveries /\ d.at = IF There(h) THEN "prune" ELSE "done"
  BY <1>1 DEF Deliveries
<1> HIDE DEF d
<1>5. sending[<<o, h>>] # Idle
  BY <1>2 DEF Idle
<1>6. /\ sending' \in [Occurrences \X Hooks -> Deliveries] /\ SentOnce'
      /\ \A g \in Hooks : g # h => Pruning(g)' = Pruning(g)
      /\ Pruning(h)' = IF d.at = "prune" THEN Pruning(h) \cup {o} ELSE Pruning(h) \ {o}
  BY <1>2, <1>3, <1>4, <1>5, DeliveryMoves
<1>7. o \notin Pruning(h)
  BY <1>2 DEF Pruning
<1>8. CASE There(h)
  <2> DEFINE new == Append(hookLog[h], <<o, sending[<<o, h>>].ok>>)
  <2>1. <<o, sending[<<o, h>>].ok>> \in LogEntries
    BY <1>1 DEF LogEntries, Deliveries
  <2>2. RowsStay(hookLog[h], new) /\ new \in Seq(LogEntries) /\ Len(new) = Len(hookLog[h]) + 1
    BY <1>1, <2>1, AppendedRowsStay
  <2>3. /\ IsFiniteSet(Pruning(h)) /\ Len(hookLog[h]) <= MaxLog + Cardinality(Pruning(h))
        /\ Cardinality(Pruning(h)) \in Nat /\ Len(hookLog[h]) \in Nat
    BY <1>1, FS_CardinalityType DEF HooksInv, LogsBounded
  <2>4. Pruning(h)' = Pruning(h) \cup {o}
    BY <1>4, <1>6, <1>8
  <2>5. IsFiniteSet(Pruning(h) \cup {o}) /\ Cardinality(Pruning(h) \cup {o}) = Cardinality(Pruning(h)) + 1
    BY <1>7, <2>3, FS_AddElement
  <2>6. hookLog' = [hookLog EXCEPT ![h] = new]
    BY <1>2, <1>8
  <2> HIDE DEF new
  <2>7. Len(new) <= MaxLog + Cardinality(Pruning(h)')
    BY <2>2, <2>3, <2>4, <2>5, HooksAssumption
  <2>8. hookLog' \in [Hooks -> Seq(LogEntries)] /\ LogsBounded' /\ RowsOfHooksStay
    BY <1>6, <2>2, <2>4, <2>5, <2>6, <2>7, OneLogChanges
  <2>9. HooksTypeOK'
    BY <1>1, <1>2, <1>6, <2>8 DEF HooksTypeOK, LogEntries
  <2> QED
    BY <1>6, <2>8, <2>9 DEF HooksInv
<1>9. CASE ~There(h)
  <2>1. \A g \in Hooks : Pruning(g)' = Pruning(g)
    BY <1>4, <1>6, <1>7, <1>9
  <2>2. hookLog' = hookLog
    BY <1>2, <1>9
  <2>3. LogsBounded' /\ \A g \in Hooks : RowsStay(hookLog[g], hookLog'[g])
    BY <2>1, <2>2, LogsRest
  <2>4. HooksTypeOK'
    BY <1>1, <1>2, <1>6, <2>2 DEF HooksTypeOK
  <2> QED
    BY <1>6, <2>3, <2>4 DEF HooksInv, RowsOfHooksStay
<1> QED
  BY <1>8, <1>9

LEMMA PruneKeeps ==
    ASSUME HooksInv, NEW o \in Occurrences, NEW h \in Hooks, Prune(o, h)
    PROVE  HooksInv' /\ RowsOfHooksStay
<1>1. HooksTypeOK /\ sending[<<o, h>>] \in Deliveries /\ hookLog[h] \in Seq(LogEntries)
  BY DEF HooksInv, HooksTypeOK, LogEntries
<1>2. /\ sending[<<o, h>>].at = "prune" /\ UNCHANGED <<hookRow, saving, wants, occurred, mailed, told>>
      /\ hookLog' = [hookLog EXCEPT ![h] = Newest(hookLog[h])]
  BY DEF Prune
<1> DEFINE d == [sending[<<o, h>>] EXCEPT !.at = IF sending[<<o, h>>].ok \/ occurred[o].topic = "test" THEN "done" ELSE "tell"]
<1>3. sending' = [sending EXCEPT ![<<o, h>>] = d]
  BY DEF Prune
<1>4. d \in Deliveries /\ d.at # "prune"
  BY <1>1 DEF Deliveries
<1> HIDE DEF d
<1>5. sending[<<o, h>>] # Idle
  BY <1>2 DEF Idle
<1>6. /\ sending' \in [Occurrences \X Hooks -> Deliveries] /\ SentOnce'
      /\ \A g \in Hooks : g # h => Pruning(g)' = Pruning(g)
      /\ Pruning(h)' = Pruning(h) \ {o}
  BY <1>2, <1>3, <1>4, <1>5, DeliveryMoves
<1>7. RowsStay(hookLog[h], Newest(hookLog[h])) /\ Newest(hookLog[h]) \in Seq(LogEntries) /\ Len(Newest(hookLog[h])) <= MaxLog
  BY <1>1, NewestRowsStay, HooksAssumption
<1>8. IsFiniteSet(Pruning(h)') /\ Cardinality(Pruning(h)') \in Nat
  <2>1. IsFiniteSet(Pruning(h))
    BY DEF HooksInv, LogsBounded
  <2>2. IsFiniteSet(Pruning(h) \ {o})
    BY <2>1, FS_Difference
  <2> QED
    BY <1>6, <2>2, FS_CardinalityType
<1>9. Len(Newest(hookLog[h])) <= MaxLog + Cardinality(Pruning(h)')
  <2>1. Len(Newest(hookLog[h])) \in Nat
    BY <1>7
  <2> QED
    BY <1>7, <1>8, <2>1, HooksAssumption
<1>10. hookLog' \in [Hooks -> Seq(LogEntries)] /\ LogsBounded' /\ RowsOfHooksStay
  BY <1>2, <1>6, <1>7, <1>8, <1>9, OneLogChanges
<1>11. HooksTypeOK'
  BY <1>1, <1>2, <1>6, <1>10 DEF HooksTypeOK, LogEntries
<1> QED
  BY <1>6, <1>10, <1>11 DEF HooksInv

LEMMA HooksInvInit == HooksInit => HooksInv
<1> SUFFICES ASSUME HooksInit PROVE HooksInv
  OBVIOUS
<1>1. Gone \in HookRows /\ Idle \in Deliveries
  BY HooksAssumption DEF HookRows, Idle, Deliveries
<1>2. HooksTypeOK
  BY <1>1 DEF HooksInit, HooksTypeOK
<1>3. SentOnce
  BY DEF HooksInit, SentOnce
<1>4. LogsBounded
  <2> SUFFICES ASSUME NEW h \in Hooks
               PROVE  IsFiniteSet(Pruning(h)) /\ Len(hookLog[h]) <= MaxLog + Cardinality(Pruning(h))
    BY DEF LogsBounded
  <2>1. Pruning(h) = {}
    BY DEF Pruning, HooksInit, Idle
  <2>2. hookLog[h] = <<>>
    BY DEF HooksInit
  <2> QED
    BY <2>1, <2>2, FS_EmptySet, HooksAssumption
<1> QED
  BY <1>2, <1>3, <1>4 DEF HooksInv

LEMMA HooksStep == HooksInv /\ HooksNext => HooksInv' /\ RowsOfHooksStay
<1> SUFFICES ASSUME HooksInv, HooksNext PROVE HooksInv' /\ RowsOfHooksStay
  OBVIOUS
<1>1. CASE \E h \in Hooks : validate(h) \/ webhookHandlers(h) \/ saveWebhook(h) \/ toggleWebhook(h)
  BY <1>1, SettingsKeep
<1>2. CASE \E p \in People : saveNotificationPreferences(p)
  BY <1>2, SettingsKeep
<1>3. CASE \E h \in Hooks : deleteWebhook(h)
  BY <1>3, DeletingKeeps
<1>4. CASE \E o \in Occurrences : notify(o) \/ deliverAll(o)
  BY <1>4, NotifyKeeps, FanOutKeeps
<1>5. CASE \E o \in Occurrences, h \in Hooks : Attempt(o, h) \/ Log(o, h) \/ Prune(o, h) \/ TellFailure(o, h)
  BY <1>5, AttemptKeeps, LogKeeps, PruneKeeps
<1> QED
  BY <1>1, <1>2, <1>3, <1>4, <1>5 DEF HooksNext, Deliver

LEMMA HooksInvHolds == HooksSpec => []HooksInv
<1>1. HooksInv /\ UNCHANGED hookVars => HooksInv'
  <2> SUFFICES ASSUME HooksInv, UNCHANGED hookVars PROVE HooksInv'
    OBVIOUS
  <2>1. UNCHANGED <<hookRow, saving, wants, occurred, sending, hookLog, mailed, told>>
    BY DEF hookVars
  <2>2. \A h \in Hooks : Pruning(h)' = Pruning(h)
    BY <2>1 DEF Pruning
  <2>3. LogsBounded'
    BY <2>1, <2>2, LogsRest
  <2> QED
    BY <2>1, <2>3 DEF HooksInv, HooksTypeOK, SentOnce
<1> QED
  BY <1>1, HooksInvInit, HooksStep, PTL DEF HooksSpec

\* The types of rows, forms, deliveries and logs, however settings change and
\* deliveries overlap.
THEOREM HooksTypeCorrect == HooksSpec => []HooksTypeOK
<1>1. HooksInv => HooksTypeOK
  BY DEF HooksInv
<1> QED
  BY <1>1, HooksInvHolds, PTL

\* deliverWebhook: of any number of deliveries that log and prune side by side
\* none drops a row unless enough newer ones stay, and a log exceeds its bound
\* by no more than the deliveries that have still to prune it.
THEOREM NewestRowsSurvive == HooksSpec => LogKeepsNewest
<1> DEFINE Step == \A h \in Hooks : There(h) /\ There(h)' =>
              /\ \E k \in 0..Len(hookLog[h]) :
                     /\ k > 0 => Len(hookLog'[h]) >= MaxLog
                     /\ IsPrefix(SubSeq(hookLog[h], k + 1, Len(hookLog[h])), hookLog'[h])
              /\ Len(hookLog'[h]) <= MaxLog + Cardinality({o \in Occurrences : sending'[<<o, h>>].at = "prune"})
<1>1. HooksInv /\ [HooksNext]_hookVars => [Step]_hookVars
  <2> SUFFICES ASSUME HooksInv, HooksNext, NEW h \in Hooks, There(h), There(h)'
               PROVE  /\ \E k \in 0..Len(hookLog[h]) :
                             /\ k > 0 => Len(hookLog'[h]) >= MaxLog
                             /\ IsPrefix(SubSeq(hookLog[h], k + 1, Len(hookLog[h])), hookLog'[h])
                      /\ Len(hookLog'[h]) <= MaxLog + Cardinality({o \in Occurrences : sending'[<<o, h>>].at = "prune"})
    OBVIOUS
  <2>1. HooksInv' /\ RowsStay(hookLog[h], hookLog'[h])
    BY HooksStep DEF RowsOfHooksStay
  <2>2. Len(hookLog'[h]) <= MaxLog + Cardinality(Pruning(h)')
    BY <2>1 DEF HooksInv, LogsBounded
  <2>3. Pruning(h)' = {o \in Occurrences : sending'[<<o, h>>].at = "prune"}
    BY DEF Pruning
  <2> QED
    BY <2>1, <2>2, <2>3 DEF RowsStay
<1> QED
  BY <1>1, HooksInvHolds, PTL DEF HooksSpec, LogKeepsNewest
=============================================================================
