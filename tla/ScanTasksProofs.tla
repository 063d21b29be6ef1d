-------------------------- MODULE ScanTasksProofs --------------------------
(***************************************************************************)
(* What the queue of scans keeps to, for any number of images, workers,    *)
(* requests and mishaps, with the statements of all handlers interleaved   *)
(* as they may.  No theorem needs an assumption besides that on the        *)
(* constants.                                                              *)
(***************************************************************************)
EXTENDS ScanTasks, TLAPS

USE DEF taskVars, procVars, history

\* Every initial state is type correct.
LEMMA InitType == Init => TypeOK
BY ConstantsAssumption DEF Init, TypeOK, Procs, AtWork, Reporting

\* Every step preserves type correctness.
LEMMA TypeStep == TypeOK /\ [Next]_vars => TypeOK'
<1> SUFFICES ASSUME TypeOK, [Next]_vars PROVE TypeOK'
  OBVIOUS
<1> USE ConstantsAssumption DEF TypeOK, LeasedTask, Procs, AtWork, Reporting
<1>1. CASE UNCHANGED vars
  BY <1>1 DEF vars
<1>2. ASSUME NEW d \in Images, EnqueueState(d) PROVE TypeOK'
  BY <1>2 DEF EnqueueState, SetScanState
<1>3. ASSUME NEW d \in Images, EnqueueTask(d) PROVE TypeOK'
  BY <1>3 DEF EnqueueTask, AtWorkOn
<1>4. ASSUME NEW d \in Images, EnqueueFails(d) PROVE TypeOK'
  BY <1>4 DEF EnqueueFails
<1>5. ASSUME NEW d \in Images, LeaseExpires(d) PROVE TypeOK'
  BY <1>5 DEF LeaseExpires, AtWorkOn, Mishap
<1>6. ASSUME NEW d \in Images, DelayEnds(d) PROVE TypeOK'
  BY <1>6 DEF DelayEnds
<1>7. ASSUME NEW d \in Images, DeleteImage(d) PROVE TypeOK'
  BY <1>7 DEF DeleteImage
<1>8. ASSUME NEW d \in Images, NEW w \in Workers, Claim(w, d) PROVE TypeOK'
  BY <1>8 DEF Claim, Claimable, Bump
<1>9. ASSUME NEW w \in Workers, ClaimTarget(w) PROVE TypeOK'
  BY <1>9 DEF ClaimTarget, SetScanState, Goto, Leave, Cross
<1>10. ASSUME NEW w \in Workers, CompleteCheck(w) PROVE TypeOK'
  BY <1>10 DEF CompleteCheck, Goto, Leave
<1>11. ASSUME NEW w \in Workers, CompleteStore(w) PROVE TypeOK'
  BY <1>11 DEF CompleteStore, SetScanState, Goto, Cross
<1>12. ASSUME NEW w \in Workers, CompleteDone(w) PROVE TypeOK'
  BY <1>12 DEF CompleteDone, Leave, Cross
<1>13. ASSUME NEW w \in Workers, FailCheck(w) PROVE TypeOK'
  BY <1>13 DEF FailCheck, Goto, Leave
<1>14. ASSUME NEW w \in Workers, FailState(w) PROVE TypeOK'
  BY <1>14 DEF FailState, SetScanState, Goto, Cross
<1>15. ASSUME NEW w \in Workers, FailForGood(w) PROVE TypeOK'
  BY <1>15 DEF FailForGood, Leave, Cross
<1>16. ASSUME NEW w \in Workers, FailRetry(w) PROVE TypeOK'
  BY <1>16 DEF FailRetry, Leave, Cross
<1>17. ASSUME NEW w \in Workers, Vanish(w) PROVE TypeOK'
  BY <1>17 DEF Vanish, Goto, Leave, Mishap
<1>18. CASE DispatchRelease
  BY <1>18 DEF DispatchRelease, Goto
<1>19. CASE DispatchSelect
  BY <1>19 DEF DispatchSelect
<1>20. CASE InlineLease
  BY <1>20 DEF InlineLease, AtWorkOn, Bump
<1>21. CASE RunScanStart
  BY <1>21 DEF RunScanStart, SetScanState, Goto, Cross
<1>22. CASE RunScanEnd
  BY <1>22 DEF RunScanEnd, SetScanState, Goto, Cross
<1>23. CASE InlineDone
  BY <1>23 DEF InlineDone, Leave, Cross
<1>24. CASE DispatchEnd
  BY <1>24 DEF DispatchEnd, Goto
<1>25. CASE WebRestarts
  BY <1>25 DEF WebRestarts, Mishap
<1>26. CASE WorkersLeave
  <2>1. mishaps' \in 0 .. MaxMishaps
    BY <1>26 DEF WorkersLeave, Mishap
  <2> QED
    BY <1>26, <2>1 DEF WorkersLeave
<1>27. CASE WorkersReturn
  BY <1>27 DEF WorkersReturn
<1> QED
  BY <1>1, <1>2, <1>3, <1>4, <1>5, <1>6, <1>7, <1>8, <1>9, <1>10, <1>11,
     <1>12, <1>13, <1>14, <1>15, <1>16, <1>17, <1>18, <1>19, <1>20, <1>21,
     <1>22, <1>23, <1>24, <1>25, <1>26, <1>27
  DEF Next, WorkerStep, TickStep

\* Type correctness of the queue and of those who work on it.
THEOREM TypeCorrect == Spec => []TypeOK
BY InitType, TypeStep, PTL DEF Spec

-----------------------------------------------------------------------------
(* Leases *)

\* Whoever is at work and has not lost the task holds its lease, unless the
\* task was crossed.
HoldersHold ==
    \A p \in Procs : pc[p] \in AtWork /\ p \notin lost /\ job[p] \notin crossed =>
      LeasedTask(p) /\ job[p] \notin expired

\* Every step keeps leases with their holders.
LEMMA HoldersStep == TypeOK /\ HoldersHold /\ [Next]_vars => HoldersHold'
<1> SUFFICES ASSUME TypeOK, HoldersHold, [Next]_vars PROVE HoldersHold'
  OBVIOUS
<1> USE ConstantsAssumption
    DEF TypeOK, HoldersHold, LeasedTask, Procs, AtWork, Reporting
<1>1. CASE UNCHANGED vars
  BY <1>1 DEF vars
<1>2. ASSUME NEW d \in Images, EnqueueState(d) PROVE HoldersHold'
  BY <1>2 DEF EnqueueState, SetScanState
<1>3. ASSUME NEW d \in Images, EnqueueTask(d) PROVE HoldersHold'
  BY <1>3 DEF EnqueueTask, AtWorkOn
<1>4. ASSUME NEW d \in Images, EnqueueFails(d) PROVE HoldersHold'
  BY <1>4 DEF EnqueueFails
<1>5. ASSUME NEW d \in Images, LeaseExpires(d) PROVE HoldersHold'
  BY <1>5 DEF LeaseExpires, AtWorkOn, Mishap
<1>6. ASSUME NEW d \in Images, DelayEnds(d) PROVE HoldersHold'
  BY <1>6 DEF DelayEnds
<1>7. ASSUME NEW d \in Images, DeleteImage(d) PROVE HoldersHold'
  BY <1>7 DEF DeleteImage
<1>8. ASSUME NEW d \in Images, NEW w \in Workers, Claim(w, d) PROVE HoldersHold'
  BY <1>8 DEF Claim, Claimable, Bump
<1>9. ASSUME NEW w \in Workers, ClaimTarget(w) PROVE HoldersHold'
  BY <1>9 DEF ClaimTarget, SetScanState, Goto, Leave, Cross
<1>10. ASSUME NEW w \in Workers, CompleteCheck(w) PROVE HoldersHold'
  BY <1>10 DEF CompleteCheck, Goto, Leave
<1>11. ASSUME NEW w \in Workers, CompleteStore(w) PROVE HoldersHold'
  BY <1>11 DEF CompleteStore, SetScanState, Goto, Cross
<1>12. ASSUME NEW w \in Workers, CompleteDone(w) PROVE HoldersHold'
  BY <1>12 DEF CompleteDone, Leave, Cross
<1>13. ASSUME NEW w \in Workers, FailCheck(w) PROVE HoldersHold'
  BY <1>13 DEF FailCheck, Goto, Leave
<1>14. ASSUME NEW w \in Workers, FailState(w) PROVE HoldersHold'
  BY <1>14 DEF FailState, SetScanState, Goto, Cross
<1>15. ASSUME NEW w \in Workers, FailForGood(w) PROVE HoldersHold'
  BY <1>15 DEF FailForGood, Leave, Cross
<1>16. ASSUME NEW w \in Workers, FailRetry(w) PROVE HoldersHold'
  BY <1>16 DEF FailRetry, Leave, Cross
<1>17. ASSUME NEW w \in Workers, Vanish(w) PROVE HoldersHold'
  BY <1>17 DEF Vanish, Goto, Leave, Mishap
<1>18. CASE DispatchRelease
  BY <1>18 DEF DispatchRelease, Goto
<1>19. CASE DispatchSelect
  BY <1>19 DEF DispatchSelect
<1>20. CASE InlineLease
  BY <1>20 DEF InlineLease, AtWorkOn, Bump
<1>21. CASE RunScanStart
  BY <1>21 DEF RunScanStart, SetScanState, Goto, Cross
<1>22. CASE RunScanEnd
  BY <1>22 DEF RunScanEnd, SetScanState, Goto, Cross
<1>23. CASE InlineDone
  BY <1>23 DEF InlineDone, Leave, Cross
<1>24. CASE DispatchEnd
  BY <1>24 DEF DispatchEnd, Goto
<1>25. CASE WebRestarts
  BY <1>25 DEF WebRestarts, Mishap
<1>26. CASE WorkersLeave
  BY <1>26 DEF WorkersLeave, Mishap
<1>27. CASE WorkersReturn
  BY <1>27 DEF WorkersReturn
<1> QED
  BY <1>1, <1>2, <1>3, <1>4, <1>5, <1>6, <1>7, <1>8, <1>9, <1>10, <1>11,
     <1>12, <1>13, <1>14, <1>15, <1>16, <1>17, <1>18, <1>19, <1>20, <1>21,
     <1>22, <1>23, <1>24, <1>25, <1>26, <1>27
  DEF Next, WorkerStep, TickStep

\* Two are at work on one image only after one of them has lost it, or after
\* the task was crossed.
THEOREM LeasesExclude == Spec => []OneScannerPerTask
<1>1. Init => HoldersHold
  BY DEF Init, HoldersHold, Procs, AtWork, Reporting
<1>2. TypeOK /\ HoldersHold /\ [Next]_vars => HoldersHold'
  BY HoldersStep
<1>3. HoldersHold => OneScannerPerTask
  BY DEF HoldersHold, OneScannerPerTask, LeasedTask
<1> QED
  BY TypeCorrect, <1>1, <1>2, <1>3, PTL DEF Spec

-----------------------------------------------------------------------------
(* Outcomes *)

\* Before the holder of a task marks it, its outcome is on record.
StoredFirst ==
    \A p \in Procs : LET d == job[p] IN
      LeasedTask(p) /\ d \in image \ (crossed \cup dropped \cup enq) =>
        /\ pc[p] = "markDone" => scan[d] = "scanned"
        /\ pc[p] = "markFailed" => scan[d] = "failed"
        /\ pc[p] = "inlineDone" => scan[d] \in {"scanned", "failed"}

OutcomeInv == StoredFirst /\ EndedTasksAreRecorded

\* Every step keeps the outcomes of tasks that have ended.
LEMMA OutcomeStep == TypeOK /\ OutcomeInv /\ [Next]_vars => OutcomeInv'
<1> SUFFICES ASSUME TypeOK, OutcomeInv, [Next]_vars PROVE OutcomeInv'
  OBVIOUS
<1> USE ConstantsAssumption
    DEF TypeOK, OutcomeInv, StoredFirst, EndedTasksAreRecorded,
        LeasedTask, Procs, AtWork, Reporting
<1>1. CASE UNCHANGED vars
  BY <1>1 DEF vars
<1>2. ASSUME NEW d \in Images, EnqueueState(d) PROVE OutcomeInv'
  BY <1>2 DEF EnqueueState, SetScanState
<1>3. ASSUME NEW d \in Images, EnqueueTask(d) PROVE OutcomeInv'
  BY <1>3 DEF EnqueueTask, AtWorkOn
<1>4. ASSUME NEW d \in Images, EnqueueFails(d) PROVE OutcomeInv'
  BY <1>4 DEF EnqueueFails
<1>5. ASSUME NEW d \in Images, LeaseExpires(d) PROVE OutcomeInv'
  BY <1>5 DEF LeaseExpires, AtWorkOn, Mishap
<1>6. ASSUME NEW d \in Images, DelayEnds(d) PROVE OutcomeInv'
  BY <1>6 DEF DelayEnds
<1>7. ASSUME NEW d \in Images, DeleteImage(d) PROVE OutcomeInv'
  BY <1>7 DEF DeleteImage
<1>8. ASSUME NEW d \in Images, NEW w \in Workers, Claim(w, d) PROVE OutcomeInv'
  BY <1>8 DEF Claim, Claimable, Bump
<1>9. ASSUME NEW w \in Workers, ClaimTarget(w) PROVE OutcomeInv'
  BY <1>9 DEF ClaimTarget, SetScanState, Goto, Leave, Cross
<1>10. ASSUME NEW w \in Workers, CompleteCheck(w) PROVE OutcomeInv'
  BY <1>10 DEF CompleteCheck, Goto, Leave
<1>11. ASSUME NEW w \in Workers, CompleteStore(w) PROVE OutcomeInv'
  BY <1>11 DEF CompleteStore, SetScanState, Goto, Cross
<1>12. ASSUME NEW w \in Workers, CompleteDone(w) PROVE OutcomeInv'
  BY <1>12 DEF CompleteDone, Leave, Cross
<1>13. ASSUME NEW w \in Workers, FailCheck(w) PROVE OutcomeInv'
  BY <1>13 DEF FailCheck, Goto, Leave
<1>14. ASSUME NEW w \in Workers, FailState(w) PROVE OutcomeInv'
  BY <1>14 DEF FailState, SetScanState, Goto, Cross
<1>15. ASSUME NEW w \in Workers, FailForGood(w) PROVE OutcomeInv'
  BY <1>15 DEF FailForGood, Leave, Cross
<1>16. ASSUME NEW w \in Workers, FailRetry(w) PROVE OutcomeInv'
  BY <1>16 DEF FailRetry, Leave, Cross
<1>17. ASSUME NEW w \in Workers, Vanish(w) PROVE OutcomeInv'
  BY <1>17 DEF Vanish, Goto, Leave, Mishap
<1>18. CASE DispatchRelease
  BY <1>18 DEF DispatchRelease, Goto
<1>19. CASE DispatchSelect
  BY <1>19 DEF DispatchSelect
<1>20. CASE InlineLease
  BY <1>20 DEF InlineLease, AtWorkOn, Bump
<1>21. CASE RunScanStart
  BY <1>21 DEF RunScanStart, SetScanState, Goto, Cross
<1>22. CASE RunScanEnd
  BY <1>22 DEF RunScanEnd, SetScanState, Goto, Cross
<1>23. CASE InlineDone
  BY <1>23 DEF InlineDone, Leave, Cross
<1>24. CASE DispatchEnd
  BY <1>24 DEF DispatchEnd, Goto
<1>25. CASE WebRestarts
  BY <1>25 DEF WebRestarts, Mishap
<1>26. CASE WorkersLeave
  BY <1>26 DEF WorkersLeave, Mishap
<1>27. CASE WorkersReturn
  BY <1>27 DEF WorkersReturn
<1> QED
  BY <1>1, <1>2, <1>3, <1>4, <1>5, <1>6, <1>7, <1>8, <1>9, <1>10, <1>11,
     <1>12, <1>13, <1>14, <1>15, <1>16, <1>17, <1>18, <1>19, <1>20, <1>21,
     <1>22, <1>23, <1>24, <1>25, <1>26, <1>27
  DEF Next, WorkerStep, TickStep

\* A task ends only with the outcome of its scan on record, unless somebody
\* wrote to it who had lost it, or the next request is under way or dropped.
THEOREM OutcomesAreRecorded == Spec => []EndedTasksAreRecorded
<1>1. Init => OutcomeInv
  BY DEF Init, OutcomeInv, StoredFirst, EndedTasksAreRecorded, Procs
<1>2. TypeOK /\ OutcomeInv /\ [Next]_vars => OutcomeInv'
  BY OutcomeStep
<1>3. OutcomeInv => EndedTasksAreRecorded
  BY DEF OutcomeInv
<1> QED
  BY TypeCorrect, <1>1, <1>2, <1>3, PTL DEF Spec
=============================================================================
