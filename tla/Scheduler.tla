------------------------------ MODULE Scheduler ------------------------------
(***************************************************************************)
(* The job scheduler of the web app (web/src/lib/scheduler.ts, runJob of   *)
(* lib/jobs.ts).  Every replica ticks; the one that holds a Postgres       *)
(* advisory lock drains the event outbox, closes runs that are stuck and   *)
(* runs the jobs that are due.  Jobs are also run by hand.                 *)
(*                                                                         *)
(* Every statement is one step, and so is the run of a job.  A row of      *)
(* job_runs with status 'running' is a pair of the job and of who runs it; *)
(* a process that dies leaves its row to Orphan (what dead processes leave *)
(* of one job counts as one row).                                          *)
(***************************************************************************)
EXTENDS Naturals

CONSTANTS
    Replicas,  \* web processes, each with its tick
    Manual,    \* runs started by hand (UI, API), at a time
    Jobs,      \* jobs with a schedule
    Orphan,    \* the owner of a row whose process is gone
    None,      \* nobody, no job
    MaxFaults  \* bound on crashes, failing statements, lost connections and
               \* runs by hand

ASSUME ConstantsAssumption ==
    /\ Replicas \cap Manual = {}
    /\ Orphan \notin Replicas \cup Manual
    /\ None \notin Replicas \cup Manual \cup Jobs
    /\ MaxFaults \in Nat

Procs == Replicas \cup Manual

VARIABLES
    lock,      \* the replica whose session holds the lock, in Postgres
    believes,  \* replicas with hasLock set
    cut,       \* history: replicas that have lost their lock since they got it
    due,       \* jobs whose next_run_at has passed
    open,      \* job_runs with status 'running': <<job, owner>>
    old,       \* ... that were started more than six hours ago
    waiting,   \* is there an event in the outbox?
    pc, job,   \* per process: step and job
    todo,      \* per replica: due jobs that its tick has not looked at yet
    faults

procVars == <<pc, job, todo>>
lockVars == <<lock, believes, cut>>
vars == <<lockVars, due, open, old, waiting, procVars, faults>>

Init ==
    /\ lock = None
    /\ believes = {}
    /\ cut = {}
    /\ due = {}
    /\ open = {}
    /\ old = {}
    /\ waiting = FALSE
    /\ pc = [p \in Procs |-> "idle"]
    /\ job = [p \in Procs |-> None]
    /\ todo = [r \in Replicas |-> {}]
    /\ faults = 0

Goto(p, state) ==
    /\ pc' = [pc EXCEPT ![p] = state]
    /\ UNCHANGED <<job, todo>>

\* Rows whose owner is gone.
Disowned(rows, p) == {<<x[1], IF x[2] = p THEN Orphan ELSE x[2]>> : x \in rows}

Fault ==
    /\ faults < MaxFaults
    /\ faults' = faults + 1

-----------------------------------------------------------------------------
(* A tick *)

\* Mutant: the answer of pg_try_advisory_lock is not looked at.
AcquireLock_Anyway(r) ==
    /\ pc[r] = "idle"
    /\ lock' = IF lock = None THEN r ELSE lock
    /\ believes' = believes \cup {r}
    /\ cut' = cut \ {r}
    /\ Goto(r, "drain")
    /\ UNCHANGED <<due, open, old, waiting, faults>>

\* Mutant: a replica that has lost its connection does not build a new one.
AcquireLock_Stale(r) ==
    /\ pc[r] = "idle"
    /\ \/ r \in believes /\ lock = r /\ Goto(r, "drain") /\ UNCHANGED lockVars
       \/ r \in believes /\ lock # r /\ UNCHANGED <<lockVars, procVars>>
       \/ /\ r \notin believes /\ lock = None
          /\ lock' = r
          /\ believes' = believes \cup {r}
          /\ cut' = cut \ {r}
          /\ Goto(r, "drain")
    /\ UNCHANGED <<due, open, old, waiting, faults>>

\* acquireLock.  A replica that has the lock makes sure of its connection; if
\* that is gone the tick fails and the connection is built up again by the
\* next one.  (A replica that does not get the lock does nothing.)
AcquireLock(r) ==
    /\ pc[r] = "idle"
    /\ \/ /\ r \in believes /\ lock = r
          /\ Goto(r, "drain")
          /\ UNCHANGED lockVars
       \/ /\ r \in believes /\ lock # r
          /\ believes' = believes \ {r}
          /\ UNCHANGED <<lock, cut, procVars>>
       \/ /\ r \notin believes /\ lock = None
          /\ lock' = r
          /\ believes' = believes \cup {r}
          /\ cut' = cut \ {r}
          /\ Goto(r, "drain")
    /\ UNCHANGED <<due, open, old, waiting, faults>>

\* drainEventOutbox, then dispatchScanTasks.
Drain(r) ==
    /\ pc[r] = "drain"
    /\ waiting' = FALSE
    /\ Goto(r, "stuck")
    /\ UNCHANGED <<lockVars, due, open, old, faults>>

\* Mutant: only runs this replica has started are closed.
FailStuckRuns_Own(r) ==
    /\ pc[r] = "stuck"
    /\ open' = {x \in open : ~(x \in old /\ x[2] = r)}
    /\ old' = {x \in old : x[2] # r}
    /\ Goto(r, "due")
    /\ UNCHANGED <<lockVars, due, waiting, faults>>

\* failStuckRuns closes rows that are six hours old, whoever they belong to.
FailStuckRuns(r) ==
    /\ pc[r] = "stuck"
    /\ open' = open \ old
    /\ old' = {}
    /\ Goto(r, "due")
    /\ UNCHANGED <<lockVars, due, waiting, faults>>

\* runDue selects the schedules that are due ...
SelectDue(r) ==
    /\ pc[r] = "due"
    /\ pc' = [pc EXCEPT ![r] = "next"]
    /\ todo' = [todo EXCEPT ![r] = due]
    /\ UNCHANGED <<lockVars, due, open, old, waiting, job, faults>>

\* ... and looks, for one after the other, whether the job is running, by the
\* row of any process.  One that is stays due.
CheckRunning(r) ==
    /\ pc[r] = "next"
    /\ \E j \in todo[r] :
         /\ todo' = [todo EXCEPT ![r] = @ \ {j}]
         /\ IF \E x \in open : x[1] = j
            THEN UNCHANGED <<pc, job>>
            ELSE /\ pc' = [pc EXCEPT ![r] = "advance"]
                 /\ job' = [job EXCEPT ![r] = j]
    /\ UNCHANGED <<lockVars, due, open, old, waiting, faults>>

\* UPDATE job_schedules SET next_run_at: before the run, not after it.
AdvanceSchedule(r) ==
    /\ pc[r] = "advance"
    /\ due' = due \ {job[r]}
    /\ Goto(r, "insert")
    /\ UNCHANGED <<lockVars, open, old, waiting, faults>>

\* The tick is through.
TickEnds(r) ==
    /\ pc[r] = "next"
    /\ todo[r] = {}
    /\ Goto(r, "idle")
    /\ UNCHANGED <<lockVars, due, open, old, waiting, faults>>

-----------------------------------------------------------------------------
(* runJob *)

\* A user or the API runs a job: no look at what is running.
RunByHand(m, j) ==
    /\ Fault
    /\ pc[m] = "idle"
    /\ pc' = [pc EXCEPT ![m] = "insert"]
    /\ job' = [job EXCEPT ![m] = j]
    /\ UNCHANGED <<lockVars, due, open, old, waiting, todo>>

\* INSERT of the row; the job starts.
InsertRun(p) ==
    /\ pc[p] = "insert"
    /\ open' = open \cup {<<job[p], p>>}
    /\ pc' = [pc EXCEPT ![p] = "run"]
    /\ UNCHANGED <<lockVars, due, old, waiting, job, todo, faults>>

\* Mutant: a job that has ended badly is run again, as nobody's job.
RunEnds_Again(p) ==
    /\ pc[p] = "run"
    /\ open' = open \ {<<job[p], p>>}
    /\ old' = old \ {<<job[p], p>>}
    /\ pc' = [pc EXCEPT ![p] = "insert"]
    /\ job' = [job EXCEPT ![p] = None]
    /\ UNCHANGED <<lockVars, due, waiting, todo, faults>>

\* The job ends, well or not, and the row is closed by its id.  The tick that
\* awaited it goes on.
RunEnds(p) ==
    /\ pc[p] = "run"
    /\ open' = open \ {<<job[p], p>>}
    /\ old' = old \ {<<job[p], p>>}
    /\ pc' = [pc EXCEPT ![p] = IF p \in Replicas THEN "ran" ELSE "idle"]
    /\ job' = [job EXCEPT ![p] = None]
    /\ UNCHANGED <<lockVars, due, waiting, todo, faults>>

\* last_status of the schedule is written and the loop goes on.
RecordStatus(r) ==
    /\ pc[r] = "ran"
    /\ pc' = [pc EXCEPT ![r] = "next"]
    /\ UNCHANGED <<lockVars, due, open, old, waiting, job, todo, faults>>

-----------------------------------------------------------------------------
(* Statements that fail *)

\* An error of failStuckRuns or of runDue's SELECT ends the tick.
TickFails(r) ==
    /\ Fault
    /\ pc[r] \in {"stuck", "due"}
    /\ Goto(r, "idle")
    /\ UNCHANGED <<lockVars, due, open, old, waiting>>

\* An error within the loop of runDue is caught there; the next schedule has
\* its turn.  A run whose row cannot be inserted is not made up for.
ScheduleFails(r) ==
    /\ Fault
    /\ pc[r] \in {"advance", "insert"}
    /\ pc' = [pc EXCEPT ![r] = "next"]
    /\ job' = [job EXCEPT ![r] = None]
    /\ UNCHANGED <<lockVars, due, open, old, waiting, todo>>

\* The row of a run that has ended cannot be closed: it stays 'running'.
CloseFails(p) ==
    /\ Fault
    /\ pc[p] = "run"
    /\ pc' = [pc EXCEPT ![p] = IF p \in Replicas THEN "ran" ELSE "idle"]
    /\ job' = [job EXCEPT ![p] = None]
    /\ open' = Disowned(open, p)
    /\ old' = Disowned(old, p)
    /\ UNCHANGED <<lockVars, due, waiting, todo>>

-----------------------------------------------------------------------------
(* The world *)

\* A process dies: its session ends, and with it the lock.
Crash(p) ==
    /\ Fault
    /\ pc[p] # "down"
    /\ pc' = [pc EXCEPT ![p] = IF p \in Replicas THEN "down" ELSE "idle"]
    /\ job' = [job EXCEPT ![p] = None]
    /\ todo' = [r \in Replicas |-> IF r = p THEN {} ELSE todo[r]]
    /\ lock' = IF lock = p THEN None ELSE lock
    /\ believes' = believes \ {p}
    /\ open' = Disowned(open, p)
    /\ old' = Disowned(old, p)
    /\ UNCHANGED <<cut, due, waiting>>

Restart(r) ==
    /\ pc[r] = "down"
    /\ Goto(r, "idle")
    /\ UNCHANGED <<lockVars, due, open, old, waiting, faults>>

\* The lock connection breaks, whether the replica notices at once or not;
\* a tick in progress goes on.
LockConnectionLost(r) ==
    /\ Fault
    /\ lock = r
    /\ lock' = None
    /\ believes' \in {believes, believes \ {r}}
    /\ cut' = cut \cup {r}
    /\ UNCHANGED <<due, open, old, waiting, procVars>>

\* Six hours pass for a run: of a process that is gone, or of a slow one.
GrowsOld(x) ==
    /\ x \notin old
    /\ old' = old \cup {x}
    /\ UNCHANGED <<lockVars, due, open, waiting, procVars, faults>>

CronSlot(j) ==
    /\ j \notin due
    /\ due' = due \cup {j}
    /\ UNCHANGED <<lockVars, open, old, waiting, procVars, faults>>

\* registryd could not hand an event over.
EventArrives ==
    /\ ~waiting
    /\ waiting' = TRUE
    /\ UNCHANGED <<lockVars, due, open, old, procVars, faults>>

TickStep(r) ==
    \/ AcquireLock(r)
    \/ Drain(r)
    \/ FailStuckRuns(r)
    \/ SelectDue(r)
    \/ CheckRunning(r)
    \/ AdvanceSchedule(r)
    \/ RecordStatus(r)
    \/ TickEnds(r)

Next ==
    \/ \E r \in Replicas : TickStep(r) \/ Restart(r) \/ LockConnectionLost(r)
    \/ \E r \in Replicas : TickFails(r) \/ ScheduleFails(r)
    \/ \E p \in Procs : InsertRun(p) \/ RunEnds(p) \/ CloseFails(p) \/ Crash(p)
    \/ \E m \in Manual, j \in Jobs : RunByHand(m, j)
    \/ \E x \in open : GrowsOld(x)
    \/ \E j \in Jobs : CronSlot(j)
    \/ EventArrives

Spec == Init /\ [][Next]_vars

\* The timer of every replica fires, processes are restarted, jobs end, and
\* time passes.
Fairness ==
    /\ \A r \in Replicas : WF_vars(TickStep(r)) /\ WF_vars(Restart(r))
    /\ \A p \in Procs : WF_vars(InsertRun(p) \/ RunEnds(p))
    /\ \A j \in Jobs : WF_vars(<<j, Orphan>> \in open /\ GrowsOld(<<j, Orphan>>))

FairSpec == Spec /\ Fairness

-----------------------------------------------------------------------------
(* Properties *)

\* The shape of the state; a run under way has a job.
TypeOK ==
    /\ lock \in Replicas \cup {None}
    /\ believes \in SUBSET Replicas
    /\ cut \in SUBSET Replicas
    /\ due \in SUBSET Jobs
    /\ open \in SUBSET (Jobs \X (Procs \cup {Orphan}))
    /\ old \in SUBSET open
    /\ waiting \in BOOLEAN
    /\ pc \in [Procs -> {"idle", "down", "drain", "stuck", "due", "next", "advance",
                         "insert", "run", "ran"}]
    /\ job \in [Procs -> Jobs \cup {None}]
    /\ todo \in [Replicas -> SUBSET Jobs]
    /\ faults \in 0 .. MaxFaults
    /\ \A p \in Procs : pc[p] \in {"advance", "insert", "run"} => job[p] \in Jobs

\* "A job never runs twice at once" (scheduler.ts:5), as far as the code gives
\* it: whatever is run by hand and however long runs take, replicas that die
\* and take over never run scheduled jobs at the same time, unless one of
\* them has lost its lock connection in the middle of its tick.
OneScheduledRun ==
    \A r, s \in Replicas :
      pc[r] = "run" /\ pc[s] = "run" /\ r # s => {r, s} \cap cut # {}

\* A schedule that is due is taken up in the end, although rows of dead
\* processes say that its job is running and replicas lose the lock.
DueJobsRun == \A j \in Jobs : j \in due ~> j \notin due

\* Events in the outbox do not wait forever: neither for a replica that is
\* gone or has lost its lock, nor for the jobs of the tick before.
WaitingEventsAreDrained == waiting ~> ~waiting
=============================================================================
