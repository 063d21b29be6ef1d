------------------------------ MODULE ScanTasks ------------------------------
(***************************************************************************)
(* Vulnerability scans handed to external workers: the scan_tasks queue of *)
(* web/src/lib/scan-tasks.ts, one row per image.  A scan is enqueued by a  *)
(* push event or a re-scan; workers claim rows under a lease and report a  *)
(* result or a failure; the scheduler tick takes back leases that ran out  *)
(* and, while no worker is online, scans in the web container.             *)
(*                                                                         *)
(* Every statement is one step, and no handler keeps another out: a row    *)
(* may be reset, taken over or finished between any two statements of      *)
(* those at work on it.  The workers are external: they claim, scan and    *)
(* report, may be late and may vanish.  Attempts count up to MaxAttempts,  *)
(* the only value the code compares them with; whether a lease has run out *)
(* and whether a delayed task is due are kept instead of times.            *)
(***************************************************************************)
EXTENDS Naturals, FiniteSets

CONSTANTS
    Images,       \* image digests
    Workers,      \* names of scan workers, each with one scan at a time
    Web,          \* the scheduler tick, "web (inline)" in leased_by
    None,         \* no image, nobody
    MaxAttempts,  \* MAX_ATTEMPTS
    InlinePerTick,\* INLINE_PER_TICK
    MaxPushes,    \* bound: how often the scan of an image is asked for
    MaxMishaps    \* bound: how often somebody is late, cut off or goes offline

ASSUME ConstantsAssumption ==
    /\ Web \notin Workers
    /\ None \notin Images \cup Workers \cup {Web}
    /\ MaxAttempts \in Nat \ {0}
    /\ InlinePerTick \in Nat \ {0}
    /\ MaxPushes \in Nat
    /\ MaxMishaps \in Nat

VARIABLES
    image,     \* images that are in the registry
    status,    \* scan_tasks.status, "none" without a row
    holder,    \* scan_tasks.leased_by
    expired,   \* tasks whose lease_until has passed
    attempts,  \* scan_tasks.attempts
    due,       \* tasks whose available_at has passed
    scan,      \* vulnerability_scans.status
    enq,       \* images whose enqueueScan is between its two statements
    pushes,    \* how often a scan was asked for
    online,    \* has a worker reported in during the last two minutes?
    mishaps,   \* how often somebody was late, was cut off or went offline
    pc, job,   \* per worker, and for the tick: step and image
    batch,     \* what the tick selected to scan itself
    \* Histories:
    lost,      \* those at work whose lease ran out, or whose task was reset by
               \* a new request or taken by the tick off its list
    crossed,   \* tasks written to, since the last request for them, by
               \* somebody who no longer held them
    dropped    \* images whose last request was lost with its INSERT

taskVars == <<status, holder, expired, attempts, due>>
procVars == <<pc, job, batch, lost>>
history == <<crossed, dropped>>
vars == <<image, taskVars, scan, enq, pushes, online, mishaps, procVars, history>>

Procs == Workers \cup {Web}

\* A request of a worker that the web app is working on; and with it all that
\* a worker or the tick does for a task of its own.
Reporting == {"store", "markDone", "giveUp", "markFailed", "retry"}
AtWork == {"target", "scan", "runScan", "scanning", "inlineDone"} \cup Reporting

Init ==
    /\ image = Images
    /\ status = [d \in Images |-> "none"]
    /\ holder = [d \in Images |-> None]
    /\ expired = {}
    /\ attempts = [d \in Images |-> 0]
    /\ due = {}
    /\ scan = [d \in Images |-> "none"]
    /\ enq = {}
    /\ pushes = [d \in Images |-> 0]
    /\ online = TRUE
    /\ mishaps = 0
    /\ pc = [p \in Procs |-> "idle"]
    /\ job = [p \in Procs |-> None]
    /\ batch = {}
    /\ lost = {}
    /\ crossed = {}
    /\ dropped = {}

Mishap ==
    /\ mishaps < MaxMishaps
    /\ mishaps' = mishaps + 1

SetScanState(d, s) == scan' = [scan EXCEPT ![d] = s]

Goto(p, state) ==
    /\ pc' = [pc EXCEPT ![p] = state]
    /\ UNCHANGED <<job, batch, lost>>

\* p is done with its task, and goes on with what follows.
Leave(p, state) ==
    /\ pc' = [pc EXCEPT ![p] = state]
    /\ job' = [job EXCEPT ![p] = None]
    /\ lost' = lost \ {p}
    /\ UNCHANGED batch

\* Those at work on d, who lose it when it goes to somebody else.
AtWorkOn(d) == {p \in Procs : pc[p] \in AtWork /\ job[p] = d}

\* leasedTask: the task is leased to p.  (lease_until is not looked at: a
\* late report is fine while nobody else has the task.)
LeasedTask(p) == status[job[p]] = "leased" /\ holder[job[p]] = p

\* All but the first statement of a report, and what the tick and the claim
\* do for their task, write by the id of the row or the digest of the image,
\* whoever holds the task by then: one who no longer does crosses the others.
Cross(p) ==
    /\ crossed' = IF LeasedTask(p) THEN crossed ELSE crossed \cup {job[p]}
    /\ UNCHANGED dropped

-----------------------------------------------------------------------------
(* Asking for a scan *)

\* enqueueScan, first statement: the page shows "pending".
EnqueueState(d) ==
    /\ d \in image \ enq
    /\ pushes[d] < MaxPushes
    /\ SetScanState(d, "pending")
    /\ enq' = enq \cup {d}
    /\ pushes' = [pushes EXCEPT ![d] = @ + 1]
    /\ UNCHANGED <<image, taskVars, online, mishaps, procVars, history>>

\* Second statement: INSERT ... ON CONFLICT (digest) DO UPDATE puts the row
\* back to the queue whatever its status, attempts and lease.
EnqueueTask(d) ==
    /\ d \in enq
    /\ enq' = enq \ {d}
    /\ status' = [status EXCEPT ![d] = "queued"]
    /\ holder' = [holder EXCEPT ![d] = None]
    /\ expired' = expired \ {d}
    /\ attempts' = [attempts EXCEPT ![d] = 0]
    /\ due' = due \cup {d}
    /\ lost' = lost \cup AtWorkOn(d)
    /\ crossed' = crossed \ {d}
    /\ dropped' = dropped \ {d}
    /\ UNCHANGED <<image, scan, pushes, online, mishaps, pc, job, batch>>

EnqueueFails(d) ==
    /\ d \in enq
    /\ enq' = enq \ {d}
    /\ dropped' = dropped \cup {d}
    /\ UNCHANGED <<image, taskVars, scan, pushes, online, mishaps, procVars, crossed>>

-----------------------------------------------------------------------------
(* Workers *)

Bump(n) == IF n < MaxAttempts THEN n + 1 ELSE n

\* Mutant: a lease is no obstacle.
Claimable_Leased(d) == d \in due /\ status[d] \in {"queued", "leased"}

Claimable(d) == d \in due /\ (status[d] = "queued" \/ (status[d] = "leased" /\ d \in expired))

\* claimScanTask: one UPDATE with SKIP LOCKED takes a task that is due.
Claim(w, d) ==
    /\ online
    /\ pc[w] = "idle"
    /\ Claimable(d)
    /\ status' = [status EXCEPT ![d] = "leased"]
    /\ holder' = [holder EXCEPT ![d] = w]
    /\ expired' = expired \ {d}
    /\ attempts' = [attempts EXCEPT ![d] = Bump(@)]
    /\ pc' = [pc EXCEPT ![w] = "target"]
    /\ job' = [job EXCEPT ![w] = d]
    /\ UNCHANGED <<image, due, scan, enq, pushes, online, mishaps, batch, lost, history>>

\* ... then an image that has gone ends the task, any other is "indexing".
ClaimTarget(w) ==
    /\ pc[w] = "target"
    /\ LET d == job[w] IN
       IF d \in image
       THEN /\ SetScanState(d, "indexing")
            /\ Goto(w, "scan")
            /\ UNCHANGED status
       ELSE /\ status' = [status EXCEPT ![d] = "done"]
            /\ Leave(w, "idle")
            /\ UNCHANGED scan
    /\ Cross(w)
    /\ UNCHANGED <<image, holder, expired, attempts, due, enq, pushes, online, mishaps>>

\* Mutant: the task is marked done before its result is stored.
CompleteCheck_DoneFirst(w) ==
    /\ pc[w] = "scan"
    /\ IF LeasedTask(w)
       THEN Goto(w, "store") /\ status' = [status EXCEPT ![job[w]] = "done"]
       ELSE Leave(w, "idle") /\ UNCHANGED status
    /\ UNCHANGED <<image, holder, expired, attempts, due, scan, enq, pushes, online, mishaps, history>>

\* completeScanTask: the check (409 if it fails) ...
CompleteCheck(w) ==
    /\ pc[w] = "scan"
    /\ IF LeasedTask(w) THEN Goto(w, "store") ELSE Leave(w, "idle")
    /\ UNCHANGED <<image, taskVars, scan, enq, pushes, online, mishaps, history>>

\* ... finishScan ...
CompleteStore(w) ==
    /\ pc[w] = "store"
    /\ SetScanState(job[w], "scanned")
    /\ Goto(w, "markDone")
    /\ Cross(w)
    /\ UNCHANGED <<image, taskVars, enq, pushes, online, mishaps>>

\* ... and an UPDATE by the id of the task alone.
CompleteDone(w) ==
    /\ pc[w] = "markDone"
    /\ status' = [status EXCEPT ![job[w]] = "done"]
    /\ Leave(w, "idle")
    /\ Cross(w)
    /\ UNCHANGED <<image, holder, expired, attempts, due, scan, enq, pushes, online, mishaps>>

\* failScanTask: the check, and what becomes of the task, by the row it read.
FailCheck(w) ==
    /\ pc[w] = "scan"
    /\ IF LeasedTask(w)
       THEN Goto(w, IF attempts[job[w]] >= MaxAttempts THEN "giveUp" ELSE "retry")
       ELSE Leave(w, "idle")
    /\ UNCHANGED <<image, taskVars, scan, enq, pushes, online, mishaps, history>>

\* Mutant: giving up is not recorded.
FailState_Silent(w) ==
    /\ pc[w] = "giveUp"
    /\ Goto(w, "markFailed")
    /\ Cross(w)
    /\ UNCHANGED <<image, taskVars, scan, enq, pushes, online, mishaps>>

FailState(w) ==
    /\ pc[w] = "giveUp"
    /\ SetScanState(job[w], "failed")
    /\ Goto(w, "markFailed")
    /\ Cross(w)
    /\ UNCHANGED <<image, taskVars, enq, pushes, online, mishaps>>

FailForGood(w) ==
    /\ pc[w] = "markFailed"
    /\ status' = [status EXCEPT ![job[w]] = "failed"]
    /\ Leave(w, "idle")
    /\ Cross(w)
    /\ UNCHANGED <<image, holder, expired, attempts, due, scan, enq, pushes, online, mishaps>>

\* Back to the queue, due in a minute per attempt.
FailRetry(w) ==
    /\ pc[w] = "retry"
    /\ LET d == job[w] IN
       /\ status' = [status EXCEPT ![d] = "queued"]
       /\ holder' = [holder EXCEPT ![d] = None]
       /\ expired' = expired \ {d}
       /\ due' = due \ {d}
    /\ Leave(w, "idle")
    /\ Cross(w)
    /\ UNCHANGED <<image, attempts, scan, enq, pushes, online, mishaps>>

\* The worker vanishes, or the web app that works on its request; a worker
\* whose report failed may try again.
Vanish(w) ==
    /\ pc[w] # "idle"
    /\ Mishap
    /\ Leave(w, "idle") \/ (pc[w] \in Reporting /\ Goto(w, "scan"))
    /\ UNCHANGED <<image, taskVars, scan, enq, pushes, online, history>>

-----------------------------------------------------------------------------
(* The scheduler tick: dispatchScanTasks *)

\* Leases that ran out go back to the queue, whatever their attempts.
DispatchRelease ==
    /\ pc[Web] = "idle"
    /\ LET out == {d \in expired : status[d] = "leased"} IN
       /\ status' = [d \in Images |-> IF d \in out THEN "queued" ELSE status[d]]
       /\ holder' = [d \in Images |-> IF d \in out THEN None ELSE holder[d]]
       /\ expired' = expired \ out
    /\ Goto(Web, "select")
    /\ UNCHANGED <<image, attempts, due, scan, enq, pushes, online, mishaps, history>>

\* Mutant: queued tasks wait for a worker.
DispatchSelect_Never ==
    /\ pc[Web] = "select"
    /\ Goto(Web, "inline")
    /\ UNCHANGED <<image, taskVars, scan, enq, pushes, online, mishaps, history>>

\* With no worker online, the tick selects queued tasks to scan itself, up to
\* its limit ...
DispatchSelect ==
    /\ pc[Web] = "select"
    /\ pc' = [pc EXCEPT ![Web] = "inline"]
    /\ LET queued == {d \in due : status[d] = "queued"} IN
       \/ online /\ batch' = {}
       \/ /\ ~online
          /\ \E some \in SUBSET queued :
               /\ some = queued \/ Cardinality(some) = InlinePerTick
               /\ Cardinality(some) <= InlinePerTick
               /\ batch' = some
    /\ UNCHANGED <<image, taskVars, scan, enq, pushes, online, mishaps, job, lost, history>>

\* ... and takes each by its id, whatever has become of it since ...
InlineLease ==
    /\ pc[Web] = "inline"
    /\ \E d \in batch :
         /\ batch' = batch \ {d}
         /\ job' = [job EXCEPT ![Web] = d]
         /\ status' = [status EXCEPT ![d] = "leased"]
         /\ holder' = [holder EXCEPT ![d] = Web]
         /\ expired' = expired \ {d}
         /\ attempts' = [attempts EXCEPT ![d] = Bump(@)]
         /\ lost' = lost \cup AtWorkOn(d)
    /\ pc' = [pc EXCEPT ![Web] = "runScan"]
    /\ UNCHANGED <<image, due, scan, enq, pushes, online, mishaps, history>>

\* ... runScan: nothing for an image that has gone ...
RunScanStart ==
    /\ pc[Web] = "runScan"
    /\ IF job[Web] \in image
       THEN SetScanState(job[Web], "indexing") /\ Goto(Web, "scanning")
       ELSE UNCHANGED scan /\ Goto(Web, "inlineDone")
    /\ Cross(Web)
    /\ UNCHANGED <<image, taskVars, enq, pushes, online, mishaps>>

\* ... else its result or its failure ...
RunScanEnd ==
    /\ pc[Web] = "scanning"
    /\ SetScanState(job[Web], "scanned") \/ SetScanState(job[Web], "failed")
    /\ Goto(Web, "inlineDone")
    /\ Cross(Web)
    /\ UNCHANGED <<image, taskVars, enq, pushes, online, mishaps>>

\* ... and the task is done either way.
InlineDone ==
    /\ pc[Web] = "inlineDone"
    /\ status' = [status EXCEPT ![job[Web]] = "done"]
    /\ Leave(Web, "inline")
    /\ Cross(Web)
    /\ UNCHANGED <<image, holder, expired, attempts, due, scan, enq, pushes, online, mishaps>>

\* Rows that ended a week ago are swept: no handler works on one for so long,
\* but a worker may still be scanning.
DispatchEnd ==
    /\ pc[Web] = "inline"
    /\ batch = {}
    /\ \E old \in SUBSET {d \in Images : status[d] \in {"done", "failed"}} :
         /\ \A p \in Workers : job[p] \in old => pc[p] = "scan"
         /\ status' = [d \in Images |-> IF d \in old THEN "none" ELSE status[d]]
         /\ holder' = [d \in Images |-> IF d \in old THEN None ELSE holder[d]]
         /\ expired' = expired \ old
         /\ due' = due \ old
         /\ attempts' = [d \in Images |-> IF d \in old THEN 0 ELSE attempts[d]]
    /\ Goto(Web, "idle")
    /\ UNCHANGED <<image, scan, enq, pushes, online, mishaps, history>>

\* The web app restarts in the middle of a tick.
WebRestarts ==
    /\ pc[Web] # "idle"
    /\ Mishap
    /\ pc' = [pc EXCEPT ![Web] = "idle"]
    /\ job' = [job EXCEPT ![Web] = None]
    /\ batch' = {}
    /\ lost' = lost \ {Web}
    /\ UNCHANGED <<image, taskVars, scan, enq, pushes, online, history>>

-----------------------------------------------------------------------------
(* The world *)

\* Twenty minutes pass; whoever is still at work is late.
LeaseExpires(d) ==
    /\ status[d] = "leased"
    /\ d \notin expired
    /\ IF AtWorkOn(d) = {} THEN UNCHANGED mishaps ELSE Mishap
    /\ expired' = expired \cup {d}
    /\ lost' = lost \cup AtWorkOn(d)
    /\ UNCHANGED <<image, status, holder, attempts, due, scan, enq, pushes, online, pc, job, batch, history>>

DelayEnds(d) ==
    /\ status[d] = "queued"
    /\ d \notin due
    /\ due' = due \cup {d}
    /\ UNCHANGED <<image, status, holder, expired, attempts, scan, enq, pushes, online, mishaps, procVars, history>>

DeleteImage(d) ==
    /\ d \in image
    /\ image' = image \ {d}
    /\ UNCHANGED <<taskVars, scan, enq, pushes, online, mishaps, procVars, history>>

WorkersLeave ==
    /\ online
    /\ Mishap
    /\ online' = FALSE
    /\ UNCHANGED <<image, taskVars, scan, enq, pushes, procVars, history>>

WorkersReturn ==
    /\ ~online
    /\ online' = TRUE
    /\ UNCHANGED <<image, taskVars, scan, enq, pushes, mishaps, procVars, history>>

WorkerStep(w) ==
    \/ ClaimTarget(w)
    \/ CompleteCheck(w)
    \/ CompleteStore(w)
    \/ CompleteDone(w)
    \/ FailCheck(w)
    \/ FailState(w)
    \/ FailForGood(w)
    \/ FailRetry(w)

TickStep ==
    \/ DispatchRelease
    \/ DispatchSelect
    \/ InlineLease
    \/ RunScanStart
    \/ RunScanEnd
    \/ InlineDone
    \/ DispatchEnd

Next ==
    \/ \E d \in Images :
         \/ EnqueueState(d)
         \/ EnqueueTask(d)
         \/ EnqueueFails(d)
         \/ LeaseExpires(d)
         \/ DelayEnds(d)
         \/ DeleteImage(d)
         \/ \E w \in Workers : Claim(w, d)
    \/ \E w \in Workers : WorkerStep(w) \/ Vanish(w)
    \/ TickStep
    \/ WebRestarts
    \/ WorkersLeave
    \/ WorkersReturn

Spec == Init /\ [][Next]_vars

\* Time passes, the scheduler ticks, a worker that is online asks for work, and
\* those at work go on.  (They are cut off as often as MaxMishaps allows.)
Fairness ==
    /\ \A d \in Images :
         /\ WF_vars(EnqueueTask(d) \/ EnqueueFails(d))
         /\ WF_vars(LeaseExpires(d))
         /\ WF_vars(DelayEnds(d))
    /\ \A w \in Workers :
         /\ WF_vars(\E d \in Images : Claim(w, d))
         /\ WF_vars(WorkerStep(w))
    /\ WF_vars(TickStep)

FairSpec == Spec /\ Fairness

-----------------------------------------------------------------------------
(* Properties *)

\* The shape of the state: a leased task has a holder, a queued one has none,
\* and whoever is at work has an image, with a row unless the worker has been
\* scanning since before the row was swept.
TypeOK ==
    /\ image \in SUBSET Images
    /\ status \in [Images -> {"none", "queued", "leased", "done", "failed"}]
    /\ holder \in [Images -> Procs \cup {None}]
    /\ expired \in SUBSET Images
    /\ attempts \in [Images -> 0 .. MaxAttempts]
    /\ due \in SUBSET Images
    /\ scan \in [Images -> {"none", "pending", "indexing", "scanned", "failed"}]
    /\ enq \in SUBSET Images
    /\ pushes \in [Images -> 0 .. MaxPushes]
    /\ online \in BOOLEAN
    /\ mishaps \in 0 .. MaxMishaps
    /\ pc \in [Procs -> {"idle", "select", "inline"} \cup AtWork]
    /\ job \in [Procs -> Images \cup {None}]
    /\ batch \in SUBSET Images
    /\ lost \in SUBSET Procs
    /\ crossed \in SUBSET Images
    /\ dropped \in SUBSET Images
    /\ \A d \in Images :
         /\ status[d] = "leased" => holder[d] \in Procs
         /\ status[d] \in {"none", "queued"} => holder[d] = None
    /\ \A d \in batch : status[d] # "none"
    /\ \A p \in Procs : pc[p] \in AtWork =>
         job[p] \in Images /\ (pc[p] # "scan" => status[job[p]] # "none")

\* "two workers never get the same task" (README.md:216), and the tick runs
\* "queued work here while no worker is online" (scan-tasks.ts:176): however
\* claims, reports, new requests and ticks fall between one another's
\* statements, two are at work on one image only after one of them has lost
\* it, by the clock, a new request or the tick's list, or after a handler has
\* written to a task that was no longer its own.
OneScannerPerTask ==
    \A p, q \in Procs :
      p # q /\ pc[p] \in AtWork /\ pc[q] \in AtWork /\ job[p] = job[q] =>
        {p, q} \cap lost # {} \/ job[p] \in crossed

\* completeScanTask, failScanTask and dispatchScanTasks: a task ends only with
\* the outcome of the scan on record, whatever overtakes whom, unless somebody
\* wrote to it who had lost it, or the next request is under way or dropped:
\* whoever asks for the image sees findings or a failure, not a scan that
\* never ends.
EndedTasksAreRecorded ==
    \A d \in image \ (crossed \cup dropped) : status[d] \in {"done", "failed"} =>
      d \in enq \/ scan[d] \in {"scanned", "failed"}

InProgress(d) == scan[d] \in {"pending", "indexing"}

\* enqueueScan to completeScanTask, failScanTask and dispatchScanTasks: every
\* scan that was asked for comes to an end, whoever is late, cut off or offline
\* meanwhile, unless a handler crossed it or its INSERT failed.
PendingScansEnd ==
    \A d \in Images : InProgress(d) ~>
      (~InProgress(d) \/ d \notin image \/ d \in crossed \/ d \in dropped)

\* dispatchScanTasks and claimScanTask: whatever races, fails or goes offline,
\* a queued task is picked up, by a worker or by the tick.
QueuedTasksMove == \A d \in Images : status[d] = "queued" ~> status[d] # "queued"

\* "switching the option on never stalls scans" (scan-tasks.ts:6): with a
\* database that does not fail, every scan that was asked for ends.  The code does not keep to it: a request that comes
\* between the result of the scan before it and the UPDATE that marks the task
\* done is marked done with it.
NeverStalled ==
    [](dropped = {}) =>
      \A d \in Images : InProgress(d) ~> (~InProgress(d) \/ d \notin image)
=============================================================================
