---- MODULE QuotaEnforce ----
(***************************************************************************)
(* The quota-enforce job (web/src/lib/quota-enforce.ts): a target above    *)
(* its storage limit is told, given a grace period, told again and pruned. *)
(* One target, an organization or the pool of an account; runs by the      *)
(* schedule and by hand may overlap, may be limited to some organization,  *)
(* have a grace period of their own, and may die at any step.  A run takes *)
(* less than a day.  A dry run writes and sends nothing.                   *)
(*                                                                         *)
(* The plan itself is in PruneToFit: it leaves what fits the limit, or     *)
(* what protected tags hold.                                               *)
(***************************************************************************)
EXTENDS Naturals, Integers

CONSTANTS
    EnforceRuns,   \* runs in progress
    Graces,        \* graceDays, the parameter runs are given
    MaxDays,       \* bound on days that are counted
    REMINDER_DAYS,
    Limit,         \* the storage limit, in images
    Held,          \* images that protected tags name
    MaxImages      \* bound on images

ASSUME EnforceAssumption ==
    /\ MaxDays \in Nat /\ Graces \subseteq 0..MaxDays /\ REMINDER_DAYS \in Nat /\ Limit \in Nat /\ Held \in Nat /\ MaxImages \in Nat
    /\ Held <= MaxImages

VARIABLES
    images,     \* images of the target that a tag or an index holds
    garbage,    \* images deleted whose blobs are still linked
    breach,     \* quota_breaches: days since first_over_at, notices sent; or NoBreach
    enforcing,  \* runs in progress: their parameter, what they read, and where they are
    overSince,  \* not in the code: days since every run found the target over; -1 when the last did not
    mails,      \* not in the code: notices handed to notify since then
    disagreed   \* not in the code: of two runs that overlapped one found the target over

enforceVars == <<images, garbage, breach, enforcing, overSince, mails, disagreed>>

NoBreach == [age |-> -1, noticed |-> FALSE, reminded |-> FALSE]
Breaches == {NoBreach} \cup [age : 0..MaxDays, noticed : BOOLEAN, reminded : BOOLEAN]
NoRun == [at |-> "idle", grace |-> 0, over |-> FALSE, row |-> NoBreach]
RunStates == [at : {"idle", "row", "notice", "record", "prune", "gc"}, grace : 0..MaxDays, over : BOOLEAN, row : Breaches]

EnforceTypeOK ==
    /\ images \in Held..MaxImages /\ garbage \in 0..MaxImages
    /\ breach \in Breaches
    /\ enforcing \in [EnforceRuns -> RunStates]
    /\ overSince \in -1..MaxDays /\ mails \subseteq {"notice", "reminder"} /\ disagreed \in BOOLEAN

EnforceInit ==
    /\ images = Held /\ garbage = 0 /\ breach = NoBreach
    /\ enforcing = [r \in EnforceRuns |-> NoRun]
    /\ overSince = -1 /\ mails = {} /\ disagreed = FALSE

\* repository_blobs counts what is linked, deleted or not.
UsedBytes == images + garbage

----------------------------------------------------------------------------
(* Everybody else. *)

PushImage ==
    /\ UsedBytes < MaxImages /\ images' = images + 1
    /\ UNCHANGED <<garbage, breach, enforcing, overSince, mails, disagreed>>

DeleteImage ==
    /\ images > Held /\ images' = images - 1 /\ garbage' = garbage + 1
    /\ UNCHANGED <<breach, enforcing, overSince, mails, disagreed>>

CollectGarbage ==
    /\ garbage > 0 /\ garbage' = 0
    /\ UNCHANGED <<images, breach, enforcing, overSince, mails, disagreed>>

DayOlder(n) == IF n \in {-1, MaxDays} THEN n ELSE n + 1
NextDay ==
    /\ \A r \in EnforceRuns : enforcing[r] = NoRun
    /\ breach' = [breach EXCEPT !.age = DayOlder(@)] /\ overSince' = DayOlder(overSince)
    /\ UNCHANGED <<images, garbage, enforcing, mails, disagreed>>

----------------------------------------------------------------------------
(* runQuotaEnforcement. *)

RunAt(r, at) == enforcing[r].at = at
GoTo(r, at) == enforcing' = [enforcing EXCEPT ![r].at = at]
Stop(r) == enforcing' = [enforcing EXCEPT ![r] = NoRun]

\* findBreaches, and the rows that are known.  A run that is limited to another
\* organization finds nothing about this one.
findBreaches(r) ==
    /\ RunAt(r, "idle")
    /\ \E over \in {UsedBytes > Limit, FALSE}, grace \in Graces :
         /\ enforcing' = [enforcing EXCEPT ![r] = [at |-> "row", grace |-> grace, over |-> over, row |-> breach]]
         /\ disagreed' = (disagreed \/ \E q \in EnforceRuns : enforcing[q] # NoRun /\ enforcing[q].over # over)
    /\ UNCHANGED <<images, garbage, breach, overSince, mails>>

\* The bookkeeping of the two variables that are not in the code.
Looked(over) ==
    /\ overSince' = IF ~over THEN -1 ELSE IF overSince = -1 THEN 0 ELSE overSince
    /\ mails' = IF over THEN mails ELSE {}

\* A target that was not found is forgotten; a new one is inserted, which fails
\* when another run was faster; a known one keeps its first_over_at.
forgetOrRecord(r) ==
    LET new == [age |-> 0, noticed |-> FALSE, reminded |-> FALSE]
    IN  /\ RunAt(r, "row")
        /\ \/ /\ ~enforcing[r].over
              /\ breach' = IF enforcing[r].row = NoBreach THEN breach ELSE NoBreach
              /\ Stop(r)
           \/ /\ enforcing[r].over /\ enforcing[r].row = NoBreach
              /\ IF breach # NoBreach THEN Stop(r) /\ UNCHANGED breach
                 ELSE breach' = new /\ enforcing' = [enforcing EXCEPT ![r].at = "notice", ![r].row = new]
           \/ /\ enforcing[r].over /\ enforcing[r].row # NoBreach
              /\ GoTo(r, "notice") /\ UNCHANGED breach
        /\ Looked(enforcing[r].over) /\ UNCHANGED <<images, garbage, disagreed>>

\* DaysLeft that is the days that have passed.
DaysLeft_Passed(r) == enforcing[r].row.age

DaysLeft(r) == enforcing[r].grace - enforcing[r].row.age

\* The notice that is due, by the row as it was read.
Due(r) ==
    LET row == enforcing[r].row
    IN  IF ~row.noticed THEN "notice"
        ELSE IF ~row.reminded /\ DaysLeft(r) > 0 /\ DaysLeft(r) <= REMINDER_DAYS THEN "reminder" ELSE "none"
AfterNotice(r) == IF DaysLeft(r) > 0 THEN Stop(r) ELSE GoTo(r, "prune")

\* notify; a mail that fails counts as sent ...
sendNotice(r) ==
    /\ RunAt(r, "notice")
    /\ IF Due(r) = "none" THEN AfterNotice(r) /\ UNCHANGED mails
       ELSE GoTo(r, "record") /\ mails' = mails \cup {Due(r)}
    /\ UNCHANGED <<images, garbage, breach, overSince, disagreed>>

\* ... and the row, if there still is one, says so.
recordNotice(r) ==
    /\ RunAt(r, "record")
    /\ breach' = IF breach = NoBreach THEN NoBreach
                 ELSE IF Due(r) = "notice" THEN [breach EXCEPT !.noticed = TRUE] ELSE [breach EXCEPT !.reminded = TRUE]
    /\ AfterNotice(r)
    /\ UNCHANGED <<images, garbage, overSince, mails, disagreed>>

\* Every image above the limit that no protected tag holds, or fewer: deletions
\* fail, and the plan for an account's pool counts a blob that several
\* organizations have once, while the limit counts it in each.  Garbage
\* collection follows when something was planned.
Pruned == IF images <= Limit THEN images ELSE IF Limit < Held THEN Held ELSE Limit
prune(r) ==
    /\ RunAt(r, "prune")
    /\ \E left \in Pruned..images :
           images' = left /\ garbage' = garbage + (images - left)
    /\ \/ Pruned < images /\ GoTo(r, "gc")
       \/ images' = images /\ Stop(r)
    /\ UNCHANGED <<breach, overSince, mails, disagreed>>

triggerGarbageCollection(r) ==
    /\ RunAt(r, "gc") /\ garbage' \in {0, garbage} /\ Stop(r)
    /\ UNCHANGED <<images, breach, overSince, mails, disagreed>>

RunDies(r) ==
    /\ ~RunAt(r, "idle") /\ Stop(r)
    /\ UNCHANGED <<images, garbage, breach, overSince, mails, disagreed>>

EnforceRun(r) ==
    findBreaches(r) \/ forgetOrRecord(r) \/ sendNotice(r) \/ recordNotice(r) \/ prune(r) \/ triggerGarbageCollection(r)

EnforceNext ==
    \/ PushImage \/ DeleteImage \/ CollectGarbage \/ NextDay
    \/ \E r \in EnforceRuns : EnforceRun(r) \/ RunDies(r)

EnforceSpec == EnforceInit /\ [][EnforceNext]_enforceVars

----------------------------------------------------------------------------

Pruning(r) == RunAt(r, "prune") /\ enforcing'[r] # enforcing[r] /\ images' < images

\* runQuotaEnforcement: images are removed only when a notice has gone out and
\* every run for as many days as this one grants has found the target over its
\* limit, however runs die and overlap; a target that a run does not find
\* starts anew.  (Unless runs overlap of which one finds the target and the
\* other does not: then the one may go by a row that the other removes.)
PrunedAfterGrace == [][
    \A r \in EnforceRuns : Pruning(r) /\ ~disagreed => overSince >= enforcing[r].grace /\ "notice" \in mails
    ]_enforceVars

\* README.md: "mails the owners once with the date pruning starts, mails again
\* two days before it, and after `graceDays` (default 14) removes the oldest
\* images": whoever is pruned has had the reminder.
RemindedBeforePruned == [][\A r \in EnforceRuns : Pruning(r) /\ ~disagreed => "reminder" \in mails]_enforceVars
====
