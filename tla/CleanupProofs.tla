--------------------------- MODULE CleanupProofs ---------------------------
(***************************************************************************)
(* What moves and removes images on somebody's behalf: quota enforcement   *)
(* with any number of runs, limits and days, the clients that re-point     *)
(* tags, retention, with any number of repositories, tags and images, the  *)
(* preview of a bulk move, with any repositories, limits and owners, and   *)
(* the plans of pruning, for repositories of any shape.                    *)
(***************************************************************************)
EXTENDS QuotaEnforce, PruneToFit, TagClients, Retention, RepoMoves, FiniteSetTheorems, SequenceTheorems, TLAPS

-----------------------------------------------------------------------------
(* Quota enforcement. *)

\* What is counted stays within the bound, and a run that is idle has nothing
\* left from an earlier one.
EnforceTyped ==
    /\ EnforceTypeOK /\ UsedBytes <= MaxImages
    /\ \A r \in EnforceRuns : enforcing[r].at = "idle" => enforcing[r] = NoRun

Agreed == \A q, r \in EnforceRuns : enforcing[q] # NoRun /\ enforcing[r] # NoRun => enforcing[q].over = enforcing[r].over

\* The row of a breach is no older than the time the target has been over, and
\* says that a notice was sent only when one was.
RowIsTrue == breach # NoBreach => breach.age <= overSince /\ (breach.noticed => "notice" \in mails)

\* What a run has read is still there, of the same day; while it does not find
\* the target, nobody adds the row.  A run that prunes has seen its grace period
\* pass and the notice go out.
ReadIsThere(r) ==
    LET row == enforcing[r].row
    IN  row # NoBreach /\ breach # NoBreach /\ breach.age = row.age /\ (row.noticed => breach.noticed)
Knows(r) ==
    LET run == enforcing[r]
    IN  /\ run.at # "idle" /\ ~run.over => run.at = "row" /\ breach \in {run.row, NoBreach}
        /\ run.at = "row" /\ run.over /\ run.row # NoBreach => ReadIsThere(r)
        /\ run.at \in {"notice", "record"} => ReadIsThere(r)
        /\ run.at = "record" /\ ~run.row.noticed => "notice" \in mails
        /\ run.at = "prune" => overSince >= run.grace /\ "notice" \in mails

\* What makes PrunedAfterGrace inductive.
EnforceInv ==
    /\ EnforceTyped
    /\ ~disagreed => Agreed /\ RowIsTrue /\ \A r \in EnforceRuns : Knows(r)

\* What the fields of a row and of a run are.
LEMMA RowFields ==
    /\ NoBreach \in Breaches /\ NoRun \in RunStates /\ NoRun.at = "idle" /\ NoBreach.age = -1
    /\ \A b \in Breaches : b # NoBreach => b \in [age : 0..MaxDays, noticed : BOOLEAN, reminded : BOOLEAN]
    /\ \A b \in [age : 0..MaxDays, noticed : BOOLEAN, reminded : BOOLEAN] : b \in Breaches /\ b # NoBreach
    /\ \A b \in Breaches : b.noticed \in BOOLEAN
<1>1. NoBreach \in Breaches
  BY DEF Breaches
<1>2. NoRun \in RunStates /\ NoRun.at = "idle"
  BY <1>1, EnforceAssumption DEF NoRun, RunStates
<1>3. \A b \in [age : 0..MaxDays, noticed : BOOLEAN, reminded : BOOLEAN] : b.age # -1
  BY EnforceAssumption
<1>4. NoBreach.noticed \in BOOLEAN /\ NoBreach.age = -1
  BY DEF NoBreach
<1>5. \A b \in [age : 0..MaxDays, noticed : BOOLEAN, reminded : BOOLEAN] : b.noticed \in BOOLEAN
  OBVIOUS
<1> QED
  BY <1>1, <1>2, <1>3, <1>4, <1>5 DEF Breaches

\* The fields of a run, as the provers need them.
LEMMA RunFields ==
    ASSUME EnforceTypeOK, NEW r \in EnforceRuns
    PROVE  /\ enforcing \in [EnforceRuns -> RunStates]
           /\ enforcing[r].at \in {"idle", "row", "notice", "record", "prune", "gc"} /\ enforcing[r].over \in BOOLEAN
           /\ enforcing[r].row \in Breaches
BY DEF EnforceTypeOK, RunStates

\* The inductive invariant holds before the first run of the job.
LEMMA EnforceInitInv == EnforceInit => EnforceInv
<1> SUFFICES ASSUME EnforceInit PROVE EnforceInv
  OBVIOUS
<1> USE EnforceAssumption
<1>1. EnforceTyped
  <2>1. enforcing \in [EnforceRuns -> RunStates] /\ \A r \in EnforceRuns : enforcing[r] = NoRun
    BY RowFields DEF EnforceInit
  <2>2. images \in Held..MaxImages /\ garbage \in 0..MaxImages /\ overSince \in -1..MaxDays /\ UsedBytes <= MaxImages
    BY DEF EnforceInit, UsedBytes
  <2>3. breach \in Breaches /\ mails \subseteq {"notice", "reminder"} /\ disagreed \in BOOLEAN
    BY RowFields DEF EnforceInit
  <2> QED
    BY <2>1, <2>2, <2>3 DEF EnforceTyped, EnforceTypeOK
<1> QED
  BY <1>1, RowFields DEF EnforceInit, EnforceInv, Agreed, RowIsTrue, Knows

\* Steps of people and of the collector, which the runs do not see.
LEMMA OthersKeepInv ==
    ASSUME EnforceInv, EnforceTyped', UNCHANGED <<breach, enforcing, overSince, mails, disagreed>>
    PROVE  EnforceInv'
BY DEF EnforceInv, Agreed, RowIsTrue, Knows, ReadIsThere

\* A run that stops leaves the others as they are.
LEMMA StopKeepsTyped ==
    ASSUME EnforceTyped, NEW r \in EnforceRuns, Stop(r)
    PROVE  /\ enforcing' \in [EnforceRuns -> RunStates]
           /\ enforcing'[r] = NoRun /\ \A q \in EnforceRuns \ {r} : enforcing'[q] = enforcing[q]
           /\ \A q \in EnforceRuns : enforcing'[q].at = "idle" => enforcing'[q] = NoRun
BY RowFields DEF EnforceTyped, EnforceTypeOK, Stop

\* What a run does that found the target: the row stays, or is new, and what is
\* counted grows.
Firm == /\ breach # NoBreach => breach' # NoBreach /\ breach'.age = breach.age /\ (breach.noticed => breach'.noticed)
        /\ overSince' \in Int /\ overSince' >= overSince /\ mails \subseteq mails'

\* A run that takes a step: what the others know stays true.
LEMMA RunStepKeepsInv ==
    ASSUME EnforceInv, EnforceTyped', NEW r \in EnforceRuns, enforcing[r].at # "idle",
           NEW STATE new, enforcing' = [enforcing EXCEPT ![r] = new], disagreed' = disagreed,
           new = NoRun \/ new.over = enforcing[r].over,
           ~disagreed => /\ IF enforcing[r].over THEN Firm ELSE breach' \in {breach, NoBreach}
                         /\ RowIsTrue' /\ Knows(r)'
    PROVE  EnforceInv'
<1>0. \A q \in EnforceRuns : enforcing'[q] = IF q = r THEN new ELSE enforcing[q]
  BY DEF EnforceInv, EnforceTyped, EnforceTypeOK
<1>1. ASSUME ~disagreed PROVE Agreed' /\ \A q \in EnforceRuns : Knows(q)'
  <2>1. enforcing[r] # NoRun
    BY RowFields
  <2>2. Agreed'
    BY <1>0, <1>1, <2>1 DEF EnforceInv, Agreed
  <2>3. ASSUME NEW q \in EnforceRuns, q # r, enforcing[q].at # "idle" PROVE Knows(q)'
    <3>1. enforcing[q].over = enforcing[r].over /\ Knows(q) /\ enforcing'[q] = enforcing[q]
      BY <1>0, <1>1, <2>1, <2>3, RowFields DEF EnforceInv, Agreed
    <3>2. CASE ~enforcing[r].over
      <4>1. enforcing[q].at = "row" /\ breach \in {enforcing[q].row, NoBreach} /\ ~enforcing[q].over
        BY <2>3, <3>1, <3>2 DEF Knows
      <4>2. breach' \in {breach, NoBreach}
        BY <1>1, <3>2
      <4> QED
        BY <3>1, <4>1, <4>2 DEF Knows
    <3>3. CASE enforcing[r].over
      <4>1. Firm /\ enforcing[q].over
        BY <1>1, <3>1, <3>3
      <4>2. ReadIsThere(q) => ReadIsThere(q)'
        BY <3>1, <4>1 DEF ReadIsThere, Firm
      <4>3. overSince >= enforcing[q].grace => overSince' >= enforcing[q].grace
        <5>1. overSince \in Int /\ enforcing[q].grace \in Int /\ overSince' \in Int /\ overSince' >= overSince
          BY <4>1, EnforceAssumption DEF EnforceInv, EnforceTyped, EnforceTypeOK, RunStates, Firm
        <5> QED
          BY <5>1
      <4> QED
        BY <3>1, <4>1, <4>2, <4>3 DEF Knows, Firm
    <3> QED
      BY <3>2, <3>3
  <2>4. ASSUME NEW q \in EnforceRuns, q # r, enforcing[q].at = "idle" PROVE Knows(q)'
    BY <1>0, <2>4 DEF Knows
  <2> QED
    BY <1>1, <2>2, <2>3, <2>4
<1> QED
  BY <1>1 DEF EnforceInv

\* A run that has ended knows nothing.
LEMMA IdleKnows == ASSUME NEW r \in EnforceRuns, enforcing'[r] = NoRun PROVE Knows(r)'
BY RowFields DEF Knows

\* A run that goes on from its notice, or stops.
LEMMA AfterNoticeKeepsInv ==
    ASSUME EnforceInv, NEW r \in EnforceRuns, enforcing[r].at \in {"notice", "record"}, AfterNotice(r),
           UNCHANGED <<images, garbage, overSince, disagreed>>, breach' \in Breaches, mails' \subseteq {"notice", "reminder"},
           ~disagreed => (enforcing[r].over => Firm) /\ RowIsTrue' /\ "notice" \in mails'
    PROVE  EnforceInv'
<1> USE EnforceAssumption
<1>1. /\ EnforceTyped /\ enforcing[r] \in RunStates /\ enforcing[r].row \in Breaches
      /\ enforcing[r].grace \in Int /\ overSince \in Int
  BY DEF EnforceInv, EnforceTyped, EnforceTypeOK, RunStates
<1>2. ~disagreed => enforcing[r].over /\ Knows(r) /\ ReadIsThere(r) /\ RowIsTrue
  BY DEF EnforceInv, Knows
<1>3. CASE Stop(r)
  <2>1. EnforceTyped'
    <3>1. enforcing' \in [EnforceRuns -> RunStates] /\ \A q \in EnforceRuns : enforcing'[q].at = "idle" => enforcing'[q] = NoRun
      BY <1>1, <1>3, StopKeepsTyped
    <3> QED
      BY <1>1, <3>1 DEF EnforceTyped, EnforceTypeOK, UsedBytes
  <2>2. Knows(r)'
    BY <1>1, <1>3, StopKeepsTyped, IdleKnows
  <2> QED
    BY <1>2, <1>3, <2>1, <2>2, RunStepKeepsInv DEF Stop
<1>4. CASE ~(DaysLeft(r) > 0) /\ GoTo(r, "prune")
  <2> DEFINE run == [enforcing[r] EXCEPT !.at = "prune"]
  <2>1. run \in RunStates /\ run.at = "prune" /\ run.over = enforcing[r].over /\ run.grace = enforcing[r].grace
    BY <1>1 DEF RunStates
  <2> HIDE DEF run
  <2>2. enforcing' = [enforcing EXCEPT ![r] = run]
    BY <1>1, <1>4 DEF GoTo, run, EnforceTyped, EnforceTypeOK
  <2>3. EnforceTyped' /\ enforcing'[r] = run
    BY <1>1, <2>1, <2>2 DEF EnforceTyped, EnforceTypeOK, UsedBytes
  <2>4. ASSUME ~disagreed PROVE Knows(r)'
    <3>1. breach # NoBreach /\ breach.age = enforcing[r].row.age /\ breach.age <= overSince
      BY <1>2, <2>4 DEF ReadIsThere, RowIsTrue
    <3>2. breach.age \in Int
      <4>1. breach \in Breaches
        BY <1>1 DEF EnforceTyped, EnforceTypeOK
      <4> QED
        BY <3>1, <4>1, RowFields
    <3>3. overSince >= enforcing[r].grace
      BY <1>1, <1>4, <3>1, <3>2 DEF DaysLeft
    <3> QED
      BY <1>2, <2>1, <2>3, <2>4, <3>3 DEF Knows
  <2> QED
    BY <1>2, <2>1, <2>2, <2>3, <2>4, RunStepKeepsInv
<1> QED
  BY <1>3, <1>4 DEF AfterNotice

\* Every step of runs, people, the collector and the clock.
LEMMA EnforceStep == EnforceInv /\ [EnforceNext]_enforceVars => EnforceInv'
<1> SUFFICES ASSUME EnforceInv, [EnforceNext]_enforceVars PROVE EnforceInv'
  OBVIOUS
<1> USE EnforceAssumption
<1>a. /\ images \in Held..MaxImages /\ garbage \in 0..MaxImages /\ images + garbage <= MaxImages
      /\ breach \in Breaches /\ enforcing \in [EnforceRuns -> RunStates]
      /\ overSince \in -1..MaxDays /\ mails \subseteq {"notice", "reminder"} /\ disagreed \in BOOLEAN
      /\ \A r \in EnforceRuns : enforcing[r].at = "idle" => enforcing[r] = NoRun
  BY DEF EnforceInv, EnforceTyped, EnforceTypeOK, UsedBytes
<1>b. /\ breach # NoBreach => breach.age \in 0..MaxDays /\ breach.noticed \in BOOLEAN /\ breach.reminded \in BOOLEAN
      /\ breach = NoBreach => breach.age = -1
  BY <1>a, RowFields
<1>t. ASSUME /\ images' \in Held..MaxImages /\ garbage' \in 0..MaxImages /\ images' + garbage' <= MaxImages
             /\ breach' \in Breaches /\ enforcing' \in [EnforceRuns -> RunStates]
             /\ overSince' \in -1..MaxDays /\ mails' \subseteq {"notice", "reminder"} /\ disagreed' \in BOOLEAN
             /\ \A r \in EnforceRuns : enforcing'[r].at = "idle" => enforcing'[r] = NoRun
      PROVE  EnforceTyped'
  BY <1>t DEF EnforceTyped, EnforceTypeOK, UsedBytes
<1>1. CASE UNCHANGED enforceVars
  <2>1. EnforceTyped'
    BY <1>1, <1>a, <1>t DEF enforceVars
  <2> QED
    BY <1>1, <2>1, OthersKeepInv DEF enforceVars
<1>2. CASE PushImage \/ DeleteImage \/ CollectGarbage
  <2>1. UNCHANGED <<breach, enforcing, overSince, mails, disagreed>>
    BY <1>2 DEF PushImage, DeleteImage, CollectGarbage
  <2>2. images' \in Held..MaxImages /\ garbage' \in 0..MaxImages /\ images' + garbage' <= MaxImages
    BY <1>2, <1>a DEF PushImage, DeleteImage, CollectGarbage, UsedBytes
  <2>3. EnforceTyped'
    BY <1>a, <1>t, <2>1, <2>2
  <2> QED
    BY <2>1, <2>3, OthersKeepInv
<1>3. CASE NextDay
  <2>1. /\ \A r \in EnforceRuns : enforcing[r] = NoRun
        /\ breach' = [breach EXCEPT !.age = DayOlder(breach.age)] /\ overSince' = DayOlder(overSince)
        /\ UNCHANGED <<images, garbage, enforcing, mails, disagreed>>
    BY <1>3 DEF NextDay
  <2>2. overSince' \in -1..MaxDays
    BY <1>a, <2>1 DEF DayOlder
  <2>3. CASE breach = NoBreach
    <3>1. breach' = NoBreach
      BY <2>1, <2>3 DEF NoBreach, DayOlder
    <3>2. EnforceTyped'
      BY <1>a, <1>t, <2>1, <2>2, <3>1, RowFields
    <3> QED
      BY <2>1, <3>1, <3>2, RowFields DEF EnforceInv, Agreed, RowIsTrue, Knows
  <2>4. CASE breach # NoBreach
    <3>1. DayOlder(breach.age) \in 0..MaxDays
      BY <1>b, <2>4 DEF DayOlder
    <3>2. breach' \in [age : 0..MaxDays, noticed : BOOLEAN, reminded : BOOLEAN] /\ breach'.age = DayOlder(breach.age)
          /\ breach'.noticed = breach.noticed
      BY <1>a, <2>1, <2>4, <3>1, RowFields
    <3>3. EnforceTyped'
      BY <1>a, <1>t, <2>1, <2>2, <3>2, RowFields
    <3>4. breach.age <= overSince => DayOlder(breach.age) <= DayOlder(overSince)
      BY <1>a, <1>b, <2>4 DEF DayOlder
    <3>5. ~disagreed => RowIsTrue'
      BY <2>1, <2>4, <3>2, <3>4 DEF EnforceInv, RowIsTrue
    <3> QED
      BY <2>1, <3>3, <3>5, RowFields DEF EnforceInv, Agreed, Knows
  <2> QED
    BY <2>3, <2>4
<1>4. ASSUME NEW r \in EnforceRuns, findBreaches(r) PROVE EnforceInv'
  <2>1. PICK over \in {UsedBytes > Limit, FALSE}, grace \in Graces :
            /\ enforcing' = [enforcing EXCEPT ![r] = [at |-> "row", grace |-> grace, over |-> over, row |-> breach]]
            /\ disagreed' = (disagreed \/ \E q \in EnforceRuns : enforcing[q] # NoRun /\ enforcing[q].over # over)
    BY <1>4 DEF findBreaches
  <2>2. enforcing[r].at = "idle" /\ UNCHANGED <<images, garbage, breach, overSince, mails>>
    BY <1>4 DEF findBreaches, RunAt
  <2> DEFINE run == [at |-> "row", grace |-> grace, over |-> over, row |-> breach]
  <2>3. run \in RunStates /\ run.at = "row" /\ run.row = breach /\ run.over = over
    <3>0. (UsedBytes > Limit) \in BOOLEAN
      OBVIOUS
    <3>1. over \in BOOLEAN /\ grace \in 0..MaxDays
      BY <2>1, <3>0
    <3> QED
      BY <1>a, <3>1 DEF RunStates
  <2> HIDE DEF run
  <2>4. enforcing' = [enforcing EXCEPT ![r] = run]
    BY <2>1 DEF run
  <2>5. EnforceTyped'
    <3>1. disagreed' \in BOOLEAN
      BY <2>1
    <3> QED
      BY <1>a, <1>t, <2>2, <2>3, <2>4, <3>1
  <2>6. \A q \in EnforceRuns : enforcing'[q] = IF q = r THEN run ELSE enforcing[q]
    BY <1>a, <2>4
  <2>7. ASSUME ~disagreed' PROVE Agreed' /\ RowIsTrue' /\ \A q \in EnforceRuns : Knows(q)'
    <3>1. ~disagreed /\ \A q \in EnforceRuns : enforcing[q] # NoRun => enforcing[q].over = over
      BY <2>1, <2>7
    <3>2. Agreed'
      BY <2>3, <2>6, <3>1 DEF Agreed
    <3>3. RowIsTrue'
      BY <2>2, <3>1 DEF EnforceInv, RowIsTrue
    <3>4. Knows(r)'
      BY <2>2, <2>3, <2>6 DEF Knows, ReadIsThere
    <3>5. ASSUME NEW q \in EnforceRuns, q # r PROVE Knows(q)'
      <4>1. Knows(q) /\ enforcing'[q] = enforcing[q]
        BY <2>6, <3>1, <3>5 DEF EnforceInv
      <4> QED
        BY <2>2, <4>1 DEF Knows, ReadIsThere
    <3> QED
      BY <3>2, <3>3, <3>4, <3>5
  <2> QED
    BY <2>5, <2>7 DEF EnforceInv
<1>5. ASSUME NEW r \in EnforceRuns, forgetOrRecord(r) PROVE EnforceInv'
  <2> DEFINE new == [age |-> 0, noticed |-> FALSE, reminded |-> FALSE]
             row == enforcing[r].row
             over == enforcing[r].over
  <2>1. /\ enforcing[r].at = "row" /\ UNCHANGED <<images, garbage, disagreed>>
        /\ overSince' = (IF ~over THEN -1 ELSE IF overSince = -1 THEN 0 ELSE overSince)
        /\ mails' = (IF over THEN mails ELSE {})
    BY <1>5 DEF forgetOrRecord, RunAt, Looked
  <2>2. overSince' \in -1..MaxDays /\ mails' \subseteq {"notice", "reminder"}
        /\ (over => overSince' >= overSince /\ overSince' >= 0 /\ mails \subseteq mails')
    BY <1>a, <2>1
  <2>3. new \in [age : 0..MaxDays, noticed : BOOLEAN, reminded : BOOLEAN] /\ new \in Breaches /\ new # NoBreach
    <3>1. new \in [age : 0..MaxDays, noticed : BOOLEAN, reminded : BOOLEAN]
      OBVIOUS
    <3> HIDE DEF new
    <3> QED
      BY <3>1, RowFields
  <2>4. enforcing[r] \in RunStates /\ row \in Breaches /\ over \in BOOLEAN
    BY <1>a DEF RunStates
  <2>5. ~disagreed => RowIsTrue /\ Knows(r)
    BY DEF EnforceInv
  <2>0. over /\ UNCHANGED breach => Firm
    BY <1>a, <2>2 DEF Firm
  <2> HIDE DEF new
  <2>6. CASE ~over /\ Stop(r) /\ breach' = (IF row = NoBreach THEN breach ELSE NoBreach)
    <3>1. breach' \in Breaches
      BY <1>a, <2>6, RowFields
    <3>2. EnforceTyped' /\ enforcing'[r] = NoRun
      BY <1>a, <1>t, <2>1, <2>2, <2>6, <3>1, StopKeepsTyped DEF EnforceInv
    <3>3. ~disagreed => breach' = NoBreach
      BY <2>1, <2>5, <2>6 DEF Knows
    <3> QED
      BY <2>1, <2>6, <3>2, <3>3, IdleKnows, RunStepKeepsInv DEF Stop, RowIsTrue
  <2>7. CASE over /\ Stop(r) /\ UNCHANGED breach
    <3>1. EnforceTyped' /\ enforcing'[r] = NoRun
      BY <1>a, <1>t, <2>1, <2>2, <2>7, StopKeepsTyped DEF EnforceInv
    <3>2. ~disagreed => RowIsTrue'
      BY <1>a, <1>b, <2>1, <2>2, <2>5, <2>7 DEF RowIsTrue
    <3> QED
      BY <2>0, <2>1, <2>7, <3>1, <3>2, IdleKnows, RunStepKeepsInv DEF Stop
  <2>8. CASE over /\ row = NoBreach /\ breach = NoBreach /\ breach' = new
             /\ enforcing' = [enforcing EXCEPT ![r] = [enforcing[r] EXCEPT !.at = "notice", !.row = new]]
    <3> DEFINE run == [enforcing[r] EXCEPT !.at = "notice", !.row = new]
    <3>1. run \in RunStates /\ run.at = "notice" /\ run.row = new /\ run.over = over
      BY <2>3, <2>4 DEF RunStates
    <3> HIDE DEF run
    <3>2. enforcing' = [enforcing EXCEPT ![r] = run]
      BY <2>8 DEF run
    <3>3. EnforceTyped' /\ enforcing'[r] = run
      BY <1>a, <1>t, <2>1, <2>2, <2>3, <2>8, <3>1, <3>2
    <3>4. RowIsTrue' /\ Firm
      BY <1>a, <2>1, <2>2, <2>8 DEF RowIsTrue, Firm, new
    <3>5. Knows(r)'
      BY <2>3, <2>8, <3>1, <3>3 DEF Knows, ReadIsThere
    <3> QED
      BY <2>1, <2>8, <3>1, <3>2, <3>3, <3>4, <3>5, RunStepKeepsInv
  <2>9. CASE over /\ row # NoBreach /\ UNCHANGED breach /\ enforcing' = [enforcing EXCEPT ![r] = [enforcing[r] EXCEPT !.at = "notice"]]
    <3> DEFINE run == [enforcing[r] EXCEPT !.at = "notice"]
    <3>1. run \in RunStates /\ run.at = "notice" /\ run.row = row /\ run.over = over
      BY <2>4 DEF RunStates
    <3> HIDE DEF run
    <3>2. enforcing' = [enforcing EXCEPT ![r] = run]
      BY <2>9 DEF run
    <3>3. EnforceTyped' /\ enforcing'[r] = run
      BY <1>a, <1>t, <2>1, <2>2, <2>9, <3>1, <3>2
    <3>4. ~disagreed => RowIsTrue'
      BY <1>a, <1>b, <2>1, <2>2, <2>5, <2>9 DEF RowIsTrue
    <3>5. ~disagreed => Knows(r)'
      BY <2>1, <2>5, <2>9, <3>1, <3>3 DEF Knows, ReadIsThere
    <3> QED
      BY <2>0, <2>1, <2>9, <3>1, <3>2, <3>3, <3>4, <3>5, RunStepKeepsInv
  <2>10. \/ ~over /\ breach' = (IF row = NoBreach THEN breach ELSE NoBreach) /\ Stop(r)
         \/ over /\ row = NoBreach /\ breach # NoBreach /\ Stop(r) /\ UNCHANGED breach
         \/ over /\ row = NoBreach /\ breach = NoBreach /\ breach' = new
            /\ enforcing' = [enforcing EXCEPT ![r] = [enforcing[r] EXCEPT !.at = "notice", !.row = new]]
         \/ over /\ row # NoBreach /\ UNCHANGED breach
            /\ enforcing' = [enforcing EXCEPT ![r] = [enforcing[r] EXCEPT !.at = "notice"]]
    BY <1>5, <1>a DEF forgetOrRecord, GoTo, new
  <2> QED
    BY <2>6, <2>7, <2>8, <2>9, <2>10
<1>6. ASSUME NEW r \in EnforceRuns, sendNotice(r) PROVE EnforceInv'
  <2>1. enforcing[r].at = "notice" /\ UNCHANGED <<images, garbage, breach, overSince, disagreed>>
    BY <1>6 DEF sendNotice, RunAt
  <2>2. enforcing[r] \in RunStates /\ enforcing[r].row.noticed \in BOOLEAN
    <3>1. enforcing[r] \in RunStates /\ enforcing[r].row \in Breaches
      BY <1>a DEF RunStates
    <3> QED
      BY <3>1, RowFields
  <2>3. ~disagreed => RowIsTrue /\ Knows(r) /\ ReadIsThere(r) /\ enforcing[r].over
    BY <2>1 DEF EnforceInv, Knows
  <2>4. Due(r) \in {"notice", "reminder", "none"} /\ (~enforcing[r].row.noticed <=> Due(r) = "notice")
    BY <2>2 DEF Due
  <2>5. CASE Due(r) = "none" /\ AfterNotice(r) /\ UNCHANGED mails
    <3>1. Firm
      BY <1>a, <2>1, <2>5 DEF Firm
    <3>2. ~disagreed => RowIsTrue' /\ "notice" \in mails'
      BY <2>1, <2>2, <2>3, <2>4, <2>5 DEF RowIsTrue, ReadIsThere
    <3> QED
      BY <1>a, <2>1, <2>5, <3>1, <3>2, AfterNoticeKeepsInv
  <2>6. CASE Due(r) # "none" /\ GoTo(r, "record") /\ mails' = mails \cup {Due(r)}
    <3> DEFINE run == [enforcing[r] EXCEPT !.at = "record"]
    <3>1. run \in RunStates /\ run.at = "record" /\ run.row = enforcing[r].row /\ run.over = enforcing[r].over
      BY <2>2 DEF RunStates
    <3> HIDE DEF run
    <3>2. enforcing' = [enforcing EXCEPT ![r] = run]
      BY <1>a, <2>6 DEF run, GoTo
    <3>3. mails' \subseteq {"notice", "reminder"} /\ mails \subseteq mails'
      BY <1>a, <2>4, <2>6
    <3>4. EnforceTyped' /\ enforcing'[r] = run
      BY <1>a, <1>t, <2>1, <3>1, <3>2, <3>3
    <3>5. Firm
      BY <1>a, <2>1, <3>3 DEF Firm
    <3>6. ~disagreed => RowIsTrue'
      BY <2>1, <2>3, <3>3 DEF RowIsTrue
    <3>7. ~disagreed => Knows(r)'
      BY <2>1, <2>3, <2>4, <2>6, <3>1, <3>4 DEF Knows, ReadIsThere
    <3> QED
      BY <2>1, <2>3, <3>1, <3>2, <3>4, <3>5, <3>6, <3>7, RunStepKeepsInv
  <2> QED
    BY <1>6, <2>5, <2>6 DEF sendNotice
<1>7. ASSUME NEW r \in EnforceRuns, recordNotice(r) PROVE EnforceInv'
  <2>1. enforcing[r].at = "record" /\ AfterNotice(r) /\ UNCHANGED <<images, garbage, overSince, mails, disagreed>>
    BY <1>7 DEF recordNotice, RunAt
  <2>2. \/ breach = NoBreach /\ breach' = NoBreach
        \/ breach # NoBreach /\ ~enforcing[r].row.noticed /\ breach' = [breach EXCEPT !.noticed = TRUE]
        \/ breach # NoBreach /\ enforcing[r].row.noticed /\ breach' = [breach EXCEPT !.reminded = TRUE]
        \/ breach # NoBreach /\ breach' = [breach EXCEPT !.reminded = TRUE]
    BY <1>7 DEF recordNotice, Due
  <2>3. /\ breach' \in Breaches
        /\ breach # NoBreach => breach' # NoBreach /\ breach'.age = breach.age /\ (breach.noticed => breach'.noticed)
                                /\ (breach'.noticed => breach.noticed \/ ~enforcing[r].row.noticed)
        /\ breach = NoBreach => breach' = NoBreach
    BY <1>a, <2>2, RowFields
  <2>4. Firm
    BY <1>a, <2>1, <2>3 DEF Firm
  <2>5. ASSUME ~disagreed PROVE RowIsTrue' /\ "notice" \in mails'
    <3>1. RowIsTrue /\ Knows(r) /\ ReadIsThere(r)
      BY <2>1, <2>5 DEF EnforceInv, Knows
    <3>2. "notice" \in mails
      <4>1. enforcing[r].row \in Breaches
        BY <1>a DEF RunStates
      <4>2. enforcing[r].row.noticed \in BOOLEAN
        BY <4>1, RowFields
      <4> QED
        BY <2>1, <3>1, <4>2 DEF Knows, ReadIsThere, RowIsTrue
    <3> QED
      BY <2>1, <2>3, <3>1, <3>2 DEF RowIsTrue
  <2> QED
    BY <1>a, <2>1, <2>3, <2>4, <2>5, AfterNoticeKeepsInv
<1>8. ASSUME NEW r \in EnforceRuns, prune(r) PROVE EnforceInv'
  <2>1. enforcing[r].at = "prune" /\ UNCHANGED <<breach, overSince, mails, disagreed>>
    BY <1>8 DEF prune, RunAt
  <2>2. PICK left \in Pruned..images : images' = left /\ garbage' = garbage + (images - left)
    BY <1>8 DEF prune
  <2>3. images' \in Held..MaxImages /\ garbage' \in 0..MaxImages /\ images' + garbage' <= MaxImages
    BY <1>a, <2>2 DEF Pruned
  <2>4. ~disagreed => RowIsTrue' /\ Firm /\ enforcing[r].over
    BY <1>a, <2>1 DEF EnforceInv, RowIsTrue, Firm, Knows
  <2>5. CASE Stop(r)
    <3>1. EnforceTyped' /\ enforcing'[r] = NoRun
      BY <1>a, <1>t, <2>1, <2>3, <2>5, StopKeepsTyped DEF EnforceInv
    <3> QED
      BY <2>1, <2>4, <2>5, <3>1, IdleKnows, RunStepKeepsInv DEF Stop
  <2>6. CASE enforcing' = [enforcing EXCEPT ![r] = [enforcing[r] EXCEPT !.at = "gc"]]
    <3> DEFINE run == [enforcing[r] EXCEPT !.at = "gc"]
    <3>1. run \in RunStates /\ run.at = "gc" /\ run.over = enforcing[r].over
      BY <1>a DEF RunStates
    <3> HIDE DEF run
    <3>2. enforcing' = [enforcing EXCEPT ![r] = run]
      BY <2>6 DEF run
    <3>3. EnforceTyped' /\ enforcing'[r] = run
      BY <1>a, <1>t, <2>1, <2>3, <3>1, <3>2
    <3>4. ~disagreed => Knows(r)'
      BY <2>4, <3>1, <3>3 DEF Knows
    <3> QED
      BY <2>1, <2>4, <3>1, <3>2, <3>3, <3>4, RunStepKeepsInv
  <2> QED
    BY <1>8, <1>a, <2>5, <2>6 DEF prune, GoTo
<1>9. ASSUME NEW r \in EnforceRuns, triggerGarbageCollection(r) \/ RunDies(r) PROVE EnforceInv'
  <2>1. /\ enforcing[r].at # "idle" /\ Stop(r) /\ garbage' \in {0, garbage}
        /\ UNCHANGED <<images, breach, overSince, mails, disagreed>>
    BY <1>9 DEF triggerGarbageCollection, RunDies, RunAt
  <2>2. garbage' \in 0..MaxImages /\ images' + garbage' <= MaxImages
    <3>1. images' = images /\ (garbage' = 0 \/ garbage' = garbage)
      BY <2>1
    <3>2. images \in Nat /\ images <= MaxImages /\ garbage \in 0..MaxImages /\ images + garbage <= MaxImages
      BY <1>a
    <3>3. CASE garbage' = 0
      BY <3>1, <3>2, <3>3
    <3> QED
      BY <3>1, <3>2, <3>3
  <2>3. EnforceTyped' /\ enforcing'[r] = NoRun
    BY <1>a, <1>t, <2>1, <2>2, StopKeepsTyped DEF EnforceInv
  <2>4. (~disagreed => RowIsTrue') /\ Firm /\ breach' \in {breach, NoBreach}
    BY <1>a, <2>1 DEF EnforceInv, RowIsTrue, Firm
  <2> QED
    BY <2>1, <2>3, <2>4, IdleKnows, RunStepKeepsInv DEF Stop
<1> QED
  BY <1>1, <1>2, <1>3, <1>4, <1>5, <1>6, <1>7, <1>8, <1>9 DEF EnforceNext, EnforceRun

\* The inductive invariant holds in every behaviour of QuotaEnforce.
LEMMA EnforceInvHolds == EnforceSpec => []EnforceInv
BY EnforceInitInv, EnforceStep, PTL DEF EnforceSpec

\* Type correctness; in particular pruning never removes what protected tags
\* hold, and what it removes is counted until it is collected.
THEOREM EnforceTypeCorrect == EnforceSpec => []EnforceTypeOK
<1>1. EnforceInv => EnforceTypeOK
  BY DEF EnforceInv, EnforceTyped
<1> QED
  BY <1>1, EnforceInvHolds, PTL

\* runQuotaEnforcement, for any grace periods, limit and number of runs, which
\* may overlap as long as they agree about the target, and may die at any step:
\* images are removed only when a notice has gone out and every run for as many
\* days as this one grants has found the target over its limit.
THEOREM PrunedOnlyAfterGrace == EnforceSpec => PrunedAfterGrace
<1> DEFINE Step == \A r \in EnforceRuns :
                       Pruning(r) /\ ~disagreed => overSince >= enforcing[r].grace /\ "notice" \in mails
<1>1. EnforceInv => [Step]_enforceVars
  BY DEF EnforceInv, Knows, Pruning, RunAt
<1> QED
  BY <1>1, EnforceInvHolds, PTL DEF EnforceSpec, PrunedAfterGrace

-----------------------------------------------------------------------------
(* Clients that re-point tags. *)

\* Tags name images that their repository holds.
TagsStored ==
    /\ tagOf \in [Slots -> Images \cup {Nothing}] /\ stored \subseteq Places \X Images
    /\ \A s \in Slots : tagOf[s] # Nothing => <<s[1], tagOf[s]>> \in stored

Kinds == {"none", "mirror", "move", "copy", "delete", "retag"}
Requests == {"none", "tags", "put", "putLatest", "copy", "look", "delete", "remaining",
             "dropLatest", "retag", "end"}
ClientStates ==
    [kind : Kinds, at : Requests, slot : Slots \cup {Nothing}, to : Slots \cup {Nothing},
     image : Images \cup {Nothing}, gone : Images \cup {Nothing}, was : Images \cup {Nothing},
     todo : SUBSET Tags, log : SUBSET Entries, imported : BOOLEAN,
     pick : Entries \cup {Nothing}, unread : SUBSET Images, overtaken : SUBSET Slots,
     since : SUBSET Slots, refused : BOOLEAN]

\* What a client holds at each of its requests.
ClientKnows ==
    /\ client.kind = "none" => client = Asleep
    /\ client.at = "none" => client.kind = "none"
    /\ client.at \in {"tags", "put"} => client.kind = "mirror"
    /\ client.at = "put" => client.image \in Images /\ client.slot \in Slots /\ client.slot[2] \in Tags
    /\ client.at = "copy" => client.kind \in {"move", "copy"}
    /\ client.at = "look" => client.kind = "move"
    /\ client.at = "retag" => client.kind = "retag" /\ client.slot \in Slots /\ client.image \in Images
    /\ client.kind \in {"move", "copy"} =>
           client.slot \in Slots /\ client.to \in Slots /\ client.slot # client.to /\ client.image \in Images
    /\ client.at \in {"delete", "remaining", "dropLatest"} =>
           /\ client.kind \in {"move", "delete"} /\ client.slot \in Slots /\ client.gone \in Images
           /\ client.was # Nothing => LatestSlot \in Slots
    /\ client.at \in {"remaining", "dropLatest"} => ~LatestStays
    /\ client.at = "putLatest" =>
           /\ client.image \in Images /\ client.slot \in Slots /\ LatestSlot \in Slots
           /\ \/ client.kind = "mirror"
              \/ client.kind \in {"move", "delete"} /\ client.gone \in Images /\ ~LatestStays

\* A move whose tags nobody else writes: the source names the image until the
\* destination does.
OwnTags == {client.slot, client.to} \cap client.overtaken = {}
MoveKept ==
    client.kind = "move" /\ OwnTags =>
        /\ client.at \in {"copy", "look"} => client.gone = Nothing /\ tagOf[client.slot] = client.image
        /\ client.at = "look" => tagOf[client.to] = client.image
        /\ client.at = "delete" => tagOf[client.slot] = client.gone /\ tagOf[client.to] = client.gone
        /\ client.at \in {"remaining", "dropLatest", "putLatest"} /\ client.to # LatestSlot =>
               tagOf[client.to] = client.gone
        /\ client.at = "end" => MovesLoseNothing

\* A deletion during which nobody else writes "latest": it is as it was until the
\* deletion writes it, and what was picked is the newest of what was left alone.
LatestKnown ==
    client.kind \in {"delete", "move"} /\ LatestSlot \notin client.overtaken =>
        /\ client.at \in {"delete", "remaining", "dropLatest", "putLatest"} => At(client.slot[1], Latest) = client.was
        /\ client.at = "dropLatest" => Untouched = {}
        /\ client.at = "putLatest" => PickIsNewest /\ client.image = client.pick.digest
        /\ client.at = "end" => LatestFollowsNewest

\* Before it looks, a deletion has nothing to say.
NothingSeen == client.at \in {"copy", "look"} => client.gone = Nothing /\ ~client.refused
FailedEnds == client.kind \in {"delete", "move"} /\ client.refused => client.at = "end"

\* What makes MovesLoseNothing and LatestFollowsNewest inductive.
ClientsInv ==
    TagsStored /\ client \in ClientStates /\ ClientKnows /\ NothingSeen /\ FailedEnds /\ MoveKept /\ LatestKnown

\* The inductive invariant says what was to be shown.
LEMMA ClientsInvSuffices == ClientsInv => ClientsTypeOK /\ MovesLoseNothing /\ LatestFollowsNewest
<1> SUFFICES ASSUME ClientsInv PROVE ClientsTypeOK /\ MovesLoseNothing /\ LatestFollowsNewest
  OBVIOUS
<1>1. ClientsTypeOK
  BY DEF ClientsInv, ClientsTypeOK, TagsStored, ClientStates, Kinds, Requests
<1>2. LatestFollowsNewest
  BY DEF ClientsInv, LatestKnown, LatestFollowsNewest
<1>3. MovesLoseNothing
  <2> SUFFICES ASSUME client.kind = "move", OwnTags, client.to # LatestSlot, client.at # "end"
               PROVE  \/ tagOf[client.slot] = (IF client.gone = Nothing THEN client.image ELSE client.gone)
                      \/ tagOf[client.to] = client.gone
    BY DEF ClientsInv, MoveKept, MovesLoseNothing, OwnTags
  <2>1. client.at \in {"copy", "look", "delete", "remaining", "dropLatest", "putLatest"}
    BY DEF ClientsInv, ClientKnows, ClientStates, Requests
  <2>2. CASE client.at \in {"copy", "look"}
    BY <2>2 DEF ClientsInv, MoveKept
  <2>3. CASE client.at \in {"delete", "remaining", "dropLatest", "putLatest"}
    BY <2>3 DEF ClientsInv, MoveKept
  <2> QED
    BY <2>1, <2>2, <2>3
<1> QED
  BY <1>1, <1>2, <1>3

\* The places of slots, and the slot of the mirror's "latest".
LEMMA SlotFacts ==
    /\ \A s \in Slots : s[1] \in Places /\ s = <<s[1], s[2]>> /\ s[2] \in AllTags
    /\ \A v \in AllTags : <<Mirrored, v>> \in Slots
    /\ Latest \in AllTags /\ Latest \notin Tags /\ Mirrored \in Places /\ Nothing \notin Images
<1>1. \A v \in AllTags : <<Mirrored, v>> \in Slots
  BY ClientsAssumption
<1>2. Latest \in AllTags
  BY DEF AllTags
<1>3. <<Mirrored, Latest>>[1] = Mirrored
  OBVIOUS
<1> QED
  BY <1>1, <1>2, <1>3, ClientsAssumption DEF Places

\* What a write of a tag leaves.
LEMMA PutKeepsTags ==
    ASSUME TagsStored, NEW s \in Slots, NEW d \in Images, PutTag(s, d)
    PROVE  TagsStored' /\ tagOf'[s] = d /\ \A q \in Slots : q # s => tagOf'[q] = tagOf[q]
BY SlotFacts DEF TagsStored, PutTag

\* What the removal of a tag leaves.
LEMMA DropKeepsTags ==
    ASSUME TagsStored, NEW s \in Slots, DropTag(s)
    PROVE  TagsStored' /\ tagOf'[s] = Nothing /\ \A q \in Slots : q # s => tagOf'[q] = tagOf[q]
BY SlotFacts DEF TagsStored, DropTag

\* A client that goes on with the same tag, having read and picked the same.
SameReading ==
    /\ client'.kind = client.kind /\ client'.slot = client.slot /\ client'.to = client.to
    /\ client'.gone = client.gone /\ client'.was = client.was
SamePick == client'.pick = client.pick /\ client'.unread = client.unread

\* What was left alone stays as it is when "latest" is written, or a tag that is
\* then no longer left alone; and so the newest of it stays the newest.
LEMMA UntouchedStays ==
    ASSUME TagsStored, SameReading, SamePick, client.since \subseteq client'.since,
           NEW s \in Slots, \A q \in Slots : q # s => tagOf'[q] = tagOf[q],
           s = LatestSlot \/ s \in client'.since
    PROVE  Untouched' \subseteq Untouched /\ (PickIsNewest => PickIsNewest')
<1>0. client'.slot = client.slot /\ client'.pick = client.pick /\ client'.unread = client.unread
  BY DEF SameReading, SamePick
<1>f. PICK r : r = client.slot[1]
  OBVIOUS
<1>s. client'.slot[1] = r
  BY <1>0, <1>f
<1>1. ASSUME NEW v \in Tags, <<r, v>> \notin client'.since
      PROVE  <<r, v>> \notin client.since /\ At(r, v)' = At(r, v)
  <2>1. <<r, v>> # s
    BY <1>1, <1>f, SlotFacts DEF LatestSlot
  <2> QED
    BY <1>1, <2>1 DEF At
<1>2. \A v : v \in Remaining <=> v \in AllTags /\ At(r, v) # Nothing /\ v \notin {client.slot[2], Latest}
  BY <1>f DEF Remaining, Tagged
<1>3. \A v : v \in Remaining' <=> v \in AllTags /\ At(r, v)' # Nothing /\ v \notin {client.slot[2], Latest}
  BY <1>0, <1>s DEF Remaining, Tagged, At
<1>4. ASSUME NEW v \in Untouched' PROVE v \in Untouched /\ At(r, v)' = At(r, v)
  <2>1. v \in Remaining' /\ <<r, v>> \notin client'.since
    BY <1>s DEF Untouched
  <2>2. v \in AllTags /\ v # Latest /\ v \in Tags
    BY <1>3, <2>1 DEF AllTags
  <2>3. <<r, v>> \notin client.since /\ At(r, v)' = At(r, v)
    BY <1>1, <2>1, <2>2
  <2>4. v \in Remaining
    BY <1>2, <1>3, <2>1, <2>3
  <2> QED
    BY <1>f, <2>3, <2>4 DEF Untouched
<1>5. ASSUME PickIsNewest PROVE PickIsNewest'
  <2>1. PICK p, u : p = client.pick /\ u = client.unread
    OBVIOUS
  <2>2. p \in Entries /\ p.tag \in Tags
    BY <1>5, <2>1 DEF PickIsNewest, Entries
  <2>3. client'.pick = p /\ client'.unread = u
    BY <1>0, <2>1
  <2>4. <<r, p.tag>> \notin client.since => At(r, p.tag) = p.digest
    BY <1>5, <1>f, <2>1 DEF PickIsNewest
  <2>5. <<r, p.tag>> \notin client'.since => At(r, p.tag)' = p.digest
    BY <1>1, <2>2, <2>4
  <2>6. \A v \in Untouched : ~Newer(Entry(v, At(r, v)), p, u)
    BY <1>5, <1>f, <2>1 DEF PickIsNewest
  <2>7. ASSUME NEW v \in Untouched' PROVE ~Newer(Entry(v, At(r, v)'), p, u)
    BY <1>4, <2>6, <2>7
  <2>8. \A v : Entry(v, At(client.slot[1], v))' = Entry(v, At(r, v)')
    BY <1>s DEF Entry, At
  <2>9. \A v \in Untouched' : ~Newer(Entry(v, At(client.slot[1], v)), client.pick, client.unread)'
    BY <2>3, <2>7, <2>8 DEF Newer, Date
  <2>10. At(client.slot[1], client.pick.tag)' = At(r, p.tag)'
    BY <1>s, <2>3 DEF At
  <2> QED
    BY <1>s, <2>2, <2>3, <2>5, <2>9, <2>10 DEF PickIsNewest
<1> QED
  BY <1>4, <1>5

\* What pickNewest takes from the list is on it, and nothing on it is newer.
LEMMA PickFacts ==
    ASSUME TagsStored, NEW unread, NEW pick \in pickNewest(Listed, unread)
    PROVE  /\ pick \in Entries /\ pick.digest \in Images
           /\ At(client.slot[1], pick.tag) = pick.digest
           /\ \A v \in Remaining : ~Newer(Entry(v, At(client.slot[1], v)), pick, unread)
<1>1. PICK v \in Remaining : pick = Entry(v, At(client.slot[1], v))
  BY DEF pickNewest, Listed
<1>2. v \in Tags /\ At(client.slot[1], v) # Nothing
  BY DEF Remaining, Tagged, AllTags
<1>3. At(client.slot[1], v) \in Images
  BY <1>2 DEF At, TagsStored
<1>4. pick.tag = v /\ pick.digest = At(client.slot[1], v) /\ pick \in Entries
  BY <1>1, <1>2, <1>3 DEF Entry, Entries
<1>5. \A w \in Remaining : ~Newer(Entry(w, At(client.slot[1], w)), pick, unread)
  BY DEF pickNewest, Listed
<1> QED
  BY <1>3, <1>4, <1>5

\* Somebody writes a tag meanwhile.
LEMMA OvertakeKeepsInv ==
    ASSUME ClientsInv, TagsStored', NEW s \in Slots, Overtake(s), \A q \in Slots : q # s => tagOf'[q] = tagOf[q]
    PROVE  ClientsInv'
<1>1. CASE client.kind = "none"
  <2>1. client = Asleep /\ client' = client
    BY <1>1 DEF ClientsInv, ClientKnows, Overtake
  <2>2. client'.kind = "none" /\ client'.at = "none"
    BY <2>1 DEF Asleep
  <2> QED
    BY <2>1, <2>2 DEF ClientsInv, ClientKnows, NothingSeen, FailedEnds, MoveKept, LatestKnown
<1>2. CASE client.kind # "none"
  <2>0. client \in ClientStates /\ TagsStored
    BY DEF ClientsInv
  <2>1. /\ client' \in ClientStates /\ SameReading /\ SamePick
        /\ client'.at = client.at /\ client'.image = client.image /\ client'.refused = client.refused
        /\ client'.overtaken = client.overtaken \cup {s} /\ client'.since = client.since \cup {s}
    <3>1. client' = [client EXCEPT !.overtaken = client.overtaken \cup {s}, !.since = client.since \cup {s}]
      BY <1>2 DEF Overtake
    <3>2. client.overtaken \cup {s} \in SUBSET Slots /\ client.since \cup {s} \in SUBSET Slots
      BY <2>0 DEF ClientStates
    <3> QED
      BY <2>0, <3>1, <3>2 DEF ClientStates, SameReading, SamePick
  <2>2. LatestStays' = LatestStays /\ LatestSlot' = LatestSlot
    BY <2>1 DEF LatestStays, LatestSlot, SameReading
  <2>3. ClientKnows' /\ NothingSeen' /\ FailedEnds'
    BY <1>2, <2>1, <2>2 DEF ClientsInv, ClientKnows, NothingSeen, FailedEnds, SameReading
  <2>4. MoveKept'
    <3> SUFFICES ASSUME client.kind = "move", OwnTags' PROVE MoveKept'
      BY <2>1 DEF MoveKept, SameReading
    <3>1. client.slot \in Slots /\ client.to \in Slots /\ s \notin {client.slot, client.to} /\ OwnTags
      BY <2>1 DEF OwnTags, SameReading, ClientsInv, ClientKnows
    <3>2. tagOf'[client.slot] = tagOf[client.slot] /\ tagOf'[client.to] = tagOf[client.to]
      BY <3>1
    <3>3. MovesLoseNothing => MovesLoseNothing'
      BY <2>1, <2>2, <3>1, <3>2 DEF MovesLoseNothing, SameReading, OwnTags
    <3> QED
      BY <2>1, <2>2, <3>1, <3>2, <3>3 DEF ClientsInv, MoveKept, SameReading
  <2>5. LatestKnown'
    <3> SUFFICES ASSUME client.kind \in {"delete", "move"}, LatestSlot \notin client'.overtaken PROVE LatestKnown'
      BY <2>1, <2>2 DEF LatestKnown, SameReading
    <3>1. s # LatestSlot /\ LatestSlot \notin client.overtaken
      BY <2>1
    <3>2. At(client.slot[1], Latest)' = At(client.slot[1], Latest)
      BY <2>1, <3>1 DEF At, LatestSlot, SameReading
    <3>3. Untouched' \subseteq Untouched /\ (PickIsNewest => PickIsNewest')
      BY <2>0, <2>1, UntouchedStays
    <3>4. client.at = "end" => LatestFollowsNewest'
      <4>1. client.at = "end" => LatestFollowsNewest
        BY <3>1 DEF ClientsInv, LatestKnown
      <4> QED
        BY <2>1, <2>2, <3>1, <3>2, <3>3, <4>1 DEF LatestFollowsNewest, SameReading, SamePick
    <3> QED
      BY <2>1, <3>1, <3>2, <3>3, <3>4 DEF ClientsInv, LatestKnown, SameReading, SamePick
  <2> QED
    BY <2>1, <2>3, <2>4, <2>5 DEF ClientsInv
<1> QED
  BY <1>1, <1>2

\* A client that goes on to its next request keeps what it holds.
LEMMA NextRequest ==
    ASSUME client \in ClientStates, NEW a \in Requests, client' = [client EXCEPT !.at = a]
    PROVE  /\ client' \in ClientStates /\ client'.at = a /\ SameReading /\ SamePick
           /\ client'.image = client.image /\ client'.overtaken = client.overtaken
           /\ client'.since = client.since /\ client'.refused = client.refused
BY DEF ClientStates, SameReading, SamePick

\* A client that ends by a request that fails, too.
LEMMA EndRefused ==
    ASSUME client \in ClientStates, client' = [client EXCEPT !.at = "end", !.refused = TRUE]
    PROVE  /\ client' \in ClientStates /\ client'.at = "end" /\ client'.refused /\ SameReading /\ SamePick
           /\ client'.image = client.image /\ client'.overtaken = client.overtaken /\ client'.since = client.since
BY DEF ClientStates, Requests, SameReading, SamePick

\* Nothing is claimed about mirrors, copies and retags.
LEMMA OtherKinds ==
    ASSUME TagsStored', client' \in ClientStates, ClientKnows', client'.kind \notin {"move", "delete"},
           client'.at \in {"copy", "look"} => client'.gone = Nothing /\ ~client'.refused
    PROVE  ClientsInv'
BY DEF ClientsInv, MoveKept, LatestKnown, NothingSeen, FailedEnds

\* A request that fails ends the client and writes nothing.
LEMMA RefusedKeepsInv ==
    ASSUME ClientsInv, Refused(client), client.kind # "none", client.at # "end"
    PROVE  ClientsInv'
<1>0. client \in ClientStates /\ TagsStored
  BY DEF ClientsInv
<1>1. /\ client' \in ClientStates /\ client'.at = "end" /\ client'.refused /\ SameReading /\ SamePick
      /\ client'.image = client.image /\ client'.overtaken = client.overtaken /\ client'.since = client.since
  BY <1>0, EndRefused DEF Refused
<1>2. tagOf' = tagOf /\ stored' = stored /\ TagsStored'
  BY <1>0 DEF Refused, TagsStored
<1>3. LatestStays' = LatestStays /\ LatestSlot' = LatestSlot
  BY <1>1 DEF LatestStays, LatestSlot, SameReading
<1>4. ClientKnows' /\ NothingSeen' /\ FailedEnds'
  BY <1>1 DEF ClientsInv, ClientKnows, NothingSeen, FailedEnds, SameReading
<1>5. MovesLoseNothing'
  BY <1>1, <1>2, <1>3, ClientsInvSuffices DEF MovesLoseNothing, SameReading
<1>6. LatestFollowsNewest'
  <2> SUFFICES ASSUME client.kind \in {"delete", "move"}, client.gone # Nothing, LatestSlot \notin client.overtaken,
                      ~LatestStays
               PROVE  At(client.slot[1], Latest)' = client.was
    BY <1>1, <1>3 DEF LatestFollowsNewest, SameReading
  <2>1. client.at \in {"delete", "remaining", "dropLatest", "putLatest"}
    BY DEF ClientsInv, ClientKnows, ClientStates, Requests, NothingSeen
  <2>2. At(client.slot[1], Latest) = client.was
    BY <2>1 DEF ClientsInv, LatestKnown
  <2> QED
    BY <1>1, <1>2, <2>2 DEF At, SameReading
<1> QED
  BY <1>1, <1>2, <1>4, <1>5, <1>6 DEF ClientsInv, MoveKept, LatestKnown

\* Where neither tags nor the client change, nothing does.
LEMMA SameTagsKeepInv ==
    ASSUME ClientsInv, TagsStored', tagOf' = tagOf, client' = client
    PROVE  ClientsInv'
<1>1. \A r, v : At(r, v)' = At(r, v)
  BY DEF At
<1>2. Remaining' = Remaining
  BY <1>1 DEF Remaining, Tagged
<1>3. Untouched' = Untouched
  BY <1>2 DEF Untouched
<1>4. PickIsNewest => PickIsNewest'
  <2> SUFFICES ASSUME PickIsNewest PROVE PickIsNewest'
    OBVIOUS
  <2>1. At(client.slot[1], client.pick.tag)' = At(client.slot[1], client.pick.tag)
    BY DEF At
  <2>2. \A v : At(client.slot[1], v)' = At(client.slot[1], v)
    BY DEF At
  <2>3. \A v \in Untouched' : ~Newer(Entry(v, At(client.slot[1], v)'), client.pick, client.unread)
    BY <1>3, <2>2 DEF PickIsNewest
  <2>4. \A v \in Untouched' : ~Newer(Entry(v, At(client.slot[1], v)), client.pick, client.unread)'
    BY <2>3 DEF Newer, Date, Entry
  <2> QED
    BY <2>1, <2>4 DEF PickIsNewest
<1>5. At(client.slot[1], Latest)' = At(client.slot[1], Latest)
  BY DEF At
<1>6. LatestFollowsNewest => LatestFollowsNewest'
  BY <1>3, <1>4, <1>5 DEF LatestFollowsNewest, LatestSlot, LatestStays
<1>7. MovesLoseNothing => MovesLoseNothing'
  BY DEF MovesLoseNothing, LatestSlot
<1>8. LatestKnown'
  BY <1>3, <1>4, <1>5, <1>6 DEF ClientsInv, LatestKnown, LatestSlot
<1>9. MoveKept'
  BY <1>7 DEF ClientsInv, MoveKept, LatestSlot, OwnTags
<1> QED
  BY <1>8, <1>9 DEF ClientsInv, ClientKnows, NothingSeen, FailedEnds, LatestSlot, LatestStays

\* The steps of people.
LEMMA PeopleKeepInv ==
    ASSUME ClientsInv,
           \/ \E s \in Slots : untag(s) \/ \E d \in Images : push(s, d)
           \/ \E r \in Places, d \in Images : dropUntagged(r, d)
    PROVE  ClientsInv'
<1>1. ASSUME NEW s \in Slots, untag(s) PROVE ClientsInv'
  BY <1>1, DropKeepsTags, OvertakeKeepsInv DEF untag, ClientsInv
<1>2. ASSUME NEW s \in Slots, NEW d \in Images, push(s, d) PROVE ClientsInv'
  BY <1>2, PutKeepsTags, OvertakeKeepsInv DEF push, ClientsInv
<1>3. ASSUME NEW r \in Places, NEW d \in Images, dropUntagged(r, d) PROVE ClientsInv'
  <2>1. stored' = stored \ {<<r, d>>} /\ tagOf' = tagOf /\ client' = client /\ \A v \in AllTags : At(r, v) # d
    BY <1>3 DEF dropUntagged
  <2>2. ASSUME NEW s \in Slots, tagOf[s] # Nothing PROVE <<s[1], tagOf[s]>> \in stored'
    <3>1. s[2] \in AllTags /\ s = <<s[1], s[2]>> /\ At(s[1], s[2]) = tagOf[s]
      BY SlotFacts DEF At
    <3>2. ~(s[1] = r /\ tagOf[s] = d)
      BY <2>1, <3>1
    <3> QED
      BY <2>1, <2>2, <3>2 DEF ClientsInv, TagsStored
  <2>3. TagsStored'
    BY <2>1, <2>2 DEF ClientsInv, TagsStored
  <2> QED
    BY <2>1, <2>3, SameTagsKeepInv
<1> QED
  BY <1>1, <1>2, <1>3

\* A mirror run.
LEMMA MirrorKeepsInv ==
    ASSUME ClientsInv, runMirror \/ mirrorTag \/ importManifest \/ publishLatest
    PROVE  ClientsInv'
<1> USE DEF Kinds, Requests
<1>a. client \in ClientStates /\ TagsStored
  BY DEF ClientsInv
<1>u. UNCHANGED <<tagOf, stored>> => TagsStored'
  BY <1>a DEF TagsStored
<1>1. CASE runMirror
  <2>1. PICK vs \in SUBSET Tags : client' = [Asleep EXCEPT !.kind = "mirror", !.at = "tags", !.todo = vs]
    BY <1>1 DEF runMirror
  <2>2. client' \in ClientStates /\ client'.kind = "mirror" /\ client'.at = "tags"
    BY <2>1 DEF Asleep, ClientStates
  <2> QED
    BY <1>1, <1>u, <2>2, OtherKinds DEF runMirror, ClientKnows
<1>2. CASE mirrorTag
  <2>1. client.kind = "mirror" /\ client.at = "tags" /\ UNCHANGED <<tagOf, stored>>
    BY <1>2 DEF mirrorTag
  <2>2. PICK v \in client.todo :
          LET rest == [client EXCEPT !.todo = client.todo \ {v}]
          IN  \/ client' = [rest EXCEPT !.refused = TRUE]
              \/ \E d \in Images : client' \in {[rest EXCEPT !.log = rest.log \cup {Entry(v, d)}],
                                                [rest EXCEPT !.at = "put", !.slot = <<Mirrored, v>>, !.image = d]}
    BY <1>2 DEF mirrorTag
  <2> DEFINE rest == [client EXCEPT !.todo = client.todo \ {v}]
  <2>3. rest \in ClientStates /\ rest.kind = "mirror" /\ rest.at = "tags" /\ v \in Tags
    BY <1>a, <2>1 DEF ClientStates
  <2>4. \/ client' = [rest EXCEPT !.refused = TRUE]
        \/ \E d \in Images : client' \in {[rest EXCEPT !.log = rest.log \cup {Entry(v, d)}],
                                          [rest EXCEPT !.at = "put", !.slot = <<Mirrored, v>>, !.image = d]}
    BY <2>2
  <2> HIDE DEF rest
  <2>5. CASE client' = [rest EXCEPT !.refused = TRUE]
    <3>1. client' \in ClientStates /\ client'.kind = "mirror" /\ client'.at = "tags"
      BY <2>3, <2>5 DEF ClientStates
    <3> QED
      BY <1>u, <2>1, <3>1, OtherKinds DEF ClientKnows
  <2>6. ASSUME NEW d \in Images, client' = [rest EXCEPT !.log = rest.log \cup {Entry(v, d)}] PROVE ClientsInv'
    <3>0. rest.log \cup {Entry(v, d)} \in SUBSET Entries
      BY <2>3, <2>6 DEF Entry, Entries, ClientStates
    <3>1. client' \in ClientStates /\ client'.kind = "mirror" /\ client'.at = "tags"
      BY <2>3, <2>6, <3>0 DEF ClientStates
    <3> QED
      BY <1>u, <2>1, <3>1, OtherKinds DEF ClientKnows
  <2>7. ASSUME NEW d \in Images, client' = [rest EXCEPT !.at = "put", !.slot = <<Mirrored, v>>, !.image = d]
        PROVE  ClientsInv'
    <3>0. <<Mirrored, v>> \in Slots /\ <<Mirrored, v>>[2] = v
      BY <2>3, SlotFacts DEF AllTags
    <3>1. /\ client' \in ClientStates /\ client'.kind = "mirror" /\ client'.at = "put" /\ client'.image = d
          /\ client'.slot = <<Mirrored, v>>
      BY <2>3, <2>7, <3>0 DEF ClientStates
    <3> QED
      BY <1>u, <2>1, <2>3, <3>0, <3>1, OtherKinds DEF ClientKnows
  <2> QED
    BY <2>4, <2>5, <2>6, <2>7
<1>3. CASE importManifest
  <2>1. client.kind = "mirror" /\ client.at = "put" /\ client.image \in Images /\ client.slot \in Slots /\ client.slot[2] \in Tags
    BY <1>3 DEF importManifest, ClientsInv, ClientKnows
  <2>2. CASE client' = [client EXCEPT !.at = "tags", !.refused = TRUE] /\ UNCHANGED <<tagOf, stored>>
    <3>1. client' \in ClientStates /\ client'.kind = "mirror" /\ client'.at = "tags"
      BY <1>a, <2>1, <2>2 DEF ClientStates
    <3> QED
      BY <1>u, <2>2, <3>1, OtherKinds DEF ClientKnows
  <2>3. CASE /\ PutTag(client.slot, client.image)
             /\ client' = [client EXCEPT !.at = "tags", !.imported = TRUE,
                                         !.log = client.log \cup {Entry(client.slot[2], client.image)}]
    <3>1. TagsStored'
      BY <1>a, <2>1, <2>3, PutKeepsTags
    <3>2. client.log \cup {Entry(client.slot[2], client.image)} \in SUBSET Entries
      BY <1>a, <2>1 DEF Entry, Entries, ClientStates
    <3>3. client' \in ClientStates /\ client'.kind = "mirror" /\ client'.at = "tags"
      BY <1>a, <2>1, <2>3, <3>2 DEF ClientStates
    <3> QED
      BY <3>1, <3>3, OtherKinds DEF ClientKnows
  <2> QED
    BY <1>3, <2>2, <2>3 DEF importManifest
<1>4. CASE publishLatest
  <2>1. client.kind = "mirror" /\ UNCHANGED <<tagOf, stored>>
    BY <1>4 DEF publishLatest
  <2>2. CASE client' = [client EXCEPT !.at = "end"]
    <3>1. client' \in ClientStates /\ client'.kind = "mirror" /\ client'.at = "end"
      BY <1>a, <2>1, <2>2 DEF ClientStates
    <3> QED
      BY <1>u, <2>1, <3>1, OtherKinds DEF ClientKnows
  <2>3. ASSUME NEW pick \in client.log,
               client' = [client EXCEPT !.at = "putLatest", !.image = pick.digest, !.slot = <<Mirrored, Latest>>]
        PROVE  ClientsInv'
    <3>1. pick.digest \in Images /\ <<Mirrored, Latest>> \in Slots
      BY <1>a, <2>3, SlotFacts DEF ClientStates, Entries
    <3> DEFINE d == pick.digest
    <3>2. d \in Images /\ client' = [client EXCEPT !.at = "putLatest", !.image = d, !.slot = <<Mirrored, Latest>>]
      BY <2>3, <3>1
    <3> HIDE DEF d
    <3>3. /\ client' \in ClientStates /\ client'.kind = "mirror" /\ client'.at = "putLatest" /\ client'.image \in Images
          /\ client'.slot = <<Mirrored, Latest>>
      BY <1>a, <2>1, <3>1, <3>2 DEF ClientStates
    <3> QED
      BY <1>u, <2>1, <3>1, <3>3, OtherKinds DEF ClientKnows, LatestSlot
  <2>4. \/ client' = [client EXCEPT !.at = "end"]
        \/ \E pick \in client.log :
             client' = [client EXCEPT !.at = "putLatest", !.image = pick.digest, !.slot = <<Mirrored, Latest>>]
    BY <1>4 DEF publishLatest, pickNewest
  <2> QED
    BY <2>2, <2>3, <2>4
<1> QED
  BY <1>1, <1>2, <1>3, <1>4

\* The beginning and the end of the other clients.
LEMMA BeginKeepsClients ==
    ASSUME ClientsInv,
           \/ \E from, to \in Slots, kind \in {"move", "copy"} : moveImage(from, to, kind)
           \/ \E s \in Slots, d \in Images : retag(s, d)
           \/ clientEnds
    PROVE  ClientsInv'
<1> USE DEF Kinds, Requests
<1>u. UNCHANGED <<tagOf, stored>> => TagsStored'
  BY DEF ClientsInv, TagsStored
<1>1. ASSUME NEW from \in Slots, NEW to \in Slots, NEW kind \in {"move", "copy"}, moveImage(from, to, kind)
      PROVE  ClientsInv'
  <2>1. /\ from # to /\ tagOf[from] # Nothing /\ UNCHANGED <<tagOf, stored>>
        /\ client' = [Asleep EXCEPT !.kind = kind, !.at = "copy", !.slot = from, !.to = to, !.image = tagOf[from]]
    BY <1>1 DEF moveImage
  <2>2. tagOf[from] \in Images
    BY <2>1 DEF ClientsInv, TagsStored
  <2>3. /\ client' \in ClientStates /\ client'.kind = kind /\ client'.at = "copy" /\ client'.slot = from /\ client'.to = to
        /\ client'.image = tagOf[from] /\ client'.gone = Nothing /\ ~client'.refused
    BY <2>1, <2>2 DEF Asleep, ClientStates
  <2>4. ClientKnows'
    BY <2>1, <2>2, <2>3 DEF ClientKnows
  <2>5. MoveKept'
    BY <2>1, <2>3 DEF MoveKept
  <2>6. LatestKnown' /\ NothingSeen' /\ FailedEnds'
    BY <2>3 DEF LatestKnown, NothingSeen, FailedEnds
  <2> QED
    BY <1>u, <2>1, <2>3, <2>4, <2>5, <2>6 DEF ClientsInv
<1>2. ASSUME NEW s \in Slots, NEW d \in Images, retag(s, d) PROVE ClientsInv'
  <2>1. /\ client' = [Asleep EXCEPT !.kind = "retag", !.at = "retag", !.slot = s, !.image = d]
        /\ UNCHANGED <<tagOf, stored>>
    BY <1>2 DEF retag
  <2>2. /\ client' \in ClientStates /\ client'.kind = "retag" /\ client'.at = "retag" /\ client'.slot = s
        /\ client'.image = d
    BY <2>1 DEF Asleep, ClientStates
  <2> QED
    BY <1>u, <2>1, <2>2, OtherKinds DEF ClientKnows
<1>3. CASE clientEnds
  <2>1. client' = Asleep /\ UNCHANGED <<tagOf, stored>>
    BY <1>3 DEF clientEnds
  <2>2. client' \in ClientStates /\ client'.kind = "none" /\ client'.at = "none"
    BY <2>1 DEF Asleep, ClientStates
  <2> QED
    BY <1>u, <2>1, <2>2, OtherKinds DEF ClientKnows
<1> QED
  BY <1>1, <1>2, <1>3

\* The writes of copies and retags.
LEMMA CopyKeepsInv ==
    ASSUME ClientsInv, executeImageCopy \/ retagPut
    PROVE  ClientsInv'
<1> USE DEF Kinds, Requests
<1>a. client \in ClientStates /\ TagsStored
  BY DEF ClientsInv
<1>1. CASE executeImageCopy
  <2>1. /\ client.at = "copy" /\ client.kind \in {"move", "copy"} /\ client.slot \in Slots /\ client.to \in Slots
        /\ client.slot # client.to /\ client.image \in Images /\ client.gone = Nothing /\ ~client.refused
    BY <1>1 DEF executeImageCopy, ClientsInv, ClientKnows, NothingSeen
  <2>2. CASE Refused(client)
    BY <2>1, <2>2, RefusedKeepsInv
  <2>3. CASE PutTag(client.to, client.image) /\ client' = Copied
    <3> DEFINE a == IF client.kind = "move" THEN "look" ELSE "end"
    <3>1. a \in Requests /\ client' = [client EXCEPT !.at = a]
      BY <2>3 DEF Copied
    <3>2. /\ client' \in ClientStates /\ client'.at = a /\ SameReading
          /\ client'.image = client.image /\ client'.overtaken = client.overtaken /\ client'.refused = client.refused
      <4> HIDE DEF a
      <4> QED
        BY <1>a, <3>1, NextRequest
    <3>3. TagsStored' /\ tagOf'[client.to] = client.image /\ tagOf'[client.slot] = tagOf[client.slot]
      BY <1>a, <2>1, <2>3, PutKeepsTags
    <3>4. ClientKnows'
      BY <2>1, <3>2 DEF ClientKnows, SameReading
    <3>5. CASE client.kind = "copy"
      BY <3>2, <3>3, <3>4, <3>5, OtherKinds DEF SameReading
    <3>6. CASE client.kind = "move"
      <4>1. client'.kind = "move" /\ client'.at = "look"
        BY <3>2, <3>6 DEF SameReading
      <4>2. OwnTags => tagOf[client.slot] = client.image
        BY <2>1, <3>6 DEF ClientsInv, MoveKept
      <4>3. MoveKept'
        BY <2>1, <3>2, <3>3, <4>1, <4>2 DEF MoveKept, SameReading, OwnTags
      <4>4. LatestKnown' /\ NothingSeen' /\ FailedEnds'
        BY <2>1, <3>2, <4>1 DEF LatestKnown, NothingSeen, FailedEnds, SameReading
      <4> QED
        BY <3>2, <3>3, <3>4, <4>3, <4>4 DEF ClientsInv
    <3> QED
      BY <2>1, <3>5, <3>6
  <2>4. CASE PutTag(client.to, client.image) /\ client' = [client EXCEPT !.at = "end", !.refused = TRUE]
    <3>1. /\ client' \in ClientStates /\ client'.at = "end" /\ client'.refused /\ SameReading
          /\ client'.image = client.image /\ client'.overtaken = client.overtaken
      BY <1>a, <2>4, EndRefused
    <3>2. TagsStored' /\ tagOf'[client.slot] = tagOf[client.slot]
      BY <1>a, <2>1, <2>4, PutKeepsTags
    <3>3. ClientKnows'
      BY <2>1, <3>1 DEF ClientKnows, SameReading
    <3>4. client.kind = "move" /\ OwnTags => tagOf[client.slot] = client.image
      BY <2>1 DEF ClientsInv, MoveKept
    <3>5. MoveKept'
      BY <2>1, <3>1, <3>2, <3>4 DEF MoveKept, SameReading, OwnTags, MovesLoseNothing
    <3>6. LatestKnown' /\ NothingSeen' /\ FailedEnds'
      BY <2>1, <3>1 DEF LatestKnown, LatestFollowsNewest, NothingSeen, FailedEnds, SameReading
    <3> QED
      BY <3>1, <3>2, <3>3, <3>5, <3>6 DEF ClientsInv
  <2> QED
    BY <1>1, <2>2, <2>3, <2>4 DEF executeImageCopy
<1>2. CASE retagPut
  <2>1. client.at = "retag" /\ client.kind = "retag" /\ client.slot \in Slots /\ client.image \in Images
    BY <1>2 DEF retagPut, ClientsInv, ClientKnows
  <2>2. CASE Refused(client)
    BY <2>1, <2>2, RefusedKeepsInv
  <2>3. CASE PutTag(client.slot, client.image) /\ client' = [client EXCEPT !.at = "end"]
    <3>1. client' \in ClientStates /\ client'.at = "end" /\ client'.kind = "retag"
      BY <1>a, <2>1, <2>3, NextRequest DEF SameReading
    <3>2. TagsStored'
      BY <1>a, <2>1, <2>3, PutKeepsTags
    <3> QED
      BY <3>1, <3>2, OtherKinds DEF ClientKnows
  <2> QED
    BY <1>2, <2>2, <2>3 DEF retagPut
<1> QED
  BY <1>1, <1>2

\* deleteTag looks: what it reads is what the tags name now.
LEMMA LookKeepsInv ==
    ASSUME ClientsInv, NEW s \in Slots, deleteTag(s)
    PROVE  ClientsInv'
<1> USE DEF Kinds, Requests
<1>a. client \in ClientStates /\ TagsStored
  BY DEF ClientsInv
<1>1. UNCHANGED <<tagOf, stored>> /\ TagsStored'
  BY <1>a DEF deleteTag, TagsStored
<1>2. /\ \/ client.kind = "none" /\ client = Asleep /\ Deleting = "delete"
         \/ client.kind = "move" /\ client.at = "look" /\ s = client.slot /\ Deleting = client.kind
      /\ client.gone = Nothing /\ ~client.refused
  BY DEF deleteTag, Deleting, ClientsInv, ClientKnows, Asleep, NothingSeen
<1>3. CASE client' = [client EXCEPT !.kind = Deleting, !.at = "end", !.refused = TRUE]
  <2>0. Deleting \in Kinds
    BY <1>2
  <2>1. /\ client' \in ClientStates /\ client'.kind = Deleting /\ client'.at = "end" /\ client'.refused
        /\ client'.slot = client.slot /\ client'.to = client.to
        /\ client'.image = client.image /\ client'.gone = client.gone /\ client'.overtaken = client.overtaken
    BY <1>a, <1>3, <2>0 DEF ClientStates
  <2>2. ClientKnows'
    BY <1>2, <2>1 DEF ClientsInv, ClientKnows
  <2>3. LatestFollowsNewest' /\ NothingSeen' /\ FailedEnds'
    BY <1>2, <2>1 DEF LatestFollowsNewest, NothingSeen, FailedEnds
  <2>4. client'.kind = "move" => MovesLoseNothing'
    BY <1>1, <1>2, <2>1, ClientsInvSuffices DEF MovesLoseNothing, LatestSlot
  <2> QED
    BY <1>1, <2>1, <2>2, <2>3, <2>4 DEF ClientsInv, MoveKept, LatestKnown
<1>4. CASE /\ tagOf[s] # Nothing
           /\ client' = [client EXCEPT !.kind = Deleting, !.at = "delete", !.slot = s,
                                       !.gone = tagOf[s], !.was = At(s[1], Latest)]
  <2>1. tagOf[s] \in Images /\ At(s[1], Latest) \in Images \cup {Nothing}
    BY <1>a, <1>4 DEF TagsStored, At
  <2> DEFINE latest == At(s[1], Latest)
             found == tagOf[s]
  <2>2. latest # Nothing => <<s[1], Latest>> \in Slots
    BY DEF At
  <2>3. client' = [client EXCEPT !.kind = Deleting, !.at = "delete", !.slot = s, !.gone = found, !.was = latest]
    BY <1>4
  <2>4. found \in Images /\ latest \in Images \cup {Nothing}
    BY <2>1
  <2> HIDE DEF latest, found
  <2>5. Deleting \in Kinds
    BY <1>2
  <2>6. /\ client' \in ClientStates /\ client'.kind = Deleting /\ client'.at = "delete" /\ client'.slot = s
        /\ client'.gone = found /\ client'.was = latest /\ client'.to = client.to
        /\ client'.image = client.image /\ client'.overtaken = client.overtaken /\ client'.refused = client.refused
    BY <1>a, <2>3, <2>4, <2>5 DEF ClientStates
  <2>7. ClientKnows' /\ NothingSeen' /\ FailedEnds'
    BY <1>2, <2>2, <2>4, <2>6 DEF ClientsInv, ClientKnows, LatestSlot, NothingSeen, FailedEnds
  <2>8. LatestKnown'
    <3>1. At(client.slot[1], Latest)' = latest
      BY <1>1, <2>6 DEF At, latest
    <3> QED
      BY <2>6, <3>1 DEF LatestKnown
  <2>9. MoveKept'
    <3>1. client.kind = "move" /\ OwnTags => tagOf[client.slot] = client.image /\ tagOf[client.to] = client.image
      BY <1>2 DEF ClientsInv, MoveKept
    <3>2. client.kind = "move" /\ OwnTags => tagOf'[s] = found /\ tagOf'[client.to] = found
      BY <1>1, <1>2, <3>1 DEF found
    <3>3. client'.kind = "move" => client.kind = "move" /\ OwnTags' = OwnTags
      BY <1>2, <2>6 DEF OwnTags
    <3> QED
      BY <2>6, <3>2, <3>3 DEF MoveKept
  <2> QED
    BY <1>1, <2>6, <2>7, <2>8, <2>9 DEF ClientsInv
<1> QED
  BY <1>3, <1>4 DEF deleteTag

\* The registry deletes the tag.
LEMMA DeleteKeepsInv ==
    ASSUME ClientsInv, registryDelete
    PROVE  ClientsInv'
<1> USE DEF Kinds, Requests
<1>a. client \in ClientStates /\ TagsStored
  BY DEF ClientsInv
<1>1. /\ client.at = "delete" /\ client.kind \in {"move", "delete"} /\ client.slot \in Slots /\ client.gone \in Images
      /\ ~client.refused /\ (client.was # Nothing => LatestSlot \in Slots)
  BY DEF registryDelete, ClientsInv, ClientKnows, FailedEnds
<1>2. CASE Refused(client)
  BY <1>1, <1>2, RefusedKeepsInv
<1>3. CASE DropTag(client.slot) /\ client' = [client EXCEPT !.at = IF LatestStays THEN "end" ELSE "remaining"]
  <2> DEFINE a == IF LatestStays THEN "end" ELSE "remaining"
  <2>1. a \in Requests /\ client' = [client EXCEPT !.at = a]
    BY <1>3
  <2>2. /\ client' \in ClientStates /\ client'.at = a /\ SameReading
        /\ client'.image = client.image /\ client'.overtaken = client.overtaken /\ client'.refused = client.refused
    <3> HIDE DEF a
    <3> QED
      BY <1>a, <2>1, NextRequest
  <2>3. TagsStored' /\ tagOf'[client.slot] = Nothing /\ \A q \in Slots : q # client.slot => tagOf'[q] = tagOf[q]
    BY <1>a, <1>1, <1>3, DropKeepsTags
  <2>4. LatestStays' = LatestStays /\ LatestSlot' = LatestSlot
    BY <2>2 DEF LatestStays, LatestSlot, SameReading
  <2>5. ClientKnows' /\ NothingSeen' /\ FailedEnds'
    <3>1. client.kind # "none" /\ (client.kind = "move" => client.to \in Slots /\ client.slot # client.to /\ client.image \in Images)
      BY <1>1 DEF ClientsInv, ClientKnows
    <3> QED
      BY <1>1, <2>2, <2>4, <3>1 DEF ClientKnows, SameReading, NothingSeen, FailedEnds
  <2>6. MoveKept'
    <3> SUFFICES ASSUME client.kind = "move", OwnTags PROVE tagOf'[client'.to] = client'.gone
      BY <2>2 DEF MoveKept, MovesLoseNothing, SameReading, OwnTags
    <3>1. tagOf[client.to] = client.gone /\ client.to \in Slots /\ client.to # client.slot
      BY <1>1 DEF ClientsInv, MoveKept, ClientKnows
    <3> QED
      BY <2>2, <2>3, <3>1 DEF SameReading
  <2>7. LatestKnown'
    <3>1. CASE LatestStays
      BY <2>2, <2>4, <3>1 DEF LatestKnown, LatestFollowsNewest
    <3>2. CASE ~LatestStays
      <4>1. LatestSlot \notin client.overtaken => At(client.slot[1], Latest) = client.was
        BY <1>1 DEF ClientsInv, LatestKnown
      <4>2. client.was = client.gone /\ client.slot[2] # Latest
        BY <3>2 DEF LatestStays
      <4>3. LatestSlot \in Slots /\ LatestSlot # client.slot
        BY <1>1, <4>2, SlotFacts DEF LatestSlot
      <4>4. At(client.slot[1], Latest)' = At(client.slot[1], Latest)
        BY <2>2, <2>3, <4>3 DEF At, LatestSlot, SameReading
      <4> QED
        BY <2>2, <2>4, <3>2, <4>1, <4>4 DEF LatestKnown, SameReading
    <3> QED
      BY <3>1, <3>2
  <2> QED
    BY <2>2, <2>3, <2>5, <2>6, <2>7 DEF ClientsInv
<1> QED
  BY <1>2, <1>3 DEF registryDelete

\* deleteTag lists what is left and decides what "latest" is to name.
LEMMA FollowKeepsInv ==
    ASSUME ClientsInv, latestFollows
    PROVE  ClientsInv'
<1> USE DEF Kinds, Requests
<1>a. client \in ClientStates /\ TagsStored
  BY DEF ClientsInv
<1>1. /\ client.at = "remaining" /\ client.kind \in {"move", "delete"} /\ client.slot \in Slots /\ client.gone \in Images
      /\ ~LatestStays /\ client.was # Nothing /\ LatestSlot \in Slots /\ ~client.refused
  BY SlotFacts DEF latestFollows, ClientsInv, ClientKnows, LatestStays, FailedEnds
<1>2. UNCHANGED <<tagOf, stored>> /\ TagsStored'
  BY <1>a DEF latestFollows, TagsStored
<1>3. client.kind = "move" => /\ client.to \in Slots /\ client.slot # client.to /\ client.image \in Images
                              /\ OwnTags /\ client.to # LatestSlot => tagOf[client.to] = client.gone
  BY <1>1 DEF ClientsInv, ClientKnows, MoveKept
<1>4. LatestSlot \notin client.overtaken => At(client.slot[1], Latest) = client.was
  BY <1>1 DEF ClientsInv, LatestKnown
<1>5. ASSUME Listed = {}, client' = [client EXCEPT !.at = "dropLatest", !.since = {}] PROVE ClientsInv'
  <2>1. /\ client' \in ClientStates /\ client'.at = "dropLatest" /\ SameReading
        /\ client'.image = client.image /\ client'.overtaken = client.overtaken /\ client'.refused = client.refused
    BY <1>a, <1>5 DEF ClientStates, SameReading
  <2>2. LatestStays' = LatestStays /\ LatestSlot' = LatestSlot
    BY <2>1 DEF LatestStays, LatestSlot, SameReading
  <2>3. ClientKnows' /\ NothingSeen' /\ FailedEnds'
    BY <1>1, <1>3, <2>1, <2>2 DEF ClientKnows, SameReading, NothingSeen, FailedEnds
  <2>4. MoveKept'
    BY <1>2, <1>3, <2>1, <2>2 DEF MoveKept, SameReading, OwnTags
  <2>a. Remaining = {}
    BY <1>5 DEF Listed
  <2>b. Remaining' = Remaining
    BY <1>2, <2>1 DEF Remaining, Tagged, At, SameReading
  <2>c. At(client.slot[1], Latest)' = At(client.slot[1], Latest)
    BY <1>2, <2>1 DEF At, SameReading
  <2>5. Remaining' = {} /\ At(client.slot[1], Latest)' = At(client.slot[1], Latest)
    BY <2>a, <2>b, <2>c
  <2>6. LatestKnown'
    BY <1>4, <2>1, <2>2, <2>5 DEF LatestKnown, SameReading, Untouched
  <2> QED
    BY <1>2, <2>1, <2>3, <2>4, <2>6 DEF ClientsInv
<1>6. ASSUME NEW unread \in SUBSET Images, NEW pick \in pickNewest(Listed, unread), NEW a \in {"end", "putLatest"},
             a = "end" => pick.digest = client.was,
             client' = [client EXCEPT !.at = a, !.image = pick.digest, !.pick = pick, !.unread = unread, !.since = {}]
      PROVE  ClientsInv'
  <2>0. /\ pick \in Entries /\ pick.digest \in Images /\ At(client.slot[1], pick.tag) = pick.digest
        /\ \A v \in Remaining : ~Newer(Entry(v, At(client.slot[1], v)), pick, unread)
    BY <1>a, PickFacts
  <2> DEFINE d == pick.digest
  <2>d. d \in Images /\ client' = [client EXCEPT !.at = a, !.image = d, !.pick = pick, !.unread = unread, !.since = {}]
    BY <1>6, <2>0
  <2>1. /\ client' \in ClientStates /\ client'.at = a /\ SameReading /\ client'.image = d
        /\ client'.pick = pick /\ client'.unread = unread
        /\ client'.overtaken = client.overtaken /\ client'.since = {} /\ client'.refused = client.refused
    <3> HIDE DEF d
    <3> QED
      BY <1>a, <2>0, <2>d DEF ClientStates, SameReading
  <2>2. LatestStays' = LatestStays /\ LatestSlot' = LatestSlot
    BY <2>1 DEF LatestStays, LatestSlot, SameReading
  <2>3. ClientKnows' /\ NothingSeen' /\ FailedEnds'
    BY <1>1, <1>3, <2>0, <2>1, <2>2 DEF ClientKnows, SameReading, NothingSeen, FailedEnds
  <2>4. MoveKept'
    BY <1>2, <1>3, <2>1, <2>2 DEF MoveKept, MovesLoseNothing, SameReading, OwnTags
  <2>5. Remaining' = Remaining /\ \A v : At(client.slot[1], v)' = At(client.slot[1], v)
    BY <1>2, <2>1 DEF Remaining, Tagged, At, SameReading
  <2>6. PickIsNewest'
    <3>2. \A v \in Untouched' : ~Newer(Entry(v, At(client.slot[1], v)), client.pick, client.unread)'
      <4>1. \A v \in Untouched' : v \in Remaining
        BY <2>5 DEF Untouched
      <4>2. \A v \in Untouched' : ~Newer(Entry(v, At(client.slot[1], v)'), pick, unread)
        BY <2>0, <2>5, <4>1
      <4> QED
        BY <2>1, <4>2 DEF Newer, Date, Entry
    <3>3. At(client.slot[1], client.pick.tag)' = d
      BY <1>2, <2>0, <2>1 DEF At, SameReading
    <3> QED
      BY <2>0, <2>1, <3>2, <3>3 DEF PickIsNewest
  <2>7. LatestKnown'
    <3>1. At(client.slot[1], Latest)' = At(client.slot[1], Latest)
      BY <2>5
    <3>2. CASE a = "putLatest"
      BY <1>4, <2>1, <2>2, <2>6, <3>1, <3>2 DEF LatestKnown, SameReading
    <3>3. CASE a = "end"
      BY <1>1, <1>4, <1>6, <2>1, <2>2, <2>6, <3>1, <3>3 DEF LatestKnown, LatestFollowsNewest, SameReading
    <3> QED
      BY <3>2, <3>3
  <2> QED
    BY <1>2, <2>1, <2>3, <2>4, <2>7 DEF ClientsInv
<1>7. \/ Listed = {} /\ client' = [client EXCEPT !.at = "dropLatest", !.since = {}]
      \/ \E unread \in SUBSET Images : \E pick \in pickNewest(Listed, unread) :
           client' = [client EXCEPT !.at = IF pick.digest = client.was THEN "end" ELSE "putLatest",
                                    !.image = pick.digest, !.pick = pick, !.unread = unread, !.since = {}]
  BY DEF latestFollows
<1>8. ASSUME NEW unread \in SUBSET Images, NEW pick \in pickNewest(Listed, unread),
             client' = [client EXCEPT !.at = IF pick.digest = client.was THEN "end" ELSE "putLatest",
                                      !.image = pick.digest, !.pick = pick, !.unread = unread, !.since = {}]
      PROVE  ClientsInv'
  <2>1. CASE pick.digest = client.was
    BY <1>6, <1>8, <2>1
  <2>2. CASE pick.digest # client.was
    BY <1>6, <1>8, <2>2
  <2> QED
    BY <2>1, <2>2
<1> QED
  BY <1>5, <1>7, <1>8

\* "latest" is written or removed: the tags it follows stay as they are.
LEMMA LatestKeepsInv ==
    ASSUME ClientsInv, putLatest \/ dropLatest
    PROVE  ClientsInv'
<1> USE DEF Kinds, Requests
<1>a. client \in ClientStates /\ TagsStored
  BY DEF ClientsInv
<1>1. /\ client.at \in {"putLatest", "dropLatest"} /\ client.kind # "none"
      /\ client.slot \in Slots /\ LatestSlot \in Slots
      /\ \/ client.kind = "mirror" /\ client.at = "putLatest"
         \/ client.kind \in {"move", "delete"} /\ client.gone \in Images /\ ~LatestStays /\ ~client.refused
      /\ client.at = "putLatest" => client.image \in Images
      /\ client.kind = "move" => client.to \in Slots /\ client.slot # client.to /\ client.image \in Images
  BY SlotFacts DEF putLatest, dropLatest, ClientsInv, ClientKnows, LatestStays, FailedEnds
<1>2. CASE Refused(client)
  BY <1>1, <1>2, RefusedKeepsInv
<1>3. ASSUME client' = [client EXCEPT !.at = "end"], TagsStored',
             \A q \in Slots : q # LatestSlot => tagOf'[q] = tagOf[q],
             client.kind \in {"move", "delete"} /\ LatestSlot \notin client.overtaken =>
                 \/ tagOf'[LatestSlot] = Nothing /\ Untouched = {}
                 \/ PickIsNewest /\ tagOf'[LatestSlot] = client.pick.digest
      PROVE  ClientsInv'
  <2>1. /\ client' \in ClientStates /\ client'.at = "end" /\ SameReading /\ SamePick
        /\ client'.image = client.image /\ client'.overtaken = client.overtaken
        /\ client'.since = client.since /\ client'.refused = client.refused
    BY <1>a, <1>3, NextRequest
  <2>s. LatestStays' = LatestStays /\ LatestSlot' = LatestSlot
    BY <2>1 DEF LatestStays, LatestSlot, SameReading
  <2>2. ClientKnows' /\ NothingSeen' /\ FailedEnds'
    BY <1>1, <2>1 DEF ClientKnows, SameReading, NothingSeen, FailedEnds
  <2>3. MoveKept'
    <3> SUFFICES ASSUME client.kind = "move", OwnTags, client.to # LatestSlot
                 PROVE  tagOf'[client.to] = client.gone
      BY <2>1, <2>s DEF MoveKept, MovesLoseNothing, SameReading, OwnTags
    <3>1. tagOf[client.to] = client.gone
      BY <1>1 DEF ClientsInv, MoveKept
    <3> QED
      BY <1>1, <1>3, <3>1
  <2>4. LatestKnown'
    <3> SUFFICES ASSUME client.kind \in {"move", "delete"}, LatestSlot \notin client.overtaken PROVE LatestFollowsNewest'
      BY <2>1, <2>s DEF LatestKnown, SameReading
    <3>1. Untouched' \subseteq Untouched /\ (PickIsNewest => PickIsNewest')
      BY <1>a, <1>1, <1>3, <2>1, UntouchedStays
    <3>2. At(client.slot[1], Latest)' = tagOf'[LatestSlot]
      BY <1>1, <2>1 DEF At, LatestSlot, SameReading
    <3>3. ~client'.refused
      BY <1>1, <2>1
    <3> QED
      BY <1>3, <2>1, <3>1, <3>2, <3>3 DEF LatestFollowsNewest, SamePick
  <2> QED
    BY <1>3, <2>1, <2>2, <2>3, <2>4 DEF ClientsInv
<1>4. CASE client.at = "putLatest" /\ PutTag(LatestSlot, client.image) /\ client' = [client EXCEPT !.at = "end"]
  <2>1. TagsStored' /\ tagOf'[LatestSlot] = client.image /\ \A q \in Slots : q # LatestSlot => tagOf'[q] = tagOf[q]
    BY <1>a, <1>1, <1>4, PutKeepsTags
  <2>2. client.kind \in {"move", "delete"} /\ LatestSlot \notin client.overtaken => PickIsNewest /\ client.image = client.pick.digest
    BY <1>4 DEF ClientsInv, LatestKnown
  <2> QED
    BY <1>3, <1>4, <2>1, <2>2
<1>5. CASE client.at = "dropLatest" /\ DropTag(LatestSlot) /\ client' = [client EXCEPT !.at = "end"]
  <2>1. TagsStored' /\ tagOf'[LatestSlot] = Nothing /\ \A q \in Slots : q # LatestSlot => tagOf'[q] = tagOf[q]
    BY <1>a, <1>1, <1>5, DropKeepsTags
  <2>2. client.kind \in {"move", "delete"} /\ LatestSlot \notin client.overtaken => Untouched = {}
    BY <1>5 DEF ClientsInv, LatestKnown
  <2> QED
    BY <1>3, <1>5, <2>1, <2>2
<1> QED
  BY <1>2, <1>4, <1>5 DEF putLatest, dropLatest, LatestSlot

\* The invariant holds at first ...
LEMMA ClientsInitInv == ClientsInit => ClientsInv
<1> SUFFICES ASSUME ClientsInit PROVE ClientsInv
  OBVIOUS
<1>1. TagsStored
  BY DEF ClientsInit, TagsStored
<1>2. client \in ClientStates /\ client.kind = "none" /\ client.at = "none" /\ client = Asleep
  BY DEF ClientsInit, ClientStates, Asleep, Kinds, Requests
<1> QED
  BY <1>1, <1>2 DEF ClientsInv, ClientKnows, MoveKept, LatestKnown, NothingSeen, FailedEnds

\* ... and after every step.
LEMMA ClientsStep == ClientsInv /\ [ClientsNext]_clientVars => ClientsInv'
<1> SUFFICES ASSUME ClientsInv, [ClientsNext]_clientVars PROVE ClientsInv'
  OBVIOUS
<1>1. CASE UNCHANGED clientVars
  <2>1. tagOf' = tagOf /\ stored' = stored /\ client' = client
    BY <1>1 DEF clientVars
  <2>2. TagsStored'
    BY <2>1 DEF ClientsInv, TagsStored
  <2> QED
    BY <2>1, <2>2, SameTagsKeepInv
<1>2. CASE ClientsNext
  BY <1>2, PeopleKeepInv, MirrorKeepsInv, BeginKeepsClients, CopyKeepsInv, LookKeepsInv, DeleteKeepsInv,
     FollowKeepsInv, LatestKeepsInv DEF ClientsNext
<1> QED
  BY <1>1, <1>2

\* The tags of the registry under any number of clients, one after the other, and people.
LEMMA ClientsInvHolds == ClientsSpec => []ClientsInv
BY ClientsInitInv, ClientsStep, PTL DEF ClientsSpec

\* moveImage, executeImageCopy and deleteTag, for any repositories, tags and
\* images: whichever request fails, and whatever others do to any other tag, a
\* move leaves the image under the source's tag or the destination's.
THEOREM MovesKeepImages == ClientsSpec => []MovesLoseNothing
BY ClientsInvHolds, ClientsInvSuffices, PTL

\* deleteTag, for any tags, versions or not: "latest" follows the newest that was
\* listed, while others push and delete.
THEOREM LatestIsNewest == ClientsSpec => []LatestFollowsNewest
BY ClientsInvHolds, ClientsInvSuffices, PTL

\* Type correctness: a tag always names an image its repository holds.
THEOREM ClientsTypeCorrect == ClientsSpec => []ClientsTypeOK
BY ClientsInvHolds, ClientsInvSuffices, PTL

-----------------------------------------------------------------------------
(* Retention. *)

\* The tags that a run has not come to, and those of the later ones that it keeps.
Planned(r) == Range(sweep[r].tags)
Kept(r, t) == newer[t] \ Planned(r)

\* A run without a policy is none.
SweepsAreNone == \A r \in RetentionRuns : sweep[r].policy = NoPolicy => sweep[r] = NoSweep

\* A tag that a run is going to delete has as many later ones that the run
\* keeps as its policy says.
PlansKeepNewest ==
    \A r \in RetentionRuns : ~sweep[r].deleted =>
        \A t \in Planned(r) \cap Named : t \in sweep[r].fresh \/ Cardinality(Kept(r, t)) >= sweep[r].policy.keepLast

\* A tag of an image that a run is going to delete was pushed since the plan.
ImagesWereUntagged ==
    \A r \in RetentionRuns : \A t \in Named : names[t] \in sweep[r].images => {t, names[t]} \subseteq sweep[r].fresh

\* What makes NewestTagsSurvive hold at the moment of the deletion.
RetentionInv == RetentionTypeOK /\ SweepsAreNone /\ PlansKeepNewest /\ ImagesWereUntagged

\* What a run has not come to, after it has gone on by one.
LEMMA TailPlans ==
    ASSUME NEW s \in Seq(RepoTags), s # <<>>
    PROVE  Head(s) \in Range(s) /\ Tail(s) \in Seq(RepoTags) /\ Range(Tail(s)) \subseteq Range(s)
BY DEF Range

\* A plan lists its tags.
LEMMA PlanIsSeq ==
    ASSUME NEW S \in SUBSET RepoTags, NEW order \in NewestFirst(S)
    PROVE  order \in Seq(RepoTags) /\ Range(order) \subseteq S
<1>1. Cardinality(S) \in Nat
  BY RetentionAssumption, FS_Subset, FS_CardinalityType
<1> QED BY <1>1 DEF NewestFirst, Range

\* A run notices a deletion by its flag alone, and only one of a tag it keeps.
LEMMA NoticeFacts ==
    ASSUME NEW s \in Sweeps, NEW S
    PROVE  /\ Notice(s, S) \in Sweeps
           /\ Notice(s, S).policy = s.policy /\ Notice(s, S).tags = s.tags /\ Notice(s, S).images = s.images /\ Notice(s, S).fresh = s.fresh
           /\ ~Notice(s, S).deleted => ~s.deleted /\ (s # NoSweep => S \subseteq Range(s.tags))
           /\ s = NoSweep => Notice(s, S) = NoSweep
BY DEF Notice, Sweeps

\* The record of no run.
LEMMA NoSweepTyped == NoSweep \in Sweeps /\ NoSweep.policy = NoPolicy /\ NoSweep.tags = <<>> /\ NoSweep.images = {} /\ Range(NoSweep.tags) = {}
BY DEF NoSweep, Sweeps, Range

\* A part of a finite set has no more members.
LEMMA FewerKept == \A S, T : IsFiniteSet(T) /\ S \subseteq T => Cardinality(S) <= Cardinality(T)
BY FS_Subset

\* The tags and their order, and what of it a deletion or a push leaves.
OrderOK ==
    /\ names \in [RepoTags -> held \cup {NoImage}] /\ held \subseteq RepoImages /\ agedImages \subseteq held
    /\ newer \in [RepoTags -> SUBSET Named]
    /\ \A t \in RepoTags : IF t \in Named THEN t \notin newer[t] ELSE newer[t] = {}
    /\ \A t, u \in Named : t # u => (t \in newer[u] <=> u \notin newer[t])
    /\ \A t, u \in Named : t \in newer[u] => newer[t] \subseteq newer[u]
    /\ agedTags \subseteq Named /\ \A t \in agedTags, u \in Named : t \in newer[u] => u \in agedTags

\* Deletions leave the order of the rest,
LEMMA WithoutKeepsOrder ==
    ASSUME OrderOK, NEW S \in SUBSET RepoTags, Without(S), NEW gone, held' = held \ gone, agedImages' = agedImages \ gone,
           \A t \in Named : names[t] \in gone => t \in S
    PROVE  OrderOK' /\ Named' = Named \ S /\ \A t \in Named' : names'[t] = names[t] /\ newer'[t] = newer[t] \ S
<1>1. /\ names' = [t \in RepoTags |-> IF t \in S THEN NoImage ELSE names[t]]
      /\ newer' = [t \in RepoTags |-> IF t \in S THEN {} ELSE newer[t] \ S]
      /\ agedTags' = agedTags \ S
  BY DEF Without
<1>2. Named' = Named \ S
  BY <1>1 DEF Named, OrderOK
<1>3. \A t \in Named' : names'[t] = names[t] /\ newer'[t] = newer[t] \ S /\ t \in Named
  BY <1>1, <1>2 DEF Named
<1>4. names' \in [RepoTags -> held' \cup {NoImage}]
  BY <1>1 DEF Named, OrderOK
<1>5. newer' \in [RepoTags -> SUBSET Named']
  BY <1>1, <1>2 DEF OrderOK
<1>6. \A t \in RepoTags : IF t \in Named' THEN t \notin newer'[t] ELSE newer'[t] = {}
  BY <1>1, <1>2, <1>3 DEF OrderOK
<1>7. \A t, u \in Named' : t # u => (t \in newer'[u] <=> u \notin newer'[t])
  BY <1>2, <1>3 DEF OrderOK
<1>8. \A t, u \in Named' : t \in newer'[u] => newer'[t] \subseteq newer'[u]
  BY <1>2, <1>3 DEF OrderOK
<1>9. agedTags' \subseteq Named' /\ \A t \in agedTags', u \in Named' : t \in newer'[u] => u \in agedTags'
  BY <1>1, <1>2, <1>3 DEF OrderOK
<1>10. held' \subseteq RepoImages /\ agedImages' \subseteq held'
  BY DEF OrderOK
<1> QED
  BY <1>2, <1>3, <1>4, <1>5, <1>6, <1>7, <1>8, <1>9, <1>10 DEF OrderOK

\* also when they take no image with them,
LEMMA UntagKeepsOrder ==
    ASSUME OrderOK, NEW S \in SUBSET RepoTags, Without(S), UNCHANGED <<held, agedImages>>
    PROVE  OrderOK' /\ Named' = Named \ S /\ \A t \in Named' : names'[t] = names[t] /\ newer'[t] = newer[t] \ S
<1> DEFINE gone == {}
<1>1. held' = held \ gone /\ agedImages' = agedImages \ gone /\ \A t \in Named : names[t] \in gone => t \in S
  OBVIOUS
<1> HIDE DEF gone
<1> QED BY <1>1, WithoutKeepsOrder

\* and a push puts its tag last.
LEMMA PushKeepsOrder ==
    ASSUME OrderOK, NEW t \in RepoTags, NEW d \in RepoImages, Push(t, d)
    PROVE  /\ OrderOK' /\ Named' = Named \cup {t}
           /\ names'[t] = d /\ \A u \in Named \ {t} : names'[u] = names[u] /\ newer'[u] = newer[u] \cup {t}
<1>1. /\ names' = [names EXCEPT ![t] = d] /\ held' = held \cup {d} /\ agedImages' = agedImages
      /\ newer' = [u \in RepoTags |-> IF u \in Named \ {t} THEN newer[u] \cup {t} ELSE {}]
      /\ agedTags' = agedTags \ {t}
  BY DEF Push
<1>2. d # NoImage /\ NoImage \notin RepoImages
  BY RetentionAssumption
<1>3. Named' = Named \cup {t}
  BY <1>1, <1>2 DEF Named, OrderOK
<1>4. names'[t] = d /\ newer'[t] = {} /\ \A u \in Named \ {t} : u \in RepoTags /\ names'[u] = names[u] /\ newer'[u] = newer[u] \cup {t}
  BY <1>1 DEF Named, OrderOK
<1>5. names' \in [RepoTags -> held' \cup {NoImage}]
  BY <1>1 DEF OrderOK
<1>6. newer' \in [RepoTags -> SUBSET Named']
  BY <1>1, <1>3 DEF OrderOK
<1>7. \A u \in RepoTags : IF u \in Named' THEN u \notin newer'[u] ELSE newer'[u] = {}
  BY <1>1, <1>3, <1>4 DEF OrderOK
<1>8. \A u, v \in Named' : u # v => (u \in newer'[v] <=> v \notin newer'[u])
  BY <1>3, <1>4 DEF OrderOK
<1>9. \A u, v \in Named' : u \in newer'[v] => newer'[u] \subseteq newer'[v]
  BY <1>3, <1>4 DEF OrderOK
<1> QED
  BY <1>1, <1>3, <1>4, <1>5, <1>6, <1>7, <1>8, <1>9 DEF OrderOK

\* The place of a tag in the order tells it apart.
LEMMA PlacesDiffer ==
    ASSUME OrderOK, NEW t \in Named, NEW u \in Named, u \in newer[t]
    PROVE  Cardinality(newer[u]) < Cardinality(newer[t])
<1>1. IsFiniteSet(newer[t]) /\ newer[u] \subseteq newer[t] /\ newer[u] # newer[t]
  BY RetentionAssumption, FS_Subset DEF OrderOK, Named
<1>2. newer[u] \in SUBSET newer[t]
  BY <1>1
<1>3. IsFiniteSet(newer[u]) /\ Cardinality(newer[u]) <= Cardinality(newer[t]) /\ Cardinality(newer[u]) # Cardinality(newer[t])
  BY <1>1, <1>2, FS_Subset
<1> QED BY <1>1, <1>3, FS_CardinalityType

\* The n newest are n, and later than every tag that is not among them.
LEMMA NewestAreAsMany ==
    ASSUME OrderOK, NEW n \in Nat, NEW t \in Named, ~(Cardinality(newer[t]) < n)
    PROVE  Newest(n) \subseteq newer[t] /\ Cardinality(Newest(n)) >= n /\ IsFiniteSet(Newest(n))
<1>1. IsFiniteSet(Named) /\ Cardinality(Named) \in Nat
  BY RetentionAssumption, FS_Subset, FS_CardinalityType DEF Named
<1>2. \A u \in Named : newer[u] \in SUBSET Named /\ IsFiniteSet(newer[u]) /\ Cardinality(newer[u]) \in 0..(Cardinality(Named) - 1)
  <2> SUFFICES ASSUME NEW u \in Named
               PROVE  newer[u] \in SUBSET Named /\ IsFiniteSet(newer[u]) /\ Cardinality(newer[u]) \in 0..(Cardinality(Named) - 1)
    OBVIOUS
  <2>1. newer[u] \in SUBSET Named /\ newer[u] # Named
    BY DEF OrderOK, Named
  <2>2. IsFiniteSet(newer[u]) /\ Cardinality(newer[u]) <= Cardinality(Named) /\ Cardinality(newer[u]) # Cardinality(Named)
    BY <1>1, <2>1, FS_Subset
  <2>3. Cardinality(newer[u]) \in Nat
    BY <2>2, FS_CardinalityType
  <2> QED BY <1>1, <2>1, <2>2, <2>3
<1>3. Newest(n) \subseteq newer[t]
  <2> SUFFICES ASSUME NEW u \in Newest(n), u \notin newer[t] PROVE FALSE
    OBVIOUS
  <2>1. u \in Named /\ u # t /\ Cardinality(newer[u]) < n
    BY DEF Newest
  <2>2. t \in newer[u]
    BY <2>1 DEF OrderOK
  <2>3. Cardinality(newer[t]) < Cardinality(newer[u])
    BY <2>1, <2>2, PlacesDiffer
  <2> QED BY <1>2, <2>1, <2>3
<1>4. Newest(n) \in SUBSET Named
  BY DEF Newest
<1>5. IsFiniteSet(Newest(n)) /\ Cardinality(Newest(n)) \in Nat
  BY <1>1, <1>4, FS_Subset, FS_CardinalityType
<1>6. Cardinality(Newest(n)) >= n
  <2> DEFINE rest == Named \ Newest(n)
             places == n..(Cardinality(Named) - 1)
             place == [u \in rest |-> Cardinality(newer[u])]
  <2>1. SUFFICES ASSUME Cardinality(Newest(n)) < n PROVE FALSE
    BY <1>5
  <2>2. IsFiniteSet(rest) /\ Cardinality(rest) = Cardinality(Named) - Cardinality(Newest(n))
    <3>1. Named \cap Newest(n) = Newest(n)
      BY <1>4
    <3> QED BY <1>1, <3>1, FS_Difference
  <2>3. n <= Cardinality(Named) - 1
    BY <1>1, <1>2
  <2>4. IsFiniteSet(places) /\ Cardinality(places) = Cardinality(Named) - n
    BY <1>1, <2>3, FS_Interval
  <2>5. place \in [rest -> places]
    BY <1>1, <1>2 DEF Newest
  <2>6. Cardinality(places) < Cardinality(rest)
    BY <1>1, <1>5, <2>1, <2>2, <2>4
  <2>7. \E u, v \in rest : u # v /\ place[u] = place[v]
    <3> HIDE DEF rest, places, place
    <3> QED BY <2>2, <2>4, <2>5, <2>6, FS_PigeonHole
  <2>8. PICK u \in rest, v \in rest : u # v /\ Cardinality(newer[u]) = Cardinality(newer[v])
    BY <2>7
  <2>9. u \in newer[v] \/ v \in newer[u]
    BY <2>8 DEF OrderOK
  <2> QED BY <1>2, <2>8, <2>9, PlacesDiffer
<1> QED BY <1>3, <1>5, <1>6

\* A plan as it is made.
NewPlan(r) ==
    /\ \A t \in Planned(r)' \cap Named' : Cardinality(Kept(r, t)') >= sweep'[r].policy.keepLast
    /\ \A t \in Named' : names'[t] \notin sweep'[r].images

\* A plan deletes none of the newest of its moment, and no image with a tag.
LEMMA PlanIsSafe ==
    ASSUME OrderOK, NEW r \in RetentionRuns, NEW p \in RetentionSettings, NEW order \in NewestFirst(planRetention(p).tags),
           UNCHANGED <<names, newer, held, agedImages>>, sweep'[r].policy = p, sweep'[r].tags = order, sweep'[r].images = planRetention(p).images
    PROVE  NewPlan(r) /\ order \in Seq(RepoTags) /\ planRetention(p).images \subseteq RepoImages
<1>1. planRetention(p).tags = {t \in Named : PlannedTag(p, t)} /\ planRetention(p).images \subseteq Untagged
  BY DEF planRetention
<1>2. planRetention(p).tags \in SUBSET RepoTags
  BY <1>1 DEF Named
<1>3. order \in Seq(RepoTags) /\ Range(order) \subseteq planRetention(p).tags
  BY <1>2, PlanIsSeq
<1>4. Planned(r)' = Range(order) /\ Named' = Named
  BY DEF Planned, Named
<1>5. p.keepLast \in Nat
  BY RetentionAssumption DEF Settings
<1>6. \A u \in Newest(p.keepLast) : u \notin Range(order)
  BY <1>1, <1>3 DEF PlannedTag
<1>7. ASSUME NEW t \in Planned(r)' \cap Named' PROVE Cardinality(Kept(r, t)') >= p.keepLast
  <2>1. t \in Named /\ ~(Cardinality(newer[t]) < p.keepLast)
    BY <1>1, <1>3, <1>4, <1>7 DEF PlannedTag, Newest
  <2>2. Newest(p.keepLast) \subseteq newer[t] /\ Cardinality(Newest(p.keepLast)) >= p.keepLast /\ IsFiniteSet(Newest(p.keepLast))
    BY <1>5, <2>1, NewestAreAsMany
  <2>3. Newest(p.keepLast) \subseteq Kept(r, t)'
    BY <1>4, <1>6, <2>2 DEF Kept
  <2>4. IsFiniteSet(Kept(r, t)')
    <3>1. newer[t] \subseteq RepoTags
      BY <2>1 DEF OrderOK, Named
    <3> QED BY <3>1, RetentionAssumption, FS_Subset DEF Kept
  <2>5. Cardinality(Newest(p.keepLast)) <= Cardinality(Kept(r, t)') /\ Cardinality(Newest(p.keepLast)) \in Nat /\ Cardinality(Kept(r, t)') \in Nat
    BY <2>2, <2>3, <2>4, FewerKept, FS_CardinalityType
  <2> QED BY <1>5, <2>2, <2>5
<1>8. \A t \in Named' : names'[t] \notin sweep'[r].images
  BY <1>1, <1>4 DEF Untagged, Named
<1>9. planRetention(p).images \subseteq RepoImages
  BY <1>1 DEF Untagged, OrderOK
<1> QED BY <1>3, <1>7, <1>8, <1>9 DEF NewPlan

\* RetentionTypeOK, cut in two.
LEMMA TypeParts ==
    RetentionTypeOK <=> /\ OrderOK /\ policies \in [{"organization", "repository"} -> RetentionSettings \cup {NoPolicy}]
                        /\ sweep \in [RetentionRuns -> Sweeps]
BY DEF RetentionTypeOK, OrderOK

\* What a step does to the plans, seen from one run r: s is its record, and t
\* has its later tags as before, or more, or fewer by tags of the plan.
LEMMA PlanStays ==
    ASSUME RetentionInv, NEW r \in RetentionRuns, ~sweep'[r].deleted, ~sweep[r].deleted, OrderOK',
           sweep'[r].policy = sweep[r].policy, Planned(r)' \subseteq Planned(r), sweep[r].fresh \subseteq sweep'[r].fresh,
           NEW t \in Planned(r)' \cap Named', t \in Named, newer[t] \ newer'[t] \subseteq Planned(r)
    PROVE  t \in sweep'[r].fresh \/ Cardinality(Kept(r, t)') >= sweep'[r].policy.keepLast
<1>1. t \in RepoTags /\ t \in Planned(r) \cap Named
  BY DEF Named
<1>2. t \in sweep[r].fresh \/ Cardinality(Kept(r, t)) >= sweep[r].policy.keepLast
  BY <1>1 DEF RetentionInv, PlansKeepNewest
<1>3. Kept(r, t) \subseteq Kept(r, t)'
  BY DEF Kept
<1>4. IsFiniteSet(Kept(r, t)') /\ IsFiniteSet(Kept(r, t))
  <2>1. newer'[t] \subseteq RepoTags /\ newer[t] \subseteq RepoTags
    BY <1>1, TypeParts DEF OrderOK, RetentionInv, Named
  <2> QED BY <2>1, RetentionAssumption, FS_Subset DEF Kept
<1>5. Cardinality(Kept(r, t)) <= Cardinality(Kept(r, t)') /\ Cardinality(Kept(r, t)) \in Nat /\ Cardinality(Kept(r, t)') \in Nat
  BY <1>3, <1>4, FewerKept, FS_CardinalityType
<1>6. Planned(r) = {} \/ sweep[r].policy.keepLast \in Nat
  <2>1. CASE sweep[r].policy = NoPolicy
    BY <2>1, NoSweepTyped DEF RetentionInv, SweepsAreNone, Planned
  <2>2. CASE sweep[r].policy \in RetentionSettings
    BY <2>2, RetentionAssumption DEF Settings
  <2> QED BY <2>1, <2>2, TypeParts DEF RetentionInv, Sweeps
<1> QED BY <1>1, <1>2, <1>5, <1>6

\* A step that leaves a run's plan alone or takes what was done off it, and
\* deletes no tag that the plan keeps without noticing.
GoesOn(r) ==
    /\ sweep'[r].policy = sweep[r].policy /\ sweep'[r].images \subseteq sweep[r].images
    /\ Planned(r)' \subseteq Planned(r) /\ sweep[r].fresh \subseteq sweep'[r].fresh
    /\ ~sweep'[r].deleted => /\ ~sweep[r].deleted
                             /\ \A t \in (Planned(r)' \cap Named') \ sweep'[r].fresh : t \in Named /\ newer[t] \ newer'[t] \subseteq Planned(r)
    /\ \A t \in Named' : (t \in Named /\ names'[t] = names[t]) \/ {t, names'[t]} \subseteq sweep'[r].fresh

\* A step in which every run goes on, ends or begins keeps the invariant.
LEMMA PlansKept ==
    ASSUME RetentionInv, OrderOK', policies' \in [{"organization", "repository"} -> RetentionSettings \cup {NoPolicy}],
           sweep' \in [RetentionRuns -> Sweeps], SweepsAreNone',
           \A r \in RetentionRuns : sweep'[r] = NoSweep \/ GoesOn(r) \/ NewPlan(r)
    PROVE  RetentionInv'
<1>1. ASSUME NEW r \in RetentionRuns, ~sweep'[r].deleted, NEW t \in Planned(r)' \cap Named'
      PROVE  t \in sweep'[r].fresh \/ Cardinality(Kept(r, t)') >= sweep'[r].policy.keepLast
  <2>1. CASE sweep'[r] = NoSweep
    BY <1>1, <2>1, NoSweepTyped DEF Planned
  <2>2. CASE GoesOn(r)
    BY <1>1, <2>2, PlanStays DEF GoesOn
  <2>3. CASE NewPlan(r)
    BY <1>1, <2>3 DEF NewPlan
  <2> QED BY <2>1, <2>2, <2>3
<1>2. ASSUME NEW r \in RetentionRuns, NEW t \in Named', names'[t] \in sweep'[r].images
      PROVE  {t, names'[t]} \subseteq sweep'[r].fresh
  <2>1. CASE sweep'[r] = NoSweep
    BY <1>2, <2>1, NoSweepTyped
  <2>2. CASE GoesOn(r)
    BY <1>2, <2>2 DEF GoesOn, RetentionInv, ImagesWereUntagged
  <2>3. CASE NewPlan(r)
    BY <1>2, <2>3 DEF NewPlan
  <2> QED BY <2>1, <2>2, <2>3
<1>3. RetentionTypeOK'
  BY DEF RetentionTypeOK, OrderOK
<1> QED BY <1>1, <1>2, <1>3 DEF RetentionInv, PlansKeepNewest, ImagesWereUntagged

\* The invariant holds at the start,
LEMMA RetentionInvInit == RetentionInit => RetentionInv
<1> SUFFICES ASSUME RetentionInit PROVE RetentionInv
  OBVIOUS
<1>1. Named = {} /\ OrderOK
  BY DEF RetentionInit, Named, OrderOK
<1>2. policies \in [{"organization", "repository"} -> RetentionSettings \cup {NoPolicy}] /\ sweep \in [RetentionRuns -> Sweeps]
  BY NoSweepTyped DEF RetentionInit
<1>3. \A r \in RetentionRuns : sweep[r] = NoSweep
  BY DEF RetentionInit
<1> QED
  BY <1>1, <1>2, <1>3, TypeParts DEF RetentionInv, SweepsAreNone, PlansKeepNewest, ImagesWereUntagged

\* is kept by every step,
LEMMA RetentionInvStep == RetentionInv /\ [RetentionNext]_retentionVars => RetentionInv'
<1> SUFFICES ASSUME RetentionInv, [RetentionNext]_retentionVars PROVE RetentionInv'
  OBVIOUS
<1>a. /\ OrderOK /\ policies \in [{"organization", "repository"} -> RetentionSettings \cup {NoPolicy}]
      /\ sweep \in [RetentionRuns -> Sweeps] /\ \A r \in RetentionRuns : sweep[r] \in Sweeps
  BY TypeParts DEF RetentionInv
<1>b. \A r \in RetentionRuns : sweep[r].policy = NoPolicy => sweep[r] = NoSweep
  BY DEF RetentionInv, SweepsAreNone
\* What the others notice of a deletion of S.
<1>c. ASSUME NEW S \in SUBSET RepoTags, NEW r \in RetentionRuns, sweep'[r] = Notice(sweep[r], S), Named' = Named \ S,
             \A t \in Named' : names'[t] = names[t] /\ newer'[t] = newer[t] \ S
      PROVE  (sweep'[r] = NoSweep \/ GoesOn(r)) /\ sweep'[r] \in Sweeps /\ (sweep'[r].policy = NoPolicy => sweep'[r] = NoSweep)
  <2>1. /\ sweep'[r].policy = sweep[r].policy /\ sweep'[r].tags = sweep[r].tags /\ sweep'[r].images = sweep[r].images /\ sweep'[r].fresh = sweep[r].fresh
        /\ sweep'[r] \in Sweeps /\ (sweep[r] = NoSweep => sweep'[r] = NoSweep)
        /\ ~sweep'[r].deleted => ~sweep[r].deleted /\ (sweep[r] # NoSweep => S \subseteq Range(sweep[r].tags))
    BY <1>a, <1>c, NoticeFacts
  <2> QED BY <1>b, <1>c, <2>1 DEF GoesOn, Planned
\* A step that changes no tag.
<1>d. ASSUME UNCHANGED <<names, newer, agedTags>>, NEW r \in RetentionRuns,
             sweep'[r] = NoSweep \/ (/\ sweep'[r].policy = sweep[r].policy /\ sweep'[r].images \subseteq sweep[r].images
                                    /\ Range(sweep'[r].tags) \subseteq Range(sweep[r].tags)
                                    /\ sweep'[r].fresh = sweep[r].fresh /\ sweep'[r].deleted = sweep[r].deleted)
      PROVE  sweep'[r] = NoSweep \/ GoesOn(r)
  BY <1>d DEF GoesOn, Planned, Named
<1>1. CASE UNCHANGED retentionVars
  <2>1. OrderOK'
    BY <1>1, <1>a DEF OrderOK, retentionVars, Named
  <2>2. \A r \in RetentionRuns : GoesOn(r)
    BY <1>1 DEF GoesOn, retentionVars, Planned, Named
  <2> QED BY <1>1, <1>a, <1>b, <2>1, <2>2, PlansKept DEF retentionVars, SweepsAreNone
<1>2. ASSUME NEW t \in RepoTags, Untag(t) PROVE RetentionInv'
  <2>1. Without({t}) /\ UNCHANGED <<held, agedImages, policies>> /\ sweep' = [r \in RetentionRuns |-> Notice(sweep[r], {t})]
    BY <1>2 DEF Untag
  <2>2. OrderOK' /\ Named' = Named \ {t} /\ \A u \in Named' : names'[u] = names[u] /\ newer'[u] = newer[u] \ {t}
    <3>1. {t} \in SUBSET RepoTags
      OBVIOUS
    <3> QED BY <1>a, <2>1, <3>1, UntagKeepsOrder
  <2>3. \A r \in RetentionRuns : (sweep'[r] = NoSweep \/ GoesOn(r)) /\ sweep'[r] \in Sweeps /\ (sweep'[r].policy = NoPolicy => sweep'[r] = NoSweep)
    BY <1>c, <2>1, <2>2
  <2>4. sweep' \in [RetentionRuns -> Sweeps]
    BY <2>1, <2>3
  <2> QED BY <1>a, <2>1, <2>2, <2>3, <2>4, PlansKept DEF SweepsAreNone
<1>3. ASSUME NEW t \in RepoTags, NEW d \in RepoImages, Push(t, d) PROVE RetentionInv'
  <2>1. /\ UNCHANGED policies
        /\ sweep' = [r \in RetentionRuns |-> IF sweep[r] = NoSweep THEN NoSweep ELSE [sweep[r] EXCEPT !.fresh = @ \cup {t, d}]]
    BY <1>3 DEF Push
  <2>2. /\ OrderOK' /\ Named' = Named \cup {t}
        /\ names'[t] = d /\ \A u \in Named \ {t} : names'[u] = names[u] /\ newer'[u] = newer[u] \cup {t}
    BY <1>a, <1>3, PushKeepsOrder
  <2>3. ASSUME NEW r \in RetentionRuns
        PROVE  (sweep'[r] = NoSweep \/ GoesOn(r)) /\ sweep'[r] \in Sweeps /\ (sweep'[r].policy = NoPolicy => sweep'[r] = NoSweep)
    <3>1. CASE sweep[r] = NoSweep
      BY <2>1, <3>1, NoSweepTyped
    <3>2. CASE sweep[r] # NoSweep
      <4>1. /\ sweep'[r].policy = sweep[r].policy /\ sweep'[r].images = sweep[r].images /\ sweep'[r].tags = sweep[r].tags
            /\ sweep'[r].fresh = sweep[r].fresh \cup {t, d} /\ sweep'[r].deleted = sweep[r].deleted /\ sweep'[r] \in Sweeps
        BY <1>a, <2>1, <3>2 DEF Sweeps
      <4>2. Planned(r)' = Planned(r)
        BY <4>1 DEF Planned
      <4>3. \A u \in Named' : u = t \/ (u \in Named /\ names'[u] = names[u] /\ newer[u] \ newer'[u] = {})
        BY <2>2
      <4>4. GoesOn(r)
        BY <2>2, <4>1, <4>2, <4>3 DEF GoesOn
      <4> QED BY <1>b, <3>2, <4>1, <4>4
    <3> QED BY <3>1, <3>2
  <2>4. sweep' \in [RetentionRuns -> Sweeps]
    BY <2>1, <2>3
  <2> QED BY <1>a, <2>1, <2>2, <2>3, <2>4, PlansKept DEF SweepsAreNone
<1>4. CASE Ages
  <2>1. UNCHANGED <<names, newer, held, policies, sweep>> /\ Named' = Named
    BY <1>4 DEF Ages, Named
  <2>2. OrderOK'
    <3>1. agedImages' \subseteq held
      BY <1>4, <1>a DEF Ages, OrderOK
    <3>2. agedTags' \subseteq Named /\ \A t \in agedTags', u \in Named : t \in newer[u] => u \in agedTags'
      BY <1>4, <1>a DEF Ages, OrderOK
    <3> QED BY <1>a, <2>1, <3>1, <3>2 DEF OrderOK
  <2>3. \A r \in RetentionRuns : GoesOn(r)
    BY <2>1 DEF GoesOn, Planned
  <2> QED BY <1>a, <1>b, <2>1, <2>2, <2>3, PlansKept DEF SweepsAreNone
<1>5. ASSUME NEW scope \in {"organization", "repository"}, saveRetentionPolicy(scope) PROVE RetentionInv'
  <2>1. UNCHANGED <<names, newer, agedTags, held, agedImages, sweep>> /\ Named' = Named
    BY <1>5 DEF saveRetentionPolicy, Named
  <2>2. policies' \in [{"organization", "repository"} -> RetentionSettings \cup {NoPolicy}]
    BY <1>5, <1>a DEF saveRetentionPolicy
  <2>3. OrderOK' /\ \A r \in RetentionRuns : GoesOn(r)
    BY <1>a, <2>1 DEF OrderOK, GoesOn, Planned
  <2> QED BY <1>a, <1>b, <2>1, <2>2, <2>3, PlansKept DEF SweepsAreNone
<1>6. ASSUME NEW r \in RetentionRuns, runRetention(r) PROVE RetentionInv'
  <2> DEFINE p == pickEffective
  <2>1. /\ UNCHANGED <<names, newer, agedTags, held, agedImages, policies>> /\ Named' = Named /\ p \in RetentionSettings
    BY <1>6, <1>a DEF runRetention, Named, pickEffective
  <2>2. PICK order \in NewestFirst(planRetention(p).tags) :
            sweep' = [sweep EXCEPT ![r] = [policy |-> p, tags |-> order, images |-> planRetention(p).images, fresh |-> {}, deleted |-> FALSE]]
    BY <1>6 DEF runRetention
  <2> HIDE DEF p
  <2>3. /\ sweep'[r].policy = p /\ sweep'[r].tags = order /\ sweep'[r].images = planRetention(p).images
        /\ sweep'[r] = [policy |-> p, tags |-> order, images |-> planRetention(p).images, fresh |-> {}, deleted |-> FALSE]
        /\ \A q \in RetentionRuns \ {r} : sweep'[q] = sweep[q]
    BY <1>a, <2>2
  <2>4. NewPlan(r) /\ order \in Seq(RepoTags) /\ planRetention(p).images \subseteq RepoImages
    BY <1>a, <2>1, <2>3, PlanIsSafe
  <2>5. sweep'[r] \in Sweeps
    BY <2>1, <2>3, <2>4 DEF Sweeps
  <2>6. sweep' \in [RetentionRuns -> Sweeps]
    BY <1>a, <2>2, <2>3, <2>5
  <2>7. OrderOK' /\ \A q \in RetentionRuns \ {r} : GoesOn(q)
    BY <1>a, <2>1, <2>3 DEF OrderOK, GoesOn, Planned
  <2>8. SweepsAreNone'
    BY <1>b, <2>1, <2>3, RetentionAssumption DEF SweepsAreNone
  <2> QED BY <1>a, <2>1, <2>4, <2>6, <2>7, <2>8, PlansKept
<1>7. ASSUME NEW r \in RetentionRuns, deletePlannedTag(r) PROVE RetentionInv'
  <2> DEFINE t == Head(sweep[r].tags)
             rest == [sweep[r] EXCEPT !.tags = Tail(@)]
  <2>1. sweep[r].tags \in Seq(RepoTags) /\ sweep[r].tags # <<>>
    BY <1>7, <1>a DEF deletePlannedTag, Sweeps
  <2>2. t \in RepoTags /\ t \in Range(sweep[r].tags) /\ Tail(sweep[r].tags) \in Seq(RepoTags) /\ Range(Tail(sweep[r].tags)) \subseteq Range(sweep[r].tags)
    BY <2>1, TailPlans
  <2>3. /\ rest.policy = sweep[r].policy /\ rest.images = sweep[r].images /\ rest.fresh = sweep[r].fresh /\ rest.deleted = sweep[r].deleted
        /\ Range(rest.tags) \subseteq Range(sweep[r].tags) /\ rest \in Sweeps
    BY <1>a, <2>2 DEF Sweeps
  <2>4. sweep[r].policy # NoPolicy
    BY <1>b, <2>1, NoSweepTyped
  <2>5. /\ UNCHANGED <<held, agedImages, policies>>
        /\ \/ Swept(r, rest, {}) /\ UNCHANGED <<names, newer, agedTags>>
           \/ Without({t}) /\ Swept(r, rest, {t})
    BY <1>7 DEF deletePlannedTag
  <2> HIDE DEF rest, t
  <2>6. PICK S \in SUBSET RepoTags : /\ S \subseteq {t} /\ Swept(r, rest, S) /\ OrderOK' /\ Named' = Named \ S
                                     /\ \A u \in Named' : names'[u] = names[u] /\ newer'[u] = newer[u] \ S
    <3>1. CASE Swept(r, rest, {}) /\ UNCHANGED <<names, newer, agedTags>>
      <4>1. OrderOK' /\ Named' = Named
        BY <1>a, <2>5, <3>1 DEF OrderOK, Named
      <4> QED BY <3>1, <4>1
    <3>2. CASE Without({t}) /\ Swept(r, rest, {t})
      <4>1. {t} \in SUBSET RepoTags
        BY <2>2
      <4>2. OrderOK' /\ Named' = Named \ {t} /\ \A u \in Named' : names'[u] = names[u] /\ newer'[u] = newer[u] \ {t}
        BY <1>a, <2>5, <3>2, <4>1, UntagKeepsOrder
      <4> QED BY <3>2, <4>1, <4>2
    <3> QED BY <2>5, <3>1, <3>2
  <2>7. GoesOn(r) /\ sweep'[r] = rest /\ \A q \in RetentionRuns \ {r} : sweep'[q] = Notice(sweep[q], S)
    BY <2>2, <2>3, <2>6 DEF Swept, GoesOn, Planned
  <2>8. \A q \in RetentionRuns : (sweep'[q] = NoSweep \/ GoesOn(q)) /\ sweep'[q] \in Sweeps /\ (sweep'[q].policy = NoPolicy => sweep'[q] = NoSweep)
    BY <1>c, <2>3, <2>4, <2>6, <2>7
  <2>9. sweep' \in [RetentionRuns -> Sweeps]
    BY <2>6, <2>8 DEF Swept
  <2> QED BY <1>a, <2>5, <2>6, <2>8, <2>9, PlansKept DEF SweepsAreNone
<1>8. ASSUME NEW r \in RetentionRuns, deletePlannedManifest(r) PROVE RetentionInv'
  <2>1. sweep[r].policy # NoPolicy /\ sweep[r].tags = <<>> /\ UNCHANGED policies
    BY <1>8 DEF deletePlannedManifest
  <2>2. PICK d \in sweep[r].images :
            LET its == {t \in RepoTags : names[t] = d}
                rest == [sweep[r] EXCEPT !.images = @ \ {d}]
            IN  \/ Swept(r, rest, {}) /\ UNCHANGED <<names, newer, agedTags, held, agedImages>>
                \/ /\ d \in held /\ its \cap Shielded = {}
                   /\ Without(its) /\ held' = held \ {d} /\ agedImages' = agedImages \ {d}
                   /\ Swept(r, rest, its)
    BY <1>8 DEF deletePlannedManifest
  <2> DEFINE its == {t \in RepoTags : names[t] = d}
             rest == [sweep[r] EXCEPT !.images = @ \ {d}]
  <2>3. /\ rest.policy = sweep[r].policy /\ rest.images \subseteq sweep[r].images /\ rest.fresh = sweep[r].fresh /\ rest.deleted = sweep[r].deleted
        /\ rest.tags = <<>> /\ rest \in Sweeps /\ Range(rest.tags) = {}
    <3>1. sweep[r] \in Sweeps
      BY <1>a
    <3>2. rest.policy = sweep[r].policy /\ rest.images = sweep[r].images \ {d} /\ rest.fresh = sweep[r].fresh /\ rest.deleted = sweep[r].deleted
          /\ rest.tags = sweep[r].tags /\ rest \in Sweeps
      BY <3>1 DEF Sweeps
    <3> HIDE DEF rest
    <3> QED BY <2>1, <3>2, NoSweepTyped
  <2>4. PICK S \in SUBSET RepoTags : /\ Swept(r, rest, S) /\ OrderOK' /\ Named' = Named \ S
                                     /\ \A u \in Named' : names'[u] = names[u] /\ newer'[u] = newer[u] \ S
    <3>1. CASE Swept(r, rest, {}) /\ UNCHANGED <<names, newer, agedTags, held, agedImages>>
      <4>1. OrderOK' /\ Named' = Named
        BY <1>a, <3>1 DEF OrderOK, Named
      <4> HIDE DEF rest
      <4> QED BY <3>1, <4>1
    <3>2. CASE Without(its) /\ held' = held \ {d} /\ agedImages' = agedImages \ {d} /\ Swept(r, rest, its)
      <4>1. its \in SUBSET RepoTags /\ \A t \in Named : names[t] \in {d} => t \in its
        BY DEF Named
      <4> HIDE DEF rest, its
      <4>2. OrderOK' /\ Named' = Named \ its /\ \A t \in Named' : names'[t] = names[t] /\ newer'[t] = newer[t] \ its
        BY <1>a, <3>2, <4>1, WithoutKeepsOrder
      <4> QED BY <3>2, <4>1, <4>2
    <3> QED BY <2>2, <3>1, <3>2
  <2> HIDE DEF rest, its
  <2>5. sweep'[r] = rest /\ \A q \in RetentionRuns \ {r} : sweep'[q] = Notice(sweep[q], S)
    BY <2>4 DEF Swept
  <2>6. GoesOn(r)
    BY <2>3, <2>4, <2>5 DEF GoesOn, Planned
  <2>7. \A q \in RetentionRuns : (sweep'[q] = NoSweep \/ GoesOn(q)) /\ sweep'[q] \in Sweeps /\ (sweep'[q].policy = NoPolicy => sweep'[q] = NoSweep)
    BY <1>c, <2>1, <2>3, <2>4, <2>5, <2>6
  <2>8. sweep' \in [RetentionRuns -> Sweeps]
    BY <2>4, <2>7 DEF Swept
  <2> QED BY <1>a, <2>1, <2>4, <2>7, <2>8, PlansKept DEF SweepsAreNone
<1>9. ASSUME NEW r \in RetentionRuns, RetentionEnds(r) PROVE RetentionInv'
  <2>1. UNCHANGED <<names, newer, agedTags, held, agedImages, policies>> /\ sweep' = [sweep EXCEPT ![r] = NoSweep] /\ Named' = Named
    BY <1>9 DEF RetentionEnds, Named
  <2>2. sweep' \in [RetentionRuns -> Sweeps] /\ sweep'[r] = NoSweep /\ \A q \in RetentionRuns \ {r} : sweep'[q] = sweep[q]
    BY <1>a, <2>1, NoSweepTyped
  <2>3. OrderOK' /\ \A q \in RetentionRuns : sweep'[q] = NoSweep \/ GoesOn(q)
    BY <1>a, <2>1, <2>2 DEF OrderOK, GoesOn, Planned
  <2> QED BY <1>a, <1>b, <2>1, <2>2, <2>3, PlansKept DEF SweepsAreNone
<1> QED BY <1>1, <1>2, <1>3, <1>4, <1>5, <1>6, <1>7, <1>8, <1>9 DEF RetentionNext

\* and holds in every behaviour of Retention.
LEMMA RetentionInvHolds == RetentionSpec => []RetentionInv
BY RetentionInvInit, RetentionInvStep, PTL DEF RetentionSpec

\* The step of a run that deletes, or gives up on, a tag of its plan.
LEMMA TagStep ==
    ASSUME RetentionInv, NEW r \in RetentionRuns, deletePlannedTag(r), ~sweep[r].deleted
    PROVE  Gone \cap Newest(sweep[r].policy.keepLast) \subseteq sweep[r].fresh /\ held' = held
<1> DEFINE t == Head(sweep[r].tags)
<1>1. sweep[r] \in Sweeps /\ sweep[r].tags # <<>> /\ held' = held
  BY TypeParts DEF RetentionInv, deletePlannedTag
<1>2. t \in Planned(r)
  BY <1>1, TailPlans DEF Sweeps, Planned
<1>3. Gone \subseteq {t}
  BY DEF deletePlannedTag, Gone, Named, Without
<1>4. SUFFICES ASSUME t \in Named, t \in Newest(sweep[r].policy.keepLast) PROVE t \in sweep[r].fresh
  BY <1>1, <1>3 DEF Gone
<1>5. Cardinality(newer[t]) < sweep[r].policy.keepLast
  BY <1>4 DEF Newest
<1>6. t \in sweep[r].fresh \/ Cardinality(Kept(r, t)) >= sweep[r].policy.keepLast
  BY <1>2, <1>4 DEF RetentionInv, PlansKeepNewest
<1>7. sweep[r].policy.keepLast \in Nat
  <2>1. sweep[r].policy \in RetentionSettings
    BY <1>1, NoSweepTyped DEF RetentionInv, SweepsAreNone, Sweeps
  <2> QED BY <2>1, RetentionAssumption DEF Settings
<1>8. Cardinality(Kept(r, t)) <= Cardinality(newer[t]) /\ Cardinality(Kept(r, t)) \in Nat /\ Cardinality(newer[t]) \in Nat
  <2>1. newer[t] \subseteq RepoTags
    BY <1>4, TypeParts DEF OrderOK, RetentionInv, Named
  <2>2. IsFiniteSet(newer[t]) /\ IsFiniteSet(Kept(r, t)) /\ Kept(r, t) \subseteq newer[t]
    BY <2>1, RetentionAssumption, FS_Subset DEF Kept
  <2> QED BY <2>2, FewerKept, FS_CardinalityType
<1> QED BY <1>5, <1>6, <1>7, <1>8

\* The step of a run that deletes an image, or gives up on it.
LEMMA ImageStep ==
    ASSUME RetentionInv, NEW r \in RetentionRuns, deletePlannedManifest(r)
    PROVE  Gone \subseteq sweep[r].fresh /\ \A d \in held \ held' : d \in Untagged \/ d \in sweep[r].fresh
<1>1. PICK d \in sweep[r].images : /\ held' = held \/ held' = held \ {d}
                                   /\ names' = names \/ Without({t \in RepoTags : names[t] = d})
  BY DEF deletePlannedManifest
<1>2. \A t \in Named : names[t] = d => {t, d} \subseteq sweep[r].fresh
  BY DEF RetentionInv, ImagesWereUntagged
<1>3. \A t \in Gone : t \in Named /\ names[t] = d
  BY <1>1 DEF Gone, Named, Without
<1>4. d \in held => d \in Untagged \/ d \in sweep[r].fresh
  <2> SUFFICES ASSUME d \in held, NEW t \in RepoTags, names[t] = d PROVE d \in sweep[r].fresh
    BY DEF Untagged
  <2>1. t \in Named
    BY RetentionAssumption, TypeParts DEF Named, OrderOK, RetentionInv
  <2> QED BY <1>2, <2>1
<1> QED BY <1>1, <1>2, <1>3, <1>4

\* Retention keeps its types: the order of pushes stays one, and a plan a list of tags.
THEOREM RetentionTypeCorrect == RetentionSpec => []RetentionTypeOK
<1>1. RetentionInv => RetentionTypeOK
  BY DEF RetentionInv
<1> QED BY <1>1, RetentionInvHolds, PTL

\* runRetention, for any number of tags, images and overlapping runs and any
\* policies: a tag that goes is none of the newest at that moment, and an image
\* that goes has no tag, unless they were pushed again since the plan was made
\* or somebody else deleted a tag that the plan keeps.
THEOREM NewestSurvive == RetentionSpec => NewestTagsSurvive
<1> DEFINE NewestStay == \A r \in RetentionRuns : Sweeping(r) =>
               /\ Gone \cap Newest(sweep[r].policy.keepLast) \subseteq sweep[r].fresh
               /\ \A d \in held \ held' : d \in Untagged \/ d \in sweep[r].fresh
<1>1. RetentionInv /\ [RetentionNext]_retentionVars => [NewestStay]_retentionVars
  <2> SUFFICES ASSUME RetentionInv, RetentionNext, NEW r \in RetentionRuns, Sweeping(r)
               PROVE  /\ Gone \cap Newest(sweep[r].policy.keepLast) \subseteq sweep[r].fresh
                      /\ \A d \in held \ held' : d \in Untagged \/ d \in sweep[r].fresh
    OBVIOUS
  <2>1. sweep[r].policy # NoPolicy /\ ~sweep[r].deleted /\ <<sweep'[r].tags, sweep'[r].images>> # <<sweep[r].tags, sweep[r].images>>
    BY DEF Sweeping
  <2>2. sweep \in [RetentionRuns -> Sweeps] /\ sweep[r] \in Sweeps
    BY TypeParts DEF RetentionInv
  <2>3. \A S : Notice(sweep[r], S).tags = sweep[r].tags /\ Notice(sweep[r], S).images = sweep[r].images
    BY <2>2, NoticeFacts
  <2>4. CASE \E t \in RepoTags : Untag(t) \/ \E d \in RepoImages : Push(t, d)
    BY <2>1, <2>2, <2>3, <2>4 DEF Untag, Push, Sweeps
  <2>5. CASE Ages \/ \E scope \in {"organization", "repository"} : saveRetentionPolicy(scope)
    BY <2>1, <2>5 DEF Ages, saveRetentionPolicy
  <2>6. ASSUME NEW q \in RetentionRuns, runRetention(q) \/ RetentionEnds(q) PROVE FALSE
    <3>1. q = r => sweep'[r] = NoSweep /\ sweep[r].tags = <<>> /\ sweep[r].images = {}
      BY <2>1, <2>2, <2>6, NoSweepTyped DEF runRetention, RetentionEnds
    <3>2. q # r => sweep'[r] = sweep[r]
      BY <2>2, <2>6 DEF runRetention, RetentionEnds
    <3> QED BY <2>1, <3>1, <3>2, NoSweepTyped
  <2>7. ASSUME NEW q \in RetentionRuns, q # r, deletePlannedTag(q) \/ deletePlannedManifest(q) PROVE FALSE
    <3>1. \E S : sweep'[r] = Notice(sweep[r], S)
      BY <2>7 DEF deletePlannedTag, deletePlannedManifest, Swept
    <3> QED BY <2>1, <2>3, <3>1
  <2>8. CASE deletePlannedTag(r)
    BY <2>1, <2>8, TagStep
  <2>9. CASE deletePlannedManifest(r)
    BY <2>9, ImageStep
  <2> QED BY <2>4, <2>5, <2>6, <2>7, <2>8, <2>9 DEF RetentionNext
<1>2. QED BY <1>1, RetentionInvHolds, PTL DEF RetentionSpec, NewestTagsSurvive

-----------------------------------------------------------------------------
(* Bulk moves. *)

\* The layers that moving B into the target brings there.
Brought(w, B) == (UNION {w.layers[b] : b \in B}) \ LayersIn(w, Target)

\* The picture after B has been moved into the target.
With(w, B) == [w EXCEPT !.home = [q \in MovedRepos |-> IF q \in B THEN Target ELSE w.home[q]]]

\* The fields of the picture after a move.
LEMMA WithFields ==
    ASSUME NEW w \in Pictured, NEW B
    PROVE  /\ With(w, B).home = [q \in MovedRepos |-> IF q \in B THEN Target ELSE w.home[q]]
           /\ With(w, B).layers = w.layers /\ With(w, B).namesakes = w.namesakes /\ With(w, B).owns = w.owns
           /\ With(w, B).proxies = w.proxies /\ With(w, B).orgRepos = w.orgRepos /\ With(w, B).orgBytes = w.orgBytes
           /\ With(w, B).userRepos = w.userRepos /\ With(w, B).userBytes = w.userBytes
BY DEF With, Pictured

\* What the fields of a picture are.
LEMMA PicturedFields ==
    ASSUME NEW w \in Pictured
    PROVE  /\ w.home \in [MovedRepos -> Organizations] /\ w.layers \in [MovedRepos -> SUBSET LayerBlobs]
           /\ w.orgRepos \in Int /\ w.orgBytes \in Int /\ w.userRepos \in Int /\ w.userBytes \in Int
BY MovesAssumption DEF Pictured, Limits, Unlimited

\* Every set that is counted is finite.
LEMMA LayersFinite ==
    ASSUME NEW w \in Pictured, NEW B \in SUBSET MovedRepos
    PROVE  /\ IsFiniteSet(B) /\ IsFiniteSet(Brought(w, B)) /\ IsFiniteSet(LayersIn(w, Target))
           /\ \A r \in MovedRepos : IsFiniteSet(w.layers[r])
<1>1. \A r \in MovedRepos : w.layers[r] \subseteq LayerBlobs
  BY PicturedFields
<1>2. Brought(w, B) \subseteq LayerBlobs /\ LayersIn(w, Target) \subseteq LayerBlobs
  BY <1>1 DEF Brought, LayersIn, In
<1> QED BY <1>1, <1>2, MovesAssumption, FS_Subset

\* What is in the layers of some repositories.
LEMMA LayersOf ==
    ASSUME NEW w, NEW S
    PROVE  \A x : x \in UNION {w.layers[r] : r \in S} <=> \E r \in S : x \in w.layers[r]
OBVIOUS

\* What the target holds after B has been moved: what it held, B, and what B brings.
LEMMA InAfter ==
    ASSUME NEW w \in Pictured, NEW B \in SUBSET MovedRepos
    PROVE  /\ In(With(w, B), {Target}) = In(w, {Target}) \cup B
           /\ LayersIn(With(w, B), Target) = LayersIn(w, Target) \cup Brought(w, B)
<1> DEFINE v == With(w, B)
<1>1. v.home = [q \in MovedRepos |-> IF q \in B THEN Target ELSE w.home[q]] /\ v.layers = w.layers
  BY WithFields
<1> HIDE DEF v
<1>2. \A q \in MovedRepos : v.home[q] = IF q \in B THEN Target ELSE w.home[q]
  BY <1>1
<1>3. \A q : q \in In(v, {Target}) <=> q \in In(w, {Target}) \cup B
  BY <1>2 DEF In
<1>4. In(v, {Target}) = In(w, {Target}) \cup B
  BY <1>3
<1>5. LayersIn(v, Target) = UNION {w.layers[r] : r \in In(w, {Target}) \cup B}
  BY <1>1, <1>4 DEF LayersIn
<1>6. UNION {w.layers[r] : r \in In(w, {Target}) \cup B} = LayersIn(w, Target) \cup Brought(w, B)
  <2>1. LayersIn(w, Target) = UNION {w.layers[r] : r \in In(w, {Target})}
    BY DEF LayersIn
  <2> DEFINE U == UNION {w.layers[r] : r \in In(w, {Target}) \cup B}
             V == UNION {w.layers[r] : r \in B}
             L == LayersIn(w, Target)
  <2>2. \A x : x \in L <=> \E r \in In(w, {Target}) : x \in w.layers[r]
    BY <2>1, LayersOf
  <2>3. \A x : x \in V <=> \E r \in B : x \in w.layers[r]
    BY LayersOf
  <2>4. \A x : x \in U <=> \E r \in In(w, {Target}) \cup B : x \in w.layers[r]
    BY LayersOf
  <2>5. Brought(w, B) = V \ L
    BY DEF Brought
  <2> HIDE DEF U, V, L
  <2>6. U = L \cup (V \ L)
    BY <2>2, <2>3, <2>4
  <2> QED BY <2>5, <2>6 DEF U, V, L
<1> QED BY <1>4, <1>5, <1>6 DEF v

\* What one organization stores is the blobs of its repositories, each once.
LEMMA StorageOfTarget ==
    ASSUME NEW w, IsFiniteSet(LayersIn(w, Target))
    PROVE  StorageOf(w, {Target}) = Cardinality(LayersIn(w, Target))
<1>1. UNION {{o} \X LayersIn(w, o) : o \in {Target}} = {Target} \X LayersIn(w, Target)
  OBVIOUS
<1>2. IsFiniteSet({Target}) /\ Cardinality({Target}) = 1
  BY FS_Singleton
<1>3. Cardinality({Target} \X LayersIn(w, Target)) = Cardinality({Target}) * Cardinality(LayersIn(w, Target))
  BY <1>2, FS_Product
<1>4. Cardinality(LayersIn(w, Target)) \in Nat
  BY FS_CardinalityType
<1>5. Cardinality({Target} \X LayersIn(w, Target)) = Cardinality(LayersIn(w, Target))
  BY <1>2, <1>3, <1>4
<1>6. StorageOf(w, {Target}) = Cardinality(UNION {{o} \X LayersIn(w, o) : o \in {Target}})
  BY DEF StorageOf
<1> QED BY <1>1, <1>5, <1>6

\* Sets that share nothing count separately.
LEMMA DisjointSum ==
    ASSUME NEW S, NEW T, IsFiniteSet(S), IsFiniteSet(T), \A x \in S : x \notin T
    PROVE  Cardinality(S \cup T) = Cardinality(S) + Cardinality(T)
<1>1. S \cap T = {}
  OBVIOUS
<1>2. Cardinality(S \cup T) = Cardinality(S) + Cardinality(T) - Cardinality(S \cap T)
  BY FS_Union
<1>3. Cardinality(S \cap T) = 0
  BY <1>1, FS_EmptySet
<1>4. Cardinality(S) \in Nat /\ Cardinality(T) \in Nat
  BY FS_CardinalityType
<1> QED BY <1>2, <1>3, <1>4

\* The check of a move does not tell whether B has been moved, or only been
\* accepted before it.
LEMMA PlanAgrees ==
    ASSUME NEW w \in Pictured, NEW B \in SUBSET MovedRepos, \A b \in B : w.home[b] # Target, NEW r \in MovedRepos \ B,
           ~((w.orgRepos = Unlimited \/ w.orgBytes = Unlimited) /\ w.owns # {Target})
    PROVE  planRepositoryMove(With(w, B), r, newBatchContext)
             = planRepositoryMove(w, r, [ids |-> B, bytes |-> Cardinality(Brought(w, B))])
<1> DEFINE v == With(w, B)
           batch == [ids |-> B, bytes |-> Cardinality(Brought(w, B))]
           none == newBatchContext.ids
<1>1. /\ v.layers = w.layers /\ v.namesakes = w.namesakes /\ v.owns = w.owns /\ v.proxies = w.proxies
      /\ v.orgRepos = w.orgRepos /\ v.orgBytes = w.orgBytes /\ v.userRepos = w.userRepos /\ v.userBytes = w.userBytes
      /\ v.home = [q \in MovedRepos |-> IF q \in B THEN Target ELSE w.home[q]]
  BY WithFields
<1>2. /\ In(v, {Target}) = In(w, {Target}) \cup B
      /\ LayersIn(v, Target) = LayersIn(w, Target) \cup Brought(w, B)
  BY InAfter
<1>3. none = {} /\ newBatchContext.bytes = 0 /\ Cardinality(none) = 0 /\ batch.ids = B /\ batch.bytes = Cardinality(Brought(w, B))
  BY FS_EmptySet DEF newBatchContext
<1> HIDE DEF v, batch, none
<1>0. v.home[r] = w.home[r]
  BY <1>1
<1>4. repositoryBytesNewToOrg(v, r, none) = repositoryBytesNewToOrg(w, r, B) /\ repositoryBytesNewToOrg(w, r, B) \in Nat
  <2> DEFINE L == LayersIn(w, Target)
             M == LayersIn(v, Target)
             U == UNION {w.layers[s] : s \in B}
             N == UNION {w.layers[s] : s \in none}
  <2>1. M = L \cup (U \ L)
    BY <1>2 DEF Brought
  <2>7. \A x : x \notin N
    BY <1>3, LayersOf
  <2>2. repositoryBytesNewToOrg(v, r, none) = Cardinality(w.layers[r] \ (M \cup N)) /\ repositoryBytesNewToOrg(w, r, B) = Cardinality(w.layers[r] \ (L \cup U))
    BY <1>1 DEF repositoryBytesNewToOrg
  <2>3. IsFiniteSet(w.layers[r])
    BY LayersFinite
  <2> HIDE DEF L, M, U, N
  <2>4. w.layers[r] \ (M \cup N) = w.layers[r] \ (L \cup U)
    BY <2>1, <2>7
  <2>5. IsFiniteSet(w.layers[r] \ (L \cup U))
    BY <2>3, FS_Difference
  <2>6. Cardinality(w.layers[r] \ (L \cup U)) \in Nat
    BY <2>5, FS_CardinalityType
  <2> QED BY <2>2, <2>4, <2>6
<1>5. (\E s \in In(v, {Target}) \cup none : SameName(v, r, s)) <=> (\E s \in In(w, {Target}) \cup B : SameName(w, r, s))
  BY <1>1, <1>2, <1>3, SMTT(30) DEF SameName
<1>6. Cardinality(In(v, {Target})) = Cardinality(In(w, {Target})) + Cardinality(B) /\ Cardinality(B) \in Nat /\ Cardinality(In(w, {Target})) \in Nat
  <2>1. In(w, {Target}) \subseteq MovedRepos /\ \A q \in In(w, {Target}) : q \notin B
    BY DEF In
  <2>2. IsFiniteSet(In(w, {Target})) /\ IsFiniteSet(B)
    BY <2>1, MovesAssumption, FS_Subset
  <2> QED BY <1>2, <2>1, <2>2, DisjointSum, FS_CardinalityType
<1>7. checkRepoQuota(v, Cardinality(none)) <=> checkRepoQuota(w, Cardinality(B))
  <2>1. Cardinality(In(v, {Target})) + Cardinality(none) = Cardinality(In(w, {Target})) + Cardinality(B)
    BY <1>3, <1>6
  <2>2. CASE w.orgRepos # Unlimited
    BY <1>1, <2>1, <2>2 DEF checkRepoQuota
  <2>3. CASE w.orgRepos = Unlimited
    <3>1. w.owns = {Target}
      BY <2>3
    <3> QED BY <1>1, <2>1, <2>3, <3>1 DEF checkRepoQuota
  <2> QED BY <2>2, <2>3
<1>8. StorageOf(v, {Target}) = StorageOf(w, {Target}) + Cardinality(Brought(w, B)) /\ Cardinality(Brought(w, B)) \in Nat /\ StorageOf(w, {Target}) \in Nat
  <2> DEFINE L == LayersIn(w, Target)
             V == UNION {w.layers[b] : b \in B}
  <2>0. Brought(w, B) = V \ L
    BY DEF Brought
  <2> HIDE DEF L, V
  <2>1. \A x \in L : x \notin Brought(w, B)
    BY <2>0
  <2> USE DEF L
  <2>2. IsFiniteSet(LayersIn(w, Target)) /\ IsFiniteSet(Brought(w, B))
    BY LayersFinite
  <2>3. IsFiniteSet(LayersIn(w, Target) \cup Brought(w, B))
    BY <2>2, FS_Union
  <2>4. StorageOf(v, {Target}) = Cardinality(LayersIn(v, Target)) /\ StorageOf(w, {Target}) = Cardinality(LayersIn(w, Target))
    BY <1>2, <2>2, <2>3, StorageOfTarget
  <2> QED BY <1>2, <2>1, <2>2, <2>4, DisjointSum, FS_CardinalityType
<1>9. ASSUME NEW n \in Nat PROVE checkStorageQuota(v, n + 0) <=> checkStorageQuota(w, n + Cardinality(Brought(w, B)))
  <2>1. StorageOf(v, {Target}) + (n + 0) = StorageOf(w, {Target}) + (n + Cardinality(Brought(w, B)))
    BY <1>8
  <2>2. CASE w.orgBytes # Unlimited
    BY <1>1, <2>1, <2>2 DEF checkStorageQuota
  <2>3. CASE w.orgBytes = Unlimited
    <3>1. w.owns = {Target}
      BY <2>3
    <3> QED BY <1>1, <2>1, <2>3, <3>1 DEF checkStorageQuota
  <2> QED BY <2>2, <2>3
<1>10. checkStorageQuota(v, repositoryBytesNewToOrg(v, r, none) + 0) <=> checkStorageQuota(w, repositoryBytesNewToOrg(w, r, B) + Cardinality(Brought(w, B)))
  BY <1>4, <1>9
<1>11. planRepositoryMove(v, r, newBatchContext) = planRepositoryMove(w, r, batch)
  BY <1>0, <1>1, <1>3, <1>5, <1>7, <1>10 DEF planRepositoryMove, none
<1> QED BY <1>11 DEF v, batch

\* A move that is accepted is of a repository that is elsewhere.
LEMMA AcceptedIsElsewhere ==
    ASSUME NEW w, NEW r, NEW batch, planRepositoryMove(w, r, batch) = "ok"
    PROVE  w.home[r] # Target
BY DEF planRepositoryMove

\* One more repository brings what is new with it.
LEMMA BroughtGrows ==
    ASSUME NEW w \in Pictured, NEW B \in SUBSET MovedRepos, NEW r \in MovedRepos
    PROVE  Cardinality(Brought(w, B \cup {r})) = Cardinality(Brought(w, B)) + repositoryBytesNewToOrg(w, r, B)
<1> DEFINE L == LayersIn(w, Target)
           U == UNION {w.layers[s] : s \in B}
           V == UNION {w.layers[s] : s \in B \cup {r}}
           D == w.layers[r] \ (L \cup U)
<1>1. Brought(w, B) = U \ L /\ Brought(w, B \cup {r}) = V \ L
  BY DEF Brought
<1>2. \A x : x \in U <=> \E s \in B : x \in w.layers[s]
  BY LayersOf
<1>3. \A x : x \in V <=> \E s \in B \cup {r} : x \in w.layers[s]
  BY LayersOf
<1>4. repositoryBytesNewToOrg(w, r, B) = Cardinality(D)
  BY DEF repositoryBytesNewToOrg
<1>5. IsFiniteSet(Brought(w, B)) /\ IsFiniteSet(w.layers[r])
  BY LayersFinite
<1> HIDE DEF L, U, V
<1>6. V \ L = (U \ L) \cup D
  BY <1>2, <1>3
<1>7. IsFiniteSet(D) /\ \A x \in U \ L : x \notin D
  BY <1>5, FS_Difference
<1> QED BY <1>1, <1>4, <1>5, <1>6, <1>7, DisjointSum, SMTT(30)

\* What the first n plans have accepted, and the context they leave.
AcceptedOf(order, codes, n) == {r \in MovedRepos : \E i \in 1..n : order[i] = r /\ codes[i] = "ok"}
ContextOf(w, order, codes, n) ==
    [ids |-> AcceptedOf(order, codes, n), bytes |-> Cardinality(Brought(w, AcceptedOf(order, codes, n)))]

\* What a move may answer.
MoveCodes == {"same-organization", "source-proxy", "target-proxy", "name-taken",
              "repository-quota", "storage-quota", "ok", "failed"}

\* The picture, the order and the answers; the run begins when the preview has ended.
MovesTyped ==
    /\ world \in Pictured /\ home \in [MovedRepos -> Organizations]
    /\ batchOrder \in Seq(MovedRepos) /\ IsInjective(batchOrder)
    /\ planned \in Seq(MoveCodes) /\ moved \in Seq(MoveCodes)
    /\ Len(planned) <= Len(batchOrder) /\ Len(moved) <= Len(batchOrder)
    /\ Len(moved) > 0 => Len(planned) = Len(batchOrder)

\* Each answer of the preview follows from the ones before it.
AnswersFollow ==
    /\ accepted = ContextOf(world, batchOrder, planned, Len(planned))
    /\ \A i \in 1..Len(planned) :
           planned[i] = planRepositoryMove(world, batchOrder[i], ContextOf(world, batchOrder, planned, i - 1))

\* What has been moved is what the preview has accepted so far.
HomesFollow ==
    /\ Len(moved) = 0 => home = world.home
    /\ ~PoolIsShared /\ NoneFailed(Len(moved)) => home = With(world, AcceptedOf(batchOrder, planned, Len(moved))).home

\* What makes PreviewIsTheRun inductive.
MovesInv == MovesTyped /\ AnswersFollow /\ HomesFollow /\ PreviewIsTheRun

\* Only the first n answers count.
LEMMA ContextStays ==
    ASSUME NEW order, NEW codes \in Seq(MoveCodes), NEW code \in MoveCodes, NEW n \in Nat, n <= Len(codes)
    PROVE  AcceptedOf(order, Append(codes, code), n) = AcceptedOf(order, codes, n)
<1>1. \A i \in 1..n : i \in 1..Len(codes)
  OBVIOUS
<1>2. \A i \in 1..Len(codes) : Append(codes, code)[i] = codes[i]
  OBVIOUS
<1>3. \A i \in 1..n : Append(codes, code)[i] = codes[i]
  BY <1>1, <1>2
<1> QED BY <1>3 DEF AcceptedOf

\* One more answer.
LEMMA AcceptedGrows ==
    ASSUME NEW order \in Seq(MovedRepos), NEW codes, NEW n \in Nat, n + 1 <= Len(order), IsInjective(order)
    PROVE  /\ AcceptedOf(order, codes, n + 1)
                = IF codes[n + 1] = "ok" THEN AcceptedOf(order, codes, n) \cup {order[n + 1]} ELSE AcceptedOf(order, codes, n)
           /\ order[n + 1] \in MovedRepos /\ order[n + 1] \notin AcceptedOf(order, codes, n)
<1>1. 1..(n + 1) = (1..n) \cup {n + 1}
  OBVIOUS
<1>2. order[n + 1] \in MovedRepos /\ \A i \in 1..n : order[i] # order[n + 1]
  BY DEF IsInjective
<1> QED BY <1>1, <1>2 DEF AcceptedOf

\* The answers are names.
LEMMA AnswerIsName ==
    ASSUME NEW w, NEW r, NEW batch
    PROVE  planRepositoryMove(w, r, batch) \in MoveCodes /\ planRepositoryMove(w, r, batch) # "failed"
<1>1. planRepositoryMove(w, r, batch) \in {"same-organization", "source-proxy", "target-proxy", "name-taken",
                                           "repository-quota", "storage-quota", "ok"}
  <2>1. CASE w.home[r] = Target
    BY <2>1 DEF planRepositoryMove
  <2>2. CASE w.home[r] # Target /\ w.home[r] \in w.proxies
    BY <2>2 DEF planRepositoryMove
  <2>3. CASE w.home[r] \notin w.proxies \cup {Target} /\ Target \in w.proxies
    BY <2>3 DEF planRepositoryMove
  <2>4. CASE w.home[r] \notin w.proxies \cup {Target} /\ Target \notin w.proxies
    BY <2>4 DEF planRepositoryMove
  <2> QED BY <2>1, <2>2, <2>3, <2>4
<1> QED BY <1>1 DEF MoveCodes

\* A picture whose homes are the ones it has.
LEMMA SameHome ==
    ASSUME NEW w \in Pictured, NEW h, h = w.home
    PROVE  [w EXCEPT !.home = h] = w
BY DEF Pictured

\* The invariant of a bulk move holds before the preview.
LEMMA MovesInvInit == MovesInit => MovesInv
<1> SUFFICES ASSUME MovesInit PROVE MovesInv
  OBVIOUS
<1> USE DEF MovesInit
<1>1. Cardinality(MovedRepos) \in Nat
  BY MovesAssumption, FS_CardinalityType
<1>2. batchOrder \in Seq(MovedRepos) /\ IsInjective(batchOrder)
  BY <1>1, SeqDef
<1>3. MovesTyped
  BY <1>2, PicturedFields DEF MovesTyped
<1>4. AcceptedOf(batchOrder, planned, 0) = {} /\ Len(planned) = 0 /\ Len(moved) = 0
  BY DEF AcceptedOf
<1>5. Brought(world, {}) = {}
  <2>1. \A x : x \notin UNION {world.layers[s] : s \in {}}
    OBVIOUS
  <2> QED BY <2>1 DEF Brought
<1>6. AnswersFollow
  <2>1. ContextOf(world, batchOrder, planned, 0) = newBatchContext
    BY <1>4, <1>5, FS_EmptySet DEF ContextOf, newBatchContext
  <2> QED BY <1>4, <2>1 DEF AnswersFollow
<1>7. [q \in MovedRepos |-> IF q \in {} THEN Target ELSE world.home[q]] = world.home
  BY <1>3, PicturedFields
<1>8. With(world, {}).home = [q \in MovedRepos |-> IF q \in {} THEN Target ELSE world.home[q]]
  BY WithFields
<1>9. HomesFollow
  BY <1>4, <1>7, <1>8 DEF HomesFollow
<1> QED BY <1>3, <1>4, <1>6, <1>9 DEF MovesInv, PreviewIsTheRun

\* The next plan of the preview keeps it.
LEMMA PreviewStep ==
    ASSUME MovesInv, planBulkMove
    PROVE  MovesInv'
<1> DEFINE n == Len(planned)
           r == batchOrder[n + 1]
           code == planRepositoryMove(world, r, accepted)
           A == AcceptedOf(batchOrder, planned, n)
<1> USE DEF planBulkMove, MovesInv
<1>1. n \in Nat /\ n < Len(batchOrder) /\ Len(moved) = 0 /\ world \in Pictured /\ home = world.home
  BY DEF MovesTyped, HomesFollow
<1>2. Current = world
  BY <1>1, SameHome DEF Current
<1>3. code \in MoveCodes
  BY AnswerIsName
<1>4. /\ planned' = Append(planned, code) /\ accepted' = applyToBatch(world, accepted, r, code)
      /\ world' = world /\ batchOrder' = batchOrder /\ home' = home /\ moved' = moved
  BY <1>2
<1>5. Len(planned') = n + 1 /\ planned'[n + 1] = code /\ \A i \in 1..n : planned'[i] = planned[i]
  BY <1>3, <1>4 DEF MovesTyped
<1>6. MovesTyped'
  BY <1>1, <1>3, <1>4, <1>5 DEF MovesTyped
<1>7. \A i \in Nat : i <= n => AcceptedOf(batchOrder, planned', i) = AcceptedOf(batchOrder, planned, i)
  BY <1>3, <1>4, ContextStays DEF MovesTyped
<1>8. /\ AcceptedOf(batchOrder, planned', n + 1) = IF code = "ok" THEN A \cup {r} ELSE A
      /\ r \in MovedRepos /\ A \in SUBSET MovedRepos
  <2>1. AcceptedOf(batchOrder, planned', n + 1)
            = IF planned'[n + 1] = "ok" THEN AcceptedOf(batchOrder, planned', n) \cup {r} ELSE AcceptedOf(batchOrder, planned', n)
    <3>1. batchOrder \in Seq(MovedRepos) /\ IsInjective(batchOrder) /\ n + 1 <= Len(batchOrder)
      BY <1>1 DEF MovesTyped
    <3> HIDE DEF n, A, code
    <3>2. n \in Nat
      BY <1>1
    <3> QED BY <3>1, <3>2, AcceptedGrows
  <2>2. r \in MovedRepos /\ A \in SUBSET MovedRepos
    BY <1>1 DEF MovesTyped, AcceptedOf
  <2>3. AcceptedOf(batchOrder, planned', n) = A
    BY <1>1, <1>7
  <2>4. planned'[n + 1] = code
    BY <1>5
  <2> HIDE DEF A, code, r
  <2> QED BY <2>1, <2>2, <2>3, <2>4
<1>9. accepted = [ids |-> A, bytes |-> Cardinality(Brought(world, A))]
  BY DEF AnswersFollow, ContextOf
<1>10. accepted' = ContextOf(world, batchOrder, planned', n + 1)
  <2> HIDE DEF A, r
  <2>1. CASE code = "ok"
    <3>1. Cardinality(Brought(world, A \cup {r})) = Cardinality(Brought(world, A)) + repositoryBytesNewToOrg(world, r, A)
      BY <1>1, <1>8, BroughtGrows
    <3>2. accepted' = [ids |-> A \cup {r}, bytes |-> Cardinality(Brought(world, A)) + repositoryBytesNewToOrg(world, r, A)]
      BY <1>4, <1>9, <2>1 DEF applyToBatch
    <3> QED BY <1>8, <2>1, <3>1, <3>2 DEF ContextOf
  <2>2. CASE code # "ok"
    BY <1>4, <1>8, <1>9, <2>2 DEF ContextOf, applyToBatch
  <2> QED BY <2>1, <2>2
<1>11. AnswersFollow'
  <2> SUFFICES ASSUME NEW i \in 1..(n + 1)
               PROVE  planned'[i] = planRepositoryMove(world, batchOrder[i], ContextOf(world, batchOrder, planned', i - 1))
    BY <1>4, <1>5, <1>10 DEF AnswersFollow
  <2>1. ContextOf(world, batchOrder, planned', i - 1) = ContextOf(world, batchOrder, planned, i - 1)
    BY <1>1, <1>7 DEF ContextOf
  <2>2. CASE i = n + 1
    BY <1>1, <1>5, <2>1, <2>2 DEF AnswersFollow
  <2>3. CASE i # n + 1
    BY <1>1, <1>5, <2>1, <2>3 DEF AnswersFollow
  <2> QED BY <2>2, <2>3
<1>12. HomesFollow'
  <2>1. AcceptedOf(batchOrder, planned', 0) = AcceptedOf(batchOrder, planned, 0)
    BY <1>1, <1>7
  <2> QED BY <1>1, <1>4, <2>1 DEF HomesFollow, PoolIsShared, NoneFailed
<1>13. PreviewIsTheRun'
  BY <1>1, <1>4 DEF PreviewIsTheRun
<1> QED BY <1>6, <1>11, <1>12, <1>13

\* So does the next move of the run, or the one that throws.
LEMMA RunStep ==
    ASSUME MovesInv, runBulkMove
    PROVE  MovesInv'
<1> DEFINE n == Len(moved)
           r == batchOrder[n + 1]
           A == AcceptedOf(batchOrder, planned, n)
           code == planRepositoryMove(Current, r, newBatchContext)
<1> USE DEF runBulkMove, moveRepositoryToOrganization, MovesInv
<1>1. n \in Nat /\ n < Len(batchOrder) /\ Len(planned) = Len(batchOrder) /\ world \in Pictured /\ r \in MovedRepos /\ A \in SUBSET MovedRepos
  BY DEF MovesTyped, AcceptedOf
<1>2. world' = world /\ batchOrder' = batchOrder /\ planned' = planned /\ accepted' = accepted
  OBVIOUS
<1>3. \/ moved' = Append(moved, code) /\ home' = IF code = "ok" THEN [home EXCEPT ![r] = Target] ELSE home
      \/ moved' = Append(moved, "failed") /\ home' = home
  OBVIOUS
<1>4. code \in MoveCodes /\ code # "failed"
  BY AnswerIsName
<1>5. /\ Len(moved') = n + 1 /\ \A i \in 1..n : moved'[i] = moved[i]
      /\ moved' \in Seq(MoveCodes)
  <2>1. \E c \in MoveCodes : moved' = Append(moved, c)
    <3>1. "failed" \in MoveCodes
      BY DEF MoveCodes
    <3> HIDE DEF code
    <3> QED BY <1>3, <1>4, <3>1
  <2>2. moved \in Seq(MoveCodes)
    BY DEF MovesTyped
  <2> QED BY <2>1, <2>2
<1>6. home' \in [MovedRepos -> Organizations]
  <2> HIDE DEF code, r
  <2> QED BY <1>1, <1>3 DEF MovesTyped, Organizations
<1>7. MovesTyped'
  BY <1>1, <1>2, <1>5, <1>6 DEF MovesTyped
<1>8. AnswersFollow'
  BY <1>2 DEF AnswersFollow
<1>9. PoolIsShared' <=> PoolIsShared
  BY <1>2 DEF PoolIsShared
<1>10. ASSUME ~PoolIsShared, \A i \in 1..(n + 1) : moved'[i] # "failed"
       PROVE  moved'[n + 1] = planned[n + 1] /\ home' = With(world, AcceptedOf(batchOrder, planned, n + 1)).home
  <2>1. moved'[n + 1] # "failed" /\ NoneFailed(n)
    BY <1>1, <1>5, <1>10 DEF NoneFailed
  <2>2. moved' = Append(moved, code) /\ home' = IF code = "ok" THEN [home EXCEPT ![r] = Target] ELSE home
    BY <1>3, <1>1, <2>1 DEF MovesTyped
  <2>3. moved'[n + 1] = code
    BY <2>2, <1>4 DEF MovesTyped
  <2>4. home = With(world, A).home
    BY <1>10, <2>1 DEF HomesFollow
  <2>5. Current = With(world, A)
    BY <1>1, <2>4, WithFields DEF Current, With
  <2>6. \A b \in A : world.home[b] # Target
    <3> SUFFICES ASSUME NEW i \in 1..n, planned[i] = "ok" PROVE world.home[batchOrder[i]] # Target
      BY DEF AcceptedOf
    <3> QED BY <1>1, AcceptedIsElsewhere DEF AnswersFollow
  <2>7. r \notin A /\ AcceptedOf(batchOrder, planned, n + 1) = IF planned[n + 1] = "ok" THEN A \cup {r} ELSE A
    <3>1. batchOrder \in Seq(MovedRepos) /\ IsInjective(batchOrder) /\ n + 1 <= Len(batchOrder)
      BY <1>1 DEF MovesTyped
    <3> HIDE DEF n, code
    <3>2. n \in Nat
      BY <1>1
    <3> QED BY <3>1, <3>2, AcceptedGrows
  <2>8. ~((world.orgRepos = Unlimited \/ world.orgBytes = Unlimited) /\ world.owns # {Target})
    BY <1>10 DEF PoolIsShared
  <2>9. code = planRepositoryMove(world, r, [ids |-> A, bytes |-> Cardinality(Brought(world, A))])
    BY <1>1, <2>5, <2>6, <2>7, <2>8, PlanAgrees
  <2>10. planned[n + 1] = planRepositoryMove(world, r, ContextOf(world, batchOrder, planned, n))
    BY <1>1 DEF AnswersFollow
  <2>11. moved'[n + 1] = planned[n + 1]
    BY <2>3, <2>9, <2>10 DEF ContextOf
  <2>12. home = [q \in MovedRepos |-> IF q \in A THEN Target ELSE world.home[q]]
    BY <1>1, <2>4, WithFields
  <2>13. CASE code = "ok"
    <3> HIDE DEF A, r, code
    <3>1. home' = [home EXCEPT ![r] = Target] /\ AcceptedOf(batchOrder, planned, n + 1) = A \cup {r}
      BY <2>2, <2>3, <2>7, <2>11, <2>13
    <3>2. home' = [q \in MovedRepos |-> IF q \in A \cup {r} THEN Target ELSE world.home[q]]
      BY <3>1, <2>12
    <3>3. With(world, A \cup {r}).home = [q \in MovedRepos |-> IF q \in A \cup {r} THEN Target ELSE world.home[q]]
      BY <1>1, WithFields
    <3> QED BY <2>11, <3>1, <3>2, <3>3
  <2>14. CASE code # "ok"
    BY <2>2, <2>3, <2>4, <2>7, <2>11, <2>14
  <2> QED BY <2>13, <2>14
<1>11. HomesFollow'
  <2>1. Len(moved') # 0 /\ Len(moved') = n + 1
    BY <1>1, <1>5
  <2>2. NoneFailed(Len(moved))' => \A i \in 1..(n + 1) : moved'[i] # "failed"
    BY <2>1 DEF NoneFailed
  <2>3. ~PoolIsShared' /\ NoneFailed(Len(moved))' => home' = With(world', AcceptedOf(batchOrder', planned', Len(moved'))).home
    BY <1>2, <1>9, <1>10, <2>1, <2>2
  <2> QED BY <2>1, <2>3 DEF HomesFollow
<1>12. PreviewIsTheRun'
  <2> SUFFICES ASSUME ~PoolIsShared, NEW i \in 1..(n + 1), NoneFailed(i)' PROVE moved'[i] = planned[i]
    BY <1>2, <1>5, <1>9 DEF PreviewIsTheRun
  <2>1. CASE i = n + 1
    <3>1. \A j \in 1..(n + 1) : moved'[j] # "failed"
      BY <2>1 DEF NoneFailed
    <3> QED BY <1>10, <2>1, <3>1
  <2>2. CASE i # n + 1
    <3>1. i \in 1..n /\ NoneFailed(i)
      BY <1>1, <1>5, <2>2 DEF NoneFailed
    <3> QED BY <1>5, <3>1 DEF PreviewIsTheRun
  <2> QED BY <2>1, <2>2
<1> QED BY <1>7, <1>8, <1>11, <1>12

\* So it holds always.
LEMMA MovesInvHolds == MovesSpec => []MovesInv
<1>1. MovesInv /\ [MovesNext]_movesVars => MovesInv'
  <2> SUFFICES ASSUME MovesInv, [MovesNext]_movesVars PROVE MovesInv'
    OBVIOUS
  <2>1. CASE planBulkMove
    BY <2>1, PreviewStep
  <2>2. CASE runBulkMove
    BY <2>2, RunStep
  <2>3. CASE UNCHANGED movesVars
    BY <2>3 DEF movesVars, MovesInv, MovesTyped, AnswersFollow, HomesFollow, PreviewIsTheRun, PoolIsShared, NoneFailed
  <2> QED BY <2>1, <2>2, <2>3 DEF MovesNext
<1> QED BY <1>1, MovesInvInit, PTL DEF MovesSpec

\* Everything a run would do (bulk-move.ts): the run of a bulk move moves what
\* its preview said it would, for the reasons it said, until a move throws,
\* unless the owner's pool covers sources as well as the target.
THEOREM PreviewHolds == MovesSpec => []PreviewIsTheRun
BY MovesInvHolds, PTL DEF MovesInv

-----------------------------------------------------------------------------
(* Pruning to fit. *)

\* Every call but the first is for something that goes with the image of the
\* call before it.
CallsDescend(p, stack) ==
    \A i \in 1..Len(stack) - 1 : stack[i + 1].image \in HeldBy(p)[stack[i].image]

\* What a call has still to do, and that it may do it: the image is there until
\* it is dropped, no index lists it, and its tags, if it has any, do not count,
\* because it is a referrer.
CallIsSound(p, s, call, next) ==
    /\ \A r \in call.referrers : p.subject[r] = call.image
    /\ call.children \subseteq p.children[call.image]
    /\ call.dropped => call.image \notin s.live /\ call.referrers = {}
    /\ ~call.dropped =>
         /\ call.image \in s.live /\ liveParents(p, s, call.image) = {}
         /\ tagsOf(p, s, call.image) = {} \/ p.subject[call.image] \in Manifests
         /\ call.children = p.children[call.image]
         /\ liveReferrers(p, s, call.image) \subseteq call.referrers \cup next

NextImage(stack, i) == {stack[j].image : j \in {k \in 1..Len(stack) : k = i + 1}}

CallsAreSound(p, s, stack) ==
    \A i \in 1..Len(stack) : CallIsSound(p, s, stack[i], NextImage(stack, i))

\* The repository is what the planner takes it for; tags went with what they named.
OutcomeFollows(p, s, r) ==
    r.live = s.live /\ r.removed = s.removed \cup {t \in PicTags : p.names[t] \notin s.live}

\* The counters count what is live.
CountsAgree(p, s) ==
    \A b \in PicBlobs : s.refs[b] = Cardinality({m \in s.live : b \in Blobs(p, m)})

\* Tags whose image went before them are those of referrers.
LostTagsAttached(p, s) ==
    \A t \in PicTags \ s.removed :
        p.names[t] \in Manifests \ s.live => p.subject[p.names[t]] \in Manifests

\* Leftovers have no tag and no parent; tags that are ahead are not removed yet;
\* those behind name what a protected tag names, if they are still there.
AheadUntouched(p, s, ms, ts) ==
    /\ \A m \in ms : tagsOf(p, s, m) = {} /\ liveParents(p, s, m) = {}
    /\ ts \cap s.removed = {}
    /\ \A t \in PicTags \ (s.removed \cup ts) :
         p.names[t] = NoManifest \/ \E u \in p.protected : p.names[u] = p.names[t]

\* Whatever is live is held by a tag, a parent or a subject, or its turn is to come.
HeldByLive(p, s, m) == tagsOf(p, s, m) # {} \/ liveParents(p, s, m) # {} \/ p.subject[m] \in s.live

Awaited(stack, m) ==
    \E i \in 1..Len(stack) :
        m = stack[i].image \/ m \in stack[i].referrers \/ m \in stack[i].children

EachIsHeld(p, s, ms, stack) ==
    \A m \in s.live : HeldByLive(p, s, m) \/ m \in ms \/ Awaited(stack, m)

\* What makes PlanFits inductive, of an ordinary picture.
PlanIsSound ==
    /\ CallsDescend(picture, calls)
    /\ CallsAreSound(picture, plan, calls)
    /\ OutcomeFollows(picture, plan, outcome)
    /\ CountsAgree(picture, plan)
    /\ LostTagsAttached(picture, plan)
    /\ AheadUntouched(picture, plan, candidates, tagsAhead)
    /\ EachIsHeld(picture, plan, candidates, calls)
    /\ StepsAreAccepted
    /\ outcome.needless = {}

PruneInv == PruneTypeOK /\ (Ordinary(picture) => PlanIsSound)

PlanType == [live : SUBSET Manifests, removed : SUBSET PicTags, refs : [PicBlobs -> Int]]

\* No manifest is held by itself through others, so no stack names one twice.
LEMMA CallsDiffer ==
    ASSUME NEW p, Acyclic(HeldBy(p)), NEW stack \in Seq(Calls), CallsDescend(p, stack),
           NEW i \in 1..Len(stack), NEW j \in 1..Len(stack), i < j
    PROVE  stack[i].image # stack[j].image
<1> SUFFICES ASSUME stack[i].image = stack[j].image PROVE FALSE
  OBVIOUS
<1> DEFINE S == {stack[k].image : k \in i..j - 1}
<1>1. \A k \in 1..Len(stack) : stack[k].image \in Manifests
  <2>1. \A k \in 1..Len(stack) : stack[k] \in Calls
    OBVIOUS
  <2> QED
    BY <2>1 DEF Calls
<1>2. S \in SUBSET Manifests /\ S # {}
  <2>1. i \in i..j - 1
    OBVIOUS
  <2>2. \A k \in i..j - 1 : k \in 1..Len(stack)
    OBVIOUS
  <2> QED
    BY <1>1, <2>1, <2>2
<1>3. PICK m \in S : \A a \in S : m \notin HeldBy(p)[a]
  BY <1>2 DEF Acyclic
<1>4. PICK k \in i..j - 1 : m = stack[k].image
  OBVIOUS
<1>5. CASE k = i
  <2>1. stack[(j - 1) + 1].image \in HeldBy(p)[stack[j - 1].image]
    BY j - 1 \in 1..Len(stack) - 1 DEF CallsDescend
  <2>2. stack[j - 1].image \in S /\ (j - 1) + 1 = j
    OBVIOUS
  <2> QED
    BY <1>3, <1>4, <1>5, <2>1, <2>2
<1>6. CASE k # i
  <2>1. stack[(k - 1) + 1].image \in HeldBy(p)[stack[k - 1].image]
    BY <1>6, k - 1 \in 1..Len(stack) - 1 DEF CallsDescend
  <2>2. stack[k - 1].image \in S /\ (k - 1) + 1 = k
    BY <1>6, k - 1 \in i..j - 1
  <2> QED
    BY <1>3, <1>4, <2>1, <2>2
<1> QED
  BY <1>5, <1>6

\* What the blobs of a picture are.
LEMMA BlobsArePictured ==
    ASSUME NEW p \in PictureType, NEW m \in Manifests
    PROVE  Blobs(p, m) \subseteq PicBlobs
BY DEF PictureType, Blobs, PicBlobs

\* Whatever is live is finite, and so are its users of a blob.
LEMMA UsersFinite ==
    ASSUME NEW p, NEW live \in SUBSET Manifests, NEW b
    PROVE  /\ IsFiniteSet({m \in live : b \in Blobs(p, m)})
           /\ Cardinality({m \in live : b \in Blobs(p, m)}) \in Nat
           /\ Cardinality({m \in live : b \in Blobs(p, m)}) = 0 <=> {m \in live : b \in Blobs(p, m)} = {}
<1>1. IsFiniteSet({m \in live : b \in Blobs(p, m)})
  BY PruneAssumption, FS_Subset
<1> QED
  BY <1>1, FS_CardinalityType, FS_EmptySet

\* A blob is referred to when something live has it: what the planner counts
\* is what the registry stores.
LEMMA UsageIsStored ==
    ASSUME NEW p \in PictureType, NEW s \in PlanType, CountsAgree(p, s)
    PROVE  usage(s) = StoredBlobs(p, s.live)
<1>1. \A b \in PicBlobs : s.refs[b] > 0 <=> \E m \in s.live : b \in Blobs(p, m)
  <2> SUFFICES ASSUME NEW b \in PicBlobs
               PROVE  s.refs[b] > 0 <=> \E m \in s.live : b \in Blobs(p, m)
    OBVIOUS
  <2>1. s.live \in SUBSET Manifests
    BY DEF PlanType
  <2> DEFINE T == {m \in s.live : b \in Blobs(p, m)}
  <2>2. s.refs[b] = Cardinality(T)
    BY DEF CountsAgree
  <2>3. Cardinality(T) \in Nat /\ (Cardinality(T) = 0 <=> T = {})
    BY <2>1, UsersFinite
  <2>4. T # {} <=> \E m \in s.live : b \in Blobs(p, m)
    OBVIOUS
  <2> HIDE DEF T
  <2> QED
    BY <2>2, <2>3, <2>4
<1>2. {b \in PicBlobs : s.refs[b] > 0} = UNION {Blobs(p, m) : m \in s.live}
  <2>1. \A m \in s.live : Blobs(p, m) \subseteq PicBlobs
    BY BlobsArePictured DEF PlanType
  <2> QED
    BY <1>1, <2>1
<1> QED
  BY <1>2 DEF usage, StoredBlobs

\* Dropping an image takes one from the counters of its blobs.
LEMMA CountsAfterDrop ==
    ASSUME NEW p \in PictureType, NEW s \in PlanType, CountsAgree(p, s), NEW x \in s.live, NEW u \in PlanType,
           u.live = s.live \ {x},
           u.refs = [b \in PicBlobs |-> IF b \in Blobs(p, x) THEN s.refs[b] - 1 ELSE s.refs[b]]
    PROVE  CountsAgree(p, u)
<1> SUFFICES ASSUME NEW b \in PicBlobs
             PROVE  u.refs[b] = Cardinality({m \in u.live : b \in Blobs(p, m)})
  BY DEF CountsAgree
<1> DEFINE T == {m \in s.live : b \in Blobs(p, m)}
<1>1. s.refs[b] = Cardinality(T) /\ s.live \in SUBSET Manifests
  BY DEF CountsAgree, PlanType
<1>2. IsFiniteSet(T)
  BY <1>1, UsersFinite
<1>3. CASE b \in Blobs(p, x)
  <2>1. x \in T /\ {m \in u.live : b \in Blobs(p, m)} = T \ {x}
    BY <1>3
  <2>2. Cardinality(T \ {x}) = Cardinality(T) - 1
    BY <1>2, <2>1, FS_RemoveElement
  <2> QED
    BY <1>1, <1>3, <2>1, <2>2
<1>4. CASE b \notin Blobs(p, x)
  <2>1. {m \in u.live : b \in Blobs(p, m)} = T
    BY <1>4
  <2> QED
    BY <1>1, <1>4, <2>1
<1> QED
  BY <1>3, <1>4

\* In the end: what is live and held by something live is held, in the end, by
\* what a protected tag names, for nothing goes round in circles.
LEMMA HeldIsKept ==
    ASSUME NEW p \in PictureType, Acyclic(HeldBy(p)), NEW live \in SUBSET Manifests,
           \A m \in live :
             \/ \E t \in p.protected : p.names[t] = m
             \/ \E a \in live : m \in p.children[a]
             \/ p.subject[m] \in live
    PROVE  live \subseteq KeptByTags(p)
<1> DEFINE prot == {p.names[t] : t \in p.protected} \ {NoManifest}
<1> SUFFICES ASSUME NEW C \in SUBSET Manifests, prot \subseteq C, \A a \in C : HeldBy(p)[a] \subseteq C
             PROVE  live \subseteq C
  BY DEF KeptByTags, Reached
<1> SUFFICES ASSUME live \ C # {} PROVE FALSE
  OBVIOUS
<1>1. PICK m \in live \ C : \A a \in live \ C : m \notin HeldBy(p)[a]
  <2>1. live \ C \in SUBSET Manifests
    OBVIOUS
  <2> QED
    BY <2>1 DEF Acyclic
<1>2. m # NoManifest
  BY PruneAssumption DEF NoManifest
<1>3. \A a \in Manifests : m \in p.children[a] \/ p.subject[m] = a => m \in HeldBy(p)[a]
  BY DEF HeldBy
<1>4. m \notin prot
  OBVIOUS
<1>5. PICK a \in live : m \in HeldBy(p)[a]
  <2>1. CASE \E t \in p.protected : p.names[t] = m
    BY <1>2, <1>4, <2>1
  <2>2. CASE \E a \in live : m \in p.children[a]
    BY <1>3, <2>2
  <2>3. CASE p.subject[m] \in live
    BY <1>3, <2>3
  <2> QED
    BY <2>1, <2>2, <2>3
<1>6. a \notin C
  BY <1>1, <1>5
<1> QED
  BY <1>1, <1>5, <1>6

\* A call for m, as removeManifest makes it.
CallFor(p, s, m) ==
    [image |-> m, referrers |-> liveReferrers(p, s, m), children |-> p.children[m], dropped |-> FALSE]

Entered(p, s, stack, m) == IF m \notin s.live THEN stack ELSE Append(stack, CallFor(p, s, m))

\* The fields of a stack's calls.
LEMMA CallFields ==
    ASSUME NEW stack \in Seq(Calls), NEW i \in 1..Len(stack)
    PROVE  /\ stack[i] \in Calls /\ stack[i].image \in Manifests /\ stack[i].referrers \subseteq Manifests
           /\ stack[i].children \subseteq Manifests /\ stack[i].dropped \in BOOLEAN
<1>1. stack[i] \in Calls
  OBVIOUS
<1> QED
  BY <1>1 DEF Calls

\* A call that may be made leaves a stack that is sound, if the stack was sound
\* but for what the call is for.
LEMMA EnteringIsSound ==
    ASSUME NEW p \in PictureType, NEW s \in PlanType, NEW rest \in Seq(Calls), NEW m \in Manifests, NEW ms,
           CallsDescend(p, rest),
           \A i \in 1..Len(rest) :
             CallIsSound(p, s, rest[i], NextImage(rest, i) \cup {x \in {m} : i = Len(rest)}),
           m \in s.live =>
             /\ liveParents(p, s, m) = {}
             /\ tagsOf(p, s, m) = {} \/ p.subject[m] \in Manifests
             /\ rest # <<>> => m \in HeldBy(p)[rest[Len(rest)].image],
           \A x \in s.live : x = m \/ HeldByLive(p, s, x) \/ x \in ms \/ Awaited(rest, x)
    PROVE  /\ Entered(p, s, rest, m) \in Seq(Calls)
           /\ CallsDescend(p, Entered(p, s, rest, m))
           /\ CallsAreSound(p, s, Entered(p, s, rest, m))
           /\ EachIsHeld(p, s, ms, Entered(p, s, rest, m))
<1> DEFINE new == Entered(p, s, rest, m)
<1>1. CASE m \notin s.live
  <2>1. new = rest
    BY <1>1 DEF Entered
  <2>2. ASSUME NEW i \in 1..Len(rest) PROVE CallIsSound(p, s, rest[i], NextImage(rest, i))
    <3>1. liveReferrers(p, s, rest[i].image) \subseteq s.live
      BY DEF liveReferrers
    <3> QED
      BY <1>1, <3>1 DEF CallIsSound
  <2> QED
    BY <1>1, <2>1, <2>2 DEF CallsAreSound, EachIsHeld
<1>2. CASE m \in s.live
  <2> DEFINE c == CallFor(p, s, m)
  <2>1. new = Append(rest, c) /\ c \in Calls
    BY <1>2 DEF Entered, CallFor, Calls, PictureType, PlanType, liveReferrers
  <2>2. /\ new \in Seq(Calls) /\ Len(new) = Len(rest) + 1 /\ Len(rest) \in Nat
        /\ new[Len(rest) + 1] = c /\ \A i \in 1..Len(rest) : new[i] = rest[i]
    BY <2>1
  <2> HIDE DEF new
  <2>3. c.image = m /\ c.referrers = liveReferrers(p, s, m) /\ c.children = p.children[m] /\ c.dropped = FALSE
    BY DEF CallFor
  <2> HIDE DEF c
  <2>4. CallsDescend(p, new)
    <3> SUFFICES ASSUME NEW i \in 1..Len(rest) PROVE new[i + 1].image \in HeldBy(p)[new[i].image]
      BY <2>2 DEF CallsDescend
    <3>1. CASE i = Len(rest)
      BY <1>2, <2>2, <2>3, <3>1
    <3>2. CASE i # Len(rest)
      <4>1. i \in 1..Len(rest) - 1 /\ i + 1 \in 1..Len(rest)
        BY <2>2, <3>2
      <4> QED
        BY <2>2, <4>1 DEF CallsDescend
    <3> QED
      BY <3>1, <3>2
  <2>5. CallsAreSound(p, s, new)
    <3> SUFFICES ASSUME NEW i \in 1..Len(new) PROVE CallIsSound(p, s, new[i], NextImage(new, i))
      BY DEF CallsAreSound
    <3>1. CASE i = Len(rest) + 1
      <4>1. \A r \in liveReferrers(p, s, m) : p.subject[r] = m
        BY DEF liveReferrers
      <4> QED
        BY <1>2, <2>2, <2>3, <3>1, <4>1 DEF CallIsSound
    <3>2. CASE i # Len(rest) + 1
      <4>1. i \in 1..Len(rest) /\ new[i] = rest[i]
        BY <2>2, <3>2
      <4>2. NextImage(rest, i) \cup {x \in {m} : i = Len(rest)} \subseteq NextImage(new, i)
        <5>1. CASE i = Len(rest)
          <6>1. NextImage(rest, i) = {}
            BY <2>2, <5>1 DEF NextImage
          <6>2. m \in NextImage(new, i)
            BY <2>2, <2>3, <5>1 DEF NextImage
          <6> QED
            BY <6>1, <6>2
        <5>2. CASE i # Len(rest)
          BY <2>2, <5>2 DEF NextImage
        <5> QED
          BY <5>1, <5>2
      <4> QED
        BY <4>1, <4>2 DEF CallIsSound
    <3> QED
      BY <3>1, <3>2
  <2>6. EachIsHeld(p, s, ms, new)
    <3>1. \A x : Awaited(rest, x) => Awaited(new, x)
      BY <2>2 DEF Awaited
    <3>2. Awaited(new, m)
      BY <2>2, <2>3 DEF Awaited
    <3> QED
      BY <3>1, <3>2 DEF EachIsHeld
  <2> QED
    BY <2>2, <2>4, <2>5, <2>6 DEF new
<1> QED
  BY <1>1, <1>2

\* removeManifest makes the call.
LEMMA RemovalEnters ==
    ASSUME NEW rest, NEW m
    PROVE  removeManifest(rest, m) = Entered(picture, plan, rest, m)
BY DEF removeManifest, Entered, CallFor

LEMMA EnteredTyped ==
    ASSUME NEW p \in PictureType, NEW s \in PlanType, NEW rest \in Seq(Calls), NEW m \in Manifests
    PROVE  Entered(p, s, rest, m) \in Seq(Calls)
<1>1. m \in s.live => CallFor(p, s, m) \in Calls
  BY DEF CallFor, Calls, PictureType, PlanType, liveReferrers
<1> QED
  BY <1>1 DEF Entered

\* The beginning.
LEMMA PruneInvInit == PruneInit => PruneInv
<1> SUFFICES ASSUME PruneInit PROVE PruneInv
  OBVIOUS
<1>1. picture \in PictureType
  <2>1. PICK g \in Graphs, layers \in [Manifests -> SUBSET Layers] :
            picture \in [children : {g.children}, subject : {g.subject}, layers : {layers},
                         names : [PicTags -> Manifests \cup {NoManifest}], protected : SUBSET PicTags, limit : Sizes]
    BY DEF PruneInit
  <2>2. g.children \in [Manifests -> SUBSET Manifests] /\ g.subject \in [Manifests -> Manifests \cup {NoManifest}]
    BY DEF Graphs
  <2> QED
    BY <2>1, <2>2 DEF PictureType
<1>2. /\ candidates = leftovers(picture) /\ tagsAhead = PicTags /\ calls = <<>> /\ plan = Begun(picture)
      /\ outcome = [live |-> Manifests, removed |-> {t \in PicTags : picture.names[t] = NoManifest},
                    refused |-> {}, needless |-> {}]
  BY DEF PruneInit, PlanBegins
<1>3. plan.live = Manifests /\ plan.removed = {} /\ plan.refs = References(picture)
  BY <1>2 DEF Begun
<1>4. References(picture) \in [PicBlobs -> Int]
  <2>1. \A b \in PicBlobs : Cardinality({m \in Manifests : b \in Blobs(picture, m)}) \in Nat
    BY UsersFinite
  <2> QED
    BY <2>1 DEF References
<1>5. PruneTypeOK
  BY <1>1, <1>2, <1>4 DEF PruneTypeOK, Begun, leftovers
<1>6. OutcomeFollows(picture, plan, outcome)
  <2>1. \A t \in PicTags : picture.names[t] \notin Manifests <=> picture.names[t] = NoManifest
    BY <1>1, PruneAssumption DEF PictureType, NoManifest
  <2> QED
    BY <1>2, <1>3, <2>1 DEF OutcomeFollows
<1>7. CountsAgree(picture, plan)
  BY <1>3 DEF CountsAgree, References
<1>8. LostTagsAttached(picture, plan)
  BY <1>3 DEF LostTagsAttached
<1>9. AheadUntouched(picture, plan, candidates, tagsAhead)
  BY <1>2, <1>3 DEF AheadUntouched, leftovers
<1>10. EachIsHeld(picture, plan, candidates, calls)
  <2>1. \A m \in Manifests : HeldByLive(picture, plan, m) \/ m \in candidates
    BY <1>2, <1>3 DEF leftovers, HeldByLive
  <2> QED
    BY <1>3, <2>1 DEF EachIsHeld
<1>11. CallsDescend(picture, calls) /\ CallsAreSound(picture, plan, calls)
  BY <1>2 DEF CallsDescend, CallsAreSound
<1>12. StepsAreAccepted /\ outcome.needless = {}
  BY <1>2 DEF StepsAreAccepted
<1> QED
  BY <1>5, <1>6, <1>7, <1>8, <1>9, <1>10, <1>11, <1>12 DEF PruneInv, PlanIsSound

\* What the types say of the planner's state.
LEMMA PlanFacts ==
    ASSUME PruneTypeOK
    PROVE  /\ picture \in PictureType /\ plan \in PlanType /\ calls \in Seq(Calls)
           /\ plan.live \in SUBSET Manifests /\ plan.removed \in SUBSET PicTags /\ plan.refs \in [PicBlobs -> Int]
           /\ \A t \in PicTags : picture.names[t] \in Manifests \cup {NoManifest}
           /\ \A m \in Manifests : picture.children[m] \in SUBSET Manifests /\ picture.subject[m] \in Manifests \cup {NoManifest}
           /\ picture.protected \in SUBSET PicTags
           /\ NoManifest \notin Manifests
BY PruneAssumption DEF PruneTypeOK, PlanType, PictureType, NoManifest

\* A leftover.
LEMMA LeftoverKeeps ==
    ASSUME PruneInv, NEW m \in Manifests, RemoveLeftover(m)
    PROVE  PruneInv'
<1>1. /\ calls = <<>> /\ m \in candidates /\ candidates' = candidates \ {m}
      /\ calls' = Entered(picture, plan, <<>>, m)
      /\ picture' = picture /\ tagsAhead' = tagsAhead /\ plan' = plan /\ outcome' = outcome
  BY RemovalEnters DEF RemoveLeftover, Oldest
<1>2. PruneTypeOK
  BY DEF PruneInv
<1>3. picture \in PictureType /\ plan \in PlanType /\ <<>> \in Seq(Calls)
  BY <1>2, PlanFacts
<1>4. PruneTypeOK'
  BY <1>1, <1>2, <1>3, EnteredTyped DEF PruneTypeOK
<1>5. ASSUME Ordinary(picture) PROVE PlanIsSound'
  <2>1. PlanIsSound
    BY <1>5 DEF PruneInv
  <2>2. liveParents(picture, plan, m) = {} /\ tagsOf(picture, plan, m) = {}
    BY <1>1, <2>1 DEF PlanIsSound, AheadUntouched
  <2>3. \A x \in plan.live : x = m \/ HeldByLive(picture, plan, x) \/ x \in candidates \ {m} \/ Awaited(<<>>, x)
    BY <1>1, <2>1 DEF PlanIsSound, EachIsHeld
  <2>4. /\ CallsDescend(picture, calls') /\ CallsAreSound(picture, plan, calls')
        /\ EachIsHeld(picture, plan, candidates \ {m}, calls')
    <3>1. CallsDescend(picture, <<>>)
      BY DEF CallsDescend
    <3> DEFINE rest == <<>>
    <3>2. \A i \in 1..Len(rest) : CallIsSound(picture, plan, rest[i], NextImage(rest, i) \cup {x \in {m} : i = Len(rest)})
      OBVIOUS
    <3> QED
      BY <1>1, <1>3, <2>2, <2>3, <3>1, <3>2, EnteringIsSound
  <2>5. AheadUntouched(picture, plan, candidates \ {m}, tagsAhead)
    BY <2>1 DEF PlanIsSound, AheadUntouched
  <2>6. StepsAreAccepted'
    BY <1>1, <2>1 DEF PlanIsSound, StepsAreAccepted
  <2> QED
    BY <1>1, <2>1, <2>4, <2>5, <2>6 DEF PlanIsSound
<1> QED
  BY <1>1, <1>4, <1>5 DEF PruneInv

\* A tag that stays.
LEMMA KeepingKeeps ==
    ASSUME PruneInv, NEW t \in PicTags, KeepTag(t)
    PROVE  PruneInv'
<1>1. /\ Spared(t) /\ tagsAhead' = tagsAhead \ {t}
      /\ UNCHANGED <<picture, candidates, calls, plan, outcome>>
  BY DEF KeepTag
<1>2. PruneTypeOK
  BY DEF PruneInv
<1>3. PruneTypeOK'
  BY <1>1, <1>2 DEF PruneTypeOK
<1>4. ASSUME Ordinary(picture) PROVE PlanIsSound'
  <2>1. PlanIsSound
    BY <1>4 DEF PruneInv
  <2>2. picture.names[t] = NoManifest \/ \E u \in picture.protected : picture.names[u] = picture.names[t]
    BY <1>1 DEF Spared, isProtected, tagsOf
  <2>3. AheadUntouched(picture, plan, candidates, tagsAhead \ {t})
    BY <2>1, <2>2 DEF PlanIsSound, AheadUntouched
  <2>4. StepsAreAccepted'
    BY <1>1, <2>1 DEF PlanIsSound, StepsAreAccepted
  <2> QED
    BY <1>1, <2>1, <2>3, <2>4 DEF PlanIsSound
<1> QED
  BY <1>1, <1>3, <1>4 DEF PruneInv

\* The stack with a field of its running call changed.
LEMMA RunningChanged ==
    ASSUME NEW stack \in Seq(Calls), stack # <<>>, NEW c \in Calls, NEW rest, rest = [stack EXCEPT ![Len(stack)] = c]
    PROVE  /\ rest \in Seq(Calls) /\ rest # <<>> /\ Len(rest) = Len(stack) /\ Len(stack) \in Nat \ {0}
           /\ rest[Len(stack)] = c /\ \A i \in 1..Len(stack) : i # Len(stack) => rest[i] = stack[i]
<1>1. Len(stack) \in Nat \ {0}
  OBVIOUS
<1>2. rest \in [1..Len(stack) -> Calls] /\ DOMAIN rest = 1..Len(stack)
  BY <1>1
<1>3. rest \in Seq(Calls)
  BY <1>1, <1>2, SeqDef, ZenonT(60)
<1>4. Len(rest) = Len(stack)
  <2> DEFINE n == Len(stack)
  <2>1. DOMAIN rest = 1..n /\ n \in Nat
    BY <1>1, <1>2
  <2>2. Len(rest) \in Nat /\ DOMAIN rest = 1..Len(rest)
    BY <1>3, LenProperties
  <2> HIDE DEF n
  <2>3. Len(rest) = n
    BY <2>1, <2>2
  <2> QED
    BY <2>3 DEF n
<1>5. rest[Len(stack)] = c /\ \A i \in 1..Len(stack) : i # Len(stack) => rest[i] = stack[i]
  BY <1>1
<1>6. rest # <<>>
  BY <1>1, <1>4
<1> QED
  BY <1>1, <1>3, <1>4, <1>5, <1>6

\* When only the running call changes, not its image, the stack still descends,
\* and every other call has the same next one.
LEMMA RunningChangedSound ==
    ASSUME NEW p, NEW s, NEW stack \in Seq(Calls), stack # <<>>, CallsDescend(p, stack), CallsAreSound(p, s, stack),
           NEW c \in Calls, c.image = stack[Len(stack)].image, NEW rest, rest = [stack EXCEPT ![Len(stack)] = c]
    PROVE  /\ CallsDescend(p, rest)
           /\ \A i \in 1..Len(stack) : NextImage(rest, i) = NextImage(stack, i)
           /\ \A i \in 1..Len(stack) : i # Len(stack) => CallIsSound(p, s, rest[i], NextImage(rest, i))
           /\ NextImage(stack, Len(stack)) = {}
<1>1. /\ Len(rest) = Len(stack) /\ Len(stack) \in Nat \ {0}
      /\ rest[Len(stack)] = c /\ \A i \in 1..Len(stack) : i # Len(stack) => rest[i] = stack[i]
  BY RunningChanged
<1>2. \A i \in 1..Len(stack) : rest[i].image = stack[i].image
  BY <1>1
<1>3. CallsDescend(p, rest)
  <2> SUFFICES ASSUME NEW i \in 1..Len(stack) - 1 PROVE rest[i + 1].image \in HeldBy(p)[rest[i].image]
    BY <1>1 DEF CallsDescend
  <2>1. i \in 1..Len(stack) /\ i + 1 \in 1..Len(stack)
    <3>1. Len(stack) \in Nat
      BY <1>1
    <3> QED
      BY <3>1
  <2>2. stack[i + 1].image \in HeldBy(p)[stack[i].image]
    BY DEF CallsDescend
  <2>3. rest[i + 1].image = stack[i + 1].image /\ rest[i].image = stack[i].image
    BY <1>2, <2>1
  <2> QED
    BY <2>2, <2>3
<1>4. \A i \in 1..Len(stack) : NextImage(rest, i) = NextImage(stack, i)
  BY <1>1, <1>2 DEF NextImage
<1>5. NextImage(stack, Len(stack)) = {}
  <2>1. \A k \in 1..Len(stack) : k # Len(stack) + 1
    OBVIOUS
  <2> QED
    BY <2>1 DEF NextImage
<1>6. ASSUME NEW i \in 1..Len(stack), i # Len(stack) PROVE CallIsSound(p, s, rest[i], NextImage(rest, i))
  <2>1. CallIsSound(p, s, stack[i], NextImage(stack, i))
    BY DEF CallsAreSound
  <2>2. rest[i] = stack[i]
    BY <1>1, <1>6
  <2>3. NextImage(rest, i) = NextImage(stack, i)
    BY <1>4
  <2> QED
    BY <2>1, <2>2, <2>3
<1> QED
  BY <1>3, <1>4, <1>5, <1>6

\* removeManifest for a referrer.
LEMMA ReferrerKeeps ==
    ASSUME PruneInv, NEW r \in Manifests, RemoveReferrer(r)
    PROVE  PruneInv'
<1> DEFINE N == Len(calls)
           c == [calls[N] EXCEPT !.referrers = @ \ {r}]
           rest == [calls EXCEPT ![N] = c]
<1>1. PruneTypeOK
  BY DEF PruneInv
<1>2. /\ picture \in PictureType /\ plan \in PlanType /\ calls \in Seq(Calls) /\ calls # <<>>
      /\ N \in Nat \ {0} /\ N \in 1..N
  BY <1>1, PlanFacts DEF RemoveReferrer
<1>3. r \in calls[N].referrers /\ calls' = Entered(picture, plan, rest, r)
  BY RemovalEnters DEF RemoveReferrer, Oldest, Running
<1>4. UNCHANGED <<picture, candidates, tagsAhead, plan, outcome>>
  BY DEF RemoveReferrer
<1>5. /\ c \in Calls /\ c.image = calls[N].image /\ c.referrers = calls[N].referrers \ {r}
      /\ c.children = calls[N].children /\ c.dropped = calls[N].dropped
  BY <1>2, CallFields DEF Calls
<1> HIDE DEF c
<1>6. /\ rest \in Seq(Calls) /\ rest # <<>> /\ Len(rest) = N /\ rest[N] = c
      /\ \A i \in 1..N : i # N => rest[i] = calls[i]
  BY <1>2, <1>5, RunningChanged
<1>7. PruneTypeOK'
  BY <1>1, <1>2, <1>3, <1>4, <1>6, EnteredTyped DEF PruneTypeOK
<1>8. ASSUME Ordinary(picture) PROVE PlanIsSound'
  <2>1. PlanIsSound
    BY <1>8 DEF PruneInv
  <2>2. CallIsSound(picture, plan, calls[N], NextImage(calls, N))
    BY <1>2, <2>1 DEF PlanIsSound, CallsAreSound
  <2> DEFINE x == calls[N].image
  <2>3. x \in Manifests /\ ~calls[N].dropped /\ picture.subject[r] = x /\ liveParents(picture, plan, x) = {}
    BY <1>2, <1>3, <2>2, CallFields DEF CallIsSound
  <2>4. /\ CallsDescend(picture, rest)
        /\ \A i \in 1..N : NextImage(rest, i) = NextImage(calls, i)
        /\ \A i \in 1..N : i # N => CallIsSound(picture, plan, rest[i], NextImage(rest, i))
        /\ NextImage(calls, N) = {}
    BY <1>2, <1>5, <2>1, RunningChangedSound DEF PlanIsSound
  <2>5. CallIsSound(picture, plan, rest[N], NextImage(rest, N) \cup {r})
    BY <1>2, <1>5, <1>6, <2>2, <2>4 DEF CallIsSound
  <2>6. \A i \in 1..Len(rest) : CallIsSound(picture, plan, rest[i], NextImage(rest, i) \cup {y \in {r} : i = Len(rest)})
    <3> SUFFICES ASSUME NEW i \in 1..N
                 PROVE  CallIsSound(picture, plan, rest[i], NextImage(rest, i) \cup {y \in {r} : i = N})
      BY <1>6
    <3>1. CASE i = N
      <4>1. {y \in {r} : i = N} = {r}
        BY <3>1
      <4> QED
        BY <2>5, <3>1, <4>1
    <3>2. CASE i # N
      <4>1. {y \in {r} : i = N} = {}
        BY <3>2
      <4>2. NextImage(rest, i) \cup {} = NextImage(rest, i)
        OBVIOUS
      <4> QED
        BY <2>4, <3>2, <4>1, <4>2
    <3> QED
      BY <3>1, <3>2
  <2>7. liveParents(picture, plan, r) = {}
    <3> SUFFICES ASSUME NEW a \in plan.live, r \in picture.children[a] PROVE FALSE
      BY DEF liveParents
    <3>1. a \in Manifests /\ x # NoManifest
      BY <1>1, <2>3, PlanFacts
    <3>2. x \in picture.children[a]
      BY <1>8, <2>3, <3>1 DEF Ordinary
    <3> QED
      BY <2>3, <3>2 DEF liveParents
  <2>8. r \in HeldBy(picture)[rest[Len(rest)].image]
    BY <1>5, <1>6, <2>3 DEF HeldBy
  <2>9. ASSUME NEW y \in plan.live
        PROVE  y = r \/ HeldByLive(picture, plan, y) \/ y \in candidates \/ Awaited(rest, y)
    <3>1. CASE Awaited(calls, y)
      <4>1. PICK i \in 1..N : y = calls[i].image \/ y \in calls[i].referrers \/ y \in calls[i].children
        BY <3>1 DEF Awaited
      <4>2. y = r \/ y = rest[i].image \/ y \in rest[i].referrers \/ y \in rest[i].children
        BY <1>5, <1>6, <4>1
      <4> QED
        BY <1>6, <4>2 DEF Awaited
    <3> QED
      BY <2>1, <3>1 DEF PlanIsSound, EachIsHeld
  <2>10. /\ CallsDescend(picture, calls') /\ CallsAreSound(picture, plan, calls')
         /\ EachIsHeld(picture, plan, candidates, calls')
    <3>1. picture.subject[r] \in Manifests
      BY <2>3
    <3> HIDE DEF rest, N
    <3> QED
      BY <1>2, <1>3, <1>6, <2>4, <2>6, <2>7, <2>8, <2>9, <3>1, EnteringIsSound
  <2>11. StepsAreAccepted'
    BY <1>4, <2>1 DEF PlanIsSound, StepsAreAccepted
  <2> QED
    BY <1>4, <2>1, <2>10, <2>11 DEF PlanIsSound
<1> QED
  BY <1>4, <1>7, <1>8 DEF PruneInv

\* A child: it stays, or is removed when nothing else holds it.
LEMMA ChildKeeps ==
    ASSUME PruneInv, NEW k \in Manifests, RemoveChild(k)
    PROVE  PruneInv'
<1> DEFINE N == Len(calls)
           c == [calls[N] EXCEPT !.children = @ \ {k}]
           rest == [calls EXCEPT ![N] = c]
           stays == liveParents(picture, plan, k) # {} \/ tagsOf(picture, plan, k) # {}
<1>1. PruneTypeOK
  BY DEF PruneInv
<1>2. /\ picture \in PictureType /\ plan \in PlanType /\ calls \in Seq(Calls) /\ calls # <<>>
      /\ N \in Nat \ {0} /\ N \in 1..N
  BY <1>1, PlanFacts DEF RemoveChild
<1>3. k \in calls[N].children /\ calls[N].dropped /\ calls' = IF stays THEN rest ELSE Entered(picture, plan, rest, k)
  BY RemovalEnters DEF RemoveChild, Oldest, Running
<1>4. UNCHANGED <<picture, candidates, tagsAhead, plan, outcome>>
  BY DEF RemoveChild
<1>5. /\ c \in Calls /\ c.image = calls[N].image /\ c.referrers = calls[N].referrers
      /\ c.children = calls[N].children \ {k} /\ c.dropped = calls[N].dropped
  BY <1>2, CallFields DEF Calls
<1> HIDE DEF c, stays
<1>6. /\ rest \in Seq(Calls) /\ rest # <<>> /\ Len(rest) = N /\ rest[N] = c
      /\ \A i \in 1..N : i # N => rest[i] = calls[i]
  BY <1>2, <1>5, RunningChanged
<1>7. PruneTypeOK'
  <2>1. calls' \in Seq(Calls)
    BY <1>2, <1>3, <1>6, EnteredTyped
  <2> QED
    BY <1>1, <1>4, <2>1 DEF PruneTypeOK
<1>8. ASSUME Ordinary(picture) PROVE PlanIsSound'
  <2>1. PlanIsSound
    BY <1>8 DEF PruneInv
  <2>2. CallIsSound(picture, plan, calls[N], NextImage(calls, N))
    BY <1>2, <2>1 DEF PlanIsSound, CallsAreSound
  <2>3. k \in picture.children[calls[N].image] /\ calls[N].image \in Manifests
    BY <1>2, <1>3, <2>2, CallFields DEF CallIsSound
  <2>4. /\ CallsDescend(picture, rest)
        /\ \A i \in 1..N : NextImage(rest, i) = NextImage(calls, i)
        /\ \A i \in 1..N : i # N => CallIsSound(picture, plan, rest[i], NextImage(rest, i))
        /\ NextImage(calls, N) = {}
    BY <1>2, <1>5, <2>1, RunningChangedSound DEF PlanIsSound
  <2>5. \A next : CallIsSound(picture, plan, rest[N], next)
    BY <1>2, <1>3, <1>5, <1>6, <2>2 DEF CallIsSound
  <2>6. ASSUME NEW y \in plan.live
        PROVE  y = k \/ HeldByLive(picture, plan, y) \/ y \in candidates \/ Awaited(rest, y)
    <3>1. CASE Awaited(calls, y)
      <4>1. PICK i \in 1..N : y = calls[i].image \/ y \in calls[i].referrers \/ y \in calls[i].children
        BY <3>1 DEF Awaited
      <4>2. y = k \/ y = rest[i].image \/ y \in rest[i].referrers \/ y \in rest[i].children
        BY <1>5, <1>6, <4>1
      <4> QED
        BY <1>6, <4>2 DEF Awaited
    <3> QED
      BY <2>1, <3>1 DEF PlanIsSound, EachIsHeld
  <2>7. /\ CallsDescend(picture, calls') /\ CallsAreSound(picture, plan, calls')
        /\ EachIsHeld(picture, plan, candidates, calls')
    <3>1. CASE stays
      <4>1. HeldByLive(picture, plan, k)
        BY <3>1 DEF stays, HeldByLive
      <4>2. \A i \in 1..N : CallIsSound(picture, plan, rest[i], NextImage(rest, i))
        BY <2>4, <2>5
      <4> QED
        BY <1>3, <1>6, <2>4, <2>6, <3>1, <4>1, <4>2 DEF CallsAreSound, EachIsHeld
    <3>2. CASE ~stays
      <4>1. liveParents(picture, plan, k) = {} /\ tagsOf(picture, plan, k) = {}
        BY <3>2 DEF stays
      <4>2. k \in HeldBy(picture)[rest[Len(rest)].image]
        BY <1>5, <1>6, <2>3 DEF HeldBy
      <4>3. \A i \in 1..Len(rest) : CallIsSound(picture, plan, rest[i], NextImage(rest, i) \cup {y \in {k} : i = Len(rest)})
        <5> SUFFICES ASSUME NEW i \in 1..N
                     PROVE  CallIsSound(picture, plan, rest[i], NextImage(rest, i) \cup {y \in {k} : i = N})
          BY <1>6
        <5>1. CASE i = N
          BY <2>5, <5>1
        <5>2. CASE i # N
          <6>1. {y \in {k} : i = N} = {} /\ NextImage(rest, i) \cup {} = NextImage(rest, i)
            BY <5>2
          <6> QED
            BY <2>4, <5>2, <6>1
        <5> QED
          BY <5>1, <5>2
      <4>4. calls' = Entered(picture, plan, rest, k)
        BY <1>3, <3>2
      <4> HIDE DEF rest, N
      <4> QED
        BY <1>2, <1>6, <2>4, <2>6, <4>1, <4>2, <4>3, <4>4, EnteringIsSound
    <3> QED
      BY <3>1, <3>2
  <2>8. StepsAreAccepted'
    BY <1>4, <2>1 DEF PlanIsSound, StepsAreAccepted
  <2> QED
    BY <1>4, <2>1, <2>7, <2>8 DEF PlanIsSound
<1> QED
  BY <1>4, <1>7, <1>8 DEF PruneInv

\* The image of the running call goes.
LEMMA DropKeeps ==
    ASSUME PruneInv, DropManifest
    PROVE  PruneInv'
<1> DEFINE N == Len(calls)
           x == calls[N].image
           c == [calls[N] EXCEPT !.dropped = TRUE]
           rest == [calls EXCEPT ![N] = c]
<1>1. PruneTypeOK
  BY DEF PruneInv
<1>2. /\ picture \in PictureType /\ plan \in PlanType /\ calls \in Seq(Calls) /\ calls # <<>>
      /\ N \in Nat \ {0} /\ N \in 1..N
  BY <1>1, PlanFacts DEF DropManifest
<1>3. ~calls[N].dropped /\ calls[N].referrers = {} /\ calls' = rest
  BY <1>2, CallFields DEF DropManifest, Running, Calls
<1>4. /\ plan' = [plan EXCEPT !.live = @ \ {x},
                              !.refs = [b \in PicBlobs |-> IF b \in Blobs(picture, x) THEN @[b] - 1 ELSE @[b]]]
      /\ outcome' = Carry(picture, outcome, <<"manifest", x>>)
      /\ UNCHANGED <<picture, candidates, tagsAhead>>
  BY DEF DropManifest, Running
<1>5. /\ c \in Calls /\ c.image = x /\ c.referrers = {} /\ c.children = calls[N].children /\ c.dropped = TRUE
      /\ x \in Manifests
  BY <1>2, <1>3, CallFields DEF Calls
<1> HIDE DEF c
<1>6. /\ rest \in Seq(Calls) /\ rest # <<>> /\ Len(rest) = N /\ rest[N] = c
      /\ \A i \in 1..N : i # N => rest[i] = calls[i]
  BY <1>2, <1>5, RunningChanged
<1>7. /\ plan'.live = plan.live \ {x} /\ plan'.removed = plan.removed
      /\ plan'.refs = [b \in PicBlobs |-> IF b \in Blobs(picture, x) THEN plan.refs[b] - 1 ELSE plan.refs[b]]
      /\ plan' \in PlanType
  <2>1. \A b \in PicBlobs : plan.refs[b] \in Int
    BY <1>1 DEF PruneTypeOK
  <2>2. /\ plan'.live = plan.live \ {x} /\ plan'.removed = plan.removed
        /\ plan'.refs = [b \in PicBlobs |-> IF b \in Blobs(picture, x) THEN plan.refs[b] - 1 ELSE plan.refs[b]]
        /\ plan' = [live |-> plan'.live, removed |-> plan'.removed, refs |-> plan'.refs]
    BY <1>2, <1>4 DEF PlanType
  <2>3. plan'.refs \in [PicBlobs -> Int]
    BY <2>1, <2>2
  <2>4. plan'.live \in SUBSET Manifests /\ plan'.removed \in SUBSET PicTags
    BY <1>1, <2>2, PlanFacts
  <2> HIDE DEF x
  <2> QED
    BY <2>2, <2>3, <2>4 DEF PlanType
<1>8. PruneTypeOK'
  <2>1. /\ outcome.live \subseteq Manifests /\ outcome.removed \subseteq PicTags
        /\ outcome.refused \subseteq {"tag", "manifest"} \X (PicTags \cup Manifests)
        /\ outcome.needless \subseteq PicTags
    BY <1>1 DEF PruneTypeOK
  <2>2. outcome' \in [live : SUBSET Manifests, removed : SUBSET PicTags, needless : SUBSET PicTags,
                      refused : SUBSET ({"tag", "manifest"} \X (PicTags \cup Manifests))]
    <3>1. CASE Accepts(picture, outcome, <<"manifest", x>>)
      <4>1. outcome' = [outcome EXCEPT !.live = @ \ {x}, !.removed = @ \cup tagsOf(picture, outcome, x)]
        BY <1>4, <3>1 DEF Carry
      <4>2. tagsOf(picture, outcome, x) \subseteq PicTags
        BY DEF tagsOf
      <4> QED
        BY <1>1, <4>1, <4>2 DEF PruneTypeOK
    <3>2. CASE ~Accepts(picture, outcome, <<"manifest", x>>)
      <4>1. outcome' = [outcome EXCEPT !.refused = @ \cup {<<"manifest", x>>}]
        BY <1>4, <3>2 DEF Carry
      <4>2. <<"manifest", x>> \in {"tag", "manifest"} \X (PicTags \cup Manifests)
        BY <1>5
      <4> QED
        BY <1>1, <4>1, <4>2 DEF PruneTypeOK
    <3> QED
      BY <3>1, <3>2
  <2> QED
    BY <1>1, <1>3, <1>4, <1>6, <1>7, <2>2 DEF PruneTypeOK, PlanType
<1>9. ASSUME Ordinary(picture) PROVE PlanIsSound'
  <2>1. PlanIsSound
    BY <1>9 DEF PruneInv
  <2>2. /\ x \in plan.live /\ liveParents(picture, plan, x) = {}
        /\ tagsOf(picture, plan, x) = {} \/ picture.subject[x] \in Manifests
        /\ calls[N].children = picture.children[x]
        /\ liveReferrers(picture, plan, x) = {}
    <3>1. CallIsSound(picture, plan, calls[N], NextImage(calls, N))
      BY <1>2, <2>1 DEF PlanIsSound, CallsAreSound
    <3>2. NextImage(calls, N) = {}
      BY <1>2, <1>5, <2>1, RunningChangedSound DEF PlanIsSound
    <3> QED
      BY <1>3, <3>1, <3>2 DEF CallIsSound
  <2>3. /\ CallsDescend(picture, rest)
        /\ \A i \in 1..N : NextImage(rest, i) = NextImage(calls, i)
        /\ \A i \in 1..N : i # N => CallIsSound(picture, plan, rest[i], NextImage(rest, i))
        /\ NextImage(calls, N) = {}
    <3>1. c.image = calls[Len(calls)].image /\ rest = [calls EXCEPT ![Len(calls)] = c]
      BY <1>5
    <3>2. CallsDescend(picture, calls) /\ CallsAreSound(picture, plan, calls)
      BY <2>1 DEF PlanIsSound
    <3>3. c \in Calls /\ calls \in Seq(Calls) /\ calls # <<>>
      BY <1>2, <1>5
    <3> QED
      BY <3>1, <3>2, <3>3, RunningChangedSound
  \* Live as before, but for the image.
  <2>4. /\ \A m : tagsOf(picture, plan', m) = tagsOf(picture, plan, m)
        /\ \A m : liveParents(picture, plan', m) \subseteq liveParents(picture, plan, m)
        /\ \A m : liveReferrers(picture, plan', m) \subseteq liveReferrers(picture, plan, m)
    BY <1>7 DEF tagsOf, liveParents, liveReferrers
  <2>5. CallsAreSound(picture, plan', rest)
    <3> SUFFICES ASSUME NEW i \in 1..N PROVE CallIsSound(picture, plan', rest[i], NextImage(rest, i))
      BY <1>6 DEF CallsAreSound
    <3>1. CASE i = N
      <4>1. /\ rest[i].image = x /\ rest[i].referrers = {} /\ rest[i].children = picture.children[x]
            /\ rest[i].dropped = TRUE
        BY <1>5, <1>6, <2>2, <3>1
      <4>2. x \notin plan'.live
        BY <1>7
      <4> HIDE DEF rest, N
      <4> QED
        BY <4>1, <4>2 DEF CallIsSound
    <3>2. CASE i # N
      <4>1. CallIsSound(picture, plan, rest[i], NextImage(rest, i))
        BY <2>3, <3>2
      <4>2. rest[i].image # x
        <5>1. i < N /\ i \in 1..Len(rest) /\ N \in 1..Len(rest)
          <6>1. N \in Nat /\ Len(rest) = N
            BY <1>2, <1>6
          <6> HIDE DEF rest, N
          <6> QED
            BY <1>2, <3>2, <6>1
        <5>2. rest[i].image # rest[N].image
          <6>1. Acyclic(HeldBy(picture)) /\ CallsDescend(picture, rest)
            BY <1>9, <2>3 DEF Ordinary
          <6> HIDE DEF rest, N
          <6> QED
            BY <1>6, <5>1, <6>1, CallsDiffer
        <5> QED
          BY <1>5, <1>6, <5>2
      <4> QED
        BY <1>7, <2>4, <4>1, <4>2 DEF CallIsSound
    <3> QED
      BY <3>1, <3>2
  <2>6. \* The step is accepted.
        Accepts(picture, outcome, <<"manifest", x>>)
    <3>1. outcome.live = plan.live /\ plan.removed \subseteq outcome.removed
      BY <2>1 DEF PlanIsSound, OutcomeFollows
    <3>2. liveParents(picture, outcome, x) = {}
      BY <2>2, <3>1 DEF liveParents
    <3>3. ~isProtected(picture, outcome, x)
      <4>1. tagsOf(picture, outcome, x) \subseteq tagsOf(picture, plan, x)
        BY <3>1 DEF tagsOf
      <4>2. CASE tagsOf(picture, plan, x) = {}
        BY <4>1, <4>2 DEF isProtected
      <4>3. CASE picture.subject[x] \in Manifests
        <5>1. picture.subject[x] # NoManifest /\ x # NoManifest
          BY <1>1, <1>5, <4>3, PlanFacts
        <5>2. \A t \in picture.protected : picture.names[t] # x
          BY <1>9, <5>1 DEF Ordinary
        <5> QED
          BY <5>2 DEF isProtected, tagsOf
      <4> QED
        BY <2>2, <4>2, <4>3
    <3> QED
      BY <2>2, <3>1, <3>2, <3>3 DEF Accepts
  <2>7. /\ outcome'.live = outcome.live \ {x} /\ outcome'.removed = outcome.removed \cup tagsOf(picture, outcome, x)
        /\ outcome'.refused = outcome.refused /\ outcome'.needless = outcome.needless
    BY <1>1, <1>4, <2>6 DEF Carry, PruneTypeOK
  <2>8. OutcomeFollows(picture, plan', outcome')
    BY <1>7, <2>1, <2>2, <2>7 DEF PlanIsSound, OutcomeFollows, tagsOf
  <2>9. CountsAgree(picture, plan')
    BY <1>2, <1>7, <2>1, <2>2, CountsAfterDrop DEF PlanIsSound
  <2>10. LostTagsAttached(picture, plan')
    BY <1>7, <2>1, <2>2 DEF PlanIsSound, LostTagsAttached, tagsOf
  <2>11. AheadUntouched(picture, plan', candidates, tagsAhead)
    BY <1>7, <2>1, <2>4 DEF PlanIsSound, AheadUntouched
  <2>12. EachIsHeld(picture, plan', candidates, rest)
    <3> SUFFICES ASSUME NEW y \in plan'.live
                 PROVE  HeldByLive(picture, plan', y) \/ y \in candidates \/ Awaited(rest, y)
      BY DEF EachIsHeld
    <3>1. y \in plan.live /\ y # x
      BY <1>7
    <3>2. CASE Awaited(calls, y)
      <4>1. PICK i \in 1..N : y = calls[i].image \/ y \in calls[i].referrers \/ y \in calls[i].children
        BY <3>2 DEF Awaited
      <4>2. y = rest[i].image \/ y \in rest[i].referrers \/ y \in rest[i].children
        BY <1>3, <1>5, <1>6, <4>1
      <4> QED
        BY <1>6, <4>2 DEF Awaited
    <3>3. CASE y \in picture.children[x]
      BY <1>2, <1>5, <1>6, <2>2, <3>3 DEF Awaited
    <3>4. CASE HeldByLive(picture, plan, y) /\ y \notin picture.children[x]
      <4>1. picture.subject[y] # x
        BY <2>2, <3>1 DEF liveReferrers
      <4>2. liveParents(picture, plan', y) = liveParents(picture, plan, y)
        BY <1>7, <3>4 DEF liveParents
      <4> QED
        BY <1>7, <2>4, <3>4, <4>1, <4>2 DEF HeldByLive
    <3> QED
      BY <2>1, <3>1, <3>2, <3>3, <3>4 DEF PlanIsSound, EachIsHeld
  <2>13. StepsAreAccepted'
    BY <1>4, <2>1, <2>7 DEF PlanIsSound, StepsAreAccepted
  <2>14. outcome'.needless = {}
    BY <2>1, <2>7 DEF PlanIsSound
  <2> QED
    BY <1>3, <1>4, <2>3, <2>5, <2>8, <2>9, <2>10, <2>11, <2>12, <2>13, <2>14 DEF PlanIsSound
<1> QED
  BY <1>4, <1>8, <1>9 DEF PruneInv

\* A call returns.
LEMMA ReturnKeeps ==
    ASSUME PruneInv, RemovalReturns
    PROVE  PruneInv'
<1> DEFINE N == Len(calls)
           rest == SubSeq(calls, 1, N - 1)
<1>1. PruneTypeOK
  BY DEF PruneInv
<1>2. /\ picture \in PictureType /\ plan \in PlanType /\ calls \in Seq(Calls) /\ calls # <<>>
      /\ N \in Nat \ {0} /\ N \in 1..N
  BY <1>1, PlanFacts DEF RemovalReturns
<1>3. /\ calls[N].dropped /\ calls[N].children = {} /\ calls' = rest
      /\ UNCHANGED <<picture, candidates, tagsAhead, plan, outcome>>
  BY DEF RemovalReturns, Running, Waiting
<1>4. rest \in Seq(Calls) /\ Len(rest) = N - 1 /\ \A i \in 1..N - 1 : rest[i] = calls[i]
  <2>1. \A i \in 1..N - 1 : calls[i] \in Calls
    BY <1>2
  <2>2. /\ SubSeq(calls, 1, N - 1) \in Seq(Calls)
        /\ Len(SubSeq(calls, 1, N - 1)) = IF 1 <= N - 1 THEN N - 1 - 1 + 1 ELSE 0
        /\ \A i \in 1..N - 1 - 1 + 1 : SubSeq(calls, 1, N - 1)[i] = calls[1 + i - 1]
    BY <1>2, <2>1, SubSeqProperties
  <2>3. N \in Nat \ {0}
    BY <1>2
  <2> HIDE DEF N
  <2> QED
    BY <2>2, <2>3
<1>5. PruneTypeOK'
  BY <1>1, <1>3, <1>4 DEF PruneTypeOK
<1> HIDE DEF rest
<1>6. ASSUME Ordinary(picture) PROVE PlanIsSound'
  <2>1. PlanIsSound
    BY <1>6 DEF PruneInv
  <2>2. calls[N].image \notin plan.live /\ calls[N].referrers = {}
    BY <1>2, <1>3, <2>1 DEF PlanIsSound, CallsAreSound, CallIsSound
  <2>3. CallsDescend(picture, rest)
    <3> SUFFICES ASSUME NEW i \in 1..N - 2 PROVE rest[i + 1].image \in HeldBy(picture)[rest[i].image]
      BY <1>2, <1>4 DEF CallsDescend
    <3>1. i \in 1..N - 1 /\ i + 1 \in 1..N - 1
      BY <1>2
    <3>2. calls[i + 1].image \in HeldBy(picture)[calls[i].image]
      BY <2>1, <3>1 DEF PlanIsSound, CallsDescend
    <3> QED
      BY <1>4, <3>1, <3>2
  <2>4. CallsAreSound(picture, plan, rest)
    <3> SUFFICES ASSUME NEW i \in 1..N - 1 PROVE CallIsSound(picture, plan, rest[i], NextImage(rest, i))
      BY <1>4 DEF CallsAreSound
    <3>1. i \in 1..N /\ rest[i] = calls[i]
      BY <1>2, <1>4
    <3>2. CallIsSound(picture, plan, calls[i], NextImage(calls, i))
      BY <2>1, <3>1 DEF PlanIsSound, CallsAreSound
    <3>3. NextImage(calls, i) \cap plan.live \subseteq NextImage(rest, i)
      <4>1. ASSUME NEW k \in 1..N, k = i + 1, calls[k].image \in plan.live PROVE calls[k].image \in NextImage(rest, i)
        <5>1. k \in 1..Len(rest) /\ rest[k] = calls[k]
          BY <1>2, <1>4, <2>2, <4>1
        <5> QED
          BY <4>1, <5>1 DEF NextImage
      <4> QED
        BY <4>1 DEF NextImage
    <3>4. liveReferrers(picture, plan, calls[i].image) \subseteq plan.live
      BY DEF liveReferrers
    <3> QED
      BY <3>1, <3>2, <3>3, <3>4 DEF CallIsSound
  <2>5. EachIsHeld(picture, plan, candidates, rest)
    <3>1. ASSUME NEW y \in plan.live, Awaited(calls, y) PROVE Awaited(rest, y)
      <4>1. PICK i \in 1..N : y = calls[i].image \/ y \in calls[i].referrers \/ y \in calls[i].children
        BY <3>1 DEF Awaited
      <4>2. i # N
        BY <1>3, <2>2, <4>1
      <4>3. i \in 1..Len(rest) /\ rest[i] = calls[i]
        BY <1>2, <1>4, <4>2
      <4> QED
        BY <4>1, <4>3 DEF Awaited
    <3> QED
      BY <2>1, <3>1 DEF PlanIsSound, EachIsHeld
  <2>6. StepsAreAccepted'
    BY <1>3, <2>1 DEF PlanIsSound, StepsAreAccepted
  <2> QED
    BY <1>3, <2>1, <2>3, <2>4, <2>5, <2>6 DEF PlanIsSound
<1> QED
  BY <1>3, <1>5, <1>6 DEF PruneInv

\* A tag that goes, and its image with it if it was the last.
LEMMA TagKeeps ==
    ASSUME PruneInv, NEW t \in PicTags, RemoveTag(t)
    PROVE  PruneInv'
<1> DEFINE m == picture.names[t]
           last == tagsOf(picture, plan', m) = {} /\ liveParents(picture, plan, m) = {}
<1>1. PruneTypeOK
  BY DEF PruneInv
<1>2. /\ calls = <<>> /\ ~Fits /\ candidates = {} /\ t \in tagsAhead /\ ~Spared(t)
      /\ tagsAhead' = tagsAhead \ {t} /\ picture' = picture /\ candidates' = candidates
      /\ plan' = [plan EXCEPT !.removed = @ \cup {t}]
      /\ outcome' = Carry(picture, outcome, <<"tag", t>>)
      /\ calls' = IF last THEN Entered(picture, plan, <<>>, m) ELSE <<>>
  BY RemovalEnters DEF RemoveTag, Oldest
<1>3. /\ picture \in PictureType /\ plan \in PlanType /\ <<>> \in Seq(Calls) /\ m \in Manifests
      /\ t \notin picture.protected
  BY <1>1, <1>2, PlanFacts DEF Spared
<1>4. /\ plan'.live = plan.live /\ plan'.removed = plan.removed \cup {t} /\ plan'.refs = plan.refs
      /\ plan' \in PlanType
  BY <1>2, <1>3 DEF PlanType
<1>5. Entered(picture, plan, <<>>, m) = Entered(picture, plan', <<>>, m)
  BY <1>4 DEF Entered, CallFor, liveReferrers
<1> HIDE DEF last
<1>6. calls' \in Seq(Calls)
  BY <1>2, <1>3, EnteredTyped
<1>7. \/ /\ t \notin outcome.removed
         /\ outcome' = [outcome EXCEPT !.removed = @ \cup {t},
                                       !.needless = IF StoredBlobs(picture, outcome.live) <= picture.limit
                                                    THEN @ \cup {t} ELSE @]
      \/ t \in outcome.removed /\ outcome' = [outcome EXCEPT !.refused = @ \cup {<<"tag", t>>}]
  BY <1>2, <1>3 DEF Carry, Accepts
<1>8. PruneTypeOK'
  <2>1. <<"tag", t>> \in {"tag", "manifest"} \X (PicTags \cup Manifests)
    OBVIOUS
  <2>2. outcome' \in [live : SUBSET Manifests, removed : SUBSET PicTags, needless : SUBSET PicTags,
                      refused : SUBSET ({"tag", "manifest"} \X (PicTags \cup Manifests))]
    <3>1. CASE t \notin outcome.removed
      <4>1. outcome' = [outcome EXCEPT !.removed = @ \cup {t},
                                       !.needless = IF StoredBlobs(picture, outcome.live) <= picture.limit
                                                    THEN @ \cup {t} ELSE @]
        BY <1>7, <3>1
      <4> QED
        BY <1>1, <4>1 DEF PruneTypeOK
    <3>2. CASE t \in outcome.removed
      <4>1. outcome' = [outcome EXCEPT !.refused = @ \cup {<<"tag", t>>}]
        BY <1>7, <3>2
      <4> QED
        BY <1>1, <2>1, <4>1 DEF PruneTypeOK
    <3> QED
      BY <3>1, <3>2
  <2> QED
    BY <1>1, <1>2, <1>4, <1>6, <2>2 DEF PruneTypeOK, PlanType
<1>9. ASSUME Ordinary(picture) PROVE PlanIsSound'
  <2>1. PlanIsSound
    BY <1>9 DEF PruneInv
  <2>2. /\ outcome.live = plan.live
        /\ outcome.removed = plan.removed \cup {u \in PicTags : picture.names[u] \notin plan.live}
        /\ t \notin plan.removed
    BY <1>2, <2>1 DEF PlanIsSound, OutcomeFollows, AheadUntouched
  <2>3. t \in outcome.removed <=> m \notin plan.live
    BY <2>2
  <2>4. OutcomeFollows(picture, plan', outcome')
    <3>1. CASE t \notin outcome.removed
      <4>1. outcome'.live = outcome.live /\ outcome'.removed = outcome.removed \cup {t}
        BY <1>1, <1>7, <3>1 DEF PruneTypeOK
      <4> QED
        BY <1>4, <2>2, <4>1 DEF OutcomeFollows
    <3>2. CASE t \in outcome.removed
      <4>1. outcome'.live = outcome.live /\ outcome'.removed = outcome.removed
        BY <1>1, <1>7, <3>2 DEF PruneTypeOK
      <4> QED
        BY <1>4, <2>2, <3>2, <4>1 DEF OutcomeFollows
    <3> QED
      BY <3>1, <3>2
  <2>5. StepsAreAccepted'
    <3>1. CASE t \notin outcome.removed
      <4>1. outcome'.refused = outcome.refused
        BY <1>1, <1>7, <3>1 DEF PruneTypeOK
      <4> QED
        BY <1>2, <2>1, <4>1 DEF PlanIsSound, StepsAreAccepted
    <3>2. CASE t \in outcome.removed
      <4>1. outcome'.refused = outcome.refused \cup {<<"tag", t>>}
        BY <1>1, <1>7, <3>2 DEF PruneTypeOK
      <4>2. picture.subject[m] \in Manifests
        BY <1>3, <2>1, <2>2, <2>3, <3>2 DEF PlanIsSound, LostTagsAttached
      <4> QED
        BY <1>2, <2>1, <4>1, <4>2 DEF PlanIsSound, StepsAreAccepted
    <3> QED
      BY <3>1, <3>2
  <2>6. \* It did not fit yet.
        outcome'.needless = {}
    <3>1. ~(StoredBlobs(picture, outcome.live) <= picture.limit)
      <4>1. usage(plan) = StoredBlobs(picture, plan.live)
        BY <1>3, <2>1, UsageIsStored DEF PlanIsSound
      <4> QED
        BY <1>2, <2>2, <4>1 DEF Fits
    <3> QED
      BY <1>1, <1>7, <2>1, <3>1 DEF PlanIsSound, PruneTypeOK
  <2>7. CountsAgree(picture, plan')
    BY <1>4, <2>1 DEF PlanIsSound, CountsAgree
  <2>8. LostTagsAttached(picture, plan')
    BY <1>4, <2>1 DEF PlanIsSound, LostTagsAttached
  <2>9. AheadUntouched(picture, plan', candidates, tagsAhead \ {t})
    <3>1. PicTags \ (plan'.removed \cup (tagsAhead \ {t})) = PicTags \ (plan.removed \cup tagsAhead)
      BY <1>2, <1>4
    <3> QED
      BY <1>2, <1>4, <2>1, <3>1 DEF PlanIsSound, AheadUntouched
  <2>10. \A y \in plan'.live : y = m \/ HeldByLive(picture, plan', y) \/ y \in candidates \/ Awaited(<<>>, y)
    <3> SUFFICES ASSUME NEW y \in plan.live, y # m PROVE HeldByLive(picture, plan', y)
      BY <1>4
    <3>1. HeldByLive(picture, plan, y)
      BY <1>2, <2>1 DEF PlanIsSound, EachIsHeld, Awaited
    <3>2. tagsOf(picture, plan', y) = tagsOf(picture, plan, y)
      BY <1>4 DEF tagsOf
    <3> QED
      BY <1>4, <3>1, <3>2 DEF HeldByLive, liveParents
  <2>11. /\ CallsDescend(picture, calls') /\ CallsAreSound(picture, plan', calls')
         /\ EachIsHeld(picture, plan', candidates, calls')
    <3>1. CallsDescend(picture, <<>>) /\ CallsAreSound(picture, plan', <<>>)
      BY DEF CallsDescend, CallsAreSound
    <3>2. liveParents(picture, plan', m) = liveParents(picture, plan, m)
      BY <1>4 DEF liveParents
    <3>3. CASE last
      <4> DEFINE rest == <<>>
      <4>1. \A i \in 1..Len(rest) : CallIsSound(picture, plan', rest[i], NextImage(rest, i) \cup {x \in {m} : i = Len(rest)})
        OBVIOUS
      <4>2. tagsOf(picture, plan', m) = {} /\ liveParents(picture, plan', m) = {}
        BY <3>2, <3>3 DEF last
      <4>3. calls' = Entered(picture, plan', rest, m)
        BY <1>2, <1>5, <3>3
      <4> QED
        BY <1>3, <1>4, <2>10, <3>1, <4>1, <4>2, <4>3, EnteringIsSound
    <3>4. CASE ~last
      <4>1. HeldByLive(picture, plan', m)
        BY <3>2, <3>4 DEF last, HeldByLive
      <4> QED
        BY <1>2, <2>10, <3>1, <3>4, <4>1 DEF EachIsHeld
    <3> QED
      BY <3>3, <3>4
  <2> QED
    BY <1>2, <2>4, <2>5, <2>6, <2>7, <2>8, <2>9, <2>11 DEF PlanIsSound
<1> QED
  BY <1>2, <1>8, <1>9 DEF PruneInv

LEMMA PruneInvNext == PruneInv /\ [PruneNext]_pruneVars => PruneInv'
<1> SUFFICES ASSUME PruneInv, [PruneNext]_pruneVars PROVE PruneInv'
  OBVIOUS
<1>1. CASE \E m \in Manifests : RemoveLeftover(m) \/ RemoveReferrer(m) \/ RemoveChild(m)
  BY <1>1, LeftoverKeeps, ReferrerKeeps, ChildKeeps
<1>2. CASE \E t \in PicTags : KeepTag(t) \/ RemoveTag(t)
  BY <1>2, KeepingKeeps, TagKeeps
<1>3. CASE DropManifest \/ RemovalReturns
  BY <1>3, DropKeeps, ReturnKeeps
<1>4. CASE UNCHANGED pruneVars
  <2>1. UNCHANGED <<picture, candidates, tagsAhead, calls, plan, outcome>>
    BY <1>4 DEF pruneVars
  <2>2. PruneTypeOK'
    BY <2>1 DEF PruneInv, PruneTypeOK
  <2>3. ASSUME Ordinary(picture) PROVE PlanIsSound'
    <3>1. PlanIsSound
      BY <2>3 DEF PruneInv
    <3>2. StepsAreAccepted'
      BY <2>1, <3>1 DEF PlanIsSound, StepsAreAccepted
    <3> QED
      BY <2>1, <3>1, <3>2 DEF PlanIsSound
  <2> QED
    BY <2>1, <2>2, <2>3 DEF PruneInv
<1> QED
  BY <1>1, <1>2, <1>3, <1>4 DEF PruneNext

\* What the invariant says of the plan.
LEMMA PruneInvFits == PruneInv => PlanFits
<1> SUFFICES ASSUME PruneInv, Ordinary(picture)
             PROVE  /\ StepsAreAccepted
                    /\ usage(plan) = StoredBlobs(picture, outcome.live)
                    /\ outcome.needless = {}
                    /\ Finished => (Fits \/ outcome.live \subseteq KeptByTags(picture))
  BY DEF PlanFits
<1>1. PruneTypeOK /\ PlanIsSound
  BY DEF PruneInv
<1>2. picture \in PictureType /\ plan \in PlanType /\ plan.live \in SUBSET Manifests /\ NoManifest \notin Manifests
  BY <1>1, PlanFacts
<1>3. outcome.live = plan.live
  BY <1>1 DEF PlanIsSound, OutcomeFollows
<1>4. usage(plan) = StoredBlobs(picture, outcome.live)
  BY <1>1, <1>2, <1>3, UsageIsStored DEF PlanIsSound
<1>5. ASSUME Finished, ~Fits PROVE outcome.live \subseteq KeptByTags(picture)
  <2>1. calls = <<>> /\ candidates = {} /\ tagsAhead = {}
    BY <1>5 DEF Finished
  <2>2. ASSUME NEW m \in plan.live
        PROVE  \/ \E t \in picture.protected : picture.names[t] = m
               \/ \E a \in plan.live : m \in picture.children[a]
               \/ picture.subject[m] \in plan.live
    <3>1. HeldByLive(picture, plan, m)
      BY <1>1, <2>1 DEF PlanIsSound, EachIsHeld, Awaited
    <3>2. CASE tagsOf(picture, plan, m) # {}
      <4>1. PICK t \in PicTags \ plan.removed : picture.names[t] = m
        BY <3>2 DEF tagsOf
      <4>2. m # NoManifest
        BY <1>2
      <4> QED
        BY <1>1, <2>1, <4>1, <4>2 DEF PlanIsSound, AheadUntouched
    <3> QED
      BY <3>1, <3>2 DEF HeldByLive, liveParents
  <2>3. Acyclic(HeldBy(picture))
    BY DEF Ordinary
  <2> QED
    BY <1>2, <1>3, <2>2, <2>3, HeldIsKept
<1> QED
  BY <1>1, <1>4, <1>5 DEF PlanIsSound

\* The invariant holds throughout.
LEMMA PruneInvHolds == PruneSpec => []PruneInv
BY PruneInvInit, PruneInvNext, PTL DEF PruneSpec

\* planPruneToFit: of any ordinary repository, however many tags, indexes,
\* children and referrers it has and whichever blobs they share, the plan can
\* be carried out as it stands, promises the bytes that are stored, takes no
\* tag once the scope fits, and ends when it fits or nothing is left but what
\* protected tags hold.
THEOREM PlansFit == PruneSpec => []PlanFits
BY PruneInvHolds, PruneInvFits, PTL
=============================================================================
