---------------------------- MODULE MCBackground ----------------------------
(* What the web process does in the background: scheduled jobs, and mails   *)
(* and webhook deliveries.  A behaviour is one of the two parts; the other  *)
(* stays as it begins.                                                      *)
EXTENDS Scheduler, Webhooks

CONSTANTS r1, r2, m1, j1, h1, e1, e2, u1

TwoReplicas == {r1, r2}
OneByHand == {m1}
OneJob == {j1}
OneHook == {h1}
TwoOccurrences == {e1, e2}
OnePerson == {u1}
OneSubscription == {{"push", "quota.warning"}}

VARIABLE part

mcVars == <<part, vars, hookVars>>

MCInit == part \in {"jobs", "hooks"} /\ Init /\ HooksInit

MCNext ==
    /\ UNCHANGED part
    /\ \/ part = "jobs" /\ Next /\ UNCHANGED hookVars
       \/ part = "hooks" /\ HooksNext /\ UNCHANGED vars

\* Fairness of Scheduler, where its part runs, and HooksFairness, which asks
\* nothing where no webhook is at work.
MCFairness ==
    /\ \A r \in Replicas : WF_mcVars(part = "jobs" /\ TickStep(r) /\ UNCHANGED <<part, hookVars>>)
                            /\ WF_mcVars(part = "jobs" /\ Restart(r) /\ UNCHANGED <<part, hookVars>>)
    /\ \A p \in Procs : WF_mcVars(part = "jobs" /\ (InsertRun(p) \/ RunEnds(p)) /\ UNCHANGED <<part, hookVars>>)
    /\ \A j \in Jobs : WF_mcVars(/\ part = "jobs" /\ <<j, Orphan>> \in open /\ GrowsOld(<<j, Orphan>>)
                                 /\ UNCHANGED <<part, hookVars>>)
    /\ HooksFairness

MCSpec == MCInit /\ [][MCNext]_mcVars /\ MCFairness
=============================================================================
