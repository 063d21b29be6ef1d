----------------------------- MODULE MCHandovers -----------------------------
(* Work that one process hands to another: the chunks of an upload between  *)
(* replicas of registryd, and events from registryd to the web app.  A      *)
(* behaviour is one of the two parts; the other stays as it begins.         *)
EXTENDS EventOutbox, SharedStaging

CONSTANTS e1, r1, h1, h2, p1, p2, s1, n1, n2

OneEvent == {e1}
OneRoute == {r1}
TwoDrains == {h1, h2}
CrashesAndWrites == {"crash", "write"}

TwoRequests == {p1, p2}
OneSession == {s1}
TwoKeys == {<<s1, n1>>, <<s1, n2>>}
EmptyOrNot == {0, 1}

VARIABLE part

mcVars == <<part, vars, stagingVars>>

MCInit == part \in {"events", "staging"} /\ Init /\ StagingInit

MCNext ==
    \/ part = "events" /\ Next /\ UNCHANGED <<part, stagingVars>>
    \/ part = "staging" /\ StagingNext /\ UNCHANGED <<part, vars>>

MCSpec ==
    /\ MCInit /\ [][MCNext]_mcVars
    /\ \/ part = "events" /\ Fairness
       \/ part = "staging" /\ StagingFairness
=============================================================================
