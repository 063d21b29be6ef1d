------------------------------ MODULE MCStorage ------------------------------
(* What registryd stores, for TLC: blobs and manifests, and the chunks of   *)
(* uploads in shared staging.  A behaviour is one of the two parts; the     *)
(* other stays as it begins.                                                *)
EXTENDS MCBlobStore, SharedStaging

CONSTANTS s1, s2, n1, n2

\* Two appends race on one session; the other comes and goes meanwhile.
TwoSessions == {s1, s2}
TwoKeys == {<<s1, n1>>, <<s1, n2>>}
\* An empty body leaves the offset where it was, which the optimistic lock
\* cannot see.
EmptyOrNot == {0, 1}

VARIABLE part

mcVars == <<part, vars, stagingVars>>

MCInit == part \in {"blobs", "staging"} /\ Init /\ StagingInit

MCNext ==
    \/ part = "blobs" /\ Next /\ UNCHANGED <<part, stagingVars>>
    \/ part = "staging" /\ StagingNext /\ UNCHANGED <<part, vars>>

MCSpec == MCInit /\ [][MCNext]_mcVars
=============================================================================
