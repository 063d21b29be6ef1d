----------------------------- MODULE MCCleanup -----------------------------
(* What moves, re-points and removes images on somebody's behalf: tag       *)
(* clients, retention, quota enforcement with its plan, and bulk moves.  A  *)
(* behaviour is one of the five parts; the others stay as they begin.       *)
EXTENDS TagClients, Retention, QuotaEnforce, PruneToFit, RepoMoves, TLC

CONSTANTS r1, r2, d1, d2, g1, t1, t2, b1, b2, o1, e1, e2, a1, a2, v1, v2, n1, n2

\* A repository with two versions, two other tags and "latest", and another one.
SomeTags == {v1, v2, n1, n2}
SomeSlots == ({r1} \X (SomeTags \cup {Latest})) \cup {<<r2, v1>>}
SomeRanks == (v1 :> 1) @@ (v2 :> 2) @@ (n1 :> 0) @@ (n2 :> 0)
SomeDates == (d1 :> 1) @@ (d2 :> 2)
Locked == {v2}
TwoImages == {d1, d2}
OneImage == {g1}
TwoTags == {t1, t2}
TwoRuns == {e1, e2}
TwoGraces == {1, 2}
SomeSymmetry == Permutations(TwoTags)
\* Of what is old, all but the newest or all.
OldOnes ==
    {[enabled |-> TRUE, keepLast |-> n, keep |-> {}, older |-> TRUE, untagged |-> TRUE] : n \in {0, 1}}
ThreeManifests == 1..3
FirstTwo == 1..2
BatchRepos == {a1, a2}
TwoBlobs == {b1, b2}
OneLayer == {b1}
TwoLimits == {0, 1}
OneOrigin == {o1}

VARIABLE part

\* Where the other parts begin: a plan and a move that have ended.
NoPicture == [children |-> [m \in Manifests |-> {}], subject |-> [m \in Manifests |-> NoManifest],
              layers |-> [m \in Manifests |-> {}], names |-> [t \in PicTags |-> NoManifest], protected |-> {}, limit |-> 3]
NoWorld == [home |-> [r \in MovedRepos |-> o1], layers |-> [r \in MovedRepos |-> {}], namesakes |-> {}, owns |-> Organizations,
            proxies |-> {}, orgRepos |-> Unlimited, orgBytes |-> 0, userRepos |-> 0, userBytes |-> 0]

MCInit ==
    /\ ClientsInit /\ RetentionInit /\ EnforceInit
    /\ \/ part = "plan" /\ PruneInit
       \/ part \in {"clients", "retention", "enforce", "moves"} /\ picture = NoPicture /\ PlanBegins
    /\ \/ part = "moves" /\ MovesInit
       \/ part # "moves" /\ world = NoWorld /\ batchOrder = <<>> /\ home = NoWorld.home /\ accepted = newBatchContext /\ planned = <<>> /\ moved = <<>>

MCNext ==
    /\ UNCHANGED part
    /\ \/ part = "clients" /\ ClientsNext /\ UNCHANGED <<retentionVars, enforceVars, pruneVars, movesVars>>
       \/ part = "retention" /\ RetentionNext /\ UNCHANGED <<clientVars, enforceVars, pruneVars, movesVars>>
       \/ part = "enforce" /\ EnforceNext /\ UNCHANGED <<clientVars, retentionVars, pruneVars, movesVars>>
       \/ part = "plan" /\ PruneNext /\ UNCHANGED <<clientVars, retentionVars, enforceVars, movesVars>>
       \/ part = "moves" /\ MovesNext /\ UNCHANGED <<clientVars, retentionVars, enforceVars, pruneVars>>

\* Others write one of the tags of interest while a move or a deletion is at
\* work, and none while another client is; three of a repository's tags name
\* images, and the other repository is empty when no image goes there; a mirror
\* works on two tags; a move reads the date of every image.
ClientsBound ==
    /\ Cardinality(client.overtaken) <= IF client.kind \in {"move", "delete"} THEN 1 ELSE 0
    /\ Cardinality(Tagged(r1)) <= 3
    /\ client.kind \notin {"move", "copy"} => Tagged(r2) = {} /\ \A d \in Images : <<r2, d>> \notin stored
    /\ Cardinality(client.todo) + Cardinality(client.log) <= 2
    /\ client.kind = "move" => client.unread = {}

\* Nothing is said of what comes after runs that disagreed.
EnforceBound == ~disagreed
=============================================================================
