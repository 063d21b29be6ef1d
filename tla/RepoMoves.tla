---- MODULE RepoMoves ----
(***************************************************************************)
(* Moving repositories into another organization (web/src/lib/repo-move.ts,*)
(* web/src/app/actions/bulk-move.ts) and the quotas a move is measured by  *)
(* (web/src/lib/quota.ts, web/src/lib/storage-accounting.ts): the preview  *)
(* of a batch, repository by repository, and the run that follows it.      *)
(*                                                                         *)
(* Organizations, limits and owners come as a picture; repositories are    *)
(* private, and a name is the repository itself unless two share one.      *)
(* Blobs are one unit each.                                                *)
(***************************************************************************)
EXTENDS Naturals, Integers, Sequences, FiniteSets, Functions

CONSTANTS
    MovedRepos,   \* repositories
    LayerBlobs,   \* blobs
    Target,       \* the organization the batch goes to
    Origins,      \* the other organizations
    MaxQuota      \* bound on limits

Organizations == Origins \cup {Target}
Unlimited == -1
Limits == {Unlimited} \cup 0..MaxQuota

ASSUME MovesAssumption == IsFiniteSet(MovedRepos) /\ IsFiniteSet(LayerBlobs) /\ Target \notin Origins /\ MaxQuota \in Nat

\* home: where each repository is.  namesakes: repositories that have the same
\* name.  owns: the organizations of the target's owner that have no limit of
\* their own, and the target; proxies: caches.
\* The limits: repositories and storage the target and its owner may hold.
Pictured ==
    {w \in [home : [MovedRepos -> Organizations], layers : [MovedRepos -> SUBSET LayerBlobs],
            namesakes : {ns \in SUBSET MovedRepos : Cardinality(ns) # 1}, owns : {o \in SUBSET Organizations : Target \in o},
            proxies : {{}} \cup {{o} : o \in Organizations}, orgRepos : Limits, orgBytes : Limits, userRepos : Limits, userBytes : Limits] :
        \A r, s \in w.namesakes : r # s => w.home[r] # w.home[s]}

VARIABLES
    world,      \* the picture as the preview finds it
    batchOrder, \* the repositories that were selected, in order
    home,       \* the organization each repository is in
    accepted,   \* BatchContext: what the preview has accepted
    planned,    \* its answers
    moved       \* the answers of the run

movesVars == <<world, batchOrder, home, accepted, planned, moved>>

Current == [world EXCEPT !.home = home]

----------------------------------------------------------------------------
(* lib/quota.ts, lib/storage-accounting.ts *)

In(w, orgs) == {r \in MovedRepos : w.home[r] \in orgs}
LayersIn(w, o) == UNION {w.layers[r] : r \in In(w, {o})}

\* getOrgUsage, getUserUsage: every organization counts a blob it shares once.
StorageOf(w, orgs) == Cardinality(UNION {{o} \X LayersIn(w, o) : o \in orgs})

\* The organization's own limit governs it alone, else its owner's pool.
checkRepoQuota(w, pending) ==
    IF w.orgRepos # Unlimited THEN Cardinality(In(w, {Target})) + pending < w.orgRepos
    ELSE w.userRepos = Unlimited \/ Cardinality(In(w, w.owns)) + pending < w.userRepos
checkStorageQuota(w, additional) ==
    IF w.orgBytes # Unlimited THEN StorageOf(w, {Target}) + additional <= w.orgBytes
    ELSE w.userBytes = Unlimited \/ StorageOf(w, w.owns) + additional <= w.userBytes

\* repositoryBytesNewToOrg that counts layers moved before it again.
repositoryBytesNewToOrg_All(w, r, exclude) ==
    Cardinality(w.layers[r] \ LayersIn(w, Target))

repositoryBytesNewToOrg(w, r, exclude) ==
    Cardinality(w.layers[r] \ (LayersIn(w, Target) \cup UNION {w.layers[s] : s \in exclude}))

----------------------------------------------------------------------------
(* lib/repo-move.ts *)

SameName(w, r, s) == r = s \/ {r, s} \subseteq w.namesakes
newBatchContext == [ids |-> {}, bytes |-> 0]

\* The checks in their order; the answer is "ok" or the code of the first that
\* fails.
planRepositoryMove(w, r, batch) ==
    LET new == repositoryBytesNewToOrg(w, r, batch.ids)
    IN  CASE w.home[r] = Target -> "same-organization"
          [] w.home[r] # Target /\ w.home[r] \in w.proxies -> "source-proxy"
          [] w.home[r] \notin w.proxies \cup {Target} /\ Target \in w.proxies -> "target-proxy"
          [] OTHER ->
             IF \E s \in In(w, {Target}) \cup batch.ids : SameName(w, r, s) THEN "name-taken"
             ELSE IF ~checkRepoQuota(w, Cardinality(batch.ids)) THEN "repository-quota"
             ELSE IF ~checkStorageQuota(w, new + batch.bytes) THEN "storage-quota"
             ELSE "ok"

applyToBatch(w, batch, r, code) ==
    IF code # "ok" THEN batch
    ELSE [ids |-> batch.ids \cup {r}, bytes |-> batch.bytes + repositoryBytesNewToOrg(w, r, batch.ids)]

\* planBulkMove: the next plan; previewBulkMove shows them and writes nothing.
planBulkMove ==
    /\ Len(planned) < Len(batchOrder)
    /\ LET r == batchOrder[Len(planned) + 1]
           code == planRepositoryMove(Current, r, accepted)
       IN  planned' = Append(planned, code) /\ accepted' = applyToBatch(Current, accepted, r, code)
    /\ UNCHANGED <<world, batchOrder, home, moved>>

\* moveRepositoryToOrganization: the checks again, without a batch, and the
\* repository's new home.
moveRepositoryToOrganization(r) ==
    LET code == planRepositoryMove(Current, r, newBatchContext)
    IN  moved' = Append(moved, code) /\ home' = IF code = "ok" THEN [home EXCEPT ![r] = Target] ELSE home

\* runBulkMove: one after the other, past a move that throws.
runBulkMove ==
    /\ Len(planned) = Len(batchOrder) /\ Len(moved) < Len(batchOrder)
    /\ \/ moveRepositoryToOrganization(batchOrder[Len(moved) + 1])
       \/ moved' = Append(moved, "failed") /\ home' = home
    /\ UNCHANGED <<world, batchOrder, accepted, planned>>

MovesInit ==
    /\ world \in Pictured
    /\ batchOrder \in {s \in [1..Cardinality(MovedRepos) -> MovedRepos] : IsInjective(s)}
    /\ home = world.home /\ accepted = newBatchContext /\ planned = <<>> /\ moved = <<>>

MovesNext == planBulkMove \/ runBulkMove

MovesSpec == MovesInit /\ [][MovesNext]_movesVars

----------------------------------------------------------------------------

\* The target is measured against the pool of an owner who owns a source, too.
PoolIsShared == (world.orgRepos = Unlimited \/ world.orgBytes = Unlimited) /\ world.owns # {Target}

NoneFailed(n) == \A i \in 1..n : moved[i] # "failed"

\* previewBulkMove, "Everything a run would do": the run moves what the preview
\* said it would, for the reasons it said, until a move throws, unless the
\* owner's pool covers sources as well as the target.
PreviewIsTheRun ==
    ~PoolIsShared => \A n \in 1..Len(moved) : NoneFailed(n) => moved[n] = planned[n]

\* The same without the exception.
PreviewIsAlwaysTheRun ==
    \A n \in 1..Len(moved) : NoneFailed(n) => moved[n] = planned[n]
====
