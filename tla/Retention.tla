---- MODULE Retention ----
(***************************************************************************)
(* Retention policies: an organization's and a repository's                *)
(* (web/src/app/actions/retention.ts), what a policy selects               *)
(* (web/src/lib/retention-shared.ts), and runs that plan first and delete  *)
(* one by one afterwards (web/src/lib/retention.ts), while people push and *)
(* delete.  One repository; a run by the schedule and one by hand may      *)
(* overlap.  A keep pattern selects a set of tags.                         *)
(***************************************************************************)
EXTENDS Naturals, Sequences, FiniteSets, Functions

CONSTANTS
    RepoTags,       \* names of tags
    RepoImages,     \* digests; no index and no referrer among them
    RetentionRuns,  \* runs in progress
    RetentionSettings,  \* the policies a form may save
    Shielded,       \* tags a protected rule covers
    NoPolicy, NoImage

\* A policy: switched on, the newest tags to keep (0: no such rule), tags to keep
\* by pattern, whether old tags go, whether old untagged images go.
Settings == [enabled : BOOLEAN, keepLast : Nat, keep : SUBSET RepoTags, older : BOOLEAN, untagged : BOOLEAN]

ASSUME RetentionAssumption ==
    /\ RetentionSettings \subseteq Settings /\ IsFiniteSet(RepoTags)
    /\ NoImage \notin RepoImages /\ NoPolicy \notin Settings

VARIABLES
    names,      \* tags: the image each names, or NoImage
    newer,      \* the tags with a later updated_at than each has
    agedTags,   \* the tags older than deleteOlderThanDays
    held,       \* manifests there are
    agedImages, \* the ones older than deleteUntaggedAfterDays
    policies,   \* retention_policies: the organization's row and the repository's
    sweep       \* runs: the policy and the steps left; fresh (not in the code): pushed since the plan was
                \* made; deleted (not in the code): somebody else deleted a tag that the plan keeps

retentionVars == <<names, newer, agedTags, held, agedImages, policies, sweep>>

NoSweep == [policy |-> NoPolicy, tags |-> <<>>, images |-> {}, fresh |-> {}, deleted |-> FALSE]
Sweeps == [policy : RetentionSettings \cup {NoPolicy}, tags : Seq(RepoTags), images : SUBSET RepoImages,
           fresh : SUBSET (RepoTags \cup RepoImages), deleted : BOOLEAN]

Named == {t \in RepoTags : names[t] # NoImage}

RetentionTypeOK ==
    /\ names \in [RepoTags -> held \cup {NoImage}] /\ held \subseteq RepoImages /\ agedImages \subseteq held
    /\ newer \in [RepoTags -> SUBSET Named]
    /\ \A t \in RepoTags : IF t \in Named THEN t \notin newer[t] ELSE newer[t] = {}
    /\ \A t, u \in Named : t # u => (t \in newer[u] <=> u \notin newer[t])
    /\ \A t, u \in Named : t \in newer[u] => newer[t] \subseteq newer[u]
    /\ agedTags \subseteq Named /\ \A t \in agedTags, u \in Named : t \in newer[u] => u \in agedTags
    /\ policies \in [{"organization", "repository"} -> RetentionSettings \cup {NoPolicy}]
    /\ sweep \in [RetentionRuns -> Sweeps]

RetentionInit ==
    /\ names = [t \in RepoTags |-> NoImage] /\ newer = [t \in RepoTags |-> {}] /\ agedTags = {} /\ held = {} /\ agedImages = {}
    /\ policies = [s \in {"organization", "repository"} |-> NoPolicy]
    /\ sweep = [r \in RetentionRuns |-> NoSweep]

----------------------------------------------------------------------------

pickEffective == IF policies["repository"] # NoPolicy THEN policies["repository"] ELSE policies["organization"]

Newest(n) == {t \in Named : Cardinality(newer[t]) < n}
Untagged == {d \in held : \A t \in RepoTags : names[t] # d}

\* PlannedTag that lets the age decide alone.
PlannedTag_Since(p, t) ==
    /\ t \notin Shielded \cup p.keep
    /\ p.keepLast # 0 \/ p.older
    /\ IF p.older THEN t \in agedTags ELSE t \notin Newest(p.keepLast)

\* planRetention: the tags to delete, newest first, and the untagged images.
NewestFirst(tags) ==
    {order \in [1..Cardinality(tags) -> tags] : \A i, j \in DOMAIN order : i < j => order[i] \in newer[order[j]]}
PlannedTag(p, t) ==
    /\ t \notin Shielded \cup p.keep
    /\ p.keepLast # 0 \/ p.older
    /\ t \notin Newest(p.keepLast)
    /\ p.older => t \in agedTags
planRetention(p) ==
    [tags |-> {t \in Named : PlannedTag(p, t)},
     images |-> IF p.untagged THEN Untagged \cap agedImages ELSE {}]

Without(ts) ==
    /\ names' = [t \in RepoTags |-> IF t \in ts THEN NoImage ELSE names[t]]
    /\ newer' = [t \in RepoTags |-> IF t \in ts THEN {} ELSE newer[t] \ ts]
    /\ agedTags' = agedTags \ ts

\* A deletion of tags is somebody else's to every run but the one that does it.
\* One that the run's plan has, too, changes nothing for the plan.
Notice(s, ts) == IF s # NoSweep /\ ~(ts \subseteq Range(s.tags)) THEN [s EXCEPT !.deleted = TRUE] ELSE s

----------------------------------------------------------------------------
(* People. *)

Push(t, d) ==
    /\ names' = [names EXCEPT ![t] = d] /\ held' = held \cup {d}
    /\ newer' = [u \in RepoTags |-> IF u \in Named \ {t} THEN newer[u] \cup {t} ELSE {}]
    /\ agedTags' = agedTags \ {t}
    /\ sweep' = [r \in RetentionRuns |-> IF sweep[r] = NoSweep THEN NoSweep
                                         ELSE [sweep[r] EXCEPT !.fresh = @ \cup {t, d}]]
    /\ UNCHANGED <<agedImages, policies>>

Untag(t) ==
    /\ names[t] # NoImage /\ t \notin Shielded
    /\ Without({t})
    /\ sweep' = [r \in RetentionRuns |-> Notice(sweep[r], {t})]
    /\ UNCHANGED <<held, agedImages, policies>>

Ages ==
    /\ \/ \E t \in Named \ agedTags :
              /\ \A u \in Named : t \in newer[u] => u \in agedTags
              /\ agedTags' = agedTags \cup {t} /\ UNCHANGED agedImages
       \/ \E d \in held \ agedImages : agedImages' = agedImages \cup {d} /\ UNCHANGED agedTags
    /\ UNCHANGED <<names, newer, held, policies, sweep>>

\* saveRetentionPolicy; "inherit" drops the repository's row.
saveRetentionPolicy(scope) ==
    /\ \E p \in RetentionSettings \cup (IF scope = "repository" THEN {NoPolicy} ELSE {}) :
           policies' = [policies EXCEPT ![scope] = p]
    /\ UNCHANGED <<names, newer, agedTags, held, agedImages, sweep>>

----------------------------------------------------------------------------
(* A run. *)

\* planRepository under the policy that governs the repository, when it is on.
runRetention(r) ==
    /\ sweep[r] = NoSweep /\ pickEffective # NoPolicy
    /\ pickEffective.enabled
    /\ \E order \in NewestFirst(planRetention(pickEffective).tags) :
           sweep' = [sweep EXCEPT ![r] = [policy |-> pickEffective, tags |-> order, images |-> planRetention(pickEffective).images,
                                          fresh |-> {}, deleted |-> FALSE]]
    /\ UNCHANGED <<names, newer, agedTags, held, agedImages, policies>>

Swept(r, rest, ts) == sweep' = [q \in RetentionRuns |-> IF q = r THEN rest ELSE Notice(sweep[q], ts)]

\* deleteTag without re-pointing latest; a tag that is gone or a registry that
\* fails is reported, and the run goes on.
deletePlannedTag(r) ==
    LET t == Head(sweep[r].tags)
        rest == [sweep[r] EXCEPT !.tags = Tail(@)]
    IN  /\ sweep[r].tags # <<>>
        /\ \/ Swept(r, rest, {}) /\ UNCHANGED <<names, newer, agedTags>>
           \/ names[t] # NoImage /\ Without({t}) /\ Swept(r, rest, {t})
        /\ UNCHANGED <<held, agedImages, policies>>

\* deleteManifestByDigest, after the tags: refused while a protected tag names
\* the image; its tags go with it.
deletePlannedManifest(r) ==
    /\ sweep[r].policy # NoPolicy /\ sweep[r].tags = <<>>
    /\ \E d \in sweep[r].images :
           LET its == {t \in RepoTags : names[t] = d}
               rest == [sweep[r] EXCEPT !.images = @ \ {d}]
           IN  \/ Swept(r, rest, {}) /\ UNCHANGED <<names, newer, agedTags, held, agedImages>>
               \/ /\ d \in held /\ its \cap Shielded = {}
                  /\ Without(its) /\ held' = held \ {d} /\ agedImages' = agedImages \ {d}
                  /\ Swept(r, rest, its)
    /\ UNCHANGED policies

RetentionEnds(r) ==
    /\ sweep[r].policy # NoPolicy /\ sweep[r].tags = <<>> /\ sweep[r].images = {}
    /\ sweep' = [sweep EXCEPT ![r] = NoSweep]
    /\ UNCHANGED <<names, newer, agedTags, held, agedImages, policies>>

RetentionNext ==
    \/ \E t \in RepoTags : Untag(t) \/ \E d \in RepoImages : Push(t, d)
    \/ Ages
    \/ \E scope \in {"organization", "repository"} : saveRetentionPolicy(scope)
    \/ \E r \in RetentionRuns :
           runRetention(r) \/ deletePlannedTag(r) \/ deletePlannedManifest(r) \/ RetentionEnds(r)

RetentionSpec == RetentionInit /\ [][RetentionNext]_retentionVars

----------------------------------------------------------------------------

Gone == Named \ Named'
Sweeping(r) == /\ <<sweep'[r].tags, sweep'[r].images>> # <<sweep[r].tags, sweep[r].images>>
               /\ sweep[r].policy # NoPolicy /\ ~sweep[r].deleted

\* planRetention, "Candidates survive when ... they are among the `keepLast`
\* most recently pushed tags": also at the moment of the deletion, with pushes
\* and another run in between, a tag that goes is none of the newest, and no
\* image goes that a tag names, unless they were pushed again since the plan
\* was made or somebody else deleted a tag that the plan keeps.
NewestTagsSurvive == [][
    \A r \in RetentionRuns : Sweeping(r) =>
        /\ Gone \cap Newest(sweep[r].policy.keepLast) \subseteq sweep[r].fresh
        /\ \A d \in held \ held' : d \in Untagged \/ d \in sweep[r].fresh
    ]_retentionVars

\* The same with no such exception: "Keep the N most recently pushed tags."
\* (retention-shared.ts).
PushedTagsSurvive == [][
    \A r \in RetentionRuns : Sweeping(r) => Gone \cap Newest(sweep[r].policy.keepLast) = {}
    ]_retentionVars
====
