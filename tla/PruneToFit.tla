----------------------------- MODULE PruneToFit -----------------------------
(***************************************************************************)
(* planPruneToFit (web/src/lib/quota-enforce-shared.ts): which tags and    *)
(* images go, oldest first, so that a scope fits its storage limit again,  *)
(* and what becomes of the plan when runQuotaEnforcement carries it out    *)
(* through deleteTag and deleteManifestByDigest.                           *)
(*                                                                         *)
(* The planner is a state machine: removeManifest calls itself, and its    *)
(* calls are a stack.  A step is carried out as it is planned, for neither *)
(* reads what the other writes.                                            *)
(*                                                                         *)
(* A picture is what loadScope reads of one repository.  Manifests and     *)
(* tags are numbered in the order they were pushed.  An image has a blob   *)
(* of its own and may use layers that others use too; an index has         *)
(* children and no blobs.  Blobs are of one unit.                          *)
(***************************************************************************)
EXTENDS Integers, Sequences, FiniteSets

CONSTANTS
    Manifests,  \* images, indexes and referrers
    PicTags,    \* tags
    Layers,     \* blobs that images may share
    Sizes       \* storage limits

ASSUME PruneAssumption ==
    /\ Manifests \subseteq Nat \ {0} /\ IsFiniteSet(Manifests)
    /\ PicTags \subseteq Nat
    /\ Layers \cap Manifests = {} /\ IsFiniteSet(Layers)

VARIABLES
    picture,    \* what loadScope has read
    candidates, \* the leftovers and
    tagsAhead,  \* the tags that the loops have still to look at
    calls,      \* the calls of removeManifest, the running one last
    plan,       \* the picture as planned: live manifests, removed tags, references to every blob
    outcome     \* the repository when the steps so far are carried out; "needless" (not in the
                \* code): tags that went while it fitted its limit

pruneVars == <<picture, candidates, tagsAhead, calls, plan, outcome>>

NoManifest == 0

Blobs(p, m) == IF p.children[m] # {} THEN {} ELSE {m} \cup p.layers[m]
PicBlobs == Manifests \cup Layers

tagsOf(p, s, m) == {t \in PicTags \ s.removed : p.names[t] = m}
liveParents(p, s, m) == {a \in s.live : m \in p.children[a]}
liveReferrers(p, s, m) == {a \in s.live : p.subject[a] = m}
isProtected(p, s, m) == tagsOf(p, s, m) \cap p.protected # {}

\* The bytes of the blobs that are referred to.
usage(s) == Cardinality({b \in PicBlobs : s.refs[b] > 0})
Fits == usage(plan) <= picture.limit

\* What a manifest refers to, and what goes with it.
RefersTo(p) == [m \in Manifests |-> p.children[m] \cup ({p.subject[m]} \ {NoManifest})]
HeldBy(p) == [m \in Manifests |-> p.children[m] \cup {b \in Manifests : p.subject[b] = m}]

Acyclic(edges) ==
    \A S \in SUBSET Manifests : S # {} => \E m \in S : \A a \in S : m \notin edges[a]

\* What those in ms lead to, themselves included.
Reached(edges, ms) ==
    {m \in Manifests :
        \A S \in SUBSET Manifests : ms \subseteq S /\ (\A a \in S : edges[a] \subseteq S) => m \in S}

\* A digest covers the digests it refers to, so there are no cycles.
Graphs ==
    {g \in [children : [Manifests -> SUBSET Manifests], subject : [Manifests -> Manifests \cup {NoManifest}]] :
        Acyclic(RefersTo(g))}

----------------------------------------------------------------------------
(* Carrying a step out: deleteTag and deleteManifestByDigest with         *)
(* manifestDeleteBlocker; a step that is refused is reported and the      *)
(* others go on.                                                          *)

StoredBlobs(p, ms) == Cardinality(UNION {Blobs(p, m) : m \in ms})

Accepts(p, r, step) ==
    IF step[1] = "tag" THEN step[2] \notin r.removed \cup p.protected
    ELSE step[2] \in r.live /\ liveParents(p, r, step[2]) = {} /\ ~isProtected(p, r, step[2])

Carry(p, r, step) ==
    IF ~Accepts(p, r, step) THEN [r EXCEPT !.refused = @ \cup {step}]
    ELSE IF step[1] = "tag"
         THEN [r EXCEPT !.removed = @ \cup {step[2]},
                        !.needless = IF StoredBlobs(p, r.live) <= p.limit THEN @ \cup {step[2]} ELSE @]
         ELSE [r EXCEPT !.live = @ \ {step[2]}, !.removed = @ \cup tagsOf(p, r, step[2])]

----------------------------------------------------------------------------
(* The plan. *)

References(p) == [b \in PicBlobs |-> Cardinality({m \in Manifests : b \in Blobs(p, m)})]
Begun(p) == [live |-> Manifests, removed |-> {}, refs |-> References(p)]

\* What no tag, index or subject holds, as of the beginning.
leftovers(p) ==
    {m \in Manifests : /\ tagsOf(p, Begun(p), m) = {} /\ liveParents(p, Begun(p), m) = {}
                       /\ p.subject[m] \notin Manifests}

PlanBegins ==
    /\ candidates = leftovers(picture)
    /\ tagsAhead = PicTags
    /\ calls = <<>>
    /\ plan = Begun(picture)
    /\ outcome = [live |-> Manifests, removed |-> {t \in PicTags : picture.names[t] = NoManifest},
                  refused |-> {}, needless |-> {}]

PruneInit ==
    /\ \E g \in Graphs :
         \E layers \in [Manifests -> SUBSET Layers] :
            /\ \A m \in Manifests : g.children[m] # {} => layers[m] = {}
            /\ picture \in [children : {g.children}, subject : {g.subject}, layers : {layers},
                            names : [PicTags -> Manifests \cup {NoManifest}], protected : SUBSET PicTags, limit : Sizes]
    /\ PlanBegins

Oldest(x, S) == x \in S /\ \A y \in S : x <= y

\* A call of removeManifest for m: nothing if it is gone already.
removeManifest(stack, m) ==
    IF m \notin plan.live THEN stack
    ELSE Append(stack, [image |-> m, referrers |-> liveReferrers(picture, plan, m),
                        children |-> picture.children[m], dropped |-> FALSE])

\* Phase 1: a leftover.
RemoveLeftover(m) ==
    /\ calls = <<>> /\ ~Fits
    /\ Oldest(m, candidates)
    /\ candidates' = candidates \ {m}
    /\ calls' = removeManifest(calls, m)
    /\ UNCHANGED <<picture, tagsAhead, plan, outcome>>

\* Phase 2: a tag.  One that is protected, or names an image that a protected
\* one names, stays.
Spared(t) ==
    picture.names[t] = NoManifest \/ t \in picture.protected \/ isProtected(picture, plan, picture.names[t])

KeepTag(t) ==
    /\ calls = <<>> /\ ~Fits /\ candidates = {}
    /\ Oldest(t, tagsAhead)
    /\ Spared(t)
    /\ tagsAhead' = tagsAhead \ {t}
    /\ UNCHANGED <<picture, candidates, calls, plan, outcome>>

\* Mutant: an index may still list the image.
RemoveTag_Parents(t) ==
    /\ calls = <<>> /\ ~Fits /\ candidates = {}
    /\ Oldest(t, tagsAhead)
    /\ ~Spared(t)
    /\ tagsAhead' = tagsAhead \ {t}
    /\ plan' = [plan EXCEPT !.removed = @ \cup {t}]
    /\ outcome' = Carry(picture, outcome, <<"tag", t>>)
    /\ calls' = LET m == picture.names[t]
                IN  IF tagsOf(picture, plan', m) = {} THEN removeManifest(calls, m) ELSE calls
    /\ UNCHANGED <<picture, candidates>>

\* The others go, and the image with its last one.
RemoveTag(t) ==
    /\ calls = <<>> /\ ~Fits /\ candidates = {}
    /\ Oldest(t, tagsAhead)
    /\ ~Spared(t)
    /\ tagsAhead' = tagsAhead \ {t}
    /\ plan' = [plan EXCEPT !.removed = @ \cup {t}]
    /\ outcome' = Carry(picture, outcome, <<"tag", t>>)
    /\ calls' = LET m == picture.names[t]
                IN  IF tagsOf(picture, plan', m) = {} /\ liveParents(picture, plan, m) = {}
                    THEN removeManifest(calls, m) ELSE calls
    /\ UNCHANGED <<picture, candidates>>

\* The running call, and those that wait for it.
Running == calls[Len(calls)]
Waiting == SubSeq(calls, 1, Len(calls) - 1)

\* Referrers first.
RemoveReferrer(r) ==
    /\ calls # <<>>
    /\ Oldest(r, Running.referrers)
    /\ calls' = removeManifest([calls EXCEPT ![Len(calls)].referrers = @ \ {r}], r)
    /\ UNCHANGED <<picture, candidates, tagsAhead, plan, outcome>>

\* Then the manifest itself,
DropManifest ==
    /\ calls # <<>> /\ ~Running.dropped /\ Running.referrers = {}
    /\ calls' = [calls EXCEPT ![Len(calls)].dropped = TRUE]
    /\ plan' = [plan EXCEPT !.live = @ \ {Running.image},
                            !.refs = [b \in PicBlobs |-> IF b \in Blobs(picture, Running.image) THEN @[b] - 1 ELSE @[b]]]
    /\ outcome' = Carry(picture, outcome, <<"manifest", Running.image>>)
    /\ UNCHANGED <<picture, candidates, tagsAhead>>

\* and then the children that nothing else needs.
RemoveChild(c) ==
    /\ calls # <<>> /\ Running.dropped
    /\ Oldest(c, Running.children)
    /\ LET rest == [calls EXCEPT ![Len(calls)].children = @ \ {c}]
       IN  calls' = IF liveParents(picture, plan, c) # {} \/ tagsOf(picture, plan, c) # {} THEN rest
                    ELSE removeManifest(rest, c)
    /\ UNCHANGED <<picture, candidates, tagsAhead, plan, outcome>>

RemovalReturns ==
    /\ calls # <<>> /\ Running.dropped /\ Running.children = {}
    /\ calls' = Waiting
    /\ UNCHANGED <<picture, candidates, tagsAhead, plan, outcome>>

PruneNext ==
    \/ \E m \in Manifests : RemoveLeftover(m) \/ RemoveReferrer(m) \/ RemoveChild(m)
    \/ \E t \in PicTags : KeepTag(t) \/ RemoveTag(t)
    \/ DropManifest \/ RemovalReturns

PruneSpec == PruneInit /\ [][PruneNext]_pruneVars

\* The plan is complete: both loops are through, or broke off.
Finished == calls = <<>> /\ (Fits \/ (candidates = {} /\ tagsAhead = {}))

----------------------------------------------------------------------------
(* Properties. *)

PictureType ==
    [children : [Manifests -> SUBSET Manifests], subject : [Manifests -> Manifests \cup {NoManifest}],
     layers : [Manifests -> SUBSET Layers], names : [PicTags -> Manifests \cup {NoManifest}],
     protected : SUBSET PicTags, limit : Sizes]

Calls == [image : Manifests, referrers : SUBSET Manifests, children : SUBSET Manifests, dropped : BOOLEAN]

PruneTypeOK ==
    /\ picture \in PictureType
    /\ candidates \subseteq Manifests /\ tagsAhead \subseteq PicTags
    /\ calls \in Seq(Calls)
    /\ plan \in [live : SUBSET Manifests, removed : SUBSET PicTags, refs : [PicBlobs -> Int]]
    /\ outcome \in [live : SUBSET Manifests, removed : SUBSET PicTags, needless : SUBSET PicTags,
                    refused : SUBSET ({"tag", "manifest"} \X (PicTags \cup Manifests))]

\* The planner has its blind spots: a protected tag on a referrer (see
\* ProtectedImagesStay), a manifest that would take itself with it (an index
\* that is attached, directly or through others, to one of its own children,
\* or two indexes each attached to a child of the other), and a member of an
\* index that is attached to something outside it.
Ordinary(p) ==
    /\ \A t \in p.protected : p.names[t] # NoManifest => p.subject[p.names[t]] = NoManifest
    /\ Acyclic(HeldBy(p))
    /\ \A m \in Manifests : \A c \in p.children[m] : {p.subject[c]} \ {NoManifest} \subseteq p.children[m]

\* planPruneToFit, "In execution order": no step is refused when its turn comes,
\* be it for an index that is still there, a protected tag, or an image that is
\* gone already; only the tag of a referrer that went with its subject is asked
\* for in vain.
StepsAreAccepted ==
    \A step \in outcome.refused :
        step[1] = "tag" /\ picture.subject[picture.names[step[2]]] \in Manifests

\* What protected tags name, and what that holds.
KeptByTags(p) == Reached(HeldBy(p), {p.names[t] : t \in p.protected} \ {NoManifest})

\* A plan can be carried out as it stands; the bytes it promises are the bytes
\* stored; no tag goes once the scope fits; and in the end the scope fits its
\* limit, or all that is left belongs to protected tags ("unmet").
PlanFits ==
    Ordinary(picture) =>
        /\ StepsAreAccepted
        /\ usage(plan) = StoredBlobs(picture, outcome.live)
        /\ outcome.needless = {}
        /\ Finished => (Fits \/ outcome.live \subseteq KeptByTags(picture))

\* The header of quota-enforce-shared.ts: "Protected tags (tag rules) and the
\* images they name are never touched."
ProtectedImagesStay ==
    \A t \in picture.protected : picture.names[t] # NoManifest => picture.names[t] \in plan.live
=============================================================================
