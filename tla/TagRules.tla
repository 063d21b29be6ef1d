------------------------------ MODULE TagRules ------------------------------
(***************************************************************************)
(* The tags of one repository and the rules that lock them: an immutable   *)
(* tag may not be re-pointed, a protected one may not go, nor the manifest *)
(* it names (internal/store/tagrules.go, internal/api/manifests.go).       *)
(*                                                                         *)
(* A request is a process; each query of the pool is one step.  The        *)
(* transaction of UpsertTagGuarded is two: the SELECT ... FOR UPDATE with  *)
(* the check, which holds a lock on the row it found, and the INSERT with  *)
(* the commit, which waits for a lock of another transaction.  Which tags  *)
(* the rules cover is a parameter (TagGlob is about the patterns).         *)
(***************************************************************************)
EXTENDS FiniteSets

CONSTANTS
    Procs,      \* requests in flight
    Tags,       \* tag names
    Digests,    \* manifests
    Immutable,  \* tags covered by an immutable rule
    Protected,  \* tags covered by a protected rule
    None        \* no tag, digest or process

ASSUME RulesAssumption == Immutable \subseteq Tags /\ Protected \subseteq Tags
ASSUME NoneAssumption == None \notin Procs \cup Tags \cup Digests

VARIABLES
    tags,       \* tags[t]: the manifest that t names, or None
    manifests,  \* manifests of the repository
    lock,       \* lock[t]: the transaction that holds the row of t, or None
    pc, tag, digest,  \* per request: step, tag and manifest
    found       \* per request: what its SELECT ... FOR UPDATE found

procVars == <<pc, tag, digest, found>>
vars == <<tags, manifests, lock, procVars>>

Init ==
    /\ tags = [t \in Tags |-> None]
    /\ manifests = {}
    /\ lock = [t \in Tags |-> None]
    /\ pc = [p \in Procs |-> "idle"]
    /\ tag = [p \in Procs |-> None]
    /\ digest = [p \in Procs |-> None]
    /\ found = [p \in Procs |-> None]

Begin(p, state, t, d) ==
    /\ pc[p] = "idle"
    /\ pc' = [pc EXCEPT ![p] = state]
    /\ tag' = [tag EXCEPT ![p] = t]
    /\ digest' = [digest EXCEPT ![p] = d]
    /\ UNCHANGED found

\* The request ends; a transaction it had open ends with it.
Finish(p) ==
    /\ pc' = [pc EXCEPT ![p] = "idle"]
    /\ tag' = [tag EXCEPT ![p] = None]
    /\ digest' = [digest EXCEPT ![p] = None]
    /\ found' = [found EXCEPT ![p] = None]
    /\ lock' = [t \in Tags |-> IF lock[t] = p THEN None ELSE lock[t]]

\* The immutability check: current is what the tag names now.
MayPoint(t, current, d) == current \in {None, d} \/ t \notin Immutable

\* A row that no transaction but p holds.
Unlocked(t, p) == lock[t] \in {None, p}

-----------------------------------------------------------------------------
(* Pushing *)

\* handleManifestPut: CheckTagImmutable refuses before anything is written.
CheckTagImmutable(p, t, d) ==
    /\ MayPoint(t, tags[t], d)
    /\ Begin(p, "store", t, d)
    /\ UNCHANGED <<tags, manifests, lock>>

\* A push by digest: the manifest is stored and no tag is touched.
PushByDigest(d) ==
    /\ d \notin manifests
    /\ manifests' = manifests \cup {d}
    /\ UNCHANGED <<tags, lock, procVars>>

UpsertManifest(p) ==
    /\ pc[p] = "store"
    /\ manifests' = manifests \cup {digest[p]}
    /\ pc' = [pc EXCEPT ![p] = "select"]
    /\ UNCHANGED <<tags, lock, tag, digest, found>>

\* Mutant: a plain SELECT.
SelectForUpdate_NoLock(p) ==
    /\ pc[p] = "select"
    /\ MayPoint(tag[p], tags[tag[p]], digest[p])
    /\ found' = [found EXCEPT ![p] = tags[tag[p]]]
    /\ pc' = [pc EXCEPT ![p] = "insert"]
    /\ UNCHANGED <<tags, manifests, lock, tag, digest>>

\* UpsertTagGuarded, SELECT ... FOR UPDATE and the second check.  It locks
\* the row if there is one.
SelectForUpdate(p) ==
    /\ pc[p] = "select"
    /\ LET t == tag[p] IN
       /\ Unlocked(t, p)
       /\ IF MayPoint(t, tags[t], digest[p])
          THEN /\ lock' = [lock EXCEPT ![t] = IF tags[t] = None THEN @ ELSE p]
               /\ found' = [found EXCEPT ![p] = tags[t]]
               /\ pc' = [pc EXCEPT ![p] = "insert"]
               /\ UNCHANGED <<tag, digest>>
          ELSE Finish(p)
    /\ UNCHANGED <<tags, manifests>>

\* Mutant: the foreign key of the tag to its manifest is missing.
InsertTag_NoForeignKey(p) ==
    /\ pc[p] = "insert"
    /\ Unlocked(tag[p], p)
    /\ tags' = [tags EXCEPT ![tag[p]] = digest[p]]
    /\ Finish(p)
    /\ UNCHANGED manifests

\* INSERT ... ON CONFLICT DO UPDATE and the commit.  A manifest that has gone
\* meanwhile fails the foreign key.
InsertTag(p) ==
    /\ pc[p] = "insert"
    /\ Unlocked(tag[p], p)
    /\ tags' = IF digest[p] \in manifests
               THEN [tags EXCEPT ![tag[p]] = digest[p]] ELSE tags
    /\ Finish(p)
    /\ UNCHANGED manifests

-----------------------------------------------------------------------------
(* Deleting *)

\* handleManifestDelete by tag: CheckTagDeletable, then the DELETE.
CheckTagDeletable(p, t) ==
    /\ t \notin Protected
    /\ Begin(p, "deleteTag", t, None)
    /\ UNCHANGED <<tags, manifests, lock>>

\* Mutant: the DELETE takes the locked row from under its transaction.
DeleteTag_Forced(p) ==
    /\ pc[p] = "deleteTag"
    /\ tags' = [tags EXCEPT ![tag[p]] = None]
    /\ pc' = [pc EXCEPT ![p] = "idle"]
    /\ tag' = [tag EXCEPT ![p] = None]
    /\ UNCHANGED <<manifests, lock, digest, found>>

DeleteTag(p) ==
    /\ pc[p] = "deleteTag"
    /\ Unlocked(tag[p], p)
    /\ tags' = [tags EXCEPT ![tag[p]] = None]
    /\ Finish(p)
    /\ UNCHANGED manifests

\* By digest: CheckManifestDeletable looks for a protected tag on it ...
CheckManifestDeletable(p, d) ==
    /\ \A t \in Protected : tags[t] # d
    /\ Begin(p, "deleteManifest", None, d)
    /\ UNCHANGED <<tags, manifests, lock>>

\* ... and the DELETE takes every tag of the manifest with it.
DeleteManifest(p) ==
    /\ pc[p] = "deleteManifest"
    /\ \A t \in Tags : tags[t] = digest[p] => Unlocked(t, p)
    /\ manifests' = manifests \ {digest[p]}
    /\ tags' = [t \in Tags |-> IF tags[t] = digest[p] THEN None ELSE tags[t]]
    /\ Finish(p)

\* The connection or the replica is lost: an open transaction is rolled back.
Crash(p) ==
    /\ pc[p] # "idle"
    /\ Finish(p)
    /\ UNCHANGED <<tags, manifests>>

Next ==
    \/ \E p \in Procs, t \in Tags : CheckTagDeletable(p, t)
    \/ \E p \in Procs, d \in Digests :
         \/ CheckManifestDeletable(p, d)
         \/ \E t \in Tags : CheckTagImmutable(p, t, d)
    \/ \E d \in Digests : PushByDigest(d)
    \/ \E p \in Procs :
         \/ UpsertManifest(p)
         \/ SelectForUpdate(p)
         \/ InsertTag(p)
         \/ DeleteTag(p)
         \/ DeleteManifest(p)
         \/ Crash(p)

Spec == Init /\ [][Next]_vars

-----------------------------------------------------------------------------
(* Properties *)

\* The shape of the state; a tag names a manifest of the repository, and a
\* request has the tag and the manifest that its step needs.
TypeOK ==
    /\ tags \in [Tags -> Digests \cup {None}]
    /\ manifests \in SUBSET Digests
    /\ lock \in [Tags -> Procs \cup {None}]
    /\ pc \in [Procs -> {"idle", "store", "select", "insert", "deleteTag", "deleteManifest"}]
    /\ tag \in [Procs -> Tags \cup {None}]
    /\ digest \in [Procs -> Digests \cup {None}]
    /\ found \in [Procs -> Digests \cup {None}]
    /\ \A t \in Tags : tags[t] # None => tags[t] \in manifests
    /\ \A p \in Procs :
         /\ pc[p] \in {"store", "select", "insert", "deleteTag"} => tag[p] \in Tags
         /\ pc[p] \in {"store", "select", "insert", "deleteManifest"} => digest[p] \in Digests

\* Between the locking SELECT of a push and its INSERT the row it found is
\* the row that is there: neither a delete of the tag, nor a delete of its
\* manifest, nor another push comes in between.
LockedRowsStay ==
    \A p \in Procs : pc[p] = "insert" /\ found[p] # None =>
      lock[tag[p]] = p /\ tags[tag[p]] = found[p]

Repointed(t) == tags[t] # None /\ tags'[t] \notin {None, tags[t]}

\* "once the tag exists it cannot be re-pointed at a different image"
\* (README.md:1255), "concurrent pushes cannot race past" the check
\* (manifests.go:197).
ImmutableTagsStay == [][\A t \in Immutable : ~Repointed(t)]_vars

\* The same, but for a push that found no row to lock: a tag that was there
\* when the push looked is never re-pointed by it.
RepointedByFirstPush(t) == \E p \in Procs : pc[p] = "insert" /\ tag[p] = t /\ found[p] = None
FoundImmutableTagsStay == [][\A t \in Immutable : Repointed(t) => RepointedByFirstPush(t)]_vars

\* "the tag cannot be deleted, and neither can the image it names"
\* (README.md:1263).
ProtectedTagsStay ==
    [][\A t \in Protected : tags[t] # None => tags'[t] # None]_vars
=============================================================================
