------------------------------ MODULE BlobStore ------------------------------
(***************************************************************************)
(* What registryd keeps of an image: blob content in the storage backend,  *)
(* and in Postgres the blobs table, the links of repositories to blobs     *)
(* (repository_blobs) and the manifests with their references.  Uploads,   *)
(* cross-repository mounts and manifest pushes add to it; blob deletes,    *)
(* repository deletes, garbage collection and the storage verifier take    *)
(* away (internal/api, internal/store/store.go, internal/storagetools).    *)
(*                                                                         *)
(* A handler is a process; every transaction and every call to the storage *)
(* driver is one step, but that a handler's first reads (repository, blob  *)
(* links, references) are one step together.  Ages are kept as far as the  *)
(* grace period tells them apart: a row, a link or an object is old once   *)
(* the period has passed since it was created.                             *)
(***************************************************************************)
EXTENDS FiniteSets

CONSTANTS
    Procs,      \* handlers in flight
    Repos,      \* repositories
    Blobs,      \* blob digests
    Manifests,  \* manifest digests
    Layers,     \* Layers[m]: the blobs manifest m references
    NoRepo,     \* the repository of a handler whose repository was deleted
    NoItem,     \* the digest of a handler that has none
    Cleaners    \* what takes away: a subset of {"gc", "delete", "verify"}

ASSUME LayersAssumption == Layers \in [Manifests -> SUBSET Blobs]
ASSUME NoRepoAssumption == NoRepo \notin Repos
ASSUME CleanersAssumption == Cleaners \subseteq {"gc", "delete", "verify"}

VARIABLES
    content,     \* digests held by the storage driver
    contentOld,  \* ... whose object is older than the grace period
    rows,        \* the blobs table
    rowsOld,     \* ... rows older than the grace period
    links,       \* repository_blobs
    linksOld,    \* ... links older than the grace period
    manifests,   \* manifests, with their manifest_refs
    pc, repo, item, todo, \* per handler: step, repository, digest, digests left
    aged,        \* per handler: listed objects older than the grace period
    raced        \* history: digests that were pushed and cleaned at the same time

storeVars == <<content, contentOld>>
tableVars == <<rows, rowsOld, links, linksOld, manifests>>
procVars == <<pc, repo, item, todo, aged>>
vars == <<storeVars, tableVars, procVars, raced>>

\* Handlers that add, and handlers that take away.
WriterStates == {"put", "link", "mount", "manifest"}
CleanerStates == {"unlink", "gcRows", "remove", "walk", "orphans"}

Init ==
    /\ content = {} /\ contentOld = {}
    /\ rows = {} /\ rowsOld = {}
    /\ links = {} /\ linksOld = {}
    /\ manifests = {}
    /\ pc = [p \in Procs |-> "idle"]
    /\ repo = [p \in Procs |-> NoRepo]
    /\ item = [p \in Procs |-> NoItem]
    /\ todo = [p \in Procs |-> {}]
    /\ aged = [p \in Procs |-> {}]
    /\ raced = {}

\* manifest_refs: some manifest of repository r references blob b.
Referenced(r, b) == \E m \in Manifests : <<r, m>> \in manifests /\ b \in Layers[m]

Linked(b) == \E r \in Repos : <<r, b>> \in links

MayClean(p, cleaner) == cleaner \in Cleaners /\ pc[p] = "idle"

Begin(p, state, r, i) ==
    /\ pc' = [pc EXCEPT ![p] = state]
    /\ repo' = [repo EXCEPT ![p] = r]
    /\ item' = [item EXCEPT ![p] = i]
    /\ UNCHANGED <<todo, aged>>

Finish(p) ==
    /\ pc' = [pc EXCEPT ![p] = "idle"]
    /\ repo' = [repo EXCEPT ![p] = NoRepo]
    /\ item' = [item EXCEPT ![p] = NoItem]
    /\ todo' = [todo EXCEPT ![p] = {}]
    /\ aged' = [aged EXCEPT ![p] = {}]

Goto(p, state) ==
    /\ pc' = [pc EXCEPT ![p] = state]
    /\ UNCHANGED <<repo, item, todo, aged>>

\* The digests a push is about, and those a cleaner may take away.
Wants(p) ==
    IF pc[p] \in {"put", "link", "mount"} THEN {item[p]}
    ELSE IF pc[p] = "manifest" THEN Layers[item[p]] ELSE {}

Cleans(p) ==
    IF pc[p] = "unlink" THEN {item[p]}
    ELSE IF pc[p] \in CleanerStates THEN todo[p] ELSE {}

\* A push of these digests begins, or their cleaning (history).
PushBegins(digests) ==
    raced' = raced \cup {b \in digests : \E q \in Procs : b \in Cleans(q)}

CleaningBegins(digests) ==
    raced' = raced \cup {b \in digests : \E q \in Procs : b \in Wants(q)}

-----------------------------------------------------------------------------
(* Pushing *)

\* commitUpload: Stat decides whether the verified upload must be stored or
\* is content the backend already holds.  (A digest mismatch changes nothing.)
CommitStat(p, r, b) ==
    /\ pc[p] = "idle"
    /\ Begin(p, IF b \in content THEN "link" ELSE "put", r, b)
    /\ PushBegins({b})
    /\ UNCHANGED <<storeVars, tableVars>>

\* driver.Put publishes the blob once it is complete and verified.
CommitPut(p) ==
    /\ pc[p] = "put"
    /\ content' = content \cup {item[p]}
    /\ contentOld' = contentOld \ {item[p]}
    /\ Goto(p, "link")
    /\ UNCHANGED <<tableVars, raced>>

\* Mutant: content that was there before needs no row.
UpsertBlob_LinkOnly(p) ==
    /\ pc[p] = "link"
    /\ repo[p] # NoRepo
    /\ links' = links \cup {<<repo[p], item[p]>>}
    /\ Finish(p)
    /\ UNCHANGED <<storeVars, rows, rowsOld, linksOld, manifests, raced>>

\* UpsertBlob, one transaction: INSERT the row, INSERT the link, each ON
\* CONFLICT DO NOTHING, so neither created_at is refreshed.  The repository
\* may be gone, which fails the foreign key and the request.
UpsertBlob(p) ==
    /\ pc[p] = "link"
    /\ IF repo[p] = NoRepo
       THEN UNCHANGED tableVars
       ELSE /\ rows' = rows \cup {item[p]}
            /\ links' = links \cup {<<repo[p], item[p]>>}
            /\ UNCHANGED <<rowsOld, linksOld, manifests>>
    /\ Finish(p)
    /\ UNCHANGED <<storeVars, raced>>

\* tryMount: the blob must be linked to the source repository ...
MountCheck(p, from, r, b) ==
    /\ pc[p] = "idle"
    /\ from # r
    /\ <<from, b>> \in links
    /\ Begin(p, "mount", r, b)
    /\ PushBegins({b})
    /\ UNCHANGED <<storeVars, tableVars>>

\* ... and is linked to the target.  A blob row that has gone meanwhile fails
\* the foreign key: the client is told to upload.
LinkBlob(p) ==
    /\ pc[p] = "mount"
    /\ IF repo[p] = NoRepo \/ item[p] \notin rows
       THEN UNCHANGED links
       ELSE links' = links \cup {<<repo[p], item[p]>>}
    /\ Finish(p)
    /\ UNCHANGED <<storeVars, rows, rowsOld, linksOld, manifests, raced>>

\* handleManifestPut: every blob the manifest references must be linked ...
ManifestCheck(p, r, m) ==
    /\ pc[p] = "idle"
    /\ \A b \in Layers[m] : <<r, b>> \in links
    /\ Begin(p, "manifest", r, m)
    /\ PushBegins(Layers[m])
    /\ UNCHANGED <<storeVars, tableVars>>

\* ... and the manifest is stored with its references, which have no foreign
\* key to the blobs.
UpsertManifest(p) ==
    /\ pc[p] = "manifest"
    /\ IF repo[p] = NoRepo
       THEN UNCHANGED manifests
       ELSE manifests' = manifests \cup {<<repo[p], item[p]>>}
    /\ Finish(p)
    /\ UNCHANGED <<storeVars, rows, rowsOld, links, linksOld, raced>>

-----------------------------------------------------------------------------
(* Taking away *)

\* DELETE of a manifest by digest: its references go with it.
DeleteManifest(r, m) ==
    /\ <<r, m>> \in manifests
    /\ manifests' = manifests \ {<<r, m>>}
    /\ UNCHANGED <<storeVars, rows, rowsOld, links, linksOld, procVars, raced>>

\* The web app deletes a repository: links, manifests and references cascade.
\* A handler still working on it will find its repository id unknown.
DeleteRepository(r) ==
    /\ \E x \in links \cup manifests : x[1] = r
    /\ links' = {x \in links : x[1] # r}
    /\ linksOld' = {x \in linksOld : x[1] # r}
    /\ manifests' = {x \in manifests : x[1] # r}
    /\ repo' = [q \in Procs |-> IF repo[q] = r THEN NoRepo ELSE repo[q]]
    /\ UNCHANGED <<storeVars, rows, rowsOld, pc, item, todo, aged, raced>>

\* Mutant: the reference count is not looked at.
BlobDelete_Unchecked(p, r, b) ==
    /\ MayClean(p, "delete")
    /\ Begin(p, "unlink", r, b)
    /\ CleaningBegins({b})
    /\ UNCHANGED <<storeVars, tableVars>>

\* handleBlobDelete refuses (409) while a manifest of the repository uses the
\* blob ...
BlobDeleteCheck(p, r, b) ==
    /\ MayClean(p, "delete")
    /\ ~Referenced(r, b)
    /\ Begin(p, "unlink", r, b)
    /\ CleaningBegins({b})
    /\ UNCHANGED <<storeVars, tableVars>>

\* Mutant: the row goes with the first link, and the other links with it.
UnlinkBlob_First(p) ==
    /\ pc[p] = "unlink"
    /\ <<repo[p], item[p]>> \in links
    /\ links' = {l \in links : l[2] # item[p]}
    /\ linksOld' = {l \in linksOld : l[2] # item[p]}
    /\ rows' = rows \ {item[p]}
    /\ rowsOld' = rowsOld \ {item[p]}
    /\ pc' = [pc EXCEPT ![p] = "remove"]
    /\ todo' = [todo EXCEPT ![p] = {item[p]}]
    /\ UNCHANGED <<repo, item, aged, manifests, storeVars, raced>>

\* ... then unlinks it; the last link takes the blob row with it, and the
\* content is removed afterwards.
UnlinkBlob(p) ==
    /\ pc[p] = "unlink"
    /\ LET l == <<repo[p], item[p]>>
           last == \A r \in Repos \ {repo[p]} : <<r, item[p]>> \notin links IN
       IF l \notin links
       THEN /\ Finish(p)
            /\ UNCHANGED tableVars
       ELSE /\ links' = links \ {l}
            /\ linksOld' = linksOld \ {l}
            /\ IF last
               THEN /\ rows' = rows \ {item[p]}
                    /\ rowsOld' = rowsOld \ {item[p]}
                    /\ pc' = [pc EXCEPT ![p] = "remove"]
                    /\ todo' = [todo EXCEPT ![p] = {item[p]}]
                    /\ UNCHANGED <<repo, item, aged>>
               ELSE /\ Finish(p)
                    /\ UNCHANGED <<rows, rowsOld>>
            /\ UNCHANGED manifests
    /\ UNCHANGED <<storeVars, raced>>

\* CollectGarbage, first statement: drop old links that no manifest of their
\* repository references.  The cutoff is taken here, for both statements.
GcUnlink(p) ==
    /\ MayClean(p, "gc")
    /\ LET garbage == {l \in linksOld : ~Referenced(l[1], l[2])} IN
       /\ links' = links \ garbage
       /\ linksOld' = linksOld \ garbage
    /\ pc' = [pc EXCEPT ![p] = "gcRows"]
    /\ todo' = [todo EXCEPT ![p] = rowsOld]
    /\ CleaningBegins(rowsOld)
    /\ UNCHANGED <<storeVars, rows, rowsOld, manifests, repo, item, aged>>

\* Second statement: delete old blob rows without a link, and collect their
\* digests.
GcRows(p) ==
    /\ pc[p] = "gcRows"
    /\ LET orphans == {b \in rowsOld \cap todo[p] : ~Linked(b)} IN
       /\ rows' = rows \ orphans
       /\ rowsOld' = rowsOld \ orphans
       /\ todo' = [todo EXCEPT ![p] = orphans]
    /\ pc' = [pc EXCEPT ![p] = "remove"]
    /\ UNCHANGED <<storeVars, links, linksOld, manifests, repo, item, aged, raced>>

\* driver.Delete of each digest, by the blob delete, by handleGC and by the
\* verifier; a failure is logged and the object stays.  The verifier keeps
\* what was modified, by its listing, less than the grace period ago.
RemoveContent(p) ==
    /\ pc[p] \in {"remove", "orphans"}
    /\ \E b \in todo[p] :
         /\ \/ /\ pc[p] = "remove" \/ b \in aged[p]
               /\ content' = content \ {b}
               /\ contentOld' = contentOld \ {b}
            \/ UNCHANGED storeVars
         /\ todo' = [todo EXCEPT ![p] = @ \ {b}]
    /\ UNCHANGED <<tableVars, pc, repo, item, aged, raced>>

RemoveDone(p) ==
    /\ pc[p] \in {"remove", "orphans"}
    /\ todo[p] = {}
    /\ Finish(p)
    /\ UNCHANGED <<storeVars, tableVars, raced>>

\* storage verify --delete-orphans lists the objects and their ages first ...
VerifyList(p) ==
    /\ MayClean(p, "verify")
    /\ pc' = [pc EXCEPT ![p] = "walk"]
    /\ todo' = [todo EXCEPT ![p] = content]
    /\ aged' = [aged EXCEPT ![p] = contentOld]
    /\ CleaningBegins(content)
    /\ UNCHANGED <<storeVars, tableVars, repo, item>>

\* Mutant: only rows with a link protect their object.
VerifyWalk_Linked(p) ==
    /\ pc[p] = "walk"
    /\ pc' = [pc EXCEPT ![p] = "orphans"]
    /\ todo' = [todo EXCEPT ![p] = {b \in @ : ~Linked(b)}]
    /\ UNCHANGED <<storeVars, tableVars, repo, item, aged, raced>>

\* ... then walks the blobs table; an object without a row is an orphan.
VerifyWalk(p) ==
    /\ pc[p] = "walk"
    /\ pc' = [pc EXCEPT ![p] = "orphans"]
    /\ todo' = [todo EXCEPT ![p] = @ \ rows]
    /\ UNCHANGED <<storeVars, tableVars, repo, item, aged, raced>>

\* The grace period passes.
Tick ==
    /\ contentOld # content \/ rowsOld # rows \/ linksOld # links
    /\ contentOld' = content
    /\ rowsOld' = rows
    /\ linksOld' = links
    /\ aged' = [p \in Procs |-> IF pc[p] \in {"walk", "orphans"} THEN todo[p] ELSE {}]
    /\ UNCHANGED <<content, rows, links, manifests, pc, repo, item, todo, raced>>

\* The replica stops, a statement or a Put fails: the handler ends here.
Crash(p) ==
    /\ pc[p] # "idle"
    /\ Finish(p)
    /\ UNCHANGED <<storeVars, tableVars, raced>>

Next ==
    \/ \E p \in Procs, r \in Repos, b \in Blobs :
         \/ CommitStat(p, r, b)
         \/ BlobDeleteCheck(p, r, b)
         \/ \E from \in Repos : MountCheck(p, from, r, b)
    \/ \E p \in Procs, r \in Repos, m \in Manifests : ManifestCheck(p, r, m)
    \/ \E p \in Procs :
         \/ CommitPut(p)
         \/ UpsertBlob(p)
         \/ LinkBlob(p)
         \/ UpsertManifest(p)
         \/ UnlinkBlob(p)
         \/ GcUnlink(p)
         \/ GcRows(p)
         \/ RemoveContent(p)
         \/ RemoveDone(p)
         \/ VerifyList(p)
         \/ VerifyWalk(p)
         \/ Crash(p)
    \/ \E r \in Repos, m \in Manifests : DeleteManifest(r, m)
    \/ \E r \in Repos : DeleteRepository(r)
    \/ Tick

Spec == Init /\ [][Next]_vars

-----------------------------------------------------------------------------
(* Properties *)

\* The shape of the state: links are to blobs with a row, only what is there
\* can be old, and a handler has an item of the kind its step is about.
TypeOK ==
    /\ content \in SUBSET Blobs
    /\ contentOld \in SUBSET content
    /\ rows \in SUBSET Blobs
    /\ rowsOld \in SUBSET rows
    /\ links \in SUBSET (Repos \X rows)
    /\ linksOld \in SUBSET (links \cap (Repos \X rowsOld))
    /\ manifests \in SUBSET (Repos \X Manifests)
    /\ pc \in [Procs -> {"idle"} \cup WriterStates \cup CleanerStates]
    /\ repo \in [Procs -> Repos \cup {NoRepo}]
    /\ item \in [Procs -> Blobs \cup Manifests \cup {NoItem}]
    /\ todo \in [Procs -> SUBSET Blobs]
    /\ aged \in [Procs -> SUBSET Blobs]
    /\ raced \in SUBSET Blobs
    /\ \A p \in Procs :
         /\ pc[p] \in {"put", "link", "mount", "unlink"} => item[p] \in Blobs
         /\ pc[p] = "manifest" => item[p] \in Manifests

\* "garbage collection removes only content that no remaining manifest
\* references" (README.md:1182): whatever was deleted, every blob of every
\* manifest is still linked to its repository and can be read, unless it was
\* cleaned while it was pushed.
ManifestsComplete ==
    \A x \in manifests : \A b \in Layers[x[2]] \ raced :
      <<x[1], b>> \in links /\ b \in rows /\ b \in content

\* The same without the exception.
AllManifestsComplete ==
    \A x \in manifests : \A b \in Layers[x[2]] :
      <<x[1], b>> \in links /\ b \in rows /\ b \in content

\* A row of the blobs table is "content the registry expects its storage
\* backend to hold" (store.go:646): a push of the digest is deduplicated
\* against it and a linked blob is served from it.
RowsHaveContent == rows \ raced \subseteq content

\* "Never pull a layer out from under manifests that still use it"
\* (blobs.go:107): no step unlinks a blob from a repository in which a
\* manifest references it, but for the deletion of the repository itself.
LayersStayUnderManifests ==
    [][\A l \in links : l \notin links' /\ l[2] \notin raced
         => ~(Referenced(l[1], l[2]) /\ Referenced(l[1], l[2])')]_vars
=============================================================================
