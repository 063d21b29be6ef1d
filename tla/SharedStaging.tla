---------------------------- MODULE SharedStaging ----------------------------
(***************************************************************************)
(* Shared upload staging of registryd (STORAGE_STAGING=shared): session    *)
(* rows in Postgres (internal/store/uploads.go), chunk objects in the      *)
(* storage backend (internal/storage/shared.go), and the HTTP handlers     *)
(* that drive them from any replica (internal/api/uploads.go).             *)
(*                                                                         *)
(* A member of Requests is one request handler, or one run of the sweep,   *)
(* on some replica.  Every statement sent to Postgres and every call to    *)
(* the object store is one step; anything may happen between two of them,  *)
(* a crash of the replica included.                                        *)
(***************************************************************************)
EXTENDS Naturals, Sequences, FiniteSets

CONSTANTS
    Requests,         \* request handlers and sweeps in flight
    Sessions,         \* upload session ids (uuid.NewString, never reused)
    Keys,             \* chunk keys <<session id, suffix>>; bounds the appends
    Sizes,            \* possible byte counts of a request body
    NoSession,        \* the session of a process that serves none
    AmbiguousErrors   \* may a statement fail after it has committed?

ASSUME NoSessionAssumption == NoSession \notin Sessions
ASSUME KeysAssumption == \A k \in Keys : k[1] \in Sessions
ASSUME SizesAssumption == Sizes \subseteq Nat
ASSUME AmbiguousAssumption == AmbiguousErrors \in BOOLEAN

VARIABLES
    created,  \* session ids ever handed out (history)
    live,     \* sessions with a row in upload_sessions
    offset,   \* upload_sessions.offset
    chunks,   \* upload_sessions.chunks, in append order
    expired,  \* rows whose expires_at has passed
    objects,  \* keys stored under UploadsPrefix
    used,     \* chunk keys ever generated (history: the nonce is random)
    lost,     \* keys whose row update committed although an error came back
    phase,    \* what each process does next
    sess,     \* the session its request names
    expected, \* the offset it read when it checked the session
    keysLeft  \* the chunk keys it is storing, reading, listing or deleting

sessionVars == <<created, live, offset, chunks, expired>>
objVars == <<objects, used, lost>>
requestVars == <<phase, sess, expected, keysLeft>>
stagingVars == <<sessionVars, objVars, requestVars>>

\* SessionOfKey reads the session id back from the key.
SessionOfKey(k) == k[1]

\* chunkKey: the key carries the id of its session, and a random suffix that
\* "keeps two replicas that race" from writing one key.
chunkKey(s) == {k \in Keys \ used : SessionOfKey(k) = s}

\* An entry of the row's chunk list.  "from" is not stored by the program: it
\* is the offset the request had verified when its bytes were staged.
Chunk == [key : Keys, from : Nat, size : Sizes]

\* The keys each row records.
recorded == [s \in Sessions |-> {chunks[s][i].key : i \in DOMAIN chunks[s]}]

States == {"idle", "checked", "put", "row", "purge",
           "sweepPurge", "listed", "read"}

StagingInit ==
    /\ created = {}
    /\ live = {}
    /\ offset = [s \in Sessions |-> 0]
    /\ chunks = [s \in Sessions |-> << >>]
    /\ expired = {}
    /\ objects = {}
    /\ used = {}
    /\ lost = {}
    /\ phase = [p \in Requests |-> "idle"]
    /\ sess = [p \in Requests |-> NoSession]
    /\ expected = [p \in Requests |-> 0]
    /\ keysLeft = [p \in Requests |-> {}]

\* The request is answered, or the sweep over.
EndRequest(p) ==
    /\ phase' = [phase EXCEPT ![p] = "idle"]
    /\ sess' = [sess EXCEPT ![p] = NoSession]
    /\ expected' = [expected EXCEPT ![p] = 0]
    /\ keysLeft' = [keysLeft EXCEPT ![p] = {}]

\* DELETE FROM upload_sessions: the rows of S disappear.
DeleteRows(S) ==
    /\ live' = live \ S
    /\ expired' = expired \ S
    /\ offset' = [s \in Sessions |-> IF s \in S THEN 0 ELSE offset[s]]
    /\ chunks' = [s \in Sessions |-> IF s \in S THEN << >> ELSE chunks[s]]
    /\ UNCHANGED created

-----------------------------------------------------------------------------
(* Requests on a session *)

\* POST .../blobs/uploads/: Create inserts the row with a fresh id.
Create(s) ==
    /\ s \notin created
    /\ created' = created \cup {s}
    /\ live' = live \cup {s}
    /\ UNCHANGED <<offset, chunks, expired, objVars, requestVars>>

\* Every request on a session first reads it; its Content-Range, if any, must
\* start at the offset read here.  A missing session is answered 404.
CheckSession(p, s) ==
    /\ phase[p] = "idle"
    /\ s \in live
    /\ phase' = [phase EXCEPT ![p] = "checked"]
    /\ sess' = [sess EXCEPT ![p] = s]
    /\ expected' = [expected EXCEPT ![p] = offset[s]]
    /\ UNCHANGED <<sessionVars, objVars, keysLeft>>

\* Mutant: the row is updated by id alone, without the offset.
RowUnmovedById(p) == sess[p] \in live

\* The row still stands where the request saw it (WHERE id AND offset).
RowUnmoved(p) == sess[p] \in live /\ offset[sess[p]] = expected[p]

\* Append reads the row again: gone is ErrUploadNotFound, moved on is
\* ErrOffsetMismatch, and the request ends.
AppendRefused(p) ==
    /\ phase[p] = "checked"
    /\ ~RowUnmoved(p)
    /\ EndRequest(p)
    /\ UNCHANGED <<sessionVars, objVars>>

\* Otherwise it picks a key nobody else has and starts streaming the body.
BeginAppend(p) ==
    /\ phase[p] = "checked"
    /\ RowUnmoved(p)
    /\ \E k \in chunkKey(sess[p]) :
         /\ used' = used \cup {k}
         /\ keysLeft' = [keysLeft EXCEPT ![p] = {k}]
    /\ phase' = [phase EXCEPT ![p] = "put"]
    /\ UNCHANGED <<sessionVars, objects, lost, sess, expected>>

\* Mutant: the row is advanced before the bytes are stored.
PutObjectLater(p) ==
    /\ phase[p] = "put"
    /\ phase' = [phase EXCEPT ![p] = "row"]
    /\ UNCHANGED <<sessionVars, objVars, sess, expected, keysLeft>>

\* PutObject succeeds: "the row is only advanced once the bytes are stored".
PutObject(p) ==
    /\ phase[p] = "put"
    /\ objects' = objects \cup keysLeft[p]
    /\ phase' = [phase EXCEPT ![p] = "row"]
    /\ UNCHANGED <<sessionVars, used, lost, sess, expected, keysLeft>>

\* PutObject fails, with or without having stored the object; the handler
\* deletes its key whichever it was.
PutObjectFails(p) ==
    /\ phase[p] = "put"
    /\ objects' \in {objects, objects \cup keysLeft[p]}
    /\ phase' = [phase EXCEPT ![p] = "purge"]
    /\ UNCHANGED <<sessionVars, used, lost, sess, expected, keysLeft>>

\* UPDATE ... SET offset = offset + size, chunks = chunks || chunk, expires_at.
Advance(p) ==
    \E k \in keysLeft[p], n \in Sizes :
      LET s == sess[p] IN
      /\ offset' = [offset EXCEPT ![s] = @ + n]
      /\ chunks' = [chunks EXCEPT
                      ![s] = Append(@, [key |-> k, from |-> expected[p], size |-> n])]
      /\ expired' = expired \ {s}
      /\ UNCHANGED <<created, live>>

\* AppendUploadChunk, the optimistic lock: the row advances when its offset
\* is still the expected one.
AppendUploadChunk(p) ==
    /\ phase[p] = "row"
    /\ RowUnmoved(p)
    /\ Advance(p)
    /\ EndRequest(p)
    /\ UNCHANGED objVars

\* The lock is lost, or the session gone: the request drops its own copy.
AppendLostRace(p) ==
    /\ phase[p] = "row"
    /\ ~RowUnmoved(p)
    /\ phase' = [phase EXCEPT ![p] = "purge"]
    /\ UNCHANGED <<sessionVars, objVars, sess, expected, keysLeft>>

\* The statement returns an error (connection lost, request cancelled).  The
\* handler deletes its object; the update may have been applied all the same.
AppendRowError(p) ==
    /\ phase[p] = "row"
    /\ \/ UNCHANGED <<sessionVars, lost>>
       \/ /\ AmbiguousErrors
          /\ RowUnmoved(p)
          /\ Advance(p)
          /\ lost' = lost \cup keysLeft[p]
    /\ phase' = [phase EXCEPT ![p] = "purge"]
    /\ UNCHANGED <<objects, used, sess, expected, keysLeft>>

\* Mutant: the chunks are deleted first, the row only at the end.
RemoveChunksFirst(p) ==
    /\ phase[p] = "checked"
    /\ sess[p] \in live
    /\ keysLeft' = [keysLeft EXCEPT ![p] = recorded[sess[p]]]
    /\ phase' = [phase EXCEPT ![p] = "purge"]
    /\ UNCHANGED <<sessionVars, objVars, sess, expected>>

\* DELETE ... RETURNING, by a cancel, a commit or a discarded upload; the
\* returned row says which chunks to delete afterwards.
Remove(p) ==
    /\ phase[p] = "checked"
    /\ DeleteRows({sess[p]})
    /\ keysLeft' = [keysLeft EXCEPT ![p] = recorded[sess[p]]]
    /\ phase' = [phase EXCEPT ![p] = "purge"]
    /\ UNCHANGED <<objVars, sess, expected>>

\* Open reads the row and streams its chunks, each opened only when reached.
Open(p) ==
    /\ phase[p] = "checked"
    /\ sess[p] \in live
    /\ keysLeft' = [keysLeft EXCEPT ![p] = recorded[sess[p]]]
    /\ phase' = [phase EXCEPT ![p] = "read"]
    /\ UNCHANGED <<sessionVars, objVars, sess, expected>>

\* chunkReader.Read opens its next chunk.
ReadChunk(p) ==
    /\ phase[p] = "read"
    /\ \E k \in keysLeft[p] \cap objects : keysLeft' = [keysLeft EXCEPT ![p] = @ \ {k}]
    /\ UNCHANGED <<sessionVars, objVars, phase, sess, expected>>

\* The stream ends after the last chunk, or fails on one that is not there.
ReadEnds(p) ==
    /\ phase[p] = "read"
    /\ keysLeft[p] = {} \/ ~(keysLeft[p] \subseteq objects)
    /\ EndRequest(p)
    /\ UNCHANGED <<sessionVars, objVars>>

-----------------------------------------------------------------------------
(* Deleting chunks, sweeping, and the world around *)

\* deleteChunks: a delete that fails is logged and left to a later sweep.
DeleteObject(p, k) ==
    /\ phase[p] \in {"purge", "sweepPurge"}
    /\ k \in keysLeft[p]
    /\ objects' = objects \ {k}
    /\ keysLeft' = [keysLeft EXCEPT ![p] = @ \ {k}]
    /\ UNCHANGED <<sessionVars, used, lost, phase, sess, expected>>

DeleteObjectFails(p) ==
    /\ phase[p] \in {"purge", "sweepPurge"}
    /\ \E k \in keysLeft[p] : keysLeft' = [keysLeft EXCEPT ![p] = @ \ {k}]
    /\ UNCHANGED <<sessionVars, objVars, phase, sess, expected>>

PurgeDone(p) ==
    /\ phase[p] = "purge"
    /\ keysLeft[p] = {}
    /\ EndRequest(p)
    /\ UNCHANGED <<sessionVars, objVars>>

\* Mutant: with no expired session there is nothing to sweep.
SweepExpiredOnly(p) ==
    /\ phase[p] = "idle"
    /\ expired # {}
    /\ DeleteRows(expired)
    /\ keysLeft' = [keysLeft EXCEPT ![p] = UNION {recorded[s] : s \in expired}]
    /\ phase' = [phase EXCEPT ![p] = "sweepPurge"]
    /\ UNCHANGED <<objVars, sess, expected>>

\* Sweep, first statement: every expired row goes, its chunks are deleted.
SweepExpired(p) ==
    /\ phase[p] = "idle"
    /\ DeleteRows(expired)
    /\ keysLeft' = [keysLeft EXCEPT ![p] = UNION {recorded[s] : s \in expired}]
    /\ phase' = [phase EXCEPT ![p] = "sweepPurge"]
    /\ UNCHANGED <<objVars, sess, expected>>

\* Then it lists the stored objects ...
SweepList(p) ==
    /\ phase[p] = "sweepPurge"
    /\ keysLeft[p] = {}
    /\ keysLeft' = [keysLeft EXCEPT ![p] = objects]
    /\ phase' = [phase EXCEPT ![p] = IF objects = {} THEN "idle" ELSE "listed"]
    /\ UNCHANGED <<sessionVars, objVars, sess, expected>>

\* Mutant: an object that no row records is taken for an orphan.
SweepUnrecorded(p) ==
    /\ phase[p] = "listed"
    /\ keysLeft' = [keysLeft EXCEPT ![p] = {k \in @ : k \notin recorded[SessionOfKey(k)]}]
    /\ phase' = [phase EXCEPT ![p] = "purge"]
    /\ UNCHANGED <<sessionVars, objVars, sess, expected>>

\* ... and only then the live ids; what belongs to none of them is deleted.
SweepIds(p) ==
    /\ phase[p] = "listed"
    /\ keysLeft' = [keysLeft EXCEPT ![p] = {k \in @ : SessionOfKey(k) \notin live}]
    /\ phase' = [phase EXCEPT ![p] = "purge"]
    /\ UNCHANGED <<sessionVars, objVars, sess, expected>>

\* Mutant: a row that is already gone expires.
ExpireGone(s) ==
    /\ s \in created \ expired
    /\ expired' = expired \cup {s}
    /\ UNCHANGED <<created, live, offset, chunks, objVars, requestVars>>

\* A session idle for UPLOAD_SESSION_TTL: its expires_at passes.
Expire(s) ==
    /\ s \in live \ expired
    /\ expired' = expired \cup {s}
    /\ UNCHANGED <<created, live, offset, chunks, objVars, requestVars>>

\* The replica stops, or the request is abandoned, between two steps.
ReplicaCrash(p) ==
    /\ phase[p] # "idle"
    /\ EndRequest(p)
    /\ UNCHANGED <<sessionVars, objVars>>

\* What a request or a sweep in progress does next.
Step(p) ==
    \/ AppendRefused(p)
    \/ BeginAppend(p)
    \/ PutObject(p)
    \/ PutObjectFails(p)
    \/ AppendUploadChunk(p)
    \/ AppendLostRace(p)
    \/ AppendRowError(p)
    \/ Remove(p)
    \/ Open(p)
    \/ ReadChunk(p)
    \/ ReadEnds(p)
    \/ \E k \in keysLeft[p] : DeleteObject(p, k)
    \/ DeleteObjectFails(p)
    \/ PurgeDone(p)
    \/ SweepList(p)
    \/ SweepIds(p)

StagingNext ==
    \/ \E s \in Sessions : Create(s) \/ Expire(s)
    \/ \E p \in Requests, s \in Sessions : CheckSession(p, s)
    \/ \E p \in Requests : SweepExpired(p) \/ Step(p) \/ ReplicaCrash(p)

StagingSpec == StagingInit /\ [][StagingNext]_stagingVars

\* Handlers run to their end; the web's scheduled gc job keeps starting
\* sweeps, and a sweep that keeps being started gets through in the end: its
\* queries and its deletes do not fail for ever.
StagingFairness ==
    \A p \in Requests :
      /\ WF_stagingVars(Step(p))
      /\ SF_stagingVars(SweepExpired(p))
      /\ SF_stagingVars(SweepList(p))
      /\ SF_stagingVars(SweepIds(p))
      /\ \A k \in Keys : SF_stagingVars(DeleteObject(p, k))

StagingFairSpec == StagingSpec /\ StagingFairness

-----------------------------------------------------------------------------
(* Properties *)

StagingTypeOK ==
    /\ created \in SUBSET Sessions
    /\ live \in SUBSET created
    /\ offset \in [Sessions -> Nat]
    /\ chunks \in [Sessions -> Seq(Chunk)]
    /\ expired \in SUBSET live
    /\ objects \in SUBSET Keys
    /\ used \in SUBSET Keys
    /\ lost \in SUBSET Keys
    /\ phase \in [Requests -> States]
    /\ sess \in [Requests -> Sessions \cup {NoSession}]
    /\ expected \in [Requests -> Nat]
    /\ keysLeft \in [Requests -> SUBSET Keys]
    /\ \A p \in Requests :
         phase[p] \in {"checked", "put", "row", "read"} => sess[p] \in created

\* The Staging contract of Append: bytes are staged at the very offset their
\* request had verified, so a session's chunks follow each other without a
\* gap or an overlap, up to the recorded offset, whoever raced to append.
StagedInOrder ==
    \A s \in Sessions :
      LET c == chunks[s] IN
      /\ c = << >> => offset[s] = 0
      /\ c # << >> => /\ c[1].from = 0
                      /\ offset[s] = c[Len(c)].from + c[Len(c)].size
      /\ \A i \in 1 .. Len(c) - 1 : c[i + 1].from = c[i].from + c[i].size

\* No cleanup (a lost race, a removed session, an expiry, an orphan sweep)
\* deletes a chunk that a live session records; the one exception is a row
\* update that was reported as failed and had committed all the same.
RecordedChunksStored ==
    \A s \in live : recorded[s] \subseteq objects \cup lost

\* "the row is only advanced once the bytes are safely stored"
\* (shared.go:120): every chunk a live session records can be read.
RowsOnlyNameStoredChunks ==
    \A s \in live : recorded[s] \subseteq objects

\* A reader that has begun to stream a session finds each chunk it has still
\* to open, unless the session was removed under it.
ReaderFindsChunks ==
    \A p \in Requests :
      phase[p] = "read" /\ sess[p] \in live => keysLeft[p] \subseteq objects \cup lost

(* The inductive invariant behind the two properties above. *)

Writing(p) == phase[p] \in {"put", "row"}
Purging(p) == phase[p] \in {"purge", "sweepPurge"}

\* Only keys that were generated are stored, recorded or worked on, each
\* under its own session, and that session had been created.
KeysKnown ==
    /\ objects \subseteq used
    /\ lost \subseteq used
    /\ \A p \in Requests : keysLeft[p] \subseteq used
    /\ \A k \in used : SessionOfKey(k) \in created
    /\ \A s \in Sessions : \A k \in recorded[s] : k \in used /\ SessionOfKey(k) = s

\* The key an append is writing is its own: it is not recorded, no other
\* append writes it, and nobody is deleting it while its session lives.
WritersOwnTheirKey ==
    \A p \in Requests : Writing(p) =>
      \A k \in keysLeft[p] :
        /\ SessionOfKey(k) = sess[p]
        /\ k \notin recorded[sess[p]]
        /\ \A q \in Requests \ {p} :
             /\ Writing(q) => k \notin keysLeft[q]
             /\ Purging(q) /\ sess[p] \in live => k \notin keysLeft[q]

\* Between PutObject and the row update the object stays.
StoredBeforeRecorded ==
    \A p \in Requests : phase[p] = "row" /\ sess[p] \in live => keysLeft[p] \subseteq objects

\* A chunk that is about to be deleted is not recorded by a live session,
\* unless its row update was reported as failed.
PurgesAreSafe ==
    \A p \in Requests : Purging(p) =>
      \A k \in keysLeft[p] :
        SessionOfKey(k) \in live => k \in lost \/ k \notin recorded[SessionOfKey(k)]

\* A reader still has to open only chunks that its session records.
ReadersFollowRow ==
    \A p \in Requests :
      phase[p] = "read" /\ sess[p] \in live => keysLeft[p] \subseteq recorded[sess[p]]

StorageInv ==
    /\ KeysKnown
    /\ WritersOwnTheirKey
    /\ StoredBeforeRecorded
    /\ PurgesAreSafe
    /\ ReadersFollowRow
    /\ RecordedChunksStored

\* Seen through the object store, the sessions are the append-only logs the
\* Staging interface promises; a chunk that cannot be read is a hole.
Hole == << >>

Log == INSTANCE UploadLog WITH
    status <- [s \in Sessions |-> IF s \in live THEN "open"
                                  ELSE IF s \in created THEN "closed"
                                  ELSE "unborn"],
    content <- [s \in Sessions |->
                  [i \in 1 .. Len(chunks[s]) |->
                     IF chunks[s][i].key \in objects
                     THEN chunks[s][i].key ELSE Hole]]

\* Shared staging implements the Staging contract.
ImplementsLog == Log!Spec

\* Sweep: content no session claims is removed in the end, be it left by a
\* crash between the object and the row, or by a delete that failed.
OrphansAreSwept ==
    \A k \in Keys :
      (k \in objects /\ SessionOfKey(k) \notin live) ~> (k \notin objects)
=============================================================================
