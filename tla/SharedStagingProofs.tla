------------------------- MODULE SharedStagingProofs -------------------------
(***************************************************************************)
(* Proofs about SharedStaging, for any number of processes, sessions and   *)
(* chunks.                                                                 *)
(***************************************************************************)
EXTENDS SharedStaging, TLAPS

\* The entries of a chunk list are chunks, so their keys are keys.
LEMMA ChunkListKeys ==
  ASSUME NEW c \in Seq(Chunk)
  PROVE  /\ \A i \in 1 .. Len(c) : c[i] \in Chunk
         /\ {c[i].key : i \in DOMAIN c} \in SUBSET Keys
<1>1. DOMAIN c = 1 .. Len(c) /\ \A i \in 1 .. Len(c) : c[i] \in Chunk
  OBVIOUS
<1>2. \A x \in Chunk : x.key \in Keys
  BY DEF Chunk
<1> QED
  BY <1>1, <1>2

\* Every variable keeps its type: rows belong to ids that were handed out,
\* only rows expire, and a chunk list holds chunks.
THEOREM TypeCorrect == StagingSpec => []StagingTypeOK
<1> USE NoSessionAssumption, SizesAssumption, KeysAssumption DEF StagingTypeOK
<1>1. StagingInit => StagingTypeOK
  BY DEF StagingInit, States
<1>2. StagingTypeOK /\ [StagingNext]_stagingVars => StagingTypeOK'
  <2> SUFFICES ASSUME StagingTypeOK, [StagingNext]_stagingVars PROVE StagingTypeOK'
    OBVIOUS
  <2> USE DEF sessionVars, objVars, requestVars, States
  <2>a. \A s \in Sessions : recorded[s] \in SUBSET Keys
    <3> TAKE s \in Sessions
    <3>1. chunks[s] \in Seq(Chunk)
      OBVIOUS
    <3> QED
      BY <3>1, ChunkListKeys DEF recorded
  <2>1. ASSUME NEW s \in Sessions, Create(s) PROVE StagingTypeOK'
    BY <2>1 DEF Create
  <2>2. ASSUME NEW s \in Sessions, Expire(s) PROVE StagingTypeOK'
    BY <2>2 DEF Expire
  <2>3. ASSUME NEW p \in Requests, NEW s \in Sessions, CheckSession(p, s) PROVE StagingTypeOK'
    BY <2>3 DEF CheckSession
  <2>4. ASSUME NEW p \in Requests, SweepExpired(p) PROVE StagingTypeOK'
    BY <2>4, <2>a DEF SweepExpired, DeleteRows
  <2>5. ASSUME NEW p \in Requests, ReplicaCrash(p) PROVE StagingTypeOK'
    BY <2>5 DEF ReplicaCrash, EndRequest
  <2>6. ASSUME NEW p \in Requests, Step(p) PROVE StagingTypeOK'
    <3>1. CASE AppendRefused(p) BY <3>1 DEF AppendRefused, EndRequest
    <3>2. CASE BeginAppend(p) BY <3>2 DEF BeginAppend, chunkKey
    <3>3. CASE PutObject(p) BY <3>3 DEF PutObject
    <3>4. CASE PutObjectFails(p) BY <3>4 DEF PutObjectFails
    <3>5. ASSUME RowUnmoved(p), Advance(p)
          PROVE /\ created' = created
                /\ live' \in SUBSET created'
                /\ offset' \in [Sessions -> Nat]
                /\ chunks' \in [Sessions -> Seq(Chunk)]
                /\ expired' \in SUBSET live'
      <4>1. PICK k \in keysLeft[p], n \in Sizes :
              /\ offset' = [offset EXCEPT ![sess[p]] = @ + n]
              /\ chunks' = [chunks EXCEPT ![sess[p]] =
                   Append(@, [key |-> k, from |-> expected[p], size |-> n])]
        BY <3>5 DEF Advance
      <4>2. sess[p] \in Sessions /\ expected[p] \in Nat /\ k \in Keys /\ n \in Nat
        BY <3>5, NoSessionAssumption DEF RowUnmoved
      <4>3. [key |-> k, from |-> expected[p], size |-> n] \in Chunk
        BY <4>2 DEF Chunk
      <4>4. chunks' \in [Sessions -> Seq(Chunk)]
        BY <4>1, <4>2, <4>3
      <4>5. offset' \in [Sessions -> Nat]
        BY <4>1, <4>2
      <4> QED
        BY <3>5, <4>4, <4>5 DEF Advance
    <3>6. CASE AppendUploadChunk(p) BY <3>5, <3>6 DEF AppendUploadChunk, EndRequest
    <3>7. CASE AppendLostRace(p) BY <3>7 DEF AppendLostRace
    <3>8. CASE AppendRowError(p)
      <4>1. CASE UNCHANGED <<sessionVars, lost>>
        BY <3>8, <4>1 DEF AppendRowError
      <4>2. CASE RowUnmoved(p) /\ Advance(p) /\ lost' = lost \cup keysLeft[p]
        BY <3>5, <3>8, <4>2 DEF AppendRowError
      <4> QED
        BY <3>8, <4>1, <4>2 DEF AppendRowError
    <3>9. CASE Remove(p) BY <2>a, <3>9 DEF Remove, DeleteRows
    <3>10. CASE Open(p) BY <2>a, <3>10 DEF Open
    <3>11. CASE ReadChunk(p) BY <3>11 DEF ReadChunk
    <3>17. CASE ReadEnds(p) BY <3>17 DEF ReadEnds, EndRequest
    <3>12. CASE \E k \in keysLeft[p] : DeleteObject(p, k) BY <3>12 DEF DeleteObject
    <3>13. CASE DeleteObjectFails(p) BY <3>13 DEF DeleteObjectFails
    <3>14. CASE PurgeDone(p) BY <3>14 DEF PurgeDone, EndRequest
    <3>15. CASE SweepList(p) BY <3>15 DEF SweepList
    <3>16. CASE SweepIds(p) BY <3>16 DEF SweepIds
    <3> QED
      BY <2>6, <3>1, <3>2, <3>3, <3>4, <3>6, <3>7, <3>8, <3>9, <3>10, <3>11,
         <3>12, <3>13, <3>14, <3>15, <3>16, <3>17 DEF Step
  <2>7. CASE UNCHANGED stagingVars
    BY <2>7 DEF stagingVars
  <2> QED
    BY <2>1, <2>2, <2>3, <2>4, <2>5, <2>6, <2>7 DEF StagingNext
<1> QED
  BY <1>1, <1>2, PTL DEF StagingSpec

-----------------------------------------------------------------------------

\* A row records keys.
LEMMA RecordedType ==
  ASSUME StagingTypeOK
  PROVE  recorded \in [Sessions -> SUBSET Keys]
<1>1. \A s \in Sessions : chunks[s] \in Seq(Chunk)
  BY DEF StagingTypeOK
<1> QED
  BY <1>1, ChunkListKeys DEF recorded

\* The row update adds its key to the keys its session records, and touches
\* no other session.
LEMMA AdvanceKeys ==
  ASSUME StagingTypeOK, NEW p \in Requests, RowUnmoved(p), Advance(p)
  PROVE  \E k \in keysLeft[p] :
           recorded' = [recorded EXCEPT ![sess[p]] = @ \cup {k}]
<1>1. sess[p] \in Sessions /\ chunks \in [Sessions -> Seq(Chunk)]
  BY NoSessionAssumption DEF StagingTypeOK, RowUnmoved
<1>2. PICK k \in keysLeft[p], n \in Sizes :
        chunks' = [chunks EXCEPT ![sess[p]] =
                     Append(@, [key |-> k, from |-> expected[p], size |-> n])]
  BY DEF Advance
<1> DEFINE c == chunks[sess[p]]
           e == [key |-> k, from |-> expected[p], size |-> n]
           keys(q) == {q[i].key : i \in DOMAIN q}
<1>3. c \in Seq(Chunk) /\ chunks'[sess[p]] = Append(c, e)
  BY <1>1, <1>2
<1>4. e \in Chunk /\ e.key = k
  BY SizesAssumption DEF Chunk, StagingTypeOK
<1>5. /\ DOMAIN c = 1 .. Len(c)
      /\ DOMAIN Append(c, e) = 1 .. Len(c) + 1
      /\ Len(c) \in Nat
      /\ \A i \in 1 .. Len(c) : Append(c, e)[i] = c[i]
      /\ Append(c, e)[Len(c) + 1] = e
  BY <1>3, <1>4
<1> HIDE DEF c, e
<1>6. keys(Append(c, e)) = keys(c) \cup {k}
  <2>1. ASSUME NEW i \in 1 .. Len(c) + 1
        PROVE Append(c, e)[i].key \in keys(c) \cup {k}
    <3>1. CASE i = Len(c) + 1 BY <3>1, <1>4, <1>5
    <3>2. CASE i \in 1 .. Len(c) BY <3>2, <1>5
    <3> QED BY <3>1, <3>2, <1>5
  <2>2. ASSUME NEW i \in 1 .. Len(c)
        PROVE c[i].key \in keys(Append(c, e))
    BY <1>5
  <2>3. k \in keys(Append(c, e))
    BY <1>4, <1>5
  <2> QED
    BY <1>5, <2>1, <2>2, <2>3
<1>7. recorded'[sess[p]] = recorded[sess[p]] \cup {k}
  BY <1>1, <1>3, <1>6 DEF recorded, c
<1>8. \A s \in Sessions \ {sess[p]} : recorded'[s] = recorded[s]
  BY <1>1, <1>2 DEF recorded
<1> QED
  BY <1>1, <1>7, <1>8 DEF recorded

\* A deleted row records nothing; the other rows keep their chunks.
LEMMA DeleteRowsKeys ==
  ASSUME StagingTypeOK, NEW S \in SUBSET Sessions, DeleteRows(S)
  PROVE  recorded' = [s \in Sessions |-> IF s \in S THEN {} ELSE recorded[s]]
<1>1. \A s \in Sessions : chunks'[s] = IF s \in S THEN << >> ELSE chunks[s]
  BY DEF DeleteRows
<1>2. DOMAIN << >> = {}
  OBVIOUS
<1> QED
  BY <1>1, <1>2 DEF recorded

\* Nothing an ended process was doing matters any more.
LEMMA FinishKeeps ==
  ASSUME StagingTypeOK, StorageInv, NEW p \in Requests, EndRequest(p), UNCHANGED <<sessionVars, objVars>>
  PROVE  StorageInv'
<1>1. recorded' = recorded
  BY DEF recorded, sessionVars
<1>2. /\ \A q \in Requests \ {p} : phase'[q] = phase[q] /\ sess'[q] = sess[q] /\ keysLeft'[q] = keysLeft[q]
      /\ phase'[p] = "idle" /\ keysLeft'[p] = {}
  BY DEF EndRequest, StagingTypeOK
<1>3. KeysKnown'
  BY <1>1, <1>2 DEF StorageInv, KeysKnown, sessionVars, objVars
<1>4. WritersOwnTheirKey'
  BY <1>1, <1>2 DEF StorageInv, WritersOwnTheirKey, Writing, Purging, sessionVars, StagingTypeOK
<1>5. StoredBeforeRecorded' /\ ReadersFollowRow' /\ RecordedChunksStored'
  BY <1>1, <1>2 DEF StorageInv, StoredBeforeRecorded, ReadersFollowRow,
     RecordedChunksStored, sessionVars, objVars, StagingTypeOK
<1>6. PurgesAreSafe'
  BY <1>1, <1>2 DEF StorageInv, PurgesAreSafe, Purging, sessionVars, objVars, StagingTypeOK
<1> QED
  BY <1>3, <1>4, <1>5, <1>6 DEF StorageInv

\* Every step keeps the invariant: this is where two appends, a removal, a
\* sweep and a reader meet on one session.
LEMMA StorageStep ==
  ASSUME StagingTypeOK, StagingTypeOK', StorageInv, [StagingNext]_stagingVars
  PROVE  StorageInv'
<1> USE DEF sessionVars, objVars, requestVars
<1> DEFINE Parts == /\ KeysKnown' /\ WritersOwnTheirKey' /\ StoredBeforeRecorded'
                    /\ PurgesAreSafe' /\ ReadersFollowRow' /\ RecordedChunksStored'
<1>a. Parts => StorageInv'
  BY DEF StorageInv
<1>b. UNCHANGED chunks => recorded' = recorded
  BY DEF recorded
<1>1. ASSUME NEW s \in Sessions, Create(s) PROVE StorageInv'
  <2>1. recorded' = recorded
    BY <1>1, <1>b DEF Create
  <2>2. \A k \in used : SessionOfKey(k) # s
    BY <1>1 DEF Create, StorageInv, KeysKnown
  <2>3. recorded[s] = {}
    BY <2>2 DEF StorageInv, KeysKnown
  <2>4. \A p \in Requests : phase[p] \in {"row", "put", "read"} => sess[p] # s
    BY <1>1 DEF Create, StagingTypeOK
  <2>5. KeysKnown' /\ RecordedChunksStored' /\ StoredBeforeRecorded' /\ ReadersFollowRow'
    BY <1>1, <2>1, <2>3, <2>4
    DEF Create, StorageInv, KeysKnown, StoredBeforeRecorded, ReadersFollowRow,
        RecordedChunksStored
  <2>6. WritersOwnTheirKey'
    BY <1>1, <2>1, <2>4 DEF Create, StorageInv, WritersOwnTheirKey, Writing, Purging
  <2>7. PurgesAreSafe'
    BY <1>1, <2>1, <2>2 DEF Create, StorageInv, KeysKnown, PurgesAreSafe, Purging
  <2> QED
    BY <1>a, <2>5, <2>6, <2>7
<1>2. ASSUME NEW s \in Sessions, Expire(s) PROVE StorageInv'
  BY <1>2, <1>a, <1>b
  DEF Expire, StorageInv, KeysKnown, WritersOwnTheirKey, StoredBeforeRecorded,
      PurgesAreSafe, ReadersFollowRow, RecordedChunksStored, Writing, Purging
<1>3. ASSUME NEW p \in Requests, NEW s \in Sessions, CheckSession(p, s) PROVE StorageInv'
  BY <1>3, <1>a, <1>b
  DEF CheckSession, StorageInv, KeysKnown, WritersOwnTheirKey, StoredBeforeRecorded,
      PurgesAreSafe, ReadersFollowRow, RecordedChunksStored, Writing, Purging, StagingTypeOK
<1>4. ASSUME NEW p \in Requests, ReplicaCrash(p) PROVE StorageInv'
  BY <1>4, FinishKeeps DEF ReplicaCrash
<1>5. ASSUME NEW p \in Requests, SweepExpired(p) PROVE StorageInv'
  <2>1. recorded' = [s \in Sessions |-> IF s \in expired THEN {} ELSE recorded[s]]
    BY <1>5, DeleteRowsKeys DEF SweepExpired, StagingTypeOK
  <2>2. \A k \in keysLeft'[p] : k \in used /\ SessionOfKey(k) \notin live'
    BY <1>5 DEF SweepExpired, DeleteRows, StorageInv, KeysKnown, StagingTypeOK
  <2>3. \A q \in Requests \ {p} : phase'[q] = phase[q] /\ keysLeft'[q] = keysLeft[q]
    BY <1>5 DEF SweepExpired, StagingTypeOK
  <2>4. phase'[p] = "sweepPurge" /\ live' = live \ expired
    BY <1>5 DEF SweepExpired, DeleteRows, StagingTypeOK
  <2> QED
    BY <1>5, <1>a, <2>1, <2>2, <2>3, <2>4
    DEF SweepExpired, DeleteRows, StorageInv, KeysKnown, WritersOwnTheirKey, StoredBeforeRecorded,
        PurgesAreSafe, ReadersFollowRow, RecordedChunksStored, Writing, Purging, StagingTypeOK
<1>6. ASSUME NEW p \in Requests, AppendRefused(p) PROVE StorageInv'
  BY <1>6, FinishKeeps DEF AppendRefused
<1>7. ASSUME NEW p \in Requests, BeginAppend(p) PROVE StorageInv'
  <2>1. recorded' = recorded
    BY <1>7, <1>b DEF BeginAppend
  <2>2. PICK k \in Keys \ used : /\ SessionOfKey(k) = sess[p]
                                 /\ used' = used \cup {k}
                                 /\ keysLeft' = [keysLeft EXCEPT ![p] = {k}]
    BY <1>7 DEF BeginAppend, chunkKey
  <2>3. sess[p] \in created /\ \A q \in Requests : k \notin keysLeft[q]
    BY <1>7, <2>2 DEF BeginAppend, RowUnmoved, StorageInv, KeysKnown, StagingTypeOK
  <2>4. k \notin recorded[sess[p]]
    BY <1>7, <2>2 DEF BeginAppend, StorageInv, KeysKnown, StagingTypeOK
  <2> QED
    BY <1>7, <1>a, <2>1, <2>2, <2>3, <2>4
    DEF BeginAppend, StorageInv, KeysKnown, WritersOwnTheirKey, StoredBeforeRecorded,
        PurgesAreSafe, ReadersFollowRow, RecordedChunksStored, Writing, Purging, StagingTypeOK
<1>8. ASSUME NEW p \in Requests, PutObject(p) PROVE StorageInv'
  BY <1>8, <1>a, <1>b
  DEF PutObject, StorageInv, KeysKnown, WritersOwnTheirKey, StoredBeforeRecorded,
      PurgesAreSafe, ReadersFollowRow, RecordedChunksStored, Writing, Purging, StagingTypeOK
<1>9. ASSUME NEW p \in Requests, PutObjectFails(p) PROVE StorageInv'
  <2>1. recorded' = recorded
    BY <1>9, <1>b DEF PutObjectFails
  <2>2. objects \subseteq objects' /\ objects' \subseteq used
    BY <1>9 DEF PutObjectFails, StorageInv, KeysKnown
  <2>3. \A k \in keysLeft[p] : SessionOfKey(k) = sess[p] /\ k \notin recorded[sess[p]]
    BY <1>9 DEF PutObjectFails, StorageInv, WritersOwnTheirKey, Writing
  <2> QED
    BY <1>9, <1>a, <2>1, <2>2, <2>3
    DEF PutObjectFails, StorageInv, KeysKnown, WritersOwnTheirKey, StoredBeforeRecorded,
        PurgesAreSafe, ReadersFollowRow, RecordedChunksStored, Writing, Purging, StagingTypeOK
<1>10. ASSUME NEW p \in Requests, AppendUploadChunk(p) PROVE StorageInv'
  <2>1. PICK k \in keysLeft[p] : recorded' = [recorded EXCEPT ![sess[p]] = @ \cup {k}]
    BY <1>10, AdvanceKeys DEF AppendUploadChunk
  <2>2. /\ SessionOfKey(k) = sess[p] /\ sess[p] \in live /\ k \in objects /\ k \in used
        /\ \A q \in Requests \ {p} : Writing(q) \/ Purging(q) => k \notin keysLeft[q]
    BY <1>10 DEF AppendUploadChunk, RowUnmoved, StorageInv, WritersOwnTheirKey,
       StoredBeforeRecorded, KeysKnown, Writing, StagingTypeOK
  <2>3. /\ \A q \in Requests \ {p} : phase'[q] = phase[q] /\ sess'[q] = sess[q] /\ keysLeft'[q] = keysLeft[q]
        /\ phase'[p] = "idle" /\ keysLeft'[p] = {}
    BY <1>10 DEF AppendUploadChunk, EndRequest, StagingTypeOK
  <2>4. live' = live /\ created' = created /\ UNCHANGED objVars
    BY <1>10 DEF AppendUploadChunk, Advance
  <2>5. recorded \in [Sessions -> SUBSET Keys]
    BY RecordedType
  <2>6. KeysKnown'
    BY <2>1, <2>2, <2>3, <2>4, <2>5 DEF StorageInv, KeysKnown, StagingTypeOK
  <2>7. WritersOwnTheirKey'
    <3> SUFFICES ASSUME NEW q \in Requests, Writing(q)', NEW l \in keysLeft'[q]
                 PROVE  /\ SessionOfKey(l) = sess'[q]
                        /\ l \notin recorded'[sess'[q]]
                        /\ \A r \in Requests \ {q} :
                             /\ Writing(r)' => l \notin keysLeft'[r]
                             /\ Purging(r)' /\ sess'[q] \in live' => l \notin keysLeft'[r]
      BY DEF WritersOwnTheirKey
    <3>1. q # p /\ Writing(q) /\ l \in keysLeft[q] /\ l # k
      BY <2>2, <2>3 DEF Writing
    <3>2. sess[q] \in Sessions
      BY <3>1 DEF Writing, StagingTypeOK
    <3>3. recorded'[sess[q]] \subseteq recorded[sess[q]] \cup {k}
      BY <2>1, <2>5, <3>2
    <3> QED
      BY <2>3, <2>4, <3>1, <3>3 DEF StorageInv, WritersOwnTheirKey, Writing, Purging
  <2>8. StoredBeforeRecorded' /\ ReadersFollowRow' /\ RecordedChunksStored'
    BY <2>1, <2>2, <2>3, <2>4, <2>5, ZenonT(60)
    DEF StorageInv, StoredBeforeRecorded, ReadersFollowRow, RecordedChunksStored, StagingTypeOK
  <2>9. PurgesAreSafe'
    BY <2>1, <2>2, <2>3, <2>4, <2>5, KeysAssumption, ZenonT(60)
    DEF StorageInv, PurgesAreSafe, Purging, StagingTypeOK, SessionOfKey
  <2> QED
    BY <1>a, <2>6, <2>7, <2>8, <2>9
<1>11. ASSUME NEW p \in Requests, AppendLostRace(p) PROVE StorageInv'
  <2>1. \A k \in keysLeft[p] : SessionOfKey(k) = sess[p] /\ k \notin recorded[sess[p]]
    BY <1>11 DEF AppendLostRace, StorageInv, WritersOwnTheirKey, Writing
  <2> QED
    BY <1>11, <1>a, <1>b, <2>1
    DEF AppendLostRace, StorageInv, KeysKnown, WritersOwnTheirKey, StoredBeforeRecorded,
        PurgesAreSafe, ReadersFollowRow, RecordedChunksStored, Writing, Purging, StagingTypeOK
<1>12. ASSUME NEW p \in Requests, AppendRowError(p) PROVE StorageInv'
  <2>1. \A k \in keysLeft[p] : SessionOfKey(k) = sess[p] /\ k \notin recorded[sess[p]]
    BY <1>12 DEF AppendRowError, StorageInv, WritersOwnTheirKey, Writing
  <2>2. CASE UNCHANGED <<sessionVars, lost>>
    BY <1>12, <1>a, <1>b, <2>1, <2>2
    DEF AppendRowError, StorageInv, KeysKnown, WritersOwnTheirKey, StoredBeforeRecorded,
        PurgesAreSafe, ReadersFollowRow, RecordedChunksStored, Writing, Purging, StagingTypeOK
  <2>3. CASE RowUnmoved(p) /\ Advance(p) /\ lost' = lost \cup keysLeft[p]
    <3>1. PICK k \in keysLeft[p] : recorded' = [recorded EXCEPT ![sess[p]] = @ \cup {k}]
      BY <2>3, AdvanceKeys
    <3>2. /\ SessionOfKey(k) = sess[p] /\ sess[p] \in live /\ k \in used
          /\ \A q \in Requests \ {p} : Writing(q) \/ Purging(q) => k \notin keysLeft[q]
      BY <1>12, <2>3 DEF AppendRowError, RowUnmoved, StorageInv, WritersOwnTheirKey,
         KeysKnown, Writing, StagingTypeOK
    <3>3. /\ \A q \in Requests \ {p} : phase'[q] = phase[q]
          /\ phase'[p] = "purge" /\ keysLeft' = keysLeft /\ sess' = sess
      BY <1>12 DEF AppendRowError, StagingTypeOK
    <3>4. live' = live /\ created' = created /\ objects' = objects /\ used' = used
      BY <1>12, <2>3 DEF AppendRowError, Advance
    <3>5. recorded \in [Sessions -> SUBSET Keys]
      BY RecordedType
    <3>6. KeysKnown'
      BY <2>3, <3>1, <3>2, <3>3, <3>4, <3>5 DEF StorageInv, KeysKnown, StagingTypeOK
    <3>7. WritersOwnTheirKey'
      BY <3>1, <3>2, <3>3, <3>4, <3>5, <1>12
      DEF StorageInv, WritersOwnTheirKey, Writing, Purging, StagingTypeOK, AppendRowError
    <3>8. StoredBeforeRecorded' /\ ReadersFollowRow' /\ RecordedChunksStored'
      BY <2>3, <3>1, <3>2, <3>3, <3>4, <3>5
      DEF StorageInv, StoredBeforeRecorded, ReadersFollowRow, RecordedChunksStored, StagingTypeOK
    <3>9. PurgesAreSafe'
      BY <2>3, <3>1, <3>2, <3>3, <3>4, <3>5, KeysAssumption
      DEF StorageInv, PurgesAreSafe, Purging, StagingTypeOK, SessionOfKey
    <3> QED
      BY <1>a, <3>6, <3>7, <3>8, <3>9
  <2> QED
    BY <1>12, <2>2, <2>3 DEF AppendRowError
<1>13. ASSUME NEW p \in Requests, Remove(p) PROVE StorageInv'
  <2>1. sess[p] \in Sessions
    BY <1>13 DEF Remove, StagingTypeOK
  <2>2. recorded' = [s \in Sessions |-> IF s \in {sess[p]} THEN {} ELSE recorded[s]]
    BY <1>13, <2>1, DeleteRowsKeys DEF Remove
  <2>3. \A k \in keysLeft'[p] : k \in used /\ SessionOfKey(k) \notin live'
    BY <1>13, <2>1 DEF Remove, DeleteRows, StorageInv, KeysKnown, StagingTypeOK
  <2>4. /\ \A q \in Requests \ {p} : phase'[q] = phase[q] /\ keysLeft'[q] = keysLeft[q]
        /\ phase'[p] = "purge" /\ live' = live \ {sess[p]}
    BY <1>13 DEF Remove, DeleteRows, StagingTypeOK
  <2> QED
    BY <1>13, <1>a, <2>1, <2>2, <2>3, <2>4
    DEF Remove, DeleteRows, StorageInv, KeysKnown, WritersOwnTheirKey, StoredBeforeRecorded,
        PurgesAreSafe, ReadersFollowRow, RecordedChunksStored, Writing, Purging, StagingTypeOK
<1>14. ASSUME NEW p \in Requests, Open(p) PROVE StorageInv'
  BY <1>14, <1>a, <1>b
  DEF Open, StorageInv, KeysKnown, WritersOwnTheirKey, StoredBeforeRecorded,
      PurgesAreSafe, ReadersFollowRow, RecordedChunksStored, Writing, Purging, StagingTypeOK
<1>15. ASSUME NEW p \in Requests, ReadChunk(p) PROVE StorageInv'
  BY <1>15, <1>a, <1>b
  DEF ReadChunk, StorageInv, KeysKnown, WritersOwnTheirKey, StoredBeforeRecorded,
      PurgesAreSafe, ReadersFollowRow, RecordedChunksStored, Writing, Purging, StagingTypeOK
<1>16. ASSUME NEW p \in Requests, ReadEnds(p) PROVE StorageInv'
  BY <1>16, FinishKeeps DEF ReadEnds
<1>17. ASSUME NEW p \in Requests, NEW k \in keysLeft[p], DeleteObject(p, k) PROVE StorageInv'
  <2>1. recorded' = recorded
    BY <1>17, <1>b DEF DeleteObject
  <2>2. \A q \in Requests : phase[q] = "row" /\ sess[q] \in live => k \notin keysLeft[q]
    BY <1>17 DEF DeleteObject, StorageInv, WritersOwnTheirKey, Writing, Purging
  <2>3. \A s \in live : k \in recorded[s] => k \in lost
    BY <1>17 DEF DeleteObject, StorageInv, PurgesAreSafe, Purging, KeysKnown, StagingTypeOK
  <2> QED
    BY <1>17, <1>a, <2>1, <2>2, <2>3
    DEF DeleteObject, StorageInv, KeysKnown, WritersOwnTheirKey, StoredBeforeRecorded,
        PurgesAreSafe, ReadersFollowRow, RecordedChunksStored, Writing, Purging, StagingTypeOK
<1>18. ASSUME NEW p \in Requests, DeleteObjectFails(p) PROVE StorageInv'
  BY <1>18, <1>a, <1>b
  DEF DeleteObjectFails, StorageInv, KeysKnown, WritersOwnTheirKey, StoredBeforeRecorded,
      PurgesAreSafe, ReadersFollowRow, RecordedChunksStored, Writing, Purging, StagingTypeOK
<1>19. ASSUME NEW p \in Requests, PurgeDone(p) PROVE StorageInv'
  BY <1>19, FinishKeeps DEF PurgeDone
<1>20. ASSUME NEW p \in Requests, SweepList(p) PROVE StorageInv'
  BY <1>20, <1>a, <1>b
  DEF SweepList, StorageInv, KeysKnown, WritersOwnTheirKey, StoredBeforeRecorded,
      PurgesAreSafe, ReadersFollowRow, RecordedChunksStored, Writing, Purging, StagingTypeOK
<1>21. ASSUME NEW p \in Requests, SweepIds(p) PROVE StorageInv'
  BY <1>21, <1>a, <1>b
  DEF SweepIds, StorageInv, KeysKnown, WritersOwnTheirKey, StoredBeforeRecorded,
      PurgesAreSafe, ReadersFollowRow, RecordedChunksStored, Writing, Purging, StagingTypeOK
<1>22. CASE UNCHANGED stagingVars
  BY <1>22, <1>a, <1>b
  DEF stagingVars, StorageInv, KeysKnown, WritersOwnTheirKey, StoredBeforeRecorded,
      PurgesAreSafe, ReadersFollowRow, RecordedChunksStored, Writing, Purging
<1>23. ASSUME NEW p \in Requests, Step(p) PROVE StorageInv'
  BY <1>23, <1>6, <1>7, <1>8, <1>9, <1>10, <1>11, <1>12, <1>13, <1>14, <1>15, <1>16,
     <1>17, <1>18, <1>19, <1>20, <1>21 DEF Step
<1> QED
  BY <1>1, <1>2, <1>3, <1>4, <1>5, <1>22, <1>23 DEF StagingNext

\* The invariant of the storage holds throughout.
LEMMA StorageHolds == StagingSpec => []StorageInv
<1>1. StagingInit => StorageInv
  <2> SUFFICES ASSUME StagingInit PROVE StorageInv
    OBVIOUS
  <2>1. recorded = [s \in Sessions |-> {}]
    BY DEF StagingInit, recorded
  <2> QED
    BY <2>1 DEF StagingInit, StorageInv, KeysKnown, WritersOwnTheirKey, StoredBeforeRecorded,
       PurgesAreSafe, ReadersFollowRow, RecordedChunksStored, Writing, Purging
<1>2. StagingTypeOK /\ StagingTypeOK' /\ StorageInv /\ [StagingNext]_stagingVars => StorageInv'
  BY StorageStep
<1> QED
  BY <1>1, <1>2, TypeCorrect, PTL DEF StagingSpec

\* No cleanup ever deletes a chunk that a live session records, except after
\* a row update that committed although it was reported as failed.
THEOREM ChunksSurvive == StagingSpec => []RecordedChunksStored
<1>1. StorageInv => RecordedChunksStored
  BY DEF StorageInv
<1> QED
  BY <1>1, StorageHolds, PTL

\* So whoever streams a session finds every chunk it has still to open, for as
\* long as the session lives, with the same exception.
THEOREM ReadersAreServed == StagingSpec => []ReaderFindsChunks
<1>1. StorageInv => ReaderFindsChunks
  BY DEF StorageInv, RecordedChunksStored, ReaderFindsChunks, ReadersFollowRow
<1> QED
  BY <1>1, StorageHolds, PTL

-----------------------------------------------------------------------------

\* One chunk list in order, up to an offset.
InOrder(c, off) ==
    /\ c = << >> => off = 0
    /\ c # << >> => c[1].from = 0 /\ off = c[Len(c)].from + c[Len(c)].size
    /\ \A i \in 1 .. Len(c) - 1 : c[i + 1].from = c[i].from + c[i].size

\* Appending a chunk that starts at the current offset keeps a list in order.
LEMMA AppendInOrder ==
  ASSUME NEW c \in Seq(Chunk), NEW off \in Nat, InOrder(c, off),
         NEW e \in Chunk, e.from = off
  PROVE  InOrder(Append(c, e), off + e.size)
<1> DEFINE d == Append(c, e)
<1>1. /\ Len(c) \in Nat
      /\ d # << >>
      /\ Len(d) = Len(c) + 1
      /\ \A i \in 1 .. Len(c) : d[i] = c[i]
      /\ d[Len(c) + 1] = e
  OBVIOUS
<1>2. e.from \in Nat /\ e.size \in Nat
  BY SizesAssumption DEF Chunk
<1> HIDE DEF d
<1>3. CASE c = << >>
  <2>1. Len(c) = 0 /\ off = 0
    BY <1>3 DEF InOrder
  <2> QED
    BY <1>1, <1>2, <2>1 DEF InOrder, d
<1>4. CASE c # << >>
  <2>1. Len(c) \in Nat \ {0}
    BY <1>4, <1>1
  <2>2. /\ d[1].from = 0
        /\ off + e.size = d[Len(d)].from + d[Len(d)].size
    BY <1>1, <1>2, <1>4, <2>1 DEF InOrder
  <2>3. ASSUME NEW i \in 1 .. Len(d) - 1
        PROVE  d[i + 1].from = d[i].from + d[i].size
    <3>1. CASE i = Len(c)
      BY <3>1, <1>1, <1>4, <2>1 DEF InOrder
    <3>2. CASE i \in 1 .. Len(c) - 1
      BY <3>2, <1>1, <2>1 DEF InOrder
    <3> QED
      BY <3>1, <3>2, <1>1, <2>1
  <2> QED
    BY <1>1, <2>2, <2>3 DEF InOrder, d
<1> QED
  BY <1>3, <1>4

\* The optimistic lock keeps every session in order: the row update checks
\* the very offset its chunk was verified against.
LEMMA AdvanceInOrder ==
  ASSUME StagingTypeOK, StagedInOrder, NEW p \in Requests, RowUnmoved(p), Advance(p)
  PROVE  StagedInOrder'
<1>1. sess[p] \in Sessions /\ chunks[sess[p]] \in Seq(Chunk) /\ offset[sess[p]] \in Nat
  BY NoSessionAssumption DEF StagingTypeOK, RowUnmoved
<1>2. PICK k \in keysLeft[p], n \in Sizes :
        /\ offset' = [offset EXCEPT ![sess[p]] = @ + n]
        /\ chunks' = [chunks EXCEPT ![sess[p]] =
                        Append(@, [key |-> k, from |-> expected[p], size |-> n])]
  BY DEF Advance
<1> DEFINE e == [key |-> k, from |-> expected[p], size |-> n]
<1>3. e \in Chunk /\ e.from = offset[sess[p]] /\ e.size = n
  BY SizesAssumption DEF Chunk, StagingTypeOK, RowUnmoved
<1>4. \A s \in Sessions : InOrder(chunks[s], offset[s])
  BY DEF StagedInOrder, InOrder
<1> HIDE DEF e
<1>5. InOrder(Append(chunks[sess[p]], e), offset[sess[p]] + n)
  BY <1>1, <1>3, <1>4, AppendInOrder
<1>6. chunks'[sess[p]] = Append(chunks[sess[p]], e) /\ offset'[sess[p]] = offset[sess[p]] + n
  BY <1>1, <1>2 DEF StagingTypeOK, e
<1>7. \A s \in Sessions \ {sess[p]} : chunks'[s] = chunks[s] /\ offset'[s] = offset[s]
  BY <1>2 DEF StagingTypeOK
<1>8. \A s \in Sessions : InOrder(chunks'[s], offset'[s])
  BY <1>4, <1>5, <1>6, <1>7
<1> QED
  BY <1>8 DEF StagedInOrder, InOrder

\* Whoever races to append, a session's chunks follow each other without gap
\* or overlap up to the recorded offset.
THEOREM AppendsAreSerialised == StagingSpec => []StagedInOrder
<1>1. StagingInit => StagedInOrder
  BY DEF StagingInit, StagedInOrder
<1>2. StagingTypeOK /\ StagedInOrder /\ [StagingNext]_stagingVars => StagedInOrder'
  <2> SUFFICES ASSUME StagingTypeOK, StagedInOrder, [StagingNext]_stagingVars PROVE StagedInOrder'
    OBVIOUS
  <2>1. ASSUME UNCHANGED <<offset, chunks>> PROVE StagedInOrder'
    BY <2>1 DEF StagedInOrder
  <2>2. ASSUME NEW S \in SUBSET Sessions, DeleteRows(S) PROVE StagedInOrder'
    <3>1. \A s \in Sessions :
            \/ chunks'[s] = << >> /\ offset'[s] = 0
            \/ chunks'[s] = chunks[s] /\ offset'[s] = offset[s]
      BY <2>2 DEF DeleteRows
    <3> QED
      BY <3>1 DEF StagedInOrder
  <2>3. ASSUME NEW p \in Requests, Step(p) PROVE StagedInOrder'
    <3>1. CASE AppendUploadChunk(p)
      BY <3>1, AdvanceInOrder DEF AppendUploadChunk
    <3>2. CASE AppendRowError(p)
      BY <3>2, <2>1, AdvanceInOrder DEF AppendRowError, sessionVars
    <3>3. CASE Remove(p)
      BY <3>3, <2>2 DEF Remove, StagingTypeOK
    <3>4. CASE ~(AppendUploadChunk(p) \/ AppendRowError(p) \/ Remove(p))
      BY <2>1, <2>3, <3>4
      DEF Step, AppendRefused, BeginAppend, PutObject, PutObjectFails, AppendLostRace,
          Open, ReadChunk, ReadEnds, DeleteObject, DeleteObjectFails, PurgeDone,
          SweepList, SweepIds, sessionVars
    <3> QED
      BY <3>1, <3>2, <3>3, <3>4
  <2>4. ASSUME NEW p \in Requests, SweepExpired(p) PROVE StagedInOrder'
    BY <2>2, <2>4 DEF SweepExpired, StagingTypeOK
  <2>5. ASSUME ~\E p \in Requests : Step(p) \/ SweepExpired(p) PROVE StagedInOrder'
    BY <2>1, <2>5 DEF StagingNext, Create, Expire, CheckSession, ReplicaCrash, sessionVars, stagingVars
  <2> QED
    BY <2>3, <2>4, <2>5
<1> QED
  BY <1>1, <1>2, TypeCorrect, PTL DEF StagingSpec

-----------------------------------------------------------------------------
(* Shared staging implements the Staging contract (UploadLog) as long as an   *)
(* error means that nothing was written.                                      *)

\* No update is taken for failed that was not, and a session without a row has
\* no chunks.
LogInv == lost = {} /\ \A s \in Sessions : s \notin live => chunks[s] = << >>

LogStatus == [s \in Sessions |-> IF s \in live THEN "open" ELSE IF s \in created THEN "closed" ELSE "unborn"]
LogContent == [s \in Sessions |-> [i \in 1 .. Len(chunks[s]) |-> IF chunks[s][i].key \in objects THEN chunks[s][i].key ELSE Hole]]

\* The keys of a list of chunks, in order.
KeysOf(c) == [i \in 1 .. Len(c) |-> c[i].key]

\* The rows that are left to be seen, and what they lose.
LEMMA LogInvHolds == ASSUME AmbiguousErrors = FALSE PROVE StagingSpec => []LogInv
<1>1. StagingInit => LogInv
  BY DEF StagingInit, LogInv
<1>2. StagingTypeOK /\ LogInv /\ [StagingNext]_stagingVars => LogInv'
  <2> SUFFICES ASSUME StagingTypeOK, LogInv, [StagingNext]_stagingVars PROVE LogInv'
    OBVIOUS
  <2> USE DEF sessionVars, objVars, requestVars
  <2>1. ASSUME lost' = lost, live \subseteq live', UNCHANGED chunks PROVE LogInv'
    BY <2>1 DEF LogInv
  <2>2. ASSUME NEW S \in SUBSET Sessions, DeleteRows(S), lost' = lost PROVE LogInv'
    BY <2>2 DEF DeleteRows, LogInv
  <2>3. ASSUME NEW p \in Requests, AppendUploadChunk(p) PROVE LogInv'
    <3>1. sess[p] \in live /\ live' = live /\ lost' = lost
      BY <2>3 DEF AppendUploadChunk, RowUnmoved, Advance
    <3>2. \A s \in Sessions : s # sess[p] => chunks'[s] = chunks[s]
      BY <2>3 DEF AppendUploadChunk, Advance, StagingTypeOK
    <3> QED
      BY <3>1, <3>2 DEF LogInv
  <2>4. ASSUME NEW p \in Requests, Step(p) PROVE LogInv'
    <3>1. CASE AppendRowError(p)
      BY <2>1, <3>1 DEF AppendRowError
    <3>2. CASE Remove(p)
      BY <2>2, <3>2 DEF Remove, StagingTypeOK
    <3>3. CASE ~(AppendUploadChunk(p) \/ AppendRowError(p) \/ Remove(p))
      BY <2>1, <2>4, <3>3
      DEF Step, AppendRefused, BeginAppend, PutObject, PutObjectFails, AppendLostRace,
          Open, ReadChunk, ReadEnds, DeleteObject, DeleteObjectFails, PurgeDone, SweepList, SweepIds
    <3> QED
      BY <2>3, <3>1, <3>2, <3>3
  <2>5. ASSUME NEW p \in Requests, SweepExpired(p) PROVE LogInv'
    BY <2>2, <2>5 DEF SweepExpired, StagingTypeOK
  <2>6. ASSUME ~\E p \in Requests : Step(p) \/ SweepExpired(p) PROVE LogInv'
    BY <2>1, <2>6 DEF StagingNext, Create, Expire, CheckSession, ReplicaCrash, stagingVars
  <2> QED
    BY <2>4, <2>5, <2>6
<1> QED
  BY <1>1, <1>2, TypeCorrect, PTL DEF StagingSpec

\* Every recorded chunk can be read, so the log of a session is its keys.
LEMMA LogHasNoHoles ==
  ASSUME StagingTypeOK, StorageInv, LogInv
  PROVE  LogContent = [s \in Sessions |-> KeysOf(chunks[s])]
<1>1. ASSUME NEW s \in Sessions, NEW i \in 1 .. Len(chunks[s]) PROVE chunks[s][i].key \in objects
  <2>1. chunks[s] \in Seq(Chunk) /\ DOMAIN chunks[s] = 1 .. Len(chunks[s])
    BY DEF StagingTypeOK
  <2>2. s \in live
    <3> SUFFICES ASSUME chunks[s] = << >> PROVE FALSE
      BY DEF LogInv
    <3> QED
      BY <1>1
  <2>3. chunks[s][i].key \in recorded[s]
    BY <2>1 DEF recorded
  <2> QED
    BY <2>2, <2>3 DEF StorageInv, RecordedChunksStored, LogInv
<1> QED
  BY <1>1 DEF LogContent, KeysOf

\* Appending a chunk to a list appends its key.
LEMMA KeysOfAppend ==
  ASSUME NEW c \in Seq(Chunk), NEW e \in Chunk
  PROVE  KeysOf(Append(c, e)) = Append(KeysOf(c), e.key)
<1>1. /\ Len(c) \in Nat /\ Len(Append(c, e)) = Len(c) + 1
      /\ \A i \in 1 .. Len(c) : Append(c, e)[i] = c[i]
      /\ Append(c, e)[Len(c) + 1] = e
  OBVIOUS
<1>2. \A i \in 1 .. Len(c) : c[i].key \in Keys
  BY ChunkListKeys DEF Chunk
<1>3. KeysOf(c) \in Seq(Keys) /\ Len(KeysOf(c)) = Len(c)
  BY <1>1, <1>2 DEF KeysOf
<1>4. e.key \in Keys
  BY DEF Chunk
<1>5. /\ Append(KeysOf(c), e.key) \in Seq(Keys) /\ Len(Append(KeysOf(c), e.key)) = Len(c) + 1
      /\ \A i \in 1 .. Len(c) : Append(KeysOf(c), e.key)[i] = KeysOf(c)[i]
      /\ Append(KeysOf(c), e.key)[Len(c) + 1] = e.key
  BY <1>3, <1>4
<1>6. \A i \in 1 .. Len(c) + 1 : KeysOf(Append(c, e))[i] = Append(KeysOf(c), e.key)[i]
  BY <1>1, <1>5 DEF KeysOf
<1>7. KeysOf(Append(c, e)) \in Seq(Keys) /\ Len(KeysOf(Append(c, e))) = Len(c) + 1
  BY <1>1, <1>2, <1>4 DEF KeysOf
<1> QED
  BY <1>5, <1>6, <1>7

\* No chunks have no keys.
LEMMA KeysOfEmpty == KeysOf(<< >>) = << >>
BY DEF KeysOf

\* A session begins empty.
LEMMA LogInitially == StagingInit => Log!Init
<1> SUFFICES ASSUME StagingInit PROVE Log!Init
  OBVIOUS
<1>1. LogStatus = [s \in Sessions |-> "unborn"]
  BY DEF StagingInit, LogStatus
<1>2. LogContent = [s \in Sessions |-> << >>]
  <2>1. \A s \in Sessions : chunks[s] = << >>
    BY DEF StagingInit
  <2>2. \A s \in Sessions : LogContent[s] = << >>
    BY <2>1 DEF LogContent
  <2> QED
    BY <2>2 DEF LogContent
<1> QED
  BY <1>1, <1>2 DEF Log!Init, LogStatus, LogContent

\* Rows that are deleted are sessions that are discarded, all at once.
LEMMA DeleteRowsDiscards ==
  ASSUME StagingTypeOK, LogInv, NEW S \in SUBSET Sessions, DeleteRows(S),
         NEW D \in SUBSET Sessions, D = S \cap live,
         LogContent = [s \in Sessions |-> KeysOf(chunks[s])],
         LogContent' = [s \in Sessions |-> KeysOf(chunks'[s])]
  PROVE  Log!Discard(D)
<1>1. live' = live \ S /\ created' = created /\ live \subseteq created
  BY DEF DeleteRows, StagingTypeOK
<1>2. \A s \in D : LogStatus[s] = "open"
  BY DEF LogStatus
<1>3. LogStatus' = [s \in Sessions |-> IF s \in D THEN "closed" ELSE LogStatus[s]]
  BY <1>1 DEF LogStatus
<1>4. \A s \in Sessions : LogContent'[s] = IF s \in D THEN << >> ELSE LogContent[s]
  <2> TAKE s \in Sessions
  <2>1. chunks'[s] = IF s \in S THEN << >> ELSE chunks[s]
    BY DEF DeleteRows
  <2>2. s \notin live => chunks[s] = << >>
    BY DEF LogInv
  <2> QED
    BY <2>1, <2>2, KeysOfEmpty
<1>5. LogContent' = [s \in Sessions |-> IF s \in D THEN << >> ELSE LogContent[s]]
  BY <1>4
<1> QED
  BY <1>2, <1>3, <1>5 DEF Log!Discard, LogStatus, LogContent

\* Every step is a step of the log, or none.
LEMMA LogStep ==
  ASSUME StagingTypeOK, StorageInv, LogInv, StagingTypeOK', StorageInv', LogInv', [StagingNext]_stagingVars
  PROVE  [Log!Next]_(Log!vars)
<1> USE DEF sessionVars, objVars, requestVars
<1>a. LogContent = [s \in Sessions |-> KeysOf(chunks[s])]
  BY LogHasNoHoles
<1>b. LogContent' = [s \in Sessions |-> KeysOf(chunks'[s])]
  <2>1. ASSUME NEW s \in Sessions, NEW i \in 1 .. Len(chunks'[s]) PROVE chunks'[s][i].key \in objects'
    <3>1. chunks'[s] \in Seq(Chunk) /\ DOMAIN chunks'[s] = 1 .. Len(chunks'[s])
      BY DEF StagingTypeOK
    <3>2. s \in live'
      <4> SUFFICES ASSUME chunks'[s] = << >> PROVE FALSE
        BY DEF LogInv
      <4> QED
        BY <2>1
    <3>3. chunks'[s][i].key \in recorded'[s]
      BY <3>1 DEF recorded
    <3> QED
      BY <3>2, <3>3 DEF StorageInv, RecordedChunksStored, LogInv
  <2> QED
    BY <2>1 DEF LogContent, KeysOf
<1>1. ASSUME UNCHANGED <<created, live, chunks>> PROVE UNCHANGED Log!vars
  <2>1. LogContent' = LogContent /\ LogStatus' = LogStatus
    BY <1>1, <1>a, <1>b DEF LogStatus
  <2> QED
    BY <2>1 DEF Log!vars, LogStatus, LogContent
<1>2. ASSUME NEW s \in Sessions, Create(s) PROVE Log!Next
  <2>1. s \notin created /\ s \notin live /\ created' = created \cup {s} /\ live' = live \cup {s} /\ chunks' = chunks
    BY <1>2 DEF Create, StagingTypeOK
  <2>2. LogStatus[s] = "unborn" /\ LogStatus' = [LogStatus EXCEPT ![s] = "open"]
    BY <2>1 DEF LogStatus
  <2>3. LogContent' = LogContent
    BY <1>a, <1>b, <2>1
  <2>4. Log!Create(s)
    BY <2>2, <2>3 DEF Log!Create, LogStatus, LogContent
  <2> QED
    BY <2>4 DEF Log!Next
<1>3. ASSUME NEW S \in SUBSET Sessions, DeleteRows(S) PROVE Log!Next
  <2>0. PICK D \in SUBSET Sessions : D = S \cap live
    OBVIOUS
  <2>1. Log!Discard(D)
    BY <1>3, <1>a, <1>b, <2>0, DeleteRowsDiscards
  <2> QED
    BY <2>1 DEF Log!Next
<1>4. ASSUME NEW p \in Requests, AppendUploadChunk(p) PROVE Log!Next
  <2>1. sess[p] \in live /\ sess[p] \in Sessions /\ Advance(p) /\ live' = live /\ created' = created
    BY <1>4 DEF AppendUploadChunk, RowUnmoved, Advance, StagingTypeOK
  <2>2. PICK k \in keysLeft[p], n \in Sizes :
          chunks' = [chunks EXCEPT ![sess[p]] = Append(@, [key |-> k, from |-> expected[p], size |-> n])]
    BY <2>1 DEF Advance
  <2> DEFINE e == [key |-> k, from |-> expected[p], size |-> n]
  <2>t. PICK t \in Sessions : t = sess[p]
    BY <2>1
  <2>3. e \in Chunk /\ e.key = k /\ k \in Keys /\ chunks[t] \in Seq(Chunk)
    BY <2>1, <2>t, SizesAssumption DEF Chunk, StagingTypeOK
  <2>4. chunks'[t] = Append(chunks[t], e) /\ \A s \in Sessions : s # t => chunks'[s] = chunks[s]
    BY <2>1, <2>2, <2>t DEF StagingTypeOK
  <2> HIDE DEF e
  <2>5. KeysOf(chunks'[t]) = Append(KeysOf(chunks[t]), k)
    BY <2>3, <2>4, KeysOfAppend
  <2>6. LogContent' = [LogContent EXCEPT ![t] = Append(LogContent[t], k)]
    BY <1>a, <1>b, <2>1, <2>4, <2>5
  <2>7. LogStatus[t] = "open" /\ LogStatus' = LogStatus
    BY <2>1, <2>t DEF LogStatus
  <2>8. Log!AppendChunk(t, k)
    BY <2>6, <2>7 DEF Log!AppendChunk, LogStatus, LogContent
  <2> QED
    BY <2>3, <2>8 DEF Log!Next
<1>5. ASSUME NEW p \in Requests, Step(p) PROVE [Log!Next]_(Log!vars)
  <2>1. CASE AppendUploadChunk(p)
    BY <1>4, <2>1
  <2>2. CASE Remove(p)
    BY <1>3, <2>2 DEF Remove, StagingTypeOK
  <2>3. CASE AppendRowError(p)
    <3>1. ASSUME Advance(p), lost' = lost \cup keysLeft[p] PROVE FALSE
      BY <3>1 DEF Advance, LogInv
    <3>2. UNCHANGED <<created, live, chunks>>
      BY <2>3, <3>1 DEF AppendRowError
    <3> QED
      BY <1>1, <3>2
  <2>4. CASE ~(AppendUploadChunk(p) \/ AppendRowError(p) \/ Remove(p))
    BY <1>1, <1>5, <2>4
    DEF Step, AppendRefused, BeginAppend, PutObject, PutObjectFails, AppendLostRace,
        Open, ReadChunk, ReadEnds, DeleteObject, DeleteObjectFails, PurgeDone, SweepList, SweepIds
  <2> QED
    BY <2>1, <2>2, <2>3, <2>4
<1>6. ASSUME NEW p \in Requests, SweepExpired(p) PROVE Log!Next
  BY <1>3, <1>6 DEF SweepExpired, StagingTypeOK
<1>7. ASSUME ~\E p \in Requests : Step(p) \/ SweepExpired(p), ~\E s \in Sessions : Create(s) PROVE UNCHANGED Log!vars
  BY <1>1, <1>7 DEF StagingNext, Expire, CheckSession, ReplicaCrash, stagingVars
<1> QED
  BY <1>2, <1>5, <1>6, <1>7

\* The detailed specification implements the abstract one: seen through the
\* object store, sessions that replicas append to, remove and sweep
\* concurrently, and that crash between object and row, are logs.
THEOREM SharedStagingIsALog == ASSUME AmbiguousErrors = FALSE PROVE StagingSpec => ImplementsLog
<1>1. StagingTypeOK /\ StorageInv /\ LogInv /\ (StagingTypeOK /\ StorageInv /\ LogInv)' /\ [StagingNext]_stagingVars => [Log!Next]_(Log!vars)
  BY LogStep
<1> QED
  BY <1>1, LogInitially, LogInvHolds, StorageHolds, TypeCorrect, PTL DEF StagingSpec, ImplementsLog, Log!Spec
=============================================================================
