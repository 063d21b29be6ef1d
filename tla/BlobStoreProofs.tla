--------------------------- MODULE BlobStoreProofs ---------------------------
(***************************************************************************)
(* Images stay whole, for any number of handlers, repositories, blobs and  *)
(* manifests: whatever overlaps, the only blobs that can be lost are those *)
(* that were cleaned while they were pushed.                               *)
(***************************************************************************)
EXTENDS BlobStore, TLAPS

USE DEF storeVars, tableVars, procVars

\* A digest that is pushed and cleaned at the same time has been recorded.
RacesRecorded == \A p, q \in Procs : Wants(p) \cap Cleans(q) \subseteq raced

\* What a push has found out still holds when it writes: the content is
\* there, and so are the links of the manifest's layers.
PushesInformed ==
    \A p \in Procs :
      /\ pc[p] = "link" /\ item[p] \notin raced => item[p] \in content
      /\ pc[p] = "manifest" /\ repo[p] # NoRepo =>
           \A b \in Layers[item[p]] \ raced : <<repo[p], b>> \in links

\* What a cleaner has found out still holds when it deletes: the layer it
\* unlinks is not used ...
UnlinkersInformed ==
    \A p \in Procs : pc[p] = "unlink" /\ item[p] \notin raced => ~Referenced(repo[p], item[p])

\* ... and the content it removes has no row.
RemoversInformed ==
    \A p \in Procs : pc[p] \in {"remove", "orphans"} => todo[p] \cap rows \subseteq raced

\* The layers of every manifest are linked.
LayersLinked == \A x \in manifests : \A b \in Layers[x[2]] \ raced : <<x[1], b>> \in links

Inv ==
    /\ TypeOK
    /\ RacesRecorded
    /\ PushesInformed
    /\ UnlinkersInformed
    /\ RemoversInformed
    /\ LayersLinked
    /\ RowsHaveContent

\* The initial state satisfies the invariant.
LEMMA InitInv == Init => Inv
BY NoRepoAssumption DEF Init, Inv, TypeOK, RacesRecorded, Wants, Cleans, PushesInformed, UnlinkersInformed, RemoversInformed, LayersLinked, RowsHaveContent, CleanerStates, WriterStates

\* A layer of a manifest is referenced in the manifest's repository.
LEMMA LayersAreReferenced ==
  ASSUME TypeOK, NEW x \in manifests, NEW b \in Layers[x[2]]
  PROVE  x[1] \in Repos /\ x[2] \in Manifests /\ b \in Blobs /\ Referenced(x[1], b)
<1>1. x = <<x[1], x[2]>> /\ x[1] \in Repos /\ x[2] \in Manifests
  BY DEF TypeOK
<1> QED
  BY <1>1, LayersAssumption DEF Referenced

\* Every step preserves type correctness.
LEMMA TypeStep == TypeOK /\ [Next]_vars => TypeOK'
<1> SUFFICES ASSUME TypeOK, [Next]_vars PROVE TypeOK'
  OBVIOUS
<1> USE NoRepoAssumption, LayersAssumption DEF TypeOK, WriterStates, CleanerStates
<1>1. CASE UNCHANGED vars
  BY <1>1 DEF vars
<1>2. ASSUME NEW p \in Procs, NEW r \in Repos, NEW b \in Blobs, CommitStat(p, r, b) PROVE TypeOK'
  BY <1>2 DEF CommitStat, Begin, PushBegins
<1>3. ASSUME NEW p \in Procs, NEW r \in Repos, NEW b \in Blobs, BlobDeleteCheck(p, r, b) PROVE TypeOK'
  BY <1>3 DEF BlobDeleteCheck, Begin, MayClean, CleaningBegins
<1>4. ASSUME NEW p \in Procs, NEW r \in Repos, NEW b \in Blobs, NEW from \in Repos, MountCheck(p, from, r, b) PROVE TypeOK'
  BY <1>4 DEF MountCheck, Begin, PushBegins
<1>5. ASSUME NEW p \in Procs, NEW r \in Repos, NEW m \in Manifests, ManifestCheck(p, r, m) PROVE TypeOK'
  BY <1>5 DEF ManifestCheck, Begin, PushBegins
<1>6. ASSUME NEW p \in Procs, CommitPut(p) PROVE TypeOK'
  BY <1>6 DEF CommitPut, Goto
<1>7. ASSUME NEW p \in Procs, UpsertBlob(p) PROVE TypeOK'
  BY <1>7 DEF UpsertBlob, Finish
<1>8. ASSUME NEW p \in Procs, LinkBlob(p) PROVE TypeOK'
  BY <1>8 DEF LinkBlob, Finish
<1>9. ASSUME NEW p \in Procs, UpsertManifest(p) PROVE TypeOK'
  BY <1>9 DEF UpsertManifest, Finish
<1>10. ASSUME NEW p \in Procs, UnlinkBlob(p) PROVE TypeOK'
  BY <1>10 DEF UnlinkBlob, Finish
<1>11. ASSUME NEW p \in Procs, GcUnlink(p) PROVE TypeOK'
  BY <1>11 DEF GcUnlink, MayClean, CleaningBegins
<1>12. ASSUME NEW p \in Procs, GcRows(p) PROVE TypeOK'
  <2>1. links' \in SUBSET (Repos \X rows')
    <3> SUFFICES ASSUME NEW l \in links PROVE l \in Repos \X rows'
      BY <1>12 DEF GcRows
    <3>1. l = <<l[1], l[2]>> /\ l[1] \in Repos /\ l[2] \in rows
      OBVIOUS
    <3>2. Linked(l[2])
      BY <3>1 DEF Linked
    <3> QED
      BY <1>12, <3>1, <3>2 DEF GcRows
  <2> QED
    BY <1>12, <2>1 DEF GcRows
<1>13. ASSUME NEW p \in Procs, RemoveContent(p) PROVE TypeOK'
  BY <1>13 DEF RemoveContent
<1>14. ASSUME NEW p \in Procs, RemoveDone(p) PROVE TypeOK'
  BY <1>14 DEF RemoveDone, Finish
<1>15. ASSUME NEW p \in Procs, VerifyList(p) PROVE TypeOK'
  BY <1>15 DEF VerifyList, MayClean, CleaningBegins
<1>16. ASSUME NEW p \in Procs, VerifyWalk(p) PROVE TypeOK'
  BY <1>16 DEF VerifyWalk
<1>17. ASSUME NEW p \in Procs, Crash(p) PROVE TypeOK'
  BY <1>17 DEF Crash, Finish
<1>18. ASSUME NEW r \in Repos, NEW m \in Manifests, DeleteManifest(r, m) PROVE TypeOK'
  BY <1>18 DEF DeleteManifest
<1>19. ASSUME NEW r \in Repos, DeleteRepository(r) PROVE TypeOK'
  BY <1>19 DEF DeleteRepository
<1>20. CASE Tick
  BY <1>20 DEF Tick
<1> QED
  BY <1>1, <1>2, <1>3, <1>4, <1>5, <1>6, <1>7, <1>8, <1>9, <1>10, <1>11, <1>12, <1>13, <1>14, <1>15, <1>16, <1>17, <1>18, <1>19, <1>20
  DEF Next

\* A race is recorded when the later of the two begins, and then not forgotten.
LEMMA RaceStep == TypeOK /\ RacesRecorded /\ [Next]_vars => RacesRecorded'
<1> SUFFICES ASSUME TypeOK, RacesRecorded, [Next]_vars PROVE RacesRecorded'
  OBVIOUS
<1> USE LayersAssumption DEF TypeOK, RacesRecorded, WriterStates, CleanerStates, Wants, Cleans
<1>1. CASE UNCHANGED vars
  BY <1>1 DEF vars
<1>2. ASSUME NEW p \in Procs, NEW r \in Repos, NEW b \in Blobs, CommitStat(p, r, b) PROVE RacesRecorded'
  BY <1>2 DEF CommitStat, Begin, PushBegins
<1>3. ASSUME NEW p \in Procs, NEW r \in Repos, NEW b \in Blobs, BlobDeleteCheck(p, r, b) PROVE RacesRecorded'
  BY <1>3 DEF BlobDeleteCheck, Begin, MayClean, CleaningBegins
<1>4. ASSUME NEW p \in Procs, NEW r \in Repos, NEW b \in Blobs, NEW from \in Repos, MountCheck(p, from, r, b) PROVE RacesRecorded'
  BY <1>4 DEF MountCheck, Begin, PushBegins
<1>5. ASSUME NEW p \in Procs, NEW r \in Repos, NEW m \in Manifests, ManifestCheck(p, r, m) PROVE RacesRecorded'
  BY <1>5 DEF ManifestCheck, Begin, PushBegins
<1>6. ASSUME NEW p \in Procs, CommitPut(p) PROVE RacesRecorded'
  BY <1>6 DEF CommitPut, Goto
<1>7. ASSUME NEW p \in Procs, UpsertBlob(p) PROVE RacesRecorded'
  BY <1>7 DEF UpsertBlob, Finish
<1>8. ASSUME NEW p \in Procs, LinkBlob(p) PROVE RacesRecorded'
  BY <1>8 DEF LinkBlob, Finish
<1>9. ASSUME NEW p \in Procs, UpsertManifest(p) PROVE RacesRecorded'
  BY <1>9 DEF UpsertManifest, Finish
<1>10. ASSUME NEW p \in Procs, UnlinkBlob(p) PROVE RacesRecorded'
  BY <1>10 DEF UnlinkBlob, Finish
<1>11. ASSUME NEW p \in Procs, GcUnlink(p) PROVE RacesRecorded'
  BY <1>11 DEF GcUnlink, MayClean, CleaningBegins
<1>12. ASSUME NEW p \in Procs, GcRows(p) PROVE RacesRecorded'
  BY <1>12 DEF GcRows
<1>13. ASSUME NEW p \in Procs, RemoveContent(p) PROVE RacesRecorded'
  BY <1>13 DEF RemoveContent
<1>14. ASSUME NEW p \in Procs, RemoveDone(p) PROVE RacesRecorded'
  BY <1>14 DEF RemoveDone, Finish
<1>15. ASSUME NEW p \in Procs, VerifyList(p) PROVE RacesRecorded'
  BY <1>15 DEF VerifyList, MayClean, CleaningBegins
<1>16. ASSUME NEW p \in Procs, VerifyWalk(p) PROVE RacesRecorded'
  BY <1>16 DEF VerifyWalk
<1>17. ASSUME NEW p \in Procs, Crash(p) PROVE RacesRecorded'
  BY <1>17 DEF Crash, Finish
<1>18. ASSUME NEW r \in Repos, NEW m \in Manifests, DeleteManifest(r, m) PROVE RacesRecorded'
  BY <1>18 DEF DeleteManifest
<1>19. ASSUME NEW r \in Repos, DeleteRepository(r) PROVE RacesRecorded'
  BY <1>19 DEF DeleteRepository
<1>20. CASE Tick
  BY <1>20 DEF Tick
<1> QED
  BY <1>1, <1>2, <1>3, <1>4, <1>5, <1>6, <1>7, <1>8, <1>9, <1>10, <1>11, <1>12, <1>13, <1>14, <1>15, <1>16, <1>17, <1>18, <1>19, <1>20
  DEF Next

\* No step takes away what a push has found.
LEMMA PushStep == Inv /\ [Next]_vars => PushesInformed'
<1> SUFFICES ASSUME Inv, [Next]_vars PROVE PushesInformed'
  OBVIOUS
<1> USE NoRepoAssumption, LayersAssumption DEF Inv, TypeOK, RacesRecorded, PushesInformed, WriterStates, CleanerStates, Wants, Cleans
<1>1. CASE UNCHANGED vars
  BY <1>1 DEF vars
<1>2. ASSUME NEW p \in Procs, NEW r \in Repos, NEW b \in Blobs, CommitStat(p, r, b) PROVE PushesInformed'
  BY <1>2 DEF CommitStat, Begin, PushBegins
<1>3. ASSUME NEW p \in Procs, NEW r \in Repos, NEW b \in Blobs, BlobDeleteCheck(p, r, b) PROVE PushesInformed'
  BY <1>3 DEF BlobDeleteCheck, Begin, MayClean, CleaningBegins
<1>4. ASSUME NEW p \in Procs, NEW r \in Repos, NEW b \in Blobs, NEW from \in Repos, MountCheck(p, from, r, b) PROVE PushesInformed'
  BY <1>4 DEF MountCheck, Begin, PushBegins
<1>5. ASSUME NEW p \in Procs, NEW r \in Repos, NEW m \in Manifests, ManifestCheck(p, r, m) PROVE PushesInformed'
  BY <1>5 DEF ManifestCheck, Begin, PushBegins
<1>6. ASSUME NEW p \in Procs, CommitPut(p) PROVE PushesInformed'
  BY <1>6 DEF CommitPut, Goto
<1>7. ASSUME NEW p \in Procs, UpsertBlob(p) PROVE PushesInformed'
  BY <1>7 DEF UpsertBlob, Finish
<1>8. ASSUME NEW p \in Procs, LinkBlob(p) PROVE PushesInformed'
  BY <1>8 DEF LinkBlob, Finish
<1>9. ASSUME NEW p \in Procs, UpsertManifest(p) PROVE PushesInformed'
  BY <1>9 DEF UpsertManifest, Finish
<1>10. ASSUME NEW p \in Procs, UnlinkBlob(p) PROVE PushesInformed'
  BY <1>10 DEF UnlinkBlob, Finish
<1>11. ASSUME NEW p \in Procs, GcUnlink(p) PROVE PushesInformed'
  BY <1>11 DEF GcUnlink, MayClean, CleaningBegins
<1>12. ASSUME NEW p \in Procs, GcRows(p) PROVE PushesInformed'
  BY <1>12 DEF GcRows
<1>13. ASSUME NEW p \in Procs, RemoveContent(p) PROVE PushesInformed'
  BY <1>13 DEF RemoveContent
<1>14. ASSUME NEW p \in Procs, RemoveDone(p) PROVE PushesInformed'
  BY <1>14 DEF RemoveDone, Finish
<1>15. ASSUME NEW p \in Procs, VerifyList(p) PROVE PushesInformed'
  BY <1>15 DEF VerifyList, MayClean, CleaningBegins
<1>16. ASSUME NEW p \in Procs, VerifyWalk(p) PROVE PushesInformed'
  BY <1>16 DEF VerifyWalk
<1>17. ASSUME NEW p \in Procs, Crash(p) PROVE PushesInformed'
  BY <1>17 DEF Crash, Finish
<1>18. ASSUME NEW r \in Repos, NEW m \in Manifests, DeleteManifest(r, m) PROVE PushesInformed'
  BY <1>18 DEF DeleteManifest
<1>19. ASSUME NEW r \in Repos, DeleteRepository(r) PROVE PushesInformed'
  BY <1>19 DEF DeleteRepository
<1>20. CASE Tick
  BY <1>20 DEF Tick
<1> QED
  BY <1>1, <1>2, <1>3, <1>4, <1>5, <1>6, <1>7, <1>8, <1>9, <1>10, <1>11, <1>12, <1>13, <1>14, <1>15, <1>16, <1>17, <1>18, <1>19, <1>20
  DEF Next

\* What is not referenced is not referenced when manifests go.
LEMMA StaysUnreferenced ==
  ASSUME NEW r, NEW b, ~Referenced(r, b), manifests' \subseteq manifests
  PROVE  ~(\E m \in Manifests : <<r, m>> \in manifests' /\ b \in Layers[m])
BY DEF Referenced

\* No step makes use of a layer that is being unlinked.
LEMMA UnlinkStep == Inv /\ [Next]_vars => UnlinkersInformed'
<1> SUFFICES ASSUME Inv, [Next]_vars PROVE UnlinkersInformed'
  OBVIOUS
<1> DEFINE Keeps == /\ manifests' \subseteq manifests
                    /\ raced \subseteq raced'
                    /\ \A q \in Procs : pc'[q] = "unlink" =>
                         pc[q] = "unlink" /\ repo'[q] = repo[q] /\ item'[q] = item[q]
<1> USE NoRepoAssumption, LayersAssumption DEF Inv, TypeOK
<1>1. CASE UNCHANGED vars
  BY <1>1 DEF vars, UnlinkersInformed, Referenced
<1>2. ASSUME NEW p \in Procs, NEW r \in Repos, NEW b \in Blobs, CommitStat(p, r, b) PROVE Keeps
  BY <1>2 DEF CommitStat, Begin, PushBegins
<1>3. ASSUME NEW p \in Procs, NEW r \in Repos, NEW b \in Blobs, BlobDeleteCheck(p, r, b) PROVE UnlinkersInformed'
  <2> SUFFICES ASSUME NEW q \in Procs, pc'[q] = "unlink", item'[q] \notin raced' PROVE ~Referenced(repo[q], item[q])'
    BY DEF UnlinkersInformed
  <2>1. manifests' = manifests /\ raced \subseteq raced'
    BY <1>3 DEF BlobDeleteCheck, CleaningBegins
  <2>2. CASE q = p
    BY <1>3, <2>1, <2>2 DEF BlobDeleteCheck, Begin, Referenced
  <2>3. CASE q # p
    <3>1. pc[q] = "unlink" /\ repo'[q] = repo[q] /\ item'[q] = item[q]
      BY <1>3, <2>3 DEF BlobDeleteCheck, Begin
    <3> QED
      BY <2>1, <3>1 DEF UnlinkersInformed, Referenced
  <2> QED
    BY <2>2, <2>3
<1>4. ASSUME NEW p \in Procs, NEW r \in Repos, NEW b \in Blobs, NEW from \in Repos, MountCheck(p, from, r, b) PROVE Keeps
  BY <1>4 DEF MountCheck, Begin, PushBegins
<1>5. ASSUME NEW p \in Procs, NEW r \in Repos, NEW m \in Manifests, ManifestCheck(p, r, m) PROVE Keeps
  BY <1>5 DEF ManifestCheck, Begin, PushBegins
<1>6. ASSUME NEW p \in Procs, CommitPut(p) PROVE Keeps
  BY <1>6 DEF CommitPut, Goto
<1>7. ASSUME NEW p \in Procs, UpsertBlob(p) PROVE Keeps
  BY <1>7 DEF UpsertBlob, Finish
<1>8. ASSUME NEW p \in Procs, LinkBlob(p) PROVE Keeps
  BY <1>8 DEF LinkBlob, Finish
<1>9. ASSUME NEW p \in Procs, UpsertManifest(p) PROVE UnlinkersInformed'
  <2> SUFFICES ASSUME NEW q \in Procs, pc'[q] = "unlink", item'[q] \notin raced' PROVE ~Referenced(repo[q], item[q])'
    BY DEF UnlinkersInformed
  <2>1. /\ q # p /\ pc[q] = "unlink" /\ repo'[q] = repo[q] /\ item'[q] = item[q]
        /\ pc[p] = "manifest" /\ raced' = raced
        /\ manifests' \subseteq manifests \cup {<<repo[p], item[p]>>}
    BY <1>9 DEF UpsertManifest, Finish
  <2>2. item[q] \notin Layers[item[p]]
    BY <2>1 DEF RacesRecorded, Wants, Cleans
  <2>3. ~Referenced(repo[q], item[q])
    BY <2>1 DEF UnlinkersInformed
  <2> QED
    BY <2>1, <2>2, <2>3 DEF Referenced
<1>10. ASSUME NEW p \in Procs, UnlinkBlob(p) PROVE Keeps
  BY <1>10 DEF UnlinkBlob, Finish
<1>11. ASSUME NEW p \in Procs, GcUnlink(p) PROVE Keeps
  BY <1>11 DEF GcUnlink, MayClean, CleaningBegins
<1>12. ASSUME NEW p \in Procs, GcRows(p) PROVE Keeps
  BY <1>12 DEF GcRows
<1>13. ASSUME NEW p \in Procs, RemoveContent(p) PROVE Keeps
  BY <1>13 DEF RemoveContent
<1>14. ASSUME NEW p \in Procs, RemoveDone(p) PROVE Keeps
  BY <1>14 DEF RemoveDone, Finish
<1>15. ASSUME NEW p \in Procs, VerifyList(p) PROVE Keeps
  BY <1>15 DEF VerifyList, MayClean, CleaningBegins
<1>16. ASSUME NEW p \in Procs, VerifyWalk(p) PROVE Keeps
  BY <1>16 DEF VerifyWalk
<1>17. ASSUME NEW p \in Procs, Crash(p) PROVE Keeps
  BY <1>17 DEF Crash, Finish
<1>18. ASSUME NEW r \in Repos, NEW m \in Manifests, DeleteManifest(r, m) PROVE Keeps
  BY <1>18 DEF DeleteManifest
<1>19. ASSUME NEW r \in Repos, DeleteRepository(r) PROVE UnlinkersInformed'
  <2> SUFFICES ASSUME NEW q \in Procs, pc'[q] = "unlink", item'[q] \notin raced' PROVE ~Referenced(repo[q], item[q])'
    BY DEF UnlinkersInformed
  <2>1. /\ pc[q] = "unlink" /\ item'[q] = item[q] /\ raced' = raced
        /\ manifests' \subseteq manifests
        /\ repo'[q] = repo[q] \/ repo'[q] = NoRepo
    BY <1>19 DEF DeleteRepository
  <2>2. CASE repo'[q] = NoRepo
    <3>1. \A m : <<NoRepo, m>> \notin manifests
      OBVIOUS
    <3> QED
      BY <2>1, <2>2, <3>1 DEF Referenced
  <2>3. CASE repo'[q] = repo[q]
    BY <2>1, <2>3, StaysUnreferenced DEF UnlinkersInformed, Referenced
  <2> QED
    BY <2>1, <2>2, <2>3
<1>20. ASSUME Tick PROVE Keeps
  BY <1>20 DEF Tick
<1>21. ASSUME Keeps PROVE UnlinkersInformed'
  <2> SUFFICES ASSUME NEW q \in Procs, pc'[q] = "unlink", item'[q] \notin raced' PROVE ~Referenced(repo[q], item[q])'
    BY DEF UnlinkersInformed
  <2>1. ~Referenced(repo[q], item[q]) /\ repo'[q] = repo[q] /\ item'[q] = item[q]
    BY <1>21 DEF UnlinkersInformed
  <2> QED
    BY <1>21, <2>1, StaysUnreferenced DEF Referenced
<1> HIDE DEF Keeps
<1> QED
  BY <1>1, <1>2, <1>3, <1>4, <1>5, <1>6, <1>7, <1>8, <1>9, <1>10, <1>11, <1>12, <1>13, <1>14, <1>15, <1>16, <1>17, <1>18, <1>19, <1>20, <1>21
  DEF Next

\* No row appears for content that is being removed.
LEMMA RemoveStep == Inv /\ [Next]_vars => RemoversInformed'
<1> SUFFICES ASSUME Inv, [Next]_vars PROVE RemoversInformed'
  OBVIOUS
<1> USE DEF Inv, TypeOK, RemoversInformed
<1>1. CASE UNCHANGED vars
  BY <1>1 DEF vars
<1>2. ASSUME NEW p \in Procs, NEW r \in Repos, NEW b \in Blobs, CommitStat(p, r, b) PROVE RemoversInformed'
  BY <1>2 DEF CommitStat, Begin, PushBegins
<1>3. ASSUME NEW p \in Procs, NEW r \in Repos, NEW b \in Blobs, BlobDeleteCheck(p, r, b) PROVE RemoversInformed'
  BY <1>3 DEF BlobDeleteCheck, Begin, MayClean, CleaningBegins
<1>4. ASSUME NEW p \in Procs, NEW r \in Repos, NEW b \in Blobs, NEW from \in Repos, MountCheck(p, from, r, b) PROVE RemoversInformed'
  BY <1>4 DEF MountCheck, Begin, PushBegins
<1>5. ASSUME NEW p \in Procs, NEW r \in Repos, NEW m \in Manifests, ManifestCheck(p, r, m) PROVE RemoversInformed'
  BY <1>5 DEF ManifestCheck, Begin, PushBegins
<1>6. ASSUME NEW p \in Procs, CommitPut(p) PROVE RemoversInformed'
  BY <1>6 DEF CommitPut, Goto
<1>7. ASSUME NEW p \in Procs, UpsertBlob(p) PROVE RemoversInformed'
  <2> SUFFICES ASSUME NEW q \in Procs, pc'[q] \in {"remove", "orphans"} PROVE todo'[q] \cap rows' \subseteq raced'
    OBVIOUS
  <2>1. /\ q # p /\ pc[q] \in {"remove", "orphans"} /\ todo'[q] = todo[q]
        /\ rows' \subseteq rows \cup {item[p]} /\ raced' = raced /\ pc[p] = "link"
    BY <1>7 DEF UpsertBlob, Finish
  <2>2. item[p] \notin todo[q] \/ item[p] \in raced
    BY <2>1 DEF RacesRecorded, Wants, Cleans, CleanerStates
  <2> QED
    BY <2>1, <2>2
<1>8. ASSUME NEW p \in Procs, LinkBlob(p) PROVE RemoversInformed'
  BY <1>8 DEF LinkBlob, Finish
<1>9. ASSUME NEW p \in Procs, UpsertManifest(p) PROVE RemoversInformed'
  BY <1>9 DEF UpsertManifest, Finish
<1>10. ASSUME NEW p \in Procs, UnlinkBlob(p) PROVE RemoversInformed'
  BY <1>10 DEF UnlinkBlob, Finish
<1>11. ASSUME NEW p \in Procs, GcUnlink(p) PROVE RemoversInformed'
  BY <1>11 DEF GcUnlink, MayClean, CleaningBegins
<1>12. ASSUME NEW p \in Procs, GcRows(p) PROVE RemoversInformed'
  BY <1>12 DEF GcRows
<1>13. ASSUME NEW p \in Procs, RemoveContent(p) PROVE RemoversInformed'
  BY <1>13 DEF RemoveContent
<1>14. ASSUME NEW p \in Procs, RemoveDone(p) PROVE RemoversInformed'
  BY <1>14 DEF RemoveDone, Finish
<1>15. ASSUME NEW p \in Procs, VerifyList(p) PROVE RemoversInformed'
  BY <1>15 DEF VerifyList, MayClean, CleaningBegins
<1>16. ASSUME NEW p \in Procs, VerifyWalk(p) PROVE RemoversInformed'
  BY <1>16 DEF VerifyWalk
<1>17. ASSUME NEW p \in Procs, Crash(p) PROVE RemoversInformed'
  BY <1>17 DEF Crash, Finish
<1>18. ASSUME NEW r \in Repos, NEW m \in Manifests, DeleteManifest(r, m) PROVE RemoversInformed'
  BY <1>18 DEF DeleteManifest
<1>19. ASSUME NEW r \in Repos, DeleteRepository(r) PROVE RemoversInformed'
  BY <1>19 DEF DeleteRepository
<1>20. CASE Tick
  BY <1>20 DEF Tick
<1> QED
  BY <1>1, <1>2, <1>3, <1>4, <1>5, <1>6, <1>7, <1>8, <1>9, <1>10, <1>11, <1>12, <1>13, <1>14, <1>15, <1>16, <1>17, <1>18, <1>19, <1>20
  DEF Next

\* Manifests arrive with their layers linked, and lose none.
LEMMA LayerStep == Inv /\ [Next]_vars => LayersLinked'
<1> SUFFICES ASSUME Inv, [Next]_vars PROVE LayersLinked'
  OBVIOUS
<1> USE NoRepoAssumption, LayersAssumption DEF Inv, TypeOK, PushesInformed, UnlinkersInformed, LayersLinked
<1>1. CASE UNCHANGED vars
  BY <1>1 DEF vars
<1>2. ASSUME NEW p \in Procs, NEW r \in Repos, NEW b \in Blobs, CommitStat(p, r, b) PROVE LayersLinked'
  BY <1>2 DEF CommitStat, Begin, PushBegins
<1>3. ASSUME NEW p \in Procs, NEW r \in Repos, NEW b \in Blobs, BlobDeleteCheck(p, r, b) PROVE LayersLinked'
  BY <1>3 DEF BlobDeleteCheck, Begin, MayClean, CleaningBegins
<1>4. ASSUME NEW p \in Procs, NEW r \in Repos, NEW b \in Blobs, NEW from \in Repos, MountCheck(p, from, r, b) PROVE LayersLinked'
  BY <1>4 DEF MountCheck, Begin, PushBegins
<1>5. ASSUME NEW p \in Procs, NEW r \in Repos, NEW m \in Manifests, ManifestCheck(p, r, m) PROVE LayersLinked'
  BY <1>5 DEF ManifestCheck, Begin, PushBegins
<1>6. ASSUME NEW p \in Procs, CommitPut(p) PROVE LayersLinked'
  BY <1>6 DEF CommitPut, Goto
<1>7. ASSUME NEW p \in Procs, UpsertBlob(p) PROVE LayersLinked'
  <2>1. links \subseteq links' /\ manifests' = manifests /\ raced' = raced
    BY <1>7 DEF UpsertBlob
  <2> QED
    BY <2>1
<1>8. ASSUME NEW p \in Procs, LinkBlob(p) PROVE LayersLinked'
  BY <1>8 DEF LinkBlob, Finish
<1>9. ASSUME NEW p \in Procs, UpsertManifest(p) PROVE LayersLinked'
  <2>1. CASE repo[p] = NoRepo
    BY <1>9, <2>1 DEF UpsertManifest
  <2>2. CASE repo[p] # NoRepo
    <3> SUFFICES ASSUME NEW x \in manifests', NEW b \in Layers[x[2]] \ raced PROVE <<x[1], b>> \in links
      BY <1>9 DEF UpsertManifest
    <3>1. x \in manifests \/ x = <<repo[p], item[p]>>
      BY <1>9, <2>2 DEF UpsertManifest
    <3>2. CASE x \in manifests
      BY <3>2
    <3>3. CASE x = <<repo[p], item[p]>>
      BY <1>9, <2>2, <3>3 DEF UpsertManifest
    <3> QED
      BY <3>1, <3>2, <3>3
  <2> QED
    BY <2>1, <2>2
<1>10. ASSUME NEW p \in Procs, UnlinkBlob(p) PROVE LayersLinked'
  <2> SUFFICES ASSUME NEW x \in manifests, NEW b \in Layers[x[2]] \ raced PROVE <<x[1], b>> \in links'
    BY <1>10 DEF UnlinkBlob
  <2>1. Referenced(x[1], b) /\ <<x[1], b>> \in links
    BY LayersAreReferenced
  <2>2. <<x[1], b>> # <<repo[p], item[p]>>
    BY <1>10, <2>1 DEF UnlinkBlob
  <2> QED
    BY <1>10, <2>1, <2>2 DEF UnlinkBlob
<1>11. ASSUME NEW p \in Procs, GcUnlink(p) PROVE LayersLinked'
  <2> SUFFICES ASSUME NEW x \in manifests, NEW b \in Layers[x[2]] \ raced PROVE <<x[1], b>> \in links'
    BY <1>11 DEF GcUnlink, MayClean, CleaningBegins
  <2>1. Referenced(x[1], b) /\ <<x[1], b>> \in links
    BY LayersAreReferenced
  <2> QED
    BY <1>11, <2>1 DEF GcUnlink, MayClean, CleaningBegins
<1>12. ASSUME NEW p \in Procs, GcRows(p) PROVE LayersLinked'
  BY <1>12 DEF GcRows
<1>13. ASSUME NEW p \in Procs, RemoveContent(p) PROVE LayersLinked'
  BY <1>13 DEF RemoveContent
<1>14. ASSUME NEW p \in Procs, RemoveDone(p) PROVE LayersLinked'
  BY <1>14 DEF RemoveDone, Finish
<1>15. ASSUME NEW p \in Procs, VerifyList(p) PROVE LayersLinked'
  BY <1>15 DEF VerifyList, MayClean, CleaningBegins
<1>16. ASSUME NEW p \in Procs, VerifyWalk(p) PROVE LayersLinked'
  BY <1>16 DEF VerifyWalk
<1>17. ASSUME NEW p \in Procs, Crash(p) PROVE LayersLinked'
  BY <1>17 DEF Crash, Finish
<1>18. ASSUME NEW r \in Repos, NEW m \in Manifests, DeleteManifest(r, m) PROVE LayersLinked'
  BY <1>18 DEF DeleteManifest
<1>19. ASSUME NEW r \in Repos, DeleteRepository(r) PROVE LayersLinked'
  BY <1>19 DEF DeleteRepository
<1>20. CASE Tick
  BY <1>20 DEF Tick
<1> QED
  BY <1>1, <1>2, <1>3, <1>4, <1>5, <1>6, <1>7, <1>8, <1>9, <1>10, <1>11, <1>12, <1>13, <1>14, <1>15, <1>16, <1>17, <1>18, <1>19, <1>20
  DEF Next

\* Rows arrive after their content, and content goes after its row.
LEMMA RowStep == Inv /\ [Next]_vars => RowsHaveContent'
<1> SUFFICES ASSUME Inv, [Next]_vars PROVE RowsHaveContent'
  OBVIOUS
<1> USE NoRepoAssumption DEF Inv, TypeOK, PushesInformed, RemoversInformed, RowsHaveContent
<1>1. CASE UNCHANGED vars
  BY <1>1 DEF vars
<1>2. ASSUME NEW p \in Procs, NEW r \in Repos, NEW b \in Blobs, CommitStat(p, r, b) PROVE RowsHaveContent'
  BY <1>2 DEF CommitStat, Begin, PushBegins
<1>3. ASSUME NEW p \in Procs, NEW r \in Repos, NEW b \in Blobs, BlobDeleteCheck(p, r, b) PROVE RowsHaveContent'
  BY <1>3 DEF BlobDeleteCheck, Begin, MayClean, CleaningBegins
<1>4. ASSUME NEW p \in Procs, NEW r \in Repos, NEW b \in Blobs, NEW from \in Repos, MountCheck(p, from, r, b) PROVE RowsHaveContent'
  BY <1>4 DEF MountCheck, Begin, PushBegins
<1>5. ASSUME NEW p \in Procs, NEW r \in Repos, NEW m \in Manifests, ManifestCheck(p, r, m) PROVE RowsHaveContent'
  BY <1>5 DEF ManifestCheck, Begin, PushBegins
<1>6. ASSUME NEW p \in Procs, CommitPut(p) PROVE RowsHaveContent'
  BY <1>6 DEF CommitPut, Goto
<1>7. ASSUME NEW p \in Procs, UpsertBlob(p) PROVE RowsHaveContent'
  BY <1>7 DEF UpsertBlob, Finish
<1>8. ASSUME NEW p \in Procs, LinkBlob(p) PROVE RowsHaveContent'
  BY <1>8 DEF LinkBlob, Finish
<1>9. ASSUME NEW p \in Procs, UpsertManifest(p) PROVE RowsHaveContent'
  BY <1>9 DEF UpsertManifest, Finish
<1>10. ASSUME NEW p \in Procs, UnlinkBlob(p) PROVE RowsHaveContent'
  BY <1>10 DEF UnlinkBlob, Finish
<1>11. ASSUME NEW p \in Procs, GcUnlink(p) PROVE RowsHaveContent'
  BY <1>11 DEF GcUnlink, MayClean, CleaningBegins
<1>12. ASSUME NEW p \in Procs, GcRows(p) PROVE RowsHaveContent'
  BY <1>12 DEF GcRows
<1>13. ASSUME NEW p \in Procs, RemoveContent(p) PROVE RowsHaveContent'
  BY <1>13 DEF RemoveContent
<1>14. ASSUME NEW p \in Procs, RemoveDone(p) PROVE RowsHaveContent'
  BY <1>14 DEF RemoveDone, Finish
<1>15. ASSUME NEW p \in Procs, VerifyList(p) PROVE RowsHaveContent'
  BY <1>15 DEF VerifyList, MayClean, CleaningBegins
<1>16. ASSUME NEW p \in Procs, VerifyWalk(p) PROVE RowsHaveContent'
  BY <1>16 DEF VerifyWalk
<1>17. ASSUME NEW p \in Procs, Crash(p) PROVE RowsHaveContent'
  BY <1>17 DEF Crash, Finish
<1>18. ASSUME NEW r \in Repos, NEW m \in Manifests, DeleteManifest(r, m) PROVE RowsHaveContent'
  BY <1>18 DEF DeleteManifest
<1>19. ASSUME NEW r \in Repos, DeleteRepository(r) PROVE RowsHaveContent'
  BY <1>19 DEF DeleteRepository
<1>20. CASE Tick
  BY <1>20 DEF Tick
<1> QED
  BY <1>1, <1>2, <1>3, <1>4, <1>5, <1>6, <1>7, <1>8, <1>9, <1>10, <1>11, <1>12, <1>13, <1>14, <1>15, <1>16, <1>17, <1>18, <1>19, <1>20
  DEF Next

\* The invariant holds throughout.
LEMMA Invariance == Spec => []Inv
<1>1. Inv /\ [Next]_vars => Inv'
  BY TypeStep, RaceStep, PushStep, UnlinkStep, RemoveStep, LayerStep, RowStep DEF Inv
<1> QED
  BY InitInv, <1>1, PTL DEF Spec

\* Type correctness, however cleaners and pushes overlap: in particular every
\* link is to a blob that has a row.
THEOREM TypeCorrect == Spec => []TypeOK
<1>1. Init => TypeOK
  BY InitInv DEF Inv
<1> QED
  BY <1>1, TypeStep, PTL DEF Spec

\* Every blob of every manifest is linked and stored, unless it was cleaned
\* while it was pushed ...
THEOREM ImagesStayWhole == Spec => []ManifestsComplete
<1>1. Inv => ManifestsComplete
  BY ZenonT(60) DEF Inv, TypeOK, LayersLinked, RowsHaveContent, ManifestsComplete
<1> QED
  BY Invariance, <1>1, PTL

\* ... as is the content of every row of the blobs table ...
THEOREM RowsKeepContent == Spec => []RowsHaveContent
<1>1. Inv => RowsHaveContent
  BY DEF Inv
<1> QED
  BY Invariance, <1>1, PTL

\* ... and no layer is pulled out from under a manifest that uses it.
THEOREM LayersStay == Spec => LayersStayUnderManifests
<1> DEFINE Step == \A l \in links : l \notin links' /\ l[2] \notin raced =>
                     ~(Referenced(l[1], l[2]) /\ Referenced(l[1], l[2])')
<1>1. Inv /\ [Next]_vars => [Step]_vars
  <2> SUFFICES ASSUME Inv, Next PROVE Step
    OBVIOUS
  <2> USE NoRepoAssumption DEF Inv, TypeOK, UnlinkersInformed, Referenced
  <2>1. ASSUME NEW p \in Procs, NEW r \in Repos, NEW b \in Blobs, CommitStat(p, r, b) PROVE Step
    BY <2>1 DEF CommitStat, Begin, PushBegins
  <2>2. ASSUME NEW p \in Procs, NEW r \in Repos, NEW b \in Blobs, BlobDeleteCheck(p, r, b) PROVE Step
    BY <2>2 DEF BlobDeleteCheck, Begin, MayClean, CleaningBegins
  <2>3. ASSUME NEW p \in Procs, NEW r \in Repos, NEW b \in Blobs, NEW from \in Repos, MountCheck(p, from, r, b) PROVE Step
    BY <2>3 DEF MountCheck, Begin, PushBegins
  <2>4. ASSUME NEW p \in Procs, NEW r \in Repos, NEW m \in Manifests, ManifestCheck(p, r, m) PROVE Step
    BY <2>4 DEF ManifestCheck, Begin, PushBegins
  <2>5. ASSUME NEW p \in Procs, CommitPut(p) PROVE Step
    BY <2>5 DEF CommitPut, Goto
  <2>6. ASSUME NEW p \in Procs, UpsertBlob(p) PROVE Step
    BY <2>6 DEF UpsertBlob, Finish
  <2>7. ASSUME NEW p \in Procs, LinkBlob(p) PROVE Step
    BY <2>7 DEF LinkBlob, Finish
  <2>8. ASSUME NEW p \in Procs, UpsertManifest(p) PROVE Step
    BY <2>8 DEF UpsertManifest, Finish
  <2>9. ASSUME NEW p \in Procs, UnlinkBlob(p) PROVE Step
    <3> SUFFICES ASSUME NEW l \in links, l \notin links', l[2] \notin raced PROVE ~Referenced(l[1], l[2])
      OBVIOUS
    <3>1. l = <<repo[p], item[p]>> /\ pc[p] = "unlink"
      BY <2>9 DEF UnlinkBlob
    <3> QED
      BY <3>1
  <2>10. ASSUME NEW p \in Procs, GcUnlink(p) PROVE Step
    BY <2>10 DEF GcUnlink, MayClean, CleaningBegins
  <2>11. ASSUME NEW p \in Procs, GcRows(p) PROVE Step
    BY <2>11 DEF GcRows
  <2>12. ASSUME NEW p \in Procs, RemoveContent(p) PROVE Step
    BY <2>12 DEF RemoveContent
  <2>13. ASSUME NEW p \in Procs, RemoveDone(p) PROVE Step
    BY <2>13 DEF RemoveDone, Finish
  <2>14. ASSUME NEW p \in Procs, VerifyList(p) PROVE Step
    BY <2>14 DEF VerifyList, MayClean, CleaningBegins
  <2>15. ASSUME NEW p \in Procs, VerifyWalk(p) PROVE Step
    BY <2>15 DEF VerifyWalk
  <2>16. ASSUME NEW p \in Procs, Crash(p) PROVE Step
    BY <2>16 DEF Crash, Finish
  <2>17. ASSUME NEW r \in Repos, NEW m \in Manifests, DeleteManifest(r, m) PROVE Step
    BY <2>17 DEF DeleteManifest
  <2>18. ASSUME NEW r \in Repos, DeleteRepository(r) PROVE Step
    BY <2>18 DEF DeleteRepository
  <2>19. CASE Tick
    BY <2>19 DEF Tick
  <2> QED
    BY <2>1, <2>2, <2>3, <2>4, <2>5, <2>6, <2>7, <2>8, <2>9, <2>10, <2>11, <2>12, <2>13, <2>14, <2>15, <2>16, <2>17, <2>18, <2>19
    DEF Next
<1> QED
  BY Invariance, <1>1, PTL DEF Spec, LayersStayUnderManifests
=============================================================================
