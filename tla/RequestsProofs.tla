--------------------------- MODULE RequestsProofs ---------------------------
(***************************************************************************)
(* What registryd does with pushes and deletes: what the row lock of       *)
(* UpsertTagGuarded gives, for any number of requests, tags and manifests, *)
(* what appends to one session on local staging leave of each other, for   *)
(* any number of sessions, requests and sweeps, what is found under a      *)
(* former name, for any number of organizations, repositories and requests *)
(* that overlap, and what the pattern matcher decides, for any pattern and *)
(* any tag.                                                                *)
(***************************************************************************)
EXTENDS TagRules, LocalStaging, Redirects, TagGlob, SequenceTheorems, TLAPS

-----------------------------------------------------------------------------
(* Tag rules. *)

\* A push that found an immutable tag goes on only with the manifest the tag
\* names already.
CheckedInserts ==
    \A h \in Procs :
      pc[h] = "insert" /\ found[h] # None /\ tag[h] \in Immutable => found[h] = digest[h]

Inv == TypeOK /\ LockedRowsStay /\ CheckedInserts

USE DEF procVars

\* The initial state satisfies the invariant.
LEMMA InitInv == Init => Inv
BY NoneAssumption DEF Init, Inv, TypeOK, LockedRowsStay, CheckedInserts

\* Every step preserves type correctness.
LEMMA TypeStep == TypeOK /\ [Next]_vars => TypeOK'
<1> SUFFICES ASSUME TypeOK, [Next]_vars PROVE TypeOK'
  OBVIOUS
<1> USE NoneAssumption DEF TypeOK
<1>1. CASE UNCHANGED vars
  BY <1>1 DEF vars
<1>2. ASSUME NEW h \in Procs, NEW t \in Tags, CheckTagDeletable(h, t) PROVE TypeOK'
  BY <1>2 DEF CheckTagDeletable, Begin
<1>3. ASSUME NEW h \in Procs, NEW d \in Digests, CheckManifestDeletable(h, d) PROVE TypeOK'
  BY <1>3 DEF CheckManifestDeletable, Begin
<1>4. ASSUME NEW h \in Procs, NEW d \in Digests, NEW t \in Tags, CheckTagImmutable(h, t, d) PROVE TypeOK'
  BY <1>4 DEF CheckTagImmutable, Begin
<1>5. ASSUME NEW d \in Digests, PushByDigest(d) PROVE TypeOK'
  BY <1>5 DEF PushByDigest
<1>6. ASSUME NEW h \in Procs, UpsertManifest(h) PROVE TypeOK'
  BY <1>6 DEF UpsertManifest
<1>7. ASSUME NEW h \in Procs, SelectForUpdate(h) PROVE TypeOK'
  BY <1>7 DEF SelectForUpdate, Finish
<1>8. ASSUME NEW h \in Procs, InsertTag(h) PROVE TypeOK'
  BY <1>8 DEF InsertTag, Finish
<1>9. ASSUME NEW h \in Procs, DeleteTag(h) PROVE TypeOK'
  BY <1>9 DEF DeleteTag, Finish
<1>10. ASSUME NEW h \in Procs, DeleteManifest(h) PROVE TypeOK'
  BY <1>10 DEF DeleteManifest, Finish
<1>11. ASSUME NEW h \in Procs, Crash(h) PROVE TypeOK'
  BY <1>11 DEF Crash, Finish
<1> QED
  BY <1>1, <1>2, <1>3, <1>4, <1>5, <1>6, <1>7, <1>8, <1>9, <1>10, <1>11 DEF Next

\* Every step keeps the rows that pushes have locked, and what they checked.
LEMMA LockStep == Inv /\ [Next]_vars => LockedRowsStay' /\ CheckedInserts'
<1> SUFFICES ASSUME Inv, [Next]_vars PROVE LockedRowsStay' /\ CheckedInserts'
  OBVIOUS
<1> USE NoneAssumption DEF Inv, TypeOK, LockedRowsStay, CheckedInserts
<1> DEFINE Goal == LockedRowsStay' /\ CheckedInserts'
<1>1. CASE UNCHANGED vars
  BY <1>1 DEF vars
<1>2. ASSUME NEW h \in Procs, NEW t \in Tags, CheckTagDeletable(h, t) PROVE Goal
  BY <1>2 DEF CheckTagDeletable, Begin
<1>3. ASSUME NEW h \in Procs, NEW d \in Digests, CheckManifestDeletable(h, d) PROVE Goal
  BY <1>3 DEF CheckManifestDeletable, Begin
<1>4. ASSUME NEW h \in Procs, NEW d \in Digests, NEW t \in Tags, CheckTagImmutable(h, t, d) PROVE Goal
  BY <1>4 DEF CheckTagImmutable, Begin
<1>5. ASSUME NEW d \in Digests, PushByDigest(d) PROVE Goal
  BY <1>5 DEF PushByDigest
<1>6. ASSUME NEW h \in Procs, UpsertManifest(h) PROVE Goal
  BY <1>6 DEF UpsertManifest
<1>7. ASSUME NEW h \in Procs, SelectForUpdate(h) PROVE Goal
  BY <1>7 DEF SelectForUpdate, Finish, Unlocked, MayPoint
<1>8. ASSUME NEW h \in Procs, InsertTag(h) PROVE Goal
  BY <1>8 DEF InsertTag, Finish, Unlocked
<1>9. ASSUME NEW h \in Procs, DeleteTag(h) PROVE Goal
  BY <1>9 DEF DeleteTag, Finish, Unlocked
<1>10. ASSUME NEW h \in Procs, DeleteManifest(h) PROVE Goal
  BY <1>10 DEF DeleteManifest, Finish, Unlocked
<1>11. ASSUME NEW h \in Procs, Crash(h) PROVE Goal
  BY <1>11 DEF Crash, Finish
<1> QED
  BY <1>1, <1>2, <1>3, <1>4, <1>5, <1>6, <1>7, <1>8, <1>9, <1>10, <1>11 DEF Next

\* The invariant holds throughout.
LEMMA Invariance == Spec => []Inv
<1>1. Inv /\ [Next]_vars => Inv'
  BY TypeStep, LockStep DEF Inv
<1> QED
  BY InitInv, <1>1, PTL DEF Spec

\* Type correctness: in particular a tag names a manifest of its repository,
\* whatever pushes and deletes race.
THEOREM TypeCorrect == Spec => []TypeOK
<1>1. Inv => TypeOK
  BY DEF Inv
<1> QED
  BY Invariance, <1>1, PTL

\* The row that UpsertTagGuarded found and locked is unchanged when it writes.
THEOREM LocksHold == Spec => []LockedRowsStay
<1>1. Inv => LockedRowsStay
  BY DEF Inv
<1> QED
  BY Invariance, <1>1, PTL

\* Only a push that found no row can re-point an immutable tag.
THEOREM ImmutableUnlessNew == Spec => FoundImmutableTagsStay
<1>1. Inv /\ [Next]_vars => [\A t \in Immutable : Repointed(t) => RepointedByFirstPush(t)]_vars
  <2> SUFFICES ASSUME Inv, Next, NEW t \in Immutable, Repointed(t)
               PROVE RepointedByFirstPush(t)
    OBVIOUS
  <2> USE NoneAssumption, RulesAssumption DEF Inv, TypeOK, Repointed
  <2>1. PICK h \in Procs : InsertTag(h)
    BY DEF Next, CheckTagDeletable, CheckManifestDeletable, CheckTagImmutable, PushByDigest,
           UpsertManifest, SelectForUpdate, InsertTag, DeleteTag, DeleteManifest, Crash
  <2>2. tag[h] = t /\ tags'[t] = digest[h]
    BY <2>1 DEF InsertTag
  <2>3. found[h] = None
    BY <2>1, <2>2 DEF InsertTag, LockedRowsStay, CheckedInserts
  <2> QED
    BY <2>1, <2>2, <2>3 DEF InsertTag, RepointedByFirstPush
<1> QED
  BY Invariance, <1>1, PTL DEF Spec, FoundImmutableTagsStay

-----------------------------------------------------------------------------
(* Local staging. *)

Pieces == [by : Handlers, at : Nat]

\* From a base on, a file has so many pieces of z, meant for the offsets from
\* the base on, in that order.
Has(z, file, base, copies) ==
    /\ base \in Nat /\ base <= Len(file)
    /\ \A i \in DOMAIN file : i > base /\ file[i].by = z => file[i].at < base + copies
    /\ \A k \in 0 .. copies - 1 : \E i \in DOMAIN file : i > base /\ file[i].by = z /\ file[i].at = base + k
    /\ \A i, j \in DOMAIN file :
         i > base /\ file[i].by = z /\ j > base /\ file[j].by = z /\ i < j => file[i].at < file[j].at

Active(z) == stage[z] \in {"write", "size"}

\* What z has copied is in its file.
PiecesOf(z) == Active(z) /\ sess[z] \in files => Has(z, data[sess[z]], Base(z), Copies(z))

\* Requests work on sessions that were created, and a file that is yet to be
\* created is no one's: it comes to be once.
SessionsOwned == \A h \in Handlers : stage[h] \notin {"idle", "sweep"} => sess[h] \in created

FilesComeOnce ==
    \A h \in Handlers : stage[h] = "created" =>
        /\ sess[h] \notin files
        /\ \A q \in Handlers : q # h /\ (stage[q] = "created" \/ stage[q] = "checked" \/ Active(q)) => sess[q] # sess[h]

StagingInv ==
    /\ StagingTypeOK /\ SessionsOwned /\ FilesComeOnce
    /\ \A h \in Handlers : PiecesOf(h)

\* The first state satisfies the invariant.
LEMMA StagingInitInv == StagingInit => StagingInv
<1> SUFFICES ASSUME StagingInit PROVE StagingInv
  OBVIOUS
<1>1. << >> \in Seq(Pieces) /\ 0 \in 0 .. BodyPieces
  BY PiecesAssumption
<1>2. StagingTypeOK
  BY <1>1 DEF StagingInit, StagingTypeOK, States, Pieces
<1> QED
  BY <1>2 DEF StagingInit, StagingInv, SessionsOwned, FilesComeOnce, PiecesOf, Active

\* A piece of another request does not disturb, ...
LEMMA OtherPiece ==
    ASSUME NEW z, NEW base, NEW copies, NEW file \in Seq(Pieces), NEW x \in Pieces, x.by # z, Has(z, file, base, copies)
    PROVE  Has(z, Append(file, x), base, copies)
<1> DEFINE more == Append(file, x)
<1>1. /\ Len(file) \in Nat /\ DOMAIN file = 1 .. Len(file) /\ DOMAIN more = 1 .. Len(file) + 1
      /\ Len(more) = Len(file) + 1
      /\ \A i \in 1 .. Len(file) : more[i] = file[i]
      /\ more[Len(file) + 1] = x
  BY AppendProperties
<1> HIDE DEF more
<1>2. \A i \in DOMAIN more : more[i].by = z => i \in DOMAIN file /\ more[i] = file[i]
  <2> SUFFICES ASSUME NEW i \in DOMAIN more, more[i].by = z PROVE i \in DOMAIN file /\ more[i] = file[i]
    OBVIOUS
  <2>1. i # Len(file) + 1
    BY <1>1
  <2>2. i \in 1 .. Len(file)
    BY <1>1, <2>1
  <2> QED
    BY <1>1, <2>2
<1>3. base \in Nat /\ base <= Len(more)
  BY <1>1 DEF Has
<1>4. \A i \in DOMAIN more : i > base /\ more[i].by = z => more[i].at < base + copies
  BY <1>2 DEF Has
<1>5. \A k \in 0 .. copies - 1 : \E i \in DOMAIN more : i > base /\ more[i].by = z /\ more[i].at = base + k
  <2> TAKE k \in 0 .. copies - 1
  <2>1. PICK i \in DOMAIN file : i > base /\ file[i].by = z /\ file[i].at = base + k
    BY DEF Has
  <2> QED
    BY <1>1, <2>1
<1>6. \A i, j \in DOMAIN more :
        i > base /\ more[i].by = z /\ j > base /\ more[j].by = z /\ i < j => more[i].at < more[j].at
  BY <1>2 DEF Has
<1> QED
  BY <1>3, <1>4, <1>5, <1>6 DEF Has, more

\* ... and the next piece of the body is one more.
LEMMA OwnPiece ==
    ASSUME NEW z \in Handlers, NEW base, NEW copies \in Nat, NEW file \in Seq(Pieces), Has(z, file, base, copies)
    PROVE  Has(z, Append(file, [by |-> z, at |-> base + copies]), base, copies + 1)
<1> DEFINE x == [by |-> z, at |-> base + copies]
           more == Append(file, x)
<1>0. base \in Nat /\ base <= Len(file) /\ x \in Pieces /\ x.by = z /\ x.at = base + copies
  BY DEF Has, Pieces
<1>1. /\ Len(file) \in Nat /\ DOMAIN file = 1 .. Len(file) /\ DOMAIN more = 1 .. Len(file) + 1
      /\ Len(more) = Len(file) + 1
      /\ \A i \in 1 .. Len(file) : more[i] = file[i] /\ file[i] \in Pieces
      /\ more[Len(file) + 1] = x
  BY <1>0, AppendProperties
<1> HIDE DEF more, x
<1>2. \A i \in DOMAIN more : (i \in DOMAIN file /\ more[i] = file[i]) \/ more[i] = x
  BY <1>1
<1>3. base <= Len(more)
  BY <1>0, <1>1
<1>4. \A i \in DOMAIN more : i > base /\ more[i].by = z => more[i].at < base + (copies + 1)
  <2> SUFFICES ASSUME NEW i \in DOMAIN more, i > base, more[i].by = z PROVE more[i].at < base + (copies + 1)
    OBVIOUS
  <2>1. CASE i \in DOMAIN file /\ more[i] = file[i]
    <3>1. file[i].at < base + copies
      BY <2>1 DEF Has
    <3>2. file[i].at \in Nat
      BY <1>1, <2>1 DEF Pieces
    <3> QED
      BY <1>0, <2>1, <3>1, <3>2
  <2>2. CASE more[i] = x
    BY <1>0, <2>2
  <2> QED
    BY <1>2, <2>1, <2>2
<1>5. \A k \in 0 .. (copies + 1) - 1 : \E i \in DOMAIN more : i > base /\ more[i].by = z /\ more[i].at = base + k
  <2> TAKE k \in 0 .. (copies + 1) - 1
  <2>1. CASE k = copies
    BY <1>0, <1>1, <2>1
  <2>2. CASE k # copies
    <3>1. k \in 0 .. copies - 1
      BY <2>2
    <3>2. PICK i \in DOMAIN file : i > base /\ file[i].by = z /\ file[i].at = base + k
      BY <3>1 DEF Has
    <3> QED
      BY <1>1, <3>2
  <2> QED
    BY <2>1, <2>2
<1>6. \A i, j \in DOMAIN more :
        i > base /\ more[i].by = z /\ j > base /\ more[j].by = z /\ i < j => more[i].at < more[j].at
  <2> SUFFICES ASSUME NEW i \in DOMAIN more, NEW j \in DOMAIN more,
                      i > base, more[i].by = z, j > base, more[j].by = z, i < j
               PROVE  more[i].at < more[j].at
    OBVIOUS
  <2>1. i \in DOMAIN file /\ more[i] = file[i]
    BY <1>1, <1>2
  <2>2. CASE j \in DOMAIN file /\ more[j] = file[j]
    BY <2>1, <2>2 DEF Has
  <2>3. CASE more[j] = x
    BY <1>0, <2>1, <2>3 DEF Has
  <2> QED
    BY <1>2, <2>2, <2>3
<1> QED
  BY <1>0, <1>3, <1>4, <1>5, <1>6 DEF Has, more, x

\* A request that goes on copying what it copied, into a file that is still as
\* it was, keeps its pieces.
LEMMA PiecesKept ==
    ASSUME StagingInv, NEW q \in Handlers,
           Active(q)' => Active(q) /\ sess'[q] = sess[q] /\ expected'[q] = expected[q] /\ left'[q] = left[q],
           Active(q)' /\ sess[q] \in files' => sess[q] \in files /\ data'[sess[q]] = data[sess[q]]
    PROVE  PiecesOf(q)'
BY DEF StagingInv, PiecesOf, Base, Copies

\* The end of a request, whatever has become of its files.
LEMMA AnswerKeeps ==
    ASSUME StagingInv, NEW h \in Handlers, Answer(h)
    PROVE  /\ stage' \in [Handlers -> States] /\ sess' \in [Handlers -> Sessions \cup {NoSession}]
           /\ expected' \in [Handlers -> Nat] /\ left' \in [Handlers -> 0 .. BodyPieces]
           /\ seen' = seen
           /\ stage'[h] \in {"idle", "sweep"}
           /\ \A q \in Handlers \ {h} :
                /\ stage'[q] = stage[q] /\ sess'[q] = sess[q]
                /\ expected'[q] = expected[q] /\ left'[q] = left[q]
<1>1. StagingTypeOK /\ 0 \in 0 .. BodyPieces
  BY PiecesAssumption DEF StagingInv
<1> QED
  BY <1>1 DEF Answer, Goto, StagingTypeOK, States

\* A request of this session ends and at most the files of that session change.
LEMMA AnswerPieces ==
    ASSUME StagingInv, NEW h \in Handlers, Answer(h), NEW gone,
           files' = files \ gone, data' = data
    PROVE  \A q \in Handlers : PiecesOf(q)'
<1> TAKE q \in Handlers
<1>1. Active(q)' => q # h
  BY AnswerKeeps DEF Active
<1> QED
  BY <1>1, AnswerKeeps, PiecesKept DEF Active

\* Every step preserves the invariant.
LEMMA StagingStep == StagingInv /\ [StagingNext]_stagingVars => StagingInv'
<1> SUFFICES ASSUME StagingInv, [StagingNext]_stagingVars PROVE StagingInv'
  OBVIOUS
<1>a. StagingTypeOK /\ SessionsOwned /\ FilesComeOnce /\ \A q \in Handlers : PiecesOf(q)
  BY DEF StagingInv
<1>b. \A q \in Handlers : stage[q] \notin {"idle", "sweep"} => sess[q] \in Sessions
  BY <1>a DEF SessionsOwned, StagingTypeOK
<1>1. CASE UNCHANGED stagingVars
  BY <1>1, <1>a DEF stagingVars, fileVars, handlerVars, StagingInv, StagingTypeOK, SessionsOwned, FilesComeOnce, PiecesOf, Active, Base, Copies
<1>2. ASSUME NEW u \in Sessions, Age(u) PROVE StagingInv'
  <2>1. StagingTypeOK'
    BY <1>2, <1>a DEF Age, handlerVars, StagingTypeOK
  <2> QED
    BY <1>2, <1>a, <2>1 DEF Age, handlerVars, StagingInv, SessionsOwned, FilesComeOnce, PiecesOf, Active, Base, Copies
<1>3. ASSUME NEW h \in Handlers, NEW u \in Sessions, CreateMeta(h, u) PROVE StagingInv'
  <2>1. /\ stage[h] = "idle" /\ u \notin created /\ created' = created \cup {u} /\ meta' = meta \cup {u}
        /\ sess' = [sess EXCEPT ![h] = u] /\ stage' = [stage EXCEPT ![h] = "created"]
        /\ UNCHANGED <<files, data, stale, expected, left, seen>>
    BY <1>3 DEF CreateMeta, Goto
  <2>2. StagingTypeOK'
    BY <1>a, <2>1 DEF StagingTypeOK, States
  <2>3. SessionsOwned'
    BY <1>a, <2>1 DEF StagingTypeOK, SessionsOwned
  <2>4. \A q \in Handlers \ {h} : stage'[q] = stage[q] /\ sess'[q] = sess[q] /\ (sess[q] = u => stage[q] \in {"idle", "sweep"})
    BY <1>a, <2>1 DEF StagingTypeOK, SessionsOwned
  <2>5. FilesComeOnce'
    <3>1. u \notin files /\ sess'[h] = u
      BY <1>a, <2>1 DEF StagingTypeOK
    <3> QED
      BY <1>a, <2>1, <2>4, <3>1 DEF FilesComeOnce, Active
  <2>6. ASSUME NEW q \in Handlers PROVE PiecesOf(q)'
    <3>1. Active(q)' => q # h
      BY <1>a, <2>1 DEF Active, StagingTypeOK
    <3> QED
      BY <2>1, <2>4, <3>1, PiecesKept DEF Active
  <2> QED
    BY <2>2, <2>3, <2>5, <2>6 DEF StagingInv
<1>4. ASSUME NEW h \in Handlers, CreateData(h) PROVE StagingInv'
  <2> DEFINE u == sess[h]
  <2>1. stage[h] = "created" /\ files' = files \cup {u} /\ Answer(h) /\ UNCHANGED <<created, meta, data, stale>>
    BY <1>4 DEF CreateData
  <2>2. u \in created
    BY <1>a, <2>1 DEF SessionsOwned
  <2>3. StagingTypeOK'
    BY <1>a, <2>1, <2>2, AnswerKeeps DEF StagingTypeOK
  <2>4. SessionsOwned'
    BY <1>a, <2>1, AnswerKeeps DEF SessionsOwned
  <2>5. \A q \in Handlers \ {h} : stage[q] = "created" \/ stage[q] = "checked" \/ Active(q) => sess[q] # u
    BY <1>a, <2>1 DEF FilesComeOnce
  <2>6. FilesComeOnce'
    BY <1>a, <2>1, <2>5, AnswerKeeps DEF FilesComeOnce, Active
  <2>7. ASSUME NEW q \in Handlers PROVE PiecesOf(q)'
    <3>1. Active(q)' => q # h
      BY <2>1, AnswerKeeps DEF Active
    <3> QED
      BY <2>1, <2>5, <3>1, AnswerKeeps, PiecesKept DEF Active
  <2> QED
    BY <2>3, <2>4, <2>6, <2>7 DEF StagingInv
<1>5. ASSUME NEW h \in Handlers, NEW u \in Sessions, Get(h, u) PROVE StagingInv'
  <2>1. /\ stage[h] = "idle" /\ u \in meta \cap files /\ sess' = [sess EXCEPT ![h] = u]
        /\ expected' = [expected EXCEPT ![h] = Len(data[u])]
        /\ stage' = [stage EXCEPT ![h] = "checked"] /\ UNCHANGED <<fileVars, left, seen>>
    BY <1>5 DEF Get, Goto
  <2>2. Len(data[u]) \in Nat
    BY <1>a DEF StagingTypeOK
  <2>3. StagingTypeOK'
    BY <1>a, <2>1, <2>2 DEF fileVars, StagingTypeOK, States
  <2>4. SessionsOwned'
    BY <1>a, <2>1 DEF fileVars, StagingTypeOK, SessionsOwned
  <2>5. \A q \in Handlers \ {h} : stage'[q] = stage[q] /\ sess'[q] = sess[q] /\ expected'[q] = expected[q]
    BY <1>a, <2>1 DEF StagingTypeOK
  <2>6. FilesComeOnce'
    BY <1>a, <2>1, <2>5 DEF fileVars, StagingTypeOK, FilesComeOnce, Active
  <2>7. ASSUME NEW q \in Handlers PROVE PiecesOf(q)'
    <3>1. Active(q)' => q # h
      BY <1>a, <2>1 DEF Active, StagingTypeOK
    <3> QED
      BY <2>1, <2>5, <3>1, PiecesKept DEF Active, fileVars
  <2> QED
    BY <2>3, <2>4, <2>6, <2>7 DEF StagingInv
<1>6. ASSUME NEW h \in Handlers, Append_Open(h) PROVE StagingInv'
  <2>1. CASE Answer(h) /\ UNCHANGED fileVars
    <3>1. StagingTypeOK' /\ SessionsOwned'
      BY <1>a, <2>1, AnswerKeeps DEF StagingTypeOK, SessionsOwned, fileVars
    <3>2. FilesComeOnce'
      BY <1>a, <2>1, AnswerKeeps DEF FilesComeOnce, Active, fileVars
    <3> QED
      BY <2>1, <3>1, <3>2, AnswerPieces DEF fileVars, StagingInv
  <2>2. CASE /\ SizeMatches(h)
             /\ left' = [left EXCEPT ![h] = BodyPieces] /\ stage' = [stage EXCEPT ![h] = "write"]
             /\ UNCHANGED <<sess, expected, seen>> /\ UNCHANGED fileVars
    <3>0. stage[h] = "checked"
      BY <1>6 DEF Append_Open
    <3>1. StagingTypeOK'
      <4>1. stage' \in [Handlers -> States] /\ left' \in [Handlers -> 0 .. BodyPieces]
        BY <1>a, <2>2, PiecesAssumption DEF StagingTypeOK, States
      <4> QED
        BY <1>a, <2>2, <4>1 DEF fileVars, StagingTypeOK
    <3>2. SessionsOwned'
      BY <1>a, <2>2, <3>0 DEF fileVars, StagingTypeOK, SessionsOwned
    <3>3. \A q \in Handlers \ {h} : stage'[q] = stage[q] /\ left'[q] = left[q]
      BY <1>a, <2>2 DEF StagingTypeOK
    <3>4. FilesComeOnce'
      BY <1>a, <2>2, <3>0, <3>3 DEF fileVars, StagingTypeOK, FilesComeOnce, Active
    <3>5. ASSUME NEW q \in Handlers PROVE PiecesOf(q)'
      <4>1. CASE q = h
        <5>1. left'[h] = BodyPieces /\ expected'[h] = expected[h] /\ sess'[h] = sess[h] /\ data' = data /\ files' = files
          BY <1>a, <2>2 DEF fileVars, StagingTypeOK
        <5>2. BodyPieces \in Nat /\ expected[h] \in Nat /\ Len(data[sess[h]]) = expected[h] /\ sess[h] \in Sessions
          BY <1>a, <1>b, <2>2, <3>0, PiecesAssumption DEF SizeMatches, StagingTypeOK
        <5>3. Copies(h)' = 0 /\ Base(h)' = expected[h]
          BY <5>1, <5>2 DEF Copies, Base
        <5>4. data[sess[h]] \in Seq(Pieces)
          BY <1>a, <5>2 DEF StagingTypeOK, Pieces
        <5>5. Has(h, data[sess[h]], expected[h], 0)
          BY <5>2, <5>4 DEF Has
        <5> QED
          BY <4>1, <5>1, <5>3, <5>5 DEF PiecesOf
      <4>2. CASE q # h
        BY <2>2, <3>3, <4>2, PiecesKept DEF Active, fileVars
      <4> QED
        BY <4>1, <4>2
    <3> QED
      BY <3>1, <3>2, <3>4, <3>5 DEF StagingInv
  <2> QED
    BY <1>6, <2>1, <2>2 DEF Append_Open, Goto
<1>7. ASSUME NEW h \in Handlers, Append_Write(h) PROVE StagingInv'
  <2> DEFINE u == sess[h]
             x == [by |-> h, at |-> expected[h]]
  <2>1. /\ stage[h] = "write" /\ left[h] > 0 /\ UNCHANGED <<created, meta, files, sess, seen>>
        /\ data' = IF u \in files THEN [data EXCEPT ![u] = Append(data[u], x)] ELSE data
        /\ stale' = stale \ {u} /\ expected' = [expected EXCEPT ![h] = expected[h] + 1]
        /\ left' = [left EXCEPT ![h] = left[h] - 1]
        /\ stage' = [stage EXCEPT ![h] = IF left[h] = 1 THEN "size" ELSE "write"]
    BY <1>7, <1>a DEF Append_Write, Copied, Piece, Goto, StagingTypeOK
  <2>2. u \in Sessions /\ expected[h] \in Nat /\ left[h] \in 1 .. BodyPieces /\ BodyPieces \in Nat
    <3>1. expected[h] \in Nat /\ left[h] \in 0 .. BodyPieces /\ BodyPieces \in Nat
      BY <1>a, PiecesAssumption DEF StagingTypeOK
    <3> QED
      BY <1>b, <2>1, <3>1
  <2>3. x \in Pieces /\ \A v \in Sessions : data[v] \in Seq(Pieces)
    BY <1>a, <2>2 DEF StagingTypeOK, Pieces
  <2>4. /\ data' \in [Sessions -> Seq(Pieces)]
        /\ u \in files => data'[u] = Append(data[u], x)
        /\ \A v \in Sessions : v # u \/ u \notin files => data'[v] = data[v]
    <3>1. data \in [Sessions -> Seq(Pieces)] /\ Append(data[u], x) \in Seq(Pieces)
      BY <1>a, <2>2, <2>3, AppendProperties DEF StagingTypeOK, Pieces
    <3> HIDE DEF x
    <3> QED
      BY <2>1, <2>2, <3>1
  <2>5. StagingTypeOK'
    <3>1. /\ expected' \in [Handlers -> Nat] /\ left' \in [Handlers -> 0 .. BodyPieces] /\ stage' \in [Handlers -> States]
      BY <1>a, <2>1, <2>2 DEF StagingTypeOK, States
    <3> QED
      BY <1>a, <2>1, <2>4, <3>1 DEF StagingTypeOK, Pieces
  <2>6. \A q \in Handlers \ {h} : stage'[q] = stage[q] /\ left'[q] = left[q] /\ expected'[q] = expected[q]
    BY <1>a, <2>1 DEF StagingTypeOK
  <2>7. stage'[h] \in {"write", "size"}
    BY <1>a, <2>1 DEF StagingTypeOK
  <2>8. SessionsOwned'
    BY <1>a, <2>1, <2>6 DEF SessionsOwned
  <2>9. FilesComeOnce'
    BY <1>a, <2>1, <2>6, <2>7 DEF FilesComeOnce, Active
  <2>10. ASSUME NEW q \in Handlers, Active(q)', sess'[q] \in files' PROVE Has(q, data[sess[q]], Base(q), Copies(q)) /\ sess[q] \in Sessions
    <3>1. Active(q) /\ sess[q] \in files
      BY <2>1, <2>6, <2>10 DEF Active
    <3> QED
      BY <1>a, <1>b, <3>1 DEF PiecesOf, Active
  <2>11. ASSUME NEW q \in Handlers PROVE PiecesOf(q)'
    <3> SUFFICES ASSUME Active(q)', sess'[q] \in files' PROVE Has(q, data'[sess'[q]], Base(q)', Copies(q)')
      BY DEF PiecesOf
    <3>1. Has(q, data[sess[q]], Base(q), Copies(q)) /\ sess[q] \in Sessions /\ sess[q] \in files /\ sess'[q] = sess[q]
      BY <2>1, <2>10
    <3>2. CASE q = h
      <4>1. /\ Copies(h) \in Nat /\ Copies(h)' = Copies(h) + 1 /\ Base(h)' = Base(h) /\ expected[h] = Base(h) + Copies(h)
        <5>1. left'[h] = left[h] - 1 /\ expected'[h] = expected[h] + 1
          BY <1>a, <2>1 DEF StagingTypeOK
        <5> QED
          BY <2>2, <5>1 DEF Copies, Base
      <4>2. Has(h, Append(data[u], [by |-> h, at |-> Base(h) + Copies(h)]), Base(h), Copies(h) + 1)
        BY <2>3, <3>1, <3>2, <4>1, OwnPiece
      <4> QED
        BY <2>4, <3>1, <3>2, <4>1, <4>2
    <3>3. CASE q # h
      <4>1. Copies(q)' = Copies(q) /\ Base(q)' = Base(q)
        BY <2>6, <3>3 DEF Copies, Base
      <4>2. CASE sess[q] = u
        <5>1. Has(q, Append(data[u], x), Base(q), Copies(q))
          BY <2>3, <3>1, <3>3, <4>2, OtherPiece
        <5> QED
          BY <2>4, <3>1, <4>1, <4>2, <5>1
      <4>3. CASE sess[q] # u
        BY <2>4, <3>1, <4>1, <4>3
      <4> QED
        BY <4>2, <4>3
    <3> QED
      BY <3>2, <3>3
  <2> QED
    BY <2>5, <2>8, <2>9, <2>11 DEF StagingInv
<1>8. ASSUME NEW h \in Handlers, Append_Fails(h) \/ Append_Size(h) PROVE StagingInv'
  <2>1. Answer(h) /\ UNCHANGED fileVars
    BY <1>8 DEF Append_Fails, Append_Size
  <2>2. StagingTypeOK' /\ SessionsOwned'
    BY <1>a, <2>1, AnswerKeeps DEF StagingTypeOK, SessionsOwned, fileVars
  <2>3. FilesComeOnce'
    BY <1>a, <2>1, AnswerKeeps DEF FilesComeOnce, Active, fileVars
  <2> QED
    BY <2>1, <2>2, <2>3, AnswerPieces DEF fileVars, StagingInv
<1>9. ASSUME NEW h \in Handlers, Remove(h) PROVE StagingInv'
  <2>1. stage[h] = "checked" /\ stage' = [stage EXCEPT ![h] = "unlinkData"] /\ UNCHANGED <<fileVars, sess, expected, left, seen>>
    BY <1>9 DEF Remove, Goto
  <2>2. StagingTypeOK' /\ SessionsOwned'
    BY <1>a, <2>1 DEF fileVars, StagingTypeOK, SessionsOwned, States
  <2>3. \A q \in Handlers \ {h} : stage'[q] = stage[q]
    BY <1>a, <2>1 DEF StagingTypeOK
  <2>4. stage'[h] = "unlinkData"
    BY <1>a, <2>1 DEF StagingTypeOK
  <2>5. FilesComeOnce'
    BY <1>a, <2>1, <2>3, <2>4 DEF fileVars, FilesComeOnce, Active
  <2>6. ASSUME NEW q \in Handlers PROVE PiecesOf(q)'
    BY <2>1, <2>3, <2>4, PiecesKept DEF Active, fileVars
  <2> QED
    BY <2>2, <2>5, <2>6 DEF StagingInv
<1>10. ASSUME NEW h \in Handlers, UnlinkData(h) PROVE StagingInv'
  <2>1. /\ stage[h] = "unlinkData" /\ files' = files \ {sess[h]} /\ data' = [data EXCEPT ![sess[h]] = << >>]
        /\ stage' = [stage EXCEPT ![h] = "unlinkMeta"] /\ UNCHANGED <<created, meta, stale, sess, expected, left, seen>>
    BY <1>10 DEF UnlinkData, Goto
  <2>2. sess[h] \in Sessions /\ << >> \in Seq(Pieces)
    BY <1>b, <2>1
  <2>3. /\ data' \in [Sessions -> Seq(Pieces)]
        /\ \A v \in Sessions \ {sess[h]} : data'[v] = data[v]
    BY <1>a, <2>1, <2>2 DEF StagingTypeOK, Pieces
  <2>4. StagingTypeOK' /\ SessionsOwned'
    BY <1>a, <2>1, <2>3 DEF StagingTypeOK, SessionsOwned, States, Pieces
  <2>5. \A q \in Handlers \ {h} : stage'[q] = stage[q]
    BY <1>a, <2>1 DEF StagingTypeOK
  <2>6. stage'[h] = "unlinkMeta"
    BY <1>a, <2>1 DEF StagingTypeOK
  <2>7. FilesComeOnce'
    BY <1>a, <2>1, <2>5, <2>6 DEF FilesComeOnce, Active
  <2>8. ASSUME NEW q \in Handlers PROVE PiecesOf(q)'
    <3>1. Active(q)' => q # h /\ Active(q) /\ sess[q] \in Sessions
      BY <1>b, <2>5, <2>6 DEF Active
    <3> QED
      BY <2>1, <2>3, <3>1, PiecesKept
  <2> QED
    BY <2>4, <2>7, <2>8 DEF StagingInv
<1>11. ASSUME NEW h \in Handlers, UnlinkMeta(h) PROVE StagingInv'
  <2>1. Answer(h) /\ meta' = meta \ {sess[h]} /\ stale' = stale \ {sess[h]} /\ UNCHANGED <<created, files, data>>
    BY <1>11 DEF UnlinkMeta
  <2>2. StagingTypeOK' /\ SessionsOwned'
    BY <1>a, <2>1, AnswerKeeps DEF StagingTypeOK, SessionsOwned
  <2>3. FilesComeOnce'
    BY <1>a, <2>1, AnswerKeeps DEF FilesComeOnce, Active
  <2> QED
    BY <2>1, <2>2, <2>3, AnswerPieces DEF StagingInv
<1>12. ASSUME NEW h \in Handlers, Sweep(h) PROVE StagingInv'
  <2>1. /\ stage[h] = "idle" /\ seen' = [seen EXCEPT ![h] = meta]
        /\ stage' = [stage EXCEPT ![h] = IF meta = {} THEN "idle" ELSE "sweep"] /\ UNCHANGED <<fileVars, sess, expected, left>>
    BY <1>12 DEF Sweep, Goto
  <2>2. StagingTypeOK' /\ SessionsOwned'
    BY <1>a, <2>1 DEF fileVars, StagingTypeOK, SessionsOwned, States
  <2>3. \A q \in Handlers \ {h} : stage'[q] = stage[q]
    BY <1>a, <2>1 DEF StagingTypeOK
  <2>4. stage'[h] \in {"idle", "sweep"}
    BY <1>a, <2>1 DEF StagingTypeOK
  <2>5. FilesComeOnce'
    BY <1>a, <2>1, <2>3, <2>4 DEF fileVars, FilesComeOnce, Active
  <2>6. ASSUME NEW q \in Handlers PROVE PiecesOf(q)'
    BY <2>1, <2>3, <2>4, PiecesKept DEF Active, fileVars
  <2> QED
    BY <2>2, <2>5, <2>6 DEF StagingInv
<1>13. ASSUME NEW h \in Handlers, SweepOne(h) PROVE StagingInv'
  <2>1. stage[h] = "sweep" /\ UNCHANGED <<fileVars, expected, left>>
    BY <1>13 DEF SweepOne
  <2>2. PICK u \in seen[h] :
           /\ seen' = [seen EXCEPT ![h] = seen[h] \ {u}]
           /\ \/ u \in stale /\ sess' = [sess EXCEPT ![h] = u] /\ stage' = [stage EXCEPT ![h] = "unlinkData"]
              \/ sess' = sess /\ stage' = [stage EXCEPT ![h] = IF seen[h] = {u} THEN "idle" ELSE "sweep"]
    BY <1>13, <1>a DEF SweepOne, Goto, StagingTypeOK
  <2>3. StagingTypeOK'
    <3>1. u \in Sessions
      BY <1>a, <2>2 DEF StagingTypeOK
    <3>2. stage' \in [Handlers -> States]
      BY <1>a, <2>2 DEF StagingTypeOK, States
    <3>3. sess' \in [Handlers -> Sessions \cup {NoSession}] /\ seen' \in [Handlers -> SUBSET Sessions]
      BY <1>a, <2>2, <3>1 DEF StagingTypeOK
    <3> QED
      BY <1>a, <2>1, <3>2, <3>3 DEF fileVars, StagingTypeOK
  <2>4. SessionsOwned'
    <3>1. u \in stale => u \in created
      BY <1>a DEF StagingTypeOK
    <3> QED
      BY <1>a, <2>1, <2>2, <3>1 DEF fileVars, StagingTypeOK, SessionsOwned
  <2>5. \A q \in Handlers \ {h} : stage'[q] = stage[q] /\ sess'[q] = sess[q]
    BY <1>a, <2>2 DEF StagingTypeOK
  <2>6. stage'[h] \in {"idle", "sweep", "unlinkData"}
    BY <1>a, <2>2 DEF StagingTypeOK
  <2>7. FilesComeOnce'
    BY <1>a, <2>1, <2>5, <2>6 DEF fileVars, FilesComeOnce, Active
  <2>8. ASSUME NEW q \in Handlers PROVE PiecesOf(q)'
    BY <2>1, <2>5, <2>6, PiecesKept DEF Active, fileVars
  <2> QED
    BY <2>3, <2>4, <2>7, <2>8 DEF StagingInv
<1> QED
  BY <1>1, <1>2, <1>3, <1>4, <1>5, <1>6, <1>7, <1>8, <1>9, <1>10, <1>11, <1>12, <1>13 DEF StagingNext

\* A session has a file only after its meta file and an age only while it has
\* one, for any number of sessions, requests, sweeps and pieces.
THEOREM StagingTypeCorrect == StagingSpec => []StagingTypeOK
<1>1. StagingInv => StagingTypeOK
  BY DEF StagingInv
<1> QED
  BY <1>1, StagingStep, StagingInitInv, PTL DEF StagingSpec

\* Append (staging.go:153-159), for any number of sessions, requests, sweeps
\* and pieces: whatever other requests append, remove and sweep meanwhile, what
\* a request has copied is in the file behind the offset it verified, in order.
THEOREM CopiedBytesStay == StagingSpec => []AppendsKeepTheirBytes
<1>1. StagingInv => AppendsKeepTheirBytes
  <2> SUFFICES ASSUME StagingInv, NEW q \in Handlers, stage[q] \in {"write", "size"}, sess[q] \in files
               PROVE  Has(q, data[sess[q]], Base(q), Copies(q))
    BY DEF AppendsKeepTheirBytes, Has
  <2> QED
    BY DEF StagingInv, PiecesOf, Active
<1> QED
  BY <1>1, StagingStep, StagingInitInv, PTL DEF StagingSpec

-----------------------------------------------------------------------------
(* Names, renames and redirects. *)

\* The repository that was the last to have the name, if it exists.
Last(o, x) == called[<<o, x>>].last

\* The request is between the statements of a rename of the organization.
InRename(q, o) == (Does(q, "orgClear") \/ Does(q, "orgAdd")) /\ req[q].org = o

\* A request has created a repository of that name and not cleared its redirects.
Clears(o, x) == \E q \in Requests : Does(q, "clear") /\ req[q].org = o /\ req[q].name = x

\* What a request went by was so when it read it.
PlanHolds(w) ==
    /\ w.kind \in {"create", "push", "clear"} => w.org \in owners[w.slug]
    /\ w.kind \in {"rename", "move"} =>
         /\ w.org \in owners[w.slug] /\ w.target \in owners[w.targetSlug] /\ w.repo \in known
         /\ home[w.repo] # Nowhere => w.repo \in called[<<w.org, w.old>>].ever
    /\ w.kind = "rename" => w.target = w.org
    /\ w.kind = "move" => w.name = w.old
    /\ w.kind \in {"orgUpdate", "orgClear", "orgAdd"} => w.org \in owners[w.from]
    /\ w.kind \in {"orgClear", "orgAdd"} => w.org \in owners[w.to]

\* What the histories say of the state, whatever overlapped or was cut short.
SlugsOwned == \A o \in Orgs : slug[o] # Nowhere => o \in owners[slug[o]]
OldSlugsOwned == \A s \in Slugs : orgRed[s] # Nowhere => orgRed[s] \in owners[s]
OwnersExist == \A s \in Slugs : \A o \in owners[s] : slug[o] # Nowhere
HomesCreated == \A r \in Repos : home[r] # Nowhere => r \in known
HomesLast ==
    \A r \in Repos, o \in Orgs, x \in Names :
      home[r] = <<o, x>> => Last(o, x) = r /\ r \in called[<<o, x>>].ever
LastsExist ==
    \A o \in Orgs, x \in Names :
      Last(o, x) # Nowhere => home[Last(o, x)] # Nowhere /\ slug[o] # Nowhere
RowsRecorded ==
    \A s \in Slugs, m \in Names :
      repoRed[<<s, m>>] # Nowhere =>
        \E h \in owners[s] : repoRed[<<s, m>>] \in called[<<h, m>>].ever
PlansOwned == \A q \in Requests : req[q] # Nowhere => PlanHolds(req[q])

Recorded ==
    /\ SlugsOwned /\ OldSlugsOwned /\ OwnersExist /\ HomesCreated
    /\ HomesLast /\ LastsExist /\ RowsRecorded /\ PlansOwned

\* What an organization keeps if its slugs are its own and nothing was written
\* there on outdated reads: every former slug redirects to it, unless a rename
\* is about to see to it; rows under its slugs name the last repository of the
\* name, unless a request is about to remove them; and there is one if that
\* repository has left.
FormersRedirect(o) ==
    \A s \in Slugs : o \in owners[s] =>
      s = slug[o] \/ orgRed[s] = o \/ \E q \in Requests : InRename(q, o) /\ req[q].from = s
RenameIsToPresent(o) == \A q \in Requests : InRename(q, o) => req[q].to = slug[o]
RowsNameLast(o) ==
    \A s \in Slugs, x \in Names : o \in owners[s] =>
      repoRed[<<s, x>>] = Nowhere \/ repoRed[<<s, x>>] = Last(o, x) \/ Clears(o, x)
LeftAreFound(o) ==
    \A x \in Names : Last(o, x) # Nowhere /\ home[Last(o, x)] # <<o, x>> =>
      \E s \in Slugs : o \in owners[s] /\ repoRed[<<s, x>>] = Last(o, x)

Kept(o) == FormersRedirect(o) /\ RenameIsToPresent(o) /\ RowsNameLast(o) /\ LeftAreFound(o)

AllKept == \A o \in Orgs : Unshared(o) /\ o \notin torn => Kept(o)

NamesInv == NamesTypeOK /\ Recorded /\ AllKept

\* Values of the variables, as the provers need them.
LEMMA NameFacts ==
    ASSUME NamesTypeOK
    PROVE  /\ \A o \in Orgs : slug[o] \in Slugs \cup {Nowhere}
           /\ \A s \in Slugs : orgRed[s] \in Orgs \cup {Nowhere} /\ owners[s] \subseteq Orgs
           /\ \A s \in Slugs, x \in Names : repoRed[<<s, x>>] \in Repos \cup {Nowhere}
           /\ \A o \in Orgs, x \in Names :
                Last(o, x) \in Repos \cup {Nowhere} /\ called[<<o, x>>].ever \subseteq Repos
           /\ \A q \in Requests : req[q] \in Work \cup {Nowhere}
BY DEF NamesTypeOK, Last

\* What is planned, by its kind.
LEMMA WorkFacts ==
    ASSUME NEW w \in Work
    PROVE  /\ w.kind \in {"create", "push"} => w \in Creations
           /\ w.kind = "clear" => w \in Clearings
           /\ w.kind \in {"rename", "move"} => w \in Changes
           /\ w.kind \in {"orgInsert", "orgFree"} => w \in OrgCreations
           /\ w.kind \in {"orgUpdate", "orgClear", "orgAdd"} => w \in OrgRenames
           /\ w.kind \in {"create", "push", "clear", "rename", "move", "orgInsert", "orgFree",
                          "orgUpdate", "orgClear", "orgAdd"}
<1>1. CASE w \in Creations
  BY <1>1 DEF Creations
<1>2. CASE w \in Clearings
  BY <1>2 DEF Clearings
<1>3. CASE w \in Changes
  BY <1>3 DEF Changes
<1>4. CASE w \in OrgCreations
  BY <1>4 DEF OrgCreations
<1>5. CASE w \in OrgRenames
  BY <1>5 DEF OrgRenames
<1> QED
  BY <1>1, <1>2, <1>3, <1>4, <1>5 DEF Work

\* What the request has planned, by its kind.
LEMMA PlanFacts ==
    ASSUME NamesTypeOK, NEW q \in Requests, NEW kind, Does(q, kind)
    PROVE  /\ req[q] \in Work /\ req[q].kind = kind
           /\ kind \in {"create", "push"} => req[q].org \in Orgs /\ req[q].slug \in Slugs /\ req[q].name \in Names
           /\ kind = "clear" =>
                req[q].org \in Orgs /\ req[q].slug \in Slugs /\ req[q].name \in Names /\ req[q].repo \in Repos
           /\ kind \in {"rename", "move"} =>
                /\ req[q].org \in Orgs /\ req[q].slug \in Slugs /\ req[q].old \in Names /\ req[q].repo \in Repos
                /\ req[q].target \in Orgs /\ req[q].targetSlug \in Slugs /\ req[q].name \in Names
           /\ kind \in {"orgInsert", "orgFree"} => req[q].slug \in Slugs
           /\ kind \in {"orgUpdate", "orgClear", "orgAdd"} =>
                req[q].org \in Orgs /\ req[q].from \in Slugs /\ req[q].to \in Slugs
<1>1. req[q] \in Work /\ req[q].kind = kind
  BY NameFacts DEF Does
<1>2. /\ kind \in {"create", "push"} => req[q] \in Creations
      /\ kind = "clear" => req[q] \in Clearings
      /\ kind \in {"rename", "move"} => req[q] \in Changes
      /\ kind \in {"orgInsert", "orgFree"} => req[q] \in OrgCreations
      /\ kind \in {"orgUpdate", "orgClear", "orgAdd"} => req[q] \in OrgRenames
  BY <1>1, WorkFacts
<1> QED
  BY <1>1, <1>2 DEF Creations, Clearings, Changes, OrgCreations, OrgRenames

\* No row and no answer is neither of these.
LEMMA NowhereIsNone ==
    /\ Nowhere \notin Orgs /\ Nowhere \notin Slugs /\ Nowhere \notin Repos /\ Nowhere \notin Work
    /\ \A o \in Orgs, x \in Names : <<o, x>> # Nowhere
BY ConstantsAssumption

\* Where a repository is.
LEMMA HomeFacts ==
    ASSUME NamesTypeOK, NEW r \in Repos, home[r] # Nowhere
    PROVE  /\ home[r] = <<home[r][1], home[r][2]>>
           /\ home[r][1] \in Orgs /\ home[r][2] \in Names
           /\ slug[home[r][1]] \in Slugs
BY DEF NamesTypeOK

\* A server without organizations satisfies the invariant.
LEMMA NamesInitInv == NamesInit => NamesInv
<1> SUFFICES ASSUME NamesInit PROVE NamesInv
  OBVIOUS
<1> USE ConstantsAssumption DEF NamesInit
<1>1. NamesTypeOK
  BY DEF NamesTypeOK
<1>2. \A o \in Orgs, x \in Names : Last(o, x) = Nowhere
  BY DEF Last
<1>3. \A s \in Slugs, x \in Names : repoRed[<<s, x>>] = Nowhere
  OBVIOUS
<1>4. Recorded
  BY <1>2, <1>3 DEF Recorded, SlugsOwned, OldSlugsOwned, OwnersExist, HomesCreated, HomesLast,
                    LastsExist, RowsRecorded, PlansOwned
<1>5. AllKept
  BY <1>2, <1>3 DEF AllKept, Kept, InRename, Does, FormersRedirect, RenameIsToPresent,
                    RowsNameLast, LeftAreFound
<1> QED
  BY <1>1, <1>4, <1>5 DEF NamesInv

-----------------------------------------------------------------------------
(* What the invariant gives a lookup. *)

\* The repositories at a name of an organization are at most its last one.
LEMMA AtIsLast ==
    ASSUME NamesTypeOK, HomesLast, NEW o \in Orgs, slug[o] # Nowhere, NEW x \in Names
    PROVE  At(slug[o], x) = {r \in Repos : Last(o, x) = r /\ home[r] = <<o, x>>}
<1>1. ASSUME NEW r \in Repos PROVE r \in At(slug[o], x) <=> home[r] = <<o, x>>
  <2>1. ASSUME home[r] # Nowhere, slug[home[r][1]] = slug[o] PROVE home[r][1] = o
    BY <2>1, HomeFacts DEF NamesTypeOK
  <2> QED
    BY <2>1, HomeFacts, NowhereIsNone DEF At
<1>2. ASSUME NEW r \in Repos, home[r] = <<o, x>> PROVE Last(o, x) = r
  BY <1>2 DEF HomesLast
<1> QED
  BY <1>1, <1>2 DEF At

\* Whoever is found under a slug had the name in an organization of the slug.
LEMMA LookupIsRecorded ==
    ASSUME NamesInv, NEW s \in Slugs, NEW x \in Names, \A o \in owners[s] : Unshared(o),
           NEW r \in Lookup(s, x)
    PROVE  \E o \in owners[s] : r \in called[<<o, x>>].ever
<1> USE DEF NamesInv, Recorded
<1>1. ASSUME NEW o \in owners[s], o \in Orgs, slug[o] # Nowhere, r \in At(slug[o], x)
      PROVE  r \in called[<<o, x>>].ever
  BY <1>1, AtIsLast DEF HomesLast
<1>2. CASE r \in At(s, x)
  <2>1. r \in Repos /\ home[r] # Nowhere /\ slug[home[r][1]] = s /\ home[r][2] = x
    BY <1>2 DEF At
  <2>2. home[r][1] \in Orgs /\ home[r][1] \in owners[s]
    BY <2>1, HomeFacts, NowhereIsNone DEF SlugsOwned
  <2> QED
    BY <1>1, <1>2, <2>1, <2>2, NowhereIsNone
<1>3. ASSUME NEW u \in Slugs, r \in Target(u, x), NEW o \in owners[s], o \in owners[u]
      PROVE  \E w \in owners[s] : r \in called[<<w, x>>].ever
  <2>1. repoRed[<<u, x>>] = r /\ r # Nowhere
    BY <1>3, NowhereIsNone DEF Target
  <2>2. PICK w \in owners[u] : r \in called[<<w, x>>].ever
    BY <2>1 DEF RowsRecorded
  <2>3. owners[u] = {o}
    BY <1>3 DEF Unshared
  <2> QED
    BY <2>2, <2>3, <1>3
<1>4. CASE r \in Target(s, x)
  BY <1>4, NowhereIsNone DEF RowsRecorded, Target
<1>5. ASSUME orgRed[s] # Nowhere
      PROVE  /\ orgRed[s] \in Orgs /\ orgRed[s] \in owners[s] /\ slug[orgRed[s]] \in Slugs
             /\ slug[orgRed[s]] # Nowhere /\ orgRed[s] \in owners[slug[orgRed[s]]]
  BY <1>5, NameFacts, NowhereIsNone DEF OldSlugsOwned, OwnersExist, SlugsOwned
<1>6. CASE orgRed[s] # Nowhere /\ r \in At(slug[orgRed[s]], x)
  BY <1>1, <1>5, <1>6
<1>7. CASE orgRed[s] # Nowhere /\ r \in Target(slug[orgRed[s]], x)
  BY <1>3, <1>5, <1>7
<1>8. ASSUME NEW v \in Slugs, orgRed[v] \in (IF orgRed[s] # Nowhere THEN {orgRed[s]} ELSE OrgIDBySlug(s)),
             r \in Target(v, x)
      PROVE  \E o \in owners[s] : r \in called[<<o, x>>].ever
  <2>1. orgRed[v] \in Orgs /\ orgRed[v] \in owners[s]
    BY <1>5, <1>8, NowhereIsNone DEF SlugsOwned, OrgIDBySlug
  <2>2. orgRed[v] \in owners[v]
    BY <2>1, NowhereIsNone DEF OldSlugsOwned
  <2> QED
    BY <1>3, <1>8, <2>1, <2>2
<1> QED
  <2>1. CASE r \in ResolveMoved(s, x)
    BY <2>1, <1>4, <1>6, <1>7, <1>8 DEF ResolveMoved
  <2> QED
    BY <1>2, <2>1 DEF Lookup

\* One organization had the slug, and nothing is half written there: the name leads
\* to the last repository that had it.
LEMMA OwnedLeadsToLast ==
    ASSUME NamesInv, NEW s \in Slugs, NEW x \in Names, NEW o \in Orgs, owners[s] = {o},
           Unshared(o), o \notin torn, ~HalfWritten(o)
    PROVE  Lookup(s, x) = {r \in Repos : Last(o, x) = r}
<1> USE DEF NamesInv, Recorded
<1> DEFINE q == Last(o, x)
           Home == At(slug[o], x)
           orgs == IF orgRed[s] # Nowhere THEN {orgRed[s]} ELSE OrgIDBySlug(s)
           formers == UNION {Target(u, x) : u \in {v \in Slugs : orgRed[v] \in orgs}}
<1>0. ~Clears(o, x) /\ \A w \in Requests : ~InRename(w, o)
  BY DEF HalfWritten, Renaming, Clears, InRename
<1>1. Kept(o)
  BY DEF AllKept
<1>2. slug[o] \in Slugs /\ slug[o] # Nowhere /\ o \in owners[slug[o]]
  BY NameFacts, NowhereIsNone DEF SlugsOwned, OwnersExist
<1>3. s = slug[o] \/ orgRed[s] = o
  BY <1>0, <1>1 DEF Kept, FormersRedirect
<1>4. orgRed[s] # Nowhere => orgRed[s] = o
  BY DEF OldSlugsOwned
<1>5. orgs = {o}
  <2>1. OrgIDBySlug(s) = IF s = slug[o] THEN {o} ELSE {}
    BY NowhereIsNone DEF OrgIDBySlug, SlugsOwned
  <2> QED
    BY <2>1, <1>3, <1>4, NowhereIsNone
<1>6. Home = {r \in Repos : q = r /\ home[r] = <<o, x>>}
  BY <1>2, AtIsLast
<1>7. At(s, x) = IF s = slug[o] THEN Home ELSE {}
  <2>1. ASSUME NEW r \in At(s, x) PROVE s = slug[o]
    <3>1. r \in Repos /\ home[r] # Nowhere /\ slug[home[r][1]] = s
      BY <2>1 DEF At
    <3> QED
      BY <3>1, HomeFacts, NowhereIsNone DEF SlugsOwned
  <2> QED
    BY <2>1
<1>8. ASSUME NEW u \in Slugs, o \in owners[u]
      PROVE  Target(u, x) = {r \in Repos : q = r /\ repoRed[<<u, x>>] = r}
  <2>1. repoRed[<<u, x>>] \in {Nowhere, q}
    BY <1>0, <1>1, <1>8 DEF Kept, RowsNameLast
  <2>2. ASSUME NEW r \in Repos, q = r PROVE home[r] # Nowhere
    BY <2>2, NowhereIsNone DEF LastsExist
  <2> QED
    BY <2>1, <2>2, NowhereIsNone DEF Target
<1>9. ASSUME NEW v \in Slugs, orgRed[v] \in orgs PROVE o \in owners[v]
  BY <1>5, <1>9, NowhereIsNone DEF OldSlugsOwned
<1>10. Lookup(s, x) =
         IF At(s, x) # {} THEN At(s, x)
         ELSE IF orgRed[s] # Nowhere /\ Home # {} THEN Home
         ELSE IF Target(s, x) # {} THEN Target(s, x)
         ELSE IF orgRed[s] # Nowhere /\ Target(slug[o], x) # {} THEN Target(slug[o], x)
         ELSE formers
  BY <1>4 DEF Lookup, ResolveMoved
<1>11. formers \subseteq {r \in Repos : q = r}
  <2>1. ASSUME NEW v \in Slugs, orgRed[v] \in orgs PROVE Target(v, x) \subseteq {r \in Repos : q = r}
    BY <2>1, <1>8, <1>9
  <2> HIDE DEF q, orgs
  <2> QED
    BY <2>1
<1>12. Target(s, x) = {r \in Repos : q = r /\ repoRed[<<s, x>>] = r}
  BY <1>8
<1>13. Target(slug[o], x) = {r \in Repos : q = r /\ repoRed[<<slug[o], x>>] = r}
  BY <1>2, <1>8
<1>14. q \in Repos \cup {Nowhere}
  BY NameFacts
<1>15. ASSUME q # Nowhere, home[q] # <<o, x>> PROVE Target(s, x) # {} \/ Target(slug[o], x) # {} \/ q \in formers
  <2>1. PICK u \in Slugs : o \in owners[u] /\ repoRed[<<u, x>>] = q
    BY <1>1, <1>15 DEF Kept, LeftAreFound
  <2>2. Target(u, x) = {q}
    BY <1>8, <1>14, <1>15, <2>1
  <2>3. u = slug[o] \/ orgRed[u] = o
    BY <1>0, <1>1, <2>1 DEF Kept, FormersRedirect
  <2> QED
    BY <2>2, <2>3, <1>5
<1> HIDE DEF q, Home, formers, orgs
<1>16. Lookup(s, x) \subseteq {r \in Repos : q = r}
  BY <1>6, <1>7, <1>10, <1>11, <1>12, <1>13
<1>17. ASSUME NEW r \in Repos, q = r PROVE Lookup(s, x) # {}
  <2>1. CASE home[q] = <<o, x>>
    BY <1>3, <1>6, <1>7, <1>10, <1>17, <2>1, NowhereIsNone
  <2>2. CASE home[q] # <<o, x>>
    BY <1>3, <1>10, <1>15, <1>17, <2>2, NowhereIsNone
  <2> QED
    BY <2>1, <2>2
<1> QED
  BY <1>16, <1>17 DEF q

\* Together: the promise to former names, and the one about strangers.
LEMMA NamesInvResolves == NamesInv => NamesResolve /\ NoStrangers
<1> SUFFICES ASSUME NamesInv PROVE NamesResolve /\ NoStrangers
  OBVIOUS
<1>1. NoStrangers
  BY LookupIsRecorded DEF NoStrangers
<1>2. ASSUME NEW s \in Slugs, NEW x \in Names,
             \A o \in owners[s] : Unshared(o) /\ o \notin torn /\ ~HalfWritten(o)
      PROVE  Lookup(s, x) = {r \in Repos : \E o \in owners[s] : called[<<o, x>>].last = r}
  <2>1. CASE owners[s] = {}
    <3>1. ASSUME NEW r \in Lookup(s, x) PROVE FALSE
      BY <2>1, LookupIsRecorded
    <3> QED
      BY <2>1, <3>1
  <2>2. ASSUME NEW o \in owners[s]
        PROVE  Lookup(s, x) = {r \in Repos : \E w \in owners[s] : called[<<w, x>>].last = r}
    <3>1. owners[s] = {o} /\ o \in Orgs
      BY <1>2, <2>2, NameFacts DEF Unshared, NamesInv
    <3> QED
      BY <1>2, <3>1, OwnedLeadsToLast DEF Last
  <2> QED
    BY <2>1, <2>2
<1> QED
  BY <1>1, <1>2 DEF NamesResolve

-----------------------------------------------------------------------------
(* What the requests have planned. *)

\* The owners, the repositories so far and those that had a name only grow,
\* but for a repository that is gone for good.
HistoriesGrow ==
    /\ \A s \in Slugs : owners[s] \subseteq owners'[s]
    /\ known \subseteq known'
    /\ \A r \in known : r \in Repos /\ home'[r] # Nowhere => home[r] # Nowhere
    /\ \A o \in Orgs, x \in Names, r \in Repos :
         r \in called[<<o, x>>].ever /\ home'[r] # Nowhere => r \in called'[<<o, x>>].ever

\* What held of a plan still holds, ...
LEMMA PlanStays ==
    ASSUME NamesTypeOK, HistoriesGrow, NEW q \in Requests, req[q] # Nowhere, PlanHolds(req[q])
    PROVE  /\ req[q].kind \in {"create", "push", "clear"} => req[q].org \in owners'[req[q].slug]
           /\ req[q].kind \in {"rename", "move"} =>
                /\ req[q].org \in owners'[req[q].slug] /\ req[q].target \in owners'[req[q].targetSlug]
                /\ req[q].repo \in known'
                /\ home'[req[q].repo] # Nowhere => req[q].repo \in called'[<<req[q].org, req[q].old>>].ever
           /\ req[q].kind = "rename" => req[q].target = req[q].org
           /\ req[q].kind = "move" => req[q].name = req[q].old
           /\ req[q].kind \in {"orgUpdate", "orgClear", "orgAdd"} => req[q].org \in owners'[req[q].from]
           /\ req[q].kind \in {"orgClear", "orgAdd"} => req[q].org \in owners'[req[q].to]
<1>1. CASE req[q].kind \in {"create", "push", "clear"}
  <2>1. req[q].slug \in Slugs
    BY <1>1, PlanFacts DEF Does
  <2> QED
    BY <1>1, <2>1 DEF PlanHolds, HistoriesGrow
<1>2. CASE req[q].kind \in {"rename", "move"}
  <2>1. /\ req[q].org \in Orgs /\ req[q].slug \in Slugs /\ req[q].old \in Names /\ req[q].repo \in Repos
        /\ req[q].targetSlug \in Slugs
    BY <1>2, PlanFacts DEF Does
  <2>2. /\ req[q].org \in owners[req[q].slug] /\ req[q].target \in owners[req[q].targetSlug] /\ req[q].repo \in known
        /\ home[req[q].repo] # Nowhere => req[q].repo \in called[<<req[q].org, req[q].old>>].ever
        /\ req[q].kind = "rename" => req[q].target = req[q].org
        /\ req[q].kind = "move" => req[q].name = req[q].old
    BY <1>2 DEF PlanHolds
  <2>3. home'[req[q].repo] # Nowhere => req[q].repo \in called'[<<req[q].org, req[q].old>>].ever
    BY <2>1, <2>2 DEF HistoriesGrow
  <2> QED
    BY <1>2, <2>1, <2>2, <2>3 DEF HistoriesGrow
<1>3. CASE req[q].kind \in {"orgUpdate", "orgClear", "orgAdd"}
  <2>1. req[q].from \in Slugs /\ req[q].to \in Slugs
    BY <1>3, PlanFacts DEF Does
  <2> QED
    BY <1>3, <2>1 DEF PlanHolds, HistoriesGrow
<1>4. CASE req[q].kind \in {"orgInsert", "orgFree"}
  BY <1>4
<1>5. req[q] \in Work
  BY NameFacts
<1> QED
  BY <1>1, <1>2, <1>3, <1>4, <1>5, WorkFacts

\* ... when one request goes on and the others wait.
LEMMA PlansStay ==
    ASSUME NamesTypeOK, PlansOwned, HistoriesGrow, NEW q \in Requests, NEW w, req' = [req EXCEPT ![q] = w],
           w = Nowhere \/ PlanHolds(w)'
    PROVE  PlansOwned'
<1> SUFFICES ASSUME NEW z \in Requests, req'[z] # Nowhere PROVE PlanHolds(req[z])'
  BY DEF PlansOwned
<1>1. req'[z] = IF z = q THEN w ELSE req[z]
  BY DEF NamesTypeOK
<1>2. CASE z = q
  BY <1>1, <1>2
<1>3. CASE z # q
  <2>1. PlanHolds(req[z]) /\ req[z] # Nowhere
    BY <1>1, <1>3 DEF PlansOwned
  <2>2. req'[z] = req[z]
    BY <1>1, <1>3
  <2> QED
    BY <2>1, <2>2, PlanStays DEF PlanHolds
<1> QED
  BY <1>2, <1>3

\* Who is between statements, when one request goes on and the others wait.
LEMMA OthersWait ==
    ASSUME NamesTypeOK, NEW q \in Requests, NEW w, req' = [req EXCEPT ![q] = w]
    PROVE  /\ req'[q] = w
           /\ \A z \in Requests : z # q => req'[z] = req[z]
           /\ \A z \in Requests, o \in Orgs : z # q => (InRename(z, o)' <=> InRename(z, o))
           /\ \A o \in Orgs, x \in Names :
                Clears(o, x) => Clears(o, x)' \/ (Does(q, "clear") /\ req[q].org = o /\ req[q].name = x)
<1>1. req'[q] = w /\ \A z \in Requests : z # q => req'[z] = req[z]
  BY DEF NamesTypeOK
<1> QED
  BY <1>1 DEF InRename, Clears, Does

-----------------------------------------------------------------------------
(* A request reads and plans, or dies. *)

LEMMA QuietKeeps ==
    ASSUME NamesInv, NEW q \in Requests, NEW w, req' = [req EXCEPT ![q] = w],
           w \in Work \cup {Nowhere},
           w = Nowhere \/ (PlanHolds(w) /\ w.kind \notin {"clear", "orgClear", "orgAdd"}),
           UNCHANGED <<names, tables, owners, called, known>>,
           torn \subseteq torn', torn' \subseteq Orgs, renames' \in 0 .. MaxRenames,
           \A kind \in {"clear", "orgClear", "orgAdd"} : Does(q, kind) => req[q].org \in torn'
    PROVE  NamesInv'
<1> USE DEF NamesInv
<1>0. UNCHANGED <<slug, home, orgRed, repoRed, owners, called, known>>
  BY DEF names, tables
<1>1. NamesTypeOK'
  <2>1. req' \in [Requests -> Work \cup {Nowhere}]
    BY DEF NamesTypeOK
  <2> QED
    BY <1>0, <2>1 DEF NamesTypeOK
<1>2. HistoriesGrow
  BY <1>0 DEF HistoriesGrow, NamesTypeOK
<1>3. w = Nowhere \/ PlanHolds(w)'
  BY <1>0 DEF PlanHolds
<1>4. PlansOwned'
  BY <1>2, <1>3, PlansStay DEF Recorded
<1>5. Recorded'
  BY <1>0, <1>4 DEF Recorded, SlugsOwned, OldSlugsOwned, OwnersExist, HomesCreated, HomesLast, LastsExist,
                    RowsRecorded, Last
<1>6. AllKept'
  <2> SUFFICES ASSUME NEW h \in Orgs, Unshared(h), h \notin torn' PROVE Kept(h)'
    BY <1>0 DEF AllKept, Unshared
  <2>1. Kept(h)
    BY DEF AllKept
  <2>2. \A z \in Requests : InRename(z, h) => z # q
    BY DEF InRename
  <2>3. \A z \in Requests : InRename(z, h)' => z # q
    BY OthersWait DEF InRename, Does
  <2>4. \A x \in Names : Clears(h, x) => Clears(h, x)'
    BY OthersWait
  <2>5. FormersRedirect(h)' /\ RenameIsToPresent(h)'
    <3>1. \A z \in Requests : z # q => req'[z] = req[z] /\ (InRename(z, h)' <=> InRename(z, h))
      BY OthersWait
    <3> QED
      BY <1>0, <2>1, <2>2, <2>3, <3>1 DEF Kept, FormersRedirect, RenameIsToPresent
  <2>6. RowsNameLast(h)' /\ LeftAreFound(h)'
    BY <1>0, <2>1, <2>4 DEF Kept, RowsNameLast, LeftAreFound, Last
  <2> QED
    BY <2>5, <2>6 DEF Kept
<1> QED
  BY <1>1, <1>5, <1>6

\* Where a request that begins goes.
LEMMA StartsFacts ==
    ASSUME NEW q \in Requests, NEW w, Starts(q, w)
    PROVE  req[q] = Nowhere /\ req' = [req EXCEPT ![q] = w] /\ \A kind : ~Does(q, kind)
BY DEF Starts, Does

\* createRepository, its checks.
LEMMA CreateKeeps ==
    ASSUME NamesInv, NEW q \in Requests, NEW o \in Orgs, NEW x \in Names, CreateRepository(q, o, x)
    PROVE  NamesInv'
<1> DEFINE w == [kind |-> "create", org |-> o, slug |-> slug[o], name |-> x]
<1>1. Starts(q, w) /\ slug[o] # Nowhere /\ UNCHANGED <<names, tables, history>>
  BY DEF CreateRepository
<1>2. slug[o] \in Slugs /\ o \in owners[slug[o]]
  BY <1>1, NameFacts DEF NamesInv, Recorded, SlugsOwned
<1>3. w \in Work /\ PlanHolds(w) /\ w.kind \notin {"clear", "orgClear", "orgAdd"}
  BY <1>2 DEF Work, Creations, PlanHolds
<1> HIDE DEF w
<1> QED
  BY <1>1, <1>3, StartsFacts, QuietKeeps DEF history, NamesInv, NamesTypeOK

\* resolveRepoForWrite, its lookups.
LEMMA PushKeeps ==
    ASSUME NamesInv, NEW q \in Requests, NEW s \in Slugs, NEW x \in Names, Push(q, s, x)
    PROVE  NamesInv'
<1>1. PICK o \in OrgIDBySlug(s) : Starts(q, [kind |-> "push", org |-> o, slug |-> s, name |-> x])
  BY DEF Push
<1> DEFINE w == [kind |-> "push", org |-> o, slug |-> s, name |-> x]
<1>2. o \in Orgs /\ o \in owners[s]
  BY NowhereIsNone DEF OrgIDBySlug, NamesInv, Recorded, SlugsOwned
<1>3. w \in Work /\ PlanHolds(w) /\ w.kind \notin {"clear", "orgClear", "orgAdd"}
  BY <1>2 DEF Work, Creations, PlanHolds
<1>4. Starts(q, w) /\ UNCHANGED <<names, tables, history>>
  BY <1>1 DEF Push
<1> HIDE DEF w
<1>5. req' = [req EXCEPT ![q] = w] /\ \A kind : ~Does(q, kind)
  BY <1>4, StartsFacts
<1>6. UNCHANGED <<owners, called, known, torn, renames>> /\ torn \subseteq Orgs /\ renames \in 0 .. MaxRenames
  BY <1>4 DEF history, NamesInv, NamesTypeOK
<1> QED
  BY <1>3, <1>4, <1>5, <1>6, QuietKeeps

\* The start of a request that counts among the renames.
LEMMA StartsRenameKeeps ==
    ASSUME NamesInv, NEW q \in Requests, NEW w \in Work, StartsRename(q, w), PlanHolds(w),
           w.kind \notin {"clear", "orgClear", "orgAdd"}
    PROVE  NamesInv'
<1>1. renames' \in 0 .. MaxRenames
  BY ConstantsAssumption DEF StartsRename, NamesInv, NamesTypeOK
<1>2. Starts(q, w) /\ UNCHANGED <<names, tables, owners, called, known, torn>>
  BY DEF StartsRename
<1> QED
  BY <1>1, <1>2, StartsFacts, QuietKeeps DEF NamesInv, NamesTypeOK

\* renameRepository, its checks.
LEMMA RenameKeeps ==
    ASSUME NamesInv, NEW q \in Requests, NEW r \in Repos, NEW x \in Names, RenameRepository(q, r, x)
    PROVE  NamesInv'
<1>1. home[r] # Nowhere
  BY DEF RenameRepository
<1>2. PICK o \in Orgs, old \in Names : home[r] = <<o, old>> /\ slug[o] \in Slugs
  BY <1>1, HomeFacts DEF NamesInv
<1> DEFINE w == [kind |-> "rename", repo |-> r, org |-> o, slug |-> slug[o], old |-> old,
                 target |-> o, targetSlug |-> slug[o], name |-> x]
<1>3. StartsRename(q, w)
  BY <1>2 DEF RenameRepository
<1>4. o \in owners[slug[o]] /\ r \in known /\ r \in called[<<o, old>>].ever
  BY <1>1, <1>2, NowhereIsNone DEF NamesInv, Recorded, SlugsOwned, HomesCreated, HomesLast
<1>5. w \in Work /\ PlanHolds(w) /\ w.kind \notin {"clear", "orgClear", "orgAdd"}
  BY <1>2, <1>4 DEF Work, Changes, PlanHolds
<1> HIDE DEF w
<1> QED
  BY <1>3, <1>5, StartsRenameKeeps

\* moveRepositoryToOrganization, its plan.
LEMMA MoveKeeps ==
    ASSUME NamesInv, NEW q \in Requests, NEW r \in Repos, NEW o \in Orgs, MoveRepository(q, r, o)
    PROVE  NamesInv'
<1>1. home[r] # Nowhere /\ slug[o] # Nowhere
  BY DEF MoveRepository
<1>2. PICK from \in Orgs, x \in Names : home[r] = <<from, x>> /\ slug[from] \in Slugs
  BY <1>1, HomeFacts DEF NamesInv
<1> DEFINE w == [kind |-> "move", repo |-> r, org |-> from, slug |-> slug[from], old |-> x,
                 target |-> o, targetSlug |-> slug[o], name |-> x]
<1>3. StartsRename(q, w)
  BY <1>2 DEF MoveRepository
<1>4. /\ from \in owners[slug[from]] /\ o \in owners[slug[o]] /\ slug[o] \in Slugs
      /\ r \in known /\ r \in called[<<from, x>>].ever
  BY <1>1, <1>2, NameFacts, NowhereIsNone DEF NamesInv, Recorded, SlugsOwned, HomesCreated, HomesLast
<1>5. w \in Work /\ PlanHolds(w) /\ w.kind \notin {"clear", "orgClear", "orgAdd"}
  BY <1>2, <1>4 DEF Work, Changes, PlanHolds
<1> HIDE DEF w
<1> QED
  BY <1>3, <1>5, StartsRenameKeeps

\* renameOrganization, its checks.
LEMMA RenameOrganizationKeeps ==
    ASSUME NamesInv, NEW q \in Requests, NEW o \in Orgs, NEW s \in Slugs, RenameOrganization(q, o, s)
    PROVE  NamesInv'
<1> DEFINE w == [kind |-> "orgUpdate", org |-> o, from |-> slug[o], to |-> s]
<1>1. StartsRename(q, w) /\ slug[o] # Nowhere
  BY DEF RenameOrganization
<1>2. slug[o] \in Slugs /\ o \in owners[slug[o]]
  BY <1>1, NameFacts DEF NamesInv, Recorded, SlugsOwned
<1>3. w \in Work /\ PlanHolds(w) /\ w.kind \notin {"clear", "orgClear", "orgAdd"}
  BY <1>2 DEF Work, OrgRenames, PlanHolds
<1> HIDE DEF w
<1> QED
  BY <1>1, <1>3, StartsRenameKeeps

\* A request that dies.
LEMMA DiesKeeps ==
    ASSUME NamesInv, NEW q \in Requests, RequestDies(q)
    PROVE  NamesInv'
<1> USE DEF NamesInv
<1>1. UNCHANGED <<names, tables, owners, called, known, renames>> /\ req' = [req EXCEPT ![q] = Nowhere]
  BY DEF RequestDies, Ends, Goes
<1>2. CASE \E kind \in {"clear", "orgClear", "orgAdd"} : Does(q, kind)
  <2>1. req[q].org \in Orgs
    BY <1>2, PlanFacts
  <2>2. torn' = torn \cup {req[q].org}
    BY <1>2 DEF RequestDies, Does
  <2> QED
    BY <1>1, <2>1, <2>2, QuietKeeps DEF NamesTypeOK
<1>3. CASE \A kind \in {"clear", "orgClear", "orgAdd"} : ~Does(q, kind)
  <2>1. torn' = torn
    BY <1>3 DEF RequestDies, Does
  <2> QED
    BY <1>1, <1>3, <2>1, QuietKeeps DEF NamesTypeOK
<1> QED
  BY <1>2, <1>3

-----------------------------------------------------------------------------
(* A repository takes a name: created, pushed, renamed or moved. *)

\* What these have in common.  The rows go to Nowhere, to r or stay.
Takes(q, r, o, x) ==
    /\ slug[o] # Nowhere /\ (\A y \in Repos : home[y] = <<o, x>> => y = r)
    /\ r \notin known \/ home[r] # Nowhere
    /\ home' = [home EXCEPT ![r] = <<o, x>>]
    /\ Settle(o, x, r)
    /\ known' = known \cup {r}
    /\ torn \subseteq torn' /\ torn' \subseteq Orgs
    /\ req[q] # Nowhere /\ req[q].kind \in {"create", "push", "rename", "move"}
    /\ UNCHANGED <<slug, orgRed, renames, owners>>

\* Rows lead elsewhere only to r, and from where r has had the name.
RowsTaken(r) ==
    /\ repoRed' \in [Slugs \X Names -> Repos \cup {Nowhere}]
    /\ \A s \in Slugs, m \in Names :
         \/ repoRed'[<<s, m>>] = repoRed[<<s, m>>] \/ repoRed'[<<s, m>>] = Nowhere
         \/ repoRed'[<<s, m>>] = r /\ \E z \in owners[s] : z \in Orgs /\ r \in called[<<z, m>>].ever

\* The rows of an organization that keeps its slugs to itself: those of the
\* name go, or are about to; r's own former name leads to it; others stay.
RowsOf(h, r, o, x) ==
    /\ \A s \in Slugs, m \in Names : h \in owners[s] =>
         IF h = o /\ m = x THEN repoRed'[<<s, m>>] \in {Nowhere, r} \/ Clears(o, x)'
         ELSE repoRed'[<<s, m>>] = repoRed[<<s, m>>] \/ (repoRed'[<<s, m>>] = r /\ home[r] = <<h, m>>)
    /\ \A m \in Names : home[r] = <<h, m>> /\ ~(h = o /\ m = x) =>
         \E s \in Slugs : h \in owners[s] /\ repoRed'[<<s, m>>] = r

RowsFit(r, o, x) == \A h \in Orgs : Unshared(h) /\ h \notin torn' => RowsOf(h, r, o, x)

\* The same, place by place: where every repository is and whom every name has named.
LEMMA TakesValues ==
    ASSUME NamesTypeOK, NEW q \in Requests, NEW r \in Repos, NEW o \in Orgs, NEW x \in Names,
           Takes(q, r, o, x)
    PROVE  /\ \A y \in Repos : home'[y] = IF y = r THEN <<o, x>> ELSE home[y]
           /\ \A h \in Orgs, m \in Names : Last(h, m)' = IF h = o /\ m = x THEN r ELSE Last(h, m)
           /\ \A h \in Orgs, m \in Names : called[<<h, m>>].ever \subseteq called'[<<h, m>>].ever
           /\ r \in called'[<<o, x>>].ever
           /\ called' \in [Orgs \X Names -> [last : Repos \cup {Nowhere}, ever : SUBSET Repos]]
<1>1. home \in [Repos -> (Orgs \X Names) \cup {Nowhere}]
  BY DEF NamesTypeOK
<1>2. called \in [Orgs \X Names -> [last : Repos \cup {Nowhere}, ever : SUBSET Repos]]
  BY DEF NamesTypeOK
<1> DEFINE new == [last |-> r, ever |-> called[<<o, x>>].ever \cup {r}]
<1>3. new \in [last : Repos \cup {Nowhere}, ever : SUBSET Repos]
  BY <1>2
<1>4. called' = [called EXCEPT ![<<o, x>>] = new]
  BY DEF Takes, Settle
<1>5. new.last = r /\ new.ever = called[<<o, x>>].ever \cup {r}
  OBVIOUS
<1> HIDE DEF new
<1>6. \A h \in Orgs, m \in Names : called'[<<h, m>>] = IF h = o /\ m = x THEN new ELSE called[<<h, m>>]
  BY <1>2, <1>4
<1>7. called' \in [Orgs \X Names -> [last : Repos \cup {Nowhere}, ever : SUBSET Repos]]
  BY <1>2, <1>3, <1>4
<1>8. \A y \in Repos : home'[y] = IF y = r THEN <<o, x>> ELSE home[y]
  BY <1>1 DEF Takes
<1> QED
  BY <1>5, <1>6, <1>7, <1>8 DEF Last

\* Types and uniqueness.
LEMMA TakesType ==
    ASSUME NamesTypeOK, NEW q \in Requests, NEW r \in Repos, NEW o \in Orgs, NEW x \in Names,
           Takes(q, r, o, x), RowsTaken(r), req' \in [Requests -> Work \cup {Nowhere}]
    PROVE  NamesTypeOK'
<1>1. \A y \in Repos : home'[y] = IF y = r THEN <<o, x>> ELSE home[y]
  BY TakesValues
<1>2. home' \in [Repos -> (Orgs \X Names) \cup {Nowhere}]
  BY DEF NamesTypeOK, Takes
<1>3. \A y, w \in Repos : home'[y] = home'[w] /\ home'[y] # Nowhere => y = w
  BY <1>1 DEF NamesTypeOK, Takes
<1>4. \A y \in Repos : home'[y] # Nowhere => slug'[home'[y][1]] # Nowhere
  BY <1>1 DEF NamesTypeOK, Takes
<1>5. \A k \in Slugs \X Names : repoRed'[k] # Nowhere => home'[repoRed'[k]] # Nowhere
  <2>1. ASSUME NEW s \in Slugs, NEW m \in Names, repoRed'[<<s, m>>] # Nowhere
        PROVE  home'[repoRed'[<<s, m>>]] # Nowhere
    <3>1. repoRed'[<<s, m>>] = r \/ repoRed'[<<s, m>>] = repoRed[<<s, m>>]
      BY <2>1 DEF RowsTaken
    <3>2. repoRed[<<s, m>>] \in Repos \cup {Nowhere}
      BY NameFacts
    <3>3. repoRed[<<s, m>>] # Nowhere => home[repoRed[<<s, m>>]] # Nowhere
      BY DEF NamesTypeOK
    <3> QED
      BY <1>1, <2>1, <3>1, <3>2, <3>3, NowhereIsNone
  <2> QED
    BY <2>1
<1>6. called' \in [Orgs \X Names -> [last : Repos \cup {Nowhere}, ever : SUBSET Repos]]
  BY TakesValues
<1> QED
  BY <1>2, <1>3, <1>4, <1>5, <1>6 DEF NamesTypeOK, Takes, RowsTaken

\* The histories.
LEMMA TakesRecorded ==
    ASSUME NamesTypeOK, Recorded, NEW q \in Requests, NEW r \in Repos, NEW o \in Orgs, NEW x \in Names,
           Takes(q, r, o, x), RowsTaken(r)
    PROVE  /\ SlugsOwned' /\ OldSlugsOwned' /\ OwnersExist' /\ HomesCreated' /\ HomesLast' /\ LastsExist'
           /\ RowsRecorded' /\ HistoriesGrow
<1>1. UNCHANGED <<slug, orgRed, owners>>
  BY DEF Takes
<1>2. SlugsOwned' /\ OldSlugsOwned' /\ OwnersExist'
  BY <1>1 DEF Recorded, SlugsOwned, OldSlugsOwned, OwnersExist
<1>3. /\ \A y \in Repos : home'[y] = IF y = r THEN <<o, x>> ELSE home[y]
      /\ \A h \in Orgs, m \in Names : Last(h, m)' = IF h = o /\ m = x THEN r ELSE Last(h, m)
      /\ \A h \in Orgs, m \in Names : called[<<h, m>>].ever \subseteq called'[<<h, m>>].ever
      /\ r \in called'[<<o, x>>].ever
  BY TakesValues
<1>4. HomesCreated'
  BY <1>3 DEF Recorded, HomesCreated, Takes
<1>5. HomesLast'
  <2> SUFFICES ASSUME NEW y \in Repos, NEW h \in Orgs, NEW m \in Names, home'[y] = <<h, m>>
               PROVE  Last(h, m)' = y /\ y \in called'[<<h, m>>].ever
    BY DEF HomesLast
  <2>1. CASE y = r
    BY <1>3, <2>1
  <2>2. CASE y # r
    <3>1. home[y] = <<h, m>> /\ ~(h = o /\ m = x)
      BY <1>3, <2>2 DEF Takes
    <3>2. Last(h, m) = y /\ y \in called[<<h, m>>].ever
      BY <3>1 DEF Recorded, HomesLast
    <3> QED
      BY <1>3, <3>1, <3>2
  <2> QED
    BY <2>1, <2>2
<1>6. LastsExist'
  <2>1. \A h \in Orgs, m \in Names : Last(h, m) \in Repos \cup {Nowhere}
    BY NameFacts
  <2>2. \A h \in Orgs, m \in Names : Last(h, m) # Nowhere => home[Last(h, m)] # Nowhere /\ slug[h] # Nowhere
    BY DEF Recorded, LastsExist
  <2>3. slug[o] # Nowhere
    BY DEF Takes
  <2>4. ASSUME NEW h \in Orgs, NEW m \in Names, Last(h, m)' # Nowhere
        PROVE  home'[Last(h, m)'] # Nowhere /\ slug'[h] # Nowhere
    <3>1. CASE h = o /\ m = x
      BY <1>1, <1>3, <2>3, <3>1, NowhereIsNone
    <3>2. CASE ~(h = o /\ m = x)
      <4>1. Last(h, m)' = Last(h, m)
        BY <1>3, <3>2
      <4>2. PICK y \in Repos : y = Last(h, m)
        BY <2>1, <2>4, <4>1
      <4>3. home'[y] # Nowhere
        BY <1>3, <2>2, <2>4, <4>1, <4>2, NowhereIsNone
      <4> QED
        BY <1>1, <2>2, <2>4, <4>1, <4>2, <4>3
    <3> QED
      BY <3>1, <3>2
  <2> QED
    BY <2>4 DEF LastsExist
<1>7. RowsRecorded'
  <2>1. ASSUME NEW s \in Slugs, NEW m \in Names, repoRed'[<<s, m>>] # Nowhere
        PROVE  \E h \in owners[s] : repoRed'[<<s, m>>] \in called'[<<h, m>>].ever
    <3>0. owners[s] \subseteq Orgs
      BY NameFacts
    <3>1. PICK h \in owners[s] : h \in Orgs /\ repoRed'[<<s, m>>] \in called[<<h, m>>].ever
      <4>1. CASE repoRed'[<<s, m>>] = repoRed[<<s, m>>]
        BY <2>1, <3>0, <4>1 DEF Recorded, RowsRecorded
      <4> QED
        BY <2>1, <4>1 DEF RowsTaken
    <3> QED
      BY <1>3, <3>1
  <2> QED
    BY <1>1, <2>1 DEF RowsRecorded
<1>8. HistoriesGrow
  <2>1. ASSUME NEW y \in known, y \in Repos, home'[y] # Nowhere PROVE home[y] # Nowhere
    BY <1>3, <2>1 DEF Takes
  <2>2. known \subseteq known'
    BY DEF Takes
  <2> QED
    BY <1>1, <1>3, <2>1, <2>2 DEF HistoriesGrow
<1> QED
  BY <1>2, <1>4, <1>5, <1>6, <1>7, <1>8

\* What is kept for every organization that has its slugs to itself.
LEMMA TakesKept ==
    ASSUME NamesTypeOK, Recorded, AllKept, NEW q \in Requests, NEW r \in Repos, NEW o \in Orgs, NEW x \in Names,
           Takes(q, r, o, x),
           \A y \in Repos : home'[y] = IF y = r THEN <<o, x>> ELSE home[y],
           \A h \in Orgs, m \in Names : Last(h, m)' = IF h = o /\ m = x THEN r ELSE Last(h, m),
           NEW w, req' = [req EXCEPT ![q] = w],
           w = Nowhere \/ w.kind \notin {"orgClear", "orgAdd"},
           \A h \in Orgs : Unshared(h) /\ h \notin torn' => RowsOf(h, r, o, x)
    PROVE  AllKept'
<1>1. UNCHANGED <<slug, orgRed, owners>>
  BY DEF Takes
<1>2. /\ \A y \in Repos : home'[y] = IF y = r THEN <<o, x>> ELSE home[y]
      /\ \A h \in Orgs, m \in Names : Last(h, m)' = IF h = o /\ m = x THEN r ELSE Last(h, m)
  OBVIOUS
<1> SUFFICES ASSUME NEW h \in Orgs, Unshared(h), h \notin torn' PROVE Kept(h)'
  BY <1>1 DEF AllKept, Unshared
<1>3. Kept(h)
  BY DEF AllKept, Takes
<1>4. RowsOf(h, r, o, x)
  OBVIOUS
<1>5. /\ \A z \in Requests : z # q => req'[z] = req[z] /\ (InRename(z, h)' <=> InRename(z, h))
      /\ ~InRename(q, h) /\ ~InRename(q, h)'
      /\ \A m \in Names : Clears(h, m) => Clears(h, m)'
  <2>1. req'[q] = w /\ req[q].kind \in {"create", "push", "rename", "move"}
    BY OthersWait DEF Takes
  <2>2. ~InRename(q, h) /\ ~InRename(q, h)'
    BY <2>1 DEF InRename, Does
  <2>3. ~Does(q, "clear")
    BY <2>1 DEF Does
  <2> QED
    BY <2>2, <2>3, OthersWait
<1>6. FormersRedirect(h)' /\ RenameIsToPresent(h)'
  BY <1>1, <1>3, <1>5 DEF Kept, FormersRedirect, RenameIsToPresent
<1>7. RowsNameLast(h)'
  <2> SUFFICES ASSUME NEW s \in Slugs, NEW m \in Names, h \in owners[s]
               PROVE  repoRed'[<<s, m>>] = Nowhere \/ repoRed'[<<s, m>>] = Last(h, m)' \/ Clears(h, m)'
    BY <1>1 DEF RowsNameLast
  <2>1. CASE h = o /\ m = x
    BY <1>2, <1>4, <2>1 DEF RowsOf
  <2>2. CASE ~(h = o /\ m = x) /\ repoRed'[<<s, m>>] = repoRed[<<s, m>>]
    BY <1>2, <1>3, <1>5, <2>2 DEF Kept, RowsNameLast
  <2>3. CASE ~(h = o /\ m = x) /\ repoRed'[<<s, m>>] = r /\ home[r] = <<h, m>>
    BY <1>2, <2>3 DEF Recorded, HomesLast
  <2> QED
    BY <1>4, <2>1, <2>2, <2>3 DEF RowsOf
<1>8. LeftAreFound(h)'
  <2> SUFFICES ASSUME NEW m \in Names, Last(h, m)' # Nowhere, home'[Last(h, m)'] # <<h, m>>
               PROVE  \E s \in Slugs : h \in owners[s] /\ repoRed'[<<s, m>>] = Last(h, m)'
    BY <1>1 DEF LeftAreFound
  <2>1. ~(h = o /\ m = x) /\ Last(h, m)' = Last(h, m)
    BY <1>2
  <2>2. PICK y \in Repos : y = Last(h, m)
    BY <2>1, NameFacts
  <2>3. CASE home[y] = <<h, m>>
    <3>1. y = r
      BY <1>2, <2>1, <2>2, <2>3
    <3> QED
      BY <1>4, <2>1, <2>2, <2>3, <3>1 DEF RowsOf
  <2>4. CASE home[y] # <<h, m>>
    <3>1. PICK s \in Slugs : h \in owners[s] /\ repoRed[<<s, m>>] = y
      BY <1>3, <2>1, <2>2, <2>4 DEF Kept, LeftAreFound
    <3>2. home[r] = <<h, m>> => y = r
      BY <2>2 DEF Recorded, HomesLast
    <3>3. repoRed'[<<s, m>>] = y
      BY <1>4, <2>1, <2>4, <3>1, <3>2 DEF RowsOf
    <3> QED
      BY <2>1, <2>2, <3>1, <3>3
  <2> QED
    BY <2>3, <2>4
<1> QED
  BY <1>6, <1>7, <1>8 DEF Kept

\* A name taken preserves the invariant.
LEMMA TakesKeeps ==
    ASSUME NamesInv, NEW q \in Requests, NEW r \in Repos, NEW o \in Orgs, NEW x \in Names,
           Takes(q, r, o, x), RowsTaken(r), NEW w, req' = [req EXCEPT ![q] = w], w \in Work \cup {Nowhere},
           w = Nowhere \/ (PlanHolds(w)' /\ w.kind \notin {"orgClear", "orgAdd"}),
           RowsFit(r, o, x)
    PROVE  NamesInv'
<1>0. req' \in [Requests -> Work \cup {Nowhere}]
  BY DEF NamesInv, NamesTypeOK
<1>1. NamesTypeOK'
  BY <1>0, TakesType DEF NamesInv
<1>2. Recorded'
  <2>1. /\ SlugsOwned' /\ OldSlugsOwned' /\ OwnersExist' /\ HomesCreated' /\ HomesLast' /\ LastsExist'
        /\ RowsRecorded' /\ HistoriesGrow
    BY TakesRecorded DEF NamesInv
  <2>2. PlansOwned'
    BY <2>1, PlansStay DEF NamesInv, Recorded
  <2> QED
    BY <2>1, <2>2 DEF Recorded
<1>3. AllKept'
  <2>1. /\ \A y \in Repos : home'[y] = IF y = r THEN <<o, x>> ELSE home[y]
        /\ \A h \in Orgs, m \in Names : Last(h, m)' = IF h = o /\ m = x THEN r ELSE Last(h, m)
    BY TakesValues DEF NamesInv
  <2> QED
    BY <2>1, TakesKept DEF NamesInv, RowsFit
<1> QED
  BY <1>1, <1>2, <1>3 DEF NamesInv

\* Which organizations a request leaves intact where it writes.
LEMMA TouchFacts ==
    ASSUME NamesTypeOK, NEW orgs \in SUBSET Orgs, NEW holds, Touch(orgs, holds)
    PROVE  /\ torn \subseteq torn' /\ torn' \subseteq Orgs
           /\ \A h \in orgs : h \notin torn' => ~Renaming(h) /\ holds
BY DEF Touch, NamesTypeOK

\* Whose rows they are: no one's who keeps the slugs to itself, but o's.
LEMMA ClearedAreOwn ==
    ASSUME NamesInv, NEW o \in Orgs, NEW s0 \in Slugs, o \in owners[s0],
           NEW h \in Orgs, Unshared(h), NEW s \in Slugs, h \in owners[s], s = s0 \/ orgRed[s] = o
    PROVE  h = o
BY NowhereIsNone DEF NamesInv, Recorded, OldSlugsOwned, Unshared

\* All of o's, if it is not being renamed.
LEMMA ClearedAreAll ==
    ASSUME NamesInv, NEW o \in Orgs, Unshared(o), o \notin torn, ~Renaming(o), NEW s \in Slugs, o \in owners[s]
    PROVE  s = slug[o] \/ orgRed[s] = o
<1>1. Kept(o) /\ \A q \in Requests : ~InRename(q, o)
  BY DEF NamesInv, AllKept, Renaming, InRename
<1> QED
  BY <1>1 DEF Kept, FormersRedirect

\* createRepository, the row.
LEMMA InsertKeeps ==
    ASSUME NamesInv, NEW q \in Requests, NEW r \in Repos, InsertRepository(q, r)
    PROVE  NamesInv'
<1> USE DEF NamesInv
<1>1. Does(q, "create")
  BY DEF InsertRepository
<1>2. PICK o \in Orgs, s \in Slugs, x \in Names : req[q].org = o /\ req[q].slug = s /\ req[q].name = x
  BY <1>1, PlanFacts
<1> DEFINE w == [kind |-> "clear", org |-> o, slug |-> s, name |-> x, repo |-> r]
<1>3. /\ r \notin known /\ NoneAt(o, x) /\ home' = [home EXCEPT ![r] = <<o, x>>] /\ Settle(o, x, r)
      /\ Touch({o}, TRUE) /\ req' = [req EXCEPT ![q] = w] /\ known' = known \cup {r}
      /\ UNCHANGED <<slug, tables, renames, owners>>
  BY <1>2 DEF InsertRepository, Goes
<1>4. o \in owners[s]
  BY <1>1, <1>2 DEF Recorded, PlansOwned, PlanHolds, Does
<1>5. slug[o] # Nowhere
  BY <1>4 DEF Recorded, OwnersExist
<1>6. torn \subseteq torn' /\ torn' \subseteq Orgs
  BY <1>3, TouchFacts
<1>7. Takes(q, r, o, x)
  BY <1>1, <1>3, <1>5, <1>6 DEF Takes, NoneAt, Does, tables
<1>8. RowsTaken(r)
  BY <1>3 DEF RowsTaken, tables, NamesTypeOK
<1>9. w \in Work /\ PlanHolds(w)' /\ w.kind \notin {"orgClear", "orgAdd"}
  BY <1>3, <1>4 DEF Work, Clearings, PlanHolds
<1>10. Clears(o, x)'
  <2>1. req'[q] = w
    BY <1>3 DEF NamesTypeOK
  <2>2. w # Nowhere
    BY <1>9, NowhereIsNone
  <2>3. w.kind = "clear" /\ w.org = o /\ w.name = x
    OBVIOUS
  <2> HIDE DEF w
  <2> QED
    BY <2>1, <2>2, <2>3 DEF Clears, Does
<1>11. ASSUME NEW h \in Orgs PROVE RowsOf(h, r, o, x)
  <2>1. home[r] = Nowhere
    BY <1>3 DEF Recorded, HomesCreated
  <2> QED
    BY <1>3, <1>10, <2>1, NowhereIsNone DEF RowsOf, tables
<1> HIDE DEF w
<1> QED
  BY <1>3, <1>7, <1>8, <1>9, <1>11, TakesKeeps DEF RowsFit

\* The redirects of a name are removed that a repository of the organization
\* has: the second step of a creation, and a push that finds its repository.
LEMMA ClearingKeeps ==
    ASSUME NamesInv, NEW q \in Requests, req' = [req EXCEPT ![q] = Nowhere],
           NEW o \in Orgs, NEW s0 \in Slugs, NEW x \in Names, o \in owners[s0],
           UNCHANGED <<slug, home, orgRed, owners, called, known, renames>>,
           repoRed' = Cleared(repoRed, o, s0, x),
           torn \subseteq torn', torn' \subseteq Orgs,
           o \notin torn' => slug[o] = s0 /\ ~Renaming(o) /\ \E y \in Repos : home[y] = <<o, x>>,
           \A kind \in {"orgClear", "orgAdd"} : ~Does(q, kind),
           Does(q, "clear") => req[q].org = o /\ req[q].name = x
    PROVE  NamesInv'
<1> USE DEF NamesInv
<1>1. /\ repoRed' \in [Slugs \X Names -> Repos \cup {Nowhere}]
      /\ \A s \in Slugs, m \in Names :
           repoRed'[<<s, m>>] = IF m = x /\ (s = s0 \/ orgRed[s] = o) THEN Nowhere ELSE repoRed[<<s, m>>]
  BY DEF Cleared, NamesTypeOK
<1>2. \A s \in Slugs, m \in Names : repoRed'[<<s, m>>] \in {Nowhere, repoRed[<<s, m>>]}
  BY <1>1
<1>3. NamesTypeOK'
  <2>1. \A k \in Slugs \X Names : repoRed'[k] # Nowhere => home'[repoRed'[k]] # Nowhere
    BY <1>2 DEF NamesTypeOK
  <2>2. req' \in [Requests -> Work \cup {Nowhere}]
    BY DEF NamesTypeOK
  <2> QED
    BY <1>1, <2>1, <2>2 DEF NamesTypeOK
<1>4. PlansOwned'
  <2>1. HistoriesGrow
    BY DEF HistoriesGrow, NamesTypeOK
  <2> QED
    BY <2>1, PlansStay DEF Recorded
<1>5. RowsRecorded'
  BY <1>2 DEF Recorded, RowsRecorded
<1>6. Recorded'
  BY <1>4, <1>5 DEF Recorded, SlugsOwned, OldSlugsOwned, OwnersExist, HomesCreated, HomesLast, LastsExist, Last
<1>7. AllKept'
  <2> SUFFICES ASSUME NEW h \in Orgs, Unshared(h), h \notin torn' PROVE Kept(h)'
    BY DEF AllKept, Unshared
  <2>1. Kept(h) /\ h \notin torn
    BY DEF AllKept
  <2>2. /\ \A z \in Requests : z # q => req'[z] = req[z] /\ (InRename(z, h)' <=> InRename(z, h))
        /\ ~InRename(q, h) /\ ~InRename(q, h)'
        /\ \A m \in Names : Clears(h, m) => Clears(h, m)' \/ (h = o /\ m = x)
    <3>1. req'[q] = Nowhere
      BY OthersWait
    <3>2. ~InRename(q, h) /\ ~InRename(q, h)'
      BY <3>1 DEF InRename, Does
    <3>3. \A z \in Requests : z # q => req'[z] = req[z] /\ (InRename(z, h)' <=> InRename(z, h))
      BY OthersWait
    <3>4. \A m \in Names : Clears(h, m) => Clears(h, m)' \/ (Does(q, "clear") /\ req[q].org = h /\ req[q].name = m)
      BY OthersWait
    <3> QED
      BY <3>2, <3>3, <3>4
  <2>3. FormersRedirect(h)' /\ RenameIsToPresent(h)'
    BY <2>1, <2>2 DEF Kept, FormersRedirect, RenameIsToPresent
  <2>4. RowsNameLast(h)'
    <3> SUFFICES ASSUME NEW s \in Slugs, NEW m \in Names, h \in owners[s], repoRed'[<<s, m>>] # Nowhere
                 PROVE  repoRed'[<<s, m>>] = Last(h, m)' \/ Clears(h, m)'
      BY DEF RowsNameLast
    <3>1. repoRed'[<<s, m>>] = repoRed[<<s, m>>] /\ ~(m = x /\ (s = s0 \/ orgRed[s] = o))
      BY <1>1
    <3>2. repoRed[<<s, m>>] = Last(h, m) \/ Clears(h, m)
      BY <2>1, <3>1 DEF Kept, RowsNameLast
    <3>3. CASE h = o /\ m = x
      BY <2>1, <3>1, <3>3, ClearedAreAll
    <3> QED
      BY <2>2, <3>1, <3>2, <3>3 DEF Last
  <2>5. LeftAreFound(h)'
    <3> SUFFICES ASSUME NEW m \in Names, Last(h, m) # Nowhere, home[Last(h, m)] # <<h, m>>
                 PROVE  \E s \in Slugs : h \in owners[s] /\ repoRed'[<<s, m>>] = Last(h, m)
      BY DEF LeftAreFound, Last
    <3>1. PICK s \in Slugs : h \in owners[s] /\ repoRed[<<s, m>>] = Last(h, m)
      BY <2>1 DEF Kept, LeftAreFound
    <3>2. ~(m = x /\ (s = s0 \/ orgRed[s] = o))
      <4> SUFFICES ASSUME m = x, s = s0 \/ orgRed[s] = o PROVE FALSE
        OBVIOUS
      <4>1. h = o
        BY <3>1, ClearedAreOwn
      <4> QED
        BY <4>1 DEF Recorded, HomesLast
    <3> QED
      BY <1>1, <3>1, <3>2
  <2> QED
    BY <2>3, <2>4, <2>5 DEF Kept
<1> QED
  BY <1>3, <1>6, <1>7

\* createRepository, the redirects.
LEMMA ClearKeeps ==
    ASSUME NamesInv, NEW q \in Requests, ClearRedirects(q)
    PROVE  NamesInv'
<1> USE DEF NamesInv
<1>1. Does(q, "clear")
  BY DEF ClearRedirects
<1>2. PICK o \in Orgs, s \in Slugs, x \in Names, r \in Repos :
        req[q].org = o /\ req[q].slug = s /\ req[q].name = x /\ req[q].repo = r
  BY <1>1, PlanFacts
<1>3. o \in owners[s]
  BY <1>1, <1>2 DEF Recorded, PlansOwned, PlanHolds, Does
<1>4. /\ repoRed' = Cleared(repoRed, o, s, x) /\ Touch({o}, home[r] = <<o, x>> /\ slug[o] = s)
      /\ req' = [req EXCEPT ![q] = Nowhere]
      /\ UNCHANGED <<slug, home, orgRed, owners, called, known, renames>>
  BY <1>2 DEF ClearRedirects, Ends, Goes, names
<1>5. /\ torn \subseteq torn' /\ torn' \subseteq Orgs
      /\ o \notin torn' => home[r] = <<o, x>> /\ slug[o] = s /\ ~Renaming(o)
  BY <1>4 DEF Touch, NamesTypeOK
<1>6. \A kind \in {"orgClear", "orgAdd"} : ~Does(q, kind)
  BY <1>1 DEF Does
<1> QED
  BY <1>2, <1>3, <1>4, <1>5, <1>6, ClearingKeeps

\* EnsureRepository.
LEMMA EnsureKeeps ==
    ASSUME NamesInv, NEW q \in Requests, NEW r \in Repos, EnsureRepository(q, r)
    PROVE  NamesInv'
<1> USE DEF NamesInv
<1>1. Does(q, "push")
  BY DEF EnsureRepository
<1>2. PICK o \in Orgs, s0 \in Slugs, x \in Names :
        req[q].org = o /\ req[q].slug = s0 /\ req[q].name = x
  BY <1>1, PlanFacts
<1>3. o \in owners[s0]
  BY <1>1, <1>2 DEF Recorded, PlansOwned, PlanHolds, Does
<1>4. /\ repoRed' = Cleared(repoRed, o, s0, x) /\ Touch({o}, slug[o] = s0)
      /\ req' = [req EXCEPT ![q] = Nowhere]
      /\ UNCHANGED <<slug, orgRed, renames, owners>>
  BY <1>2 DEF EnsureRepository, Ends, Goes
<1>5. /\ torn \subseteq torn' /\ torn' \subseteq Orgs
      /\ o \notin torn' => slug[o] = s0 /\ ~Renaming(o)
  BY <1>4 DEF Touch, NamesTypeOK
<1>6. CASE ~NoneAt(o, x) /\ UNCHANGED <<home, called, known>>
  <2>1. \E y \in Repos : home[y] = <<o, x>>
    BY <1>6 DEF NoneAt
  <2>2. ~Does(q, "clear") /\ \A kind \in {"orgClear", "orgAdd"} : ~Does(q, kind)
    BY <1>1 DEF Does
  <2> QED
    BY <1>3, <1>4, <1>5, <1>6, <2>1, <2>2, ClearingKeeps
<1>7. CASE /\ NoneAt(o, x) /\ r \notin known /\ home' = [home EXCEPT ![r] = <<o, x>>]
           /\ Settle(o, x, r) /\ known' = known \cup {r}
  <2>1. slug[o] # Nowhere
    BY <1>3 DEF Recorded, OwnersExist
  <2>2. Takes(q, r, o, x)
    BY <1>1, <1>4, <1>5, <1>7, <2>1 DEF Takes, NoneAt, Does
  <2>3. /\ repoRed' \in [Slugs \X Names -> Repos \cup {Nowhere}]
        /\ \A s \in Slugs, m \in Names :
             repoRed'[<<s, m>>] = IF m = x /\ (s = s0 \/ orgRed[s] = o) THEN Nowhere ELSE repoRed[<<s, m>>]
    BY <1>4 DEF Cleared, NamesTypeOK
  <2>4. RowsTaken(r)
    BY <2>3 DEF RowsTaken
  <2>5. home[r] = Nowhere
    BY <1>7 DEF Recorded, HomesCreated
  <2>6. ASSUME NEW h \in Orgs, Unshared(h), h \notin torn' PROVE RowsOf(h, r, o, x)
    <3>1. ASSUME NEW s \in Slugs, NEW m \in Names, h \in owners[s], h = o, m = x
          PROVE  repoRed'[<<s, m>>] = Nowhere
      <4>1. s = slug[o] \/ orgRed[s] = o
        BY <1>5, <2>6, <3>1, ClearedAreAll
      <4> QED
        BY <1>5, <2>3, <2>6, <3>1, <4>1
    <3>2. ASSUME NEW s \in Slugs, NEW m \in Names, h \in owners[s], ~(h = o /\ m = x)
          PROVE  repoRed'[<<s, m>>] = repoRed[<<s, m>>]
      <4>1. ~(m = x /\ (s = s0 \/ orgRed[s] = o))
        BY <1>3, <2>6, <3>2, ClearedAreOwn
      <4> QED
        BY <2>3, <4>1
    <3> QED
      BY <2>5, <3>1, <3>2, NowhereIsNone DEF RowsOf
  <2>7. RowsFit(r, o, x)
    BY <2>6 DEF RowsFit
  <2> QED
    BY <1>4, <2>2, <2>4, <2>7, TakesKeeps
<1> QED
  BY <1>2, <1>6, <1>7 DEF EnsureRepository

\* The transaction of a rename or a move: r goes to n in o.
LEMMA ChangeKeeps ==
    ASSUME NamesInv, NEW q \in Requests, NEW kind \in {"rename", "move"}, NEW r \in Repos, req[q].repo = r,
           NEW o \in Orgs, NEW x \in Names, slug[o] # Nowhere, Change(q, kind, o, x),
           home[r] = <<req[q].org, req[q].old>> => o = req[q].target /\ x = req[q].name
    PROVE  NamesInv'
<1> USE DEF NamesInv
<1>1. Does(q, kind)
  BY DEF Change
<1>2. PICK org \in Orgs, s0 \in Slugs, old \in Names, target \in Orgs, s1 \in Slugs, new \in Names :
        /\ req[q].org = org /\ req[q].slug = s0 /\ req[q].old = old
        /\ req[q].target = target /\ req[q].targetSlug = s1 /\ req[q].name = new
  BY <1>1, PlanFacts
<1> DEFINE holds == home[r] = <<org, old>> /\ slug[org] = s0 /\ slug[target] = s1
<1>3. /\ home[r] # Nowhere /\ (\A y \in Repos : home[y] = <<o, x>> => y = r)
      /\ home' = [home EXCEPT ![r] = <<o, x>>]
      /\ repoRed' = Added(Cleared(repoRed, target, s1, new), s0, old, r)
      /\ Settle(o, x, r)
      /\ Touch({home[r][1], o, org, target}, holds)
      /\ req' = [req EXCEPT ![q] = Nowhere]
      /\ UNCHANGED <<slug, orgRed, renames, owners, known>>
  BY <1>2 DEF Change, Ends, Goes
<1>4. org \in owners[s0] /\ target \in owners[s1] /\ r \in called[<<org, old>>].ever
  BY <1>1, <1>2, <1>3 DEF Recorded, PlansOwned, PlanHolds, Does
<1>5. home[r][1] \in Orgs /\ home[r] = <<home[r][1], home[r][2]>> /\ r \in known
  BY <1>3, HomeFacts DEF Recorded, HomesCreated
<1>6. /\ torn \subseteq torn' /\ torn' \subseteq Orgs
      /\ \A h \in {home[r][1], o, org, target} : h \notin torn' => ~Renaming(h) /\ holds
  BY <1>3, <1>5 DEF Touch, NamesTypeOK
<1>7. Takes(q, r, o, x)
  BY <1>1, <1>3, <1>5, <1>6 DEF Takes, Does
<1>8. /\ repoRed' \in [Slugs \X Names -> Repos \cup {Nowhere}]
      /\ \A s \in Slugs, m \in Names :
           repoRed'[<<s, m>>] = IF s = s0 /\ m = old THEN r
                                ELSE IF m = new /\ (s = s1 \/ orgRed[s] = target) THEN Nowhere
                                ELSE repoRed[<<s, m>>]
  <2> DEFINE C == Cleared(repoRed, target, s1, new)
  <2>1. /\ C \in [Slugs \X Names -> Repos \cup {Nowhere}]
        /\ \A s \in Slugs, m \in Names :
             C[<<s, m>>] = IF m = new /\ (s = s1 \/ orgRed[s] = target) THEN Nowhere ELSE repoRed[<<s, m>>]
    BY DEF Cleared, NamesTypeOK
  <2>2. repoRed' = [C EXCEPT ![<<s0, old>>] = r]
    BY <1>3 DEF Added
  <2> HIDE DEF C
  <2>3. repoRed' \in [Slugs \X Names -> Repos \cup {Nowhere}]
    BY <2>1, <2>2
  <2>4. \A s \in Slugs, m \in Names : repoRed'[<<s, m>>] = IF s = s0 /\ m = old THEN r ELSE C[<<s, m>>]
    BY <2>1, <2>2
  <2> QED
    BY <2>1, <2>3, <2>4
<1>9. RowsTaken(r)
  BY <1>4, <1>8 DEF RowsTaken
<1>10. ASSUME NEW h \in Orgs, Unshared(h), h \notin torn', h \in {home[r][1], o, org, target}
       PROVE  RowsOf(h, r, o, x)
  <2>1. ~Renaming(h) /\ holds
    BY <1>6, <1>10
  <2>2. o = target /\ x = new /\ h \notin torn
    BY <1>2, <1>6, <1>10, <2>1
  <2>3. ASSUME NEW s \in Slugs, NEW m \in Names, h \in owners[s], h = o, m = x
        PROVE  repoRed'[<<s, m>>] \in {Nowhere, r}
    <3>1. s = slug[o] \/ orgRed[s] = o
      BY <1>10, <2>1, <2>2, <2>3, ClearedAreAll
    <3> QED
      BY <1>8, <2>1, <2>2, <2>3, <3>1
  <2>4. ASSUME NEW s \in Slugs, NEW m \in Names, h \in owners[s], ~(h = o /\ m = x)
        PROVE  repoRed'[<<s, m>>] = repoRed[<<s, m>>] \/ (repoRed'[<<s, m>>] = r /\ home[r] = <<h, m>>)
    <3>1. CASE s = s0 /\ m = old
      <4>1. h = org
        BY <1>4, <1>10, <2>4, <3>1 DEF Unshared
      <4> QED
        BY <1>8, <2>1, <3>1, <4>1
    <3>2. CASE ~(s = s0 /\ m = old)
      <4>1. ~(m = new /\ (s = s1 \/ orgRed[s] = target))
        BY <1>4, <1>10, <2>2, <2>4, ClearedAreOwn
      <4> QED
        BY <1>8, <3>2, <4>1
    <3> QED
      BY <3>1, <3>2
  <2>5. ASSUME NEW m \in Names, home[r] = <<h, m>>
        PROVE  \E s \in Slugs : h \in owners[s] /\ repoRed'[<<s, m>>] = r
    BY <1>4, <1>8, <2>1, <2>5
  <2> QED
    BY <2>3, <2>4, <2>5 DEF RowsOf
<1>11. ASSUME NEW h \in Orgs, Unshared(h), h \notin {home[r][1], o, org, target}
       PROVE  RowsOf(h, r, o, x)
  <2>1. ASSUME NEW s \in Slugs, NEW m \in Names, h \in owners[s]
        PROVE  repoRed'[<<s, m>>] = repoRed[<<s, m>>]
    <3>1. s # s0
      BY <1>4, <1>11, <2>1 DEF Unshared
    <3>2. ~(s = s1 \/ orgRed[s] = target)
      BY <1>4, <1>11, <2>1, ClearedAreOwn
    <3> QED
      BY <1>8, <3>1, <3>2
  <2>2. \A m \in Names : home[r] # <<h, m>>
    BY <1>11
  <2>3. h # o
    BY <1>11
  <2> QED
    BY <2>1, <2>2, <2>3 DEF RowsOf
<1>12. RowsFit(r, o, x)
  BY <1>10, <1>11 DEF RowsFit
<1> QED
  BY <1>3, <1>7, <1>9, <1>12, TakesKeeps

\* renameRepository.
LEMMA UpdateNameKeeps ==
    ASSUME NamesInv, NEW q \in Requests, UpdateName(q)
    PROVE  NamesInv'
<1>1. Does(q, "rename") /\ home[req[q].repo] # Nowhere
      /\ Change(q, "rename", home[req[q].repo][1], req[q].name)
  BY DEF UpdateName
<1>2. req[q].repo \in Repos /\ req[q].org \in Orgs /\ req[q].name \in Names /\ req[q].old \in Names
  BY <1>1, PlanFacts DEF NamesInv
<1>3. home[req[q].repo][1] \in Orgs /\ slug[home[req[q].repo][1]] # Nowhere
  BY <1>1, <1>2, HomeFacts, NowhereIsNone DEF NamesInv
<1>4. req[q].target = req[q].org
  BY <1>1 DEF NamesInv, Recorded, PlansOwned, PlanHolds, Does
<1>5. home[req[q].repo] = <<req[q].org, req[q].old>> => home[req[q].repo][1] = req[q].target
  BY <1>4
<1> QED
  BY <1>1, <1>2, <1>3, <1>5, ChangeKeeps

\* moveRepositoryToOrganization.
LEMMA UpdateOrganizationKeeps ==
    ASSUME NamesInv, NEW q \in Requests, UpdateOrganization(q)
    PROVE  NamesInv'
<1>1. Does(q, "move") /\ home[req[q].repo] # Nowhere
      /\ Change(q, "move", req[q].target, home[req[q].repo][2])
  BY DEF UpdateOrganization
<1>2. req[q].repo \in Repos /\ req[q].target \in Orgs /\ req[q].targetSlug \in Slugs
  BY <1>1, PlanFacts DEF NamesInv
<1>3. home[req[q].repo][2] \in Names
  BY <1>1, <1>2, HomeFacts DEF NamesInv
<1>4. req[q].name = req[q].old /\ req[q].target \in owners[req[q].targetSlug]
  BY <1>1 DEF NamesInv, Recorded, PlansOwned, PlanHolds, Does
<1>5. slug[req[q].target] # Nowhere
  BY <1>2, <1>4 DEF NamesInv, Recorded, OwnersExist
<1>6. home[req[q].repo] = <<req[q].org, req[q].old>> => home[req[q].repo][2] = req[q].name
  BY <1>4
<1> QED
  BY <1>1, <1>2, <1>3, <1>5, <1>6, ChangeKeeps

\* deleteRepository: its rows and its place in the histories go with it.
LEMMA DeleteKeeps ==
    ASSUME NamesInv, NEW r \in Repos, DeleteRepository(r)
    PROVE  NamesInv'
<1> USE DEF NamesInv
<1>1. UNCHANGED <<slug, orgRed, req, owners, known, renames, torn>>
  BY DEF DeleteRepository
<1>2. \A q \in Repos : home'[q] = IF q = r THEN Nowhere ELSE home[q]
  BY DEF NamesTypeOK, DeleteRepository
<1>3. \A s \in Slugs, m \in Names :
        repoRed'[<<s, m>>] = IF repoRed[<<s, m>>] = r THEN Nowhere ELSE repoRed[<<s, m>>]
  BY DEF DeleteRepository
<1>4. \A h \in Orgs, m \in Names :
        Last(h, m)' = (IF Last(h, m) = r THEN Nowhere ELSE Last(h, m))
  BY DEF DeleteRepository, Last
<1>5. \A h \in Orgs, m \in Names : called'[<<h, m>>].ever = called[<<h, m>>].ever \ {r}
  BY DEF DeleteRepository
<1>6. NamesTypeOK'
  <2>1. home' \in [Repos -> (Orgs \X Names) \cup {Nowhere}]
    BY DEF NamesTypeOK, DeleteRepository
  <2>2. repoRed' \in [Slugs \X Names -> Repos \cup {Nowhere}]
    BY DEF NamesTypeOK, DeleteRepository
  <2>3. called' \in [Orgs \X Names -> [last : Repos \cup {Nowhere}, ever : SUBSET Repos]]
    <3>1. \A k \in Orgs \X Names : called[k] \in [last : Repos \cup {Nowhere}, ever : SUBSET Repos]
      BY DEF NamesTypeOK
    <3>2. \A k \in Orgs \X Names :
            [last |-> IF called[k].last = r THEN Nowhere ELSE called[k].last, ever |-> called[k].ever \ {r}]
              \in [last : Repos \cup {Nowhere}, ever : SUBSET Repos]
      BY <3>1
    <3> QED
      BY <3>2 DEF DeleteRepository
  <2>4. \A q, w \in Repos : home'[q] = home'[w] /\ home'[q] # Nowhere => q = w
    BY <1>2 DEF NamesTypeOK
  <2>5. \A q \in Repos : home'[q] # Nowhere => slug'[home'[q][1]] # Nowhere
    BY <1>1, <1>2 DEF NamesTypeOK
  <2>6. \A s \in Slugs, m \in Names : repoRed'[<<s, m>>] # Nowhere => home'[repoRed'[<<s, m>>]] # Nowhere
    <3>1. \A s \in Slugs, m \in Names :
            /\ repoRed[<<s, m>>] \in Repos \cup {Nowhere}
            /\ repoRed[<<s, m>>] # Nowhere => home[repoRed[<<s, m>>]] # Nowhere
      BY NameFacts DEF NamesTypeOK
    <3> QED
      BY <1>2, <1>3, <3>1
  <2> QED
    BY <1>1, <2>1, <2>2, <2>3, <2>4, <2>5, <2>6 DEF NamesTypeOK
<1>7. Recorded'
  <2>1. SlugsOwned' /\ OldSlugsOwned' /\ OwnersExist' 
    BY <1>1 DEF Recorded, SlugsOwned, OldSlugsOwned, OwnersExist
  <2>2. HomesCreated'
    BY <1>1, <1>2 DEF Recorded, HomesCreated
  <2>3. HomesLast'
    <3> SUFFICES ASSUME NEW q \in Repos, NEW h \in Orgs, NEW m \in Names, home'[q] = <<h, m>>
                 PROVE  Last(h, m)' = q /\ q \in called'[<<h, m>>].ever
      BY DEF HomesLast
    <3>1. q # r /\ home[q] = <<h, m>>
      BY <1>2, NowhereIsNone
    <3>2. Last(h, m) = q /\ q \in called[<<h, m>>].ever
      BY <3>1 DEF Recorded, HomesLast
    <3> QED
      BY <1>4, <1>5, <3>1, <3>2
  <2>4. LastsExist'
    <3> SUFFICES ASSUME NEW h \in Orgs, NEW m \in Names, Last(h, m)' # Nowhere
                 PROVE  home'[Last(h, m)'] # Nowhere /\ slug[h] # Nowhere
      BY <1>1 DEF LastsExist
    <3>1. Last(h, m) # r /\ Last(h, m)' = Last(h, m)
      BY <1>4
    <3>2. PICK q \in Repos : q = Last(h, m)
      BY <3>1, NameFacts
    <3>3. home[q] # Nowhere /\ slug[h] # Nowhere
      BY <3>2, NowhereIsNone DEF Recorded, LastsExist
    <3> QED
      BY <1>2, <3>1, <3>2, <3>3
  <2>5. RowsRecorded'
    <3> SUFFICES ASSUME NEW s \in Slugs, NEW m \in Names, repoRed'[<<s, m>>] # Nowhere
                 PROVE  \E h \in owners[s] : repoRed'[<<s, m>>] \in called'[<<h, m>>].ever
      BY <1>1 DEF RowsRecorded
    <3>1. repoRed[<<s, m>>] # r /\ repoRed'[<<s, m>>] = repoRed[<<s, m>>]
      BY <1>3
    <3>2. PICK h \in owners[s] : repoRed[<<s, m>>] \in called[<<h, m>>].ever
      BY <3>1 DEF Recorded, RowsRecorded
    <3>3. h \in Orgs
      BY NameFacts
    <3> QED
      BY <1>5, <3>1, <3>2, <3>3
  <2>6. PlansOwned'
    <3>1. /\ \A q \in Repos : home'[q] # Nowhere => q # r
          /\ \A h \in Orgs, m \in Names, q \in Repos :
               q # r /\ q \in called[<<h, m>>].ever => q \in called'[<<h, m>>].ever
      BY <1>2, <1>5
    <3>2. HistoriesGrow
      BY <1>1, <1>2, <3>1 DEF HistoriesGrow, NamesTypeOK
    <3> SUFFICES ASSUME NEW z \in Requests, req[z] # Nowhere PROVE PlanHolds(req[z])'
      BY <1>1 DEF PlansOwned
    <3>3. PlanHolds(req[z])
      BY DEF Recorded, PlansOwned
    <3>4. req'[z] = req[z]
      BY <1>1
    <3> QED
      BY <3>2, <3>3, <3>4, PlanStays DEF PlanHolds
  <2> QED
    BY <2>1, <2>2, <2>3, <2>4, <2>5, <2>6 DEF Recorded
<1>8. AllKept'
  <2> SUFFICES ASSUME NEW h \in Orgs, Unshared(h), h \notin torn PROVE Kept(h)'
    BY <1>1 DEF AllKept, Unshared
  <2>1. Kept(h)
    BY DEF AllKept
  <2>2. FormersRedirect(h)' /\ RenameIsToPresent(h)'
    BY <1>1, <2>1 DEF Kept, FormersRedirect, RenameIsToPresent, InRename, Does
  <2>3. RowsNameLast(h)'
    BY <1>1, <1>3, <1>4, <2>1 DEF Kept, RowsNameLast, Clears, Does
  <2>4. LeftAreFound(h)'
    <3> SUFFICES ASSUME NEW m \in Names, Last(h, m)' # Nowhere, home'[Last(h, m)'] # <<h, m>>
                 PROVE  \E s \in Slugs : h \in owners[s] /\ repoRed'[<<s, m>>] = Last(h, m)'
      BY <1>1 DEF LeftAreFound
    <3>1. Last(h, m) # r /\ Last(h, m)' = Last(h, m)
      BY <1>4
    <3>2. PICK q \in Repos : q = Last(h, m)
      BY <3>1, NameFacts
    <3>3. home[q] # <<h, m>>
      BY <1>2, <3>1, <3>2
    <3>4. PICK s \in Slugs : h \in owners[s] /\ repoRed[<<s, m>>] = q
      BY <2>1, <3>1, <3>2, <3>3 DEF Kept, LeftAreFound
    <3> QED
      BY <1>3, <3>1, <3>2, <3>4
  <2> QED
    BY <2>2, <2>3, <2>4 DEF Kept
<1> QED
  BY <1>6, <1>7, <1>8
-----------------------------------------------------------------------------
(* Organizations are created and renamed, and their redirects written. *)

\* What these steps have in common: slugs and redirects go to owners, nobody
\* loses the slug altogether, and no creation of a repository is concerned.
OrgStep(q, w) ==
    /\ slug' \in [Orgs -> Slugs \cup {Nowhere}] /\ orgRed' \in [Slugs -> Orgs \cup {Nowhere}]
    /\ owners' \in [Slugs -> SUBSET Orgs]
    /\ \A s \in Slugs : owners[s] \subseteq owners'[s]
    /\ \A h \in Orgs : slug[h] # Nowhere => slug'[h] # Nowhere
    /\ \A h, g \in Orgs : slug'[h] = slug'[g] /\ slug'[h] # Nowhere => h = g
    /\ SlugsOwned' /\ OldSlugsOwned' /\ OwnersExist'
    /\ torn \subseteq torn' /\ torn' \subseteq Orgs /\ renames' = renames
    /\ req' = [req EXCEPT ![q] = w] /\ ~Does(q, "clear")
    /\ UNCHANGED <<home, repoRed, called, known>>

\* Such a step preserves the invariant if it keeps the redirects in order.
LEMMA OrgStepKeeps ==
    ASSUME NamesInv, NEW q \in Requests, NEW w, OrgStep(q, w), w \in Work \cup {Nowhere},
           w = Nowhere \/ (PlanHolds(w)' /\ w.kind # "clear"),
           \A h \in Orgs : Unshared(h)' /\ Unshared(h) /\ h \notin torn' /\ Kept(h) =>
                             FormersRedirect(h)' /\ RenameIsToPresent(h)'
    PROVE  NamesInv'
<1> USE DEF NamesInv
<1>1. /\ UNCHANGED <<home, repoRed, called, known>> /\ \A s \in Slugs : owners[s] \subseteq owners'[s]
      /\ req' = [req EXCEPT ![q] = w] /\ torn \subseteq torn'
      /\ \A h \in Orgs : slug[h] # Nowhere => slug'[h] # Nowhere
  BY DEF OrgStep
<1>2. NamesTypeOK'
  <2>1. req' \in [Requests -> Work \cup {Nowhere}]
    BY <1>1 DEF NamesTypeOK
  <2>2. \A r \in Repos : home'[r] # Nowhere => slug'[home'[r][1]] # Nowhere
    BY <1>1, HomeFacts, NowhereIsNone
  <2>3. \A s \in Slugs : orgRed'[s] # Nowhere => slug'[orgRed'[s]] # Nowhere
    BY DEF OrgStep, OldSlugsOwned, OwnersExist
  <2> QED
    BY <1>1, <2>1, <2>2, <2>3 DEF OrgStep, NamesTypeOK
<1>3. Recorded'
  <2>1. HomesCreated' /\ HomesLast'
    BY <1>1 DEF Recorded, HomesCreated, HomesLast, Last
  <2>2. LastsExist'
    BY <1>1 DEF Recorded, LastsExist, Last
  <2>3. RowsRecorded'
    <3>1. ASSUME NEW s \in Slugs, NEW m \in Names, repoRed[<<s, m>>] # Nowhere
          PROVE  \E h \in owners'[s] : repoRed[<<s, m>>] \in called[<<h, m>>].ever
      <4>1. \E h \in owners[s] : repoRed[<<s, m>>] \in called[<<h, m>>].ever
        BY <3>1 DEF Recorded, RowsRecorded
      <4> QED
        BY <1>1, <4>1
    <3> QED
      BY <1>1, <3>1 DEF RowsRecorded
  <2>4. HistoriesGrow
    BY <1>1 DEF HistoriesGrow, NamesTypeOK
  <2>5. PlansOwned'
    BY <1>1, <2>4, PlansStay DEF Recorded
  <2> QED
    BY <2>1, <2>2, <2>3, <2>5 DEF OrgStep, Recorded
<1>4. ASSUME NEW h \in Orgs, Unshared(h)', h \notin torn' PROVE Kept(h)'
  <2>1. Unshared(h)
    BY <1>1, <1>4 DEF Unshared
  <2>2. Kept(h)
    BY <1>1, <1>4, <2>1 DEF AllKept
  <2>3. FormersRedirect(h)' /\ RenameIsToPresent(h)'
    BY <1>4, <2>1, <2>2
  <2>4. \A m \in Names : Last(h, m)' = Last(h, m) /\ (Clears(h, m) => Clears(h, m)')
    <3>1. \A m \in Names : Clears(h, m) => Clears(h, m)' \/ Does(q, "clear")
      BY <1>1, OthersWait
    <3> QED
      BY <1>1, <3>1 DEF Last, OrgStep
  <2>5. RowsNameLast(h)'
    <3> SUFFICES ASSUME NEW s \in Slugs, NEW m \in Names, h \in owners'[s]
                 PROVE  repoRed[<<s, m>>] = Nowhere \/ repoRed[<<s, m>>] = Last(h, m) \/ Clears(h, m)'
      BY <1>1, <2>4 DEF RowsNameLast
    <3>1. CASE h \in owners[s]
      BY <2>2, <2>4, <3>1 DEF Kept, RowsNameLast
    <3>2. CASE h \notin owners[s]
      <4>1. owners'[s] = {h}
        BY <1>4 DEF Unshared
      <4>2. owners[s] = {}
        BY <1>1, <3>2, <4>1
      <4> QED
        BY <4>2 DEF Recorded, RowsRecorded
    <3> QED
      BY <3>1, <3>2
  <2>6. LeftAreFound(h)'
    <3> SUFFICES ASSUME NEW m \in Names, Last(h, m) # Nowhere, home[Last(h, m)] # <<h, m>>
                 PROVE  \E s \in Slugs : h \in owners'[s] /\ repoRed[<<s, m>>] = Last(h, m)
      BY <1>1, <2>4 DEF LeftAreFound
    <3>1. PICK s \in Slugs : h \in owners[s] /\ repoRed[<<s, m>>] = Last(h, m)
      BY <2>2 DEF Kept, LeftAreFound
    <3> QED
      BY <1>1, <3>1
  <2> QED
    BY <2>3, <2>5, <2>6 DEF Kept
<1> QED
  BY <1>2, <1>3, <1>4 DEF AllKept

\* The redirects alone change.
LEMMA TableKeeps ==
    ASSUME NamesInv, NEW q \in Requests, NEW w, w \in Work \cup {Nowhere},
           w = Nowhere \/ (PlanHolds(w) /\ w.kind # "clear"),
           req' = [req EXCEPT ![q] = w], ~Does(q, "clear"),
           UNCHANGED <<slug, home, repoRed, owners, called, known, renames>>,
           torn \subseteq torn', torn' \subseteq Orgs,
           orgRed' \in [Slugs -> Orgs \cup {Nowhere}],
           \A s \in Slugs : orgRed'[s] # Nowhere => orgRed'[s] \in owners[s],
           \A h \in Orgs : Unshared(h) /\ h \notin torn' /\ Kept(h) =>
                             FormersRedirect(h)' /\ RenameIsToPresent(h)'
    PROVE  NamesInv'
<1>1. OrgStep(q, w)
  BY DEF OrgStep, NamesInv, NamesTypeOK, Recorded, SlugsOwned, OldSlugsOwned, OwnersExist
<1>2. w = Nowhere \/ (PlanHolds(w)' /\ w.kind # "clear")
  BY DEF PlanHolds
<1> QED
  BY <1>1, <1>2, OrgStepKeeps

\* clearOrganizationRedirect for a new organization.
LEMMA FreesSlugKeeps ==
    ASSUME NamesInv, NEW q \in Requests, NEW w, w \in Work \cup {Nowhere}, NEW s \in Slugs, FreesSlug(s),
           w = Nowhere \/ (PlanHolds(w) /\ w.kind \notin {"clear", "orgClear", "orgAdd"}),
           req' = [req EXCEPT ![q] = w],
           \A kind \in {"clear", "orgClear", "orgAdd"} : ~Does(q, kind),
           UNCHANGED <<slug, home, repoRed, owners, called, known, renames>>
    PROVE  NamesInv'
<1>1. /\ orgRed' \in [Slugs -> Orgs \cup {Nowhere}]
      /\ \A u \in Slugs : orgRed'[u] = IF u = s THEN Nowhere ELSE orgRed[u]
  BY DEF FreesSlug, NamesInv, NamesTypeOK
<1>2. torn \subseteq torn' /\ torn' \subseteq Orgs /\ (orgRed[s] # Nowhere => orgRed[s] \in torn')
  BY NameFacts DEF FreesSlug, NamesInv, NamesTypeOK
<1>3. \A u \in Slugs : orgRed'[u] # Nowhere => orgRed'[u] \in owners[u]
  BY <1>1 DEF NamesInv, Recorded, OldSlugsOwned
<1>4. ASSUME NEW h \in Orgs, h \notin torn', Kept(h) PROVE FormersRedirect(h)' /\ RenameIsToPresent(h)'
  <2>1. \A z \in Requests : z # q => req'[z] = req[z] /\ (InRename(z, h)' <=> InRename(z, h))
    BY OthersWait DEF NamesInv
  <2>2. ~InRename(q, h) /\ ~InRename(q, h)'
    <3>1. req'[q] = w
      BY OthersWait DEF NamesInv
    <3> QED
      BY <3>1 DEF InRename, Does
  <2>3. \A u \in Slugs : orgRed[u] = h => orgRed'[u] = h
    BY <1>1, <1>2, <1>4, NowhereIsNone
  <2> QED
    BY <1>4, <2>1, <2>2, <2>3 DEF Kept, FormersRedirect, RenameIsToPresent
<1> QED
  BY <1>1, <1>2, <1>3, <1>4, TableKeeps

\* The API frees the slug of its new organization.
LEMMA FreeSlugKeeps ==
    ASSUME NamesInv, NEW q \in Requests, FreeSlug(q)
    PROVE  NamesInv'
<1>1. Does(q, "orgFree")
  BY DEF FreeSlug
<1>2. req[q].slug \in Slugs
  BY <1>1, PlanFacts DEF NamesInv
<1>3. \A kind \in {"clear", "orgClear", "orgAdd"} : ~Does(q, kind)
  BY <1>1 DEF Does
<1> QED
  BY <1>2, <1>3, FreesSlugKeeps DEF FreeSlug, Ends, Goes, names

\* The pages free the slug of an organization to be.
LEMMA BeforeCreateKeeps ==
    ASSUME NamesInv, NEW q \in Requests, NEW s \in Slugs, BeforeCreateOrganization(q, s)
    PROVE  NamesInv'
<1> DEFINE w == [kind |-> "orgInsert", slug |-> s]
<1>1. w \in Work /\ PlanHolds(w) /\ w.kind \notin {"clear", "orgClear", "orgAdd"}
  BY DEF Work, OrgCreations, PlanHolds
<1>2. Starts(q, w) /\ FreesSlug(s) /\ UNCHANGED <<slug, home, repoRed, owners, called, known, renames>>
  BY DEF BeforeCreateOrganization, names
<1> HIDE DEF w
<1>3. req' = [req EXCEPT ![q] = w] /\ \A kind : ~Does(q, kind)
  BY <1>2, StartsFacts
<1> QED
  BY <1>1, <1>2, <1>3, FreesSlugKeeps

\* renameOrganization, its second and third statement.
LEMMA RedirectKeeps ==
    ASSUME NamesInv, NEW q \in Requests, ClearOrganizationRedirect(q) \/ AddOrganizationRedirect(q)
    PROVE  NamesInv'
<1> USE DEF NamesInv
<1>1. UNCHANGED <<slug, home, repoRed, owners, called, known, renames, torn>>
  BY DEF ClearOrganizationRedirect, AddOrganizationRedirect, names, history
<1>2. PICK kind \in {"orgClear", "orgAdd"} : Does(q, kind)
  BY DEF ClearOrganizationRedirect, AddOrganizationRedirect
<1>3. PICK o \in Orgs, from \in Slugs, to \in Slugs :
        req[q].org = o /\ req[q].from = from /\ req[q].to = to
  BY <1>2, PlanFacts
<1>4. o \in owners[from] /\ o \in owners[to] /\ req[q] \in Work /\ req[q] \in OrgRenames /\ PlanHolds(req[q])
  <2>1. req[q] \in Work /\ req[q].kind = kind /\ req[q] # Nowhere
    BY <1>2, PlanFacts DEF Does
  <2>2. PlanHolds(req[q])
    BY <2>1 DEF Recorded, PlansOwned
  <2> QED
    BY <1>3, <2>1, <2>2, WorkFacts DEF PlanHolds
<1>5. InRename(q, o) /\ ~Does(q, "clear") /\ \A h \in Orgs : InRename(q, h) => h = o
  BY <1>2, <1>3 DEF InRename, Does
<1>6. CASE ClearOrganizationRedirect(q)
  <2> DEFINE w == [req[q] EXCEPT !.kind = "orgAdd"]
  <2>1. w = [kind |-> "orgAdd", org |-> o, from |-> from, to |-> to]
    BY <1>3, <1>4 DEF OrgRenames
  <2>2. /\ w \in Work /\ PlanHolds(w) /\ w.kind = "orgAdd" /\ w.org = o /\ w.from = from /\ w.to = to
    BY <1>4, <2>1 DEF Work, OrgRenames, PlanHolds
  <2>3. req' = [req EXCEPT ![q] = w] /\ orgRed' = [orgRed EXCEPT ![to] = Nowhere]
    BY <1>3, <1>6 DEF ClearOrganizationRedirect, Goes
  <2> HIDE DEF w
  <2>4. /\ orgRed' \in [Slugs -> Orgs \cup {Nowhere}]
        /\ \A u \in Slugs : orgRed'[u] = IF u = to THEN Nowhere ELSE orgRed[u]
    BY <2>3 DEF NamesTypeOK
  <2>5. \A u \in Slugs : orgRed'[u] # Nowhere => orgRed'[u] \in owners[u]
    BY <2>4 DEF Recorded, OldSlugsOwned
  <2>6. ASSUME NEW h \in Orgs, Unshared(h), Kept(h) PROVE FormersRedirect(h)' /\ RenameIsToPresent(h)'
    <3>1. req'[q] = w /\ \A z \in Requests : z # q => req'[z] = req[z] /\ (InRename(z, h)' <=> InRename(z, h))
      BY <2>3, OthersWait
    <3>2. InRename(q, h)' <=> h = o
      BY <2>2, <3>1, NowhereIsNone DEF InRename, Does
    <3>3. \A z \in Requests : (InRename(z, h)' <=> InRename(z, h)) /\ req'[z].from = req[z].from /\ req'[z].to = req[z].to
      BY <1>3, <1>5, <2>2, <3>1, <3>2
    <3>4. \A u \in Slugs : h \in owners[u] /\ orgRed[u] = h => u = slug[h] \/ orgRed'[u] = h
      <4>1. CASE h = o
        <5>1. to = slug[h]
          BY <1>3, <1>5, <2>6, <4>1 DEF Kept, RenameIsToPresent
        <5> QED
          BY <2>4, <5>1
      <4>2. CASE h # o
        BY <1>4, <2>4, <2>6, <4>2 DEF Unshared
      <4> QED
        BY <4>1, <4>2
    <3> QED
      BY <1>1, <2>6, <3>3, <3>4 DEF Kept, FormersRedirect, RenameIsToPresent
  <2> QED
    BY <1>1, <1>5, <2>2, <2>3, <2>4, <2>5, <2>6, TableKeeps DEF NamesTypeOK
<1>7. CASE AddOrganizationRedirect(q)
  <2>1. req' = [req EXCEPT ![q] = Nowhere] /\ orgRed' = [orgRed EXCEPT ![from] = o]
    BY <1>3, <1>7 DEF AddOrganizationRedirect, Ends, Goes
  <2>2. /\ orgRed' \in [Slugs -> Orgs \cup {Nowhere}]
        /\ \A u \in Slugs : orgRed'[u] = IF u = from THEN o ELSE orgRed[u]
    BY <2>1 DEF NamesTypeOK
  <2>3. \A u \in Slugs : orgRed'[u] # Nowhere => orgRed'[u] \in owners[u]
    BY <1>4, <2>2 DEF Recorded, OldSlugsOwned
  <2>4. ASSUME NEW h \in Orgs, Unshared(h), Kept(h) PROVE FormersRedirect(h)' /\ RenameIsToPresent(h)'
    <3>1. req'[q] = Nowhere /\ \A z \in Requests : z # q => req'[z] = req[z] /\ (InRename(z, h)' <=> InRename(z, h))
      BY <2>1, OthersWait
    <3>2. ~InRename(q, h)'
      BY <3>1 DEF InRename, Does
    <3>3. \A u \in Slugs : h \in owners[u] /\ orgRed[u] = h => orgRed'[u] = h
      BY <1>4, <2>2, <2>4 DEF Unshared
    <3>4. \A u \in Slugs : InRename(q, h) /\ req[q].from = u => orgRed'[u] = h
      BY <1>3, <1>5, <2>2
    <3> QED
      BY <1>1, <2>4, <3>1, <3>2, <3>3, <3>4 DEF Kept, FormersRedirect, RenameIsToPresent
  <2> QED
    BY <1>1, <1>5, <2>1, <2>2, <2>3, <2>4, TableKeeps DEF NamesTypeOK
<1> QED
  BY <1>6, <1>7

\* What taking a slug writes.
Took(o, s) ==
    /\ slug' \in [Orgs -> Slugs \cup {Nowhere}]
    /\ \A h \in Orgs : slug'[h] = IF h = o THEN s ELSE slug[h]
    /\ \A h \in Orgs : h # o => slug[h] # s
    /\ owners' \in [Slugs -> SUBSET Orgs]
    /\ \A u \in Slugs : owners'[u] = IF u = s THEN owners[s] \cup {o} ELSE owners[u]

\* Take, value by value.
LEMMA TakeFacts ==
    ASSUME NamesTypeOK, NEW o \in Orgs, NEW s \in Slugs, Take(o, s)
    PROVE  Took(o, s)
<1>1. slug \in [Orgs -> Slugs \cup {Nowhere}] /\ owners \in [Slugs -> SUBSET Orgs]
  BY DEF NamesTypeOK
<1> DEFINE new == owners[s] \cup {o}
<1>2. new \in SUBSET Orgs
  BY <1>1
<1> HIDE DEF new
<1>3. owners' = [owners EXCEPT ![s] = new]
  BY DEF Take, new
<1>4. owners' \in [Slugs -> SUBSET Orgs] /\ \A u \in Slugs : owners'[u] = IF u = s THEN new ELSE owners[u]
  BY <1>1, <1>2, <1>3
<1> QED
  BY <1>1, <1>4 DEF Took, Take, OrgIDBySlug, new

\* An organization takes a slug; its own redirects are the step's to keep.
LEMMA TookKeeps ==
    ASSUME NamesInv, NEW q \in Requests, NEW w, w \in Work \cup {Nowhere}, NEW o \in Orgs, NEW s \in Slugs, Took(o, s),
           w = Nowhere \/ (PlanHolds(w)' /\ w.kind # "clear"),
           req' = [req EXCEPT ![q] = w], ~Does(q, "clear"),
           UNCHANGED <<home, orgRed, repoRed, called, known, renames>>,
           torn \subseteq torn', torn' \subseteq Orgs,
           \A h \in Orgs : h # o => ~InRename(q, h) /\ ~InRename(q, h)',
           Kept(o) /\ o \notin torn' => FormersRedirect(o)' /\ RenameIsToPresent(o)'
    PROVE  NamesInv'
<1> USE DEF NamesInv
<1>1. /\ \A h \in Orgs : slug'[h] = IF h = o THEN s ELSE slug[h]
      /\ \A u \in Slugs : owners'[u] = IF u = s THEN owners[s] \cup {o} ELSE owners[u]
      /\ \A h \in Orgs : h # o => slug[h] # s
  BY DEF Took
<1>2. SlugsOwned' /\ OldSlugsOwned' /\ OwnersExist'
  <2>1. SlugsOwned'
    <3> SUFFICES ASSUME NEW h \in Orgs, slug'[h] # Nowhere PROVE h \in owners'[slug'[h]]
      BY DEF SlugsOwned
    <3>1. CASE h = o
      BY <1>1, <3>1
    <3>2. CASE h # o
      <4>1. slug'[h] = slug[h] /\ slug[h] \in Slugs /\ h \in owners[slug[h]]
        BY <1>1, <3>2, NameFacts DEF Recorded, SlugsOwned
      <4> QED
        BY <1>1, <4>1
    <3> QED
      BY <3>1, <3>2
  <2>2. OldSlugsOwned'
    BY <1>1 DEF Recorded, OldSlugsOwned
  <2>3. OwnersExist'
    <3> SUFFICES ASSUME NEW u \in Slugs, NEW h \in owners'[u] PROVE slug'[h] # Nowhere
      BY DEF OwnersExist
    <3>1. CASE h = o
      BY <1>1, <3>1, NowhereIsNone
    <3>2. CASE h # o
      <4>1. h \in owners[u] /\ h \in Orgs
        BY <1>1, <3>2, NameFacts
      <4> QED
        BY <1>1, <3>2, <4>1 DEF Recorded, OwnersExist
    <3> QED
      BY <3>1, <3>2
  <2> QED
    BY <2>1, <2>2, <2>3
<1>3. OrgStep(q, w)
  <2>1. \A h, g \in Orgs : slug'[h] = slug'[g] /\ slug'[h] # Nowhere => h = g
    BY <1>1 DEF NamesTypeOK
  <2>2. \A h \in Orgs : slug[h] # Nowhere => slug'[h] # Nowhere
    BY <1>1, NowhereIsNone
  <2>3. \A u \in Slugs : owners[u] \subseteq owners'[u]
    BY <1>1
  <2> QED
    BY <1>2, <2>1, <2>2, <2>3 DEF OrgStep, Took, NamesTypeOK
<1>4. ASSUME NEW h \in Orgs, h # o, Unshared(h)', Kept(h) PROVE FormersRedirect(h)' /\ RenameIsToPresent(h)'
  <2>1. \A z \in Requests : (InRename(z, h)' <=> InRename(z, h)) /\ (InRename(z, h) => req'[z] = req[z])
    BY <1>4, OthersWait
  <2>2. \A u \in Slugs : h \in owners'[u] => h \in owners[u]
    BY <1>1, <1>4
  <2>3. slug'[h] = slug[h]
    BY <1>1, <1>4
  <2> QED
    BY <1>4, <2>1, <2>2, <2>3 DEF Kept, FormersRedirect, RenameIsToPresent
<1> QED
  BY <1>3, <1>4, OrgStepKeeps

\* A new organization has had no slug, and none of its own is changing.
LEMMA NewOrganizationKeeps ==
    ASSUME NamesInv, NEW q \in Requests, NEW w, w \in Work \cup {Nowhere}, NEW o \in Orgs, NEW s \in Slugs,
           slug[o] = Nowhere, Take(o, s),
           w = Nowhere \/ (PlanHolds(w)' /\ w.kind \notin {"clear", "orgClear", "orgAdd"}),
           req' = [req EXCEPT ![q] = w],
           \A kind \in {"clear", "orgClear", "orgAdd"} : ~Does(q, kind),
           UNCHANGED <<home, orgRed, repoRed, called, known, renames, torn>>
    PROVE  NamesInv'
<1> USE DEF NamesInv
<1>1. Took(o, s)
  BY TakeFacts
<1>2. \A u \in Slugs : o \in owners'[u] => u = s
  BY <1>1 DEF Took, Recorded, OwnersExist
<1>3. slug'[o] = s
  BY <1>1 DEF Took
<1>4. req'[q] = w
  BY OthersWait
<1>5. \A h \in Orgs : ~InRename(q, h) /\ ~InRename(q, h)'
  BY <1>4 DEF InRename, Does
<1>6. ASSUME NEW z \in Requests, InRename(z, o)' PROVE FALSE
  <2>1. z # q
    BY <1>5, <1>6
  <2>2. InRename(z, o)
    BY <1>6, <2>1, OthersWait
  <2>3. PICK kind \in {"orgClear", "orgAdd"} : Does(z, kind) /\ req[z].org = o
    BY <2>2 DEF InRename
  <2>4. req[z].from \in Slugs /\ o \in owners[req[z].from]
    BY <2>3, PlanFacts DEF Recorded, PlansOwned, PlanHolds, Does
  <2> QED
    BY <2>4 DEF Recorded, OwnersExist
<1>7. FormersRedirect(o)' /\ RenameIsToPresent(o)'
  BY <1>2, <1>3, <1>6 DEF FormersRedirect, RenameIsToPresent
<1> QED
  BY <1>1, <1>5, <1>7, TookKeeps DEF NamesTypeOK

\* The API creates the organization first.
LEMMA CreateOrganizationKeeps ==
    ASSUME NamesInv, NEW q \in Requests, NEW o \in Orgs, NEW s \in Slugs, CreateOrganization(q, o, s)
    PROVE  NamesInv'
<1> DEFINE w == [kind |-> "orgFree", slug |-> s]
<1>1. w \in Work /\ PlanHolds(w)' /\ w.kind \notin {"clear", "orgClear", "orgAdd"}
  BY DEF Work, OrgCreations, PlanHolds
<1>2. /\ Starts(q, w) /\ slug[o] = Nowhere /\ Take(o, s)
      /\ UNCHANGED <<home, orgRed, repoRed, called, known, renames, torn>>
  BY DEF CreateOrganization, tables
<1> HIDE DEF w
<1>3. req' = [req EXCEPT ![q] = w] /\ \A kind : ~Does(q, kind)
  BY <1>2, StartsFacts
<1> QED
  BY <1>1, <1>2, <1>3, NewOrganizationKeeps

\* The pages create it last.
LEMMA InsertOrganizationKeeps ==
    ASSUME NamesInv, NEW q \in Requests, NEW o \in Orgs, InsertOrganization(q, o)
    PROVE  NamesInv'
<1>1. Does(q, "orgInsert") /\ slug[o] = Nowhere /\ Take(o, req[q].slug) /\ req' = [req EXCEPT ![q] = Nowhere]
      /\ UNCHANGED <<home, orgRed, repoRed, called, known, renames, torn>>
  BY DEF InsertOrganization, tables, Ends, Goes
<1>2. req[q].slug \in Slugs
  BY <1>1, PlanFacts DEF NamesInv
<1>3. \A kind \in {"clear", "orgClear", "orgAdd"} : ~Does(q, kind)
  BY <1>1 DEF Does
<1> QED
  BY <1>1, <1>2, <1>3, NewOrganizationKeeps

\* renameOrganization, its first statement.
LEMMA UpdateSlugKeeps ==
    ASSUME NamesInv, NEW q \in Requests, UpdateSlug(q)
    PROVE  NamesInv'
<1> USE DEF NamesInv
<1>1. Does(q, "orgUpdate")
  BY DEF UpdateSlug
<1>2. PICK o \in Orgs, from \in Slugs, to \in Slugs :
        req[q].org = o /\ req[q].from = from /\ req[q].to = to
  BY <1>1, PlanFacts
<1>0. PICK w : w = [req[q] EXCEPT !.kind = "orgClear"]
  OBVIOUS
<1>3. /\ Take(o, to) /\ Touch({o}, slug[o] = from) /\ req' = [req EXCEPT ![q] = w]
      /\ UNCHANGED <<home, orgRed, repoRed, called, known, renames>>
  BY <1>0, <1>2 DEF UpdateSlug, Goes, tables
<1>4. req[q] \in OrgRenames /\ o \in owners[from]
  <2>1. req[q] \in Work /\ req[q].kind = "orgUpdate" /\ req[q] # Nowhere
    BY <1>1, PlanFacts DEF Does
  <2> QED
    BY <1>2, <2>1, WorkFacts DEF Recorded, PlansOwned, PlanHolds
<1>5. w = [kind |-> "orgClear", org |-> o, from |-> from, to |-> to]
  BY <1>0, <1>2, <1>4 DEF OrgRenames
<1>6. Took(o, to)
  BY <1>3, TakeFacts
<1>7. /\ \A h \in Orgs : slug'[h] = IF h = o THEN to ELSE slug[h]
      /\ \A u \in Slugs : owners'[u] = IF u = to THEN owners[to] \cup {o} ELSE owners[u]
  BY <1>6 DEF Took
<1>8. w \in Work /\ w.kind = "orgClear" /\ w.org = o /\ w.from = from /\ w.to = to
  BY <1>5 DEF Work, OrgRenames
<1>9. o \in owners'[from] /\ o \in owners'[to]
  BY <1>4, <1>7
<1>10. PlanHolds(w)'
  BY <1>8, <1>9 DEF PlanHolds
<1>11. /\ torn \subseteq torn' /\ torn' \subseteq Orgs
       /\ o \notin torn' => ~Renaming(o) /\ slug[o] = from
  BY <1>3 DEF Touch, NamesTypeOK
<1>12. req'[q] = w /\ \A z \in Requests : z # q => req'[z] = req[z] /\ (InRename(z, o)' <=> InRename(z, o))
  BY <1>3, OthersWait
<1>13. ~Does(q, "clear") /\ \A h \in Orgs : ~InRename(q, h) /\ (InRename(q, h)' <=> h = o)
  BY <1>1, <1>8, <1>12, NowhereIsNone DEF InRename, Does
<1>14. ASSUME Kept(o), o \notin torn' PROVE FormersRedirect(o)' /\ RenameIsToPresent(o)'
  <2>1. \A z \in Requests : ~InRename(z, o)
    BY <1>11, <1>14 DEF Renaming, InRename
  <2>2. \A z \in Requests : InRename(z, o)' <=> z = q
    BY <1>12, <1>13, <2>1
  <2>3. ASSUME NEW u \in Slugs, o \in owners'[u], u # to PROVE u = from \/ orgRed'[u] = o
    BY <1>3, <1>7, <1>11, <1>14, <2>1, <2>3 DEF Kept, FormersRedirect
  <2>4. req'[q].from = from /\ req'[q].to = to /\ slug'[o] = to
    BY <1>7, <1>8, <1>12
  <2> QED
    BY <2>2, <2>3, <2>4 DEF FormersRedirect, RenameIsToPresent
<1> QED
  BY <1>3, <1>6, <1>8, <1>10, <1>11, <1>13, <1>14, TookKeeps

-----------------------------------------------------------------------------
\* Every step of a request, and its end before it is through, preserves the
\* invariant.
LEMMA NamesInvStep == NamesInv /\ [NamesNext]_namesVars => NamesInv'
<1> SUFFICES ASSUME NamesInv, [NamesNext]_namesVars PROVE NamesInv'
  OBVIOUS
<1>1. CASE UNCHANGED namesVars
  <2>0. UNCHANGED <<slug, home, orgRed, repoRed, req, owners, called, known, renames, torn>>
    BY <1>1 DEF namesVars, names, tables, history
  <2>1. NamesTypeOK'
    BY <2>0 DEF NamesInv, NamesTypeOK
  <2>2. Recorded'
    BY <2>0 DEF NamesInv, Recorded, SlugsOwned, OldSlugsOwned, OwnersExist,
                HomesCreated, HomesLast, LastsExist, RowsRecorded, PlansOwned, PlanHolds, Last
  <2>3. AllKept'
    <3> SUFFICES ASSUME NEW o \in Orgs, Kept(o) PROVE Kept(o)'
      BY <2>0 DEF NamesInv, AllKept, Unshared
    <3>1. FormersRedirect(o)' /\ RenameIsToPresent(o)'
      BY <2>0 DEF Kept, FormersRedirect, RenameIsToPresent, InRename, Does
    <3>2. RowsNameLast(o)' /\ LeftAreFound(o)'
      BY <2>0 DEF Kept, RowsNameLast, LeftAreFound, Last, Clears, Does
    <3> QED
      BY <3>1, <3>2 DEF Kept
  <2> QED
    BY <2>1, <2>2, <2>3 DEF NamesInv
<1>2. CASE NamesNext
  BY <1>2, CreateKeeps, RenameKeeps, MoveKeeps, InsertKeeps, EnsureKeeps, ClearKeeps, UpdateNameKeeps,
     UpdateOrganizationKeeps, DeleteKeeps, CreateOrganizationKeeps, RenameOrganizationKeeps,
     BeforeCreateKeeps, InsertOrganizationKeeps, FreeSlugKeeps, UpdateSlugKeeps, RedirectKeeps,
     DiesKeeps, PushKeeps DEF NamesNext
<1> QED
  BY <1>1, <1>2

\* The invariant holds throughout.
LEMMA NamesInvHolds == NamesSpec => []NamesInv
BY NamesInitInv, NamesInvStep, PTL DEF NamesSpec

\* "the old name keeps working for pulls": a name an organization had leads to
\* the repository that had it last there, for any number of organizations,
\* slugs, names, repositories and requests, which read, write and die in any
\* order; of the organizations NamesResolve says it of (redirects.ts,
\* redirects.go).
THEOREM FormerNamesResolve == NamesSpec => []NamesResolve
BY NamesInvHolds, NamesInvResolves, PTL

\* However requests overlap and die: two organizations never share a slug, two
\* repositories never a name, and no redirect leads to an organization or a
\* repository that is gone.
THEOREM NamesTypeCorrect == NamesSpec => []NamesTypeOK
<1>1. NamesInv => NamesTypeOK
  BY DEF NamesInv
<1> QED
  BY <1>1, NamesInvHolds, PTL

\* A lookup never finds a repository that did not have the name, not even
\* after requests that were overtaken or cut short.
THEOREM StrangersAreNotFound == NamesSpec => []NoStrangers
BY NamesInvHolds, NamesInvResolves, PTL

-----------------------------------------------------------------------------
(* The pattern matcher. *)

\* The arguments of a call.
GlobArgs ==
    /\ pattern \in Seq(STRING) /\ name \in Seq(STRING)
    /\ \A i \in 1 .. Len(name) : name[i] \notin {"*", "?"}

\* A cut, written out.
LEMMA CutFacts ==
    ASSUME GlobArgs, NEW i \in 0 .. Len(pattern), NEW j \in 0 .. Len(name), NEW cut
    PROVE  cut \in Cuts(i, j) <=>
              /\ cut \in [i .. Len(pattern) -> j .. Len(name)]
              /\ cut[i] = j /\ cut[Len(pattern)] = Len(name)
              /\ \A a \in i .. Len(pattern) : \A b \in a .. Len(pattern) :
                    cut[a] <= cut[b] /\ (Starless(a, b) => cut[b] - cut[a] = b - a)
              /\ \A a \in i .. Len(pattern) - 1 :
                    pattern[a + 1] = "*" \/ pattern[a + 1] = "?" \/ pattern[a + 1] = name[cut[a] + 1]
BY DEF Cuts

\* The pattern that is used up covers what is left of a name that is.
LEMMA CoversEnd ==
    ASSUME GlobArgs, NEW j \in 0 .. Len(name)
    PROVE  Covers(Len(pattern), j) <=> j = Len(name)
<1> DEFINE P == Len(pattern)
           N == Len(name)
           cut == [x \in P .. P |-> N]
<1>1. P \in Nat /\ N \in Nat
  BY DEF GlobArgs
<1> HIDE DEF P, N
<1>2. ASSUME j = N PROVE cut \in Cuts(P, j)
  <2>1. cut \in [P .. P -> j .. N] /\ cut[P] = N
    BY <1>1, <1>2
  <2>2. \A a \in P .. P : \A b \in a .. P : cut[a] <= cut[b] /\ (Starless(a, b) => cut[b] - cut[a] = b - a)
    BY <1>1
  <2> HIDE DEF cut
  <2>3. \A a \in P .. P - 1 : pattern[a + 1] = "*" \/ pattern[a + 1] = "?" \/ pattern[a + 1] = name[cut[a] + 1]
    BY <1>1
  <2>4. cut[P] = j /\ P \in 0 .. P /\ j \in 0 .. N
    BY <1>1, <1>2, <2>1
  <2>5. /\ cut \in [Len(pattern) .. Len(pattern) -> j .. Len(name)] /\ cut[Len(pattern)] = j /\ cut[Len(pattern)] = Len(name)
        /\ Len(pattern) \in 0 .. Len(pattern) /\ j \in 0 .. Len(name)
    BY <2>1, <2>4 DEF P, N
  <2> QED BY <2>2, <2>3, <2>5, CutFacts DEF P
<1>3. ASSUME NEW c \in Cuts(P, j) PROVE j = N
  BY <1>1, <1>3, CutFacts DEF P, N
<1> QED BY <1>2, <1>3 DEF Covers, P, N

\* What a cut does from a position on is a cut of the rest.
LEMMA CutRest ==
    ASSUME GlobArgs, NEW i \in 0 .. Len(pattern), NEW j \in 0 .. Len(name), NEW cut \in Cuts(i, j), NEW a \in i .. Len(pattern)
    PROVE  cut[a] \in j .. Len(name) /\ Covers(a, cut[a])
<1> DEFINE P == Len(pattern)
           N == Len(name)
           rest == [x \in a .. P |-> cut[x]]
<1>1. P \in Nat /\ N \in Nat /\ i \in 0 .. P /\ j \in 0 .. N /\ a \in i .. P
  BY DEF GlobArgs
<1>2. /\ cut \in [i .. P -> j .. N]
      /\ cut[i] = j /\ cut[P] = N
      /\ \A x \in i .. P : \A y \in x .. P : cut[x] <= cut[y] /\ (Starless(x, y) => cut[y] - cut[x] = y - x)
      /\ \A x \in i .. P - 1 : pattern[x + 1] = "*" \/ pattern[x + 1] = "?" \/ pattern[x + 1] = name[cut[x] + 1]
  BY CutFacts
<1> HIDE DEF P, N
<1>3. \A x \in a .. P : x \in i .. P
  BY <1>1
<1>4. rest \in [a .. P -> cut[a] .. N] /\ cut[a] \in 0 .. N /\ cut[a] \in j .. N
  BY <1>1, <1>2, <1>3
<1>5. \A x \in a .. P : rest[x] = cut[x]
  OBVIOUS
<1> HIDE DEF rest
<1>6. rest \in Cuts(a, cut[a])
  <2>1. rest[a] = cut[a] /\ rest[P] = N
    BY <1>1, <1>2, <1>5
  <2>2. \A x \in a .. P : \A y \in x .. P : rest[x] <= rest[y] /\ (Starless(x, y) => rest[y] - rest[x] = y - x)
    BY <1>1, <1>2, <1>3, <1>5
  <2>3. \A x \in a .. P - 1 : pattern[x + 1] = "*" \/ pattern[x + 1] = "?" \/ pattern[x + 1] = name[rest[x] + 1]
    BY <1>1, <1>2, <1>5
  <2>4. a \in 0 .. P
    BY <1>1
  <2> QED BY <1>4, <2>1, <2>2, <2>3, <2>4, CutFacts DEF P, N
<1> QED BY <1>4, <1>6 DEF Covers, N

\* A cut of the rest, and a piece for the character before it.
LEMMA CutFront ==
    ASSUME GlobArgs, NEW i \in 0 .. Len(pattern) - 1, NEW j \in 0 .. Len(name), NEW k \in j .. Len(name), Covers(i + 1, k),
           pattern[i + 1] = "*" \/ (k = j + 1 /\ (pattern[i + 1] = "?" \/ pattern[i + 1] = name[j + 1]))
    PROVE  Covers(i, j)
<1> DEFINE P == Len(pattern)
           N == Len(name)
<1>1. P \in Nat /\ N \in Nat /\ i \in 0 .. P - 1 /\ j \in 0 .. N /\ k \in j .. N /\ i + 1 \in 0 .. P /\ k \in 0 .. N
  BY DEF GlobArgs
<1>2. PICK cut : cut \in Cuts(i + 1, k)
  BY DEF Covers
<1>3. /\ cut \in [i + 1 .. P -> k .. N]
      /\ cut[i + 1] = k /\ cut[P] = N
      /\ \A x \in i + 1 .. P : \A y \in x .. P : cut[x] <= cut[y] /\ (Starless(x, y) => cut[y] - cut[x] = y - x)
      /\ \A x \in i + 1 .. P - 1 : pattern[x + 1] = "*" \/ pattern[x + 1] = "?" \/ pattern[x + 1] = name[cut[x] + 1]
  BY <1>1, <1>2, CutFacts
<1> DEFINE whole == [x \in i .. P |-> IF x = i THEN j ELSE cut[x]]
<1> HIDE DEF P, N
<1>4. whole \in [i .. P -> j .. N]
  BY <1>1, <1>3
<1>5. whole[i] = j /\ \A x \in i + 1 .. P : whole[x] = cut[x]
  BY <1>1
<1> HIDE DEF whole
<1>6. whole[P] = N
  BY <1>1, <1>3, <1>5
<1>7. ASSUME NEW x \in i .. P, NEW y \in x .. P
      PROVE  whole[x] <= whole[y] /\ (Starless(x, y) => whole[y] - whole[x] = y - x)
  <2>1. CASE x # i
    BY <1>1, <1>3, <1>5, <2>1
  <2>2. CASE x = i /\ y = i
    BY <1>1, <1>5, <2>2
  <2>3. CASE x = i /\ y # i
    <3>1. y \in i + 1 .. P /\ whole[y] = cut[y] /\ i + 1 \in i + 1 .. P
      BY <1>1, <1>5, <2>3
    <3>2. k <= cut[y] /\ (Starless(i + 1, y) => cut[y] - k = y - (i + 1))
      BY <1>3, <3>1
    <3>3. Starless(i, y) => Starless(i + 1, y) /\ pattern[i + 1] # "*"
      BY <1>1, <3>1 DEF Starless
    <3>4. cut[y] \in k .. N
      BY <1>3, <3>1
    <3>5. whole[x] = j /\ j <= cut[y]
      BY <1>1, <1>5, <2>3, <3>2, <3>4
    <3>6. ASSUME Starless(i, y) PROVE cut[y] - j = y - i
      BY <1>1, <3>2, <3>3, <3>4, <3>6, SMTT(30)
    <3> QED BY <2>3, <3>1, <3>5, <3>6
  <2> QED BY <2>1, <2>2, <2>3
<1>8. \A x \in i .. P - 1 : pattern[x + 1] = "*" \/ pattern[x + 1] = "?" \/ pattern[x + 1] = name[whole[x] + 1]
  <2> SUFFICES ASSUME NEW x \in i .. P - 1
               PROVE  pattern[x + 1] = "*" \/ pattern[x + 1] = "?" \/ pattern[x + 1] = name[whole[x] + 1]
    OBVIOUS
  <2>1. CASE x = i
    <3>1. pattern[i + 1] = "*" \/ pattern[i + 1] = "?" \/ pattern[i + 1] = name[j + 1]
      OBVIOUS
    <3> QED BY <1>5, <2>1, <3>1
  <2>2. CASE x # i
    <3>1. x \in i + 1 .. P - 1 /\ x \in i + 1 .. P
      BY <1>1, <2>2
    <3> QED BY <1>3, <1>5, <3>1
  <2> QED BY <2>1, <2>2
<1>9. whole \in Cuts(i, j)
  <2>1. i \in 0 .. P /\ whole[i] = j
    BY <1>1, <1>5
  <2> QED BY <1>4, <1>6, <1>7, <1>8, <2>1, CutFacts DEF P, N
<1> QED BY <1>9 DEF Covers

\* A star covers any piece.
LEMMA CoversStar ==
    ASSUME GlobArgs, NEW i \in 0 .. Len(pattern) - 1, NEW j \in 0 .. Len(name), pattern[i + 1] = "*"
    PROVE  Covers(i, j) <=> \E k \in j .. Len(name) : Covers(i + 1, k)
<1>1. Len(pattern) \in Nat /\ i \in 0 .. Len(pattern) /\ i + 1 \in i .. Len(pattern)
  BY DEF GlobArgs
<1>2. ASSUME NEW cut \in Cuts(i, j) PROVE \E k \in j .. Len(name) : Covers(i + 1, k)
  BY <1>1, CutRest
<1>3. ASSUME NEW k \in j .. Len(name), Covers(i + 1, k) PROVE Covers(i, j)
  BY <1>3, CutFront
<1> QED BY <1>2, <1>3 DEF Covers

\* Any other character covers one.
LEMMA CoversOne ==
    ASSUME GlobArgs, NEW i \in 0 .. Len(pattern) - 1, NEW j \in 0 .. Len(name), pattern[i + 1] # "*"
    PROVE  Covers(i, j) <=> j < Len(name) /\ (pattern[i + 1] = "?" \/ pattern[i + 1] = name[j + 1]) /\ Covers(i + 1, j + 1)
<1>1. Len(pattern) \in Nat /\ Len(name) \in Nat /\ i \in 0 .. Len(pattern) /\ i + 1 \in i .. Len(pattern)
  BY DEF GlobArgs
<1>2. ASSUME NEW cut \in Cuts(i, j)
      PROVE  j < Len(name) /\ (pattern[i + 1] = "?" \/ pattern[i + 1] = name[j + 1]) /\ Covers(i + 1, j + 1)
  <2>1. cut[i + 1] \in j .. Len(name) /\ Covers(i + 1, cut[i + 1])
    BY <1>1, CutRest
  <2>2. Starless(i, i + 1)
    BY <1>1 DEF Starless
  <2>3. cut[i] = j /\ (pattern[i + 1] = "?" \/ pattern[i + 1] = name[cut[i] + 1])
    BY <1>1, CutFacts
  <2>4. cut[i + 1] - cut[i] = (i + 1) - i
    BY <1>1, <2>2, CutFacts
  <2>5. cut[i + 1] = j + 1
    BY <1>1, <2>1, <2>3, <2>4
  <2> QED BY <1>1, <2>1, <2>3, <2>5
<1>3. ASSUME j < Len(name), pattern[i + 1] = "?" \/ pattern[i + 1] = name[j + 1], Covers(i + 1, j + 1) PROVE Covers(i, j)
  <2>1. j + 1 \in j .. Len(name)
    BY <1>1, <1>3
  <2> QED BY <1>3, <2>1, CutFront
<1> QED BY <1>2, <1>3 DEF Covers

\* A stretch without stars covers as many characters as it has.
LEMMA CoversStretch ==
    ASSUME GlobArgs, NEW i \in 0 .. Len(pattern), NEW j \in 0 .. Len(name), NEW a \in i .. Len(pattern), Starless(i, a), Covers(i, j)
    PROVE  j + (a - i) \in j .. Len(name) /\ Covers(a, j + (a - i))
<1>1. Len(pattern) \in Nat /\ Len(name) \in Nat /\ i \in i .. Len(pattern)
  BY DEF GlobArgs
<1>2. PICK cut : cut \in Cuts(i, j)
  BY DEF Covers
<1>3. cut[a] \in j .. Len(name) /\ Covers(a, cut[a])
  BY <1>2, CutRest
<1>4. cut[i] = j
  BY <1>2, CutFacts
<1>5. cut[a] - cut[i] = a - i
  BY <1>1, <1>2, CutFacts
<1>6. cut[a] = j + (a - i)
  BY <1>1, <1>3, <1>4, <1>5
<1> QED BY <1>3, <1>6

\* Where the loop may be.
GlobTypeOK ==
    /\ GlobArgs
    /\ p \in 0 .. Len(pattern) /\ n \in 0 .. Len(name)
    /\ starP \in -1 .. Len(pattern) - 1 /\ starN \in 0 .. Len(name)
    /\ result \in {"running", "match", "mismatch"}

\* Since the last star the loop has passed characters that stand for one each;
\* once the name is used up, a longer run of that star can only fail.
SinceTheStar ==
    starP >= 0 =>
      \/ /\ starP < p /\ pattern[starP + 1] = "*" /\ starN <= n
         /\ n - starN = p - (starP + 1) /\ Starless(starP + 1, p)
      \/ n = Len(name) /\ \A k \in starN + 1 .. Len(name) : ~Covers(starP + 1, k)

\* What the loop would accept from here, or from the last star, the definition
\* accepts.
NothingInvented ==
    /\ Covers(p, n) => Covers(0, 0)
    /\ starP >= 0 => starN <= n /\ \A k \in starN .. Len(name) : Covers(starP + 1, k) => Covers(0, 0)

\* What makes MatchesByDefinition inductive.
GlobInv ==
    /\ GlobTypeOK /\ MatchesByDefinition
    /\ result = "running" => SinceTheStar /\ NothingInvented /\ NothingMissed

\* The invariant holds when the match begins.
LEMMA GlobInvInit == GlobInit => GlobInv
<1> SUFFICES ASSUME GlobInit PROVE GlobInv
  OBVIOUS
<1>1. GlobTypeOK
  BY GlobAssumption DEF GlobInit, GlobTypeOK, GlobArgs
<1> QED BY <1>1 DEF GlobInit, GlobInv, MatchesByDefinition, SinceTheStar, NothingInvented, NothingMissed

\* The definition reads the arguments only.
LEMMA ArgumentsStay ==
    ASSUME UNCHANGED <<pattern, name>>
    PROVE  /\ \A i, j : Covers(i, j)' <=> Covers(i, j)
           /\ \A a, b : Starless(a, b)' <=> Starless(a, b)
           /\ GlobArgs' <=> GlobArgs
BY DEF Covers, Cuts, Starless, GlobArgs

\* While the loop runs, the position it looks at.
LEMMA Looking ==
    ASSUME GlobInv, GlobRunning
    PROVE  /\ GlobArgs /\ Len(pattern) \in Nat /\ Len(name) \in Nat
           /\ p \in 0 .. Len(pattern) /\ n \in 0 .. Len(name) /\ n < Len(name) /\ n + 1 \in 1 .. Len(name)
           /\ starP \in -1 .. Len(pattern) - 1 /\ starN \in 0 .. Len(name)
           /\ name[n + 1] # "*" /\ name[n + 1] # "?"
           /\ SinceTheStar /\ NothingInvented /\ NothingMissed /\ result = "running"
BY DEF GlobInv, GlobTypeOK, GlobArgs, GlobRunning

\* One character of the pattern for one of the name.
LEMMA MatchOneStep ==
    ASSUME GlobInv, MatchOne
    PROVE  GlobInv'
<1> USE DEF MatchOne
<1>1. /\ GlobArgs /\ Len(pattern) \in Nat /\ Len(name) \in Nat
      /\ p \in 0 .. Len(pattern) - 1 /\ n \in 0 .. Len(name) /\ n < Len(name) /\ result = "running"
      /\ starP \in -1 .. Len(pattern) - 1 /\ starN \in 0 .. Len(name)
      /\ SinceTheStar /\ NothingInvented /\ NothingMissed
  BY Looking DEF Literal, AtPattern
<1>2. pattern[p + 1] # "*" /\ (pattern[p + 1] = "?" \/ pattern[p + 1] = name[n + 1])
  BY Looking DEF Literal, AtPattern
<1>3. /\ p' = p + 1 /\ n' = n + 1 /\ pattern' = pattern /\ name' = name /\ starP' = starP /\ starN' = starN /\ result' = result
      /\ \A i, j : Covers(i, j)' <=> Covers(i, j)
      /\ \A a, b : Starless(a, b)' <=> Starless(a, b)
      /\ GlobArgs' <=> GlobArgs
  BY ArgumentsStay
<1>4. Covers(p, n) <=> Covers(p + 1, n + 1)
  BY <1>1, <1>2, CoversOne
<1>5. GlobTypeOK'
  BY <1>1, <1>3 DEF GlobTypeOK
<1>6. SinceTheStar'
  <2>1. ASSUME starP >= 0 PROVE starP < p /\ pattern[starP + 1] = "*" /\ starN <= n /\ n - starN = p - (starP + 1) /\ Starless(starP + 1, p)
    BY <1>1, <2>1 DEF SinceTheStar
  <2>2. ASSUME starP >= 0 PROVE Starless(starP + 1, p + 1)
    BY <1>1, <1>2, <2>1, <2>2 DEF Starless
  <2> QED BY <1>1, <1>3, <2>1, <2>2 DEF SinceTheStar
<1>7. NothingInvented'
  BY <1>1, <1>3, <1>4 DEF NothingInvented
<1>8. NothingMissed'
  BY <1>1, <1>3, <1>4 DEF NothingMissed
<1> QED BY <1>1, <1>3, <1>5, <1>6, <1>7, <1>8 DEF GlobInv, MatchesByDefinition

\* A new star may forget the last one: whatever a longer run of that one would
\* reach, a run of the new one reaches, too.
LEMMA StarStep ==
    ASSUME GlobInv, Star
    PROVE  GlobInv'
<1> USE DEF Star
<1>1. /\ GlobArgs /\ Len(pattern) \in Nat /\ Len(name) \in Nat
      /\ p \in 0 .. Len(pattern) - 1 /\ n \in 0 .. Len(name) /\ n < Len(name) /\ result = "running" /\ pattern[p + 1] = "*"
      /\ starP \in -1 .. Len(pattern) - 1 /\ starN \in 0 .. Len(name)
      /\ SinceTheStar /\ NothingInvented /\ NothingMissed
  BY Looking DEF AtPattern
<1>2. /\ p' = p + 1 /\ n' = n /\ pattern' = pattern /\ name' = name /\ starP' = p /\ starN' = n /\ result' = result
      /\ \A i, j : Covers(i, j)' <=> Covers(i, j)
      /\ \A a, b : Starless(a, b)' <=> Starless(a, b)
      /\ GlobArgs' <=> GlobArgs
  BY ArgumentsStay
<1>3. Covers(p, n) <=> \E k \in n .. Len(name) : Covers(p + 1, k)
  BY <1>1, CoversStar
<1>4. GlobTypeOK'
  BY <1>1, <1>2 DEF GlobTypeOK
<1>5. SinceTheStar'
  <2>1. Starless(p + 1, p + 1)
    BY <1>1 DEF Starless
  <2> QED BY <1>1, <1>2, <2>1 DEF SinceTheStar
<1>6. NothingInvented'
  BY <1>1, <1>2, <1>3 DEF NothingInvented
<1>7. ASSUME Covers(0, 0) PROVE \E k \in n .. Len(name) : Covers(p + 1, k)
  <2>1. CASE Covers(p, n)
    BY <1>3, <2>1
  <2>2. ASSUME starP >= 0, NEW k \in starN + 1 .. Len(name), Covers(starP + 1, k)
        PROVE  \E m \in n .. Len(name) : Covers(p + 1, m)
    <3>1. starP < p /\ n - starN = p - (starP + 1) /\ Starless(starP + 1, p)
      BY <1>1, <2>2 DEF SinceTheStar
    <3> DEFINE m == k + (p - (starP + 1))
    <3>2. starP + 1 \in 0 .. Len(pattern) /\ k \in 0 .. Len(name) /\ p \in starP + 1 .. Len(pattern)
      BY <1>1, <2>2, <3>1
    <3>3. m \in k .. Len(name) /\ Covers(p, m)
      BY <1>1, <2>2, <3>1, <3>2, CoversStretch
    <3>4. m > n /\ m \in 0 .. Len(name)
      BY <1>1, <2>2, <3>1, <3>2, <3>3
    <3> HIDE DEF m
    <3>5. \E l \in m .. Len(name) : Covers(p + 1, l)
      BY <1>1, <3>3, <3>4, CoversStar
    <3> QED BY <1>1, <3>4, <3>5
  <2> QED BY <1>1, <1>7, <2>1, <2>2 DEF NothingMissed
<1>8. NothingMissed'
  <2> SUFFICES ASSUME Covers(0, 0) PROVE Covers(p + 1, n) \/ (p >= 0 /\ \E k \in n + 1 .. Len(name) : Covers(p + 1, k))
    BY <1>2 DEF NothingMissed
  <2>1. PICK k \in n .. Len(name) : Covers(p + 1, k)
    BY <1>7
  <2>2. k = n \/ k \in n + 1 .. Len(name)
    BY <1>1, <2>1
  <2> QED BY <1>1, <2>1, <2>2
<1> QED BY <1>1, <1>2, <1>4, <1>5, <1>6, <1>8 DEF GlobInv, MatchesByDefinition

\* What the pattern could not cover from here, a longer run of the star may.
LEMMA BacktrackStep ==
    ASSUME GlobInv, Backtrack
    PROVE  GlobInv'
<1> USE DEF Backtrack
<1>1. /\ GlobArgs /\ Len(pattern) \in Nat /\ Len(name) \in Nat
      /\ p \in 0 .. Len(pattern) /\ n \in 0 .. Len(name) /\ n < Len(name) /\ result = "running"
      /\ starP \in 0 .. Len(pattern) - 1 /\ starN \in 0 .. Len(name)
      /\ SinceTheStar /\ NothingInvented /\ NothingMissed
  BY Looking
<1>2. /\ p' = starP + 1 /\ n' = starN + 1 /\ pattern' = pattern /\ name' = name /\ starP' = starP /\ starN' = starN + 1 /\ result' = result
      /\ \A i, j : Covers(i, j)' <=> Covers(i, j)
      /\ \A a, b : Starless(a, b)' <=> Starless(a, b)
      /\ GlobArgs' <=> GlobArgs
  BY ArgumentsStay
<1>3. starP < p /\ pattern[starP + 1] = "*" /\ starN <= n
  BY <1>1 DEF SinceTheStar
<1>4. ~Covers(p, n)
  <2>1. CASE p = Len(pattern)
    BY <1>1, <2>1, CoversEnd
  <2>2. CASE p # Len(pattern)
    <3>1. p \in 0 .. Len(pattern) - 1 /\ pattern[p + 1] # "*" /\ ~(pattern[p + 1] = "?" \/ pattern[p + 1] = name[n + 1])
      BY <1>1, <2>2 DEF Literal, AtPattern
    <3> QED BY <1>1, <3>1, CoversOne
  <2> QED BY <2>1, <2>2
<1>5. GlobTypeOK'
  BY <1>1, <1>2, <1>3 DEF GlobTypeOK
<1>6. SinceTheStar'
  <2>1. Starless(starP + 1, starP + 1)
    BY <1>1 DEF Starless
  <2> QED BY <1>1, <1>2, <1>3, <2>1 DEF SinceTheStar
<1>7. NothingInvented'
  BY <1>1, <1>2, <1>3 DEF NothingInvented
<1>8. NothingMissed'
  <2> SUFFICES ASSUME Covers(0, 0)
               PROVE  Covers(starP + 1, starN + 1) \/ \E k \in starN + 2 .. Len(name) : Covers(starP + 1, k)
    BY <1>1, <1>2 DEF NothingMissed
  <2>1. PICK k \in starN + 1 .. Len(name) : Covers(starP + 1, k)
    BY <1>1, <1>4 DEF NothingMissed
  <2>2. k = starN + 1 \/ k \in starN + 2 .. Len(name)
    BY <1>1, <2>1
  <2> QED BY <2>1, <2>2
<1> QED BY <1>1, <1>2, <1>5, <1>6, <1>7, <1>8 DEF GlobInv, MatchesByDefinition

\* Without a star there is no other way.
LEMMA GiveUpStep ==
    ASSUME GlobInv, GiveUp
    PROVE  GlobInv'
<1> USE DEF GiveUp
<1>1. /\ GlobArgs /\ Len(pattern) \in Nat /\ Len(name) \in Nat
      /\ p \in 0 .. Len(pattern) /\ n \in 0 .. Len(name) /\ n < Len(name) /\ result = "running" /\ starP = -1
      /\ NothingMissed
  BY Looking
<1>2. /\ UNCHANGED <<pattern, name, p, n, starP, starN>> /\ result' = "mismatch"
      /\ \A i, j : Covers(i, j)' <=> Covers(i, j)
      /\ GlobArgs' <=> GlobArgs
  BY ArgumentsStay
<1>3. ~Covers(p, n)
  <2>1. CASE p = Len(pattern)
    BY <1>1, <2>1, CoversEnd
  <2>2. CASE p # Len(pattern)
    <3>1. p \in 0 .. Len(pattern) - 1 /\ pattern[p + 1] # "*" /\ ~(pattern[p + 1] = "?" \/ pattern[p + 1] = name[n + 1])
      BY <1>1, <2>2 DEF Literal, AtPattern
    <3> QED BY <1>1, <3>1, CoversOne
  <2> QED BY <2>1, <2>2
<1>4. ~Covers(0, 0)
  BY <1>1, <1>3 DEF NothingMissed
<1>5. GlobTypeOK'
  BY <1>2 DEF GlobInv, GlobTypeOK
<1> QED BY <1>2, <1>4, <1>5 DEF GlobInv, MatchesByDefinition

\* When the name is used up, a longer run of the last star can only fail.
LEMMA NoLongerRun ==
    ASSUME GlobInv, result = "running", n = Len(name), starP >= 0, NEW k \in starN + 1 .. Len(name)
    PROVE  ~Covers(starP + 1, k)
<1>1. /\ GlobArgs /\ Len(pattern) \in Nat /\ Len(name) \in Nat
      /\ p \in 0 .. Len(pattern) /\ starP \in 0 .. Len(pattern) - 1 /\ starN \in 0 .. Len(name) /\ SinceTheStar
  BY DEF GlobInv, GlobTypeOK, GlobArgs
<1>2. CASE starP < p /\ n - starN = p - (starP + 1) /\ Starless(starP + 1, p)
  <2>1. starP + 1 \in 0 .. Len(pattern) /\ k \in 0 .. Len(name) /\ p \in starP + 1 .. Len(pattern)
    BY <1>1, <1>2
  <2>2. ASSUME Covers(starP + 1, k) PROVE k + (p - (starP + 1)) \in k .. Len(name)
    BY <1>1, <1>2, <2>1, <2>2, CoversStretch
  <2>3. k + (p - (starP + 1)) > Len(name)
    BY <1>1, <1>2, <2>1
  <2> QED BY <1>1, <2>1, <2>2, <2>3
<1> QED BY <1>1, <1>2 DEF SinceTheStar

\* Stars at the end cover nothing.
LEMMA TrailingStarStep ==
    ASSUME GlobInv, TrailingStar
    PROVE  GlobInv'
<1> USE DEF TrailingStar
<1>1. /\ GlobArgs /\ Len(pattern) \in Nat /\ Len(name) \in Nat
      /\ p \in 0 .. Len(pattern) - 1 /\ n = Len(name) /\ result = "running" /\ pattern[p + 1] = "*"
      /\ starP \in -1 .. Len(pattern) - 1 /\ starN \in 0 .. Len(name)
      /\ NothingInvented /\ NothingMissed
  BY DEF GlobInv, GlobTypeOK, GlobArgs, AtPattern
<1>2. /\ p' = p + 1 /\ UNCHANGED <<pattern, name, n, starP, starN, result>>
      /\ \A i, j : Covers(i, j)' <=> Covers(i, j)
      /\ GlobArgs' <=> GlobArgs
  BY ArgumentsStay
<1>3. Covers(p, n) <=> Covers(p + 1, n)
  <2>1. Covers(p, n) <=> \E k \in n .. Len(name) : Covers(p + 1, k)
    BY <1>1, CoversStar
  <2> QED BY <1>1, <2>1
<1>4. \A k \in starN + 1 .. Len(name) : starP >= 0 => ~Covers(starP + 1, k)
  BY <1>1, NoLongerRun
<1>5. GlobTypeOK'
  BY <1>1, <1>2 DEF GlobTypeOK
<1>6. SinceTheStar'
  BY <1>1, <1>2, <1>4 DEF SinceTheStar
<1>7. NothingInvented'
  BY <1>1, <1>2, <1>3 DEF NothingInvented
<1>8. NothingMissed'
  BY <1>1, <1>2, <1>3 DEF NothingMissed
<1> QED BY <1>1, <1>2, <1>5, <1>6, <1>7, <1>8 DEF GlobInv, MatchesByDefinition

\* What is left of the pattern decides.
LEMMA ReturnStep ==
    ASSUME GlobInv, Return
    PROVE  GlobInv'
<1> USE DEF Return
<1>1. /\ GlobArgs /\ Len(pattern) \in Nat /\ Len(name) \in Nat
      /\ p \in 0 .. Len(pattern) /\ n = Len(name) /\ n \in 0 .. Len(name) /\ result = "running" /\ NothingInvented /\ NothingMissed
  BY DEF GlobInv, GlobTypeOK, GlobArgs
<1>2. /\ UNCHANGED <<pattern, name, p, n, starP, starN>>
      /\ result' = IF p = Len(pattern) THEN "match" ELSE "mismatch"
      /\ \A i, j : Covers(i, j)' <=> Covers(i, j)
      /\ GlobArgs' <=> GlobArgs
  BY ArgumentsStay
<1>3. Covers(p, n) <=> p = Len(pattern)
  <2>1. CASE p = Len(pattern)
    BY <1>1, <2>1, CoversEnd
  <2>2. CASE p # Len(pattern)
    <3>1. p \in 0 .. Len(pattern) - 1 /\ pattern[p + 1] # "*" /\ ~(n < Len(name))
      BY <1>1, <2>2 DEF AtPattern
    <3> QED BY <1>1, <2>2, <3>1, CoversOne
  <2> QED BY <2>1, <2>2
<1>4. Covers(0, 0) <=> p = Len(pattern)
  BY <1>1, <1>3, NoLongerRun DEF NothingInvented, NothingMissed
<1>5. GlobTypeOK'
  BY <1>2 DEF GlobInv, GlobTypeOK
<1> QED BY <1>2, <1>4, <1>5 DEF GlobInv, MatchesByDefinition

\* The invariant holds always.
LEMMA GlobInvHolds == GlobSpec => []GlobInv
<1>1. GlobInv /\ [GlobNext]_globVars => GlobInv'
  <2> SUFFICES ASSUME GlobInv, [GlobNext]_globVars PROVE GlobInv'
    OBVIOUS
  <2>1. CASE MatchOne
    BY <2>1, MatchOneStep
  <2>2. CASE Star
    BY <2>2, StarStep
  <2>3. CASE Backtrack
    BY <2>3, BacktrackStep
  <2>4. CASE GiveUp
    BY <2>4, GiveUpStep
  <2>5. CASE TrailingStar
    BY <2>5, TrailingStarStep
  <2>6. CASE Return
    BY <2>6, ReturnStep
  <2>7. CASE UNCHANGED globVars
    <3>1. UNCHANGED <<pattern, name, p, n, starP, starN, result>>
      BY <2>7 DEF globVars
    <3>2. /\ \A i, j : Covers(i, j)' <=> Covers(i, j)
          /\ \A a, b : Starless(a, b)' <=> Starless(a, b)
          /\ GlobArgs' <=> GlobArgs
      BY <3>1, ArgumentsStay
    <3> QED BY <3>1, <3>2 DEF GlobInv, GlobTypeOK, MatchesByDefinition, SinceTheStar, NothingInvented, NothingMissed
  <2> QED BY <2>1, <2>2, <2>3, <2>4, <2>5, <2>6, <2>7 DEF GlobNext
<1> QED BY <1>1, GlobInvInit, PTL DEF GlobSpec

\* `*` matches any run of characters, `?` exactly one, everything else itself
\* (tagrules.go:36): for every pattern and every tag, the loop that remembers one
\* star decides what the definition says.
THEOREM GlobDecides == GlobSpec => []MatchesByDefinition
BY GlobInvHolds, PTL DEF GlobInv

\* MatchTagGlob does not spin: whatever the pattern, backtracking makes the run
\* of the last star longer, and every other round moves on in the pattern or
\* in the name.
THEOREM LoopGetsOn == GlobSpec => RoundsAdvance
<1> DEFINE Round == result' = "running" =>
              /\ starN' <= Len(name) /\ p' + n' <= Len(pattern) + Len(name)
              /\ starN' > starN \/ (starN' = starN /\ p' + n' > p + n)
       NoRunYet == starP < 0 => starN = 0
<1>0. GlobInv /\ NoRunYet /\ [GlobNext]_globVars => NoRunYet'
  <2> SUFFICES ASSUME GlobInv, NoRunYet, [GlobNext]_globVars PROVE NoRunYet'
    OBVIOUS
  <2>1. ASSUME Star PROVE starP' >= 0
    <3>1. p \in Nat
      BY DEF GlobInv, GlobTypeOK
    <3> QED
      BY <2>1, <3>1 DEF Star
  <2>2. starP' >= 0 \/ UNCHANGED <<starP, starN>>
    BY <2>1 DEF GlobNext, globVars, MatchOne, Backtrack, GiveUp, TrailingStar, Return
  <2>3. starP' \in Int
    <3>1. starP \in Int /\ p \in Int
      BY DEF GlobInv, GlobTypeOK
    <3> QED
      BY <3>1 DEF GlobNext, globVars, MatchOne, Star, Backtrack, GiveUp, TrailingStar, Return
  <2> QED
    BY <2>2, <2>3
<1>1. GlobInv /\ NoRunYet /\ GlobInv' /\ [GlobNext]_globVars => [Round]_globVars
  <2> SUFFICES ASSUME GlobInv, NoRunYet, GlobInv', GlobNext PROVE Round
    OBVIOUS
  <2>1. /\ Len(pattern) \in Nat /\ Len(name) \in Nat /\ p \in 0 .. Len(pattern) /\ n \in 0 .. Len(name)
        /\ starP \in -1 .. Len(pattern) - 1 /\ starN \in 0 .. Len(name)
    BY SMTT(30) DEF GlobInv, GlobTypeOK, GlobArgs
  <2>2. UNCHANGED <<pattern, name>>
    BY DEF GlobNext, MatchOne, Star, Backtrack, GiveUp, TrailingStar, Return
  <2>3. p' \in 0 .. Len(pattern) /\ n' \in 0 .. Len(name) /\ starN' \in 0 .. Len(name)
    BY <2>2 DEF GlobInv, GlobTypeOK
  <2>4. CASE MatchOne
    BY <2>1, <2>3, <2>4 DEF MatchOne
  <2>5. CASE Star
    <3>1. starN <= n
      <4>1. starP >= 0 => starN <= n
        BY <2>5 DEF Star, GlobRunning, GlobInv, NothingInvented
      <4> QED
        BY <2>1, <4>1
    <3>2. starN' = n /\ p' = p + 1 /\ n' = n
      BY <2>5 DEF Star
    <3> QED
      BY <2>1, <2>3, <3>1, <3>2
  <2>6. CASE Backtrack
    BY <2>1, <2>3, <2>6 DEF Backtrack
  <2>7. CASE TrailingStar
    BY <2>1, <2>3, <2>7 DEF TrailingStar
  <2>8. CASE GiveUp \/ Return
    BY <2>8 DEF GiveUp, Return
  <2> QED
    BY <2>4, <2>5, <2>6, <2>7, <2>8 DEF GlobNext
<1>2. GlobInit => NoRunYet
  BY DEF GlobInit
<1> QED
  BY <1>0, <1>1, <1>2, GlobInvHolds, PTL DEF GlobSpec, RoundsAdvance
=============================================================================
