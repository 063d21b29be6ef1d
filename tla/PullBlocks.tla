----------------------------- MODULE PullBlocks -----------------------------
(* Which images of a repository may not be pulled (web/src/lib/             *)
(* pull-policy.ts, signatures.ts, and the actions that call them).          *)
(* manifest_blocks and manifest_signatures are derived from keys, members,  *)
(* policies, scans and exceptions: whoever changes one of those starts a    *)
(* worker that verifies the signatures again, or only computes the blocks   *)
(* again.  A worker reads what it needs, works on that, and writes one row  *)
(* at a time, while other workers and registryd go on.                      *)
EXTENDS Signatures, FiniteSets

CONSTANTS
    Images,     \* images that may be pushed to the repository
    Index,      \* the one that is an index; it lists the others
    Workers,    \* requests, callbacks and jobs under way at a time
    MaxChanges  \* bound: steps of users, scanners and the registry

ASSUME BlocksAssumption == Index \in Images /\ SignKeys # {} /\ MaxChanges \in Nat

VARIABLES
    images,     \* manifests of images that are there
    signer,     \* signer[i]: the key that signed i, "none" without a signature manifest
    verdict,    \* manifest_signatures: the status of i's signature, "none" without a row
    blocks,     \* manifest_blocks: the reasons that the row of i names
    found,      \* vulnerability_scans: "none" until scanned, else "clean" or "High"
    trust,      \* signing_keys_trusted, personal keys, members and settings
    policies,   \* of the organization and of the repository
    exception,  \* an exception for the finding: "none", "active" or "expired"
    events,     \* manifest.push events that nobody has handled
    scans,      \* scans that have started and not ended
    worker,     \* what each worker is at
    stale,      \* why a verdict may be out of date
    unrefreshed,\* why the blocks may be out of date
    changes

blockVars == <<images, signer, verdict, blocks, found, trust, policies, exception, events, scans, worker, stale, unrefreshed, changes>>

AtRest == [pc |-> "idle", todo |-> {}, next |-> "nothing", keys |-> {}, due |-> <<>>, left |-> {}, all |-> FALSE, scan |-> {}]

\* A worker that is at its end; a push goes on to the scan whatever came of
\* the signatures (processRegistryEvent).
Ended(task) == IF task.scan = {} THEN AtRest ELSE [AtRest EXCEPT !.pc = "scan", !.scan = task.scan]

-----------------------------------------------------------------------------
(* What the rows are derived from. *)

\* effectiveVerificationKeys: listMemberKeys are the keys of those who may push.
listMemberKeys == trust.personal \intersect trust.writers
effectiveVerificationKeys == trust.keys \union (IF trust.members THEN listMemberKeys ELSE {})

effectivePolicy == IF policies.repoLevel = "inherit" THEN policies.orgLevel ELSE policies.repoLevel
effectiveSignaturePolicy == IF policies.repoSigned = "inherit" THEN policies.orgSigned ELSE policies.repoSigned = "on"

\* violation, of the findings that no exception accepts.
violation(i) == found[i] = "High" /\ exception # "active" /\ effectivePolicy = "high"

\* The signature of i as cosign attaches it, judged with these keys.
judged(i, keys) ==
    checkArtifactSignatures({"simplesigning"}, <<[Plain EXCEPT !.blob = "simplesigning", !.digest = "this", !.reference = "this", !.signer = signer[i]]>>,
                            keys, {}).status

\* What refreshRepositoryBlocks computes: an index is blocked with a variant,
\* and a variant is covered by the signature of its index.
Computed ==
    LET blocked == {i \in images : violation(i)}
        byScan == blocked \union (IF Index \in images /\ blocked # {} THEN {Index} ELSE {})
        verified == {i \in images : verdict[i] = "verified"}
        covered == IF Index \in verified THEN images \ {Index} ELSE {}
        unsigned == IF effectiveSignaturePolicy THEN images \ (verified \union covered) ELSE {}
    IN  [i \in Images |-> (IF i \in byScan THEN {"scan"} ELSE {}) \union (IF i \in unsigned THEN {"signature"} ELSE {})]

-----------------------------------------------------------------------------
(* The workers. *)

Free == {w \in Workers : worker[w].pc = "idle"}

\* Two at once may overwrite each other's rows with older ones.
Starts(w, task, causes, causesOfBlocks) ==
    LET overlap == IF Free = Workers THEN {} ELSE {"overlap"}
    IN  /\ worker' = [worker EXCEPT ![w] = task]
        /\ stale' = stale \union overlap \union causes
        /\ unrefreshed' = unrefreshed \union overlap \union causesOfBlocks

Refresh(w) == Starts(w, [AtRest EXCEPT !.pc = "refresh"], {}, {})
Reverify(w) == Starts(w, [AtRest EXCEPT !.pc = "keys", !.next = "refresh", !.all = TRUE], {}, {})
NoWorker(causes, causesOfBlocks) ==
    UNCHANGED worker /\ stale' = stale \union causes /\ unrefreshed' = unrefreshed \union causesOfBlocks

\* The keys, and with them the images to look at, are read once.  A worker
\* that looks at all of them, alone, leaves nothing out of date.
ReadKeys(w) ==
    /\ worker[w].pc = "keys"
    /\ worker' = [worker EXCEPT ![w].pc = "verify", ![w].keys = effectiveVerificationKeys,
                                ![w].todo = IF worker[w].all THEN {i \in images : signer[i] # "none"} ELSE @]
    /\ stale' = IF worker[w].all /\ Free = Workers \ {w} THEN {} ELSE stale
    /\ UNCHANGED <<images, signer, verdict, blocks, found, trust, policies, exception, events, scans, unrefreshed, changes>>

\* verifyManifestSignatures, for one image.
verifyManifestSignatures(w, i) ==
    /\ worker[w].pc = "verify" /\ i \in worker[w].todo
    /\ verdict' = IF i \notin images THEN verdict
                  ELSE [verdict EXCEPT ![i] = IF signer[i] = "none" THEN "none" ELSE judged(i, worker[w].keys)]
    /\ worker' = [worker EXCEPT ![w].todo = @ \ {i}]
    /\ UNCHANGED <<images, signer, blocks, found, trust, policies, exception, events, scans, stale, unrefreshed, changes>>

\* AfterVerify that leaves the blocks of a pushed image to the scan.
AfterVerify_Refresh(next) == IF next = "refresh" THEN "refresh" ELSE "idle"

\* What follows: reverifyRepository refreshes, onManifestPushed only when the
\* repository requires signatures, getAttestationView does not.
AfterVerify(next) == IF next = "refresh" \/ (next = "policy" /\ effectiveSignaturePolicy) THEN "refresh" ELSE "idle"

Verified(w) ==
    /\ worker[w].pc = "verify" /\ worker[w].todo = {}
    /\ worker' = [worker EXCEPT ![w] = IF AfterVerify(@.next) = "refresh" THEN [@ EXCEPT !.pc = "refresh", !.keys = {}] ELSE Ended(@)]
    /\ UNCHANGED <<images, signer, verdict, blocks, found, trust, policies, exception, events, scans, stale, unrefreshed, changes>>

\* refreshRepositoryBlocks, up to the rows that differ.
refreshRepositoryBlocks(w) ==
    /\ worker[w].pc = "refresh"
    /\ worker' = [worker EXCEPT ![w].pc = "write", ![w].due = Computed, ![w].left = {i \in images : blocks[i] # Computed[i]}]
    /\ unrefreshed' = IF Free = Workers \ {w} THEN {} ELSE unrefreshed
    /\ UNCHANGED <<images, signer, verdict, blocks, found, trust, policies, exception, events, scans, stale, changes>>

\* Rows are written, then the ones that are due no more deleted; the row of an
\* image that is gone cannot be written, which ends the refresh.
WriteBlock(w, i) ==
    /\ worker[w].pc = "write" /\ i \in worker[w].left
    /\ worker[w].due[i] # {} \/ \A j \in worker[w].left : worker[w].due[j] = {}
    /\ IF i \notin images /\ worker[w].due[i] # {}
       THEN /\ worker' = [worker EXCEPT ![w] = Ended(@)]
            /\ unrefreshed' = unrefreshed \union {"failed"}
            /\ UNCHANGED blocks
       ELSE /\ blocks' = [blocks EXCEPT ![i] = worker[w].due[i]]
            /\ worker' = [worker EXCEPT ![w].left = @ \ {i}]
            /\ UNCHANGED unrefreshed
    /\ UNCHANGED <<images, signer, verdict, found, trust, policies, exception, events, scans, stale, changes>>

Refreshed(w) ==
    /\ worker[w].pc = "write" /\ worker[w].left = {}
    /\ worker' = [worker EXCEPT ![w] = Ended(@)]
    /\ UNCHANGED <<images, signer, verdict, blocks, found, trust, policies, exception, events, scans, stale, unrefreshed, changes>>

\* A query fails; whoever called logs it and goes on.
Fails(w) ==
    /\ worker[w].pc \notin {"idle", "scan"}
    /\ changes < MaxChanges /\ changes' = changes + 1
    /\ worker' = [worker EXCEPT ![w] = Ended(@)]
    /\ stale' = stale \union {"failed"}
    /\ unrefreshed' = unrefreshed \union {"failed"}
    /\ UNCHANGED <<images, signer, verdict, blocks, found, trust, policies, exception, events, scans>>

-----------------------------------------------------------------------------
(* What happens to the images. *)

Change == changes < MaxChanges /\ changes' = changes + 1

\* An index lists what is there.  Nothing computes the blocks of an index
\* over variants that are blocked already, unless signatures are required.
PushImage(i) ==
    /\ Change
    /\ i \notin images /\ (i = Index => images # {})
    /\ images' = images \union {i}
    /\ events' = events \union {<<i, "image">>}
    /\ NoWorker({}, IF i = Index THEN {"index"} ELSE {})
    /\ UNCHANGED <<signer, verdict, blocks, found, trust, policies, exception, scans>>

PushSignature(i, k) ==
    /\ Change
    /\ i \in images /\ signer[i] = "none"
    /\ signer' = [signer EXCEPT ![i] = k]
    /\ events' = events \union {<<i, "signature">>}
    /\ UNCHANGED <<images, verdict, blocks, found, trust, policies, exception, scans, worker, stale, unrefreshed>>

\* DELETE of a manifest: its rows go with it, the rows of others stay as they are.
DeleteImage(i) ==
    /\ Change
    /\ i \in images
    /\ images' = images \ {i}
    /\ verdict' = [verdict EXCEPT ![i] = "none"]
    /\ blocks' = [blocks EXCEPT ![i] = {}]
    /\ NoWorker({}, {"deleted"})
    /\ UNCHANGED <<signer, found, trust, policies, exception, events, scans>>

DeleteSignature(i) ==
    /\ Change
    /\ signer[i] # "none"
    /\ signer' = [signer EXCEPT ![i] = "none"]
    /\ verdict' = [verdict EXCEPT ![i] = "none"]
    /\ NoWorker({}, {"deleted"})
    /\ UNCHANGED <<images, blocks, found, trust, policies, exception, events, scans>>

\* onManifestPushed verifies the image, or the subject of the signature.
onManifestPushed(w, i, what) ==
    /\ w \in Free /\ <<i, what>> \in events
    /\ events' = events \ {<<i, what>>}
    /\ Starts(w, [AtRest EXCEPT !.pc = "keys", !.todo = {i}, !.next = "policy", !.scan = IF what = "image" /\ i # Index THEN {i} ELSE {}], {}, {})
    /\ UNCHANGED <<images, signer, verdict, blocks, found, trust, policies, exception, scans, changes>>

\* startScan, for what is neither an index nor an artifact: the scan under way
\* takes the place of the last result.
startScan(w) ==
    LET scanned == worker[w].scan \intersect images
    IN  /\ worker[w].pc = "scan"
        /\ worker' = [worker EXCEPT ![w] = AtRest]
        /\ scans' = scans \union scanned
        /\ found' = [i \in Images |-> IF i \in scanned THEN "none" ELSE found[i]]
        /\ unrefreshed' = unrefreshed \union {"scanning" : i \in {j \in scanned : found[j] = "High"}}
        /\ UNCHANGED <<images, signer, verdict, blocks, trust, policies, exception, events, stale, changes>>

\* finishScan, or a scan that fails and computes no blocks.
finishScan(w, i, result) ==
    /\ i \in scans /\ scans' = scans \ {i}
    /\ IF result = "failed"
       THEN UNCHANGED <<found, worker, stale, unrefreshed>>
       ELSE /\ w \in Free
            /\ found' = [found EXCEPT ![i] = result]
            /\ Refresh(w)
    /\ UNCHANGED <<images, signer, verdict, blocks, trust, policies, exception, events, changes>>

\* getAttestationView verifies what has no row yet; reverifyManifestAction an
\* image, or an index and its variants.
getAttestationView(w) ==
    /\ Change
    /\ w \in Free
    /\ \E i \in images : signer[i] # "none" /\ verdict[i] = "none"
    /\ Starts(w, [AtRest EXCEPT !.pc = "keys", !.todo = {i \in images : signer[i] # "none" /\ verdict[i] = "none"}], {}, {"viewed"})
    /\ UNCHANGED <<images, signer, verdict, blocks, found, trust, policies, exception, events, scans>>

reverifyManifestAction(w, i) ==
    /\ Change
    /\ w \in Free /\ i \in images
    /\ Starts(w, [AtRest EXCEPT !.pc = "keys", !.todo = IF i = Index THEN images ELSE {i}, !.next = "refresh"], {}, {})
    /\ UNCHANGED <<images, signer, verdict, blocks, found, trust, policies, exception, events, scans>>

-----------------------------------------------------------------------------
(* What happens to keys, members, policies and exceptions. *)

\* addTrustedKeyAction, removeTrustedKeyAction, setOrgMemberKeysPolicy, and
\* the personal keys of those whose keys count (reverifyForUser).
ChangeKeys(w) ==
    /\ Change
    /\ w \in Free
    /\ \/ \E k \in SignKeys : trust' = [trust EXCEPT !.keys = IF k \in @ THEN @ \ {k} ELSE @ \union {k}] /\ Reverify(w)
       \/ trust' = [trust EXCEPT !.members = ~@] /\ Reverify(w)
       \/ \E k \in SignKeys :
             /\ trust' = [trust EXCEPT !.personal = IF k \in @ THEN @ \ {k} ELSE @ \union {k}]
             /\ IF k \in trust.writers /\ trust.members THEN Reverify(w) ELSE UNCHANGED <<worker, stale, unrefreshed>>
    /\ UNCHANGED <<images, signer, verdict, blocks, found, policies, exception, events, scans>>

\* reverifyAfterMembershipChange looks at the members as they are now: with
\* no key left among them there is nothing to do.
reverifyAfterMembershipChange(w, writers) ==
    IF ~trust.members THEN UNCHANGED <<worker, stale, unrefreshed>>
    ELSE IF trust.personal \intersect writers = {} THEN NoWorker({"left"}, {})
    ELSE Reverify(w)

\* A member leaves, or loses or gains the right to push by a change of role.
ChangeMember(w, k) ==
    LET writers == IF k \in trust.writers THEN trust.writers \ {k} ELSE trust.writers \union {k}
    IN  /\ Change
        /\ w \in Free
        /\ trust' = [trust EXCEPT !.writers = writers]
        /\ reverifyAfterMembershipChange(w, writers)
        /\ UNCHANGED <<images, signer, verdict, blocks, found, policies, exception, events, scans>>

\* A new member: nothing is verified again.
Join(k) ==
    /\ Change
    /\ k \notin trust.writers
    /\ trust' = [trust EXCEPT !.writers = @ \union {k}]
    /\ NoWorker({"joined"}, {})
    /\ UNCHANGED <<images, signer, verdict, blocks, found, policies, exception, events, scans>>

\* adminDeleteUser and a deletion by its owner: keys and memberships go with the account, silently.
deleteUser(k) ==
    /\ Change
    /\ k \in trust.personal
    /\ trust' = [trust EXCEPT !.writers = @ \ {k}, !.personal = @ \ {k}]
    /\ NoWorker({"account"}, {})
    /\ UNCHANGED <<images, signer, verdict, blocks, found, policies, exception, events, scans>>

\* setOrgPullPolicy, setRepoPullPolicy, setOrgSignaturePolicy, setRepoSignaturePolicy.
setPolicy(w) ==
    /\ Change
    /\ w \in Free
    /\ \/ \E level \in {"none", "high"} : policies' = [policies EXCEPT !.orgLevel = level]
       \/ policies' = [policies EXCEPT !.orgSigned = ~@]
       \/ \E level \in {"inherit", "none", "high"} : policies' = [policies EXCEPT !.repoLevel = level]
       \/ \E signed \in {"inherit", "off", "on"} : policies' = [policies EXCEPT !.repoSigned = signed]
    /\ policies' # policies
    /\ Refresh(w)
    /\ UNCHANGED <<images, signer, verdict, blocks, found, trust, exception, events, scans>>

\* createException and deleteException; expireExceptions finds what has expired.
ChangeException(w) ==
    /\ Change
    /\ w \in Free
    /\ exception' \in {"none", "active"} /\ exception' # exception
    /\ Refresh(w)
    /\ UNCHANGED <<images, signer, verdict, blocks, found, trust, policies, events, scans>>

ExceptionExpires ==
    /\ Change
    /\ exception = "active" /\ exception' = "expired"
    /\ NoWorker({}, {"expired"})
    /\ UNCHANGED <<images, signer, verdict, blocks, found, trust, policies, events, scans>>

\* The jobs exception-expiry and reverify-signatures.
RunJob(w) ==
    /\ Change
    /\ w \in Free
    /\ (exception = "expired" /\ Refresh(w)) \/ Reverify(w)
    /\ UNCHANGED <<images, signer, verdict, blocks, found, trust, policies, exception, events, scans>>

\* transferRepository: the keys, members and policy of another organization
\* apply; the blocks are computed again, the signatures are not verified again.
transferRepository(w) ==
    /\ Change
    /\ w \in Free
    /\ trust' = [trust EXCEPT !.keys = {}, !.writers = {}]
    /\ \E level \in {"none", "high"}, signed \in BOOLEAN : policies' = [policies EXCEPT !.orgLevel = level, !.orgSigned = signed]
    /\ Starts(w, [AtRest EXCEPT !.pc = "refresh"], {"moved"}, {})
    /\ UNCHANGED <<images, signer, verdict, blocks, found, exception, events, scans>>

-----------------------------------------------------------------------------
\* One image that was scanned, one key that is trusted and one member's key.
BlocksInit ==
    /\ images \in {{i} : i \in Images \ {Index}}
    /\ signer = [i \in Images |-> "none"]
    /\ verdict = [i \in Images |-> "none"]
    /\ blocks = [i \in Images |-> {}]
    /\ found \in {[i \in Images |-> IF i \in images THEN f ELSE "none"] : f \in {"clean", "High"}}
    /\ LET k == CHOOSE s \in SignKeys : TRUE
       IN  trust = [keys |-> SignKeys \ {k}, personal |-> {k}, writers |-> {k}, members |-> TRUE]
    /\ policies = [orgLevel |-> "none", orgSigned |-> FALSE, repoLevel |-> "inherit", repoSigned |-> "inherit"]
    /\ exception = "none"
    /\ events = {} /\ scans = {}
    /\ worker = [w \in Workers |-> AtRest]
    /\ stale = {} /\ unrefreshed = {}
    /\ changes = 0

BlocksNext ==
    /\ \/ \E w \in Workers :
             \/ ReadKeys(w) \/ Verified(w) \/ refreshRepositoryBlocks(w) \/ Refreshed(w) \/ Fails(w)
             \/ \E i \in Images : verifyManifestSignatures(w, i) \/ WriteBlock(w, i)
             \/ \E i \in Images, what \in {"image", "signature"} : onManifestPushed(w, i, what)
             \/ \E i \in Images, result \in {"clean", "High", "failed"} : finishScan(w, i, result)
             \/ startScan(w) \/ getAttestationView(w) \/ ChangeKeys(w) \/ setPolicy(w) \/ ChangeException(w) \/ RunJob(w) \/ transferRepository(w)
             \/ \E k \in SignKeys : ChangeMember(w, k)
             \/ \E i \in Images : reverifyManifestAction(w, i)
       \/ \E i \in Images : PushImage(i) \/ DeleteImage(i) \/ DeleteSignature(i) \/ \E k \in SignKeys : PushSignature(i, k)
       \/ \E k \in SignKeys : deleteUser(k) \/ Join(k)
       \/ ExceptionExpires
    /\ UNCHANGED artifactVars

BlocksSpec == BlocksInit /\ [][BlocksNext]_blockVars

-----------------------------------------------------------------------------
Quiet == Free = Workers /\ events = {} /\ scans = {}

\* An image that somebody whose key counts has signed, itself or its index.
Signed(i) == \E j \in images : (j = i \/ j = Index) /\ signer[j] \in effectiveVerificationKeys
Vulnerable(i) == \E j \in images : (j = i \/ i = Index) /\ violation(j)

\* Once everything that started has ended, an image is blocked exactly for
\* the reasons that the keys, policies, scans and exceptions of that moment
\* give, unless two workers overlapped or something happened after which the
\* code computes nothing (refreshRepositoryBlocks and its callers).
BlocksAreCurrent ==
    Quiet /\ stale = {} /\ unrefreshed = {} =>
        \A i \in images :
            /\ "scan" \in blocks[i] <=> Vulnerable(i)
            /\ "signature" \in blocks[i] <=> effectiveSignaturePolicy /\ ~Signed(i)

\* The key of somebody who may not push any more verifies nothing, once the
\* removal has been handled (afterRemoveMember and afterUpdateMemberRole).
LeaversKeysStopCounting ==
    Quiet /\ stale \subseteq {"left"} => \A i \in images : verdict[i] = "verified" => signer[i] \in effectiveVerificationKeys

\* An index is blocked along with its variants.  One that is pushed after its
\* variants were scanned is not, until something else computes the blocks.
IndexBlockedWithVariants ==
    Quiet /\ unrefreshed \subseteq {"index"} => \A i \in images : Index \in images /\ "scan" \in blocks[i] => "scan" \in blocks[Index]
=============================================================================
