---- MODULE TagClients ----
(***************************************************************************)
(* The parts of the web app that re-point tags for somebody, each a        *)
(* sequence of requests to the registry: mirror runs                       *)
(* (web/src/lib/mirror.ts), copies and moves of one image                  *)
(* (web/src/app/actions/images.ts, web/src/lib/image-move.ts), deletion of *)
(* a tag, which "latest" follows, and retagging (web/src/lib/tag-admin.ts).*)
(* Users push and delete at any time in between; another such client is to *)
(* this one no different from a user.                                      *)
(*                                                                         *)
(* What a foreign registry answers, and which requests fail, is any        *)
(* choice.                                                                 *)
(***************************************************************************)
EXTENDS Naturals, FiniteSets

CONSTANTS
    Slots,      \* the tags of interest: <<repository, tag>>
    Mirrored,   \* the repository a mirror fills
    Tags,       \* tags other than "latest"
    Rank,       \* of a tag: versionKey as a number, 0 for a tag that is no version
    Latest,     \* the tag "latest"
    Images,     \* digests
    Built,      \* of an image: when its configuration says it was created
    Immutable,  \* tags no rule lets anybody re-point
    Protected,  \* tags no rule lets anybody remove
    Nothing,
    Overwrite   \* the mirror's switch

AllTags == Tags \cup {Latest}
Places == {s[1] : s \in Slots}

ASSUME ClientsAssumption ==
    /\ Rank \in [Tags -> Nat] /\ Built \in [Images -> Nat] /\ Latest \notin Tags
    /\ \A s \in Slots : s = <<s[1], s[2]>> /\ s[2] \in AllTags
    /\ {Mirrored} \X AllTags \subseteq Slots
    /\ Nothing \notin Images \cup Slots /\ Overwrite \in BOOLEAN

VARIABLES
    tagOf,    \* tags: the image a tag of a repository names, or Nothing
    stored,   \* manifests: which images a repository holds
    client    \* the client at work

clientVars == <<tagOf, stored, client>>

\* at: the next request; slot, image: what it works on; to: where a move goes;
\* gone, was: what the tag and latest named when deleteTag looked; todo, log: a
\* mirror's tags and the entries of its log that did not fail; imported: is one
\* of them "imported"; pick, unread: what pickNewest chose, and the images whose
\* date it could not read.  Not in the code: overtaken and since, the tags that
\* others wrote since the client began, and since deleteTag listed the tags;
\* refused, a request failed.
Asleep == [kind |-> "none", at |-> "none", slot |-> Nothing, to |-> Nothing, image |-> Nothing,
           gone |-> Nothing, was |-> Nothing, todo |-> {}, log |-> {}, imported |-> FALSE,
           pick |-> Nothing, unread |-> {}, overtaken |-> {}, since |-> {}, refused |-> FALSE]

ClientsTypeOK ==
    /\ tagOf \in [Slots -> Images \cup {Nothing}] /\ stored \subseteq Places \X Images
    /\ \A s \in Slots : tagOf[s] # Nothing => <<s[1], tagOf[s]>> \in stored
    /\ client.kind \in {"none", "mirror", "move", "copy", "delete", "retag"}
    /\ client.at \in {"none", "tags", "put", "putLatest", "copy", "look", "delete", "remaining",
                      "dropLatest", "retag", "end"}

ClientsInit == tagOf = [s \in Slots |-> Nothing] /\ stored = {} /\ client = Asleep

----------------------------------------------------------------------------
(* registryd: the requests the clients make, and everybody else. *)

At(r, v) == IF <<r, v>> \in Slots THEN tagOf[<<r, v>>] ELSE Nothing
Tagged(r) == {v \in AllTags : At(r, v) # Nothing}
MayRepoint(s, d) == s[2] \in Immutable => tagOf[s] \in {Nothing, d}

PutTag(s, d) == tagOf' = [tagOf EXCEPT ![s] = d] /\ stored' = stored \cup {<<s[1], d>>}
DropTag(s) == tagOf' = [tagOf EXCEPT ![s] = Nothing] /\ UNCHANGED stored

Overtake(s) ==
    client' = IF client.kind = "none" THEN client
              ELSE [client EXCEPT !.overtaken = @ \cup {s}, !.since = @ \cup {s}]

push(s, d) == MayRepoint(s, d) /\ tagOf[s] # d /\ PutTag(s, d) /\ Overtake(s)

untag(s) == tagOf[s] # Nothing /\ s[2] \notin Protected /\ DropTag(s) /\ Overtake(s)

\* Deletion by digest of an image that no tag names.
dropUntagged(r, d) ==
    /\ <<r, d>> \in stored /\ \A v \in AllTags : At(r, v) # d
    /\ stored' = stored \ {<<r, d>>} /\ UNCHANGED <<tagOf, client>>

Refused(c) == client' = [c EXCEPT !.at = "end", !.refused = TRUE] /\ UNCHANGED <<tagOf, stored>>

----------------------------------------------------------------------------
(* pickNewest, of tags with their images. *)

Entry(v, d) == [tag |-> v, digest |-> d]
Entries == [tag : Tags, digest : Images]

\* imageCreatedAt: an image that cannot be read counts as undated.
Date(d, unread) == IF d \in unread THEN 0 ELSE Built[d]

\* A higher version, or any version beside tags that are none; among those the
\* image that was built later.
Newer(e, c, unread) ==
    IF Rank[c.tag] > 0 THEN Rank[e.tag] > Rank[c.tag]
    ELSE Rank[e.tag] > 0 \/ Date(e.digest, unread) > Date(c.digest, unread)

\* Of several that are equally new the last of the list, whose order is the
\* database's or the source's.  (Of more than a hundred tags without a version
\* the code looks at the last hundred.)
pickNewest(candidates, unread) == {c \in candidates : \A e \in candidates : ~Newer(e, c, unread)}

----------------------------------------------------------------------------
(* A mirror run. *)

\* runMirror: listTags and selectTags.  The mirror watches for latest only
\* where the source has none.
runMirror ==
    /\ client.kind = "none"
    /\ \E vs \in SUBSET Tags : client' = [Asleep EXCEPT !.kind = "mirror", !.at = "tags", !.todo = vs]
    /\ UNCHANGED <<tagOf, stored>>

\* One tag of the loop: what the source has now, and whether the local tag is
\* up to date or may not be overwritten.
mirrorTag ==
    /\ client.kind = "mirror" /\ client.at = "tags"
    /\ \E v \in client.todo :
         LET rest == [client EXCEPT !.todo = @ \ {v}]
             current == tagOf[<<Mirrored, v>>]
         IN  \/ client' = [rest EXCEPT !.refused = TRUE]
             \/ \E d \in Images :
                    client' = IF current = d \/ (current # Nothing /\ ~Overwrite)
                              THEN [rest EXCEPT !.log = @ \cup {Entry(v, d)}]
                              ELSE [rest EXCEPT !.at = "put", !.slot = <<Mirrored, v>>, !.image = d]
    /\ UNCHANGED <<tagOf, stored>>

\* importManifest, twice at most; the registry refuses what the rules lock.
importManifest ==
    /\ client.at = "put"
    /\ \/ client' = [client EXCEPT !.at = "tags", !.refused = TRUE] /\ UNCHANGED <<tagOf, stored>>
       \/ /\ MayRepoint(client.slot, client.image)
          /\ PutTag(client.slot, client.image)
          /\ client' = [client EXCEPT !.at = "tags", !.imported = TRUE,
                                      !.log = @ \cup {Entry(client.slot[2], client.image)}]

\* publishLatest: pickNewest of the entries that did not fail.
publishLatest ==
    /\ client.kind = "mirror" /\ client.at = "tags" /\ client.todo = {}
    /\ \/ client.log = {} /\ client' = [client EXCEPT !.at = "end"]
       \/ \E unread \in SUBSET Images : \E pick \in pickNewest(client.log, unread) :
            client' = IF pick.digest = tagOf[<<Mirrored, Latest>>]
                      THEN [client EXCEPT !.at = "end"]
                      ELSE [client EXCEPT !.at = "putLatest", !.image = pick.digest, !.slot = <<Mirrored, Latest>>]
    /\ UNCHANGED <<tagOf, stored>>

\* fetchManifestRaw of the pick, and its bytes under "latest" (mirror and
\* deleteTag): an image that has gone meanwhile is an error.
putLatest ==
    /\ client.at = "putLatest"
    /\ \/ Refused(client)
       \/ /\ <<client.slot[1], client.image>> \in stored
          /\ MayRepoint(<<client.slot[1], Latest>>, client.image)
          /\ PutTag(<<client.slot[1], Latest>>, client.image)
          /\ client' = [client EXCEPT !.at = "end"]

----------------------------------------------------------------------------
(* Copying, moving, deleting, retagging. *)

\* moveImage: the checks and planImageCopy, which reads the manifests.
moveImage(from, to, kind) ==
    /\ client.kind = "none" /\ from # to /\ tagOf[from] # Nothing
    /\ kind = "move" => from[2] \notin Protected
    /\ MayRepoint(to, tagOf[from])
    /\ client' = [Asleep EXCEPT !.kind = kind, !.at = "copy", !.slot = from, !.to = to, !.image = tagOf[from]]
    /\ UNCHANGED <<tagOf, stored>>

\* executeImageCopy: blobs and children, then the image under its tag, then what
\* is attached to it, any of which may fail; a move goes on to delete the source
\* tag.
Copied == [client EXCEPT !.at = IF client.kind = "move" THEN "look" ELSE "end"]

\* executeImageCopy that goes on after a refusal.
executeImageCopy_Anyway ==
    /\ client.at = "copy"
    /\ \/ client' = Copied /\ UNCHANGED <<tagOf, stored>>
       \/ MayRepoint(client.to, client.image) /\ PutTag(client.to, client.image) /\ client' = Copied

executeImageCopy ==
    /\ client.at = "copy"
    /\ \/ Refused(client)
       \/ /\ MayRepoint(client.to, client.image) /\ PutTag(client.to, client.image)
          /\ client' = Copied \/ client' = [client EXCEPT !.at = "end", !.refused = TRUE]

\* deleteTag: the tag, latest and the rules are read ...
Deleting == IF client.kind = "none" THEN "delete" ELSE client.kind
deleteTag(s) ==
    /\ \/ client.kind = "none" /\ tagOf[s] # Nothing
       \/ client.at = "look" /\ s = client.slot
    /\ client' = IF tagOf[s] = Nothing \/ s[2] \in Protected
                 THEN [client EXCEPT !.kind = Deleting, !.at = "end", !.refused = TRUE]
                 ELSE [client EXCEPT !.kind = Deleting, !.at = "delete", !.slot = s,
                                     !.gone = tagOf[s], !.was = At(s[1], Latest)]
    /\ UNCHANGED <<tagOf, stored>>

\* ... the registry deletes it, whatever it names by now ...
LatestStays == client.slot[2] = Latest \/ client.was # client.gone \/ Latest \in Immutable \cup Protected
registryDelete ==
    /\ client.at = "delete"
    /\ \/ Refused(client)
       \/ /\ tagOf[client.slot] # Nothing
          /\ DropTag(client.slot)
          /\ client' = [client EXCEPT !.at = IF LatestStays THEN "end" ELSE "remaining"]

\* ... and latest, when it named the same image, follows the newest that is
\* listed then, or goes when nothing is.
Remaining == Tagged(client.slot[1]) \ {client.slot[2], Latest}
Listed == {Entry(v, At(client.slot[1], v)) : v \in Remaining}

\* latestFollows that is content while any tag names the image of "latest".
latestFollows_StillNamed ==
    /\ client.at = "remaining"
    /\ \/ Listed = {} /\ client' = [client EXCEPT !.at = "dropLatest", !.since = {}]
       \/ \E unread \in SUBSET Images : \E pick \in pickNewest(Listed, unread) :
            client' = [client EXCEPT !.at = IF client.was \in {e.digest : e \in Listed} THEN "end" ELSE "putLatest",
                                     !.image = pick.digest, !.pick = pick, !.unread = unread, !.since = {}]
    /\ UNCHANGED <<tagOf, stored>>

latestFollows ==
    /\ client.at = "remaining"
    /\ \/ Listed = {} /\ client' = [client EXCEPT !.at = "dropLatest", !.since = {}]
       \/ \E unread \in SUBSET Images : \E pick \in pickNewest(Listed, unread) :
            client' = [client EXCEPT !.at = IF pick.digest = client.was THEN "end" ELSE "putLatest",
                                     !.image = pick.digest, !.pick = pick, !.unread = unread, !.since = {}]
    /\ UNCHANGED <<tagOf, stored>>

dropLatest ==
    /\ client.at = "dropLatest"
    /\ Refused(client) \/ (DropTag(<<client.slot[1], Latest>>) /\ client' = [client EXCEPT !.at = "end"])

\* retag: checks, then the stored bytes under the tag.
retag(s, d) ==
    /\ client.kind = "none" /\ <<s[1], d>> \in stored /\ tagOf[s] # d
    /\ s[2] \in Immutable => tagOf[s] = Nothing
    /\ client' = [Asleep EXCEPT !.kind = "retag", !.at = "retag", !.slot = s, !.image = d]
    /\ UNCHANGED <<tagOf, stored>>

retagPut ==
    /\ client.at = "retag"
    /\ \/ Refused(client)
       \/ /\ MayRepoint(client.slot, client.image)
          /\ PutTag(client.slot, client.image) /\ client' = [client EXCEPT !.at = "end"]

clientEnds == client.at = "end" /\ client' = Asleep /\ UNCHANGED <<tagOf, stored>>

ClientsNext ==
    \/ \E s \in Slots : untag(s) \/ deleteTag(s) \/ \E d \in Images : push(s, d) \/ retag(s, d)
    \/ \E r \in Places, d \in Images : dropUntagged(r, d)
    \/ runMirror \/ mirrorTag \/ importManifest \/ publishLatest \/ putLatest
    \/ \E from, to \in Slots, kind \in {"move", "copy"} : moveImage(from, to, kind)
    \/ executeImageCopy \/ registryDelete \/ latestFollows \/ dropLatest \/ retagPut \/ clientEnds

ClientsSpec == ClientsInit /\ [][ClientsNext]_clientVars

----------------------------------------------------------------------------

Done == client.at = "end" /\ client.overtaken = {} /\ ~client.refused
LatestSlot == <<client.slot[1], Latest>>

\* moveImage and the deletion it ends with: at every moment of a move, whichever
\* request fails and whatever others do meanwhile, a tag names the image, the
\* source's or the destination's, unless somebody else writes one of these two.
\* (Not when the destination is "latest" of the same repository: see
\* MovedImagesArrive.)
MovesLoseNothing ==
    client.kind = "move" /\ {client.slot, client.to} \cap client.overtaken = {} /\ client.to # LatestSlot
        => \/ tagOf[client.slot] = (IF client.gone = Nothing THEN client.image ELSE client.gone)
           \/ tagOf[client.to] = client.gone

\* What nobody else has written since deleteTag listed it.
Untouched == {v \in Remaining : <<client.slot[1], v>> \notin client.since}

\* Nothing that was listed and left alone is newer than the tag that was picked.
PickIsNewest ==
    /\ client.pick \in Entries
    /\ <<client.slot[1], client.pick.tag>> \notin client.since =>
           At(client.slot[1], client.pick.tag) = client.pick.digest
    /\ \A v \in Untouched : ~Newer(Entry(v, At(client.slot[1], v)), client.pick, client.unread)

\* deleteTag, by itself or at the end of a move, of a tag whose image "latest"
\* names: while others push and delete around it, "latest" ends up on the image
\* of the newest tag that was listed after the deletion, or goes when none was;
\* a tag pushed or deleted after that does not count.  If a request fails, it is
\* where it was.  (Unless somebody else writes "latest" itself meanwhile, or it
\* is locked; images whose date could not be read count as undated.)
LatestFollowsNewest ==
    client.kind \in {"delete", "move"} /\ client.at = "end" /\ client.gone # Nothing
    /\ ~LatestStays /\ LatestSlot \notin client.overtaken =>
        LET now == At(client.slot[1], Latest)
        IN  \/ client.refused /\ now = client.was
            \/ ~client.refused /\ now = Nothing /\ Untouched = {}
            \/ ~client.refused /\ PickIsNewest /\ now = client.pick.digest

\* moveImage: "*Move* deletes it once the destination has the image"
\* (README.md).  After a move the destination names the image.
MovedImagesArrive == client.kind = "move" /\ Done => tagOf[client.to] = client.gone

\* publishLatest: "When the source has none, the mirror points `latest` at the
\* newest imported image" (README.md).  A run that imported something leaves
\* the repository with a "latest".
MirrorsPublishLatest ==
    client.kind = "mirror" /\ Done /\ client.imported => tagOf[<<Mirrored, Latest>>] # Nothing
====
