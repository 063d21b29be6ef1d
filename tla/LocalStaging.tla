---------------------------- MODULE LocalStaging ----------------------------
(***************************************************************************)
(* Node-local upload staging of registryd (STORAGE_STAGING=local, the      *)
(* default): a data file that chunks are appended to and a metadata file   *)
(* next to it (internal/storage/staging.go).  A body is copied into the    *)
(* file piece by piece; every file-system call is one step.                *)
(***************************************************************************)
EXTENDS Naturals, Sequences, FiniteSets

CONSTANTS
    Handlers,      \* request handlers and sweeps in flight on the node
    Sessions,      \* upload session ids
    NoSession,     \* the session of a process that serves none
    BodyPieces,    \* writes that the copy of one request body takes
    MaxPieces      \* bound: no body is taken that would bring a file beyond it

ASSUME NoSessionAssumption == NoSession \notin Sessions
ASSUME PiecesAssumption == BodyPieces \in Nat \ {0} /\ MaxPieces \in Nat

VARIABLES
    created,   \* ids ever used (history)
    meta,      \* sessions with a metadata file
    files,     \* sessions with a data file
    data,      \* its content: for each piece who wrote it, and the offset it was meant for
    stale,     \* sessions whose files are older than the TTL
    stage, sess,  \* what each process does, and for which session
    expected,  \* the offset a request verified, advanced as it writes
    left,      \* pieces of the body still to write
    seen       \* metadata files a sweep has still to look at

fileVars == <<created, meta, files, data, stale>>
handlerVars == <<stage, sess, expected, left, seen>>
stagingVars == <<fileVars, handlerVars>>

States == {"idle", "created", "checked", "write", "size",
           "unlinkData", "unlinkMeta", "sweep"}

StagingInit ==
    /\ created = {} /\ meta = {} /\ files = {} /\ stale = {}
    /\ data = [s \in Sessions |-> << >>]
    /\ stage = [p \in Handlers |-> "idle"]
    /\ sess = [p \in Handlers |-> NoSession]
    /\ expected = [p \in Handlers |-> 0]
    /\ left = [p \in Handlers |-> 0]
    /\ seen = [p \in Handlers |-> {}]

Goto(p, state) == stage' = [stage EXCEPT ![p] = state]

\* The request is answered; a sweep goes on with its next file.
Answer(p) ==
    /\ Goto(p, IF seen[p] = {} THEN "idle" ELSE "sweep")
    /\ sess' = [sess EXCEPT ![p] = NoSession]
    /\ expected' = [expected EXCEPT ![p] = 0]
    /\ left' = [left EXCEPT ![p] = 0]
    /\ UNCHANGED seen

\* Create writes the metadata file, then the empty data file.
CreateMeta(p, s) ==
    /\ stage[p] = "idle"
    /\ s \notin created
    /\ created' = created \cup {s}
    /\ meta' = meta \cup {s}
    /\ sess' = [sess EXCEPT ![p] = s]
    /\ Goto(p, "created")
    /\ UNCHANGED <<files, data, stale, expected, left, seen>>

CreateData(p) ==
    /\ stage[p] = "created"
    /\ files' = files \cup {sess[p]}
    /\ Answer(p)
    /\ UNCHANGED <<created, meta, data, stale>>

\* checkSession: Get needs both files and reports the size of the data file.
Get(p, s) ==
    /\ stage[p] = "idle"
    /\ s \in meta \cap files
    /\ sess' = [sess EXCEPT ![p] = s]
    /\ expected' = [expected EXCEPT ![p] = Len(data[s])]
    /\ Goto(p, "checked")
    /\ UNCHANGED <<fileVars, left, seen>>

\* Append compares sizes, then opens the file for appending ...
SizeMatches(p) == sess[p] \in files /\ Len(data[sess[p]]) = expected[p]

Append_Open(p) ==
    /\ stage[p] = "checked"
    /\ \/ /\ SizeMatches(p)
          /\ Len(data[sess[p]]) + BodyPieces <= MaxPieces
          /\ left' = [left EXCEPT ![p] = BodyPieces]
          /\ Goto(p, "write")
          /\ UNCHANGED <<sess, expected, seen>>
       \/ /\ ~SizeMatches(p)
          /\ Answer(p)
    /\ UNCHANGED fileVars

Piece(p) == [by |-> p, at |-> expected[p]]

\* The piece is written, unless the file has been unlinked meanwhile, and makes
\* the file young.
Copied(p, content) ==
    /\ stage[p] = "write" /\ left[p] > 0
    /\ data' = IF sess[p] \in files THEN [data EXCEPT ![sess[p]] = content] ELSE data
    /\ stale' = stale \ {sess[p]}
    /\ expected' = [expected EXCEPT ![p] = @ + 1]
    /\ left' = [left EXCEPT ![p] = @ - 1]
    /\ Goto(p, IF left[p] = 1 THEN "size" ELSE "write")
    /\ UNCHANGED <<created, meta, files, sess, seen>>

\* Without O_APPEND a piece lands at the position of its own descriptor, on
\* whatever another request has written there since.
Append_Overwrite(p) ==
    Copied(p, LET file == data[sess[p]]
              IN  IF expected[p] < Len(file) THEN [file EXCEPT ![expected[p] + 1] = Piece(p)] ELSE Append(file, Piece(p)))

\* ... and copies the body: O_APPEND puts each piece at the end of the file.
Append_Write(p) == Copied(p, Append(data[sess[p]], Piece(p)))

\* The copy fails part-way (the client hung up): the pieces stay.
Append_Fails(p) ==
    /\ stage[p] = "write"
    /\ Answer(p)
    /\ UNCHANGED fileVars

\* Append answers with the size of the file, which must still be there.
Append_Size(p) ==
    /\ stage[p] = "size"
    /\ Answer(p)
    /\ UNCHANGED fileVars

\* Remove unlinks the data file, then the metadata file.
Remove(p) ==
    /\ stage[p] = "checked"
    /\ Goto(p, "unlinkData")
    /\ UNCHANGED <<fileVars, sess, expected, left, seen>>

UnlinkData(p) ==
    /\ stage[p] = "unlinkData"
    /\ files' = files \ {sess[p]}
    /\ data' = [data EXCEPT ![sess[p]] = << >>]
    /\ Goto(p, "unlinkMeta")
    /\ UNCHANGED <<created, meta, stale, sess, expected, left, seen>>

UnlinkMeta(p) ==
    /\ stage[p] = "unlinkMeta"
    /\ meta' = meta \ {sess[p]}
    /\ stale' = stale \ {sess[p]}
    /\ Answer(p)
    /\ UNCHANGED <<created, files, data>>

\* Sweep reads the directory, then looks at one metadata file after another
\* and removes the sessions whose files are older than the TTL.
Sweep(p) ==
    /\ stage[p] = "idle"
    /\ seen' = [seen EXCEPT ![p] = meta]
    /\ Goto(p, IF meta = {} THEN "idle" ELSE "sweep")
    /\ UNCHANGED <<fileVars, sess, expected, left>>

SweepOne(p) ==
    /\ stage[p] = "sweep"
    /\ \E s \in seen[p] :
         /\ seen' = [seen EXCEPT ![p] = @ \ {s}]
         /\ IF s \in stale
            THEN /\ sess' = [sess EXCEPT ![p] = s]
                 /\ Goto(p, "unlinkData")
            ELSE /\ Goto(p, IF seen[p] = {s} THEN "idle" ELSE "sweep")
                 /\ UNCHANGED sess
    /\ UNCHANGED <<fileVars, expected, left>>

\* The TTL passes without a write.
Age(s) ==
    /\ s \in meta \ stale
    /\ stale' = stale \cup {s}
    /\ UNCHANGED <<created, meta, files, data, handlerVars>>

StagingNext ==
    \/ \E s \in Sessions : Age(s)
    \/ \E p \in Handlers, s \in Sessions : CreateMeta(p, s) \/ Get(p, s)
    \/ \E p \in Handlers :
         \/ CreateData(p)
         \/ Append_Open(p)
         \/ Append_Write(p)
         \/ Append_Fails(p)
         \/ Append_Size(p)
         \/ Remove(p)
         \/ UnlinkData(p)
         \/ UnlinkMeta(p)
         \/ Sweep(p)
         \/ SweepOne(p)

StagingSpec == StagingInit /\ [][StagingNext]_stagingVars

-----------------------------------------------------------------------------
(* Properties *)

StagingTypeOK ==
    /\ created \in SUBSET Sessions
    /\ meta \in SUBSET created
    /\ files \in SUBSET created
    /\ data \in [Sessions -> Seq([by : Handlers, at : Nat])]
    /\ stale \in SUBSET meta
    /\ stage \in [Handlers -> States]
    /\ sess \in [Handlers -> Sessions \cup {NoSession}]
    /\ expected \in [Handlers -> Nat]
    /\ left \in [Handlers -> 0 .. BodyPieces]
    /\ seen \in [Handlers -> SUBSET Sessions]

\* How many pieces p has copied, and the offset that it had verified.
Copies(p) == BodyPieces - left[p]
Base(p) == expected[p] - Copies(p)

\* Append, in a file opened with O_APPEND: however many requests append to one
\* session at a time, and whatever is removed or swept meanwhile, every piece
\* that a request has copied stays in the file, behind the offset that the
\* request had verified and in the order of the body, as long as there is the
\* file.  (Other requests' pieces may lie between them, see
\* StagedAtExpectedOffset: the digest of the commit then does not match.)
AppendsKeepTheirBytes ==
    \A p \in Handlers : stage[p] \in {"write", "size"} /\ sess[p] \in files =>
        LET file == data[sess[p]]
            Mine(i) == i > Base(p) /\ file[i].by = p
        IN  /\ \A k \in 0 .. Copies(p) - 1 : \E i \in DOMAIN file : Mine(i) /\ file[i].at = Base(p) + k
            /\ \A i, j \in DOMAIN file : Mine(i) /\ Mine(j) /\ i < j => file[i].at < file[j].at

\* The contract of Append (staging.go:46-49): "when the session has moved on (a
\* concurrent append) Append writes nothing".  Every piece in a session's file
\* would then lie at the offset that its request had verified.
StagedAtExpectedOffset ==
    \A s \in files : \A i \in 1 .. Len(data[s]) : data[s][i].at = i - 1
=============================================================================
