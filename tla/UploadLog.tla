------------------------------ MODULE UploadLog ------------------------------
(***************************************************************************)
(* What the Staging interface (registryd/internal/storage/staging.go)      *)
(* promises its callers: an upload session is an append-only log of chunks *)
(* that exists from Create until it is discarded, once, and whose content  *)
(* can be read back in full for as long as it is open.  SharedStaging is   *)
(* shown to implement this specification.                                  *)
(***************************************************************************)
EXTENDS Sequences

CONSTANTS
    Sessions,   \* upload session ids (uuids, never reused)
    Keys        \* identities of staged chunks

VARIABLES
    status,     \* status[s]: unborn, open or closed
    content     \* content[s]: the chunks a reader of session s would get

vars == <<status, content>>

Init ==
    /\ status = [s \in Sessions |-> "unborn"]
    /\ content = [s \in Sessions |-> << >>]

Create(s) ==
    /\ status[s] = "unborn"
    /\ status' = [status EXCEPT ![s] = "open"]
    /\ UNCHANGED content

AppendChunk(s, k) ==
    /\ status[s] = "open"
    /\ content' = [content EXCEPT ![s] = Append(@, k)]
    /\ UNCHANGED status

\* Remove closes one session, Sweep every idle one in a single statement.
Discard(S) ==
    /\ \A s \in S : status[s] = "open"
    /\ status' = [s \in Sessions |-> IF s \in S THEN "closed" ELSE status[s]]
    /\ content' = [s \in Sessions |-> IF s \in S THEN << >> ELSE content[s]]

Next ==
    \/ \E s \in Sessions : Create(s)
    \/ \E s \in Sessions, k \in Keys : AppendChunk(s, k)
    \/ \E S \in SUBSET Sessions : Discard(S)

Spec == Init /\ [][Next]_vars
=============================================================================
