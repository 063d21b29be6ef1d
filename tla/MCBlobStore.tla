---------------------------- MODULE MCBlobStore ----------------------------
(* Instances of BlobStore for TLC. *)
EXTENDS BlobStore, TLC

CONSTANTS p1, p2, r1, r2, b1, b2, m1

TwoProcs == {p1, p2}
TwoRepos == {r1, r2}
OneRepo == {r1}
TwoBlobs == {b1, b2}
OneBlob == {b1}
OneManifest == {m1}
BothLayers == (m1 :> {b1, b2})
OneLayer == (m1 :> {b1})

AllCleaners == {"gc", "delete", "verify"}
OnlyGc == {"gc"}

\* A handler in flight is done before the grace period has passed.
QuickHandlers == Tick => \A p \in Procs : pc[p] = "idle"

\* Both blobs are layers of the one manifest, so they may be exchanged too.
Symm == Permutations(TwoProcs) \cup Permutations(TwoRepos) \cup Permutations(TwoBlobs)
=============================================================================
