--------------------------- MODULE MCLocalStaging ---------------------------
(* LocalStaging for TLC: two requests on one session. *)
EXTENDS LocalStaging

CONSTANTS q1, q2, t1

TwoRequests == {q1, q2}
OneSession == {t1}
=============================================================================
