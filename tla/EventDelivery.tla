---------------------------- MODULE EventDelivery ----------------------------
(***************************************************************************)
(* What the outbox promises of an event that registryd has recorded        *)
(* (store/outbox.go, web/src/lib/registry-events.ts): it is handled at     *)
(* least once before it counts as delivered, by one worker at a time, not  *)
(* again afterwards, and it is forgotten only once it was delivered.  A    *)
(* worker may give it back unhandled, or handled.  EventOutbox is shown to *)
(* implement this specification.                                           *)
(***************************************************************************)
EXTENDS Naturals

CONSTANTS
    Events,     \* what is pushed and deleted
    Workers     \* whoever may handle an event

VARIABLES
    status,     \* per event: "none", "recorded", "delivered" or "forgotten"
    workers,    \* per event: who works on it
    times       \* per event: how often it was handled, counted to 2

vars == <<status, workers, times>>

Init ==
    /\ status = [e \in Events |-> "none"]
    /\ workers = [e \in Events |-> {}]
    /\ times = [e \in Events |-> 0]

Record(e) ==
    /\ status[e] = "none"
    /\ status' = [status EXCEPT ![e] = "recorded"]
    /\ UNCHANGED <<workers, times>>

\* Only one at a time gets an event, and only while it is to be delivered.
Take(e, w) ==
    /\ status[e] = "recorded"
    /\ workers[e] = {}
    /\ workers' = [workers EXCEPT ![e] = {w}]
    /\ UNCHANGED <<status, times>>

Handle(e, w) ==
    /\ w \in workers[e]
    /\ times' = [times EXCEPT ![e] = IF @ < 2 THEN @ + 1 ELSE @]
    /\ UNCHANGED <<status, workers>>

\* What was handled is done with.
Deliver(e, w) ==
    /\ w \in workers[e]
    /\ times[e] > 0
    /\ status' = [status EXCEPT ![e] = "delivered"]
    /\ workers' = [workers EXCEPT ![e] = {}]
    /\ UNCHANGED times

\* A worker fails, dies, or cannot say that it is done.
GiveBack(e, w) ==
    /\ w \in workers[e]
    /\ workers' = [workers EXCEPT ![e] = {}]
    /\ UNCHANGED <<status, times>>

Forget(S) ==
    /\ \A e \in S : status[e] = "delivered"
    /\ status' = [e \in Events |-> IF e \in S THEN "forgotten" ELSE status[e]]
    /\ UNCHANGED <<workers, times>>

Next ==
    \/ \E e \in Events :
         \/ Record(e)
         \/ \E w \in Workers : Take(e, w) \/ Handle(e, w) \/ Deliver(e, w) \/ GiveBack(e, w)
    \/ \E S \in SUBSET Events : Forget(S)

Spec == Init /\ [][Next]_vars
=============================================================================
