----------------------------- MODULE EventOutbox -----------------------------
(***************************************************************************)
(* Registry events on their way from registryd to the web app.  A push or  *)
(* delete is recorded in registry_event_outbox and POSTed with up to four  *)
(* tries (api/router.go, hooks/webhook.go, store/outbox.go); the web app   *)
(* claims the row, works on the event and marks the row delivered, from    *)
(* the route that receives the POST or from the drain that the scheduler   *)
(* runs (web/src/lib/registry-events.ts, api/internal/events/route.ts).    *)
(*                                                                         *)
(* Each statement is one step.  Times are kept as far as they matter: a    *)
(* claim goes stale ten minutes after it was taken, a failed event becomes *)
(* due again after its backoff.                                            *)
(***************************************************************************)
EXTENDS Naturals, FiniteSets

CONSTANTS
    Events,       \* pushes and deletes
    Routes,       \* POST requests the web app works on at a time
    Drains,       \* outbox drains (one per scheduler tick in progress)
    NoEvent,      \* the event of a handler that has none
    MaxAttempts,  \* OUTBOX_MAX_ATTEMPTS
    Tries,        \* deliveries Notify attempts
    Faults        \* a subset of {"crash", "write", "slow"}, see the actions

ASSUME ConstantsAssumption ==
    /\ Routes \cap Drains = {}
    /\ NoEvent \notin Events
    /\ MaxAttempts \in Nat \ {0}
    /\ Tries \in Nat \ {0}
    /\ Faults \subseteq {"crash", "write", "slow"}

Handlers == Routes \cup Drains

VARIABLES
    row,       \* the outbox row: "none", "pending", "delivered" or "swept"
    claim,     \* claimed_at of the row: "free", "live" or "stale"
    attempts,  \* attempts of the row
    due,       \* has next_attempt_at of the row passed?
    sends,     \* deliveries that the Notify goroutine has left
    unrecorded,\* events emitted without a row (id 0)
    pc, ev,    \* per handler: its step and its event
    batch,     \* per handler: what the drain selected and has not looked at
    handled    \* how often the event was processed (history, counted to 2)

rowVars == <<row, claim, attempts, due>>
handlerVars == <<pc, ev, batch>>
vars == <<rowVars, sends, unrecorded, handlerVars, handled>>

Init ==
    /\ row = [e \in Events |-> "none"]
    /\ claim = [e \in Events |-> "free"]
    /\ attempts = [e \in Events |-> 0]
    /\ due = [e \in Events |-> FALSE]
    /\ sends = [e \in Events |-> 0]
    /\ unrecorded = {}
    /\ pc = [h \in Handlers |-> "idle"]
    /\ ev = [h \in Handlers |-> NoEvent]
    /\ batch = [h \in Handlers |-> {}]
    /\ handled = [e \in Events |-> 0]

\* The steps of a handler between its claim and the end of its bookkeeping.
Claimed == {"work", "complete", "fail"}

\* Mutant: the claim does not look at delivered_at.
Claimable_Delivered(e) == row[e] \in {"pending", "delivered"} /\ claim[e] # "live"

\* claimOutboxEvent's WHERE clause.
Claimable(e) == row[e] = "pending" /\ claim[e] # "live"

\* The handler has done its event: a route ends, a drain goes on.
Release(h) ==
    /\ pc' = [pc EXCEPT ![h] = IF h \in Drains THEN "drain" ELSE "idle"]
    /\ ev' = [ev EXCEPT ![h] = NoEvent]
    /\ UNCHANGED batch

Count(e) == handled' = [handled EXCEPT ![e] = IF @ < 2 THEN @ + 1 ELSE @]

-----------------------------------------------------------------------------
(* registryd *)

\* emit: the row is inserted, then Notify starts to deliver.
Emit(e) ==
    /\ row[e] = "none"
    /\ e \notin unrecorded
    /\ row' = [row EXCEPT ![e] = "pending"]
    /\ due' = [due EXCEPT ![e] = TRUE]
    /\ sends' = [sends EXCEPT ![e] = Tries]
    /\ UNCHANGED <<claim, attempts, unrecorded, handlerVars, handled>>

\* emit when the INSERT fails: delivered without durability.
EmitUnrecorded(e) ==
    /\ row[e] = "none"
    /\ e \notin unrecorded
    /\ unrecorded' = unrecorded \cup {e}
    /\ sends' = [sends EXCEPT ![e] = Tries]
    /\ UNCHANGED <<rowVars, handlerVars, handled>>

\* A POST that reaches the web app.  The route answers 204 whether it took
\* the claim or not; if the answer is lost, Notify tries again.
Post(e, r) ==
    /\ sends[e] > 0
    /\ pc[r] = "idle"
    /\ \E answered \in BOOLEAN :
         sends' = [sends EXCEPT ![e] = IF answered THEN 0 ELSE @ - 1]
    /\ \/ /\ e \in unrecorded
          /\ pc' = [pc EXCEPT ![r] = "besteffort"]
          /\ ev' = [ev EXCEPT ![r] = e]
          /\ UNCHANGED claim
       \/ /\ e \notin unrecorded
          /\ Claimable(e)
          /\ claim' = [claim EXCEPT ![e] = "live"]
          /\ pc' = [pc EXCEPT ![r] = "work"]
          /\ ev' = [ev EXCEPT ![r] = e]
       \/ /\ e \notin unrecorded
          /\ ~Claimable(e)
          /\ UNCHANGED <<claim, pc, ev>>
    /\ UNCHANGED <<row, attempts, due, unrecorded, batch, handled>>

\* Mutant: the number of tries is not looked at.
PostFails_Unlimited(e) ==
    /\ sends' = [sends EXCEPT ![e] = @ - 1]
    /\ UNCHANGED <<rowVars, unrecorded, handlerVars, handled>>

\* A POST that does not.
PostFails(e) ==
    /\ sends[e] > 0
    /\ sends' = [sends EXCEPT ![e] = @ - 1]
    /\ UNCHANGED <<rowVars, unrecorded, handlerVars, handled>>

\* registryd restarts: the goroutines that deliver are gone.
RegistrydRestarts ==
    /\ \E e \in Events : sends[e] > 0
    /\ sends' = [e \in Events |-> 0]
    /\ UNCHANGED <<rowVars, unrecorded, handlerVars, handled>>

-----------------------------------------------------------------------------
(* The web app *)

\* processRegistryEvent for an event without a row: errors are only logged.
BestEffort(h) ==
    /\ pc[h] = "besteffort"
    /\ Count(ev[h]) \/ UNCHANGED handled
    /\ Release(h)
    /\ UNCHANGED <<rowVars, sends, unrecorded>>

\* processRegistryEvent returns ...
Process(h) ==
    /\ pc[h] = "work"
    /\ Count(ev[h])
    /\ pc' = [pc EXCEPT ![h] = "complete"]
    /\ UNCHANGED <<rowVars, sends, unrecorded, ev, batch>>

\* ... or throws.
ProcessThrows(h) ==
    /\ pc[h] = "work"
    /\ pc' = [pc EXCEPT ![h] = "fail"]
    /\ UNCHANGED <<rowVars, sends, unrecorded, ev, batch, handled>>

\* UPDATE ... SET delivered_at; a row that was swept meanwhile is not there.
completeOutboxEvent(h) ==
    /\ pc[h] = "complete"
    /\ row' = [row EXCEPT ![ev[h]] = IF @ = "pending" THEN "delivered" ELSE @]
    /\ Release(h)
    /\ UNCHANGED <<claim, attempts, due, sends, unrecorded, handled>>

\* The UPDATE of completeOutboxEvent fails: it is inside the try block, so
\* the event counts as failed.
CompleteThrows(h) ==
    /\ "write" \in Faults
    /\ pc[h] = "complete"
    /\ pc' = [pc EXCEPT ![h] = "fail"]
    /\ UNCHANGED <<rowVars, sends, unrecorded, ev, batch, handled>>

\* failOutboxEvent updates the row by its id alone.
failOutboxEvent(h) ==
    /\ pc[h] = "fail"
    /\ LET e == ev[h] IN
       IF row[e] = "swept"
       THEN UNCHANGED <<claim, attempts, due>>
       ELSE /\ claim' = [claim EXCEPT ![e] = "free"]
            /\ attempts' = [attempts EXCEPT ![e] = @ + 1]
            /\ due' = [due EXCEPT ![e] = FALSE]
    /\ Release(h)
    /\ UNCHANGED <<row, sends, unrecorded, handled>>

\* ... and if that fails too, the claim is left to go stale.
FailThrows(h) ==
    /\ "write" \in Faults
    /\ pc[h] = "fail"
    /\ Release(h)
    /\ UNCHANGED <<rowVars, sends, unrecorded, handled>>

\* Mutant: the drain passes over rows that somebody claimed once.
DrainSelect_FreeOnly(d) ==
    /\ pc[d] = "idle"
    /\ pc' = [pc EXCEPT ![d] = "drain"]
    /\ batch' = [batch EXCEPT ![d] =
         {e \in Events : Claimable(e) /\ claim[e] = "free" /\ due[e] /\ attempts[e] < MaxAttempts}]
    /\ UNCHANGED <<rowVars, sends, unrecorded, ev, handled>>

\* drainEventOutbox selects what is due and nobody works on ...
DrainSelect(d) ==
    /\ pc[d] = "idle"
    /\ pc' = [pc EXCEPT ![d] = "drain"]
    /\ batch' = [batch EXCEPT ![d] =
         {e \in Events : Claimable(e) /\ due[e] /\ attempts[e] < MaxAttempts}]
    /\ UNCHANGED <<rowVars, sends, unrecorded, ev, handled>>

\* Mutant: a row of the batch is worked on without claiming it again.
DrainClaim_Trusting(d) ==
    /\ pc[d] = "drain"
    /\ \E e \in batch[d] :
         /\ batch' = [batch EXCEPT ![d] = @ \ {e}]
         /\ claim' = [claim EXCEPT ![e] = "live"]
         /\ pc' = [pc EXCEPT ![d] = "work"]
         /\ ev' = [ev EXCEPT ![d] = e]
    /\ UNCHANGED <<row, attempts, due, sends, unrecorded, handled>>

\* ... and claims one row after the other, passing over those it does not get.
DrainClaim(d) ==
    /\ pc[d] = "drain"
    /\ \E e \in batch[d] :
         /\ batch' = [batch EXCEPT ![d] = @ \ {e}]
         /\ IF Claimable(e)
            THEN /\ claim' = [claim EXCEPT ![e] = "live"]
                 /\ pc' = [pc EXCEPT ![d] = "work"]
                 /\ ev' = [ev EXCEPT ![d] = e]
            ELSE UNCHANGED <<claim, pc, ev>>
    /\ UNCHANGED <<row, attempts, due, sends, unrecorded, handled>>

\* Mutant: the sweep takes every row of a batch that is through.
DrainEnd_SweepsAll(d) ==
    /\ pc[d] = "drain"
    /\ batch[d] = {}
    /\ row' = [e \in Events |-> IF row[e] = "none" THEN "none" ELSE "swept"]
    /\ pc' = [pc EXCEPT ![d] = "idle"]
    /\ UNCHANGED <<claim, attempts, due, sends, unrecorded, ev, batch, handled>>

\* At its end the drain deletes rows delivered more than a week ago.
DrainEnd(d) ==
    /\ pc[d] = "drain"
    /\ batch[d] = {}
    /\ \E old \in SUBSET {e \in Events : row[e] = "delivered"} :
         row' = [e \in Events |-> IF e \in old THEN "swept" ELSE row[e]]
    /\ pc' = [pc EXCEPT ![d] = "idle"]
    /\ UNCHANGED <<claim, attempts, due, sends, unrecorded, ev, batch, handled>>

\* A web process dies in the middle of its work.
Crash(h) ==
    /\ "crash" \in Faults
    /\ pc[h] # "idle"
    /\ pc' = [pc EXCEPT ![h] = "idle"]
    /\ ev' = [ev EXCEPT ![h] = NoEvent]
    /\ batch' = [batch EXCEPT ![h] = {}]
    /\ UNCHANGED <<rowVars, sends, unrecorded, handled>>

-----------------------------------------------------------------------------
(* Time *)

\* CLAIM_TTL passes.  Notify is through with its tries long before; unless
\* handlers can be slow, the one that claimed the event has ended as well.
ClaimExpires(e) ==
    /\ claim[e] = "live"
    /\ sends[e] = 0
    /\ "slow" \in Faults \/ \A h \in Handlers : ~(pc[h] \in Claimed /\ ev[h] = e)
    /\ claim' = [claim EXCEPT ![e] = "stale"]
    /\ UNCHANGED <<row, attempts, due, sends, unrecorded, handlerVars, handled>>

BackoffEnds(e) ==
    /\ row[e] = "pending"
    /\ ~due[e]
    /\ due' = [due EXCEPT ![e] = TRUE]
    /\ UNCHANGED <<row, claim, attempts, sends, unrecorded, handlerVars, handled>>

HandlerStep(h) ==
    \/ BestEffort(h)
    \/ Process(h)
    \/ ProcessThrows(h)
    \/ completeOutboxEvent(h)
    \/ CompleteThrows(h)
    \/ failOutboxEvent(h)
    \/ FailThrows(h)

DrainStep(d) ==
    \/ DrainSelect(d)
    \/ DrainClaim(d)
    \/ DrainEnd(d)

Next ==
    \/ \E e \in Events :
         \/ Emit(e)
         \/ EmitUnrecorded(e)
         \/ PostFails(e)
         \/ ClaimExpires(e)
         \/ BackoffEnds(e)
         \/ \E r \in Routes : Post(e, r)
    \/ \E h \in Handlers : HandlerStep(h) \/ Crash(h)
    \/ \E d \in Drains : DrainStep(d)
    \/ RegistrydRestarts

Spec == Init /\ [][Next]_vars

\* Time passes, Notify works through its tries, the scheduler ticks and its
\* handlers run.  Processes may be killed again and again, but for each step
\* of a handler there is, sooner or later, one that survives it.
Fairness ==
    /\ \A e \in Events :
         WF_vars(ClaimExpires(e)) /\ WF_vars(BackoffEnds(e)) /\ WF_vars(PostFails(e))
    /\ \A h \in Handlers :
         /\ WF_vars(HandlerStep(h))
         /\ SF_vars(Process(h) \/ ProcessThrows(h))
         /\ SF_vars(completeOutboxEvent(h))
         /\ SF_vars(failOutboxEvent(h))
    /\ \A d \in Drains : WF_vars(DrainStep(d)) /\ SF_vars(DrainClaim(d))

FairSpec == Spec /\ Fairness

-----------------------------------------------------------------------------
(* Properties *)

\* The shape of the state.  A free row is nobody's, a handler that has
\* claimed something has an event.
TypeOK ==
    /\ row \in [Events -> {"none", "pending", "delivered", "swept"}]
    /\ claim \in [Events -> {"free", "live", "stale"}]
    /\ attempts \in [Events -> Nat]
    /\ due \in [Events -> BOOLEAN]
    /\ sends \in [Events -> 0 .. Tries]
    /\ unrecorded \in SUBSET Events
    /\ pc \in [Handlers -> {"idle", "drain", "besteffort"} \cup Claimed]
    /\ ev \in [Handlers -> Events \cup {NoEvent}]
    /\ batch \in [Handlers -> SUBSET Events]
    /\ handled \in [Events -> 0 .. 2]
    /\ \A h \in Handlers : pc[h] \in Claimed \cup {"besteffort"} => ev[h] \in Events

\* "claims are atomic, so an overlapping run is harmless"
\* (registry-events.ts:153): two handlers never work on one recorded event.
OneHandlerPerEvent ==
    \A g, h \in Handlers :
      pc[g] \in Claimed /\ pc[h] \in Claimed /\ ev[g] = ev[h] => g = h

\* Whatever fails or crashes, a row counts as delivered (and may be swept)
\* only when its event was processed to the end.
DeliveredWasHandled ==
    \A e \in Events : row[e] \in {"delivered", "swept"} => handled[e] > 0

\* The events as EventDelivery sees them: what a row says, who holds a claim,
\* and how often an event with a row was processed.
DeliveryStatus == [e \in Events |->
    CASE row[e] = "none"      -> "none"
      [] row[e] = "pending"   -> "recorded"
      [] row[e] = "delivered" -> "delivered"
      [] OTHER                -> "forgotten"]
DeliveryWorkers == [e \in Events |-> {h \in Handlers : pc[h] \in Claimed /\ ev[h] = e}]
DeliveryTimes == [e \in Events |-> IF row[e] = "none" THEN 0 ELSE handled[e]]

Delivery == INSTANCE EventDelivery WITH
    Workers <- Handlers, status <- DeliveryStatus, workers <- DeliveryWorkers, times <- DeliveryTimes

\* The outbox implements the promise of EventDelivery: the claim, the drain's
\* selection and the sweep, with retries, crashes and failing statements, come
\* to recording, taking, handling, delivering, giving back and forgetting.
ImplementsDelivery == Delivery!Spec

\* "an event handled here is never handled again by the outbox drain"
\* (events/route.ts:3): once a row is delivered, no retry of the POST and no
\* drain processes the event again.
DeliveredIsFinal ==
    [][\A e \in Events : row[e] \in {"delivered", "swept"} =>
         handled'[e] = handled[e] /\ row'[e] \in {"delivered", "swept"}]_vars

\* "handled exactly once whether it arrives here or through the outbox
\* drain" (hooks/webhook.go:20).
HandledOnce == \A e \in Events : e \notin unrecorded => handled[e] < 2

\* An event that was recorded is delivered in the end, or has used up its
\* attempts: claims left behind by a dead process do not hold it up.
RecordedEventsEnd ==
    \A e \in Events :
      row[e] = "pending" ~> (row[e] # "pending" \/ attempts[e] >= MaxAttempts)
=============================================================================
