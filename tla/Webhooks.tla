---- MODULE Webhooks ----
(***************************************************************************)
(* What happens after something happened: notify (web/src/lib/notify.ts)   *)
(* mails the people responsible and forwards the event, and                *)
(* web/src/lib/webhooks.ts delivers it to every hook that subscribed,      *)
(* with retries, a bounded log and a mail when a receiver fails.           *)
(*                                                                         *)
(* One organization with one repository.  An occurrence is one call of     *)
(* notify, emitRepositoryEvent, emitOrganizationEvent or sendTestDelivery. *)
(* Payloads, templates and headers are left out: the receiver answers what *)
(* it likes.                                                               *)
(***************************************************************************)
EXTENDS Naturals, Sequences, FiniteSets, SequencesExt

CONSTANTS
    Hooks,          \* ids of hooks
    Occurrences,    \* what may happen
    Managers,       \* owners and admins of the organization, not banned
    Admins,         \* administrators of the instance
    Subscriptions,  \* the sets of topics a form may ask for
    MaxHooks,       \* MAX_WEBHOOKS_PER_REPO, MAX_WEBHOOKS_PER_ORG
    MaxLog,         \* WEBHOOK_LOG_MAX
    MaxTries        \* the delays of deliverWebhook: 0, 2000, 6000

ASSUME HooksAssumption == MaxTries \in Nat \ {0} /\ MaxLog \in Nat \ {0}

VARIABLES
    hookRow,   \* repository_webhooks: what each hook is set to
    saving,    \* a form that passed its checks: the row it will write
    wants,     \* notification_preferences; "default" without a row
    occurred,  \* an occurrence: its topic, once it happened, and how far it is
    sending,   \* deliverWebhook of an occurrence to a hook
    hookLog,   \* webhook_deliveries of a hook, oldest first
    mailed,    \* mails handed to sendMail for an occurrence
    told       \* mails handed to sendMail for a failed delivery

hookVars == <<hookRow, saving, wants, occurred, sending, hookLog, mailed, told>>

People == Managers \cup Admins
RepoTopics == {"push", "scan.completed"}
OrgTopics == {"quota.warning"}
Topics == RepoTopics \cup OrgTopics \cup {"job.failed", "test"}
Scopes == {"repository", "organization"}
Answers == {"2xx", "4xx", "error"}  \* an error is a 5xx or no answer at all
Gone == [scope |-> "none", enabled |-> FALSE, topics |-> {}]
There(h) == hookRow[h] # Gone

\* eventsForScope
eventsForScope(scope) == IF scope = "organization" THEN RepoTopics \cup OrgTopics ELSE RepoTopics

HookRows == {Gone} \cup
    {r \in [scope : Scopes, enabled : BOOLEAN, topics : SUBSET Topics] :
        r.topics # {} /\ r.topics \subseteq eventsForScope(r.scope)}
Deliveries == [at : {"idle", "try", "log", "prune", "tell", "done"}, tries : 0..MaxTries, ok : BOOLEAN]
Idle == [at |-> "idle", tries |-> 0, ok |-> FALSE]

HooksTypeOK ==
    /\ hookRow \in [Hooks -> HookRows]
    /\ saving \in [Hooks -> [row : HookRows, update : BOOLEAN]]
    /\ wants \in [People -> {"on", "off", "default"}]
    /\ occurred \in [Occurrences -> [topic : Topics \cup {"none"}, at : {"new", "mailed", "out"}]]
    /\ sending \in [Occurrences \X Hooks -> Deliveries]
    /\ hookLog \in [Hooks -> Seq(Occurrences \X BOOLEAN)]
    /\ mailed \subseteq Occurrences \X People /\ told \subseteq Occurrences \X Hooks \X People

HooksInit ==
    /\ hookRow = [h \in Hooks |-> Gone]
    /\ saving = [h \in Hooks |-> [row |-> Gone, update |-> FALSE]]
    /\ wants = [p \in People |-> "default"]
    /\ occurred = [o \in Occurrences |-> [topic |-> "none", at |-> "new"]]
    /\ sending = [x \in Occurrences \X Hooks |-> Idle]
    /\ hookLog = [h \in Hooks |-> <<>>] /\ mailed = {} /\ told = {}

----------------------------------------------------------------------------
(* Settings. *)

\* The API: resolveScope, validate, and for a new hook countWebhooks below
\* maxWebhooks.  An update keeps what the body leaves out as it was read.
validate(h) ==
    /\ saving[h].row = Gone
    /\ \E scope \in Scopes, s \in Subscriptions :
           /\ IF There(h) THEN scope = hookRow[h].scope
              ELSE Cardinality({g \in Hooks : hookRow[g].scope = scope}) < MaxHooks
           /\ s \cap eventsForScope(scope) # {}
           /\ saving' = [saving EXCEPT ![h] =
                  [row |-> [scope |-> scope, topics |-> s \cap eventsForScope(scope),
                            enabled |-> There(h) => hookRow[h].enabled],
                   update |-> There(h)]]
    /\ UNCHANGED <<hookRow, wants, occurred, sending, hookLog, mailed, told>>

\* webhookHandlers create and update: the INSERT, or the UPDATE of a row that
\* may have changed or gone since.
webhookHandlers(h) ==
    /\ saving[h].row # Gone
    /\ hookRow' = IF saving[h].update /\ ~There(h) THEN hookRow
                  ELSE [hookRow EXCEPT ![h] = saving[h].row]
    /\ saving' = [saving EXCEPT ![h] = [row |-> Gone, update |-> FALSE]]
    /\ UNCHANGED <<wants, occurred, sending, hookLog, mailed, told>>

\* The form: a new hook is counted and inserted as by the API; of one that is
\* there it does not write the switch.
saveWebhook(h) ==
    /\ There(h)
    /\ \E s \in Subscriptions :
           /\ s \cap eventsForScope(hookRow[h].scope) # {}
           /\ hookRow' = [hookRow EXCEPT ![h].topics = s \cap eventsForScope(hookRow[h].scope)]
    /\ UNCHANGED <<saving, wants, occurred, sending, hookLog, mailed, told>>

toggleWebhook(h) ==
    /\ There(h)
    /\ hookRow' = [hookRow EXCEPT ![h].enabled = ~@]
    /\ UNCHANGED <<saving, wants, occurred, sending, hookLog, mailed, told>>

\* The deliveries go with the hook (ON DELETE CASCADE).
deleteWebhook(h) ==
    /\ There(h)
    /\ hookRow' = [hookRow EXCEPT ![h] = Gone] /\ hookLog' = [hookLog EXCEPT ![h] = <<>>]
    /\ UNCHANGED <<saving, wants, occurred, sending, mailed, told>>

saveNotificationPreferences(p) ==
    /\ wants' \in {[wants EXCEPT ![p] = v] : v \in {"on", "off"}}
    /\ UNCHANGED <<hookRow, saving, occurred, sending, hookLog, mailed, told>>

----------------------------------------------------------------------------
(* notify and the fan-out. *)

\* orgManagers, instanceAdmins, applyPreferences with defaultEmailFor
Recipients(topic) ==
    LET asked == CASE topic = "job.failed" -> Admins
                   [] topic \in {"push", "test"} -> {}
                   [] OTHER -> Managers
    IN  {p \in asked : wants[p] = "on" \/ (wants[p] = "default" /\ topic # "scan.completed")}

\* notify: mail first (a mail that fails is logged and the others are sent).
notify(o) ==
    /\ occurred[o].at = "new"
    /\ \E t \in Topics :
           /\ occurred' = [occurred EXCEPT ![o] = [topic |-> t, at |-> "mailed"]]
           /\ mailed' = mailed \cup ({o} \X Recipients(t))
    /\ UNCHANGED <<hookRow, saving, wants, sending, hookLog, told>>

\* hooksForRepository, dispatchOrganizationWebhooks, subscribed; a test goes
\* to the one hook it is asked of, enabled or not, if that is still there.
Targets(topic) ==
    IF topic = "test" THEN {{h} : h \in {g \in Hooks : There(g)}} \cup {{}}
    ELSE {{h \in Hooks : /\ hookRow[h].enabled /\ topic \in hookRow[h].topics
                         /\ topic \in OrgTopics => hookRow[h].scope = "organization"}}

\* deliverAll starts one delivery for each, side by side.
deliverAll(o) ==
    /\ occurred[o].at = "mailed"
    /\ \E to \in Targets(occurred[o].topic) :
           sending' = [x \in DOMAIN sending |->
               IF x[1] = o /\ x[2] \in to THEN [Idle EXCEPT !.at = "try"] ELSE sending[x]]
    /\ occurred' = [occurred EXCEPT ![o].at = "out"]
    /\ UNCHANGED <<hookRow, saving, wants, hookLog, mailed, told>>

\* deliverWebhook, one attempt: an answer below 500 is the last word.
Attempt(o, h) ==
    LET d == sending[<<o, h>>]
    IN  /\ d.at = "try"
        /\ \E a \in Answers :
               sending' = [sending EXCEPT ![<<o, h>>] =
                   IF a = "error" /\ d.tries + 1 < MaxTries THEN [d EXCEPT !.tries = @ + 1]
                   ELSE [at |-> "log", tries |-> 0, ok |-> a = "2xx"]]
        /\ UNCHANGED <<hookRow, saving, wants, occurred, hookLog, mailed, told>>

\* The row of the delivery, which a deleted hook refuses (the error ends the
\* delivery).
Log(o, h) ==
    /\ sending[<<o, h>>].at = "log"
    /\ hookLog' = IF There(h) THEN [hookLog EXCEPT ![h] = Append(@, <<o, sending[<<o, h>>].ok>>)] ELSE hookLog
    /\ sending' = [sending EXCEPT ![<<o, h>>].at = IF There(h) THEN "prune" ELSE "done"]
    /\ UNCHANGED <<hookRow, saving, wants, occurred, mailed, told>>

\* All but the newest rows of the hook go.
Newest(s) == SubSeq(s, IF Len(s) > MaxLog THEN Len(s) - MaxLog + 1 ELSE 1, Len(s))
Newest_First(s) == SubSeq(s, 1, IF Len(s) > MaxLog THEN MaxLog ELSE Len(s))
Prune(o, h) ==
    /\ sending[<<o, h>>].at = "prune"
    /\ hookLog' = [hookLog EXCEPT ![h] = Newest(@)]
    /\ sending' = [sending EXCEPT ![<<o, h>>].at =
           IF sending[<<o, h>>].ok \/ occurred[o].topic = "test" THEN "done" ELSE "tell"]
    /\ UNCHANGED <<hookRow, saving, wants, occurred, mailed, told>>

\* notify "webhook.failed": mail only, and none for a hook that is gone.
TellFailure_Once(o, h) ==
    /\ sending[<<o, h>>].at = "tell"
    /\ told' = told \cup (IF \E x \in told : x[2] = h THEN {} ELSE {o} \X {h} \X Recipients("webhook.failed"))
    /\ sending' = [sending EXCEPT ![<<o, h>>].at = "done"]
    /\ UNCHANGED <<hookRow, saving, wants, occurred, hookLog, mailed>>
TellFailure(o, h) ==
    /\ sending[<<o, h>>].at = "tell"
    /\ told' = told \cup (IF There(h) THEN {o} \X {h} \X Recipients("webhook.failed") ELSE {})
    /\ sending' = [sending EXCEPT ![<<o, h>>].at = "done"]
    /\ UNCHANGED <<hookRow, saving, wants, occurred, hookLog, mailed>>

Deliver(o) ==
    \/ deliverAll(o)
    \/ \E h \in Hooks : Attempt(o, h) \/ Log(o, h) \/ Prune(o, h) \/ TellFailure(o, h)

HooksNext ==
    \/ \E h \in Hooks : validate(h) \/ webhookHandlers(h) \/ saveWebhook(h)
                         \/ toggleWebhook(h) \/ deleteWebhook(h)
    \/ \E p \in People : saveNotificationPreferences(p)
    \/ \E o \in Occurrences : notify(o) \/ Deliver(o)

\* A delivery goes on until it is done: every request has its timeout.
HooksFairness == \A o \in Occurrences : WF_hookVars(Deliver(o))
HooksSpec == HooksInit /\ [][HooksNext]_hookVars /\ HooksFairness

----------------------------------------------------------------------------

\* The log of a hook is the newest deliveries it had, whatever deliveries ran
\* side by side: a row is dropped only when MaxLog newer ones remain, and
\* between a row's insert and its prune the log exceeds MaxLog by the
\* deliveries that have still to prune.
LogKeepsNewest == [][
    \A h \in Hooks : There(h) /\ There(h)' =>
        /\ \E k \in 0..Len(hookLog[h]) :
               /\ k > 0 => Len(hookLog'[h]) >= MaxLog
               /\ IsPrefix(SubSeq(hookLog[h], k + 1, Len(hookLog[h])), hookLog'[h])
        /\ Len(hookLog'[h]) <= MaxLog + Cardinality({o \in Occurrences : sending'[<<o, h>>].at = "prune"})
    ]_hookVars

\* A delivery that fails for good is mailed to every manager who has not
\* switched that off, whatever else the hook is delivering and unless the hook
\* is deleted meanwhile.
FailuresAreTold ==
    \A o \in Occurrences, h \in Hooks :
        (sending[<<o, h>>].at = "log" /\ ~sending[<<o, h>>].ok /\ occurred[o].topic # "test")
            ~> \/ ~There(h)
               \/ \A p \in Managers : wants[p] = "off" \/ <<o, h, p>> \in told
====
