----------------------------- MODULE SiteEvents -----------------------------
(***************************************************************************)
(* What an event of a site sets off (events/bus.go): outgoing webhooks     *)
(* (webhooks/outgoing.go) and actions (actions/runner.go), and how the     *)
(* tools (tools/webhooks.go, tools/actions.go) and the owner               *)
(* (server/admin/sitewebhooks.go) change them meanwhile.  Each delivery    *)
(* and each action runs on a goroutine of its own; a step is one           *)
(* statement, or one call outside.                                         *)
(***************************************************************************)
EXTENDS Naturals, FiniteSets

CONSTANTS
    Hooks,          \* ids of webhooks, never used again (AUTOINCREMENT)
    MaxTries,       \* attempts of a delivery (3)
    MaxEvents,      \* events ever published: BOUND of the model
    MaxChanges,     \* changes of webhooks and actions: BOUND of the model
    MaxLosses       \* failed statements and crashes: BOUND of the model

ASSUME SiteEventsAssumption ==
    /\ MaxTries \in Nat \ {0}
    /\ MaxEvents \in Nat /\ MaxChanges \in Nat /\ MaxLosses \in Nat

Events == 1 .. MaxEvents
EventTypes == {"data", "auth", "received"}
ActionTypes == {"write", "webhook", "outside"}

VARIABLES
    hook,       \* each webhook
    action,     \* the site's action
    told,       \* events published so far
    delivery,   \* for each event and webhook, the delivery
    chore,      \* for each event, the execution of the action
    changes,    \* changes of webhooks and actions so far
    losses      \* failures so far

configVars == <<hook, action, changes>>
eventVars == <<told, delivery, chore>>
siteEventsVars == <<configVars, eventVars, losses>>

NoHook == [there |-> FALSE, used |-> FALSE, enabled |-> FALSE, out |-> FALSE, url |-> FALSE,
           subs |-> {}]
NewHook(out, url, types) ==
    [there |-> TRUE, used |-> TRUE, enabled |-> TRUE, out |-> out, url |-> url, subs |-> types]
NoAction == [there |-> FALSE, enabled |-> FALSE, on |-> "data", type |-> "outside"]
NoDelivery == [at |-> "none", tries |-> 0, taken |-> FALSE, won |-> FALSE, logs |-> 0]
NoChore == [at |-> "none", type |-> "outside", logs |-> 0]

\* With or without a webhook that is sent everything and an action on changes of data.
EventsInit ==
    /\ hook \in [Hooks -> {NoHook, NewHook(TRUE, TRUE, EventTypes)}]
    /\ action \in {NoAction, [there |-> TRUE, enabled |-> TRUE, on |-> "data", type |-> "write"]}
    /\ told = 0
    /\ delivery = [e \in Events |-> [w \in Hooks |-> NoDelivery]]
    /\ chore = [e \in Events |-> NoChore]
    /\ changes = 0 /\ losses = 0

Loses == losses < MaxLosses /\ losses' = losses + 1

-----------------------------------------------------------------------------
(* Events: Bus.Publish runs the handlers inline.  The dispatcher looks up  *)
(* the webhooks and the runner the actions as they are now, and each       *)
(* starts a goroutine for what it found.                                   *)

\* handleEvent of the dispatcher: a url is what makes a target, not the direction.
Targets(type) == {w \in Hooks : hook[w].there /\ hook[w].enabled /\ hook[w].url /\ type \in hook[w].subs}

\* handleEvent of the runner, with the filter of the action in its type of event.
Matches(type) == action.there /\ action.enabled /\ action.on = type

Publish(type) ==
    /\ told' = told + 1
    /\ delivery' = [delivery EXCEPT ![told + 1] =
                       [w \in Hooks |-> IF w \in Targets(type) THEN [NoDelivery EXCEPT !.at = "post"]
                                        ELSE NoDelivery]]
    /\ chore' = IF Matches(type) THEN [chore EXCEPT ![told + 1] = [NoChore EXCEPT !.at = "due", !.type = action.type]]
                ELSE chore

-----------------------------------------------------------------------------
(* deliver: at most three attempts, then one row in ho_webhook_logs        *)

Deliver(e, w, d) ==
    /\ delivery' = [delivery EXCEPT ![e][w] = d]
    /\ UNCHANGED <<configVars, told, chore>>

\* The receiver takes the event and answers 2xx; takes it and the answer is
\* lost or is something else; or is not reached.
Posts(e, w, failedIsLogged) ==
    /\ delivery[e][w].at = "post"
    /\ \E taken, answered \in BOOLEAN :
          /\ answered => taken
          /\ LET d == delivery[e][w]
                 n == d.tries + 1
             IN  Deliver(e, w, [d EXCEPT !.tries = n, !.won = answered,
                                         !.taken = d.taken \/ taken,
                                         !.logs = IF failedIsLogged /\ ~answered THEN d.logs + 1 ELSE d.logs,
                                         !.at = IF answered \/ n = MaxTries THEN "log" ELSE "post"])
    /\ UNCHANGED losses

\* Wrong on purpose: each failed attempt is logged.
AttemptLogged(e, w) == Posts(e, w, TRUE)
Attempt(e, w) == Posts(e, w, FALSE)

\* logDelivery: the row refers to the webhook, so there is none when it was deleted.
LogDelivery(e, w) ==
    /\ delivery[e][w].at = "log"
    /\ LET d == delivery[e][w] IN
       \/ /\ Deliver(e, w, [d EXCEPT !.at = "ended", !.logs = IF hook[w].there THEN d.logs + 1 ELSE d.logs])
          /\ UNCHANGED losses
       \/ Deliver(e, w, [d EXCEPT !.at = "lost"]) /\ Loses

-----------------------------------------------------------------------------
(* execute: an action that matched                                         *)

Executed(e, n) ==
    /\ chore[e].at = "due"
    /\ chore' = [chore EXCEPT ![e].at = "ended", ![e].logs = n]
    /\ UNCHANGED <<configVars, told, delivery>>

\* update_data, insert_data and run_sql change the table: no event, no invalidation.
ExecuteWrite(e) == chore[e].type = "write" /\ Executed(e, 0)

\* trigger_webhook: an outgoing webhook is looked up by its name, must be
\* enabled and have a url; it is posted to once, and a row logged whatever the answer.
ExecuteTriggerWebhook(e, w) ==
    /\ chore[e].type = "webhook" /\ Executed(e, 1)
    /\ hook[w].there /\ hook[w].out /\ hook[w].enabled /\ hook[w].url
    /\ UNCHANGED losses

\* send_email, http_request, ws_broadcast, enqueue_job, and whatever fails
\* before it has done anything: nothing of what is modelled here changes.
ExecuteOther(e) ==
    /\ chore[e].type # "write" /\ Executed(e, 0)
    /\ UNCHANGED losses

-----------------------------------------------------------------------------
(* The webhooks and the action, as the tools and the owner change them     *)

Reconfigures ==
    /\ changes < MaxChanges /\ changes' = changes + 1
    /\ UNCHANGED <<told, chore, losses>>

ChangeHook(w, h) ==
    /\ hook' = [hook EXCEPT ![w] = h]
    /\ Reconfigures /\ UNCHANGED action

\* create: a webhook with a url is an outgoing one.
CreateHook(w) ==
    /\ ~hook[w].used
    /\ \E url \in BOOLEAN : ChangeHook(w, NewHook(url, url, {}))
    /\ UNCHANGED delivery

\* The owner says which it is (only an outgoing one needs a url) and subscribes it at once.
AdminCreateHook(w) ==
    /\ ~hook[w].used
    /\ \E out, url \in BOOLEAN, types \in SUBSET EventTypes :
          (out => url) /\ ChangeHook(w, NewHook(out, url, types))
    /\ UNCHANGED delivery

SubscribeHook(w, type) ==
    /\ hook[w].there
    /\ ChangeHook(w, [hook[w] EXCEPT !.subs = @ \cup {type}])
    /\ UNCHANGED delivery

\* update: the direction stays as it is.
UpdateHook(w) ==
    /\ hook[w].there
    /\ \E on, url \in BOOLEAN : ChangeHook(w, [hook[w] EXCEPT !.enabled = on, !.url = url])
    /\ UNCHANGED delivery

AdminToggleHook(w) ==
    /\ hook[w].there /\ ChangeHook(w, [hook[w] EXCEPT !.enabled = ~@])
    /\ UNCHANGED delivery

\* The subscriptions and the rows of the log go with it (ON DELETE CASCADE).
RemoveHook(w) ==
    /\ hook[w].there /\ ChangeHook(w, [NoHook EXCEPT !.used = TRUE])
    /\ delivery' = [e \in Events |-> [delivery[e] EXCEPT ![w].logs = 0]]
DeleteHook(w) == RemoveHook(w)
AdminDeleteHook(w) == RemoveHook(w)

ChangeAction(a) ==
    /\ action' = a
    /\ Reconfigures /\ UNCHANGED <<hook, delivery>>

SomeAction(enabled) ==
    \E on \in EventTypes, type \in ActionTypes :
        ChangeAction([there |-> TRUE, enabled |-> enabled, on |-> on, type |-> type])

CreateAction == ~action.there /\ SomeAction(TRUE)
UpdateAction == action.there /\ \E enabled \in BOOLEAN : SomeAction(enabled)
DeleteAction == action.there /\ ChangeAction(NoAction)

-----------------------------------------------------------------------------
\* The process dies: the deliveries and the actions under way are gone.
EventsLost ==
    /\ Loses
    /\ delivery' = [e \in Events |-> [w \in Hooks |->
                       IF delivery[e][w].at \in {"post", "log"} THEN [delivery[e][w] EXCEPT !.at = "lost"]
                       ELSE delivery[e][w]]]
    /\ chore' = [e \in Events |-> IF chore[e].at = "due" THEN NoChore ELSE chore[e]]
    /\ UNCHANGED <<configVars, told>>

\* An event of any source.
Published(type) ==
    /\ told < MaxEvents /\ Publish(type)
    /\ UNCHANGED <<configVars, losses>>

AfterEvent(e) ==
    \/ \E w \in Hooks : Attempt(e, w) \/ LogDelivery(e, w) \/ ExecuteTriggerWebhook(e, w)
    \/ ExecuteOther(e)

Configures ==
    \/ \E w \in Hooks : \/ CreateHook(w) \/ AdminCreateHook(w) \/ UpdateHook(w)
                        \/ AdminToggleHook(w) \/ DeleteHook(w) \/ AdminDeleteHook(w)
                        \/ \E type \in EventTypes : SubscribeHook(w, type)
    \/ CreateAction \/ UpdateAction \/ DeleteAction

EventsNext ==
    \/ \E type \in EventTypes : Published(type)
    \/ \E e \in Events : AfterEvent(e) \/ (ExecuteWrite(e) /\ (UNCHANGED losses \/ Loses))
    \/ Configures
    \/ EventsLost

EventsSpec == EventsInit /\ [][EventsNext]_siteEventsVars

-----------------------------------------------------------------------------
\* Type correctness.
EventsTypeOK ==
    /\ \A w \in Hooks : hook[w].there => hook[w].used
    /\ told \in 0 .. MaxEvents
    /\ \A e \in Events : e > told => /\ chore[e] = NoChore
                                     /\ \A w \in Hooks : delivery[e][w] = NoDelivery
    /\ changes \in 0 .. MaxChanges /\ losses \in 0 .. MaxLosses

\* A delivery that has ended has made one row in the log, which tells whether it
\* was answered, and was not given up before the last attempt; the row is missing
\* only where the webhook has been deleted.  deliver and logDelivery of
\* webhooks/outgoing.go, trigger_webhook of the actions, and the cascade.
LoggedOnce ==
    \A e \in Events, w \in Hooks : LET d == delivery[e][w] IN
        d.at = "ended" => /\ d.logs = (IF hook[w].there THEN 1 ELSE 0)
                          /\ d.won => d.taken
                          /\ d.won \/ d.tries = MaxTries
=============================================================================
