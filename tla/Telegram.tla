------------------------------ MODULE Telegram ------------------------------
(***************************************************************************)
(* The bot (bot/service.go, telegram.go, store.go): a long poll for the    *)
(* updates of Telegram, the commands of the owner's chats, and what the    *)
(* bot tells them.  Telegram keeps an update until a later poll asks for   *)
(* the ones after it; the bot keeps its place, and what a chat is in the   *)
(* middle of, in memory only.                                              *)
(*                                                                         *)
(* The handler of an update runs in the poller's goroutine and is one      *)
(* step, but for the creation of a project, which a crash can cut short.   *)
(***************************************************************************)
EXTENDS Naturals, Sequences, FiniteSets

CONSTANTS
    Chats,          \* the chats of the owner
    Pollers,        \* goroutines that poll: ReloadTelegram can start a second one
    NoSite,         \* no project is selected
    MaxUpdates,     \* updates ever sent to the bot: BOUND of the model
    MaxBotFaults    \* crashes, failed creations and changes of the setting: BOUND of the model

ASSUME TelegramAssumption ==
    MaxUpdates \in Nat /\ MaxBotFaults \in Nat /\ NoSite \notin 1 .. MaxUpdates + 1

Updates == 1 .. MaxUpdates
\* A redelivered update can create a project again.
Projects == 1 .. MaxUpdates + 1

\* An order is /pause, /resume, /mode, /wake or /update: they differ in the command sent.
\* A report is /status, /logs, /cost, /projects or /cancel.
UpdateKinds == {"new", "newNamed", "mute", "unmute", "report", "order", "stop", "text", "pick", "answer",
          "stranger"}
Polls == {"off", "born", "poll", "batch", "database", "publish"}

VARIABLES
    up,             \* the process runs, and main has started the bot
    token,          \* the setting telegram_bot_token is there
    provider,       \* the pollers that Stop would end: the registered provider
    listening,      \* Start subscribed to the events of the bus
    poller,         \* what each goroutine does, its offset, the updates it has got, the project
    reload,         \* a ReloadTelegram under way in each goroutine: what it read
    update,         \* the updates sent so far: from which chat, of which kind; then forgotten
    confirmed,      \* Telegram: the last update it was told to forget
    handled,        \* ghost: how often each update was handled
    user,           \* UserState of each chat: project, muted, awaiting a description
    session,        \* bot_sessions: project and muted
    project,        \* each project: a row, a database
    works,          \* the projects with a worker
    telling,        \* the bot's lock is held while the chats are told something
    botFaults,      \* failures and changes of the setting so far
    upset           \* ghost: a crash, two pollers at once, or a poller stopped before its next poll

userVars == <<user, session, telling>>
siteVars == <<project, works>>
pollVars == <<provider, listening, poller, reload>>
cloudVars == <<update, confirmed, handled>>
telegramVars == <<up, token, pollVars, cloudVars, userVars, siteVars, botFaults, upset>>

NoUser == [on |-> NoSite, muted |-> FALSE, awaits |-> FALSE]
NoSession == [on |-> NoSite, muted |-> FALSE]
NoProject == [row |-> FALSE, db |-> FALSE]
Off == [at |-> "off", offset |-> 1, batch |-> <<>>, site |-> NoSite, stop |-> FALSE]

TelegramInit ==
    /\ up = FALSE /\ token \in BOOLEAN
    /\ provider = {} /\ listening = FALSE
    /\ poller = [p \in Pollers |-> Off] /\ reload = [p \in Pollers |-> "none"]
    /\ update = <<>> /\ confirmed = 0 /\ handled = [u \in Updates |-> 0]
    /\ user = [h \in Chats |-> NoUser] /\ session = [h \in Chats |-> NoSession]
    /\ project = [s \in Projects |-> NoProject]
    /\ works = {} /\ telling = FALSE
    /\ botFaults = 0 /\ upset = FALSE

Forgotten == [chat |-> NoSite, kind |-> "forgotten", site |-> NoSite]

BotFails == botFaults < MaxBotFaults /\ botFaults' = botFaults + 1

Running == {p \in Pollers : poller[p].at # "off"}
Sent == DOMAIN update
Chat(u) == update[u].chat
Holds(p, u) == \E i \in DOMAIN poller[p].batch : poller[p].batch[i] = u
Doing(p) == Head(poller[p].batch)   \* the update a poller handles

-----------------------------------------------------------------------------
(* Starting and stopping *)

\* main: AutoStart starts the workers, the sessions are loaded, the provider is registered
\* when there is a token, and Start subscribes only when there is a provider.
BotStarts ==
    /\ ~up /\ up' = TRUE
    /\ user' = [h \in Chats |-> [on |-> session[h].on, muted |-> session[h].muted, awaits |-> FALSE]]
    /\ IF token THEN \E p \in Pollers :
                         /\ provider' = {p} /\ listening' = TRUE
                         /\ poller' = [poller EXCEPT ![p] = [Off EXCEPT !.at = "born"]]
                ELSE UNCHANGED <<provider, listening, poller>>
    /\ works' = {s \in Projects : project[s].row /\ project[s].db}
    /\ UNCHANGED <<token, reload, cloudVars, session, telling, project, botFaults, upset>>

\* The process dies.
BotCrashes ==
    /\ up /\ BotFails /\ up' = FALSE
    /\ provider' = {} /\ listening' = FALSE
    /\ poller' = [p \in Pollers |-> Off] /\ reload' = [p \in Pollers |-> "none"]
    /\ works' = {} /\ telling' = FALSE
    /\ upset' = TRUE
    /\ UNCHANGED <<token, cloudVars, user, session, project>>

\* The owner saves the settings: the event runs ReloadTelegram in the goroutine of the request.
SettingSaved(p) ==
    /\ up /\ reload[p] = "none" /\ poller[p].at = "off"
    /\ token' \in BOOLEAN /\ BotFails
    /\ reload' = [reload EXCEPT ![p] = "read"]
    /\ UNCHANGED <<up, provider, listening, poller, cloudVars, userVars, siteVars, upset>>

\* The setting and the provider are read before either is acted upon.
ReloadReads(p) ==
    /\ reload[p] = "read"
    /\ reload' = [reload EXCEPT ![p] = IF ~token /\ provider # {} THEN "stop"
                                       ELSE IF token /\ provider = {} THEN "start" ELSE "none"]
    /\ UNCHANGED <<up, token, provider, listening, poller, cloudVars, userVars, siteVars, botFaults, upset>>

\* Stop cancels the poll; updates that were fetched are handled first.  A poller that has
\* not begun has nothing to cancel yet, and polls on without being registered.
ReloadStops(p) ==
    /\ reload[p] = "stop"
    /\ provider' = {}
    /\ poller' = [q \in Pollers |-> IF q \notin provider \/ poller[q].at = "born" THEN poller[q]
                                   ELSE IF poller[q].at = "poll" THEN Off
                                   ELSE [poller[q] EXCEPT !.stop = TRUE]]
    /\ reload' = [reload EXCEPT ![p] = "none"]
    /\ upset' = (upset \/ \E q \in provider : poller[q].batch # <<>> \/ poller[q].offset > confirmed + 1)
    /\ UNCHANGED <<up, token, listening, cloudVars, userVars, siteVars, botFaults>>

\* A new provider takes the name, also when another took it meanwhile: that one polls on.
\* Nobody subscribes to the events here.
ReloadStarts(p) ==
    /\ reload[p] = "start" /\ poller[p].at = "off"
    /\ provider' = {p}
    /\ poller' = [poller EXCEPT ![p] = [Off EXCEPT !.at = "born"]]
    /\ upset' = (upset \/ Running # {})
    /\ reload' = [reload EXCEPT ![p] = "none"]
    /\ UNCHANGED <<up, token, listening, cloudVars, userVars, siteVars, botFaults>>

PollerBegins(p) ==
    /\ poller[p].at = "born" /\ poller' = [poller EXCEPT ![p].at = "poll"]
    /\ UNCHANGED <<up, token, provider, listening, reload, cloudVars, userVars, siteVars, botFaults, upset>>

-----------------------------------------------------------------------------
(* Updates: getUpdates confirms what came before the offset and returns    *)
(* the rest.  One that fails is tried again three seconds later.           *)

Arrives(h, kind, s) ==
    /\ Len(update) < MaxUpdates
    /\ update' = Append(update, [chat |-> h, kind |-> kind, site |-> s])
    /\ UNCHANGED <<up, token, pollVars, confirmed, handled, userVars, siteVars, botFaults, upset>>

\* The answer may be lost: the updates are confirmed all the same.
Poll(p) ==
    /\ poller[p].at = "poll"
    /\ confirmed' = IF poller[p].offset - 1 > confirmed THEN poller[p].offset - 1 ELSE confirmed
    /\ update' = [u \in Sent |-> IF u <= confirmed' /\ \A q \in Pollers : ~Holds(q, u)
                                 THEN Forgotten ELSE update[u]]
    /\ LET rest == [i \in 1 .. Len(update) - confirmed' |-> confirmed' + i] IN
          \/ UNCHANGED poller
          \/ rest # <<>> /\ poller' = [poller EXCEPT ![p].at = "batch", ![p].batch = rest]
    /\ UNCHANGED <<up, token, provider, listening, reload, handled, userVars, siteVars, botFaults, upset>>

\* Wrong on purpose: the poller polls again after the first update it has got.
RestLeft(b) == [b EXCEPT !.batch = Tail(b.batch), !.site = NoSite, !.at = IF b.stop THEN "off" ELSE "poll"]

Rest(b) == [b EXCEPT !.batch = Tail(b.batch), !.site = NoSite,
                     !.at = IF Tail(b.batch) # <<>> THEN "batch" ELSE IF b.stop THEN "off" ELSE "poll"]

\* Wrong on purpose: the offset is the last update, which Telegram then sends again.
MovedTo(p) == [poller[p] EXCEPT !.offset = Doing(p)]

\* The offset moves before the handler runs.
Moved(p) == [poller[p] EXCEPT !.offset = Doing(p) + 1]

\* getOrCreateUser takes the lock for writing.
Takes(p) ==
    /\ poller[p].at = "batch" /\ ~telling
    /\ handled' = [handled EXCEPT ![Doing(p)] = IF @ = 2 THEN 2 ELSE @ + 1]
    /\ UNCHANGED <<up, token, provider, listening, reload, update, confirmed, botFaults, upset>>

Finishes(p) == Takes(p) /\ poller' = [poller EXCEPT ![p] = Rest(Moved(p))]

Asked(p) == update[Doing(p)]
Awaited(p) == user[Asked(p).chat].awaits
\* isAllowed, and for a message the description that the chat was asked for.
Is(p, kinds) == poller[p].at = "batch" /\ Asked(p).kind \in kinds
Command(p, kinds) == Is(p, kinds) /\ ~Awaited(p)
On(p) == user[Asked(p).chat].on

-----------------------------------------------------------------------------
(* Commands.  A message that comes while a description is awaited is the   *)
(* description, whatever it says.                                          *)

\* Not on the list of users: nothing changes.
RefusesStranger(p) ==
    /\ Is(p, {"stranger"}) /\ Finishes(p)
    /\ UNCHANGED <<userVars, siteVars>>

\* status, logs and cost, the list of projects, and a cancel with nothing to cancel.
Reports(p) ==
    /\ Command(p, {"report"}) /\ Finishes(p)
    /\ UNCHANGED <<userVars, siteVars>>

\* SaveSession writes the whole state; that it can fail unnoticed is left out.
Saves(h, st) ==
    /\ user' = [user EXCEPT ![h] = st]
    /\ session' = [session EXCEPT ![h] = [on |-> st.on, muted |-> st.muted]]

CmdMute(p) ==
    /\ Command(p, {"mute", "unmute"}) /\ Finishes(p)
    /\ Saves(Asked(p).chat, [user[Asked(p).chat] EXCEPT !.muted = (Asked(p).kind = "mute")])
    /\ UNCHANGED <<telling, siteVars>>

CmdNew(p) ==
    /\ Command(p, {"new"}) /\ Finishes(p)
    /\ user' = [user EXCEPT ![Asked(p).chat].awaits = TRUE]
    /\ UNCHANGED <<session, telling, siteVars>>

\* SendCommand: what the worker does with it is modelled with the worker (Pipeline).
CmdOrder(p) ==
    /\ Command(p, {"order"}) /\ Finishes(p)
    /\ UNCHANGED <<userVars, siteVars>>

CmdStop(p) ==
    /\ Command(p, {"stop"}) /\ Finishes(p)
    /\ works' = works \ {On(p)}
    /\ UNCHANGED <<userVars, project>>

\* handleChat starts the worker when there is none, and sends it the text.
HandleChat(p) ==
    /\ Command(p, {"text"}) /\ Finishes(p)
    /\ works' = IF On(p) \in Projects /\ project[On(p)].db THEN works \cup {On(p)} ELSE works
    /\ UNCHANGED <<userVars, project>>

\* switchSite, from a button.
PickSite(p) ==
    /\ Is(p, {"pick"}) /\ Finishes(p)
    /\ Saves(Asked(p).chat, [user[Asked(p).chat] EXCEPT !.on = Asked(p).site])
    /\ UNCHANGED <<telling, siteVars>>

\* A button of a question carries its id and not the option: HandleCallback finds two
\* parts where an answer has three.
PressAnswer(p) ==
    /\ Is(p, {"answer"}) /\ Finishes(p)
    /\ UNCHANGED <<userVars, siteVars>>

\* createSite, in the order of its calls: the row, the database, the event that starts the
\* worker, the session.
CreateRow(p) ==
    /\ \/ Command(p, {"newNamed"})
       \/ poller[p].at = "batch" /\ Awaited(p) /\ Asked(p).kind \notin {"pick", "answer", "stranger"}
    /\ user' = [user EXCEPT ![Asked(p).chat].awaits = FALSE]
    /\ \/ \E s \in Projects :
             /\ ~project[s].row /\ \A q \in 1 .. s - 1 : project[q].row \/ project[q].db
             /\ project' = [project EXCEPT ![s].row = TRUE]
             /\ Takes(p)
             /\ poller' = [poller EXCEPT ![p] = [Moved(p) EXCEPT !.at = "database", !.site = s]]
       \/ Finishes(p) /\ UNCHANGED project
    /\ UNCHANGED <<session, telling, works>>

CreateDatabase(p) ==
    /\ poller[p].at = "database"
    /\ \/ /\ project' = [project EXCEPT ![poller[p].site].db = TRUE]
          /\ poller' = [poller EXCEPT ![p].at = "publish"] /\ UNCHANGED botFaults
       \/ /\ BotFails
          /\ project' = [project EXCEPT ![poller[p].site].row = FALSE]
          /\ poller' = [poller EXCEPT ![p] = Rest(poller[p])]
    /\ UNCHANGED <<up, token, provider, listening, reload, cloudVars, userVars, works, upset>>

CreatePublishes(p) ==
    /\ poller[p].at = "publish"
    /\ LET s == poller[p].site IN
          /\ works' = works \cup {s}
          /\ Saves(Asked(p).chat, [user[Asked(p).chat] EXCEPT !.on = s])
    /\ poller' = [poller EXCEPT ![p] = Rest(poller[p])]
    /\ UNCHANGED <<up, token, provider, listening, reload, cloudVars, telling, project,
                   botFaults, upset>>

-----------------------------------------------------------------------------
(* What the chats are told, by the handlers of the bus: the lock is held   *)
(* for reading while Telegram is called for each chat.                     *)

Tells(s, chats) ==
    /\ up /\ listening /\ provider # {} /\ s \in works /\ ~telling
    /\ telling' = (\E h \in chats : user[h].on = s)
    /\ UNCHANGED <<up, token, pollVars, cloudVars, user, session, siteVars, botFaults, upset>>

BroadcastToSiteUsers(s) == Tells(s, Chats)
OnQuestionAsked(s) == Tells(s, Chats)
BroadcastNotification(s) == Tells(s, {h \in Chats : ~user[h].muted})

TellingEnds ==
    /\ telling /\ telling' = FALSE
    /\ UNCHANGED <<up, token, pollVars, cloudVars, user, session, siteVars, botFaults, upset>>

-----------------------------------------------------------------------------

HandlesOne(p) ==
    \/ RefusesStranger(p) \/ Reports(p) \/ CmdMute(p) \/ CmdNew(p) \/ CmdOrder(p) \/ CmdStop(p)
    \/ HandleChat(p) \/ PickSite(p) \/ PressAnswer(p) \/ CreateRow(p)

TelegramNext ==
    \/ BotStarts \/ BotCrashes \/ TellingEnds
    \/ \E h \in Chats, kind \in UpdateKinds :
          \E s \in IF kind = "pick" THEN {q \in Projects : project[q].row} ELSE {NoSite} :
              Arrives(h, kind, s)
    \/ \E p \in Pollers :
          \/ SettingSaved(p) \/ ReloadReads(p) \/ ReloadStops(p) \/ ReloadStarts(p)
          \/ PollerBegins(p) \/ Poll(p) \/ HandlesOne(p)
          \/ CreateDatabase(p) \/ CreatePublishes(p)
    \/ \E s \in Projects :
          BroadcastToSiteUsers(s) \/ OnQuestionAsked(s) \/ BroadcastNotification(s)

TelegramSpec == TelegramInit /\ [][TelegramNext]_telegramVars

-----------------------------------------------------------------------------
(* Properties *)

\* Every variable keeps its type.
TelegramTypeOK ==
    /\ up \in BOOLEAN /\ token \in BOOLEAN /\ listening \in BOOLEAN /\ upset \in BOOLEAN
    /\ provider \subseteq Pollers /\ Cardinality(provider) <= 1
    /\ \A p \in Pollers :
          /\ poller[p].at \in Polls /\ poller[p].stop \in BOOLEAN
          /\ poller[p].offset \in 1 .. MaxUpdates + 1 /\ poller[p].batch \in Seq(Updates)
          /\ poller[p].site \in Projects \cup {NoSite}
          /\ poller[p].at \in {"batch", "database", "publish"} <=> poller[p].batch # <<>>
    /\ reload \in [Pollers -> {"none", "read", "stop", "start"}]
    /\ Len(update) <= MaxUpdates /\ confirmed \in 0 .. Len(update)
    /\ handled \in [Updates -> 0 .. 2]
    /\ user \in [Chats -> [on : Projects \cup {NoSite}, muted : BOOLEAN, awaits : BOOLEAN]]
    /\ session \in [Chats -> [on : Projects \cup {NoSite}, muted : BOOLEAN]]
    /\ project \in [Projects -> [row : BOOLEAN, db : BOOLEAN]]
    /\ works \subseteq Projects /\ telling \in BOOLEAN
    /\ botFaults \in 0 .. MaxBotFaults

\* The owner's messages are not lost and not taken twice: Telegram is told to
\* forget an update only when its handler has run, whatever polls fail and
\* whenever the token is taken away and given again; and a handler runs twice
\* only when the process died, or its poll was stopped, before the poll after it, or two
\* polls went on at the same time.
UpdatesHandled ==
    \A u \in Updates :
        /\ u <= confirmed => handled[u] > 0
        /\ handled[u] > 1 => upset

=============================================================================
