------------------------------ MODULE PublicApi ------------------------------
(***************************************************************************)
(* The public API of a site: one table behind an endpoint with a cache     *)
(* (server/public/handler.go and cache.go), its accounts (auth.go), its    *)
(* uploads and its incoming webhooks (webhooks.go), together with what the *)
(* events they publish set off (SiteEvents).                               *)
(*                                                                         *)
(* Requests run at the same time, each on a goroutine.  A step is one      *)
(* statement or one call outside.  The contents of the table are known by  *)
(* the number of changes made to it; only what rows there are is kept.     *)
(***************************************************************************)
EXTENDS SiteEvents

CONSTANTS
    Requests,       \* requests that can be under way at the same time
    Ids,            \* ids of rows
    List,           \* the key of the list of all rows
    Accounts,       \* user names
    MaxRequests     \* requests ever made: BOUND of the model

\* A request publishes at most one event.
ASSUME PublicApiAssumption ==
    /\ List \notin Ids
    /\ MaxRequests \in Nat /\ MaxRequests <= MaxEvents

Keys == Ids \cup {List}
Uploads == 1 .. MaxRequests

VARIABLES
    live,       \* the rows of the table
    tip,        \* how many changes were made to it
    cache,      \* for each key cached, the number of the change that its answer was made after
    promised,   \* ghost: the newest change whose request has invalidated the cache
    crossed,    \* ghost: keys filled by a read that an invalidation overtook
    unique,     \* the column of the user names has a UNIQUE index
    users,      \* rows for each user name
    twins,      \* ghost: names that two requests looked up before either inserted, or one could not
    files, fileRows,    \* uploads on disk and in ho_files
    request,    \* what each request is doing
    made        \* requests made so far: names uploads too

tableVars == <<live, tip, cache, promised, crossed>>
userVars == <<unique, users, twins>>
fileVars == <<files, fileRows>>
requestVars == <<tableVars, userVars, fileVars, request, made>>
apiVars == <<requestVars, siteEventsVars>>

NoEntry == {}

\* on is a key of the cache or a user name; wrote the change or the upload made.
Free == [do |-> "nothing", at |-> "end", on |-> List, seen |-> 0, wrote |-> 0, late |-> FALSE]

ApiInit ==
    /\ EventsInit
    /\ live \in SUBSET Ids /\ tip = 0
    /\ cache = [k \in Keys |-> NoEntry]
    /\ promised = 0 /\ crossed = {}
    /\ unique \in BOOLEAN
    /\ users = [n \in Accounts |-> 0] /\ twins = {}
    /\ files = {} /\ fileRows = {}
    /\ request = [r \in Requests |-> Free] /\ made = 0

-----------------------------------------------------------------------------
(* Requests.  DynamicAPI finds the endpoint and checks the caller: a       *)
(* request that is refused, and one that changes nothing, is left out.     *)

Arrives(r, j) ==
    /\ request[r] = Free /\ made < MaxRequests
    /\ made' = made + 1
    /\ request' = [request EXCEPT ![r] = j]

Doing(r, what, at) == request[r].do = what /\ request[r].at = at
Goes(r, at) == request' = [request EXCEPT ![r].at = at]
Ends(r) == request' = [request EXCEPT ![r] = Free]

-----------------------------------------------------------------------------
(* GET, for an endpoint with a cache_ttl                                   *)

\* get: a hit is answered at once; an expired entry is a miss.
CacheMiss(r, k) ==
    /\ cache[k] = NoEntry
    /\ Arrives(r, [Free EXCEPT !.do = "get", !.at = "read", !.on = k])
    /\ UNCHANGED <<tableVars, userVars, fileVars, configVars, eventVars, losses>>

\* apiList and apiGetOne: a row that is not there is a 404, which is not cached.
ApiRead(r) ==
    /\ Doing(r, "get", "read")
    /\ IF request[r].on \in live \cup {List}
       THEN request' = [request EXCEPT ![r].at = "fill", ![r].seen = tip]
       ELSE Ends(r)
    /\ UNCHANGED <<tableVars, userVars, fileVars, configVars, eventVars, made, losses>>

CacheSet(r) ==
    /\ Doing(r, "get", "fill")
    /\ LET k == request[r].on IN
          /\ cache' = [cache EXCEPT ![k] = {request[r].seen}]
          /\ crossed' = IF request[r].late THEN crossed \cup {k} ELSE crossed \ {k}
    /\ Ends(r)
    /\ UNCHANGED <<live, tip, promised, userVars, fileVars, configVars, eventVars, made, losses>>

\* An entry expires, and evict removes it.
CacheExpires(k) ==
    /\ cache[k] # NoEntry
    /\ cache' = [cache EXCEPT ![k] = NoEntry]
    /\ UNCHANGED <<live, tip, promised, crossed, userVars, fileVars, configVars, eventVars,
                   request, made, losses>>

-----------------------------------------------------------------------------
(* POST, PUT and DELETE: the statement, its event, the invalidation        *)

Writes(r, at, change) ==
    Arrives(r, [Free EXCEPT !.do = "write", !.at = at, !.wrote = change])

\* The statement is refused: no event, but DynamicAPI invalidates all the same.
WriteRefused(r) ==
    /\ Loses /\ Writes(r, "invalidate", 0)
    /\ UNCHANGED <<tableVars, userVars, fileVars, configVars, eventVars>>

Changed == tip' = tip + 1 /\ UNCHANGED <<cache, promised, crossed>>

ApiInsert(r, i) ==
    /\ i \notin live
    /\ live' = live \cup {i} /\ Changed
    /\ Writes(r, "publish", tip + 1)
    /\ UNCHANGED <<userVars, fileVars, configVars, eventVars, losses>>

\* No row affected: a 404 without an event.
ApiUpdate(r, i) ==
    /\ IF i \in live THEN Changed /\ Writes(r, "publish", tip + 1)
                     ELSE UNCHANGED <<tip, cache, promised, crossed>> /\ Writes(r, "invalidate", 0)
    /\ UNCHANGED <<live, userVars, fileVars, configVars, eventVars, losses>>

ApiDelete(r, i) ==
    /\ i \in live
    /\ live' = live \ {i} /\ Changed
    /\ Writes(r, "publish", tip + 1)
    /\ UNCHANGED <<userVars, fileVars, configVars, eventVars, losses>>

\* A read under way is overtaken: what it has read may be older than the change.
Overtaken(r) ==
    [o \in Requests |-> IF o = r THEN Free
                        ELSE IF Doing(o, "get", "fill") THEN [request[o] EXCEPT !.late = TRUE]
                        ELSE request[o]]

Forget(r, keys) ==
    /\ Doing(r, "write", "invalidate")
    /\ cache' = [k \in Keys |-> IF k \in keys THEN NoEntry ELSE cache[k]]
    /\ crossed' = crossed \ keys
    /\ promised' = IF request[r].wrote > promised THEN request[r].wrote ELSE promised
    /\ request' = Overtaken(r)
    /\ UNCHANGED <<live, tip, userVars, fileVars, configVars, eventVars, made, losses>>

\* Wrong on purpose: the answers for single rows are forgotten, the list is not.
InvalidateRows(r) == Forget(r, Ids)

\* Every entry whose key begins with the site and the table.
InvalidateTable(r) == Forget(r, Keys)

-----------------------------------------------------------------------------
(* Events                                                                  *)

\* A write goes on to the invalidation, the other requests end.
PublishesData(r) ==
    /\ Doing(r, "write", "publish") /\ Publish("data")
    /\ Goes(r, "invalidate")
    /\ UNCHANGED <<tableVars, userVars, fileVars, configVars, made, losses>>

PublishesOther(r) ==
    /\ \/ Doing(r, "account", "publish") /\ Publish("auth")
       \/ Doing(r, "receive", "publish") /\ Publish("received")
    /\ Ends(r)
    /\ UNCHANGED <<tableVars, userVars, fileVars, configVars, made, losses>>

-----------------------------------------------------------------------------
(* What an event sets off (SiteEvents)                                     *)

\* An action changes the table behind the cache's back, unless it fails.
ActionWrites(e) ==
    /\ ExecuteWrite(e)
    /\ \/ live # {} /\ Changed /\ UNCHANGED losses
       \/ live = {} /\ UNCHANGED <<tip, cache, promised, crossed, losses>>
       \/ Loses /\ UNCHANGED <<tip, cache, promised, crossed>>
    /\ UNCHANGED <<live, userVars, fileVars, request, made>>

-----------------------------------------------------------------------------
(* IncomingWebhook                                                         *)

\* Looked up by name, enabled, the signature good: last_triggered is set.
IncomingWebhook(r, w) ==
    /\ hook[w].there /\ hook[w].enabled
    /\ Arrives(r, [Free EXCEPT !.do = "receive", !.at = "publish"])
    /\ UNCHANGED <<tableVars, userVars, fileVars, configVars, eventVars, losses>>

-----------------------------------------------------------------------------
(* Accounts                                                                *)

Account(r, at, n) == Arrives(r, [Free EXCEPT !.do = "account", !.at = at, !.on = n])

\* Wrong on purpose: the name is not looked up.
RegisterBlind(r, n) ==
    /\ Account(r, "insert", n)
    /\ UNCHANGED <<tableVars, userVars, fileVars, configVars, eventVars, losses>>

\* authRegister looks the name up before it hashes the password; any error of the look-up,
\* not only that there is no such row, is a free name to it.
AuthRegister(r, n) ==
    /\ Account(r, "insert", n)
    /\ \/ users[n] = 0 /\ UNCHANGED <<twins, losses>>
       \/ Loses /\ twins' = IF users[n] > 0 THEN twins \cup {n} ELSE twins
    /\ UNCHANGED <<tableVars, unique, users, fileVars, configVars, eventVars>>

\* oauthCallback looks it up after the provider has named the user, and ends on an error.
OAuthCallback(r, n) ==
    /\ users[n] = 0 /\ Account(r, "link", n)
    /\ UNCHANGED <<tableVars, userVars, fileVars, configVars, eventVars, losses>>

\* INSERT: refused for a second row of the name only where there is a UNIQUE index.
InsertUser(r, at, next) ==
    /\ Doing(r, "account", at)
    /\ LET n == request[r].on IN
          IF unique /\ users[n] > 0 THEN Ends(r) /\ UNCHANGED userVars
          ELSE /\ users' = [users EXCEPT ![n] = @ + 1]
               /\ twins' = twins \cup {request[o].on : o \in {p \in Requests \ {r} :
                               request[p].do = "account" /\ request[p].at \in {"insert", "link"}}}
               /\ IF next = "end" THEN Ends(r) ELSE Goes(r, next)
               /\ UNCHANGED unique
    /\ UNCHANGED <<tableVars, fileVars, configVars, eventVars, made, losses>>

RegisterInsert(r) == InsertUser(r, "insert", "publish")

\* A user who came by OAuth is not announced.
OAuthInsert(r) == InsertUser(r, "link", "end")

\* authLogin finds the user and announces the login.
AuthLogin(r, n) ==
    /\ users[n] > 0 /\ Account(r, "publish", n)
    /\ UNCHANGED <<tableVars, userVars, fileVars, configVars, eventVars, losses>>

-----------------------------------------------------------------------------
(* apiUpload: a file with a name of its own, its row, a row in a linked    *)
(* table (which no event tells of and no cache is invalidated for)         *)

UploadFile(r) ==
    /\ Arrives(r, [Free EXCEPT !.do = "upload", !.at = "row", !.wrote = made + 1])
    /\ files' = files \cup {made + 1}
    /\ UNCHANGED <<tableVars, userVars, fileRows, configVars, eventVars, losses>>

\* The file is removed when its row cannot be written.
UploadRow(r) ==
    /\ Doing(r, "upload", "row")
    /\ LET u == request[r].wrote IN
          \/ fileRows' = fileRows \cup {u} /\ Goes(r, "link") /\ UNCHANGED <<files, losses>>
          \/ Loses /\ files' = files \ {u} /\ Ends(r) /\ UNCHANGED fileRows
    /\ UNCHANGED <<tableVars, userVars, configVars, eventVars, made>>

\* A row that cannot be inserted is only warned of; an endpoint may have no table.
UploadLink(r) ==
    /\ Doing(r, "upload", "link")
    /\ Ends(r)
    /\ \/ \E i \in Ids \ live : live' = live \cup {i} /\ Changed
       \/ UNCHANGED <<live, tip, cache, promised, crossed>>
    /\ UNCHANGED <<userVars, fileVars, configVars, eventVars, made, losses>>

-----------------------------------------------------------------------------
\* The process dies: the cache, the requests, the deliveries and the actions are gone.
ApiCrash ==
    /\ EventsLost
    /\ cache' = [k \in Keys |-> NoEntry] /\ crossed' = {}
    /\ request' = [r \in Requests |-> Free]
    /\ UNCHANGED <<live, tip, promised, userVars, fileVars, made>>

RequestStep(r) ==
    \/ \E k \in Keys : CacheMiss(r, k)
    \/ ApiRead(r) \/ CacheSet(r)
    \/ WriteRefused(r) \/ \E i \in Ids : ApiInsert(r, i) \/ ApiUpdate(r, i) \/ ApiDelete(r, i)
    \/ PublishesData(r) \/ PublishesOther(r) \/ InvalidateTable(r)
    \/ \E w \in Hooks : IncomingWebhook(r, w)
    \/ \E n \in Accounts : AuthRegister(r, n) \/ OAuthCallback(r, n) \/ AuthLogin(r, n)
    \/ RegisterInsert(r) \/ OAuthInsert(r)
    \/ UploadFile(r) \/ UploadRow(r) \/ UploadLink(r)

ApiNext ==
    \/ \E r \in Requests : RequestStep(r)
    \/ \E k \in Keys : CacheExpires(k)
    \/ \E e \in Events : ActionWrites(e) \/ (AfterEvent(e) /\ UNCHANGED requestVars)
    \/ (Configures /\ UNCHANGED requestVars)
    \/ ApiCrash

ApiSpec == ApiInit /\ [][ApiNext]_apiVars

-----------------------------------------------------------------------------
\* Type correctness.
ApiTypeOK ==
    /\ EventsTypeOK
    /\ live \subseteq Ids /\ tip \in Nat /\ promised \in 0 .. tip
    /\ \A k \in Keys : cache[k] \subseteq 0 .. tip
    /\ crossed \subseteq Keys
    /\ unique \in BOOLEAN /\ users \in [Accounts -> Nat] /\ twins \subseteq Accounts
    /\ fileRows \subseteq files /\ files \subseteq Uploads
    /\ made \in 0 .. MaxRequests

\* When the request that made a change has ended, no cached answer is older than
\* the change, unless a read that was under way when the cache was invalidated
\* put it there afterwards (cache.go:65 speaks of no exception: "Called on
\* POST/PUT/DELETE to ensure stale data isn't served.").  The changes meant are those of
\* the table's own endpoint; an upload, which is a POST too, an action and the tools change
\* the table and never invalidate, so nothing is promised of their changes.
FreshUnlessOvertaken ==
    \A k \in Keys : (\E n \in cache[k] : n < promised) => k \in crossed

\* Registrations and OAuth sign-ins give a name two accounts only on a table without a
\* UNIQUE index, and only if two of them had both found it free before one inserted it, or
\* a registration's look-up failed when there was an account (authRegister, oauthCallback).
TwinsOnlyIfRaced == \A n \in Accounts : users[n] > 1 => n \in twins /\ ~unique
=============================================================================
