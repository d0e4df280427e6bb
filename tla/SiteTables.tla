----------------------------- MODULE SiteTables -----------------------------
(***************************************************************************)
(* The tables of a site and the endpoints on them: the physical tables,    *)
(* the registry ho_dynamic_tables with its secure columns, the API, auth,  *)
(* OAuth, upload, stream, WebSocket and LLM endpoints, the approvals that  *)
(* guard what cannot be undone, and the ways rows are written.             *)
(* tools/tables.go, tools/endpoints.go, tools/approval.go, and the admin   *)
(* API's server/admin/sitetables*.go and siteendpoints.go.                 *)
(*                                                                         *)
(* Calls run at the same time (tools of one answer, chat sessions, ticks,  *)
(* the owner), and only bulk writes use a transaction: a step here is one  *)
(* statement, but for the reads that a call begins with, which are one.    *)
(* A call that ends without having changed anything is left out.  A table  *)
(* may have been dropped before, with an approval that is still there.     *)
(***************************************************************************)
EXTENDS Naturals, FiniteSets

CONSTANTS
    Callers,        \* calls that can be under way at the same time
    Tables,         \* names of tables
    Paths,          \* paths of endpoints
    Providers,      \* names of OAuth providers
    NoTable,        \* an endpoint without a table
    MaxCalls,       \* calls ever begun: BOUND of the model
    MaxFaults       \* failed statements and crashes: BOUND of the model

ASSUME SiteTablesAssumption ==
    /\ NoTable \notin Tables
    /\ Tables \cap Providers = {}
    /\ MaxCalls \in Nat /\ MaxFaults \in Nat

\* A text column, a column declared PASSWORD or ENCRYPTED, and the role column of auth.
Columns == {"name", "secret", "role"}
Secure == {"secret"}

Kinds == {"upload", "stream", "ws", "llm"}

VARIABLES
    there,          \* the tables that exist in SQLite
    cols,           \* the columns of each
    rows,           \* how the secure column is stored in its rows: "clear", "sealed"
    index,          \* parts of its full text index: "table", "triggers", "old" entries
    registered,     \* the tables in ho_dynamic_tables
    def,            \* schema_def
    secure,         \* secure_columns
    api, auth, oauth, link,     \* the endpoints of each kind
    secrets,        \* the providers whose client secret is in ho_secrets
    approval,       \* the owner's answer: "none", "pending", "yes", "no"
    call,           \* what each caller is doing
    calls,          \* calls begun so far
    faults,         \* failures so far
    torn,           \* tables and providers with an operation cut short or overlapped by a removal
    exposed,        \* ghost: tables that calls shaped at the same time, or left half shaped
    blind           \* ghost: writes that could not know which columns are secure

tables == <<there, cols, rows, index>>
registry == <<registered, def, secure>>
endpoints == <<api, auth, oauth, link, secrets>>
others == <<approval, faults, torn>>
seenVars == <<exposed, blind>>
schemaVars == <<tables, registry, endpoints, others, call, calls, seenVars>>

Endpoints == [path : Paths, table : Tables, auth : BOOLEAN, owner : BOOLEAN]
AuthEndpoints == [path : Paths, table : Tables, role : Columns]
OAuthProviders == [name : Providers, path : Paths]
Links == [kind : Kinds, path : Paths, table : Tables \cup {NoTable}, auth : BOOLEAN]

Named == Tables \cup Providers
Gates == {"drop", "columns"}

\* seen is what was read of the registry; path and link the endpoint to write.
Idle == [op |-> "idle", at |-> "begin", on |-> NoTable, path |-> NoTable, add |-> {}, drop |-> {},
         seen |-> {}, search |-> FALSE, role |-> FALSE, owner |-> FALSE,
         kind |-> "upload", link |-> NoTable, wrote |-> FALSE]

TablesInit ==
    /\ \E old \in SUBSET Tables :
          /\ there = old /\ registered = old
          /\ cols = [t \in Tables |-> IF t \in old THEN {"name", "secret"} ELSE {}]
          /\ def = cols
          /\ approval \in [Gates \X Tables -> {"none"} \cup {"yes" : t \in old}]
          /\ secure = [t \in Tables |-> IF t \in old THEN Secure ELSE {}]
          /\ index = [t \in Tables |-> IF t \in old THEN {"table", "triggers"} ELSE {}]
    /\ rows = [t \in Tables |-> {}]
    /\ api = {} /\ auth = {} /\ oauth = {} /\ link = {} /\ secrets = {}
    /\ call = [c \in Callers |-> Idle]
    /\ calls = 0 /\ faults = 0 /\ torn = {} /\ exposed = {} /\ blind = {}

-----------------------------------------------------------------------------
(* How calls begin, go on and end                                          *)

\* An unregistered table has no secure columns.
LoadSecureColumns(t) == IF t \in registered THEN secure[t] ELSE {}

Begin(c, j) ==
    /\ call[c] = Idle /\ calls < MaxCalls
    /\ calls' = calls + 1
    /\ call' = [call EXCEPT ![c] = j]
    /\ UNCHANGED <<tables, registry, endpoints, others>>

\* The same for a call that reads the secure columns.  Any error of the read, and JSON that
\* does not parse, is no secure column: the call goes on.
BeginReading(c, j) ==
    \/ Begin(c, [j EXCEPT !.seen = LoadSecureColumns(j.on)])
    \/ /\ call[c] = Idle /\ calls < MaxCalls /\ faults < MaxFaults
       /\ calls' = calls + 1 /\ faults' = faults + 1
       /\ call' = [call EXCEPT ![c] = [j EXCEPT !.seen = {}]]
       /\ UNCHANGED <<tables, registry, endpoints, approval, torn>>

\* A call that is one statement, made by a caller who has nothing else under way.
Single(c) ==
    /\ call[c] = Idle /\ calls < MaxCalls
    /\ calls' = calls + 1
    /\ UNCHANGED call

Stands(c, op, at) == call[c].op = op /\ call[c].at = at

Goto(c, at) ==
    /\ call' = [call EXCEPT ![c].at = at, ![c].wrote = TRUE]
    /\ UNCHANGED calls
End(c) == call' = [call EXCEPT ![c] = Idle] /\ UNCHANGED calls

\* Somebody else is working on t: what it has read goes stale when t is removed.
Overlapped(c, t) == IF \E o \in Callers \ {c} : call[o].on = t /\ call[o].op # "idle"
                    THEN {t} ELSE {}

\* SQLite refuses the statement: an error is returned, and what was done stays done.
Refused(c) ==
    /\ torn' = IF call[c].wrote THEN torn \cup {call[c].on} ELSE torn
    /\ End(c)
    /\ UNCHANGED <<tables, registry, endpoints, approval, faults>>

-----------------------------------------------------------------------------
(* manage_schema                                                           *)

\* create: a registered table is skipped.
CreateTable(c, t) ==
    /\ t \notin registered
    /\ \E more \in SUBSET {"secret", "role"}, s \in BOOLEAN :
          Begin(c, [Idle EXCEPT !.op = "create", !.at = "table", !.on = t,
                                !.add = {"name"} \cup more, !.search = s])

\* CREATE TABLE IF NOT EXISTS.
CreatePhysical(c) ==
    /\ Stands(c, "create", "table")
    /\ LET t == call[c].on IN
          /\ there' = there \cup {t}
          /\ cols' = IF t \in there THEN cols ELSE [cols EXCEPT ![t] = call[c].add]
    /\ Goto(c, "register")
    /\ UNCHANGED <<rows, index, registry, endpoints, others>>

RegisterTable(c) ==
    /\ Stands(c, "create", "register")
    /\ LET t == call[c].on IN
          /\ registered' = registered \cup {t}
          /\ def' = [def EXCEPT ![t] = call[c].add]
          /\ secure' = [secure EXCEPT ![t] = call[c].add \cap Secure]
    /\ IF call[c].search THEN Goto(c, "index") ELSE End(c)
    /\ UNCHANGED <<tables, endpoints, others>>

\* createFTSIndex: the virtual table and its triggers, unless they exist.  A failure
\* half way is a warning in a result that says success.
CreateFTSIndex(c) ==
    /\ Stands(c, "create", "index")
    /\ LET t == call[c].on IN
          \/ /\ t \in there
             /\ index' = [index EXCEPT ![t] = @ \cup {"table", "triggers"}]
             /\ UNCHANGED faults
          \/ /\ faults < MaxFaults /\ faults' = faults + 1
             /\ \E done \in {{}, {"table"}} : index' = [index EXCEPT ![t] = @ \cup done]
          \/ t \notin there /\ UNCHANGED <<index, faults>>
    /\ End(c)
    /\ UNCHANGED <<there, cols, rows, registry, endpoints, approval, torn>>

Changes == (SUBSET {"secret", "role"}) \X ({{}} \cup {{k} : k \in Columns}) \ {<<{}, {}>>}

\* Wrong on purpose: the secure columns there were are not read, and not written back.
AlterAfresh(c, t) ==
    \E d \in Changes :
       Begin(c, [Idle EXCEPT !.op = "alter", !.at = "add", !.on = t, !.add = d[1],
                             !.drop = d[2]])

\* alter: the secure columns are read first and written back last.
AlterTable(c, t) ==
    \E d \in Changes :
       BeginReading(c, [Idle EXCEPT !.op = "alter", !.at = "add", !.on = t, !.add = d[1],
                                    !.drop = d[2]])

\* The columns come out of a map, in any order.
AddColumn(c) ==
    /\ Stands(c, "alter", "add") /\ call[c].add # {}
    /\ \E k \in call[c].add :
          LET t == call[c].on IN
          IF t \in there /\ k \notin cols[t]
          THEN /\ cols' = [cols EXCEPT ![t] = @ \cup {k}]
               /\ call' = [call EXCEPT ![c].add = @ \ {k}, ![c].wrote = TRUE,
                                       ![c].seen = @ \cup ({k} \cap Secure)]
               /\ UNCHANGED <<there, rows, index, registry, endpoints, others, calls>>
          ELSE Refused(c)

\* RequestApproval, shared by both gates: a question unless the owner has said no.
Ask(g) == approval' = [approval EXCEPT ![g] = IF @ \in {"no", "yes"} THEN @ ELSE "pending"]

\* The gate returns before the secure columns of what was added are written.
GateColumns(c) ==
    /\ Stands(c, "alter", "add") /\ call[c].add = {} /\ call[c].drop # {}
    /\ LET g == <<"columns", call[c].on>> IN
       IF approval[g] = "yes"
       THEN call' = [call EXCEPT ![c].at = "drop"] /\ UNCHANGED <<approval, calls>>
       ELSE Ask(g) /\ End(c)
    /\ UNCHANGED <<tables, registry, endpoints, faults, torn>>

\* SQLite does not drop a column that a trigger of the full text index names.
DropColumn(c) ==
    /\ Stands(c, "alter", "drop")
    /\ LET t == call[c].on IN
       IF call[c].drop \subseteq cols[t] /\ ~("name" \in call[c].drop /\ "triggers" \in index[t])
       THEN /\ cols' = [cols EXCEPT ![t] = @ \ call[c].drop]
            /\ rows' = IF call[c].drop = Secure THEN [rows EXCEPT ![t] = {}] ELSE rows
            /\ call' = [call EXCEPT ![c].at = "add", ![c].drop = {}, ![c].wrote = TRUE,
                                    ![c].seen = @ \ call[c].drop]
            /\ UNCHANGED <<there, index, registry, endpoints, others, calls>>
       ELSE Refused(c)

WriteSecureColumns(c) ==
    /\ Stands(c, "alter", "add") /\ call[c].add = {} /\ call[c].drop = {}
    /\ secure' = IF call[c].on \in registered
                 THEN [secure EXCEPT ![call[c].on] = call[c].seen] ELSE secure
    /\ End(c)
    /\ UNCHANGED <<tables, registered, def, endpoints, others>>

\* drop: from here on nothing asks again whether the owner still agrees.
DropTable(c, t) ==
    /\ t \in registered
    /\ IF approval[<<"drop", t>>] = "yes"
       THEN Begin(c, [Idle EXCEPT !.op = "drop", !.at = "table", !.on = t])
       ELSE /\ Single(c) /\ Ask(<<"drop", t>>)
            /\ UNCHANGED <<tables, registry, endpoints, faults, torn>>

\* The triggers go with the table, the full text table stays.
DropPhysical(c) ==
    /\ Stands(c, "drop", "table")
    /\ LET t == call[c].on IN
          /\ there' = there \ {t}
          /\ cols' = [cols EXCEPT ![t] = {}]
          /\ rows' = [rows EXCEPT ![t] = {}]
          /\ index' = [index EXCEPT ![t] = IF "table" \in @ THEN {"table", "old"} ELSE {}]
          /\ torn' = torn \cup Overlapped(c, t)
    /\ Goto(c, "registry")
    /\ UNCHANGED <<registry, endpoints, approval, faults>>

DropRegistered(c) ==
    /\ Stands(c, "drop", "registry")
    /\ registered' = registered \ {call[c].on}
    /\ torn' = torn \cup Overlapped(c, call[c].on)
    /\ Goto(c, "api")
    /\ UNCHANGED <<tables, def, secure, endpoints, approval, faults>>

DropApi(c) ==
    /\ Stands(c, "drop", "api")
    /\ api' = {e \in api : e.table # call[c].on}
    /\ torn' = torn \cup Overlapped(c, call[c].on)
    /\ Goto(c, "auth")
    /\ UNCHANGED <<tables, registry, auth, oauth, link, secrets, approval, faults>>

\* Wrong on purpose: the auth endpoints are left out of the cascade.
DropAuthForgotten(c) ==
    /\ Stands(c, "drop", "auth")
    /\ End(c)
    /\ UNCHANGED <<tables, registry, endpoints, others>>

DropAuth(c) ==
    /\ Stands(c, "drop", "auth")
    /\ auth' = {e \in auth : e.table # call[c].on}
    /\ torn' = torn \cup Overlapped(c, call[c].on)
    /\ End(c)
    /\ UNCHANGED <<tables, registry, api, oauth, link, secrets, approval, faults>>

-----------------------------------------------------------------------------
(* manage_endpoints: every create looks whether the path is taken and      *)
(* skips, then writes with ON CONFLICT DO UPDATE.                          *)

\* Wrong on purpose: an insert without the conflict clause, on a path that is not unique.
PutBeside(e) == api' = api \cup {e}
Put(e) == api' = {x \in api : x.path # e.path} \cup {e}

\* An owner column implies authentication.
CreateAPI(c, p, t) ==
    /\ t \in registered /\ \A e \in api : e.path # p
    /\ \E a, o \in BOOLEAN :
          Begin(c, [Idle EXCEPT !.op = "api", !.at = "insert", !.on = t, !.path = p,
                                !.role = a \/ o, !.owner = o])

InsertAPI(c) ==
    /\ Stands(c, "api", "insert")
    /\ Put([path |-> call[c].path, table |-> call[c].on, auth |-> call[c].role,
            owner |-> call[c].owner])
    /\ End(c)
    /\ UNCHANGED <<tables, registry, auth, oauth, link, secrets, others>>

\* update_api and the admin's editor set any field by itself.
UpdateAPI(c, p) ==
    /\ Single(c)
    /\ \E e \in api, a, o \in BOOLEAN : e.path = p /\ Put([e EXCEPT !.auth = a, !.owner = o])
    /\ UNCHANGED <<tables, registry, auth, oauth, link, secrets, others>>
AdminUpdateAPI(c, p) == UpdateAPI(c, p)

DeleteAPI(c, p) ==
    /\ Single(c)
    /\ \E e \in api : e.path = p
    /\ api' = {e \in api : e.path # p}
    /\ UNCHANGED <<tables, registry, auth, oauth, link, secrets, others>>
AdminDeleteAPI(c, p) == DeleteAPI(c, p)

\* The admin API takes both flags as they come, and inserts without ON CONFLICT.
AdminCreateAPI(c, p, t) ==
    /\ t \in registered /\ \A e \in api : e.path # p
    /\ \E a, o \in BOOLEAN :
          Begin(c, [Idle EXCEPT !.op = "admin", !.at = "insert", !.on = t, !.path = p,
                                !.role = a, !.owner = o])

AdminInsertAPI(c) ==
    /\ Stands(c, "admin", "insert")
    /\ IF \E e \in api : e.path = call[c].path
       THEN UNCHANGED api
       ELSE Put([path |-> call[c].path, table |-> call[c].on, auth |-> call[c].role,
                 owner |-> call[c].owner])
    /\ End(c)
    /\ UNCHANGED <<tables, registry, auth, oauth, link, secrets, others>>

\* create_auth: the password column by secure_columns, the username column by schema_def,
\* the table by PRAGMA table_info; the role column is added where schema_def has none.
CreateAuth(c, p, t) ==
    /\ \A e \in auth : e.path # p
    /\ t \in registered \cap there
    /\ Secure \subseteq LoadSecureColumns(t) /\ "name" \in def[t]
    /\ Begin(c, [Idle EXCEPT !.op = "auth", !.on = t, !.path = p, !.seen = def[t],
                             !.at = IF "role" \in def[t] THEN "insert" ELSE "role"])

AddRoleColumn(c) ==
    /\ Stands(c, "auth", "role")
    /\ LET t == call[c].on IN
       IF t \in there /\ "role" \notin cols[t]
       THEN /\ cols' = [cols EXCEPT ![t] = @ \cup {"role"}]
            /\ Goto(c, "schema")
            /\ UNCHANGED <<there, rows, index, registry, endpoints, others>>
       ELSE Refused(c)

\* The error of this update is not looked at.
UpdateSchemaDef(c) ==
    /\ Stands(c, "auth", "schema")
    /\ \/ /\ def' = [def EXCEPT ![call[c].on] =
                        IF call[c].on \in registered THEN call[c].seen \cup {"role"} ELSE @]
          /\ UNCHANGED faults
       \/ faults < MaxFaults /\ faults' = faults + 1 /\ UNCHANGED def
    /\ Goto(c, "insert")
    /\ UNCHANGED <<tables, registered, secure, endpoints, approval, torn>>

InsertAuth(c) ==
    /\ Stands(c, "auth", "insert")
    /\ auth' = {e \in auth : e.path # call[c].path}
                  \cup {[path |-> call[c].path, table |-> call[c].on, role |-> "role"]}
    /\ End(c)
    /\ UNCHANGED <<tables, registry, api, oauth, link, secrets, others>>

\* The new role column need not exist.
UpdateAuth(c, p) ==
    /\ Single(c)
    /\ \E e \in auth, k \in Columns :
          e.path = p /\ auth' = (auth \ {e}) \cup {[e EXCEPT !.role = k]}
    /\ UNCHANGED <<tables, registry, api, oauth, link, secrets, others>>

\* OAuth providers keep the path of an auth endpoint that is deleted.
DeleteAuth(c, p) ==
    /\ Single(c)
    /\ \E e \in auth : e.path = p
    /\ auth' = {e \in auth : e.path # p}
    /\ UNCHANGED <<tables, registry, api, oauth, link, secrets, others>>

\* create_oauth: the secret first, then the provider.
CreateOAuth(c, n, p) ==
    /\ \A e \in oauth : e.name # n
    /\ \E e \in auth : e.path = p
    /\ Begin(c, [Idle EXCEPT !.op = "oauth", !.at = "secret", !.on = n, !.path = p])

StoreSecret(c) ==
    /\ Stands(c, "oauth", "secret")
    /\ secrets' = secrets \cup {call[c].on}
    /\ Goto(c, "insert")
    /\ UNCHANGED <<tables, registry, api, auth, oauth, link, others>>

InsertOAuth(c) ==
    /\ Stands(c, "oauth", "insert")
    /\ oauth' = {e \in oauth : e.name # call[c].on}
                   \cup {[name |-> call[c].on, path |-> call[c].path]}
    /\ End(c)
    /\ UNCHANGED <<tables, registry, api, auth, link, secrets, others>>

\* delete_oauth: the secret first, whether or not there is such a provider; its error is
\* not looked at.
DeleteOAuth(c, n) ==
    /\ call[c] = Idle /\ calls < MaxCalls
    /\ calls' = calls + 1
    /\ call' = [call EXCEPT ![c] = [Idle EXCEPT !.op = "unoauth", !.at = "delete", !.on = n,
                                                !.wrote = TRUE]]
    /\ secrets' = secrets \ {n}
    /\ torn' = torn \cup Overlapped(c, n)
    /\ UNCHANGED <<tables, registry, api, auth, oauth, link, approval, faults>>

DeleteOAuthRow(c) ==
    /\ Stands(c, "unoauth", "delete")
    /\ oauth' = {e \in oauth : e.name # call[c].on}
    /\ End(c)
    /\ UNCHANGED <<tables, registry, api, auth, link, secrets, others>>

\* Upload, stream, WebSocket and LLM endpoints: nothing looks whether the table of an
\* upload or of a WebSocket endpoint is there, and a drop leaves them alone.
CreateLink(c, k, p, t) ==
    /\ \A e \in link : <<e.kind, e.path>> # <<k, p>>
    /\ \E a \in BOOLEAN :
          Begin(c, [Idle EXCEPT !.op = "link", !.at = "insert", !.kind = k, !.path = p,
                                !.link = t, !.role = a])

CreateUpload(c, p) == \E t \in Tables \cup {NoTable} : CreateLink(c, "upload", p, t)
CreateStream(c, p) == CreateLink(c, "stream", p, NoTable)
CreateWebSocket(c, p) == \E t \in Tables \cup {NoTable} : CreateLink(c, "ws", p, t)
CreateLLM(c, p) == CreateLink(c, "llm", p, NoTable)

InsertLink(c) ==
    /\ Stands(c, "link", "insert")
    /\ LET j == call[c] IN
       link' = {e \in link : <<e.kind, e.path>> # <<j.kind, j.path>>}
                  \cup {[kind |-> j.kind, path |-> j.path, table |-> j.link, auth |-> j.role]}
    /\ End(c)
    /\ UNCHANGED <<tables, registry, api, auth, oauth, secrets, others>>

UpdateLink(c, k, p, to) ==
    /\ Single(c)
    /\ \E e \in link, t \in to, a \in BOOLEAN :
          /\ e.kind = k /\ e.path = p
          /\ link' = (link \ {e}) \cup {[e EXCEPT !.auth = a, !.table = t]}
    /\ UNCHANGED <<tables, registry, api, auth, oauth, secrets, others>>

\* Only the table of a WebSocket endpoint can be changed.
Same(k, p) == {e.table : e \in {x \in link : x.kind = k /\ x.path = p}}
UpdateUpload(c, p) == UpdateLink(c, "upload", p, Same("upload", p))
UpdateStream(c, p) == UpdateLink(c, "stream", p, {NoTable})
UpdateWebSocket(c, p) == UpdateLink(c, "ws", p, Tables \cup {NoTable})
UpdateLLM(c, p) == UpdateLink(c, "llm", p, {NoTable})

DeleteLink(c, k, p) ==
    /\ Single(c)
    /\ \E e \in link : e.kind = k /\ e.path = p
    /\ link' = {e \in link : <<e.kind, e.path>> # <<k, p>>}
    /\ UNCHANGED <<tables, registry, api, auth, oauth, secrets, others>>
DeleteUpload(c, p) == DeleteLink(c, "upload", p)
DeleteStream(c, p) == DeleteLink(c, "stream", p)
DeleteWebSocket(c, p) == DeleteLink(c, "ws", p)
DeleteLLM(c, p) == DeleteLink(c, "llm", p)

-----------------------------------------------------------------------------
(* Rows: manage_data and the admin's table editor.  A write that names the *)
(* secure column; others leave what this module keeps as it is.            *)

\* The secure columns are read once, before the statement that writes.
Write(c, t, op) ==
    BeginReading(c, [Idle EXCEPT !.op = op, !.at = "write", !.on = t])

InsertSingle(c, t) == Write(c, t, "insert")
InsertBulk(c, t) == Write(c, t, "insert")
UpdateRow(c, t) == Write(c, t, "update")
UpsertRow(c, t) == Write(c, t, "upsert")
ImportCSV(c, t) == Write(c, t, "import")

\* The admin API writes to registered tables only.
AdminInsertRow(c, t) == t \in registered /\ Write(c, t, "insert")
AdminUpdateRow(c, t) == t \in registered /\ Write(c, t, "update")

\* processSecureValue, where the column is known to be secure.
Stored(c) == IF Secure \subseteq call[c].seen THEN "sealed" ELSE "clear"

\* Rows with the new value are added; an update replaces the value of one row or of all.
ExecWrite(c) ==
    /\ call[c].at = "write"
    /\ LET t == call[c].on IN
       IF Secure \subseteq cols[t]
       THEN \E rest \in SUBSET rows[t] :
               /\ call[c].op \in {"insert", "import"} => rest = rows[t]
               /\ call[c].op = "update" => rows[t] # {}
               /\ rows' = [rows EXCEPT ![t] = rest \cup {Stored(c)}]
       ELSE UNCHANGED rows
    /\ End(c)
    /\ UNCHANGED <<there, cols, index, registry, endpoints, others>>

\* The update finds no row.
ExecNothing(c) ==
    /\ call[c].at = "write" /\ call[c].op = "update" /\ rows[call[c].on] = {}
    /\ End(c)
    /\ UNCHANGED <<tables, registry, endpoints, others>>

\* import_csv writes the value as it is when it cannot be hashed or encrypted.
ImportUnsealed(c) ==
    /\ call[c].at = "write" /\ call[c].op = "import" /\ faults < MaxFaults
    /\ Secure \subseteq cols[call[c].on]
    /\ faults' = faults + 1
    /\ rows' = [rows EXCEPT ![call[c].on] = @ \cup {"clear"}]
    /\ End(c)
    /\ UNCHANGED <<there, cols, index, registry, endpoints, approval, torn>>

RemoveRows(c, t) ==
    /\ Single(c)
    /\ rows[t] # {}
    /\ \E rest \in SUBSET rows[t] : rows' = [rows EXCEPT ![t] = rest]
    /\ UNCHANGED <<there, cols, index, registry, endpoints, others>>
DeleteRow(c, t) == RemoveRows(c, t)
BatchDelete(c, t) == RemoveRows(c, t)
AdminDeleteRow(c, t) == t \in registered /\ RemoveRows(c, t)

\* The admin's new column: the secure columns are read after the column is there.
AdminAddColumn(c, t) ==
    /\ Single(c) /\ t \in there /\ "role" \notin cols[t]
    /\ cols' = [cols EXCEPT ![t] = @ \cup {"role"}]
    /\ UNCHANGED <<there, rows, index, registry, endpoints, others>>

AdminAddSecure(c, t) ==
    /\ call[c] = Idle /\ calls < MaxCalls /\ t \in there /\ Secure \cap cols[t] = {}
    /\ calls' = calls + 1
    /\ cols' = [cols EXCEPT ![t] = @ \cup Secure]
    /\ call' = [call EXCEPT ![c] = [Idle EXCEPT !.op = "column", !.at = "read", !.on = t,
                                                !.wrote = TRUE]]
    /\ UNCHANGED <<there, rows, index, registry, endpoints, others>>

AdminReadSecure(c) ==
    /\ Stands(c, "column", "read")
    /\ call' = [call EXCEPT ![c].at = "write back",
                            ![c].seen = LoadSecureColumns(call[c].on) \cup Secure]
    /\ UNCHANGED <<tables, registry, endpoints, others, calls>>

\* The error of this update is not looked at: a failure is a success to the caller.
AdminWriteSecure(c) ==
    /\ Stands(c, "column", "write back")
    /\ secure' = IF call[c].on \in registered
                 THEN [secure EXCEPT ![call[c].on] = call[c].seen] ELSE secure
    /\ End(c)
    /\ UNCHANGED <<tables, registered, def, endpoints, others>>

-----------------------------------------------------------------------------
(* The owner, and failures                                                 *)

\* An answer that is neither a yes nor a no leaves the question to be asked again.
OwnerAnswers(g) ==
    /\ approval[g] = "pending"
    /\ \E a \in {"yes", "no", "none"} : approval' = [approval EXCEPT ![g] = a]
    /\ UNCHANGED <<tables, registry, endpoints, faults, torn, call, calls>>

\* A statement fails (the database is busy or full): the call ends where it stands.
StatementFails(c) ==
    /\ call[c] # Idle /\ faults < MaxFaults
    /\ faults' = faults + 1
    /\ torn' = IF call[c].wrote THEN torn \cup {call[c].on} ELSE torn
    /\ End(c)
    /\ UNCHANGED <<tables, registry, endpoints, approval>>

Crash ==
    /\ faults < MaxFaults /\ \E c \in Callers : call[c] # Idle
    /\ faults' = faults + 1
    /\ torn' = torn \cup {call[c].on : c \in {x \in Callers : call[x].wrote}}
    /\ call' = [c \in Callers |-> Idle]
    /\ UNCHANGED <<tables, registry, endpoints, approval, calls>>

SchemaStep(c) ==
    \/ \E t \in Tables : CreateTable(c, t) \/ AlterTable(c, t) \/ DropTable(c, t)
    \/ CreatePhysical(c) \/ RegisterTable(c) \/ CreateFTSIndex(c)
    \/ AddColumn(c) \/ GateColumns(c) \/ DropColumn(c) \/ WriteSecureColumns(c)
    \/ DropPhysical(c) \/ DropRegistered(c) \/ DropApi(c) \/ DropAuth(c)

EndpointStep(c) ==
    \/ \E p \in Paths, t \in Tables : CreateAPI(c, p, t) \/ AdminCreateAPI(c, p, t)
                                      \/ CreateAuth(c, p, t)
    \/ \E p \in Paths :
          \/ UpdateAPI(c, p) \/ AdminUpdateAPI(c, p) \/ DeleteAPI(c, p) \/ AdminDeleteAPI(c, p)
          \/ UpdateAuth(c, p) \/ DeleteAuth(c, p)
          \/ CreateUpload(c, p) \/ CreateStream(c, p) \/ CreateWebSocket(c, p) \/ CreateLLM(c, p)
          \/ UpdateUpload(c, p) \/ UpdateStream(c, p) \/ UpdateWebSocket(c, p) \/ UpdateLLM(c, p)
          \/ DeleteUpload(c, p) \/ DeleteStream(c, p) \/ DeleteWebSocket(c, p) \/ DeleteLLM(c, p)
    \/ \E n \in Providers : DeleteOAuth(c, n) \/ \E p \in Paths : CreateOAuth(c, n, p)
    \/ InsertAPI(c) \/ AdminInsertAPI(c) \/ AddRoleColumn(c) \/ UpdateSchemaDef(c)
    \/ InsertAuth(c) \/ StoreSecret(c) \/ InsertOAuth(c) \/ DeleteOAuthRow(c) \/ InsertLink(c)

RowStep(c) ==
    \/ \E t \in Tables :
          \/ InsertSingle(c, t) \/ InsertBulk(c, t) \/ UpdateRow(c, t) \/ UpsertRow(c, t)
          \/ ImportCSV(c, t) \/ AdminInsertRow(c, t) \/ AdminUpdateRow(c, t)
          \/ DeleteRow(c, t) \/ BatchDelete(c, t) \/ AdminDeleteRow(c, t)
          \/ AdminAddColumn(c, t) \/ AdminAddSecure(c, t)
    \/ ExecWrite(c) \/ ExecNothing(c) \/ ImportUnsealed(c)
    \/ AdminReadSecure(c) \/ AdminWriteSecure(c)

(* What a reader of the registry may rely on: a record of the steps, which  *)
(* changes none of them.                                                    *)

\* The calls that change the columns of a table.
Shapes(j, t) == j.op \in {"create", "alter", "drop", "column"} /\ j.on = t

\* This step is a read that fails, an alter that the owner's gate stops after it has added.
Unread(c) == call[c] = Idle /\ call'[c] # Idle /\ faults' # faults
Stopped(c) == Stands(c, "alter", "add") /\ call[c].wrote /\ call[c].drop # {} /\ call'[c] = Idle

\* Two calls shape the table at the same time, or one leaves it other than it registers it.
Exposes(t) ==
    \/ \E c \in Callers : Stopped(c) /\ call[c].on = t
    \/ \E c \in Callers : Unread(c) /\ Shapes(call'[c], t)
    \/ \E c, o \in Callers : c # o /\ Shapes(call'[c], t) /\ Shapes(call'[o], t)

\* The read of a write fails, or another call shapes its table while it is under way.
Blinds(c) == Unread(c) \/ \E o \in Callers \ {c} : Shapes(call'[o], call'[c].on)

Watch ==
    /\ exposed' = exposed \cup {t \in Tables : Exposes(t)}
    /\ blind' = {c \in Callers : call'[c].at = "write" /\ (c \in blind \/ Blinds(c))}

TablesMove ==
    \/ \E c \in Callers : SchemaStep(c) \/ EndpointStep(c) \/ RowStep(c) \/ StatementFails(c)
    \/ \E g \in Gates \X Tables : OwnerAnswers(g)
    \/ Crash

TablesNext == TablesMove /\ Watch

TablesSpec == TablesInit /\ [][TablesNext]_schemaVars

-----------------------------------------------------------------------------
(* Properties                                                              *)

\* Every variable has its type; a path is one endpoint, however often it is created and
\* updated at the same time, and a table that is gone has neither columns nor rows.
TablesTypeOK ==
    /\ there \subseteq Tables /\ registered \subseteq Tables
    /\ cols \in [Tables -> SUBSET Columns] /\ def \in [Tables -> SUBSET Columns]
    /\ secure \in [Tables -> SUBSET Secure]
    /\ rows \in [Tables -> SUBSET {"clear", "sealed"}]
    /\ index \in [Tables -> SUBSET {"table", "triggers", "old"}]
    /\ api \subseteq Endpoints /\ auth \subseteq AuthEndpoints
    /\ oauth \subseteq OAuthProviders /\ link \subseteq Links /\ secrets \subseteq Providers
    /\ approval \in [Gates \X Tables -> {"none", "pending", "yes", "no"}]
    /\ calls \in 0 .. MaxCalls /\ faults \in 0 .. MaxFaults
    /\ torn \subseteq Named /\ exposed \subseteq Tables /\ blind \subseteq Callers
    /\ \A e, f \in api : e.path = f.path => e = f
    /\ \A t \in Tables \ there : cols[t] = {} /\ rows[t] = {}
    /\ \A c \in Callers : call[c].on \in Named \cup {NoTable}

\* Calls under way on a table or a provider that remove it.
Removing(t) == \E c \in Callers : call[c].on = t /\ call[c].op \in {"drop", "unoauth"}

Sound(t) == t \notin torn /\ ~Removing(t)

\* A registered table exists: create makes it before it registers it, drop forgets it last.
RegisteredExist == \A t \in registered : Sound(t) => t \in there

\* API and auth endpoints stand on registered tables: a drop takes them along.
EndpointsHaveTables == \A e \in api \cup auth : Sound(e.table) => e.table \in registered

\* An OAuth provider has its client secret: it is stored before the provider.
ProvidersHaveSecrets == \A e \in oauth : Sound(e.name) => e.name \in secrets

\* The registry, the physical tables, the endpoints and the secrets agree, for every table
\* and provider whose operations were not cut short by a failure and not overlapped by a
\* removal (SchemaTool.create and drop, EndpointsTool.create* and delete*).
NothingDangles == RegisteredExist /\ EndpointsHaveTables /\ ProvidersHaveSecrets

\* A value is stored in the clear in a column declared PASSWORD or ENCRYPTED only if
\* an import could not hash or encrypt it, if the call's own read of secure_columns failed or
\* its table was shaped while it was under way, or if the registry has been left behind: by
\* an alter whose read failed or that the owner's gate stopped after it had added, by two calls
\* shaping the table at the same time, by a call cut short or overlapped by a removal.  Calls
\* that create, alter, drop and write a table one after the other store no secret in the clear.
SealedOrExcused(t) ==
    "clear" \in rows'[t] \ rows[t] =>
       \/ faults' # faults
       \/ t \in torn \cup exposed
       \/ \E c \in blind : call[c].on = t /\ call[c].at = "write" /\ call'[c] = Idle
SecretsAreSealed == [][\A t \in Tables : SealedOrExcused(t)]_schemaVars

=============================================================================
