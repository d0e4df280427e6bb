-------------------------- MODULE SiteTablesProofs --------------------------
(* What the tables, the registry, the endpoints and the secrets say of each    *)
(* other, for any number of tables, endpoints, calls at the same time and      *)
(* failures.  A removal that meets other work on its table marks the table;    *)
(* of the rest the invariant says what each call under way may rely on, and    *)
(* which stage of a removal explains what is missing.                          *)
EXTENDS SiteTables, TLAPS

OnTables == {"create", "alter", "drop", "api", "admin", "auth", "insert", "update", "upsert", "import", "column"}
RowWrites == {"insert", "update", "upsert", "import"}
Stages == {"begin", "table", "register", "index", "add", "drop", "registry", "api", "auth", "insert", "role", "schema",
           "secret", "delete", "write", "read", "write back"}
CallRecords == [op : OnTables \cup {"idle", "oauth", "unoauth", "link"}, at : Stages,
                on : Named \cup {NoTable}, path : Paths \cup {NoTable}, add : SUBSET Columns, drop : SUBSET Columns,
                seen : SUBSET Columns, search : BOOLEAN, role : BOOLEAN, owner : BOOLEAN,
                kind : Kinds, link : Tables \cup {NoTable}, wrote : BOOLEAN]

\* What a call works on, what it knows of the secure columns, and when it has written.
CallSound(j) ==
    /\ j.op \in OnTables => j.on \in Tables
    /\ j.op \in {"oauth", "unoauth"} => j.on \in Providers
    /\ j.op \in {"api", "admin", "auth", "oauth", "link"} => j.path \in Paths
    /\ j.op \in {"alter", "column"} => j.seen \subseteq Secure
    /\ j.op = "drop" /\ j.at # "table" => j.wrote = TRUE
    /\ j.op = "unoauth" => j.wrote = TRUE
    /\ j.at = "write" => j.op \in {"insert", "update", "upsert", "import"}
    /\ j.op \in {"idle", "link"} => j.wrote = FALSE

PhysicalTyped ==
    /\ there \subseteq Tables
    /\ cols \in [Tables -> SUBSET Columns] /\ rows \in [Tables -> SUBSET {"clear", "sealed"}]
    /\ index \in [Tables -> SUBSET {"table", "triggers", "old"}]
    /\ \A t \in Tables \ there : cols[t] = {} /\ rows[t] = {}
RegistryTyped ==
    /\ registered \subseteq Tables
    /\ def \in [Tables -> SUBSET Columns] /\ secure \in [Tables -> SUBSET Secure]
EndpointsTyped ==
    /\ api \subseteq Endpoints /\ auth \subseteq AuthEndpoints
    /\ oauth \subseteq OAuthProviders /\ link \subseteq Links /\ secrets \subseteq Providers
    /\ \A e, f \in api : e.path = f.path => e = f
OthersTyped ==
    /\ approval \in [Gates \X Tables -> {"none", "pending", "yes", "no"}]
    /\ faults \in 0 .. MaxFaults /\ torn \subseteq Named
CallsTyped ==
    /\ call \in [Callers -> CallRecords] /\ calls \in 0 .. MaxCalls
    /\ \A c \in Callers : CallSound(call[c])
Typed == PhysicalTyped /\ RegistryTyped /\ EndpointsTyped /\ OthersTyped /\ CallsTyped

\* A removal that has come so far explains what it has not removed yet.
Dropping(t, P) == \E c \in Callers : call[c].op = "drop" /\ call[c].on = t /\ call[c].at \in P
Forgetting(n) == \E c \in Callers : call[c].op = "unoauth" /\ call[c].on = n

RegisteredStand == \A t \in registered : t \in there \cup torn \/ Dropping(t, {"registry"})
ApiStand == \A e \in api : e.table \in registered \cup torn \/ Dropping(e.table, {"api"})
AuthStand == \A e \in auth : e.table \in registered \cup torn \/ Dropping(e.table, {"api", "auth"})
OAuthStand == \A e \in oauth : e.name \in secrets \cup torn \/ Forgetting(e.name)

\* What a call has found, or made, is there still, unless its table was removed meanwhile.
CallsStand ==
    \A c \in Callers : call[c].on \notin torn =>
        /\ call[c].op = "create" /\ call[c].at = "register" => call[c].on \in there
        /\ call[c].op \in {"api", "admin", "auth"} => call[c].on \in registered
        /\ call[c].op = "oauth" /\ call[c].at = "insert" => call[c].on \in secrets
Stood == RegisteredStand /\ ApiStand /\ AuthStand /\ OAuthStand /\ CallsStand

TablesInv == Typed /\ Stood

-----------------------------------------------------------------------------
(* One call moves                                                          *)

\* A caller's call becomes j.
Moves(c, j) == j \in CallRecords /\ CallSound(j) /\ call' = [call EXCEPT ![c] = j]

\* One caller moves: its call is the new one, the others are what they were, and all are sound.
LEMMA OneMoves ==
    ASSUME CallsTyped, NEW c \in Callers, NEW j, Moves(c, j)
    PROVE  /\ call' \in [Callers -> CallRecords] /\ call'[c] = j
           /\ \A o \in Callers : o # c => call'[o] = call[o]
           /\ \A o \in Callers : CallSound(call'[o])
<1>1. call' \in [Callers -> CallRecords] /\ call'[c] = j /\ \A o \in Callers : o # c => call'[o] = call[o]
  BY DEF CallsTyped, Moves
<1>2. ASSUME NEW o \in Callers PROVE CallSound(call'[o])
  <2>1. CASE o = c
    BY <1>1, <2>1 DEF Moves
  <2>2. CASE o # c
    BY <1>1, <2>2 DEF CallsTyped
  <2>3. QED
    BY <2>1, <2>2
<1>3. QED
  BY <1>1, <1>2

\* So the calls keep their type.
LEMMA CallsMove ==
    ASSUME CallsTyped, NEW c \in Callers, NEW j, Moves(c, j), calls' \in 0 .. MaxCalls
    PROVE  CallsTyped'
  BY OneMoves DEF CallsTyped

\* A removal under way is under way still, unless it ended early.
LEMMA RemovalsGoOn ==
    ASSUME CallsTyped, NEW c \in Callers, NEW j, Moves(c, j),
           (call[c].op = "drop" /\ call[c].at # "table") \/ call[c].op = "unoauth" => call[c].on \in torn' \/ j = call[c]
    PROVE  /\ \A t, P : "table" \notin P /\ Dropping(t, P) => Dropping(t, P)' \/ t \in torn'
           /\ \A n : Forgetting(n) => Forgetting(n)' \/ n \in torn'
<1>1. call'[c] = j /\ \A o \in Callers : o # c => call'[o] = call[o]
  BY OneMoves
<1>2. ASSUME NEW t, NEW P, "table" \notin P, Dropping(t, P) PROVE Dropping(t, P)' \/ t \in torn'
  <2>1. PICK o \in Callers : call[o].op = "drop" /\ call[o].on = t /\ call[o].at \in P
    BY <1>2 DEF Dropping
  <2>2. CASE o = c
    BY <1>1, <1>2, <2>1, <2>2 DEF Dropping
  <2>3. CASE o # c
    BY <1>1, <2>1, <2>3 DEF Dropping
  <2>4. QED
    BY <2>2, <2>3
<1>3. ASSUME NEW n, Forgetting(n) PROVE Forgetting(n)' \/ n \in torn'
  <2>1. PICK o \in Callers : call[o].op = "unoauth" /\ call[o].on = n
    BY <1>3 DEF Forgetting
  <2>2. CASE o = c
    BY <1>1, <2>1, <2>2 DEF Forgetting
  <2>3. CASE o # c
    BY <1>1, <2>1, <2>3 DEF Forgetting
  <2>4. QED
    BY <2>2, <2>3
<1>4. QED
  BY <1>2, <1>3

\* A step that removes nothing, but endpoints, keeps all standing.
LEMMA GrowKeeps ==
    ASSUME TablesInv, NEW c \in Callers, NEW j, Moves(c, j), torn \subseteq torn', there \subseteq there',
           registered \subseteq registered', \A t \in registered' \ registered : t \in there' \cup torn',
           secrets \subseteq secrets',
           \A e \in api' : e.table \in registered' \cup torn' \/ \E f \in api : f.table = e.table,
           \A e \in auth' : e.table \in registered' \cup torn' \/ \E f \in auth : f.table = e.table,
           \A e \in oauth' : e.name \in secrets' \cup torn' \/ \E f \in oauth : f.name = e.name,
           (call[c].op = "drop" /\ call[c].at # "table") \/ call[c].op = "unoauth" => call[c].on \in torn' \/ j = call[c],
           \/ j = call[c]
           \/ j.on \notin torn' => /\ j.op = "create" /\ j.at = "register" => j.on \in there'
                                   /\ j.op \in {"api", "admin", "auth"} => j.on \in registered'
                                   /\ j.op = "oauth" /\ j.at = "insert" => j.on \in secrets'
    PROVE  Stood'
<1>1. CallsTyped /\ Stood
  BY DEF TablesInv, Typed
<1>2. call'[c] = j /\ \A o \in Callers : o # c => call'[o] = call[o]
  BY <1>1, OneMoves
<1>3. /\ \A t, P : "table" \notin P /\ Dropping(t, P) => Dropping(t, P)' \/ t \in torn'
      /\ \A n : Forgetting(n) => Forgetting(n)' \/ n \in torn'
  BY <1>1, RemovalsGoOn
<1>4. RegisteredStand'
  <2>1. \A t : Dropping(t, {"registry"}) => Dropping(t, {"registry"})' \/ t \in torn'
    BY <1>3
  <2>2. QED
    BY <1>1, <2>1 DEF Stood, RegisteredStand
<1>5. ApiStand'
  <2>1. \A t : Dropping(t, {"api"}) => Dropping(t, {"api"})' \/ t \in torn'
    BY <1>3
  <2>2. QED
    BY <1>1, <2>1 DEF Stood, ApiStand
<1>6. AuthStand'
  <2>1. \A t : Dropping(t, {"api", "auth"}) => Dropping(t, {"api", "auth"})' \/ t \in torn'
    BY <1>3
  <2>2. QED
    BY <1>1, <2>1 DEF Stood, AuthStand
<1>7. OAuthStand'
  BY <1>1, <1>3 DEF Stood, OAuthStand
<1>8. CallsStand'
  <2> SUFFICES ASSUME NEW o \in Callers, call'[o].on \notin torn'
               PROVE  /\ call'[o].op = "create" /\ call'[o].at = "register" => call'[o].on \in there'
                      /\ call'[o].op \in {"api", "admin", "auth"} => call'[o].on \in registered'
                      /\ call'[o].op = "oauth" /\ call'[o].at = "insert" => call'[o].on \in secrets'
    BY DEF CallsStand
  <2>1. CASE call'[o] = call[o]
    BY <1>1, <2>1 DEF Stood, CallsStand
  <2>2. CASE call'[o] # call[o]
    BY <1>2, <2>2
  <2>3. QED
    BY <2>1, <2>2
<1>9. QED
  BY <1>4, <1>5, <1>6, <1>7, <1>8 DEF Stood

\* What a step leaves alone keeps its type.
LEMMA PartsStill ==
    /\ PhysicalTyped /\ UNCHANGED tables => PhysicalTyped'
    /\ RegistryTyped /\ UNCHANGED registry => RegistryTyped'
    /\ EndpointsTyped /\ UNCHANGED endpoints => EndpointsTyped'
    /\ OthersTyped /\ UNCHANGED others => OthersTyped'
<1>1. PhysicalTyped /\ UNCHANGED tables => PhysicalTyped'
  BY DEF tables, PhysicalTyped
<1>2. RegistryTyped /\ UNCHANGED registry => RegistryTyped'
  BY DEF registry, RegistryTyped
<1>3. EndpointsTyped /\ UNCHANGED endpoints => EndpointsTyped'
  BY DEF endpoints, EndpointsTyped
<1>4. OthersTyped /\ UNCHANGED others => OthersTyped'
  BY DEF others, OthersTyped
<1>5. QED
  BY <1>1, <1>2, <1>3, <1>4

\* What the invariant says of one call.
LEMMA CallIs ==
    ASSUME TablesInv, NEW c \in Callers
    PROVE  /\ PhysicalTyped /\ RegistryTyped /\ EndpointsTyped /\ OthersTyped /\ CallsTyped /\ Stood
           /\ call[c] \in CallRecords /\ CallSound(call[c]) /\ calls \in 0 .. MaxCalls /\ faults \in 0 .. MaxFaults
           /\ Idle \in CallRecords /\ CallSound(Idle) /\ MaxCalls \in Nat /\ MaxFaults \in Nat
           /\ \A j : call' = [call EXCEPT ![c] = j] /\ j \in CallRecords /\ CallSound(j) => Moves(c, j)
<1>1. Idle \in CallRecords /\ CallSound(Idle)
  BY DEF Idle, CallRecords, CallSound, OnTables, Stages, Kinds
<1>2. QED
  BY <1>1, SiteTablesAssumption DEF TablesInv, Typed, CallsTyped, OthersTyped, Moves

\* A call that goes on has written.
LEMMA GotoIs ==
    ASSUME TablesInv, NEW c \in Callers, NEW at \in Stages, Goto(c, at), call[c].on \in Named, at # "write"
    PROVE  LET j == [call[c] EXCEPT !.at = at, !.wrote = TRUE] IN
           /\ j.op \notin {"idle", "link"} => Moves(c, j)
           /\ j.op = call[c].op /\ j.on = call[c].on /\ j.at = at /\ calls' \in 0 .. MaxCalls
<1> DEFINE j == [call[c] EXCEPT !.at = at, !.wrote = TRUE]
<1>1. call[c] \in CallRecords /\ CallSound(call[c]) /\ call \in [Callers -> CallRecords] /\ calls \in 0 .. MaxCalls
  BY CallIs DEF CallsTyped
<1>2. call' = [call EXCEPT ![c] = j] /\ calls' = calls
  BY <1>1 DEF Goto
<1>3. /\ j \in CallRecords /\ j.op = call[c].op /\ j.on = call[c].on /\ j.at = at /\ j.wrote = TRUE
      /\ j.path = call[c].path /\ j.seen = call[c].seen
  BY <1>1 DEF CallRecords
<1> HIDE DEF j
<1>4. j.op \notin {"idle", "link"} => CallSound(j)
  BY <1>1, <1>3 DEF CallSound
<1>5. QED
  BY <1>1, <1>2, <1>3, <1>4 DEF Moves, j

\* So is one that ends: its caller may begin another.
LEMMA EndIs ==
    ASSUME TablesInv, NEW c \in Callers, End(c) PROVE Moves(c, Idle) /\ calls' \in 0 .. MaxCalls
<1>1. Idle \in CallRecords /\ CallSound(Idle) /\ calls \in 0 .. MaxCalls
  BY CallIs
<1>2. QED
  BY <1>1 DEF End, Moves

\* One statement leaves the calls under way where they are.
LEMMA SingleIs ==
    ASSUME TablesInv, NEW c \in Callers, Single(c) PROVE Moves(c, call[c]) /\ calls' \in 0 .. MaxCalls
<1>1. call[c] \in CallRecords /\ CallSound(call[c]) /\ call \in [Callers -> CallRecords] /\ calls \in 0 .. MaxCalls
      /\ MaxCalls \in Nat
  BY CallIs DEF CallsTyped
<1>2. call' = [call EXCEPT ![c] = call[c]] /\ calls' \in 0 .. MaxCalls
  BY <1>1 DEF Single
<1>3. QED
  BY <1>1, <1>2 DEF Moves

\* A call that begins may rely on what it has found, whether or not a read of it has failed.
LEMMA StartKeeps ==
    ASSUME TablesInv, NEW c \in Callers, NEW j, call[c] = Idle, calls < MaxCalls, calls' = calls + 1,
           call' = [call EXCEPT ![c] = j], UNCHANGED tables, UNCHANGED registry, UNCHANGED endpoints,
           OthersTyped', torn' = torn, j \in CallRecords, CallSound(j),
           j.op = "create" => j.at = "table",
           j.op \in {"api", "admin", "auth"} => j.on \in registered,
           j.op = "oauth" => j.at = "secret"
    PROVE  TablesInv'
<1>1. /\ PhysicalTyped /\ RegistryTyped /\ EndpointsTyped /\ CallsTyped
      /\ calls \in 0 .. MaxCalls /\ MaxCalls \in Nat
  BY CallIs
<1>2. Moves(c, j) /\ calls' \in 0 .. MaxCalls
  BY <1>1 DEF Moves
<1>3. UNCHANGED <<there, registered, api, auth, oauth, secrets, torn>>
  BY DEF tables, registry, endpoints
<1>4. call[c].op = "idle"
  BY DEF Idle
<1>5. Stood'
  BY <1>2, <1>3, <1>4, GrowKeeps
<1>6. QED
  BY <1>1, <1>2, <1>5, PartsStill, CallsMove DEF TablesInv, Typed

\* Most begin without a failure.
LEMMA BeginKeeps ==
    ASSUME TablesInv, NEW c \in Callers, NEW j, Begin(c, j), j \in CallRecords, CallSound(j),
           j.op = "create" => j.at = "table",
           j.op \in {"api", "admin", "auth"} => j.on \in registered,
           j.op = "oauth" => j.at = "secret"
    PROVE  TablesInv'
<1>1. /\ call[c] = Idle /\ calls < MaxCalls /\ calls' = calls + 1 /\ call' = [call EXCEPT ![c] = j]
      /\ UNCHANGED tables /\ UNCHANGED registry /\ UNCHANGED endpoints /\ UNCHANGED others
  BY DEF Begin
<1>2. OthersTyped'
  BY <1>1, CallIs, PartsStill
<1>3. torn' = torn
  BY <1>1 DEF others
<1>4. QED
  BY <1>1, <1>2, <1>3, StartKeeps

\* What a call knows that has read the secure columns, or failed to.
LEMMA ReadingIs ==
    ASSUME TablesInv, NEW c \in Callers, NEW j \in CallRecords, NEW t \in Tables, j.on = t, BeginReading(c, j)
    PROVE  /\ call[c] = Idle /\ calls < MaxCalls /\ calls' = calls + 1
           /\ UNCHANGED tables /\ UNCHANGED registry /\ UNCHANGED endpoints /\ OthersTyped' /\ torn' = torn
           /\ \E s \in SUBSET Secure : \E k \in CallRecords :
                 /\ call' = [call EXCEPT ![c] = k]
                 /\ k.op = j.op /\ k.at = j.at /\ k.on = t /\ k.seen = s /\ k.wrote = j.wrote
                 /\ k.add = j.add /\ k.drop = j.drop
                 /\ s = LoadSecureColumns(t) \/ faults' # faults
<1>1. RegistryTyped /\ OthersTyped /\ MaxFaults \in Nat
  BY CallIs
<1>2. LoadSecureColumns(t) \in SUBSET Secure
  BY <1>1 DEF LoadSecureColumns, RegistryTyped
<1>3. ASSUME NEW s \in SUBSET Secure, call' = [call EXCEPT ![c] = [j EXCEPT !.seen = s]],
             s = LoadSecureColumns(t) \/ faults' # faults
      PROVE  \E k \in CallRecords :
                /\ call' = [call EXCEPT ![c] = k]
                /\ k.op = j.op /\ k.at = j.at /\ k.on = t /\ k.seen = s /\ k.wrote = j.wrote
                /\ k.add = j.add /\ k.drop = j.drop
                /\ s = LoadSecureColumns(t) \/ faults' # faults
  <2> DEFINE k == [j EXCEPT !.seen = s]
  <2>1. s \in SUBSET Columns
    BY DEF Secure, Columns
  <2>2. /\ k \in CallRecords /\ k.op = j.op /\ k.at = j.at /\ k.on = t /\ k.seen = s
        /\ k.wrote = j.wrote /\ k.add = j.add /\ k.drop = j.drop
    BY <2>1 DEF CallRecords
  <2>3. call' = [call EXCEPT ![c] = k]
    BY <1>3
  <2> HIDE DEF k
  <2>4. QED
    BY <1>3, <2>2, <2>3
<1>4. CASE Begin(c, [j EXCEPT !.seen = LoadSecureColumns(j.on)])
  <2>1. /\ call[c] = Idle /\ calls < MaxCalls /\ calls' = calls + 1 /\ UNCHANGED others
        /\ UNCHANGED tables /\ UNCHANGED registry /\ UNCHANGED endpoints
        /\ call' = [call EXCEPT ![c] = [j EXCEPT !.seen = LoadSecureColumns(t)]]
    BY <1>4 DEF Begin
  <2>2. OthersTyped' /\ torn' = torn
    BY <1>1, <2>1, PartsStill DEF others
  <2>3. QED
    BY <1>2, <1>3, <2>1, <2>2
<1>5. ASSUME call[c] = Idle, calls < MaxCalls, faults < MaxFaults, calls' = calls + 1, faults' = faults + 1,
             call' = [call EXCEPT ![c] = [j EXCEPT !.seen = {}]],
             UNCHANGED <<tables, registry, endpoints, approval, torn>>
      PROVE  /\ call[c] = Idle /\ calls < MaxCalls /\ calls' = calls + 1
             /\ UNCHANGED tables /\ UNCHANGED registry /\ UNCHANGED endpoints /\ OthersTyped' /\ torn' = torn
             /\ \E s \in SUBSET Secure : \E k \in CallRecords :
                   /\ call' = [call EXCEPT ![c] = k]
                   /\ k.op = j.op /\ k.at = j.at /\ k.on = t /\ k.seen = s /\ k.wrote = j.wrote
                   /\ k.add = j.add /\ k.drop = j.drop
                   /\ s = LoadSecureColumns(t) \/ faults' # faults
  <2>1. OthersTyped' /\ torn' = torn /\ faults' # faults
    BY <1>1, <1>5 DEF OthersTyped
  <2>2. {} \in SUBSET Secure
    OBVIOUS
  <2>3. QED
    BY <1>3, <1>5, <2>1, <2>2
<1>6. QED
  BY <1>4, <1>5 DEF BeginReading

\* A call that ends without removing anything, or having marked what it leaves behind.
LEMMA EndKeeps ==
    ASSUME TablesInv, NEW c \in Callers, End(c), UNCHANGED tables, UNCHANGED registry, UNCHANGED endpoints,
           OthersTyped', torn \subseteq torn',
           (call[c].op = "drop" /\ call[c].at # "table") \/ call[c].op = "unoauth" => call[c].on \in torn'
    PROVE  TablesInv'
<1>1. PhysicalTyped /\ RegistryTyped /\ EndpointsTyped /\ CallsTyped
  BY CallIs
<1>2. Moves(c, Idle) /\ calls' \in 0 .. MaxCalls
  BY EndIs
<1>3. UNCHANGED <<there, registered, api, auth, oauth, secrets>>
  BY DEF tables, registry, endpoints
<1>4. Idle.op = "idle"
  BY DEF Idle
<1>5. Stood'
  BY <1>2, <1>3, <1>4, GrowKeeps
<1>6. QED
  BY <1>1, <1>2, <1>5, PartsStill, CallsMove DEF TablesInv, Typed

\* SQLite refuses a statement: the table is marked if the call has written before.
LEMMA RefusedKeeps == ASSUME TablesInv, NEW c \in Callers, Refused(c) PROVE TablesInv'
<1>1. /\ CallSound(call[c]) /\ OthersTyped /\ call[c] \in CallRecords
  BY CallIs
<1>2. call[c].wrote = TRUE => call[c].on \in Named
  BY <1>1 DEF CallSound, CallRecords, Named
<1>3. /\ torn' = IF call[c].wrote = TRUE THEN torn \cup {call[c].on} ELSE torn
      /\ End(c) /\ UNCHANGED <<approval, faults>>
      /\ UNCHANGED tables /\ UNCHANGED registry /\ UNCHANGED endpoints
  <2>1. call[c].wrote \in BOOLEAN
    BY <1>1 DEF CallRecords
  <2>2. torn' = IF call[c].wrote THEN torn \cup {call[c].on} ELSE torn
    BY DEF Refused
  <2>3. torn' = IF call[c].wrote = TRUE THEN torn \cup {call[c].on} ELSE torn
    BY <2>1, <2>2, Zenon
  <2>4. QED
    BY <2>3 DEF Refused
<1>4. OthersTyped' /\ torn \subseteq torn'
  BY <1>1, <1>2, <1>3 DEF OthersTyped
<1>5. (call[c].op = "drop" /\ call[c].at # "table") \/ call[c].op = "unoauth" => call[c].on \in torn'
  BY <1>1, <1>3 DEF CallSound
<1>6. QED
  BY <1>3, <1>4, <1>5, EndKeeps

\* A statement fails, and the call ends there.
LEMMA FailureKeeps == ASSUME TablesInv, NEW c \in Callers, StatementFails(c) PROVE TablesInv'
<1>1. /\ CallSound(call[c]) /\ OthersTyped /\ call[c] \in CallRecords /\ MaxFaults \in Nat
  BY CallIs
<1>2. call[c].wrote = TRUE => call[c].on \in Named
  BY <1>1 DEF CallSound, CallRecords, Named
<1>3. /\ torn' = IF call[c].wrote = TRUE THEN torn \cup {call[c].on} ELSE torn
      /\ End(c) /\ UNCHANGED approval /\ faults < MaxFaults /\ faults' = faults + 1
      /\ UNCHANGED tables /\ UNCHANGED registry /\ UNCHANGED endpoints
  <2>1. call[c].wrote \in BOOLEAN
    BY <1>1 DEF CallRecords
  <2>2. torn' = IF call[c].wrote THEN torn \cup {call[c].on} ELSE torn
    BY DEF StatementFails
  <2>3. torn' = IF call[c].wrote = TRUE THEN torn \cup {call[c].on} ELSE torn
    BY <2>1, <2>2, Zenon
  <2>4. QED
    BY <2>3 DEF StatementFails
<1>4. OthersTyped' /\ torn \subseteq torn'
  BY <1>1, <1>2, <1>3 DEF OthersTyped
<1>5. (call[c].op = "drop" /\ call[c].at # "table") \/ call[c].op = "unoauth" => call[c].on \in torn'
  BY <1>1, <1>3 DEF CallSound
<1>6. QED
  BY <1>3, <1>4, <1>5, EndKeeps

\* The process dies: every removal that had written leaves its table marked.
LEMMA CrashKeeps == ASSUME TablesInv, Crash PROVE TablesInv'
<1>1. /\ PhysicalTyped /\ RegistryTyped /\ EndpointsTyped /\ OthersTyped /\ CallsTyped /\ Stood
      /\ MaxFaults \in Nat /\ Idle \in CallRecords /\ CallSound(Idle)
  BY SiteTablesAssumption DEF TablesInv, Typed, Idle, CallRecords, CallSound, OnTables, Stages, Kinds
<1>2. /\ faults < MaxFaults /\ faults' = faults + 1 /\ call' = [c \in Callers |-> Idle]
      /\ torn' = torn \cup {call[c].on : c \in {x \in Callers : call[x].wrote}}
      /\ UNCHANGED approval /\ UNCHANGED calls
      /\ UNCHANGED tables /\ UNCHANGED registry /\ UNCHANGED endpoints
  BY DEF Crash
<1>3. \A c \in Callers : call[c].wrote = TRUE => call[c].on \in torn' /\ call[c].on \in Named
  <2> SUFFICES ASSUME NEW c \in Callers, call[c].wrote = TRUE PROVE call[c].on \in torn' /\ call[c].on \in Named
    OBVIOUS
  <2>1. call[c].on \in torn'
    BY <1>2
  <2>2. call[c].on \in Named
    BY <1>1 DEF CallsTyped, CallSound, CallRecords, Named
  <2>3. QED
    BY <2>1, <2>2
<1>4. torn' \subseteq Named /\ torn \subseteq torn'
  <2>1. ASSUME NEW c \in Callers, call[c].wrote PROVE call[c].on \in Named
    <3>1. call[c].wrote \in BOOLEAN
      BY <1>1 DEF CallsTyped, CallRecords
    <3>2. call[c].wrote = TRUE
      BY <2>1, <3>1, Zenon
    <3>3. QED
      BY <1>3, <3>2
  <2>2. QED
    BY <1>1, <1>2, <2>1 DEF OthersTyped
<1>5. OthersTyped' /\ CallsTyped'
  BY <1>1, <1>2, <1>4 DEF OthersTyped, CallsTyped
<1>6. UNCHANGED <<there, registered, api, auth, oauth, secrets>>
  BY <1>2 DEF tables, registry, endpoints
<1>7. /\ \A t, P : "table" \notin P /\ Dropping(t, P) => t \in torn'
      /\ \A n : Forgetting(n) => n \in torn'
  BY <1>1, <1>3 DEF Dropping, Forgetting, CallsTyped, CallSound
<1>8. RegisteredStand'
  <2>1. \A t : Dropping(t, {"registry"}) => t \in torn'
    BY <1>7
  <2>2. QED
    BY <1>1, <1>4, <1>6, <2>1 DEF Stood, RegisteredStand
<1>9. ApiStand' /\ AuthStand'
  <2>1. \A t : Dropping(t, {"api"}) \/ Dropping(t, {"api", "auth"}) => t \in torn'
    BY <1>7
  <2>2. QED
    BY <1>1, <1>4, <1>6, <2>1 DEF Stood, ApiStand, AuthStand
<1>10. OAuthStand' /\ CallsStand'
  BY <1>1, <1>2, <1>4, <1>6, <1>7 DEF Stood, OAuthStand, CallsStand, Idle
<1>11. QED
  BY <1>1, <1>2, <1>5, <1>8, <1>9, <1>10, PartsStill DEF TablesInv, Typed, Stood

-----------------------------------------------------------------------------
(* manage_schema                                                           *)

\* create begins: it relies on nothing.
LEMMA CreateTableKeeps ==
    ASSUME TablesInv, NEW c \in Callers, NEW t \in Tables, CreateTable(c, t)
    PROVE  TablesInv'
<1>1. PICK more \in SUBSET {"secret", "role"}, s \in BOOLEAN :
         Begin(c, [Idle EXCEPT !.op = "create", !.at = "table", !.on = t,
                               !.add = {"name"} \cup more, !.search = s])
  BY DEF CreateTable
<1> DEFINE j == [Idle EXCEPT !.op = "create", !.at = "table", !.on = t, !.add = {"name"} \cup more, !.search = s]
<1>2. Idle \in CallRecords
  BY CallIs
<1>3. {"name"} \cup more \in SUBSET Columns
  BY DEF Columns
<1>4. j \in CallRecords /\ j.op = "create" /\ j.at = "table" /\ j.on = t
  BY <1>2, <1>3 DEF CallRecords, OnTables, Stages, Named
<1>5. Begin(c, j)
  BY <1>1
<1> HIDE DEF j
<1>6. CallSound(j)
  BY <1>4 DEF CallSound
<1>7. QED
  BY <1>4, <1>5, <1>6, BeginKeeps

\* alter begins with the secure columns as it has read them.
LEMMA AlterTableIs ==
    ASSUME TablesInv, NEW c \in Callers, NEW t \in Tables, AlterTable(c, t)
    PROVE  \E j \in CallRecords : /\ j.op = "alter" /\ j.at = "add" /\ j.on = t /\ j.wrote = FALSE
                                  /\ BeginReading(c, j)
<1>1. PICK d \in Changes : BeginReading(c, [Idle EXCEPT !.op = "alter", !.at = "add", !.on = t, !.add = d[1],
                                                        !.drop = d[2]])
  BY DEF AlterTable
<1> DEFINE j == [Idle EXCEPT !.op = "alter", !.at = "add", !.on = t, !.add = d[1], !.drop = d[2]]
<1>2. Idle \in CallRecords /\ Idle.wrote = FALSE
  BY CallIs DEF Idle
<1>3. d[1] \in SUBSET Columns /\ d[2] \in SUBSET Columns
  BY DEF Changes, Columns
<1>4. j \in CallRecords /\ j.op = "alter" /\ j.at = "add" /\ j.on = t /\ j.wrote = FALSE
  BY <1>2, <1>3 DEF CallRecords, OnTables, Stages, Named
<1>5. BeginReading(c, j)
  BY <1>1
<1> HIDE DEF j
<1>6. QED
  BY <1>4, <1>5

LEMMA AlterTableKeeps ==
    ASSUME TablesInv, NEW c \in Callers, NEW t \in Tables, AlterTable(c, t)
    PROVE  TablesInv'
<1>1. PICK j \in CallRecords : /\ j.op = "alter" /\ j.at = "add" /\ j.on = t /\ j.wrote = FALSE
                               /\ BeginReading(c, j)
  BY AlterTableIs
<1>2. PICK s \in SUBSET Secure, k \in CallRecords :
         /\ call' = [call EXCEPT ![c] = k] /\ k.op = "alter" /\ k.at = "add" /\ k.on = t /\ k.seen = s
  BY <1>1, ReadingIs
<1>3. CallSound(k)
  BY <1>2 DEF CallSound, OnTables
<1>4. QED
  BY <1>1, <1>2, <1>3, ReadingIs, StartKeeps

\* A question to the owner changes nothing else.
LEMMA AskTyped ==
    ASSUME OthersTyped, NEW g \in Gates \X Tables, Ask(g), UNCHANGED <<faults, torn>>
    PROVE  OthersTyped'
  BY DEF OthersTyped, Ask

\* drop asks, or begins with an approval.
LEMMA DropTableKeeps ==
    ASSUME TablesInv, NEW c \in Callers, NEW t \in Tables, DropTable(c, t)
    PROVE  TablesInv'
<1>1. CASE Begin(c, [Idle EXCEPT !.op = "drop", !.at = "table", !.on = t])
  <2> DEFINE j == [Idle EXCEPT !.op = "drop", !.at = "table", !.on = t]
  <2>1. Idle \in CallRecords
    BY CallIs
  <2>2. j \in CallRecords /\ j.op = "drop" /\ j.at = "table" /\ j.on = t
    BY <2>1 DEF CallRecords, OnTables, Stages, Named
  <2>3. Begin(c, j)
    BY <1>1
  <2> HIDE DEF j
  <2>4. CallSound(j)
    BY <2>2 DEF CallSound
  <2>5. QED
    BY <2>2, <2>3, <2>4, BeginKeeps
<1>2. CASE /\ Single(c) /\ Ask(<<"drop", t>>)
           /\ UNCHANGED <<tables, registry, endpoints, faults, torn>>
  <2>1. /\ PhysicalTyped /\ RegistryTyped /\ EndpointsTyped /\ OthersTyped /\ CallsTyped
    BY CallIs
  <2>2. <<"drop", t>> \in Gates \X Tables
    BY DEF Gates
  <2>3. OthersTyped'
    BY <1>2, <2>1, <2>2, AskTyped
  <2>4. Moves(c, call[c]) /\ calls' \in 0 .. MaxCalls
    BY <1>2, SingleIs
  <2>5. UNCHANGED <<there, registered, api, auth, oauth, secrets, torn>>
    BY <1>2 DEF tables, registry, endpoints
  <2>6. Stood'
    BY <2>4, <2>5, GrowKeeps
  <2>7. QED
    BY <1>2, <2>1, <2>3, <2>4, <2>6, PartsStill, CallsMove DEF TablesInv, Typed
<1>3. QED
  BY <1>1, <1>2 DEF DropTable

\* The physical table is there before it is registered.
LEMMA CreatePhysicalKeeps == ASSUME TablesInv, NEW c \in Callers, CreatePhysical(c) PROVE TablesInv'
<1> DEFINE t == call[c].on
           j == [call[c] EXCEPT !.at = "register", !.wrote = TRUE]
<1>1. /\ PhysicalTyped /\ RegistryTyped /\ EndpointsTyped /\ OthersTyped /\ CallsTyped
      /\ call[c] \in CallRecords /\ CallSound(call[c])
  BY CallIs
<1>2. /\ call[c].op = "create" /\ Goto(c, "register")
      /\ there' = there \cup {t}
      /\ cols' = IF t \in there THEN cols ELSE [cols EXCEPT ![t] = call[c].add]
      /\ UNCHANGED <<rows, index>> /\ UNCHANGED registry /\ UNCHANGED endpoints /\ UNCHANGED others
  BY DEF CreatePhysical, Stands
<1>3. t \in Tables /\ t \in Named /\ call[c].add \in SUBSET Columns
  BY <1>1, <1>2 DEF CallSound, OnTables, CallRecords, Named
<1>4. Moves(c, j) /\ j.op = "create" /\ j.on = t /\ calls' \in 0 .. MaxCalls
  BY <1>2, <1>3, GotoIs DEF Stages
<1>5. PhysicalTyped'
  BY <1>1, <1>2, <1>3 DEF PhysicalTyped
<1>6. UNCHANGED <<registered, api, auth, oauth, secrets, torn>>
  BY <1>2 DEF registry, endpoints, others
<1> HIDE DEF j
<1>7. Stood'
  BY <1>2, <1>4, <1>6, GrowKeeps
<1>8. QED
  BY <1>1, <1>2, <1>4, <1>5, <1>7, PartsStill, CallsMove DEF TablesInv, Typed

\* A table is registered by a call that has found it there.
LEMMA RegisterTableKeeps == ASSUME TablesInv, NEW c \in Callers, RegisterTable(c) PROVE TablesInv'
<1> DEFINE t == call[c].on
<1>1. /\ PhysicalTyped /\ RegistryTyped /\ EndpointsTyped /\ OthersTyped /\ CallsTyped /\ Stood
      /\ call[c] \in CallRecords /\ CallSound(call[c])
  BY CallIs
<1>2. /\ call[c].op = "create" /\ call[c].at = "register"
      /\ registered' = registered \cup {t}
      /\ def' = [def EXCEPT ![t] = call[c].add]
      /\ secure' = [secure EXCEPT ![t] = call[c].add \cap Secure]
      /\ Goto(c, "index") \/ End(c)
      /\ UNCHANGED tables /\ UNCHANGED endpoints /\ UNCHANGED others
  BY DEF RegisterTable, Stands
<1>3. t \in Tables /\ t \in Named /\ call[c].add \in SUBSET Columns
  BY <1>1, <1>2 DEF CallSound, OnTables, CallRecords, Named
<1>4. RegistryTyped'
  BY <1>1, <1>2, <1>3 DEF RegistryTyped
<1>5. UNCHANGED <<there, api, auth, oauth, secrets, torn>>
  BY <1>2 DEF tables, endpoints, others
<1>6. t \in there \cup torn
  BY <1>1, <1>2 DEF Stood, CallsStand
<1>7. PICK j : Moves(c, j) /\ ((j.op = "create" /\ j.at = "index") \/ j.op = "idle") /\ calls' \in 0 .. MaxCalls
  <2>1. CASE Goto(c, "index")
    <3> DEFINE j == [call[c] EXCEPT !.at = "index", !.wrote = TRUE]
    <3>1. Moves(c, j) /\ j.op = "create" /\ j.at = "index" /\ calls' \in 0 .. MaxCalls
      BY <1>2, <1>3, <2>1, GotoIs DEF Stages
    <3>2. QED
      BY <3>1
  <2>2. CASE End(c)
    <3>1. Moves(c, Idle) /\ Idle.op = "idle" /\ calls' \in 0 .. MaxCalls
      BY <2>2, EndIs DEF Idle
    <3>2. QED
      BY <3>1
  <2>3. QED
    BY <1>2, <2>1, <2>2
<1>8. Stood'
  BY <1>2, <1>5, <1>6, <1>7, GrowKeeps
<1>9. QED
  BY <1>1, <1>2, <1>4, <1>7, <1>8, PartsStill, CallsMove DEF TablesInv, Typed

\* The full text index is no part of what has to stand.
LEMMA CreateIndexKeeps == ASSUME TablesInv, NEW c \in Callers, CreateFTSIndex(c) PROVE TablesInv'
<1> DEFINE t == call[c].on
<1>1. /\ PhysicalTyped /\ RegistryTyped /\ EndpointsTyped /\ OthersTyped /\ CallsTyped
      /\ call[c] \in CallRecords /\ CallSound(call[c]) /\ faults \in 0 .. MaxFaults /\ MaxFaults \in Nat
  BY CallIs
<1>2. /\ call[c].op = "create" /\ End(c)
      /\ UNCHANGED <<there, cols, rows, approval, torn>> /\ UNCHANGED registry /\ UNCHANGED endpoints
      /\ \/ index' = [index EXCEPT ![t] = @ \cup {"table", "triggers"}] /\ UNCHANGED faults
         \/ /\ faults < MaxFaults /\ faults' = faults + 1
            /\ \E done \in {{}, {"table"}} : index' = [index EXCEPT ![t] = @ \cup done]
         \/ UNCHANGED <<index, faults>>
  BY DEF CreateFTSIndex, Stands
<1>3. t \in Tables
  BY <1>1, <1>2 DEF CallSound, OnTables
<1>4. index' \in [Tables -> SUBSET {"table", "triggers", "old"}] /\ faults' \in 0 .. MaxFaults
  BY <1>1, <1>2, <1>3 DEF PhysicalTyped
<1>5. PhysicalTyped' /\ OthersTyped'
  BY <1>1, <1>2, <1>4 DEF PhysicalTyped, OthersTyped
<1>6. Moves(c, Idle) /\ calls' \in 0 .. MaxCalls /\ Idle.op = "idle"
  BY <1>2, EndIs DEF Idle
<1>7. UNCHANGED <<registered, api, auth, oauth, secrets>>
  BY <1>2 DEF registry, endpoints
<1>8. Stood'
  BY <1>2, <1>6, <1>7, GrowKeeps
<1>9. QED
  BY <1>1, <1>2, <1>5, <1>6, <1>8, PartsStill, CallsMove DEF TablesInv, Typed

\* A column is added to a table that exists, and becomes known as secure.
LEMMA AddColumnKeeps == ASSUME TablesInv, NEW c \in Callers, AddColumn(c) PROVE TablesInv'
<1> DEFINE t == call[c].on
<1>1. /\ PhysicalTyped /\ RegistryTyped /\ EndpointsTyped /\ OthersTyped /\ CallsTyped
      /\ call[c] \in CallRecords /\ CallSound(call[c]) /\ calls \in 0 .. MaxCalls
  BY CallIs
<1>2. call[c].op = "alter" /\ call[c].at = "add"
  BY DEF AddColumn, Stands
<1>3. t \in Tables
  BY <1>1, <1>2 DEF CallSound, OnTables
<1>4. CASE Refused(c)
  BY <1>4, RefusedKeeps
<1>5. ASSUME NEW k \in call[c].add, t \in there,
             cols' = [cols EXCEPT ![t] = @ \cup {k}],
             call' = [call EXCEPT ![c].add = @ \ {k}, ![c].wrote = TRUE, ![c].seen = @ \cup ({k} \cap Secure)],
             UNCHANGED <<there, rows, index, registry, endpoints, others, calls>>
      PROVE  TablesInv'
  <2> DEFINE j == [call[c] EXCEPT !.add = call[c].add \ {k}, !.wrote = TRUE,
                                  !.seen = call[c].seen \cup ({k} \cap Secure)]
  <2>1. call' = [call EXCEPT ![c] = j]
    BY <1>1, <1>5 DEF CallsTyped, CallRecords
  <2>2. k \in Columns /\ call[c].seen \subseteq Secure
    BY <1>1, <1>2 DEF CallRecords, CallSound
  <2>3. j \in CallRecords /\ j.op = "alter" /\ j.at = "add" /\ j.on = t /\ j.wrote = TRUE /\ j.seen \subseteq Secure
    BY <1>1, <1>2, <2>2 DEF CallRecords, Secure, Columns
  <2> HIDE DEF j
  <2>4. Moves(c, j)
    BY <1>3, <2>1, <2>3 DEF Moves, CallSound
  <2>5. PhysicalTyped'
    BY <1>1, <1>3, <1>5, <2>2 DEF PhysicalTyped
  <2>6. UNCHANGED <<there, registered, api, auth, oauth, secrets, torn>> /\ calls' \in 0 .. MaxCalls
    BY <1>1, <1>5 DEF registry, endpoints, others
  <2>7. Stood'
    BY <1>2, <2>3, <2>4, <2>6, GrowKeeps
  <2>8. QED
    BY <1>1, <1>5, <2>4, <2>5, <2>6, <2>7, PartsStill, CallsMove DEF TablesInv, Typed
<1>6. QED
  BY <1>4, <1>5 DEF AddColumn

\* The gate of alter asks and ends the call, or lets it go on.
LEMMA GateColumnsKeeps == ASSUME TablesInv, NEW c \in Callers, GateColumns(c) PROVE TablesInv'
<1> DEFINE g == <<"columns", call[c].on>>
<1>1. /\ PhysicalTyped /\ RegistryTyped /\ EndpointsTyped /\ OthersTyped /\ CallsTyped
      /\ call[c] \in CallRecords /\ CallSound(call[c]) /\ calls \in 0 .. MaxCalls
  BY CallIs
<1>2. /\ call[c].op = "alter" /\ call[c].at = "add"
      /\ UNCHANGED <<faults, torn>> /\ UNCHANGED tables /\ UNCHANGED registry /\ UNCHANGED endpoints
      /\ \/ call' = [call EXCEPT ![c].at = "drop"] /\ UNCHANGED <<approval, calls>>
         \/ Ask(g) /\ End(c)
  BY DEF GateColumns, Stands
<1>3. call[c].on \in Tables /\ g \in Gates \X Tables
  BY <1>1, <1>2 DEF CallSound, OnTables, Gates
<1>4. CASE Ask(g) /\ End(c)
  <2>1. OthersTyped'
    BY <1>1, <1>2, <1>3, <1>4, AskTyped
  <2>2. QED
    BY <1>2, <1>4, <2>1, EndKeeps
<1>5. CASE call' = [call EXCEPT ![c].at = "drop"] /\ UNCHANGED <<approval, calls>>
  <2> DEFINE j == [call[c] EXCEPT !.at = "drop"]
  <2>1. call' = [call EXCEPT ![c] = j]
    BY <1>5
  <2>2. /\ j \in CallRecords /\ j.op = "alter" /\ j.at = "drop" /\ j.on = call[c].on /\ j.seen = call[c].seen
    BY <1>1, <1>2 DEF CallRecords, Stages
  <2> HIDE DEF j
  <2>3. Moves(c, j)
    BY <1>1, <1>2, <1>3, <2>1, <2>2 DEF Moves, CallSound
  <2>4. UNCHANGED <<there, registered, api, auth, oauth, secrets, torn>> /\ calls' \in 0 .. MaxCalls
    BY <1>1, <1>2, <1>5 DEF tables, registry, endpoints
  <2>5. Stood'
    BY <1>2, <2>2, <2>3, <2>4, GrowKeeps
  <2>6. UNCHANGED others
    BY <1>2, <1>5 DEF others
  <2>7. QED
    BY <1>1, <1>2, <2>3, <2>4, <2>5, <2>6, PartsStill, CallsMove DEF TablesInv, Typed
<1>6. QED
  BY <1>2, <1>4, <1>5

\* A column goes, and its values with it.
LEMMA DropColumnKeeps == ASSUME TablesInv, NEW c \in Callers, DropColumn(c) PROVE TablesInv'
<1> DEFINE t == call[c].on
<1>1. /\ PhysicalTyped /\ RegistryTyped /\ EndpointsTyped /\ OthersTyped /\ CallsTyped
      /\ call[c] \in CallRecords /\ CallSound(call[c]) /\ calls \in 0 .. MaxCalls
  BY CallIs
<1>2. call[c].op = "alter" /\ call[c].at = "drop"
  BY DEF DropColumn, Stands
<1>3. t \in Tables
  BY <1>1, <1>2 DEF CallSound, OnTables
<1>4. CASE Refused(c)
  BY <1>4, RefusedKeeps
<1>5. ASSUME cols' = [cols EXCEPT ![t] = @ \ call[c].drop],
             rows' = IF call[c].drop = Secure THEN [rows EXCEPT ![t] = {}] ELSE rows,
             call' = [call EXCEPT ![c].at = "add", ![c].drop = {}, ![c].wrote = TRUE,
                                  ![c].seen = @ \ call[c].drop],
             UNCHANGED <<there, index, registry, endpoints, others, calls>>
      PROVE  TablesInv'
  <2> DEFINE j == [call[c] EXCEPT !.at = "add", !.drop = {}, !.wrote = TRUE, !.seen = call[c].seen \ call[c].drop]
  <2>1. call' = [call EXCEPT ![c] = j]
    BY <1>1, <1>5 DEF CallsTyped, CallRecords
  <2>2. call[c].seen \subseteq Secure /\ call[c].seen \in SUBSET Columns
    BY <1>1, <1>2 DEF CallRecords, CallSound
  <2>3. j \in CallRecords /\ j.op = "alter" /\ j.at = "add" /\ j.on = t /\ j.wrote = TRUE /\ j.seen \subseteq Secure
    BY <1>1, <1>2, <2>2 DEF CallRecords, Stages
  <2> HIDE DEF j
  <2>4. Moves(c, j)
    BY <1>3, <2>1, <2>3 DEF Moves, CallSound
  <2>5. PhysicalTyped'
    BY <1>1, <1>3, <1>5 DEF PhysicalTyped
  <2>6. UNCHANGED <<there, registered, api, auth, oauth, secrets, torn>> /\ calls' \in 0 .. MaxCalls
    BY <1>1, <1>5 DEF registry, endpoints, others
  <2>7. Stood'
    BY <1>2, <2>3, <2>4, <2>6, GrowKeeps
  <2>8. QED
    BY <1>1, <1>5, <2>4, <2>5, <2>6, <2>7, PartsStill, CallsMove DEF TablesInv, Typed
<1>6. QED
  BY <1>4, <1>5 DEF DropColumn

\* The secure columns of a registered table are replaced by those the call knows of.
LEMMA SecureReplaced ==
    ASSUME TablesInv, NEW c \in Callers, call[c].op \in {"alter", "column"}, End(c),
           secure' = IF call[c].on \in registered THEN [secure EXCEPT ![call[c].on] = call[c].seen] ELSE secure,
           UNCHANGED <<registered, def>>, UNCHANGED tables, UNCHANGED endpoints, UNCHANGED others
    PROVE  TablesInv'
<1>1. /\ PhysicalTyped /\ RegistryTyped /\ EndpointsTyped /\ OthersTyped /\ CallsTyped
      /\ call[c] \in CallRecords /\ CallSound(call[c])
  BY CallIs
<1>2. RegistryTyped'
  BY <1>1 DEF RegistryTyped, CallSound
<1>3. Moves(c, Idle) /\ calls' \in 0 .. MaxCalls /\ Idle.op = "idle"
  BY EndIs DEF Idle
<1>4. UNCHANGED <<there, registered, api, auth, oauth, secrets, torn>>
  BY DEF tables, endpoints, others
<1>5. Stood'
  BY <1>3, <1>4, GrowKeeps
<1>6. QED
  BY <1>1, <1>2, <1>3, <1>5, PartsStill, CallsMove DEF TablesInv, Typed

\* alter and the admin write secure columns back to a table still registered.
LEMMA WriteSecureKeeps ==
    ASSUME TablesInv, NEW c \in Callers, WriteSecureColumns(c) \/ AdminWriteSecure(c) PROVE TablesInv'
<1>1. /\ call[c].op \in {"alter", "column"} /\ End(c)
      /\ secure' = IF call[c].on \in registered THEN [secure EXCEPT ![call[c].on] = call[c].seen] ELSE secure
      /\ UNCHANGED <<registered, def>> /\ UNCHANGED tables /\ UNCHANGED endpoints /\ UNCHANGED others
  BY DEF WriteSecureColumns, AdminWriteSecure, Stands
<1>2. QED
  BY <1>1, SecureReplaced

-----------------------------------------------------------------------------
(* Removals                                                                *)

\* Whoever else works on what is removed is marked.
LEMMA OverlapIs ==
    ASSUME TablesInv, NEW c \in Callers, NEW t \in Named, torn' = torn \cup Overlapped(c, t), UNCHANGED <<approval, faults>>
    PROVE  /\ OthersTyped' /\ torn \subseteq torn'
           /\ \A o \in Callers : o # c /\ call[o].on = t /\ call[o].op # "idle" => t \in torn'
<1>1. OthersTyped
  BY CallIs
<1>2. Overlapped(c, t) \subseteq {t}
  BY DEF Overlapped
<1>3. OthersTyped' /\ torn \subseteq torn'
  BY <1>1, <1>2 DEF OthersTyped
<1>4. ASSUME NEW o \in Callers, o # c, call[o].on = t, call[o].op # "idle" PROVE t \in torn'
  <2>1. o \in Callers \ {c}
    BY <1>4
  <2>2. Overlapped(c, t) = {t}
    BY <1>4, <2>1 DEF Overlapped
  <2>3. QED
    BY <2>2
<1>5. QED
  BY <1>3, <1>4

\* The removal of t by c goes on as j: the other calls stand, or work on t and are marked.
LEMMA OthersStand ==
    ASSUME TablesInv, NEW c \in Callers, NEW t \in Named, NEW j, Moves(c, j), torn' = torn \cup Overlapped(c, t),
           UNCHANGED <<approval, faults>>, call[c].on = t, j.op \in {"drop", "unoauth", "idle"},
           there \ {t} \subseteq there', registered \ {t} \subseteq registered', secrets \ {t} \subseteq secrets'
    PROVE  CallsStand'
<1>1. CallsTyped /\ Stood
  BY CallIs
<1>2. call'[c] = j /\ \A o \in Callers : o # c => call'[o] = call[o]
  BY <1>1, OneMoves
<1>3. torn \subseteq torn' /\ \A o \in Callers : o # c /\ call[o].on = t /\ call[o].op # "idle" => t \in torn'
  BY OverlapIs
<1> SUFFICES ASSUME NEW o \in Callers, call'[o].on \notin torn'
             PROVE  /\ call'[o].op = "create" /\ call'[o].at = "register" => call'[o].on \in there'
                    /\ call'[o].op \in {"api", "admin", "auth"} => call'[o].on \in registered'
                    /\ call'[o].op = "oauth" /\ call'[o].at = "insert" => call'[o].on \in secrets'
  BY DEF CallsStand
<1>4. CASE o = c
  BY <1>2, <1>4
<1>5. CASE o # c
  <2>1. call'[o] = call[o] /\ call[o].on \notin torn
    BY <1>2, <1>3, <1>5
  <2>2. CASE call[o].on = t
    <3>1. call[o].op = "idle"
      BY <1>3, <1>5, <2>1, <2>2
    <3>2. QED
      BY <2>1, <3>1
  <2>3. CASE call[o].on # t
    BY <1>1, <2>1, <2>3 DEF Stood, CallsStand
  <2>4. QED
    BY <2>2, <2>3
<1>6. QED
  BY <1>4, <1>5

\* The removals of the others go on.
LEMMA OthersRemove ==
    ASSUME CallsTyped, NEW c \in Callers, NEW j, Moves(c, j)
    PROVE  /\ \A u, P : Dropping(u, P) => Dropping(u, P)' \/ (call[c].op = "drop" /\ call[c].on = u /\ call[c].at \in P)
           /\ \A n : Forgetting(n) => Forgetting(n)' \/ (call[c].op = "unoauth" /\ call[c].on = n)
           /\ \A P : j.op = "drop" /\ j.at \in P => Dropping(j.on, P)'
<1>1. call'[c] = j /\ \A o \in Callers : o # c => call'[o] = call[o]
  BY OneMoves
<1>2. ASSUME NEW u, NEW P, Dropping(u, P), ~(call[c].op = "drop" /\ call[c].on = u /\ call[c].at \in P)
      PROVE  Dropping(u, P)'
  <2>1. PICK o \in Callers : call[o].op = "drop" /\ call[o].on = u /\ call[o].at \in P
    BY <1>2 DEF Dropping
  <2>2. o # c
    BY <1>2, <2>1
  <2>3. QED
    BY <1>1, <2>1, <2>2 DEF Dropping
<1>3. ASSUME NEW n, Forgetting(n), ~(call[c].op = "unoauth" /\ call[c].on = n) PROVE Forgetting(n)'
  <2>1. PICK o \in Callers : call[o].op = "unoauth" /\ call[o].on = n
    BY <1>3 DEF Forgetting
  <2>2. o # c
    BY <1>3, <2>1
  <2>3. QED
    BY <1>1, <2>1, <2>2 DEF Forgetting
<1>4. \A P : j.op = "drop" /\ j.at \in P => Dropping(j.on, P)'
  BY <1>1 DEF Dropping
<1>5. QED
  BY <1>2, <1>3, <1>4

\* The next stage of a removal.
LEMMA DropGoesOn ==
    ASSUME TablesInv, NEW c \in Callers, NEW from, NEW to \in {"registry", "api", "auth"},
           Stands(c, "drop", from), Goto(c, to)
    PROVE  /\ call[c].on \in Tables /\ call[c].on \in Named
           /\ \E j : Moves(c, j) /\ j.op = "drop" /\ j.on = call[c].on /\ j.at = to /\ calls' \in 0 .. MaxCalls
<1> DEFINE j == [call[c] EXCEPT !.at = to, !.wrote = TRUE]
<1>1. call[c].on \in Tables /\ call[c].on \in Named /\ call[c].op = "drop"
  BY CallIs DEF CallSound, OnTables, Named, Stands
<1>2. to \in Stages /\ to # "write"
  BY DEF Stages
<1>3. /\ j.op \notin {"idle", "link"} => Moves(c, j)
      /\ j.op = call[c].op /\ j.on = call[c].on /\ j.at = to /\ calls' \in 0 .. MaxCalls
  BY <1>1, <1>2, GotoIs
<1> HIDE DEF j
<1>4. QED
  BY <1>1, <1>3

\* The table goes, the registry has it still.
LEMMA DropPhysicalKeeps == ASSUME TablesInv, NEW c \in Callers, DropPhysical(c) PROVE TablesInv'
<1> DEFINE t == call[c].on
<1>1. /\ PhysicalTyped /\ RegistryTyped /\ EndpointsTyped /\ OthersTyped /\ CallsTyped /\ Stood
  BY CallIs
<1>2. /\ Stands(c, "drop", "table") /\ Goto(c, "registry")
      /\ there' = there \ {t}
      /\ cols' = [cols EXCEPT ![t] = {}] /\ rows' = [rows EXCEPT ![t] = {}]
      /\ index' = [index EXCEPT ![t] = IF "table" \in @ THEN {"table", "old"} ELSE {}]
      /\ torn' = torn \cup Overlapped(c, t) /\ UNCHANGED <<approval, faults>>
      /\ UNCHANGED registry /\ UNCHANGED endpoints
  BY DEF DropPhysical
<1>3. PICK j : /\ t \in Tables /\ t \in Named
               /\ Moves(c, j) /\ j.op = "drop" /\ j.on = t /\ j.at = "registry" /\ calls' \in 0 .. MaxCalls
  BY <1>2, DropGoesOn
<1>4. PhysicalTyped'
  BY <1>1, <1>2, <1>3 DEF PhysicalTyped
<1>5. OthersTyped' /\ torn \subseteq torn'
  BY <1>2, <1>3, OverlapIs
<1>6. UNCHANGED <<registered, api, auth, oauth, secrets>>
  BY <1>2 DEF registry, endpoints
<1>7. call[c].op = "drop" /\ call[c].at = "table"
  BY <1>2 DEF Stands
<1>8. CallsStand'
  BY <1>2, <1>3, <1>6, <1>7, OthersStand
<1>9. /\ \A u : Dropping(u, {"registry"}) => Dropping(u, {"registry"})'
      /\ \A u : Dropping(u, {"api"}) => Dropping(u, {"api"})'
      /\ \A u : Dropping(u, {"api", "auth"}) => Dropping(u, {"api", "auth"})'
      /\ \A n : Forgetting(n) => Forgetting(n)'
      /\ \A u : u = t => Dropping(u, {"registry"})'
  <2>1. \A u : Dropping(u, {"registry"}) => Dropping(u, {"registry"})'
    BY <1>1, <1>3, <1>7, OthersRemove
  <2>2. \A u : Dropping(u, {"api"}) => Dropping(u, {"api"})'
    BY <1>1, <1>3, <1>7, OthersRemove
  <2>3. \A u : Dropping(u, {"api", "auth"}) => Dropping(u, {"api", "auth"})'
    BY <1>1, <1>3, <1>7, OthersRemove
  <2>4. \A n : Forgetting(n) => Forgetting(n)'
    BY <1>1, <1>3, <1>7, OthersRemove
  <2>5. \A u : u = t => Dropping(u, {"registry"})'
    BY <1>1, <1>3, <1>7, OthersRemove
  <2>6. QED
    BY <2>1, <2>2, <2>3, <2>4, <2>5
<1>10. RegisteredStand'
  BY <1>1, <1>2, <1>5, <1>6, <1>9 DEF Stood, RegisteredStand
<1>11. ApiStand' /\ AuthStand' /\ OAuthStand'
  BY <1>1, <1>5, <1>6, <1>9 DEF Stood, ApiStand, AuthStand, OAuthStand
<1>12. QED
  BY <1>1, <1>2, <1>3, <1>4, <1>5, <1>8, <1>10, <1>11, PartsStill, CallsMove DEF TablesInv, Typed, Stood

\* The registry forgets it, the endpoints stand on it still.
LEMMA DropRegisteredKeeps == ASSUME TablesInv, NEW c \in Callers, DropRegistered(c) PROVE TablesInv'
<1> DEFINE t == call[c].on
<1>1. /\ PhysicalTyped /\ RegistryTyped /\ EndpointsTyped /\ OthersTyped /\ CallsTyped /\ Stood
  BY CallIs
<1>2. /\ Stands(c, "drop", "registry") /\ Goto(c, "api")
      /\ registered' = registered \ {t}
      /\ torn' = torn \cup Overlapped(c, t) /\ UNCHANGED <<approval, faults>>
      /\ UNCHANGED tables /\ UNCHANGED <<def, secure>> /\ UNCHANGED endpoints
  BY DEF DropRegistered
<1>3. PICK j : /\ t \in Tables /\ t \in Named
               /\ Moves(c, j) /\ j.op = "drop" /\ j.on = t /\ j.at = "api" /\ calls' \in 0 .. MaxCalls
  BY <1>2, DropGoesOn
<1>4. RegistryTyped'
  BY <1>1, <1>2 DEF RegistryTyped
<1>5. OthersTyped' /\ torn \subseteq torn'
  BY <1>2, <1>3, OverlapIs
<1>6. UNCHANGED <<there, api, auth, oauth, secrets>>
  BY <1>2 DEF tables, endpoints
<1>7. call[c].op = "drop" /\ call[c].at = "registry"
  BY <1>2 DEF Stands
<1>8. CallsStand'
  BY <1>2, <1>3, <1>6, <1>7, OthersStand
<1>9. /\ \A u : u # t /\ Dropping(u, {"registry"}) => Dropping(u, {"registry"})'
      /\ \A u : Dropping(u, {"api"}) => Dropping(u, {"api"})'
      /\ \A u : Dropping(u, {"api", "auth"}) => Dropping(u, {"api", "auth"})'
      /\ \A n : Forgetting(n) => Forgetting(n)'
      /\ \A u : u = t => Dropping(u, {"api"})' /\ Dropping(u, {"api", "auth"})'
  <2>1. \A u : u # t /\ Dropping(u, {"registry"}) => Dropping(u, {"registry"})'
    BY <1>1, <1>3, <1>7, OthersRemove
  <2>2. \A u : Dropping(u, {"api"}) => Dropping(u, {"api"})'
    BY <1>1, <1>3, <1>7, OthersRemove
  <2>3. \A u : Dropping(u, {"api", "auth"}) => Dropping(u, {"api", "auth"})'
    BY <1>1, <1>3, <1>7, OthersRemove
  <2>4. \A n : Forgetting(n) => Forgetting(n)'
    BY <1>1, <1>3, <1>7, OthersRemove
  <2>5. \A u : u = t => Dropping(u, {"api"})' /\ Dropping(u, {"api", "auth"})'
    BY <1>1, <1>3, <1>7, OthersRemove
  <2>6. QED
    BY <2>1, <2>2, <2>3, <2>4, <2>5
<1>10. RegisteredStand'
  BY <1>1, <1>2, <1>5, <1>6, <1>9 DEF Stood, RegisteredStand
<1>11. ApiStand' /\ AuthStand'
  BY <1>1, <1>2, <1>5, <1>6, <1>9 DEF Stood, ApiStand, AuthStand
<1>12. OAuthStand'
  BY <1>1, <1>5, <1>6, <1>9 DEF Stood, OAuthStand
<1>13. QED
  BY <1>1, <1>2, <1>3, <1>4, <1>5, <1>8, <1>10, <1>11, <1>12, PartsStill, CallsMove DEF TablesInv, Typed, Stood

\* Its API endpoints go.
LEMMA DropApiKeeps == ASSUME TablesInv, NEW c \in Callers, DropApi(c) PROVE TablesInv'
<1> DEFINE t == call[c].on
<1>1. /\ PhysicalTyped /\ RegistryTyped /\ EndpointsTyped /\ OthersTyped /\ CallsTyped /\ Stood
  BY CallIs
<1>2. /\ Stands(c, "drop", "api") /\ Goto(c, "auth")
      /\ api' = {e \in api : e.table # t}
      /\ torn' = torn \cup Overlapped(c, t) /\ UNCHANGED <<approval, faults>>
      /\ UNCHANGED tables /\ UNCHANGED registry /\ UNCHANGED <<auth, oauth, link, secrets>>
  BY DEF DropApi
<1>3. PICK j : /\ t \in Tables /\ t \in Named
               /\ Moves(c, j) /\ j.op = "drop" /\ j.on = t /\ j.at = "auth" /\ calls' \in 0 .. MaxCalls
  BY <1>2, DropGoesOn
<1>4. EndpointsTyped'
  BY <1>1, <1>2 DEF EndpointsTyped
<1>5. OthersTyped' /\ torn \subseteq torn'
  BY <1>2, <1>3, OverlapIs
<1>6. UNCHANGED <<there, registered, auth, oauth, secrets>>
  BY <1>2 DEF tables, registry
<1>7. call[c].op = "drop" /\ call[c].at = "api"
  BY <1>2 DEF Stands
<1>8. CallsStand'
  BY <1>2, <1>3, <1>6, <1>7, OthersStand
<1>9. /\ \A u : Dropping(u, {"registry"}) => Dropping(u, {"registry"})'
      /\ \A u : u # t /\ Dropping(u, {"api"}) => Dropping(u, {"api"})'
      /\ \A u : u # t /\ Dropping(u, {"api", "auth"}) => Dropping(u, {"api", "auth"})'
      /\ \A n : Forgetting(n) => Forgetting(n)'
      /\ \A u : u = t => Dropping(u, {"api", "auth"})'
  <2>1. \A u : Dropping(u, {"registry"}) => Dropping(u, {"registry"})'
    BY <1>1, <1>3, <1>7, OthersRemove
  <2>2. \A u : u # t /\ Dropping(u, {"api"}) => Dropping(u, {"api"})'
    BY <1>1, <1>3, <1>7, OthersRemove
  <2>3. \A u : u # t /\ Dropping(u, {"api", "auth"}) => Dropping(u, {"api", "auth"})'
    BY <1>1, <1>3, <1>7, OthersRemove
  <2>4. \A n : Forgetting(n) => Forgetting(n)'
    BY <1>1, <1>3, <1>7, OthersRemove
  <2>5. \A u : u = t => Dropping(u, {"api", "auth"})'
    BY <1>1, <1>3, <1>7, OthersRemove
  <2>6. QED
    BY <2>1, <2>2, <2>3, <2>4, <2>5
<1>10. RegisteredStand'
  BY <1>1, <1>5, <1>6, <1>9 DEF Stood, RegisteredStand
<1>11. ApiStand' /\ AuthStand'
  BY <1>1, <1>2, <1>5, <1>6, <1>9 DEF Stood, ApiStand, AuthStand
<1>12. OAuthStand'
  BY <1>1, <1>5, <1>6, <1>9 DEF Stood, OAuthStand
<1>13. QED
  BY <1>1, <1>2, <1>3, <1>4, <1>5, <1>8, <1>10, <1>11, <1>12, PartsStill, CallsMove DEF TablesInv, Typed, Stood

\* Its auth endpoints go, and nothing of the table is left.
LEMMA DropAuthKeeps == ASSUME TablesInv, NEW c \in Callers, DropAuth(c) PROVE TablesInv'
<1> DEFINE t == call[c].on
<1>1. /\ PhysicalTyped /\ RegistryTyped /\ EndpointsTyped /\ OthersTyped /\ CallsTyped /\ Stood
  BY CallIs
<1>2. /\ Stands(c, "drop", "auth") /\ End(c)
      /\ auth' = {e \in auth : e.table # t}
      /\ torn' = torn \cup Overlapped(c, t) /\ UNCHANGED <<approval, faults>>
      /\ UNCHANGED tables /\ UNCHANGED registry /\ UNCHANGED <<api, oauth, link, secrets>>
  BY DEF DropAuth
<1>3. t \in Named /\ Moves(c, Idle) /\ Idle.op = "idle" /\ calls' \in 0 .. MaxCalls
  BY <1>2, CallIs, EndIs DEF Idle, CallSound, OnTables, Named, Stands
<1>4. EndpointsTyped'
  BY <1>1, <1>2 DEF EndpointsTyped
<1>5. OthersTyped' /\ torn \subseteq torn'
  BY <1>2, <1>3, OverlapIs
<1>6. UNCHANGED <<there, registered, api, oauth, secrets>>
  BY <1>2 DEF tables, registry
<1>7. call[c].op = "drop" /\ call[c].at = "auth"
  BY <1>2 DEF Stands
<1>8. CallsStand'
  BY <1>2, <1>3, <1>6, <1>7, OthersStand
<1>9. /\ \A u : Dropping(u, {"registry"}) => Dropping(u, {"registry"})'
      /\ \A u : Dropping(u, {"api"}) => Dropping(u, {"api"})'
      /\ \A u : u # t /\ Dropping(u, {"api", "auth"}) => Dropping(u, {"api", "auth"})'
      /\ \A n : Forgetting(n) => Forgetting(n)'
  <2>1. \A u : Dropping(u, {"registry"}) => Dropping(u, {"registry"})'
    BY <1>1, <1>3, <1>7, OthersRemove
  <2>2. \A u : Dropping(u, {"api"}) => Dropping(u, {"api"})'
    BY <1>1, <1>3, <1>7, OthersRemove
  <2>3. \A u : u # t /\ Dropping(u, {"api", "auth"}) => Dropping(u, {"api", "auth"})'
    BY <1>1, <1>3, <1>7, OthersRemove
  <2>4. \A n : Forgetting(n) => Forgetting(n)'
    BY <1>1, <1>3, <1>7, OthersRemove
  <2>5. QED
    BY <2>1, <2>2, <2>3, <2>4
<1>10. RegisteredStand'
  BY <1>1, <1>5, <1>6, <1>9 DEF Stood, RegisteredStand
<1>11. ApiStand' /\ AuthStand'
  BY <1>1, <1>2, <1>5, <1>6, <1>9 DEF Stood, ApiStand, AuthStand
<1>12. OAuthStand'
  BY <1>1, <1>5, <1>6, <1>9 DEF Stood, OAuthStand
<1>13. QED
  BY <1>1, <1>2, <1>3, <1>4, <1>5, <1>8, <1>10, <1>11, <1>12, PartsStill, CallsMove DEF TablesInv, Typed, Stood

-----------------------------------------------------------------------------
(* manage_endpoints and the admin's endpoints                              *)

\* An API endpoint is begun on a registered table.
LEMMA CreateApiKeeps ==
    ASSUME TablesInv, NEW c \in Callers, NEW p \in Paths, NEW t \in Tables, CreateAPI(c, p, t) \/ AdminCreateAPI(c, p, t)
    PROVE  TablesInv'
<1>1. PICK op \in {"api", "admin"}, role \in BOOLEAN, owner \in BOOLEAN :
         /\ t \in registered
         /\ Begin(c, [Idle EXCEPT !.op = op, !.at = "insert", !.on = t, !.path = p, !.role = role, !.owner = owner])
  <2>1. CASE CreateAPI(c, p, t)
    BY <2>1 DEF CreateAPI
  <2>2. CASE AdminCreateAPI(c, p, t)
    BY <2>2 DEF AdminCreateAPI
  <2>3. QED
    BY <2>1, <2>2
<1> DEFINE j == [Idle EXCEPT !.op = op, !.at = "insert", !.on = t, !.path = p, !.role = role, !.owner = owner]
<1>2. Idle \in CallRecords
  BY CallIs
<1>3. j \in CallRecords /\ j.op = op /\ j.at = "insert" /\ j.on = t /\ j.path = p
  BY <1>2, ZenonT(60) DEF CallRecords, OnTables, Stages, Named
<1>4. Begin(c, j)
  BY <1>1
<1> HIDE DEF j
<1>5. CallSound(j)
  BY <1>3 DEF CallSound
<1>6. QED
  BY <1>1, <1>3, <1>4, <1>5, BeginKeeps

\* An auth endpoint is begun on a registered table.
LEMMA CreateAuthKeeps ==
    ASSUME TablesInv, NEW c \in Callers, NEW p \in Paths, NEW t \in Tables, CreateAuth(c, p, t)
    PROVE  TablesInv'
<1> DEFINE j == [Idle EXCEPT !.op = "auth", !.on = t, !.path = p, !.seen = def[t],
                             !.at = IF "role" \in def[t] THEN "insert" ELSE "role"]
<1>1. Begin(c, j) /\ t \in registered
  BY DEF CreateAuth
<1>2. Idle \in CallRecords /\ def[t] \in SUBSET Columns
  BY CallIs DEF RegistryTyped
<1>3. j \in CallRecords /\ j.op = "auth" /\ j.on = t /\ j.path = p /\ j.at \in {"insert", "role"}
  BY <1>2, ZenonT(60) DEF CallRecords, OnTables, Stages, Named
<1> HIDE DEF j
<1>4. CallSound(j)
  BY <1>3 DEF CallSound
<1>5. QED
  BY <1>1, <1>3, <1>4, BeginKeeps

\* A provider is begun with its secret.
LEMMA CreateOAuthKeeps ==
    ASSUME TablesInv, NEW c \in Callers, NEW n \in Providers, NEW p \in Paths, CreateOAuth(c, n, p)
    PROVE  TablesInv'
<1> DEFINE j == [Idle EXCEPT !.op = "oauth", !.at = "secret", !.on = n, !.path = p]
<1>1. Begin(c, j)
  BY DEF CreateOAuth
<1>2. Idle \in CallRecords
  BY CallIs
<1>3. j \in CallRecords /\ j.op = "oauth" /\ j.on = n /\ j.path = p /\ j.at = "secret"
  BY <1>2 DEF CallRecords, Stages, Named
<1> HIDE DEF j
<1>4. CallSound(j)
  BY <1>3 DEF CallSound, OnTables
<1>5. QED
  BY <1>1, <1>3, <1>4, BeginKeeps

\* Uploads, streams, WebSockets and LLM endpoints rely on nothing.
LEMMA CreateLinkKeeps ==
    ASSUME TablesInv, NEW c \in Callers, NEW k \in Kinds, NEW p \in Paths, NEW t \in Tables \cup {NoTable},
           CreateLink(c, k, p, t)
    PROVE  TablesInv'
<1>1. PICK a \in BOOLEAN : Begin(c, [Idle EXCEPT !.op = "link", !.at = "insert", !.kind = k, !.path = p,
                                                 !.link = t, !.role = a])
  BY DEF CreateLink
<1> DEFINE j == [Idle EXCEPT !.op = "link", !.at = "insert", !.kind = k, !.path = p, !.link = t, !.role = a]
<1>2. Idle \in CallRecords /\ Idle.wrote = FALSE
  BY CallIs DEF Idle
<1>3. j \in CallRecords /\ j.op = "link" /\ j.path = p /\ j.at = "insert" /\ j.wrote = FALSE
  BY <1>2, ZenonT(60) DEF CallRecords, Stages
<1>4. Begin(c, j)
  BY <1>1
<1> HIDE DEF j
<1>5. CallSound(j)
  BY <1>3 DEF CallSound, OnTables
<1>6. QED
  BY <1>3, <1>4, <1>5, BeginKeeps

\* One row per path.
LEMMA PutIs ==
    ASSUME EndpointsTyped, NEW e \in Endpoints, Put(e), UNCHANGED <<auth, oauth, link, secrets>>
    PROVE  EndpointsTyped' /\ \A f \in api' : f = e \/ f \in api
  BY DEF EndpointsTyped, Put

\* A call ends, or one is made at once, that writes endpoints on tables there were.
LEMMA EndpointsWritten ==
    ASSUME TablesInv, NEW c \in Callers, End(c) \/ Single(c),
           call[c].op \notin {"drop", "unoauth"} \/ Single(c),
           EndpointsTyped', UNCHANGED tables, UNCHANGED registry, UNCHANGED others, secrets \subseteq secrets',
           \A e \in api' : e.table \in registered \cup torn \/ \E f \in api : f.table = e.table,
           \A e \in auth' : e.table \in registered \cup torn \/ \E f \in auth : f.table = e.table,
           \A e \in oauth' : e.name \in secrets \cup torn \/ \E f \in oauth : f.name = e.name
    PROVE  TablesInv'
<1>1. /\ PhysicalTyped /\ RegistryTyped /\ EndpointsTyped /\ OthersTyped /\ CallsTyped
  BY CallIs
<1>2. PICK j : /\ Moves(c, j) /\ calls' \in 0 .. MaxCalls
               /\ j = call[c] \/ (j.op = "idle" /\ call[c].op \notin {"drop", "unoauth"})
  <2>1. CASE Single(c)
    BY <2>1, SingleIs
  <2>2. CASE End(c) /\ ~Single(c)
    <3>1. Moves(c, Idle) /\ calls' \in 0 .. MaxCalls /\ Idle.op = "idle"
      BY <2>2, EndIs DEF Idle
    <3>2. QED
      BY <2>2, <3>1
  <2>3. QED
    BY <2>1, <2>2
<1>3. UNCHANGED <<there, registered, torn>>
  BY DEF tables, registry, others
<1>4. /\ \A e \in api' : e.table \in registered' \cup torn' \/ \E f \in api : f.table = e.table
      /\ \A e \in auth' : e.table \in registered' \cup torn' \/ \E f \in auth : f.table = e.table
      /\ \A e \in oauth' : e.name \in secrets' \cup torn' \/ \E f \in oauth : f.name = e.name
  BY <1>3
<1>5. Stood'
  BY <1>2, <1>3, <1>4, GrowKeeps
<1>6. QED
  BY <1>1, <1>2, <1>5, PartsStill, CallsMove DEF TablesInv, Typed

\* The endpoint is put on a table that is registered still, or was removed meanwhile.
LEMMA InsertApiKeeps ==
    ASSUME TablesInv, NEW c \in Callers, InsertAPI(c) \/ AdminInsertAPI(c)
    PROVE  TablesInv'
<1> DEFINE e == [path |-> call[c].path, table |-> call[c].on, auth |-> call[c].role, owner |-> call[c].owner]
<1>1. EndpointsTyped /\ Stood /\ call[c] \in CallRecords /\ CallSound(call[c])
  BY CallIs
<1>2. /\ call[c].op \in {"api", "admin"} /\ End(c)
      /\ (Put(e) \/ UNCHANGED api)
      /\ UNCHANGED tables /\ UNCHANGED registry /\ UNCHANGED <<auth, oauth, link, secrets>> /\ UNCHANGED others
  BY DEF InsertAPI, AdminInsertAPI, Stands
<1>3. e \in Endpoints /\ e.table = call[c].on /\ call[c].on \in registered \cup torn
  <2>1. call[c].on \in Tables /\ call[c].path \in Paths /\ call[c].role \in BOOLEAN /\ call[c].owner \in BOOLEAN
    BY <1>1, <1>2 DEF CallSound, OnTables, CallRecords
  <2>2. call[c].on \in registered \cup torn
    BY <1>1, <1>2 DEF Stood, CallsStand
  <2>3. QED
    BY <2>1, <2>2 DEF Endpoints
<1> HIDE DEF e
<1>4. EndpointsTyped' /\ \A f \in api' : f = e \/ f \in api
  <2>1. CASE Put(e)
    BY <1>1, <1>2, <1>3, <2>1, PutIs
  <2>2. CASE UNCHANGED api
    BY <1>1, <1>2, <2>2 DEF EndpointsTyped
  <2>3. QED
    BY <1>2, <2>1, <2>2
<1>5. \A f \in api' : f.table \in registered \cup torn \/ \E g \in api : g.table = f.table
  BY <1>3, <1>4
<1>6. QED
  BY <1>2, <1>4, <1>5, EndpointsWritten

\* An update keeps the table.
LEMMA UpdateApiKeeps ==
    ASSUME TablesInv, NEW c \in Callers, NEW p \in Paths, UpdateAPI(c, p)
    PROVE  TablesInv'
<1>1. EndpointsTyped
  BY CallIs
<1>2. PICK e \in api, a \in BOOLEAN, o \in BOOLEAN : Put([e EXCEPT !.auth = a, !.owner = o])
  BY DEF UpdateAPI
<1> DEFINE u == [e EXCEPT !.auth = a, !.owner = o]
<1>3. /\ Single(c) /\ UNCHANGED tables /\ UNCHANGED registry
      /\ UNCHANGED <<auth, oauth, link, secrets>> /\ UNCHANGED others
  BY DEF UpdateAPI
<1>4. u \in Endpoints /\ u.table = e.table
  BY <1>1 DEF EndpointsTyped, Endpoints
<1>5. Put(u)
  BY <1>2
<1> HIDE DEF u
<1>6. EndpointsTyped' /\ \A f \in api' : f = u \/ f \in api
  BY <1>1, <1>3, <1>4, <1>5, PutIs
<1>7. \A f \in api' : \E g \in api : g.table = f.table
  BY <1>4, <1>6
<1>8. QED
  BY <1>3, <1>6, <1>7, EndpointsWritten

\* A deleted endpoint needs no table.
LEMMA DeleteApiKeeps ==
    ASSUME TablesInv, NEW c \in Callers, NEW p \in Paths, DeleteAPI(c, p)
    PROVE  TablesInv'
<1>1. EndpointsTyped
  BY CallIs
<1>2. /\ Single(c) /\ UNCHANGED tables /\ UNCHANGED registry
      /\ api' = {e \in api : e.path # p} /\ UNCHANGED <<auth, oauth, link, secrets>> /\ UNCHANGED others
  BY DEF DeleteAPI
<1>3. EndpointsTyped' /\ api' \subseteq api
  BY <1>1, <1>2 DEF EndpointsTyped
<1>4. QED
  BY <1>2, <1>3, EndpointsWritten

\* The role column is added, or the call is refused.
LEMMA AddRoleKeeps == ASSUME TablesInv, NEW c \in Callers, AddRoleColumn(c) PROVE TablesInv'
<1> DEFINE t == call[c].on
           j == [call[c] EXCEPT !.at = "schema", !.wrote = TRUE]
<1>1. /\ PhysicalTyped /\ RegistryTyped /\ EndpointsTyped /\ OthersTyped /\ CallsTyped /\ Stood
      /\ call[c] \in CallRecords /\ CallSound(call[c])
  BY CallIs
<1>2. call[c].op = "auth"
  BY DEF AddRoleColumn, Stands
<1>3. t \in Tables /\ t \in Named
  BY <1>1, <1>2 DEF CallSound, OnTables, Named
<1>4. CASE Refused(c)
  BY <1>4, RefusedKeeps
<1>5. ASSUME t \in there, cols' = [cols EXCEPT ![t] = @ \cup {"role"}], Goto(c, "schema"),
             UNCHANGED <<there, rows, index, registry, endpoints, others>>
      PROVE  TablesInv'
  <2>1. /\ j.op \notin {"idle", "link"} => Moves(c, j)
        /\ j.op = call[c].op /\ j.on = call[c].on /\ calls' \in 0 .. MaxCalls
    BY <1>3, <1>5, GotoIs DEF Stages
  <2> HIDE DEF j
  <2>2. PhysicalTyped'
    BY <1>1, <1>3, <1>5 DEF PhysicalTyped, Columns
  <2>3. UNCHANGED <<there, registered, api, auth, oauth, secrets, torn>>
    BY <1>5 DEF registry, endpoints, others
  <2>4. j.on \in registered \cup torn
    BY <1>1, <1>2, <2>1 DEF Stood, CallsStand
  <2>5. Stood'
    BY <1>2, <2>1, <2>3, <2>4, GrowKeeps
  <2>6. QED
    BY <1>1, <1>2, <1>5, <2>1, <2>2, <2>5, PartsStill, CallsMove DEF TablesInv, Typed
<1>6. QED
  BY <1>4, <1>5 DEF AddRoleColumn

\* The definition is updated, or the update fails unseen.
LEMMA UpdateSchemaKeeps == ASSUME TablesInv, NEW c \in Callers, UpdateSchemaDef(c) PROVE TablesInv'
<1> DEFINE t == call[c].on
           j == [call[c] EXCEPT !.at = "insert", !.wrote = TRUE]
<1>1. /\ PhysicalTyped /\ RegistryTyped /\ EndpointsTyped /\ OthersTyped /\ CallsTyped /\ Stood
      /\ call[c] \in CallRecords /\ CallSound(call[c]) /\ faults \in 0 .. MaxFaults /\ MaxFaults \in Nat
  BY CallIs
<1>2. /\ call[c].op = "auth" /\ Goto(c, "insert")
      /\ \/ /\ def' = [def EXCEPT ![t] = IF t \in registered THEN call[c].seen \cup {"role"} ELSE @]
            /\ UNCHANGED faults
         \/ faults < MaxFaults /\ faults' = faults + 1 /\ UNCHANGED def
      /\ UNCHANGED tables /\ UNCHANGED <<registered, secure, approval, torn>> /\ UNCHANGED endpoints
  BY DEF UpdateSchemaDef, Stands
<1>3. t \in Tables /\ t \in Named /\ call[c].seen \in SUBSET Columns
  BY <1>1, <1>2 DEF CallSound, OnTables, Named, CallRecords
<1>4. /\ j.op \notin {"idle", "link"} => Moves(c, j)
      /\ j.op = call[c].op /\ j.on = call[c].on /\ calls' \in 0 .. MaxCalls
  BY <1>2, <1>3, GotoIs DEF Stages
<1> HIDE DEF j
<1>5. RegistryTyped' /\ OthersTyped'
  BY <1>1, <1>2, <1>3 DEF RegistryTyped, OthersTyped, Columns
<1>6. UNCHANGED <<there, registered, api, auth, oauth, secrets, torn>>
  BY <1>2 DEF tables, endpoints
<1>7. j.on \in registered \cup torn
  BY <1>1, <1>2, <1>4 DEF Stood, CallsStand
<1>8. Stood'
  BY <1>2, <1>4, <1>6, <1>7, GrowKeeps
<1>9. QED
  BY <1>1, <1>2, <1>4, <1>5, <1>8, PartsStill, CallsMove DEF TablesInv, Typed

\* The auth endpoint is put on a table that is registered still, or was removed meanwhile.
LEMMA InsertAuthKeeps == ASSUME TablesInv, NEW c \in Callers, InsertAuth(c) PROVE TablesInv'
<1> DEFINE e == [path |-> call[c].path, table |-> call[c].on, role |-> "role"]
<1>1. EndpointsTyped /\ Stood /\ call[c] \in CallRecords /\ CallSound(call[c])
  BY CallIs
<1>2. /\ call[c].op = "auth" /\ End(c)
      /\ auth' = {f \in auth : f.path # call[c].path} \cup {e}
      /\ UNCHANGED tables /\ UNCHANGED registry /\ UNCHANGED <<api, oauth, link, secrets>> /\ UNCHANGED others
  BY DEF InsertAuth, Stands
<1>3. e \in AuthEndpoints /\ e.table = call[c].on /\ call[c].on \in registered \cup torn
  <2>1. call[c].on \in Tables /\ call[c].path \in Paths
    BY <1>1, <1>2 DEF CallSound, OnTables, CallRecords
  <2>2. call[c].on \in registered \cup torn
    BY <1>1, <1>2 DEF Stood, CallsStand
  <2>3. QED
    BY <2>1, <2>2 DEF AuthEndpoints, Columns
<1> HIDE DEF e
<1>4. EndpointsTyped'
  BY <1>1, <1>2, <1>3 DEF EndpointsTyped
<1>5. \A f \in auth' : f.table \in registered \cup torn \/ \E g \in auth : g.table = f.table
  BY <1>2, <1>3
<1>6. QED
  BY <1>2, <1>4, <1>5, EndpointsWritten

\* An update keeps the table of an auth endpoint; a deleted one needs none.
LEMMA ChangeAuthKeeps ==
    ASSUME TablesInv, NEW c \in Callers, NEW p \in Paths, UpdateAuth(c, p) \/ DeleteAuth(c, p) PROVE TablesInv'
<1>1. EndpointsTyped
  BY CallIs
<1>2. /\ Single(c) /\ UNCHANGED tables /\ UNCHANGED registry
      /\ UNCHANGED <<api, oauth, link, secrets>> /\ UNCHANGED others
      /\ \/ auth' = {f \in auth : f.path # p}
         \/ \E e \in auth, k \in Columns : auth' = (auth \ {e}) \cup {[e EXCEPT !.role = k]}
  BY DEF UpdateAuth, DeleteAuth
<1>3. auth' \subseteq AuthEndpoints /\ \A f \in auth' : \E g \in auth : g.table = f.table
  <2>1. ASSUME NEW e \in auth, NEW k \in Columns, auth' = (auth \ {e}) \cup {[e EXCEPT !.role = k]}
        PROVE  auth' \subseteq AuthEndpoints /\ \A f \in auth' : \E g \in auth : g.table = f.table
    <3> DEFINE u == [e EXCEPT !.role = k]
    <3>1. u \in AuthEndpoints /\ u.table = e.table
      BY <1>1 DEF EndpointsTyped, AuthEndpoints
    <3>2. auth' = (auth \ {e}) \cup {u}
      BY <2>1
    <3> HIDE DEF u
    <3>3. QED
      BY <1>1, <3>1, <3>2 DEF EndpointsTyped
  <2>2. CASE auth' = {f \in auth : f.path # p}
    BY <1>1, <2>2 DEF EndpointsTyped
  <2>3. QED
    BY <1>2, <2>1, <2>2
<1>4. EndpointsTyped'
  BY <1>1, <1>2, <1>3 DEF EndpointsTyped
<1>5. QED
  BY <1>2, <1>3, <1>4, EndpointsWritten

\* The secret is there before the provider.
LEMMA StoreSecretKeeps == ASSUME TablesInv, NEW c \in Callers, StoreSecret(c) PROVE TablesInv'
<1> DEFINE j == [call[c] EXCEPT !.at = "insert", !.wrote = TRUE]
<1>1. /\ PhysicalTyped /\ RegistryTyped /\ EndpointsTyped /\ OthersTyped /\ CallsTyped /\ Stood
      /\ call[c] \in CallRecords /\ CallSound(call[c])
  BY CallIs
<1>2. /\ call[c].op = "oauth" /\ Goto(c, "insert") /\ secrets' = secrets \cup {call[c].on}
      /\ UNCHANGED tables /\ UNCHANGED registry /\ UNCHANGED <<api, auth, oauth, link>> /\ UNCHANGED others
  BY DEF StoreSecret, Stands
<1>3. call[c].on \in Providers /\ call[c].on \in Named
  BY <1>1, <1>2 DEF CallSound, Named
<1>4. /\ j.op \notin {"idle", "link"} => Moves(c, j)
      /\ j.op = call[c].op /\ j.on = call[c].on /\ calls' \in 0 .. MaxCalls
  BY <1>2, <1>3, GotoIs DEF Stages
<1> HIDE DEF j
<1>5. EndpointsTyped'
  BY <1>1, <1>2, <1>3 DEF EndpointsTyped
<1>6. UNCHANGED <<there, registered, torn>>
  BY <1>2 DEF tables, registry, others
<1>7. Stood'
  BY <1>2, <1>4, <1>6, GrowKeeps
<1>8. QED
  BY <1>1, <1>2, <1>4, <1>5, <1>7, PartsStill, CallsMove DEF TablesInv, Typed

\* The provider finds its secret, or somebody was removing it.
LEMMA InsertOAuthKeeps == ASSUME TablesInv, NEW c \in Callers, InsertOAuth(c) PROVE TablesInv'
<1> DEFINE e == [name |-> call[c].on, path |-> call[c].path]
<1>1. EndpointsTyped /\ Stood /\ call[c] \in CallRecords /\ CallSound(call[c])
  BY CallIs
<1>2. /\ call[c].op = "oauth" /\ call[c].at = "insert" /\ End(c)
      /\ oauth' = {f \in oauth : f.name # call[c].on} \cup {e}
      /\ UNCHANGED tables /\ UNCHANGED registry /\ UNCHANGED <<api, auth, link, secrets>> /\ UNCHANGED others
  BY DEF InsertOAuth, Stands
<1>3. e \in OAuthProviders /\ e.name = call[c].on /\ call[c].on \in secrets \cup torn
  <2>1. call[c].on \in Providers /\ call[c].path \in Paths
    BY <1>1, <1>2 DEF CallSound, CallRecords
  <2>2. call[c].on \in secrets \cup torn
    BY <1>1, <1>2 DEF Stood, CallsStand
  <2>3. QED
    BY <2>1, <2>2 DEF OAuthProviders
<1> HIDE DEF e
<1>4. EndpointsTyped'
  BY <1>1, <1>2, <1>3 DEF EndpointsTyped
<1>5. \A f \in oauth' : f.name \in secrets \cup torn \/ \E g \in oauth : g.name = f.name
  BY <1>2, <1>3
<1>6. QED
  BY <1>2, <1>4, <1>5, EndpointsWritten

\* The secret goes first.
LEMMA DeleteOAuthKeeps ==
    ASSUME TablesInv, NEW c \in Callers, NEW n \in Providers, DeleteOAuth(c, n)
    PROVE  TablesInv'
<1> DEFINE j == [Idle EXCEPT !.op = "unoauth", !.at = "delete", !.on = n, !.wrote = TRUE]
<1>1. /\ PhysicalTyped /\ RegistryTyped /\ EndpointsTyped /\ OthersTyped /\ CallsTyped /\ Stood
      /\ Idle \in CallRecords /\ calls \in 0 .. MaxCalls /\ MaxCalls \in Nat
  BY CallIs
<1>2. /\ call[c] = Idle /\ calls < MaxCalls /\ calls' = calls + 1 /\ call' = [call EXCEPT ![c] = j]
      /\ secrets' = secrets \ {n} /\ torn' = torn \cup Overlapped(c, n) /\ UNCHANGED <<approval, faults>>
      /\ UNCHANGED tables /\ UNCHANGED registry /\ UNCHANGED <<api, auth, oauth, link>>
  BY DEF DeleteOAuth
<1>3. /\ j \in CallRecords /\ j.op = "unoauth" /\ j.at = "delete" /\ j.on = n /\ j.wrote = TRUE /\ n \in Named
  BY <1>1 DEF CallRecords, Stages, Named
<1> HIDE DEF j
<1>4. Moves(c, j) /\ calls' \in 0 .. MaxCalls
  BY <1>1, <1>2, <1>3 DEF Moves, CallSound, OnTables
<1>5. EndpointsTyped'
  BY <1>1, <1>2 DEF EndpointsTyped
<1>6. /\ OthersTyped' /\ torn \subseteq torn'
      /\ \A o \in Callers : o # c /\ call[o].on = n /\ call[o].op # "idle" => n \in torn'
  BY <1>2, <1>3, OverlapIs
<1>7. UNCHANGED <<there, registered, api, auth, oauth>>
  BY <1>2 DEF tables, registry
<1>8. call[c].op = "idle" /\ call'[c] = j /\ \A o \in Callers : o # c => call'[o] = call[o]
  BY <1>1, <1>2, <1>4, OneMoves DEF Idle
<1>9. CallsStand'
  <2> SUFFICES ASSUME NEW o \in Callers, call'[o].on \notin torn'
               PROVE  /\ call'[o].op = "create" /\ call'[o].at = "register" => call'[o].on \in there'
                      /\ call'[o].op \in {"api", "admin", "auth"} => call'[o].on \in registered'
                      /\ call'[o].op = "oauth" /\ call'[o].at = "insert" => call'[o].on \in secrets'
    BY DEF CallsStand
  <2>1. CASE o = c
    BY <1>3, <1>8, <2>1
  <2>2. CASE o # c
    <3>1. call'[o] = call[o] /\ call[o].on \notin torn
      BY <1>6, <1>8, <2>2
    <3>2. CASE call[o].on = n
      BY <1>6, <2>2, <3>1, <3>2
    <3>3. CASE call[o].on # n
      BY <1>1, <1>2, <1>7, <3>1, <3>3 DEF Stood, CallsStand
    <3>4. QED
      BY <3>2, <3>3
  <2>3. QED
    BY <2>1, <2>2
<1>10. /\ \A u, P : Dropping(u, P) => Dropping(u, P)'
       /\ \A m : Forgetting(m) => Forgetting(m)'
  BY <1>1, <1>4, <1>8, OthersRemove
<1>11. \A m : m = n => Forgetting(m)'
  BY <1>3, <1>8 DEF Forgetting
<1>12. RegisteredStand'
  <2>1. \A u : Dropping(u, {"registry"}) => Dropping(u, {"registry"})'
    BY <1>10
  <2>2. QED
    BY <1>1, <1>6, <1>7, <2>1 DEF Stood, RegisteredStand
<1>13. ApiStand' /\ AuthStand'
  <2>1. /\ \A u : Dropping(u, {"api"}) => Dropping(u, {"api"})'
        /\ \A u : Dropping(u, {"api", "auth"}) => Dropping(u, {"api", "auth"})'
    BY <1>10
  <2>2. QED
    BY <1>1, <1>6, <1>7, <2>1 DEF Stood, ApiStand, AuthStand
<1>14. OAuthStand'
  BY <1>1, <1>2, <1>6, <1>7, <1>10, <1>11 DEF Stood, OAuthStand
<1>15. QED
  BY <1>1, <1>2, <1>4, <1>5, <1>6, <1>9, <1>12, <1>13, <1>14, PartsStill, CallsMove DEF TablesInv, Typed, Stood

\* Then the provider.
LEMMA DeleteOAuthRowKeeps == ASSUME TablesInv, NEW c \in Callers, DeleteOAuthRow(c) PROVE TablesInv'
<1> DEFINE n == call[c].on
<1>1. /\ PhysicalTyped /\ RegistryTyped /\ EndpointsTyped /\ OthersTyped /\ CallsTyped /\ Stood
  BY CallIs
<1>2. /\ call[c].op = "unoauth" /\ End(c) /\ oauth' = {e \in oauth : e.name # n}
      /\ UNCHANGED tables /\ UNCHANGED registry /\ UNCHANGED <<api, auth, link, secrets>> /\ UNCHANGED others
  BY DEF DeleteOAuthRow, Stands
<1>3. Moves(c, Idle) /\ calls' \in 0 .. MaxCalls /\ Idle.op = "idle"
  BY <1>2, EndIs DEF Idle
<1>4. EndpointsTyped'
  BY <1>1, <1>2 DEF EndpointsTyped
<1>5. UNCHANGED <<there, registered, api, auth, secrets, torn>>
  BY <1>2 DEF tables, registry, others
<1>6. call'[c] = Idle /\ \A o \in Callers : o # c => call'[o] = call[o]
  BY <1>1, <1>3, OneMoves
<1>7. CallsStand'
  BY <1>1, <1>3, <1>5, <1>6 DEF Stood, CallsStand
<1>8. /\ \A u, P : Dropping(u, P) => Dropping(u, P)'
      /\ \A m : m # n /\ Forgetting(m) => Forgetting(m)'
  BY <1>1, <1>2, <1>3, OthersRemove
<1>9. RegisteredStand'
  <2>1. \A u : Dropping(u, {"registry"}) => Dropping(u, {"registry"})'
    BY <1>8
  <2>2. QED
    BY <1>1, <1>5, <2>1 DEF Stood, RegisteredStand
<1>10. ApiStand' /\ AuthStand'
  <2>1. /\ \A u : Dropping(u, {"api"}) => Dropping(u, {"api"})'
        /\ \A u : Dropping(u, {"api", "auth"}) => Dropping(u, {"api", "auth"})'
    BY <1>8
  <2>2. QED
    BY <1>1, <1>5, <2>1 DEF Stood, ApiStand, AuthStand
<1>11. OAuthStand'
  BY <1>1, <1>2, <1>5, <1>8 DEF Stood, OAuthStand
<1>12. QED
  BY <1>1, <1>2, <1>3, <1>4, <1>7, <1>9, <1>10, <1>11, PartsStill, CallsMove DEF TablesInv, Typed, Stood

\* The other endpoints are put where they belong.
LEMMA InsertLinkKeeps == ASSUME TablesInv, NEW c \in Callers, InsertLink(c) PROVE TablesInv'
<1> DEFINE e == [kind |-> call[c].kind, path |-> call[c].path, table |-> call[c].link, auth |-> call[c].role]
<1>1. EndpointsTyped /\ call[c] \in CallRecords /\ CallSound(call[c])
  BY CallIs
<1>2. /\ call[c].op = "link" /\ End(c)
      /\ link' = {f \in link : <<f.kind, f.path>> # <<call[c].kind, call[c].path>>} \cup {e}
      /\ UNCHANGED tables /\ UNCHANGED registry /\ UNCHANGED <<api, auth, oauth, secrets>> /\ UNCHANGED others
  BY DEF InsertLink, Stands
<1>3. e \in Links
  BY <1>1, <1>2 DEF CallSound, CallRecords, Links
<1> HIDE DEF e
<1>4. EndpointsTyped'
  BY <1>1, <1>2, <1>3 DEF EndpointsTyped
<1>5. QED
  BY <1>2, <1>4, EndpointsWritten

\* They are updated.
LEMMA UpdateLinkKeeps ==
    ASSUME TablesInv, NEW c \in Callers, NEW k, NEW p, NEW to \in SUBSET (Tables \cup {NoTable}), UpdateLink(c, k, p, to)
    PROVE  TablesInv'
<1>1. EndpointsTyped
  BY CallIs
<1>2. PICK e \in link, t \in to, a \in BOOLEAN : link' = (link \ {e}) \cup {[e EXCEPT !.auth = a, !.table = t]}
  BY DEF UpdateLink
<1> DEFINE u == [e EXCEPT !.auth = a, !.table = t]
<1>3. u \in Links
  BY <1>1 DEF EndpointsTyped, Links
<1>4. link' = (link \ {e}) \cup {u}
  BY <1>2
<1> HIDE DEF u
<1>5. /\ Single(c) /\ UNCHANGED tables /\ UNCHANGED registry
      /\ UNCHANGED <<api, auth, oauth, secrets>> /\ UNCHANGED others
  BY DEF UpdateLink
<1>6. EndpointsTyped'
  BY <1>1, <1>3, <1>4, <1>5 DEF EndpointsTyped
<1>7. QED
  BY <1>5, <1>6, EndpointsWritten

\* They are deleted.
LEMMA DeleteLinkKeeps ==
    ASSUME TablesInv, NEW c \in Callers, NEW k, NEW p, DeleteLink(c, k, p)
    PROVE  TablesInv'
<1>1. EndpointsTyped
  BY CallIs
<1>2. /\ Single(c) /\ UNCHANGED tables /\ UNCHANGED registry
      /\ link' = {e \in link : <<e.kind, e.path>> # <<k, p>>}
      /\ UNCHANGED <<api, auth, oauth, secrets>> /\ UNCHANGED others
  BY DEF DeleteLink
<1>3. EndpointsTyped'
  BY <1>1, <1>2 DEF EndpointsTyped
<1>4. QED
  BY <1>2, <1>3, EndpointsWritten

-----------------------------------------------------------------------------
(* Rows, and the owner                                                     *)

\* A write begins with the secure columns as it has read them.
LEMMA WriteIs ==
    ASSUME TablesInv, NEW c \in Callers, NEW t \in Tables, \E op \in RowWrites : Write(c, t, op)
    PROVE  \E j \in CallRecords : /\ j.op \in RowWrites /\ j.at = "write" /\ j.on = t /\ j.wrote = FALSE
                                  /\ BeginReading(c, j)
<1>0. PICK op \in RowWrites : Write(c, t, op)
  OBVIOUS
<1> DEFINE j == [Idle EXCEPT !.op = op, !.at = "write", !.on = t]
<1>1. Idle \in CallRecords /\ Idle.wrote = FALSE
  BY CallIs DEF Idle
<1>2. j \in CallRecords /\ j.op \in RowWrites /\ j.at = "write" /\ j.on = t /\ j.wrote = FALSE
  BY <1>1 DEF CallRecords, OnTables, Stages, Named, RowWrites
<1>3. BeginReading(c, j)
  BY <1>0 DEF Write
<1> HIDE DEF j
<1>4. QED
  BY <1>2, <1>3

LEMMA WriteKeeps ==
    ASSUME TablesInv, NEW c \in Callers, NEW t \in Tables, \E op \in RowWrites : Write(c, t, op)
    PROVE  TablesInv'
<1>1. PICK j \in CallRecords : /\ j.op \in RowWrites /\ j.at = "write" /\ j.on = t /\ j.wrote = FALSE
                               /\ BeginReading(c, j)
  BY WriteIs
<1>2. PICK s \in SUBSET Secure, k \in CallRecords :
         /\ call' = [call EXCEPT ![c] = k] /\ k.op \in RowWrites /\ k.at = "write" /\ k.on = t /\ k.seen = s
  BY <1>1, ReadingIs
<1>3. CallSound(k)
  BY <1>2 DEF CallSound, OnTables, RowWrites
<1>4. QED
  BY <1>1, <1>2, <1>3, ReadingIs, StartKeeps DEF RowWrites

\* A call ends, or one is made at once, that changes columns and rows of tables there are.
LEMMA RowsWritten ==
    ASSUME TablesInv, NEW c \in Callers, Single(c) \/ (End(c) /\ call[c].op \notin {"drop", "unoauth"}),
           PhysicalTyped', there' = there, UNCHANGED registry, UNCHANGED endpoints, OthersTyped', torn' = torn
    PROVE  TablesInv'
<1>1. /\ PhysicalTyped /\ RegistryTyped /\ EndpointsTyped /\ OthersTyped /\ CallsTyped
  BY CallIs
<1>2. PICK j : /\ Moves(c, j) /\ calls' \in 0 .. MaxCalls
               /\ j = call[c] \/ (j.op = "idle" /\ call[c].op \notin {"drop", "unoauth"})
  <2>1. CASE Single(c)
    BY <2>1, SingleIs
  <2>2. CASE End(c) /\ ~Single(c)
    <3>1. Moves(c, Idle) /\ calls' \in 0 .. MaxCalls /\ Idle.op = "idle"
      BY <2>2, EndIs DEF Idle
    <3>2. QED
      BY <2>2, <3>1
  <2>3. QED
    BY <2>1, <2>2
<1>3. UNCHANGED <<registered, api, auth, oauth, secrets>>
  BY DEF registry, endpoints
<1>4. Stood'
  BY <1>2, <1>3, GrowKeeps
<1>5. QED
  BY <1>1, <1>2, <1>4, PartsStill, CallsMove DEF TablesInv, Typed

\* Values are written to columns that are there.
LEMMA ExecKeeps ==
    ASSUME TablesInv, NEW c \in Callers, ExecWrite(c) \/ ExecNothing(c)
    PROVE  TablesInv'
<1> DEFINE t == call[c].on
<1>1. PhysicalTyped /\ OthersTyped /\ call[c] \in CallRecords /\ CallSound(call[c])
  BY CallIs
<1>2. /\ call[c].at = "write" /\ End(c)
      /\ UNCHANGED <<there, cols, index>> /\ UNCHANGED registry /\ UNCHANGED endpoints /\ UNCHANGED others
      /\ \/ UNCHANGED rows
         \/ /\ Secure \subseteq cols[t]
            /\ \E rest \in SUBSET rows[t] : rows' = [rows EXCEPT ![t] = rest \cup {Stored(c)}]
  BY DEF ExecWrite, ExecNothing, tables
<1>3. call[c].op \in {"insert", "update", "upsert", "import"} /\ t \in Tables
  BY <1>1, <1>2 DEF CallSound, OnTables
<1>4. PhysicalTyped'
  <2>1. Stored(c) \in {"clear", "sealed"}
    BY DEF Stored
  <2>2. Secure \subseteq cols[t] => t \in there
    BY <1>1, <1>3 DEF PhysicalTyped, Secure
  <2>3. CASE UNCHANGED rows
    BY <1>1, <1>2, <2>3 DEF PhysicalTyped
  <2>4. ASSUME NEW rest \in SUBSET rows[t], rows' = [rows EXCEPT ![t] = rest \cup {Stored(c)}], t \in there
        PROVE  PhysicalTyped'
    <3>1. rows \in [Tables -> SUBSET {"clear", "sealed"}]
      BY <1>1 DEF PhysicalTyped
    <3>2. rest \cup {Stored(c)} \in SUBSET {"clear", "sealed"}
      BY <1>3, <2>1, <3>1
    <3>3. rows' \in [Tables -> SUBSET {"clear", "sealed"}]
      BY <2>4, <3>1, <3>2
    <3>4. \A u \in Tables : u # t => rows'[u] = rows[u]
      BY <2>4, <3>1
    <3>5. QED
      BY <1>1, <1>2, <2>4, <3>3, <3>4 DEF PhysicalTyped
  <2>5. QED
    BY <1>2, <2>2, <2>3, <2>4
<1>5. OthersTyped' /\ torn' = torn
  BY <1>1, <1>2 DEF OthersTyped, others
<1>6. QED
  BY <1>2, <1>3, <1>4, <1>5, RowsWritten

\* So are the values that an import could not seal.
LEMMA ImportKeeps == ASSUME TablesInv, NEW c \in Callers, ImportUnsealed(c) PROVE TablesInv'
<1> DEFINE t == call[c].on
<1>1. PhysicalTyped /\ OthersTyped /\ call[c] \in CallRecords /\ CallSound(call[c]) /\ MaxFaults \in Nat
  BY CallIs
<1>2. /\ call[c].at = "write" /\ call[c].op = "import" /\ End(c)
      /\ UNCHANGED <<there, cols, index>> /\ UNCHANGED registry /\ UNCHANGED endpoints
      /\ faults < MaxFaults /\ faults' = faults + 1 /\ UNCHANGED <<approval, torn>>
      /\ Secure \subseteq cols[t] /\ rows' = [rows EXCEPT ![t] = @ \cup {"clear"}]
  BY DEF ImportUnsealed
<1>3. t \in Tables
  BY <1>1, <1>2 DEF CallSound, OnTables
<1>4. PhysicalTyped'
  <2>1. t \in there
    BY <1>1, <1>2, <1>3 DEF PhysicalTyped, Secure
  <2>2. QED
    BY <1>1, <1>2, <1>3, <2>1 DEF PhysicalTyped
<1>5. OthersTyped'
  BY <1>1, <1>2 DEF OthersTyped
<1>6. QED
  BY <1>2, <1>4, <1>5, RowsWritten

\* Values are removed.
LEMMA RemoveRowsKeeps ==
    ASSUME TablesInv, NEW c \in Callers, NEW t \in Tables, RemoveRows(c, t)
    PROVE  TablesInv'
<1>1. PhysicalTyped /\ OthersTyped
  BY CallIs
<1>2. /\ Single(c) /\ UNCHANGED <<there, cols, index>> /\ UNCHANGED registry /\ UNCHANGED endpoints /\ UNCHANGED others
      /\ \E rest \in SUBSET rows[t] : rows' = [rows EXCEPT ![t] = rest]
  BY DEF RemoveRows
<1>3. PhysicalTyped'
  BY <1>1, <1>2, ZenonT(60) DEF PhysicalTyped
<1>4. OthersTyped' /\ torn' = torn
  BY <1>1, <1>2 DEF OthersTyped, others
<1>5. QED
  BY <1>2, <1>3, <1>4, RowsWritten

\* The admin's plain column.
LEMMA AdminAddKeeps ==
    ASSUME TablesInv, NEW c \in Callers, NEW t \in Tables, AdminAddColumn(c, t)
    PROVE  TablesInv'
<1>1. PhysicalTyped /\ OthersTyped
  BY CallIs
<1>2. /\ Single(c) /\ t \in there /\ cols' = [cols EXCEPT ![t] = @ \cup {"role"}]
      /\ UNCHANGED <<there, rows, index>> /\ UNCHANGED registry /\ UNCHANGED endpoints /\ UNCHANGED others
  BY DEF AdminAddColumn
<1>3. PhysicalTyped'
  BY <1>1, <1>2 DEF PhysicalTyped, Columns
<1>4. OthersTyped' /\ torn' = torn
  BY <1>1, <1>2 DEF OthersTyped, others
<1>5. QED
  BY <1>2, <1>3, <1>4, RowsWritten

\* The admin's secure column: the table is there, the registry follows.
LEMMA AdminSecureKeeps ==
    ASSUME TablesInv, NEW c \in Callers, NEW t \in Tables, AdminAddSecure(c, t)
    PROVE  TablesInv'
<1> DEFINE j == [Idle EXCEPT !.op = "column", !.at = "read", !.on = t, !.wrote = TRUE]
<1>1. /\ PhysicalTyped /\ RegistryTyped /\ EndpointsTyped /\ OthersTyped /\ CallsTyped
      /\ Idle \in CallRecords /\ calls \in 0 .. MaxCalls /\ MaxCalls \in Nat
  BY CallIs
<1>2. /\ call[c] = Idle /\ calls < MaxCalls /\ calls' = calls + 1 /\ call' = [call EXCEPT ![c] = j]
      /\ t \in there /\ cols' = [cols EXCEPT ![t] = @ \cup Secure]
      /\ UNCHANGED <<there, rows, index>> /\ UNCHANGED registry /\ UNCHANGED endpoints /\ UNCHANGED others
  BY DEF AdminAddSecure
<1>3. /\ j \in CallRecords /\ j.op = "column" /\ j.at = "read" /\ j.on = t /\ j.wrote = TRUE /\ j.seen = {}
  BY <1>1 DEF CallRecords, Stages, Named, OnTables, Idle
<1> HIDE DEF j
<1>4. Moves(c, j) /\ calls' \in 0 .. MaxCalls
  BY <1>1, <1>2, <1>3 DEF Moves, CallSound
<1>5. PhysicalTyped'
  BY <1>1, <1>2 DEF PhysicalTyped, Columns, Secure
<1>6. UNCHANGED <<there, registered, api, auth, oauth, secrets, torn>> /\ call[c].op = "idle"
  BY <1>2 DEF registry, endpoints, others, Idle
<1>7. Stood'
  BY <1>3, <1>4, <1>6, GrowKeeps
<1>8. QED
  BY <1>1, <1>2, <1>4, <1>5, <1>7, PartsStill, CallsMove DEF TablesInv, Typed

\* It reads the secure columns and adds its own.
LEMMA AdminReadKeeps == ASSUME TablesInv, NEW c \in Callers, AdminReadSecure(c) PROVE TablesInv'
<1> DEFINE t == call[c].on
           j == [call[c] EXCEPT !.at = "write back", !.seen = LoadSecureColumns(t) \cup Secure]
<1>1. /\ PhysicalTyped /\ RegistryTyped /\ EndpointsTyped /\ OthersTyped /\ CallsTyped
      /\ call[c] \in CallRecords /\ CallSound(call[c]) /\ calls \in 0 .. MaxCalls
  BY CallIs
<1>2. /\ call[c].op = "column" /\ call' = [call EXCEPT ![c] = j] /\ UNCHANGED calls
      /\ UNCHANGED tables /\ UNCHANGED registry /\ UNCHANGED endpoints /\ UNCHANGED others
  BY <1>1 DEF AdminReadSecure, Stands, CallsTyped
<1>3. t \in Tables /\ LoadSecureColumns(t) \cup Secure = Secure
  BY <1>1, <1>2 DEF CallSound, OnTables, LoadSecureColumns, RegistryTyped
<1>4. j \in CallRecords /\ j.op = "column" /\ j.at = "write back" /\ j.on = t /\ j.seen \subseteq Secure
  BY <1>1, <1>2, <1>3 DEF CallRecords, Stages, Columns, Secure
<1> HIDE DEF j
<1>5. Moves(c, j)
  BY <1>2, <1>3, <1>4 DEF Moves, CallSound
<1>6. UNCHANGED <<there, registered, api, auth, oauth, secrets, torn>>
  BY <1>2 DEF tables, registry, endpoints, others
<1>7. Stood'
  BY <1>2, <1>4, <1>5, <1>6, GrowKeeps
<1>8. QED
  BY <1>1, <1>2, <1>5, <1>7, PartsStill, CallsMove DEF TablesInv, Typed

\* The owner answers: approvals are no part of what has to stand.
LEMMA OwnerKeeps == ASSUME TablesInv, NEW g \in Gates \X Tables, OwnerAnswers(g) PROVE TablesInv'
<1>1. /\ PhysicalTyped /\ RegistryTyped /\ EndpointsTyped /\ OthersTyped /\ CallsTyped /\ Stood
  BY DEF TablesInv, Typed
<1>2. /\ \E a \in {"yes", "no", "none"} : approval' = [approval EXCEPT ![g] = a]
      /\ UNCHANGED <<faults, torn, call, calls>>
      /\ UNCHANGED tables /\ UNCHANGED registry /\ UNCHANGED endpoints
  BY DEF OwnerAnswers
<1>3. OthersTyped' /\ CallsTyped'
  BY <1>1, <1>2 DEF OthersTyped, CallsTyped
<1>4. UNCHANGED <<there, registered, api, auth, oauth, secrets, torn, call>>
  BY <1>2 DEF tables, registry, endpoints
<1>5. Stood'
  BY <1>1, <1>4 DEF Stood, RegisteredStand, ApiStand, AuthStand, OAuthStand, CallsStand, Dropping, Forgetting
<1>6. QED
  BY <1>1, <1>2, <1>3, <1>5, PartsStill DEF TablesInv, Typed

-----------------------------------------------------------------------------
(* The invariant                                                           *)

\* The data definition calls.
LEMMA SchemaKeeps == ASSUME TablesInv, NEW c \in Callers, SchemaStep(c) PROVE TablesInv'
<1>1. CASE \E t \in Tables : CreateTable(c, t) \/ AlterTable(c, t) \/ DropTable(c, t)
  BY <1>1, CreateTableKeeps, AlterTableKeeps, DropTableKeeps
<1>2. CASE CreatePhysical(c) \/ RegisterTable(c) \/ CreateFTSIndex(c)
  BY <1>2, CreatePhysicalKeeps, RegisterTableKeeps, CreateIndexKeeps
<1>3. CASE AddColumn(c) \/ GateColumns(c) \/ DropColumn(c) \/ WriteSecureColumns(c)
  BY <1>3, AddColumnKeeps, GateColumnsKeeps, DropColumnKeeps, WriteSecureKeeps
<1>4. CASE DropPhysical(c) \/ DropRegistered(c) \/ DropApi(c) \/ DropAuth(c)
  BY <1>4, DropPhysicalKeeps, DropRegisteredKeeps, DropApiKeeps, DropAuthKeeps
<1>5. QED
  BY <1>1, <1>2, <1>3, <1>4 DEF SchemaStep

\* The upload, stream, WebSocket and LLM endpoints; an upload endpoint keeps the table it has.
LEMMA LinksKeep ==
    ASSUME TablesInv, NEW c \in Callers, NEW p \in Paths,
           \/ CreateUpload(c, p) \/ CreateStream(c, p) \/ CreateWebSocket(c, p) \/ CreateLLM(c, p)
           \/ UpdateUpload(c, p) \/ UpdateStream(c, p) \/ UpdateWebSocket(c, p) \/ UpdateLLM(c, p)
           \/ DeleteUpload(c, p) \/ DeleteStream(c, p) \/ DeleteWebSocket(c, p) \/ DeleteLLM(c, p)
    PROVE  TablesInv'
<1>1. CASE CreateUpload(c, p) \/ CreateStream(c, p) \/ CreateWebSocket(c, p) \/ CreateLLM(c, p)
  <2>1. \E k \in Kinds, t \in Tables \cup {NoTable} : CreateLink(c, k, p, t)
    BY <1>1 DEF CreateUpload, CreateStream, CreateWebSocket, CreateLLM, Kinds
  <2>2. QED
    BY <2>1, CreateLinkKeeps
<1>2. CASE UpdateUpload(c, p) \/ UpdateStream(c, p) \/ UpdateWebSocket(c, p) \/ UpdateLLM(c, p)
  <2>1. EndpointsTyped
    BY CallIs
  <2>2. Same("upload", p) \in SUBSET (Tables \cup {NoTable})
    BY <2>1 DEF Same, EndpointsTyped, Links
  <2>3. \E k \in Kinds, to \in SUBSET (Tables \cup {NoTable}) : UpdateLink(c, k, p, to)
    BY <1>2, <2>2 DEF UpdateUpload, UpdateStream, UpdateWebSocket, UpdateLLM, Kinds
  <2>4. QED
    BY <2>3, UpdateLinkKeeps
<1>3. CASE DeleteUpload(c, p) \/ DeleteStream(c, p) \/ DeleteWebSocket(c, p) \/ DeleteLLM(c, p)
  <2>1. \E k \in Kinds : DeleteLink(c, k, p)
    BY <1>3 DEF DeleteUpload, DeleteStream, DeleteWebSocket, DeleteLLM, Kinds
  <2>2. QED
    BY <2>1, DeleteLinkKeeps
<1>4. QED
  BY <1>1, <1>2, <1>3

\* The calls on endpoints.
LEMMA EndpointsKeep == ASSUME TablesInv, NEW c \in Callers, EndpointStep(c) PROVE TablesInv'
<1>1. CASE \E p \in Paths, t \in Tables : CreateAPI(c, p, t) \/ AdminCreateAPI(c, p, t) \/ CreateAuth(c, p, t)
  BY <1>1, CreateApiKeeps, CreateAuthKeeps
<1>2. ASSUME NEW p \in Paths,
             \/ UpdateAPI(c, p) \/ AdminUpdateAPI(c, p) \/ DeleteAPI(c, p) \/ AdminDeleteAPI(c, p)
             \/ UpdateAuth(c, p) \/ DeleteAuth(c, p)
      PROVE  TablesInv'
  BY <1>2, UpdateApiKeeps, DeleteApiKeeps, ChangeAuthKeeps DEF AdminUpdateAPI, AdminDeleteAPI
<1>3. CASE \E n \in Providers : DeleteOAuth(c, n) \/ \E p \in Paths : CreateOAuth(c, n, p)
  BY <1>3, DeleteOAuthKeeps, CreateOAuthKeeps
<1>4. CASE InsertAPI(c) \/ AdminInsertAPI(c) \/ AddRoleColumn(c) \/ UpdateSchemaDef(c)
  BY <1>4, InsertApiKeeps, AddRoleKeeps, UpdateSchemaKeeps
<1>5. CASE InsertAuth(c) \/ StoreSecret(c) \/ InsertOAuth(c) \/ DeleteOAuthRow(c) \/ InsertLink(c)
  BY <1>5, InsertAuthKeeps, StoreSecretKeeps, InsertOAuthKeeps, DeleteOAuthRowKeeps, InsertLinkKeeps
<1>6. QED
  BY <1>1, <1>2, <1>3, <1>4, <1>5, LinksKeep DEF EndpointStep

\* The calls that write rows, and the admin's columns.
LEMMA RowsKeep == ASSUME TablesInv, NEW c \in Callers, RowStep(c) PROVE TablesInv'
<1>1. ASSUME NEW t \in Tables,
             \/ InsertSingle(c, t) \/ InsertBulk(c, t) \/ UpdateRow(c, t) \/ UpsertRow(c, t)
             \/ ImportCSV(c, t) \/ AdminInsertRow(c, t) \/ AdminUpdateRow(c, t)
      PROVE  TablesInv'
  <2>1. \E op \in RowWrites : Write(c, t, op)
    BY <1>1 DEF RowWrites, InsertSingle, InsertBulk, UpdateRow, UpsertRow, ImportCSV, AdminInsertRow, AdminUpdateRow
  <2>2. QED
    BY <2>1, WriteKeeps
<1>2. ASSUME NEW t \in Tables, DeleteRow(c, t) \/ BatchDelete(c, t) \/ AdminDeleteRow(c, t) PROVE TablesInv'
  BY <1>2, RemoveRowsKeeps DEF DeleteRow, BatchDelete, AdminDeleteRow
<1>3. CASE \E t \in Tables : AdminAddColumn(c, t) \/ AdminAddSecure(c, t)
  BY <1>3, AdminAddKeeps, AdminSecureKeeps
<1>4. CASE ExecWrite(c) \/ ExecNothing(c) \/ ImportUnsealed(c) \/ AdminReadSecure(c) \/ AdminWriteSecure(c)
  BY <1>4, ExecKeeps, ImportKeeps, AdminReadKeeps, WriteSecureKeeps
<1>5. QED
  BY <1>1, <1>2, <1>3, <1>4 DEF RowStep

\* A state in which nothing happens stays as it is.
LEMMA TablesStutter == TablesInv /\ UNCHANGED schemaVars => TablesInv'
<1> SUFFICES ASSUME TablesInv, UNCHANGED schemaVars PROVE TablesInv'
  OBVIOUS
<1>1. /\ UNCHANGED tables /\ UNCHANGED registry /\ UNCHANGED endpoints /\ UNCHANGED others
      /\ UNCHANGED <<call, calls>>
  BY DEF schemaVars
<1>2. /\ PhysicalTyped /\ RegistryTyped /\ EndpointsTyped /\ OthersTyped /\ CallsTyped /\ Stood
  BY DEF TablesInv, Typed
<1>3. OthersTyped' /\ CallsTyped'
  BY <1>1, <1>2 DEF OthersTyped, CallsTyped, others
<1>4. UNCHANGED <<there, registered, api, auth, oauth, secrets, torn, call>>
  BY <1>1 DEF tables, registry, endpoints, others
<1>5. Stood'
  BY <1>2, <1>4 DEF Stood, RegisteredStand, ApiStand, AuthStand, OAuthStand, CallsStand, Dropping, Forgetting
<1>6. QED
  BY <1>1, <1>2, <1>3, <1>5, PartsStill DEF TablesInv, Typed

\* Every step keeps the invariant.
LEMMA TablesStep == TablesInv /\ [TablesNext]_schemaVars => TablesInv'
<1> SUFFICES ASSUME TablesInv, TablesMove PROVE TablesInv'
  BY TablesStutter DEF TablesNext
<1>1. ASSUME NEW c \in Callers, SchemaStep(c) \/ EndpointStep(c) \/ RowStep(c) \/ StatementFails(c)
      PROVE  TablesInv'
  BY <1>1, SchemaKeeps, EndpointsKeep, RowsKeep, FailureKeeps
<1>2. QED
  BY <1>1, OwnerKeeps, CrashKeeps DEF TablesMove

\* A site begins with the tables it has had, registered, and with no endpoints.
LEMMA TablesStart == TablesInit => TablesInv
<1> SUFFICES ASSUME TablesInit PROVE TablesInv
  OBVIOUS
<1>1. PICK old \in SUBSET Tables :
         /\ there = old /\ registered = old
         /\ cols = [t \in Tables |-> IF t \in old THEN {"name", "secret"} ELSE {}]
         /\ def = cols
         /\ approval \in [Gates \X Tables -> {"none"} \cup {"yes" : t \in old}]
         /\ secure = [t \in Tables |-> IF t \in old THEN Secure ELSE {}]
         /\ index = [t \in Tables |-> IF t \in old THEN {"table", "triggers"} ELSE {}]
  BY DEF TablesInit
<1>2. /\ rows = [t \in Tables |-> {}] /\ api = {} /\ auth = {} /\ oauth = {} /\ link = {} /\ secrets = {}
      /\ call = [c \in Callers |-> Idle] /\ calls = 0 /\ faults = 0 /\ torn = {}
      /\ MaxCalls \in Nat /\ MaxFaults \in Nat
  BY SiteTablesAssumption DEF TablesInit
<1>3. Idle \in CallRecords /\ CallSound(Idle) /\ Idle.op = "idle"
  BY DEF Idle, CallRecords, CallSound, OnTables, Stages, Kinds
<1>4. PhysicalTyped
  BY <1>1, <1>2 DEF PhysicalTyped, Columns
<1>5. RegistryTyped
  BY <1>1, <1>2 DEF RegistryTyped, Columns, Secure
<1>6. EndpointsTyped
  BY <1>2 DEF EndpointsTyped
<1>7. OthersTyped
  BY <1>1, <1>2 DEF OthersTyped
<1>8. CallsTyped
  BY <1>2, <1>3 DEF CallsTyped
<1>9. Stood
  BY <1>1, <1>2, <1>3 DEF Stood, RegisteredStand, ApiStand, AuthStand, OAuthStand, CallsStand
<1>10. QED
  BY <1>4, <1>5, <1>6, <1>7, <1>8, <1>9 DEF TablesInv, Typed

-----------------------------------------------------------------------------
(* What is known of the secure columns                                     *)

\* A table that nobody shapes is registered if it is there, its secure column with it.
Settled(t) ==
    /\ t \in there => t \in registered
    /\ "secret" \in cols[t] => "secret" \in secure[t]

\* What a call that shapes a table knows of it at each stage.
ShapeKnown(j, t) ==
    /\ j.op = "create" =>
          /\ j.at = "table" => t \notin there
          /\ j.at = "register" => ("secret" \in cols[t] => "secret" \in j.add)
          /\ j.at = "index" => Settled(t)
          /\ j.at \in {"table", "register", "index"}
          /\ j.at # "table" => j.wrote = TRUE
    /\ j.op = "alter" =>
          /\ t \in there => t \in registered
          /\ "secret" \in cols[t] => "secret" \in j.seen
          /\ j.wrote = FALSE => Settled(t)
    /\ j.op = "drop" => IF j.at = "table" THEN Settled(t) ELSE t \notin there
    /\ j.op = "column" =>
          /\ j.wrote = TRUE /\ t \in registered
          /\ j.at = "write back" => "secret" \in j.seen

Alone(t) == \A c, o \in Callers : Shapes(call[c], t) /\ Shapes(call[o], t) => c = o
Unshaped(t) == \A c \in Callers : ~Shapes(call[c], t)

\* One call at a time shapes the table, and a write that is not blind knows its secure column.
KnownOf(t) ==
    /\ Alone(t)
    /\ \A c \in Callers : Shapes(call[c], t) => ShapeKnown(call[c], t)
    /\ Unshaped(t) => Settled(t)
    /\ \A c \in Callers \ blind : call[c].on = t /\ call[c].at = "write" =>
          Unshaped(t) /\ ("secret" \in cols[t] => "secret" \in call[c].seen)
Known == \A t \in Tables : t \notin torn /\ t \notin exposed => KnownOf(t)

SecretInv == exposed \subseteq Tables /\ blind \subseteq Callers /\ Known

\* What the invariant says of the state is what the properties ask.
LEMMA TablesShow == TablesInv /\ SecretInv => TablesTypeOK /\ NothingDangles
<1> SUFFICES ASSUME TablesInv, SecretInv PROVE TablesTypeOK /\ NothingDangles
  OBVIOUS
<1>1. /\ PhysicalTyped /\ RegistryTyped /\ EndpointsTyped /\ OthersTyped /\ CallsTyped
      /\ RegisteredStand /\ ApiStand /\ AuthStand /\ OAuthStand
      /\ exposed \subseteq Tables /\ blind \subseteq Callers
  BY DEF TablesInv, Typed, Stood, SecretInv
<1>2. \A c \in Callers : call[c].on \in Named \cup {NoTable}
  BY <1>1 DEF CallsTyped, CallRecords
<1>3. TablesTypeOK
  BY <1>1, <1>2 DEF TablesTypeOK, PhysicalTyped, RegistryTyped, EndpointsTyped, OthersTyped, CallsTyped
<1>4. \A t, P : Dropping(t, P) => Removing(t)
  BY DEF Dropping, Removing
<1>5. \A n : Forgetting(n) => Removing(n)
  BY DEF Forgetting, Removing
<1>6. RegisteredExist
  BY <1>1, <1>4 DEF RegisteredExist, RegisteredStand, Sound
<1>7. EndpointsHaveTables
  BY <1>1, <1>4 DEF EndpointsHaveTables, ApiStand, AuthStand, Sound
<1>8. ProvidersHaveSecrets
  BY <1>1, <1>5 DEF ProvidersHaveSecrets, OAuthStand, Sound
<1>9. QED
  BY <1>3, <1>6, <1>7, <1>8 DEF NothingDangles

\* The others do not shape the table; the caller's call becomes j; the table stays as known.
Others(c, t) == \A o \in Callers \ {c} : ~Shapes(call[o], t)
Turns(c, j) == call' = [call EXCEPT ![c] = j]
Stays(t) ==
    /\ t \in there' => t \in there
    /\ t \in registered => t \in registered'
    /\ secure'[t] = secure[t]
    /\ "secret" \in cols'[t] => "secret" \in cols[t]

\* What a step of one caller may use of the table, and what it must leave.
Ready(c, t) ==
    /\ Shapes(call[c], t) => ShapeKnown(call[c], t)
    /\ ~Shapes(call[c], t) /\ Others(c, t) => Settled(t)
Steps(c, t) ==
    /\ TablesInv /\ Ready(c, t) /\ Watch
    /\ t \notin torn' /\ t \notin exposed'
    /\ \A i : Turns(c, i) /\ Shapes(i, t) => Others(c, t)
Leaves(c, j, t) ==
    /\ Shapes(j, t) => ShapeKnown(j, t)'
    /\ Shapes(call[c], t) /\ ~Shapes(j, t) => Settled(t)'
    /\ ~Shapes(call[c], t) /\ ~Shapes(j, t) => Stays(t)
    /\ j.at = "write" =>
          \/ j = call[c]
          \/ /\ call[c].op = "idle"
             /\ j.on = t /\ Others(c, t) /\ c \notin blind' /\ "secret" \in cols[t] => "secret" \in j.seen

\* A call that turns into j, and the others as they were.
LEMMA TurnsIs ==
    ASSUME CallsTyped, NEW c \in Callers, NEW j, Turns(c, j)
    PROVE  call'[c] = j /\ \A o \in Callers : o # c => call'[o] = call[o]
  BY DEF CallsTyped, Turns

\* What is known stays known of a table that stays as it is.
LEMMA StaysSettled == ASSUME NEW t, Stays(t), Settled(t) PROVE Settled(t)'
  BY DEF Stays, Settled

LEMMA StaysKnown == ASSUME NEW j, NEW t, Stays(t), ShapeKnown(j, t) PROVE ShapeKnown(j, t)'
<1>1. Settled(t) => Settled(t)'
  BY StaysSettled
<1>2. QED
  BY <1>1 DEF Stays, ShapeKnown

\* A call that has not written leaves the table settled.
LEMMA UnwrittenSettled ==
    ASSUME PhysicalTyped, NEW t \in Tables, NEW j, Shapes(j, t), ShapeKnown(j, t), j.wrote = FALSE
    PROVE  Settled(t)
<1>1. t \notin there => Settled(t)
  BY DEF Settled, PhysicalTyped
<1>2. j.op \in {"create", "alter", "drop", "column"}
  BY DEF Shapes
<1>3. CASE j.op = "create"
  BY <1>1, <1>3 DEF ShapeKnown
<1>4. CASE j.op = "alter"
  BY <1>4 DEF ShapeKnown
<1>5. CASE j.op = "drop"
  BY <1>1, <1>5 DEF ShapeKnown
<1>6. CASE j.op = "column"
  BY <1>6 DEF ShapeKnown
<1>7. QED
  BY <1>2, <1>3, <1>4, <1>5, <1>6

\* A step of one caller that leaves what it must keeps what is known.
LEMMA StepKnown ==
    ASSUME CallsTyped, CallsTyped', NEW c \in Callers, NEW t \in Tables, NEW j, KnownOf(t), Watch, t \notin exposed',
           Turns(c, j), Leaves(c, j, t)
    PROVE  KnownOf(t)'
<1>1. call'[c] = j /\ \A o \in Callers : o # c => call'[o] = call[o]
  BY TurnsIs
<1>2. ~Exposes(t)
  BY DEF Watch
<1>3. Alone(t)'
  BY <1>2 DEF Alone, Exposes, Shapes
<1>4. ASSUME ~Shapes(call[c], t), ~Shapes(j, t) PROVE Stays(t)
  BY <1>4 DEF Leaves
<1>5. ASSUME NEW o \in Callers, Shapes(call[o], t)' PROVE ShapeKnown(call[o], t)'
  <2>1. CASE o = c
    <3>1. Shapes(j, t)
      BY <1>1, <1>5, <2>1 DEF Shapes
    <3>2. ShapeKnown(j, t)'
      BY <3>1 DEF Leaves
    <3>3. QED
      BY <1>1, <2>1, <3>2 DEF ShapeKnown, Settled
  <2>2. CASE o # c
    <3>1. PICK v : v = call[o]
      OBVIOUS
    <3>2. call'[o] = v
      BY <1>1, <2>2, <3>1
    <3>3. Shapes(v, t) /\ Shapes(call[o], t)
      BY <1>5, <3>1, <3>2 DEF Shapes
    <3>4. ShapeKnown(call[o], t)
      BY <3>3 DEF KnownOf
    <3>5. ShapeKnown(v, t)
      BY <3>1, <3>4 DEF ShapeKnown
    <3>6. ~Shapes(call[c], t)
      BY <2>2, <3>3 DEF KnownOf, Alone
    <3>7. ~Shapes(j, t)
      BY <1>1, <1>3, <1>5, <2>2 DEF Alone, Shapes
    <3>8. ShapeKnown(v, t)'
      BY <1>4, <3>5, <3>6, <3>7, StaysKnown
    <3>9. QED
      BY <3>2, <3>8 DEF ShapeKnown, Settled
  <2>3. QED
    BY <2>1, <2>2
<1>6. ASSUME Unshaped(t)' PROVE Settled(t)'
  <2>1. ~Shapes(j, t)
    BY <1>1, <1>6 DEF Unshaped, Shapes
  <2>2. CASE Shapes(call[c], t)
    BY <2>1, <2>2 DEF Leaves
  <2>3. CASE ~Shapes(call[c], t)
    <3>1. Unshaped(t)
      BY <1>1, <1>6, <2>3 DEF Unshaped, Shapes
    <3>2. Settled(t)
      BY <3>1 DEF KnownOf
    <3>3. QED
      BY <1>4, <2>1, <2>3, <3>2, StaysSettled
  <2>4. QED
    BY <2>2, <2>3
<1>7. ASSUME NEW o \in Callers, o \notin blind', call'[o].on = t, call'[o].at = "write"
      PROVE  Unshaped(t)' /\ ("secret" \in cols'[t] => "secret" \in call'[o].seen)
  <2>1. o \notin blind /\ ~Blinds(o)
    BY <1>7 DEF Watch
  <2>2. call'[o].op \notin {"create", "alter", "drop", "column"}
    BY <1>7 DEF CallsTyped, CallSound
  <2>3. Unshaped(t)'
    <3>1. \A p \in Callers \ {o} : ~(call'[p].op \in {"create", "alter", "drop", "column"} /\ call'[p].on = t)
      BY <1>7, <2>1 DEF Blinds, Shapes
    <3>2. QED
      BY <2>2, <3>1 DEF Unshaped, Shapes
  <2>4. ~Shapes(j, t) /\ Others(c, t)
    BY <1>1, <2>3 DEF Unshaped, Others, Shapes
  <2>5. CASE call'[o] = call[o]
    <3>1. Unshaped(t) /\ ("secret" \in cols[t] => "secret" \in call[o].seen)
      BY <1>7, <2>1, <2>5 DEF KnownOf
    <3>2. Stays(t)
      BY <1>4, <2>4, <3>1 DEF Unshaped
    <3>3. QED
      BY <2>3, <2>5, <3>1, <3>2 DEF Stays
  <2>6. CASE call'[o] # call[o]
    <3>1. o = c
      BY <1>1, <2>6
    <3>2. call[c].op = "idle" /\ ("secret" \in cols[t] => "secret" \in j.seen)
      BY <1>1, <1>7, <2>4, <2>6, <3>1 DEF Leaves
    <3>3. Stays(t)
      BY <1>4, <2>4, <3>2 DEF Shapes
    <3>4. QED
      BY <1>1, <2>3, <3>1, <3>2, <3>3 DEF Stays
  <2>7. QED
    BY <2>5, <2>6
<1>8. QED
  BY <1>3, <1>5, <1>6, <1>7 DEF KnownOf

-----------------------------------------------------------------------------
(* What each step leaves                                                   *)

\* A step that leaves the columns, the registry and the calls that shape tables alone.
Frame ==
    /\ UNCHANGED <<there, registered, secure>>
    /\ \A t \in Tables : "secret" \in cols'[t] => "secret" \in cols[t]
Shaping == {"create", "alter", "drop", "column"}
Aside(c, j) == call[c].op \notin Shaping /\ j.op \notin Shaping /\ (j = call[c] \/ j.at # "write")

LEMMA FrameLeaves ==
    ASSUME NEW c \in Callers, NEW j, NEW t \in Tables, Frame, Aside(c, j)
    PROVE  Leaves(c, j, t)
<1>1. Stays(t)
  BY DEF Frame, Stays
<1>2. ~Shapes(call[c], t) /\ ~Shapes(j, t)
  BY DEF Aside, Shaping, Shapes
<1>3. QED
  BY <1>1, <1>2 DEF Aside, Leaves

\* One caller makes a call at once, goes on or ends.
LEMMA AsideIs ==
    ASSUME TablesInv, NEW c \in Callers
    PROVE  /\ Single(c) => Turns(c, call[c]) /\ Aside(c, call[c])
           /\ End(c) /\ call[c].op \notin Shaping => Turns(c, Idle) /\ Aside(c, Idle)
           /\ \A at : Goto(c, at) /\ call[c].op \notin Shaping /\ at # "write" =>
                 \E j : Turns(c, j) /\ Aside(c, j)
           /\ \A j : Begin(c, j) /\ j.op \notin Shaping /\ j.at # "write" => Turns(c, j) /\ Aside(c, j)
<1>1. call \in [Callers -> CallRecords]
  BY DEF TablesInv, Typed, CallsTyped
<1>2. Idle.op = "idle" /\ Idle.at = "begin"
  BY DEF Idle
<1>3. ASSUME Single(c) PROVE Turns(c, call[c]) /\ Aside(c, call[c])
  BY <1>1, <1>2, <1>3 DEF Single, Turns, Aside, Shaping
<1>4. ASSUME End(c), call[c].op \notin Shaping PROVE Turns(c, Idle) /\ Aside(c, Idle)
  BY <1>2, <1>4 DEF End, Turns, Aside, Shaping
<1>5. ASSUME NEW at, Goto(c, at), call[c].op \notin Shaping, at # "write"
      PROVE  \E j : Turns(c, j) /\ Aside(c, j)
  <2> DEFINE j == [call[c] EXCEPT !.at = at, !.wrote = TRUE]
  <2>1. Turns(c, j)
    BY <1>1, <1>5 DEF Goto, Turns
  <2>2. j.op = call[c].op /\ j.at = at
    BY <1>1 DEF CallRecords
  <2> HIDE DEF j
  <2>3. Aside(c, j)
    BY <1>5, <2>2 DEF Aside
  <2>4. QED
    BY <2>1, <2>3
<1>6. ASSUME NEW j, Begin(c, j), j.op \notin Shaping, j.at # "write" PROVE Turns(c, j) /\ Aside(c, j)
  BY <1>2, <1>6 DEF Begin, Turns, Aside, Shaping
<1>7. QED
  BY <1>3, <1>4, <1>5, <1>6

\* Endpoints come and go without a table being shaped.
LEMMA EndpointsAside ==
    ASSUME TablesInv, NEW c \in Callers, EndpointStep(c)
    PROVE  Frame /\ \E j : Turns(c, j) /\ Aside(c, j)
<1>1. PhysicalTyped /\ RegistryTyped /\ call[c] \in CallRecords /\ CallSound(call[c]) /\ Idle \in CallRecords
  BY CallIs
<1>2. UNCHANGED tables /\ UNCHANGED registry => Frame
  BY DEF tables, registry, Frame
<1>3. CASE \E p \in Paths, t \in Tables : CreateAPI(c, p, t) \/ AdminCreateAPI(c, p, t) \/ CreateAuth(c, p, t)
  <2>1. PICK j : Begin(c, j) /\ j.op \in {"api", "admin", "auth"} /\ j.at \in {"insert", "role"}
    <3>1. PICK p \in Paths, t \in Tables : CreateAPI(c, p, t) \/ AdminCreateAPI(c, p, t) \/ CreateAuth(c, p, t)
      BY <1>3
    <3>2. CASE CreateAPI(c, p, t)
      <4>1. PICK a \in BOOLEAN, o \in BOOLEAN :
               Begin(c, [Idle EXCEPT !.op = "api", !.at = "insert", !.on = t, !.path = p,
                                     !.role = a \/ o, !.owner = o])
        BY <3>2 DEF CreateAPI
      <4> DEFINE j == [Idle EXCEPT !.op = "api", !.at = "insert", !.on = t, !.path = p, !.role = a \/ o, !.owner = o]
      <4>2. j.op = "api" /\ j.at = "insert" /\ Begin(c, j)
        BY <1>1, <4>1 DEF CallRecords
      <4> HIDE DEF j
      <4>3. QED
        BY <4>2
    <3>3. CASE AdminCreateAPI(c, p, t)
      <4>1. PICK a \in BOOLEAN, o \in BOOLEAN :
               Begin(c, [Idle EXCEPT !.op = "admin", !.at = "insert", !.on = t, !.path = p,
                                     !.role = a, !.owner = o])
        BY <3>3 DEF AdminCreateAPI
      <4> DEFINE j == [Idle EXCEPT !.op = "admin", !.at = "insert", !.on = t, !.path = p, !.role = a, !.owner = o]
      <4>2. j.op = "admin" /\ j.at = "insert" /\ Begin(c, j)
        BY <1>1, <4>1 DEF CallRecords
      <4> HIDE DEF j
      <4>3. QED
        BY <4>2
    <3>4. CASE CreateAuth(c, p, t)
      <4> DEFINE j == [Idle EXCEPT !.op = "auth", !.on = t, !.path = p, !.seen = def[t],
                                   !.at = IF "role" \in def[t] THEN "insert" ELSE "role"]
      <4>1. j.op = "auth" /\ j.at \in {"insert", "role"} /\ Begin(c, j)
        BY <1>1, <3>4 DEF CreateAuth, CallRecords
      <4> HIDE DEF j
      <4>2. QED
        BY <4>1
    <3>5. QED
      BY <3>1, <3>2, <3>3, <3>4
  <2>2. Turns(c, j) /\ Aside(c, j)
    BY <2>1, AsideIs DEF Shaping
  <2>3. UNCHANGED tables /\ UNCHANGED registry
    BY <2>1 DEF Begin
  <2>4. QED
    BY <1>2, <2>2, <2>3
<1>4. ASSUME NEW p \in Paths,
             \/ UpdateAPI(c, p) \/ AdminUpdateAPI(c, p) \/ DeleteAPI(c, p) \/ AdminDeleteAPI(c, p)
             \/ UpdateAuth(c, p) \/ DeleteAuth(c, p)
      PROVE  Frame /\ \E j : Turns(c, j) /\ Aside(c, j)
  <2>1. Single(c) /\ UNCHANGED tables /\ UNCHANGED registry
    BY <1>4 DEF UpdateAPI, AdminUpdateAPI, DeleteAPI, AdminDeleteAPI, UpdateAuth, DeleteAuth
  <2>2. QED
    BY <1>2, <2>1, AsideIs
<1>5. ASSUME NEW p \in Paths,
             \/ CreateUpload(c, p) \/ CreateStream(c, p) \/ CreateWebSocket(c, p) \/ CreateLLM(c, p)
      PROVE  Frame /\ \E j : Turns(c, j) /\ Aside(c, j)
  <2>1. PICK k \in Kinds, t \in Tables \cup {NoTable}, a \in BOOLEAN :
           Begin(c, [Idle EXCEPT !.op = "link", !.at = "insert", !.kind = k, !.path = p, !.link = t, !.role = a])
    BY <1>5 DEF CreateUpload, CreateStream, CreateWebSocket, CreateLLM, CreateLink, Kinds
  <2> DEFINE j == [Idle EXCEPT !.op = "link", !.at = "insert", !.kind = k, !.path = p, !.link = t, !.role = a]
  <2>2. j.op = "link" /\ j.at = "insert" /\ Begin(c, j)
    BY <1>1, <2>1 DEF CallRecords
  <2> HIDE DEF j
  <2>3. Turns(c, j) /\ Aside(c, j) /\ UNCHANGED tables /\ UNCHANGED registry
    BY <2>2, AsideIs DEF Shaping, Begin
  <2>4. QED
    BY <1>2, <2>3
<1>6. ASSUME NEW p \in Paths,
             \/ UpdateUpload(c, p) \/ UpdateStream(c, p) \/ UpdateWebSocket(c, p) \/ UpdateLLM(c, p)
             \/ DeleteUpload(c, p) \/ DeleteStream(c, p) \/ DeleteWebSocket(c, p) \/ DeleteLLM(c, p)
      PROVE  Frame /\ \E j : Turns(c, j) /\ Aside(c, j)
  <2>1. Single(c) /\ UNCHANGED tables /\ UNCHANGED registry
    BY <1>6 DEF UpdateUpload, UpdateStream, UpdateWebSocket, UpdateLLM, UpdateLink,
                DeleteUpload, DeleteStream, DeleteWebSocket, DeleteLLM, DeleteLink
  <2>2. QED
    BY <1>2, <2>1, AsideIs
<1>7. CASE \E n \in Providers : DeleteOAuth(c, n) \/ \E p \in Paths : CreateOAuth(c, n, p)
  <2>1. PICK n \in Providers : DeleteOAuth(c, n) \/ \E p \in Paths : CreateOAuth(c, n, p)
    BY <1>7
  <2>2. CASE DeleteOAuth(c, n)
    <3> DEFINE j == [Idle EXCEPT !.op = "unoauth", !.at = "delete", !.on = n, !.wrote = TRUE]
    <3>1. Turns(c, j) /\ call[c].op = "idle" /\ UNCHANGED tables /\ UNCHANGED registry
      BY <2>2 DEF DeleteOAuth, Turns, Idle
    <3>2. j.op = "unoauth" /\ j.at = "delete"
      BY <1>1 DEF CallRecords
    <3> HIDE DEF j
    <3>3. QED
      BY <1>2, <3>1, <3>2 DEF Aside, Shaping
  <2>3. ASSUME NEW p \in Paths, CreateOAuth(c, n, p) PROVE Frame /\ \E j : Turns(c, j) /\ Aside(c, j)
    <3> DEFINE j == [Idle EXCEPT !.op = "oauth", !.at = "secret", !.on = n, !.path = p]
    <3>1. j.op = "oauth" /\ j.at = "secret" /\ Begin(c, j)
      BY <1>1, <2>3 DEF CreateOAuth, CallRecords
    <3> HIDE DEF j
    <3>2. Turns(c, j) /\ Aside(c, j) /\ UNCHANGED tables /\ UNCHANGED registry
      BY <3>1, AsideIs DEF Shaping, Begin
    <3>3. QED
      BY <1>2, <3>2
  <2>4. QED
    BY <2>1, <2>2, <2>3
<1>8. CASE InsertAPI(c) \/ AdminInsertAPI(c) \/ InsertAuth(c) \/ InsertOAuth(c) \/ DeleteOAuthRow(c) \/ InsertLink(c)
  <2>1. /\ End(c) /\ call[c].op \notin Shaping /\ UNCHANGED tables /\ UNCHANGED registry
    BY <1>8 DEF InsertAPI, AdminInsertAPI, InsertAuth, InsertOAuth, DeleteOAuthRow, InsertLink, Stands, Shaping
  <2>2. QED
    BY <1>2, <2>1, AsideIs
<1>9. CASE StoreSecret(c) \/ UpdateSchemaDef(c)
  <2>1. /\ Goto(c, "insert") /\ call[c].op \notin Shaping
        /\ UNCHANGED tables /\ UNCHANGED <<registered, secure>>
    BY <1>9 DEF StoreSecret, UpdateSchemaDef, Stands, Shaping, registry
  <2>2. \E j : Turns(c, j) /\ Aside(c, j)
    BY <2>1, AsideIs
  <2>3. QED
    BY <2>1, <2>2 DEF tables, Frame
<1>10. CASE AddRoleColumn(c)
  <2>1. call[c].op = "auth" /\ call[c].on \in Tables /\ call[c].op \notin Shaping
    BY <1>1, <1>10 DEF AddRoleColumn, Stands, CallSound, OnTables, Shaping
  <2>2. CASE Refused(c)
    BY <1>2, <2>1, <2>2, AsideIs DEF Refused
  <2>3. CASE ~Refused(c)
    <3>1. /\ cols' = [cols EXCEPT ![call[c].on] = @ \cup {"role"}] /\ Goto(c, "schema")
          /\ UNCHANGED <<there, registry>>
      BY <1>10, <2>3 DEF AddRoleColumn
    <3>2. \E j : Turns(c, j) /\ Aside(c, j)
      BY <2>1, <3>1, AsideIs
    <3>3. Frame
      BY <1>1, <2>1, <3>1 DEF Frame, registry, PhysicalTyped
    <3>4. QED
      BY <3>2, <3>3
  <2>4. QED
    BY <2>2, <2>3
<1>11. QED
  BY <1>3, <1>4, <1>5, <1>6, <1>7, <1>8, <1>9, <1>10 DEF EndpointStep

\* Rows are written and removed, and plain columns added, without a table being shaped.
LEMMA RowsAside ==
    ASSUME TablesInv, NEW c \in Callers,
           \/ ExecWrite(c) \/ ExecNothing(c) \/ ImportUnsealed(c)
           \/ \E t \in Tables : DeleteRow(c, t) \/ BatchDelete(c, t) \/ AdminDeleteRow(c, t) \/ AdminAddColumn(c, t)
    PROVE  Frame /\ \E j : Turns(c, j) /\ Aside(c, j)
<1>1. PhysicalTyped /\ CallSound(call[c])
  BY CallIs
<1>2. CASE ExecWrite(c) \/ ExecNothing(c) \/ ImportUnsealed(c)
  <2>1. /\ End(c) /\ call[c].at = "write" /\ UNCHANGED <<there, cols>> /\ UNCHANGED registry
    BY <1>2 DEF ExecWrite, ExecNothing, ImportUnsealed, tables
  <2>2. call[c].op \notin Shaping
    BY <1>1, <2>1 DEF CallSound, Shaping
  <2>3. QED
    BY <2>1, <2>2, AsideIs DEF Frame, registry
<1>3. ASSUME NEW t \in Tables, DeleteRow(c, t) \/ BatchDelete(c, t) \/ AdminDeleteRow(c, t)
      PROVE  Frame /\ \E j : Turns(c, j) /\ Aside(c, j)
  <2>1. Single(c) /\ UNCHANGED <<there, cols>> /\ UNCHANGED registry
    BY <1>3 DEF DeleteRow, BatchDelete, AdminDeleteRow, RemoveRows
  <2>2. QED
    BY <2>1, AsideIs DEF Frame, registry
<1>4. ASSUME NEW t \in Tables, AdminAddColumn(c, t)
      PROVE  Frame /\ \E j : Turns(c, j) /\ Aside(c, j)
  <2>1. Single(c) /\ cols' = [cols EXCEPT ![t] = @ \cup {"role"}] /\ UNCHANGED there /\ UNCHANGED registry
    BY <1>4 DEF AdminAddColumn
  <2>2. Frame
    BY <1>1, <2>1 DEF Frame, registry, PhysicalTyped
  <2>3. QED
    BY <2>1, <2>2, AsideIs
<1>5. QED
  BY <1>2, <1>3, <1>4

\* A table that is settled and has the secure column lets a reader know of it.
LEMMA SettledRead ==
    ASSUME PhysicalTyped, NEW t \in Tables, Settled(t), "secret" \in cols[t]
    PROVE  t \in there /\ "secret" \in LoadSecureColumns(t)
BY DEF PhysicalTyped, Settled, LoadSecureColumns

\* A write that has read the secure columns, with nobody shaping the table, knows of them.
LEMMA WriteLeaves ==
    ASSUME NEW c \in Callers, NEW t \in Tables, Steps(c, t), NEW u \in Tables, \E op \in RowWrites : Write(c, u, op)
    PROVE  \E j : Turns(c, j) /\ Leaves(c, j, t)
<1>1. TablesInv /\ PhysicalTyped /\ CallsTyped /\ Ready(c, t) /\ Watch
  BY CallIs DEF Steps
<1>2. PICK i \in CallRecords : /\ i.op \in RowWrites /\ i.at = "write" /\ i.on = u /\ i.wrote = FALSE
                               /\ BeginReading(c, i)
  BY <1>1, WriteIs
<1>3. PICK s \in SUBSET Secure, j \in CallRecords :
         /\ call' = [call EXCEPT ![c] = j] /\ j.op \in RowWrites /\ j.at = "write" /\ j.on = u /\ j.seen = s
         /\ s = LoadSecureColumns(u) \/ faults' # faults
  BY <1>1, <1>2, ReadingIs
<1>4. call[c] = Idle /\ call[c].op = "idle" /\ UNCHANGED tables /\ UNCHANGED registry
  <2>1. call[c] = Idle /\ UNCHANGED tables /\ UNCHANGED registry
    BY <1>1, <1>2, ReadingIs
  <2>2. QED
    BY <2>1 DEF Idle
<1>5. Turns(c, j) /\ call'[c] = j
  BY <1>1, <1>3 DEF Turns, CallsTyped
<1>6. ~Shapes(call[c], t) /\ ~Shapes(j, t)
  BY <1>3, <1>4 DEF Shapes, RowWrites
<1>7. Stays(t)
  BY <1>4 DEF Stays, tables, registry
<1>8. ASSUME u = t, Others(c, t), c \notin blind', "secret" \in cols[t] PROVE "secret" \in j.seen
  <2>1. ~Unread(c)
    BY <1>1, <1>3, <1>5, <1>8 DEF Watch, Blinds
  <2>2. j # Idle
    BY <1>3 DEF Idle, RowWrites
  <2>3. s = LoadSecureColumns(t)
    BY <1>3, <1>4, <1>5, <1>8, <2>1, <2>2 DEF Unread
  <2>4. Settled(t)
    BY <1>1, <1>6, <1>8 DEF Ready
  <2>5. QED
    BY <1>1, <1>3, <1>8, <2>3, <2>4, SettledRead
<1>9. QED
  BY <1>3, <1>4, <1>5, <1>6, <1>7, <1>8 DEF Leaves

\* A call that ends early has not written, or the table would be torn.
LEMMA StopLeaves ==
    ASSUME NEW c \in Callers, NEW t \in Tables, Steps(c, t), End(c), UNCHANGED <<there, cols, registered, secure>>,
           Shapes(call[c], t) => call[c].wrote = FALSE
    PROVE  Turns(c, Idle) /\ Leaves(c, Idle, t)
<1>1. TablesInv /\ PhysicalTyped /\ CallsTyped /\ Ready(c, t)
  BY CallIs DEF Steps
<1>2. Turns(c, Idle) /\ ~Shapes(Idle, t) /\ Idle.at # "write"
  BY DEF End, Turns, Shapes, Idle
<1>3. Stays(t)
  BY DEF Stays
<1>4. ASSUME Shapes(call[c], t) PROVE Settled(t)'
  <2>1. ShapeKnown(call[c], t) /\ call[c].wrote = FALSE
    BY <1>1, <1>4 DEF Ready
  <2>2. Settled(t)
    BY <1>1, <1>4, <2>1, UnwrittenSettled
  <2>3. QED
    BY <1>3, <2>2, StaysSettled
<1>5. QED
  BY <1>2, <1>3, <1>4 DEF Leaves

\* So does a refusal, and a statement that fails.
LEMMA RefusedLeaves ==
    ASSUME NEW c \in Callers, NEW t \in Tables, Steps(c, t), Refused(c) \/ StatementFails(c)
    PROVE  Turns(c, Idle) /\ Leaves(c, Idle, t)
<1>1. TablesInv /\ call[c] \in CallRecords /\ t \notin torn'
  BY CallIs DEF Steps
<1>2. /\ End(c) /\ UNCHANGED tables /\ UNCHANGED registry
      /\ torn' = IF call[c].wrote THEN torn \cup {call[c].on} ELSE torn
  BY DEF Refused, StatementFails
<1>3. Shapes(call[c], t) => call[c].wrote = FALSE
  <2>1. call[c].wrote \in BOOLEAN
    BY <1>1 DEF CallRecords
  <2>2. torn' = IF call[c].wrote = TRUE THEN torn \cup {call[c].on} ELSE torn
    BY <1>2, <2>1, Zenon
  <2>3. QED
    BY <1>1, <2>1, <2>2 DEF Shapes
<1>4. UNCHANGED <<there, cols, registered, secure>>
  BY <1>2 DEF tables, registry
<1>5. QED
  BY <1>2, <1>3, <1>4, StopLeaves

\* create begins on a table that is neither registered nor there.
LEMMA CreateLeaves ==
    ASSUME NEW c \in Callers, NEW t \in Tables, Steps(c, t), NEW u \in Tables, CreateTable(c, u)
    PROVE  \E j : Turns(c, j) /\ Leaves(c, j, t)
<1>1. TablesInv /\ CallsTyped /\ Ready(c, t) /\ (\A i : Turns(c, i) /\ Shapes(i, t) => Others(c, t)) /\ Idle \in CallRecords
  BY CallIs DEF Steps
<1>2. PICK more \in SUBSET {"secret", "role"}, s \in BOOLEAN :
         Begin(c, [Idle EXCEPT !.op = "create", !.at = "table", !.on = u,
                               !.add = {"name"} \cup more, !.search = s])
  BY DEF CreateTable
<1> DEFINE j == [Idle EXCEPT !.op = "create", !.at = "table", !.on = u, !.add = {"name"} \cup more, !.search = s]
<1>3. Begin(c, j) /\ j.op = "create" /\ j.at = "table" /\ j.on = u
  BY <1>1, <1>2 DEF CallRecords
<1> HIDE DEF j
<1>4. /\ Turns(c, j) /\ call'[c] = j /\ call[c].op = "idle" /\ u \notin registered
      /\ UNCHANGED tables /\ UNCHANGED registry
  <2>1. Turns(c, j) /\ call[c] = Idle /\ u \notin registered /\ UNCHANGED tables /\ UNCHANGED registry
    BY <1>3 DEF Begin, Turns, CreateTable
  <2>2. call'[c] = j
    BY <1>1, <2>1, TurnsIs
  <2>3. QED
    BY <2>1, <2>2 DEF Idle
<1>5. ~Shapes(call[c], t) /\ (Shapes(j, t) => t = u /\ Others(c, t))
  BY <1>1, <1>3, <1>4 DEF Shapes
<1>6. Shapes(j, t) => t \notin there'
  <2>1. Shapes(j, t) => Settled(t)
    BY <1>1, <1>5 DEF Ready
  <2>2. QED
    BY <1>4, <1>5, <2>1 DEF Settled, tables
<1>7. Shapes(j, t) => ShapeKnown(j, t)'
  BY <1>3, <1>6 DEF ShapeKnown
<1>8. Stays(t)
  BY <1>4 DEF Stays, tables, registry
<1>9. QED
  BY <1>3, <1>4, <1>5, <1>7, <1>8 DEF Leaves

\* alter begins with what it has read; a read that fails leaves the table exposed.
LEMMA AlterLeaves ==
    ASSUME NEW c \in Callers, NEW t \in Tables, Steps(c, t), NEW u \in Tables, AlterTable(c, u)
    PROVE  \E j : Turns(c, j) /\ Leaves(c, j, t)
<1>1. /\ TablesInv /\ PhysicalTyped /\ CallsTyped /\ Ready(c, t) /\ Watch /\ t \notin exposed'
      /\ \A i : Turns(c, i) /\ Shapes(i, t) => Others(c, t)
  BY CallIs DEF Steps
<1>2. PICK i \in CallRecords : /\ i.op = "alter" /\ i.at = "add" /\ i.on = u /\ i.wrote = FALSE
                               /\ BeginReading(c, i)
  BY <1>1, AlterTableIs
<1>3. PICK s \in SUBSET Secure, j \in CallRecords :
         /\ call' = [call EXCEPT ![c] = j] /\ j.op = "alter" /\ j.at = "add" /\ j.on = u /\ j.seen = s
         /\ s = LoadSecureColumns(u) \/ faults' # faults
  BY <1>1, <1>2, ReadingIs
<1>4. call[c] = Idle /\ call[c].op = "idle" /\ UNCHANGED tables /\ UNCHANGED registry
  <2>1. call[c] = Idle /\ UNCHANGED tables /\ UNCHANGED registry
    BY <1>1, <1>2, ReadingIs
  <2>2. QED
    BY <2>1 DEF Idle
<1>5. Turns(c, j) /\ call'[c] = j /\ j # Idle
  BY <1>1, <1>3 DEF Turns, CallsTyped, Idle
<1>6. ~Shapes(call[c], t) /\ (Shapes(j, t) => t = u /\ Others(c, t))
  BY <1>1, <1>3, <1>4, <1>5 DEF Shapes
<1>7. Stays(t)
  BY <1>4 DEF Stays, tables, registry
<1>8. ASSUME Shapes(j, t) PROVE ShapeKnown(j, t)'
  <2>1. Settled(t)
    BY <1>1, <1>6, <1>8 DEF Ready
  <2>2. ~Unread(c)
    BY <1>1, <1>5, <1>8 DEF Watch, Exposes
  <2>3. s = LoadSecureColumns(t)
    BY <1>3, <1>4, <1>5, <1>6, <1>8, <2>2 DEF Unread
  <2>4. "secret" \in cols[t] => "secret" \in j.seen
    BY <1>1, <1>3, <2>1, <2>3, SettledRead
  <2>5. QED
    BY <1>3, <1>4, <2>1, <2>4 DEF ShapeKnown, Settled, tables, registry
<1>9. QED
  BY <1>3, <1>5, <1>6, <1>7, <1>8 DEF Leaves

\* drop asks, or begins on a settled table.
LEMMA DropLeaves ==
    ASSUME NEW c \in Callers, NEW t \in Tables, Steps(c, t), NEW u \in Tables, DropTable(c, u)
    PROVE  \E j : Turns(c, j) /\ Leaves(c, j, t)
<1>1. TablesInv /\ CallsTyped /\ Ready(c, t) /\ (\A i : Turns(c, i) /\ Shapes(i, t) => Others(c, t)) /\ Idle \in CallRecords
  BY CallIs DEF Steps
<1>2. CASE Begin(c, [Idle EXCEPT !.op = "drop", !.at = "table", !.on = u])
  <2> DEFINE j == [Idle EXCEPT !.op = "drop", !.at = "table", !.on = u]
  <2>1. Begin(c, j) /\ j.op = "drop" /\ j.at = "table" /\ j.on = u
    BY <1>1, <1>2 DEF CallRecords
  <2> HIDE DEF j
  <2>2. /\ Turns(c, j) /\ call'[c] = j /\ call[c].op = "idle"
        /\ UNCHANGED tables /\ UNCHANGED registry
    BY <1>1, <2>1 DEF Begin, Turns, CallsTyped, Idle
  <2>3. ~Shapes(call[c], t) /\ (Shapes(j, t) => t = u /\ Others(c, t))
    BY <1>1, <2>1, <2>2 DEF Shapes
  <2>4. Stays(t)
    BY <2>2 DEF Stays, tables, registry
  <2>5. Shapes(j, t) => Settled(t)'
    BY <1>1, <2>3, <2>4, StaysSettled DEF Ready
  <2>6. Shapes(j, t) => ShapeKnown(j, t)'
    BY <2>1, <2>5 DEF ShapeKnown
  <2>7. QED
    BY <2>1, <2>2, <2>3, <2>4, <2>6 DEF Leaves
<1>3. CASE /\ Single(c) /\ Ask(<<"drop", u>>)
           /\ UNCHANGED <<tables, registry, endpoints, faults, torn>>
  <2>1. Turns(c, call[c]) /\ Aside(c, call[c])
    BY <1>1, <1>3, AsideIs
  <2>2. Frame
    BY <1>3 DEF tables, registry, Frame
  <2>3. Leaves(c, call[c], t)
    BY <2>1, <2>2, FrameLeaves
  <2>4. QED
    BY <2>1, <2>3
<1>4. QED
  BY <1>2, <1>3 DEF DropTable


\* A step of a call is nothing to the tables it is not on; what it leaves of its own it must know.
LEMMA ElsewhereLeaves ==
    ASSUME NEW c \in Callers, NEW j, NEW t \in Tables, call[c].on # t \/ call[c].op \notin Shaping,
           j.on # t \/ j.op \notin Shaping, j.at # "write", Stays(t)
    PROVE  Leaves(c, j, t)
  BY DEF Leaves, Shapes, Shaping

LEMMA HereLeaves ==
    ASSUME NEW c \in Callers, NEW j, NEW t \in Tables, Shapes(call[c], t), j.at # "write",
           Shapes(j, t) => ShapeKnown(j, t)', Shapes(j, t) \/ Settled(t)'
    PROVE  Leaves(c, j, t)
  BY DEF Leaves

\* A call that goes on keeps what it knows, and has written; one that ends is idle.
Onward(c, j, a) ==
    /\ Turns(c, j) /\ j.op = call[c].op /\ j.on = call[c].on /\ j.at = a /\ j.wrote = TRUE
    /\ j.add = call[c].add /\ j.drop = call[c].drop /\ j.seen = call[c].seen

LEMMA OnIs == ASSUME TablesInv, NEW c \in Callers PROVE \A a : Goto(c, a) => \E j : Onward(c, j, a)
<1>1. call[c] \in CallRecords /\ call \in [Callers -> CallRecords]
  BY CallIs DEF CallsTyped
<1>2. ASSUME NEW a, Goto(c, a) PROVE \E j : Onward(c, j, a)
  <2> DEFINE j == [call[c] EXCEPT !.at = a, !.wrote = TRUE]
  <2>1. Turns(c, j)
    BY <1>1, <1>2 DEF Goto, Turns
  <2>2. /\ j.op = call[c].op /\ j.on = call[c].on /\ j.at = a /\ j.wrote = TRUE
        /\ j.add = call[c].add /\ j.drop = call[c].drop /\ j.seen = call[c].seen
    BY <1>1 DEF CallRecords
  <2> HIDE DEF j
  <2>3. Onward(c, j, a)
    BY <2>1, <2>2 DEF Onward
  <2>4. QED
    BY <2>3
<1>3. QED
  BY <1>2

LEMMA IdleIs == ASSUME NEW c \in Callers PROVE (End(c) => Turns(c, Idle)) /\ Idle.op \notin Shaping /\ Idle.at # "write"
  BY DEF End, Turns, Idle, Shaping

\* What a caller that shapes a table knows of it.
LEMMA ShaperKnows ==
    ASSUME NEW c \in Callers, NEW t \in Tables, Steps(c, t), call[c].op \in Shaping
    PROVE  /\ TablesInv /\ PhysicalTyped /\ RegistryTyped /\ CallsTyped /\ call[c] \in CallRecords
           /\ CallSound(call[c]) /\ call[c].on \in Tables
           /\ call[c].on = t => Shapes(call[c], t) /\ ShapeKnown(call[c], t)
<1>1. TablesInv /\ Ready(c, t)
  BY DEF Steps
<1>2. PhysicalTyped /\ RegistryTyped /\ CallsTyped /\ call[c] \in CallRecords /\ CallSound(call[c])
  BY <1>1, CallIs
<1>3. call[c].on \in Tables
  BY <1>2 DEF CallSound, OnTables, Shaping
<1>4. call[c].on = t => Shapes(call[c], t)
  BY DEF Shapes, Shaping
<1>5. QED
  BY <1>1, <1>2, <1>3, <1>4 DEF Ready

\* create makes a table with the columns it will register.
LEMMA PhysicalLeaves ==
    ASSUME NEW c \in Callers, NEW t \in Tables, Steps(c, t), CreatePhysical(c)
    PROVE  \E j : Turns(c, j) /\ Leaves(c, j, t)
<1>1. call[c].op = "create" /\ call[c].at = "table" /\ Goto(c, "register") /\ UNCHANGED <<registered, secure>>
  BY DEF CreatePhysical, Stands, registry
<1>2. /\ TablesInv /\ PhysicalTyped /\ call[c].on \in Tables
      /\ call[c].on = t => Shapes(call[c], t) /\ ShapeKnown(call[c], t)
  BY <1>1, ShaperKnows DEF Shaping
<1>3. PICK j : /\ Turns(c, j) /\ j.op = call[c].op /\ j.on = call[c].on /\ j.at = "register" /\ j.wrote = TRUE
               /\ j.add = call[c].add
  <2>1. PICK i : Onward(c, i, "register")
    BY <1>1, <1>2, OnIs
  <2>2. QED
    BY <2>1 DEF Onward
<1>4. CASE call[c].on # t
  <2>1. (t \in there' => t \in there) /\ cols'[t] = cols[t]
    BY <1>2, <1>4 DEF CreatePhysical, PhysicalTyped
  <2>2. Leaves(c, j, t)
    BY <1>1, <1>3, <1>4, <2>1, ElsewhereLeaves DEF Stays
  <2>3. QED
    BY <1>3, <2>2
<1>5. CASE call[c].on = t
  <2>1. t \notin there
    BY <1>1, <1>2, <1>5 DEF ShapeKnown
  <2>2. cols'[t] = j.add
    BY <1>2, <1>3, <1>5, <2>1 DEF CreatePhysical, PhysicalTyped
  <2>3. ShapeKnown(j, t)'
    BY <1>1, <1>3, <2>2 DEF ShapeKnown
  <2>4. Shapes(j, t)
    BY <1>1, <1>3, <1>5 DEF Shapes
  <2>5. Leaves(c, j, t)
    BY <1>2, <1>3, <1>5, <2>3, <2>4, HereLeaves
  <2>6. QED
    BY <1>3, <2>5
<1>6. QED
  BY <1>4, <1>5

\* It registers what is secure of them.
LEMMA RegisterLeaves ==
    ASSUME NEW c \in Callers, NEW t \in Tables, Steps(c, t), RegisterTable(c)
    PROVE  \E j : Turns(c, j) /\ Leaves(c, j, t)
<1>1. /\ call[c].op = "create" /\ call[c].at = "register" /\ UNCHANGED <<there, cols>>
      /\ registered' = registered \cup {call[c].on}
      /\ secure' = [secure EXCEPT ![call[c].on] = call[c].add \cap Secure]
  BY DEF RegisterTable, Stands, tables
<1>2. /\ TablesInv /\ RegistryTyped /\ call[c].on \in Tables
      /\ call[c].on = t => Shapes(call[c], t) /\ ShapeKnown(call[c], t)
  BY <1>1, ShaperKnows DEF Shaping
<1>3. Goto(c, "index") \/ End(c)
  BY DEF RegisterTable
<1>4. PICK j : Turns(c, j) /\ \/ j = Idle
                              \/ j.op = call[c].op /\ j.on = call[c].on /\ j.at = "index" /\ j.wrote = TRUE
  <2>1. CASE Goto(c, "index")
    <3>1. PICK i : Onward(c, i, "index")
      BY <1>2, <2>1, OnIs
    <3>2. QED
      BY <3>1 DEF Onward
  <2>2. CASE End(c)
    BY <2>2, IdleIs, Zenon
  <2>3. QED
    BY <1>3, <2>1, <2>2
<1>5. j.at # "write" /\ (j.op \in Shaping => j.on = call[c].on)
  BY <1>4, IdleIs
<1>6. CASE call[c].on # t
  <2>1. Stays(t)
    BY <1>1, <1>2, <1>6 DEF Stays, RegistryTyped
  <2>2. Leaves(c, j, t)
    BY <1>4, <1>5, <1>6, <2>1, ElsewhereLeaves
  <2>3. QED
    BY <1>4, <2>2
<1>7. CASE call[c].on = t
  <2>1. "secret" \in cols[t] => "secret" \in call[c].add
    BY <1>1, <1>2, <1>7 DEF ShapeKnown
  <2>2. t \in registered' /\ secure'[t] = call[c].add \cap Secure
    BY <1>1, <1>2, <1>7 DEF RegistryTyped
  <2>3. Settled(t)'
    BY <1>1, <2>1, <2>2 DEF Settled, Secure
  <2>4. Shapes(j, t) => ShapeKnown(j, t)'
    <3>1. ASSUME Shapes(j, t) PROVE j.op = "create" /\ j.at = "index" /\ j.wrote = TRUE
      BY <1>1, <1>4, <3>1, IdleIs DEF Shapes, Shaping
    <3>2. QED
      BY <2>3, <3>1 DEF ShapeKnown
  <2>5. Leaves(c, j, t)
    BY <1>2, <1>4, <1>5, <1>7, <2>3, <2>4, HereLeaves
  <2>6. QED
    BY <1>4, <2>5
<1>8. QED
  BY <1>6, <1>7

\* The index is no matter of the registry.
LEMMA IndexLeaves ==
    ASSUME NEW c \in Callers, NEW t \in Tables, Steps(c, t), CreateFTSIndex(c)
    PROVE  \E j : Turns(c, j) /\ Leaves(c, j, t)
<1>1. call[c].op = "create" /\ call[c].at = "index" /\ UNCHANGED <<there, cols, registered, secure>> /\ End(c)
  BY DEF CreateFTSIndex, Stands, registry
<1>2. call[c].on = t => Shapes(call[c], t) /\ ShapeKnown(call[c], t)
  BY <1>1, ShaperKnows DEF Shaping
<1>3. Turns(c, Idle) /\ Idle.at # "write" /\ Idle.op \notin Shaping /\ ~Shapes(Idle, t)
  BY <1>1, IdleIs DEF Shapes, Shaping
<1>4. Stays(t)
  BY <1>1 DEF Stays
<1>5. CASE call[c].on # t
  BY <1>3, <1>4, <1>5, ElsewhereLeaves
<1>6. CASE call[c].on = t
  <2>1. Settled(t)
    BY <1>1, <1>2, <1>6 DEF ShapeKnown
  <2>2. Settled(t)'
    BY <1>4, <2>1, StaysSettled
  <2>3. Leaves(c, Idle, t)
    BY <1>2, <1>3, <1>6, <2>2, HereLeaves
  <2>4. QED
    BY <1>3, <2>3
<1>7. QED
  BY <1>5, <1>6

\* alter goes on with a column more, which it keeps in mind where it is secure.
LEMMA AddLeaves ==
    ASSUME NEW c \in Callers, NEW t \in Tables, Steps(c, t), AddColumn(c)
    PROVE  \E j : Turns(c, j) /\ Leaves(c, j, t)
<1>1. call[c].op = "alter"
  BY DEF AddColumn, Stands
<1>2. /\ TablesInv /\ PhysicalTyped /\ call[c] \in CallRecords /\ call \in [Callers -> CallRecords]
      /\ call[c].on \in Tables
      /\ call[c].on = t => Shapes(call[c], t) /\ ShapeKnown(call[c], t)
  BY <1>1, ShaperKnows DEF Shaping, CallsTyped
<1>3. CASE Refused(c)
  BY <1>3, RefusedLeaves
<1>4. CASE ~Refused(c)
  <2>1. PICK k \in call[c].add :
           /\ cols' = [cols EXCEPT ![call[c].on] = @ \cup {k}]
           /\ call' = [call EXCEPT ![c].add = @ \ {k}, ![c].wrote = TRUE, ![c].seen = @ \cup ({k} \cap Secure)]
           /\ UNCHANGED <<there, registry>>
    BY <1>4 DEF AddColumn
  <2>2. PICK j : /\ Turns(c, j) /\ j.op = "alter" /\ j.on = call[c].on /\ j.at = call[c].at /\ j.wrote = TRUE
                 /\ j.seen = call[c].seen \cup ({k} \cap Secure)
    <3> DEFINE i == [call[c] EXCEPT !.add = @ \ {k}, !.wrote = TRUE, !.seen = @ \cup ({k} \cap Secure)]
    <3>1. Turns(c, i)
      BY <1>2, <2>1 DEF Turns
    <3>2. /\ i.op = "alter" /\ i.on = call[c].on /\ i.at = call[c].at /\ i.wrote = TRUE
          /\ i.seen = call[c].seen \cup ({k} \cap Secure)
      BY <1>1, <1>2 DEF CallRecords
    <3> HIDE DEF i
    <3>3. QED
      BY <3>1, <3>2
  <2>3. j.op = "alter" /\ j.on = call[c].on /\ j.wrote = TRUE /\ j.seen = call[c].seen \cup ({k} \cap Secure)
    BY <2>2
  <2>4. j.at # "write"
    BY <2>2 DEF AddColumn, Stands
  <2>5. CASE call[c].on # t
    <3>1. Stays(t)
      BY <1>2, <2>1, <2>5 DEF Stays, PhysicalTyped, registry
    <3>2. Leaves(c, j, t)
      BY <2>2, <2>3, <2>4, <2>5, <3>1, ElsewhereLeaves
    <3>3. QED
      BY <2>2, <3>2
  <2>6. CASE call[c].on = t
    <3>1. (t \in there => t \in registered) /\ ("secret" \in cols[t] => "secret" \in call[c].seen)
      BY <1>1, <1>2, <2>6 DEF ShapeKnown
    <3>2. "secret" \in cols'[t] => "secret" \in j.seen
      BY <1>2, <2>1, <2>3, <2>6, <3>1 DEF PhysicalTyped, Secure
    <3>3. ShapeKnown(j, t)' /\ Shapes(j, t)
      BY <2>1, <2>3, <2>6, <3>1, <3>2 DEF ShapeKnown, Shapes, registry
    <3>4. Leaves(c, j, t)
      BY <1>2, <2>2, <2>4, <2>6, <3>3, HereLeaves
    <3>5. QED
      BY <2>2, <3>4
  <2>7. QED
    BY <2>5, <2>6
<1>5. QED
  BY <1>3, <1>4

\* The owner's gate lets it go on, or stops it before it has added anything: else the table is exposed.
LEMMA GateLeaves ==
    ASSUME NEW c \in Callers, NEW t \in Tables, Steps(c, t), GateColumns(c)
    PROVE  \E j : Turns(c, j) /\ Leaves(c, j, t)
<1>1. /\ Stands(c, "alter", "add") /\ call[c].op = "alter" /\ call[c].drop # {}
      /\ UNCHANGED <<there, cols, registered, secure>>
  BY DEF GateColumns, Stands, tables, registry
<1>2. /\ TablesInv /\ CallsTyped /\ call[c] \in CallRecords /\ call \in [Callers -> CallRecords]
      /\ call[c].on = t => Shapes(call[c], t) /\ ShapeKnown(call[c], t)
  BY <1>1, ShaperKnows DEF Shaping, CallsTyped
<1>3. Stays(t)
  BY <1>1 DEF Stays
<1>4. CASE call' = [call EXCEPT ![c].at = "drop"]
  <2>1. PICK j : /\ Turns(c, j) /\ j.op = "alter" /\ j.on = call[c].on /\ j.at = "drop"
                 /\ j.wrote = call[c].wrote /\ j.seen = call[c].seen
    <3> DEFINE i == [call[c] EXCEPT !.at = "drop"]
    <3>1. Turns(c, i)
      BY <1>2, <1>4 DEF Turns
    <3>2. /\ i.op = "alter" /\ i.on = call[c].on /\ i.at = "drop" /\ i.wrote = call[c].wrote
          /\ i.seen = call[c].seen
      BY <1>1, <1>2 DEF CallRecords
    <3> HIDE DEF i
    <3>3. QED
      BY <3>1, <3>2
  <2>2. j.op = "alter" /\ j.on = call[c].on /\ j.at = "drop" /\ j.wrote = call[c].wrote /\ j.seen = call[c].seen
    BY <2>1
  <2>3. CASE call[c].on # t
    <3>1. Leaves(c, j, t)
      BY <1>3, <2>2, <2>3, ElsewhereLeaves
    <3>2. QED
      BY <2>1, <3>1
  <2>4. CASE call[c].on = t
    <3>1. ShapeKnown(j, t) /\ Shapes(j, t)
      BY <1>1, <1>2, <2>2, <2>4 DEF ShapeKnown, Shapes
    <3>2. ShapeKnown(j, t)'
      BY <1>3, <3>1, StaysKnown
    <3>3. Leaves(c, j, t)
      BY <1>2, <2>1, <2>2, <2>4, <3>1, <3>2, HereLeaves
    <3>4. QED
      BY <2>1, <3>3
  <2>5. QED
    BY <2>3, <2>4
<1>5. CASE End(c)
  <2>1. call[c].wrote \in BOOLEAN
    BY <1>2 DEF CallRecords
  <2>2. call'[c] = Idle
    BY <1>2, <1>5 DEF End
  <2>3. ASSUME call[c].on = t PROVE ~Stopped(c)
    <3>1. Watch /\ t \notin exposed'
      BY DEF Steps
    <3>2. ~Exposes(t)
      BY <3>1 DEF Watch
    <3>3. QED
      BY <2>3, <3>2 DEF Exposes
  <2>4. call[c].on = t => ~call[c].wrote
    BY <1>1, <2>2, <2>3, Zenon DEF Stopped
  <2>5. call[c].on = t => call[c].wrote = FALSE
    BY <2>1, <2>4, Zenon
  <2>6. Shapes(call[c], t) => call[c].wrote = FALSE
    BY <2>5 DEF Shapes
  <2>7. QED
    BY <1>1, <1>5, <2>6, StopLeaves
<1>6. QED
  BY <1>4, <1>5 DEF GateColumns

\* A column that goes is forgotten, and one that is secure written back.
LEMMA DropColumnLeaves ==
    ASSUME NEW c \in Callers, NEW t \in Tables, Steps(c, t), DropColumn(c)
    PROVE  \E j : Turns(c, j) /\ Leaves(c, j, t)
<1>1. call[c].op = "alter"
  BY DEF DropColumn, Stands
<1>2. /\ TablesInv /\ PhysicalTyped /\ call[c] \in CallRecords /\ call \in [Callers -> CallRecords]
      /\ call[c].on \in Tables
      /\ call[c].on = t => Shapes(call[c], t) /\ ShapeKnown(call[c], t)
  BY <1>1, ShaperKnows DEF Shaping, CallsTyped
<1>3. CASE Refused(c)
  BY <1>3, RefusedLeaves
<1>4. CASE ~Refused(c)
  <2>1. /\ cols' = [cols EXCEPT ![call[c].on] = @ \ call[c].drop]
        /\ call' = [call EXCEPT ![c].at = "add", ![c].drop = {}, ![c].wrote = TRUE, ![c].seen = @ \ call[c].drop]
        /\ UNCHANGED <<there, registry>>
    BY <1>4 DEF DropColumn
  <2>2. PICK j : /\ Turns(c, j) /\ j.op = "alter" /\ j.on = call[c].on /\ j.at = "add" /\ j.wrote = TRUE
                 /\ j.seen = call[c].seen \ call[c].drop
    <3> DEFINE i == [call[c] EXCEPT !.at = "add", !.drop = {}, !.wrote = TRUE, !.seen = @ \ call[c].drop]
    <3>1. Turns(c, i)
      BY <1>2, <2>1 DEF Turns
    <3>2. /\ i.op = "alter" /\ i.on = call[c].on /\ i.at = "add" /\ i.wrote = TRUE
          /\ i.seen = call[c].seen \ call[c].drop
      BY <1>1, <1>2 DEF CallRecords
    <3> HIDE DEF i
    <3>3. QED
      BY <3>1, <3>2
  <2>3. CASE call[c].on # t
    <3>1. Stays(t)
      BY <1>2, <2>1, <2>3 DEF Stays, PhysicalTyped, registry
    <3>2. Leaves(c, j, t)
      BY <2>2, <2>3, <3>1, ElsewhereLeaves
    <3>3. QED
      BY <2>2, <3>2
  <2>4. CASE call[c].on = t
    <3>1. (t \in there => t \in registered) /\ ("secret" \in cols[t] => "secret" \in call[c].seen)
      BY <1>1, <1>2, <2>4 DEF ShapeKnown
    <3>2. "secret" \in cols'[t] => "secret" \in j.seen
      BY <1>2, <2>1, <2>2, <2>4, <3>1 DEF PhysicalTyped
    <3>3. ShapeKnown(j, t)' /\ Shapes(j, t)
      BY <2>1, <2>2, <2>4, <3>1, <3>2 DEF ShapeKnown, Shapes, registry
    <3>4. Leaves(c, j, t)
      BY <1>2, <2>2, <2>4, <3>3, HereLeaves
    <3>5. QED
      BY <2>2, <3>4
  <2>5. QED
    BY <2>3, <2>4
<1>5. QED
  BY <1>3, <1>4

\* A call that ends with the registry written back leaves its table settled.
LEMMA WriteBackLeaves ==
    ASSUME NEW c \in Callers, NEW t \in Tables, Steps(c, t), call[c].op \in Shaping, End(c),
           UNCHANGED <<there, cols, registered>>,
           secure' = IF call[c].on \in registered THEN [secure EXCEPT ![call[c].on] = call[c].seen] ELSE secure,
           call[c].on = t => /\ t \in there => t \in registered
                             /\ "secret" \in cols[t] => "secret" \in call[c].seen
    PROVE  \E j : Turns(c, j) /\ Leaves(c, j, t)
<1>1. Turns(c, Idle) /\ Idle.at # "write" /\ Idle.op \notin Shaping /\ ~Shapes(Idle, t)
  BY IdleIs DEF Shapes, Shaping
<1>2. CASE call[c].on # t
  <2>1. PhysicalTyped /\ RegistryTyped
    BY ShaperKnows
  <2>2. Stays(t)
    BY <1>2, <2>1 DEF Stays, RegistryTyped
  <2>3. Leaves(c, Idle, t)
    BY <1>1, <1>2, <2>2, ElsewhereLeaves
  <2>4. QED
    BY <1>1, <2>3
<1>3. CASE call[c].on = t
  <2>1. PhysicalTyped /\ RegistryTyped /\ Shapes(call[c], t)
    BY <1>3, ShaperKnows
  <2>2. t \notin there => cols[t] = {}
    BY <2>1 DEF PhysicalTyped
  <2>3. t \in registered => secure'[t] = call[c].seen
    BY <1>3, <2>1 DEF RegistryTyped
  <2>4. Settled(t)'
    BY <1>3, <2>2, <2>3 DEF Settled
  <2>5. Leaves(c, Idle, t)
    BY <1>1, <2>1, <2>4, HereLeaves
  <2>6. QED
    BY <1>1, <2>5
<1>4. QED
  BY <1>2, <1>3

LEMMA WriteSecureLeaves ==
    ASSUME NEW c \in Callers, NEW t \in Tables, Steps(c, t), WriteSecureColumns(c) \/ AdminWriteSecure(c)
    PROVE  \E j : Turns(c, j) /\ Leaves(c, j, t)
<1>1. End(c) /\ UNCHANGED <<there, cols, registered>>
  BY DEF WriteSecureColumns, AdminWriteSecure, tables
<1>2. secure' = IF call[c].on \in registered THEN [secure EXCEPT ![call[c].on] = call[c].seen] ELSE secure
  BY DEF WriteSecureColumns, AdminWriteSecure
<1>3. call[c].op = "alter" \/ (call[c].op = "column" /\ call[c].at = "write back")
  BY DEF WriteSecureColumns, AdminWriteSecure, Stands
<1>4. call[c].op \in Shaping
  BY <1>3 DEF Shaping
<1>5. call[c].on = t => ShapeKnown(call[c], t)
  BY <1>4, ShaperKnows
<1>6. call[c].on = t => /\ t \in there => t \in registered
                        /\ "secret" \in cols[t] => "secret" \in call[c].seen
  BY <1>3, <1>5 DEF ShapeKnown
<1>7. QED
  BY <1>1, <1>2, <1>4, <1>6, WriteBackLeaves

\* A table that is dropped is not there for any later stage of the drop.
LEMMA DropPhysicalLeaves ==
    ASSUME NEW c \in Callers, NEW t \in Tables, Steps(c, t), DropPhysical(c)
    PROVE  \E j : Turns(c, j) /\ Leaves(c, j, t)
<1>1. /\ call[c].op = "drop" /\ call[c].at = "table" /\ Goto(c, "registry") /\ UNCHANGED <<registered, secure>>
      /\ there' = there \ {call[c].on} /\ cols' = [cols EXCEPT ![call[c].on] = {}]
  BY DEF DropPhysical, Stands, registry
<1>2. /\ TablesInv /\ PhysicalTyped /\ call[c].on \in Tables /\ (call[c].on = t => Shapes(call[c], t))
  BY <1>1, ShaperKnows DEF Shaping
<1>3. PICK j : Onward(c, j, "registry")
  BY <1>1, <1>2, OnIs
<1>4. Turns(c, j) /\ j.op = "drop" /\ j.on = call[c].on /\ j.at = "registry" /\ j.wrote = TRUE
  BY <1>1, <1>3 DEF Onward
<1>5. CASE call[c].on # t
  <2>1. Stays(t)
    BY <1>1, <1>2, <1>5 DEF Stays, PhysicalTyped
  <2>2. Leaves(c, j, t)
    BY <1>4, <1>5, <2>1, ElsewhereLeaves
  <2>3. QED
    BY <1>4, <2>2
<1>6. CASE call[c].on = t
  <2>1. ShapeKnown(j, t)' /\ Shapes(j, t)
    BY <1>1, <1>4, <1>6 DEF ShapeKnown, Shapes
  <2>2. Leaves(c, j, t)
    BY <1>2, <1>4, <1>6, <2>1, HereLeaves
  <2>3. QED
    BY <1>4, <2>2
<1>7. QED
  BY <1>5, <1>6

\* The cascade leaves the physical tables alone.
LEMMA CascadeLeaves ==
    ASSUME NEW c \in Callers, NEW t \in Tables, Steps(c, t), DropRegistered(c) \/ DropApi(c) \/ DropAuth(c)
    PROVE  \E j : Turns(c, j) /\ Leaves(c, j, t)
<1>1. /\ call[c].op = "drop" /\ call[c].at # "table" /\ UNCHANGED <<there, cols, secure>>
      /\ registered' \in {registered, registered \ {call[c].on}}
  BY DEF DropRegistered, DropApi, DropAuth, Stands, tables, registry
<1>2. /\ TablesInv /\ PhysicalTyped /\ call[c].on \in Tables
      /\ call[c].on = t => Shapes(call[c], t) /\ ShapeKnown(call[c], t)
  BY <1>1, ShaperKnows DEF Shaping
<1>3. PICK j : Turns(c, j) /\ \/ j = Idle
                              \/ j.op = "drop" /\ j.on = call[c].on /\ j.at \in {"api", "auth"}
  <2>1. CASE DropRegistered(c)
    <3>1. PICK i : Onward(c, i, "api")
      BY <1>2, <2>1, OnIs DEF DropRegistered
    <3>2. QED
      BY <1>1, <3>1 DEF Onward
  <2>2. CASE DropApi(c)
    <3>1. PICK i : Onward(c, i, "auth")
      BY <1>2, <2>2, OnIs DEF DropApi
    <3>2. QED
      BY <1>1, <3>1 DEF Onward
  <2>3. CASE DropAuth(c)
    <3>1. Turns(c, Idle)
      BY <2>3, IdleIs DEF DropAuth
    <3>2. QED
      BY <3>1
  <2>4. QED
    BY <2>1, <2>2, <2>3
<1>4. j.at # "write" /\ (j.op \in Shaping => j.on = call[c].on /\ j.op = "drop" /\ j.at # "table")
  BY <1>3, IdleIs
<1>5. CASE call[c].on # t
  <2>1. Stays(t)
    BY <1>1, <1>2, <1>5 DEF Stays
  <2>2. Leaves(c, j, t)
    BY <1>4, <1>5, <2>1, ElsewhereLeaves
  <2>3. QED
    BY <1>3, <2>2
<1>6. CASE call[c].on = t
  <2>1. t \notin there
    BY <1>1, <1>2, <1>6 DEF ShapeKnown
  <2>2. t \notin there' /\ cols'[t] = {}
    BY <1>1, <2>1, <1>2 DEF PhysicalTyped
  <2>3. Settled(t)'
    BY <2>2 DEF Settled
  <2>4. Shapes(j, t) => ShapeKnown(j, t)'
    <3>1. ASSUME Shapes(j, t) PROVE j.op = "drop" /\ j.at # "table"
      BY <1>4, <3>1 DEF Shapes, Shaping
    <3>2. QED
      BY <2>2, <3>1 DEF ShapeKnown
  <2>5. Leaves(c, j, t)
    BY <1>2, <1>4, <1>6, <2>3, <2>4, HereLeaves
  <2>6. QED
    BY <1>3, <2>5
<1>7. QED
  BY <1>5, <1>6

\* The owner's secure column is there before the registry knows of it.
LEMMA AdminAddLeaves ==
    ASSUME NEW c \in Callers, NEW t \in Tables, Steps(c, t), NEW u \in Tables, AdminAddSecure(c, u)
    PROVE  \E j : Turns(c, j) /\ Leaves(c, j, t)
<1>1. /\ call[c] = Idle /\ u \in there /\ cols' = [cols EXCEPT ![u] = @ \cup Secure]
      /\ UNCHANGED <<there, registered, secure>>
      /\ call' = [call EXCEPT ![c] = [Idle EXCEPT !.op = "column", !.at = "read", !.on = u, !.wrote = TRUE]]
  BY DEF AdminAddSecure, registry
<1>2. /\ TablesInv /\ PhysicalTyped /\ CallsTyped /\ Ready(c, t) /\ Idle \in CallRecords
      /\ \A i : Turns(c, i) /\ Shapes(i, t) => Others(c, t)
  BY CallIs DEF Steps
<1>3. PICK j : Turns(c, j) /\ j.op = "column" /\ j.at = "read" /\ j.on = u /\ j.wrote = TRUE
  <2> DEFINE i == [Idle EXCEPT !.op = "column", !.at = "read", !.on = u, !.wrote = TRUE]
  <2>1. i.op = "column" /\ i.at = "read" /\ i.on = u /\ i.wrote = TRUE
    BY <1>2 DEF CallRecords
  <2>2. Turns(c, i)
    BY <1>1 DEF Turns
  <2> HIDE DEF i
  <2>3. QED
    BY <2>1, <2>2
<1>4. call'[c] = j
  BY <1>2, <1>3, TurnsIs
<1>5. ~Shapes(call[c], t)
  BY <1>1 DEF Shapes, Idle
<1>6. CASE u # t
  <2>1. Stays(t)
    BY <1>1, <1>2, <1>6 DEF Stays, PhysicalTyped
  <2>2. call[c].op \notin Shaping
    BY <1>1 DEF Idle, Shaping
  <2>3. Leaves(c, j, t)
    BY <1>3, <1>6, <2>1, <2>2, ElsewhereLeaves
  <2>4. QED
    BY <1>3, <2>3
<1>7. CASE u = t
  <2>1. Shapes(j, t)
    BY <1>3, <1>7 DEF Shapes
  <2>2. Others(c, t)
    BY <1>2, <1>3, <2>1
  <2>3. t \in registered
    BY <1>1, <1>2, <1>5, <1>7, <2>2 DEF Ready, Settled
  <2>4. ShapeKnown(j, t)'
    BY <1>1, <1>3, <2>3 DEF ShapeKnown
  <2>5. Leaves(c, j, t)
    BY <1>3, <1>5, <2>1, <2>4 DEF Leaves
  <2>6. QED
    BY <1>3, <2>5
<1>8. QED
  BY <1>6, <1>7

\* Then it is read into what is written back.
LEMMA AdminReadLeaves ==
    ASSUME NEW c \in Callers, NEW t \in Tables, Steps(c, t), AdminReadSecure(c)
    PROVE  \E j : Turns(c, j) /\ Leaves(c, j, t)
<1>1. /\ call[c].op = "column" /\ UNCHANGED <<there, cols, registered, secure>>
      /\ call' = [call EXCEPT ![c].at = "write back", ![c].seen = LoadSecureColumns(call[c].on) \cup Secure]
  BY DEF AdminReadSecure, Stands, tables, registry
<1>2. /\ call[c] \in CallRecords /\ call \in [Callers -> CallRecords]
      /\ call[c].on = t => Shapes(call[c], t) /\ ShapeKnown(call[c], t)
  BY <1>1, ShaperKnows DEF Shaping, CallsTyped
<1>3. PICK j : /\ Turns(c, j) /\ j.op = "column" /\ j.on = call[c].on /\ j.at = "write back"
               /\ j.wrote = call[c].wrote /\ "secret" \in j.seen
  <2> DEFINE i == [call[c] EXCEPT !.at = "write back", !.seen = LoadSecureColumns(call[c].on) \cup Secure]
  <2>1. Turns(c, i)
    BY <1>1, <1>2 DEF Turns
  <2>2. /\ i.op = "column" /\ i.on = call[c].on /\ i.at = "write back"
        /\ i.wrote = call[c].wrote /\ "secret" \in i.seen
    BY <1>1, <1>2 DEF CallRecords, Secure
  <2> HIDE DEF i
  <2>3. QED
    BY <2>1, <2>2
<1>4. Stays(t)
  BY <1>1 DEF Stays
<1>5. CASE call[c].on # t
  <2>1. Leaves(c, j, t)
    BY <1>3, <1>4, <1>5, ElsewhereLeaves
  <2>2. QED
    BY <1>3, <2>1
<1>6. CASE call[c].on = t
  <2>1. call[c].wrote = TRUE /\ t \in registered
    BY <1>1, <1>2, <1>6 DEF ShapeKnown
  <2>2. ShapeKnown(j, t)' /\ Shapes(j, t)
    BY <1>1, <1>3, <1>6, <2>1 DEF ShapeKnown, Shapes
  <2>3. Leaves(c, j, t)
    BY <1>2, <1>3, <1>6, <2>2, HereLeaves
  <2>4. QED
    BY <1>3, <2>3
<1>7. QED
  BY <1>5, <1>6

\* Every step of a caller leaves what is known of a table, if it leaves it neither torn nor exposed.
LEMMA SchemaLeaves ==
    ASSUME NEW c \in Callers, NEW t \in Tables, Steps(c, t), SchemaStep(c)
    PROVE  \E j : Turns(c, j) /\ Leaves(c, j, t)
<1>1. CASE \E u \in Tables : CreateTable(c, u) \/ AlterTable(c, u) \/ DropTable(c, u)
  BY <1>1, CreateLeaves, AlterLeaves, DropLeaves
<1>2. CASE CreatePhysical(c) \/ RegisterTable(c) \/ CreateFTSIndex(c)
  BY <1>2, PhysicalLeaves, RegisterLeaves, IndexLeaves
<1>3. CASE AddColumn(c) \/ GateColumns(c) \/ DropColumn(c) \/ WriteSecureColumns(c)
  BY <1>3, AddLeaves, GateLeaves, DropColumnLeaves, WriteSecureLeaves
<1>4. CASE DropPhysical(c) \/ DropRegistered(c) \/ DropApi(c) \/ DropAuth(c)
  BY <1>4, DropPhysicalLeaves, CascadeLeaves
<1>5. QED
  BY <1>1, <1>2, <1>3, <1>4 DEF SchemaStep

LEMMA RowsLeave ==
    ASSUME NEW c \in Callers, NEW t \in Tables, Steps(c, t), RowStep(c)
    PROVE  \E j : Turns(c, j) /\ Leaves(c, j, t)
<1>1. TablesInv
  BY DEF Steps
<1>2. ASSUME NEW u \in Tables,
             \/ InsertSingle(c, u) \/ InsertBulk(c, u) \/ UpdateRow(c, u) \/ UpsertRow(c, u)
             \/ ImportCSV(c, u) \/ AdminInsertRow(c, u) \/ AdminUpdateRow(c, u)
      PROVE  \E j : Turns(c, j) /\ Leaves(c, j, t)
  <2>1. \E op \in RowWrites : Write(c, u, op)
    BY <1>2 DEF RowWrites, InsertSingle, InsertBulk, UpdateRow, UpsertRow, ImportCSV, AdminInsertRow, AdminUpdateRow
  <2>2. QED
    BY <2>1, WriteLeaves
<1>3. CASE \/ ExecWrite(c) \/ ExecNothing(c) \/ ImportUnsealed(c)
           \/ \E u \in Tables : DeleteRow(c, u) \/ BatchDelete(c, u) \/ AdminDeleteRow(c, u) \/ AdminAddColumn(c, u)
  <2>1. Frame /\ \E j : Turns(c, j) /\ Aside(c, j)
    BY <1>1, <1>3, RowsAside
  <2>2. QED
    BY <2>1, FrameLeaves
<1>4. CASE AdminReadSecure(c) \/ AdminWriteSecure(c) \/ \E u \in Tables : AdminAddSecure(c, u)
  BY <1>4, AdminReadLeaves, WriteSecureLeaves, AdminAddLeaves
<1>5. QED
  BY <1>2, <1>3, <1>4 DEF RowStep

LEMMA StepLeaves ==
    ASSUME NEW c \in Callers, NEW t \in Tables, Steps(c, t),
           SchemaStep(c) \/ EndpointStep(c) \/ RowStep(c) \/ StatementFails(c)
    PROVE  \E j : Turns(c, j) /\ Leaves(c, j, t)
<1>1. CASE SchemaStep(c)
  BY <1>1, SchemaLeaves
<1>2. CASE EndpointStep(c)
  <2>1. Frame /\ \E j : Turns(c, j) /\ Aside(c, j)
    BY <1>2, EndpointsAside DEF Steps
  <2>2. QED
    BY <2>1, FrameLeaves
<1>3. CASE RowStep(c)
  BY <1>3, RowsLeave
<1>4. CASE StatementFails(c)
  BY <1>4, RefusedLeaves
<1>5. QED
  BY <1>1, <1>2, <1>3, <1>4

-----------------------------------------------------------------------------
(* What is known at all times                                              *)

\* A table that is torn stays so.
LEMMA TornGrows == ASSUME TablesInv, TablesMove PROVE torn \subseteq torn'
<1>1. ASSUME NEW c \in Callers, SchemaStep(c) PROVE torn \subseteq torn'
  <2>1. CASE \E t \in Tables : CreateTable(c, t) \/ DropTable(c, t)
    BY <2>1 DEF CreateTable, DropTable, Begin, others
  <2>2. CASE \E t \in Tables : AlterTable(c, t)
    BY <2>2 DEF AlterTable, BeginReading, Begin, others
  <2>3. CASE CreatePhysical(c) \/ RegisterTable(c) \/ CreateFTSIndex(c)
    BY <2>3 DEF CreatePhysical, RegisterTable, CreateFTSIndex, others
  <2>4. CASE AddColumn(c) \/ GateColumns(c) \/ DropColumn(c) \/ WriteSecureColumns(c)
    BY <2>4 DEF AddColumn, GateColumns, DropColumn, WriteSecureColumns, Refused, others
  <2>5. CASE DropPhysical(c) \/ DropRegistered(c) \/ DropApi(c) \/ DropAuth(c)
    BY <2>5 DEF DropPhysical, DropRegistered, DropApi, DropAuth
  <2>6. QED
    BY <1>1, <2>1, <2>2, <2>3, <2>4, <2>5 DEF SchemaStep
<1>2. ASSUME NEW c \in Callers, EndpointStep(c) PROVE torn \subseteq torn'
  <2>1. CASE \E p \in Paths, t \in Tables : CreateAPI(c, p, t) \/ AdminCreateAPI(c, p, t) \/ CreateAuth(c, p, t)
    BY <2>1 DEF CreateAPI, AdminCreateAPI, CreateAuth, Begin, others
  <2>2. ASSUME NEW p \in Paths,
               \/ UpdateAPI(c, p) \/ AdminUpdateAPI(c, p) \/ DeleteAPI(c, p) \/ AdminDeleteAPI(c, p)
               \/ UpdateAuth(c, p) \/ DeleteAuth(c, p)
        PROVE  torn \subseteq torn'
    BY <2>2 DEF UpdateAPI, AdminUpdateAPI, DeleteAPI, AdminDeleteAPI, UpdateAuth, DeleteAuth, others
  <2>3. ASSUME NEW p \in Paths,
               CreateUpload(c, p) \/ CreateStream(c, p) \/ CreateWebSocket(c, p) \/ CreateLLM(c, p)
        PROVE  torn \subseteq torn'
    BY <2>3 DEF CreateUpload, CreateStream, CreateWebSocket, CreateLLM, CreateLink, Begin, others
  <2>4. ASSUME NEW p \in Paths,
               \/ UpdateUpload(c, p) \/ UpdateStream(c, p) \/ UpdateWebSocket(c, p) \/ UpdateLLM(c, p)
               \/ DeleteUpload(c, p) \/ DeleteStream(c, p) \/ DeleteWebSocket(c, p) \/ DeleteLLM(c, p)
        PROVE  torn \subseteq torn'
    BY <2>4 DEF UpdateUpload, UpdateStream, UpdateWebSocket, UpdateLLM, UpdateLink,
                DeleteUpload, DeleteStream, DeleteWebSocket, DeleteLLM, DeleteLink, others
  <2>5. CASE \E n \in Providers : DeleteOAuth(c, n) \/ \E p \in Paths : CreateOAuth(c, n, p)
    BY <2>5 DEF DeleteOAuth, CreateOAuth, Begin, others
  <2>6. CASE InsertAPI(c) \/ AdminInsertAPI(c) \/ AddRoleColumn(c) \/ UpdateSchemaDef(c)
    BY <2>6 DEF InsertAPI, AdminInsertAPI, AddRoleColumn, UpdateSchemaDef, Refused, others
  <2>7. CASE InsertAuth(c) \/ StoreSecret(c) \/ InsertOAuth(c) \/ DeleteOAuthRow(c) \/ InsertLink(c)
    BY <2>7 DEF InsertAuth, StoreSecret, InsertOAuth, DeleteOAuthRow, InsertLink, others
  <2>8. QED
    BY <1>2, <2>1, <2>2, <2>3, <2>4, <2>5, <2>6, <2>7 DEF EndpointStep
<1>3. ASSUME NEW c \in Callers, RowStep(c) PROVE torn \subseteq torn'
  <2>1. ASSUME NEW t \in Tables,
               \/ InsertSingle(c, t) \/ InsertBulk(c, t) \/ UpdateRow(c, t) \/ UpsertRow(c, t)
               \/ ImportCSV(c, t) \/ AdminInsertRow(c, t) \/ AdminUpdateRow(c, t)
        PROVE  torn \subseteq torn'
    BY <2>1 DEF InsertSingle, InsertBulk, UpdateRow, UpsertRow, ImportCSV, AdminInsertRow, AdminUpdateRow, Write,
                BeginReading, Begin, others
  <2>2. ASSUME NEW t \in Tables,
               \/ DeleteRow(c, t) \/ BatchDelete(c, t) \/ AdminDeleteRow(c, t)
               \/ AdminAddColumn(c, t) \/ AdminAddSecure(c, t)
        PROVE  torn \subseteq torn'
    BY <2>2 DEF DeleteRow, BatchDelete, AdminDeleteRow, RemoveRows, AdminAddColumn, AdminAddSecure, others
  <2>3. CASE \/ ExecWrite(c) \/ ExecNothing(c) \/ ImportUnsealed(c) \/ AdminReadSecure(c) \/ AdminWriteSecure(c)
    BY <2>3 DEF ExecWrite, ExecNothing, ImportUnsealed, AdminReadSecure, AdminWriteSecure, others
  <2>4. QED
    BY <1>3, <2>1, <2>2, <2>3 DEF RowStep
<1>4. ASSUME NEW c \in Callers, StatementFails(c) PROVE torn \subseteq torn'
  BY <1>4 DEF StatementFails
<1>5. CASE \E g \in Gates \X Tables : OwnerAnswers(g)
  BY <1>5 DEF OwnerAnswers
<1>6. CASE Crash
  BY <1>6 DEF Crash
<1>7. QED
  BY <1>1, <1>2, <1>3, <1>4, <1>5, <1>6 DEF TablesMove

\* A table that is neither torn nor exposed afterwards was neither before, and is as known.
LEMMA CallerKnows ==
    ASSUME TablesInv, TablesInv', NEW c \in Callers, NEW t \in Tables, KnownOf(t), Watch,
           t \notin torn', t \notin exposed',
           SchemaStep(c) \/ EndpointStep(c) \/ RowStep(c) \/ StatementFails(c)
    PROVE  KnownOf(t)'
<1>1. CallsTyped /\ CallsTyped'
  BY DEF TablesInv, Typed
<1>2. ~Exposes(t)
  BY DEF Watch
<1>3. ASSUME NEW i, Turns(c, i), Shapes(i, t) PROVE Others(c, t)
  <2>1. call'[c] = i /\ \A o \in Callers : o # c => call'[o] = call[o]
    BY <1>1, <1>3, TurnsIs
  <2>2. ASSUME NEW o \in Callers \ {c} PROVE ~Shapes(call[o], t)
    <3>1. PICK v : v = call[o]
      OBVIOUS
    <3>2. call'[o] = v
      BY <2>1, <2>2, <3>1
    <3>3. Shapes(call'[c], t) <=> Shapes(i, t)
      BY <2>1 DEF Shapes
    <3>4. ~Shapes(call'[o], t)
      BY <1>2, <1>3, <2>2, <3>3 DEF Exposes
    <3>5. QED
      BY <3>1, <3>2, <3>4 DEF Shapes
  <2>3. QED
    BY <2>2 DEF Others
<1>4. Ready(c, t)
  <2>1. Shapes(call[c], t) => ShapeKnown(call[c], t)
    BY DEF KnownOf
  <2>2. ~Shapes(call[c], t) /\ Others(c, t) => Unshaped(t)
    BY DEF Others, Unshaped
  <2>3. QED
    BY <2>1, <2>2 DEF KnownOf, Ready
<1>5. Steps(c, t)
  BY <1>3, <1>4 DEF Steps
<1>6. PICK j : Turns(c, j) /\ Leaves(c, j, t)
  BY <1>5, StepLeaves
<1>7. QED
  BY <1>1, <1>6, StepKnown

\* A crash ends all calls: those that have written leave their tables torn.
LEMMA CrashKnown ==
    ASSUME TablesInv, NEW t \in Tables, KnownOf(t), Watch, t \notin torn', Crash
    PROVE  KnownOf(t)'
<1>1. PhysicalTyped /\ call \in [Callers -> CallRecords]
  BY DEF TablesInv, Typed, CallsTyped
<1>2. /\ call' = [c \in Callers |-> Idle] /\ UNCHANGED <<there, cols, registered, secure>>
      /\ torn' = torn \cup {call[c].on : c \in {x \in Callers : call[x].wrote}}
  BY DEF Crash, tables, registry
<1>3. \A c \in Callers : call'[c] = Idle /\ Idle.op = "idle" /\ Idle.at = "begin"
  BY <1>2 DEF Idle
<1>4. Unshaped(t)' /\ Alone(t)'
  BY <1>3 DEF Unshaped, Alone, Shapes
<1>5. Settled(t)
  <2>1. CASE Unshaped(t)
    BY <2>1 DEF KnownOf
  <2>2. ASSUME NEW c \in Callers, Shapes(call[c], t) PROVE Settled(t)
    <3>1. call[c].wrote \in BOOLEAN /\ call[c].on = t
      BY <1>1, <2>2 DEF CallRecords, Shapes
    <3>2. ~call[c].wrote
      BY <1>2, <3>1, Zenon
    <3>3. call[c].wrote = FALSE
      BY <3>1, <3>2, Zenon
    <3>4. ShapeKnown(call[c], t)
      BY <2>2 DEF KnownOf
    <3>5. PICK j : j = call[c]
      OBVIOUS
    <3>6. Shapes(j, t) /\ ShapeKnown(j, t) /\ j.wrote = FALSE
      BY <2>2, <3>3, <3>4, <3>5
    <3>7. QED
      BY <1>1, <3>6, UnwrittenSettled
  <2>3. QED
    BY <2>1, <2>2 DEF Unshaped
<1>6. Settled(t)'
  BY <1>2, <1>5 DEF Settled
<1>7. QED
  BY <1>3, <1>4, <1>6 DEF KnownOf, Unshaped

\* An answer of the owner changes nothing that is known.
LEMMA StillKnown ==
    ASSUME NEW t \in Tables, KnownOf(t), UNCHANGED <<there, cols, registered, secure, call>>,
           \A c \in Callers : c \notin blind' /\ call[c].at = "write" => c \notin blind
    PROVE  KnownOf(t)'
<1>1. Settled(t)' <=> Settled(t)
  BY DEF Settled
<1>2. ASSUME NEW c \in Callers
      PROVE  (Shapes(call[c], t)' <=> Shapes(call[c], t)) /\ (ShapeKnown(call[c], t) => ShapeKnown(call[c], t)')
  <2>1. Shapes(call[c], t)' <=> Shapes(call[c], t)
    BY DEF Shapes
  <2>2. Stays(t)
    BY DEF Stays
  <2>3. PICK j : j = call[c] /\ call'[c] = j
    OBVIOUS
  <2>4. ShapeKnown(j, t) => ShapeKnown(j, t)'
    BY <2>2, StaysKnown
  <2>5. ShapeKnown(call[c], t) => ShapeKnown(j, t)
    BY <2>3
  <2>6. ShapeKnown(j, t)' => ShapeKnown(call[c], t)'
    BY <2>3 DEF ShapeKnown, Settled
  <2>7. QED
    BY <2>1, <2>4, <2>5, <2>6
<1>3. (Alone(t)' <=> Alone(t)) /\ (Unshaped(t)' <=> Unshaped(t))
  BY DEF Alone, Unshaped, Shapes
<1>4. QED
  BY <1>1, <1>2, <1>3 DEF KnownOf

\* What is known stays known.
LEMMA SecretStep == TablesInv /\ SecretInv /\ [TablesNext]_schemaVars /\ TablesInv' => SecretInv'
<1> SUFFICES ASSUME TablesInv, SecretInv, [TablesNext]_schemaVars, TablesInv' PROVE SecretInv'
  OBVIOUS
<1>1. exposed \subseteq Tables /\ blind \subseteq Callers /\ Known
  BY DEF SecretInv
<1>2. CASE UNCHANGED schemaVars
  <2>1. UNCHANGED <<there, cols, registered, secure, call, torn, exposed, blind>>
    BY <1>2 DEF schemaVars, tables, registry, others, seenVars
  <2>2. Known'
    BY <1>1, <2>1, StillKnown DEF Known
  <2>3. QED
    BY <1>1, <2>1, <2>2 DEF SecretInv
<1>3. CASE TablesMove /\ Watch
  <2>1. exposed' \subseteq Tables /\ blind' \subseteq Callers /\ exposed \subseteq exposed'
    BY <1>1, <1>3 DEF Watch
  <2>2. ASSUME NEW t \in Tables, t \notin torn', t \notin exposed' PROVE KnownOf(t)'
    <3>1. KnownOf(t)
      BY <1>1, <1>3, <2>1, <2>2, TornGrows DEF Known
    <3>2. ASSUME NEW c \in Callers, SchemaStep(c) \/ EndpointStep(c) \/ RowStep(c) \/ StatementFails(c)
          PROVE  KnownOf(t)'
      BY <1>3, <2>2, <3>1, <3>2, CallerKnows
    <3>3. CASE \E g \in Gates \X Tables : OwnerAnswers(g)
      <4>1. UNCHANGED <<there, cols, registered, secure, call>>
        BY <3>3 DEF OwnerAnswers, tables, registry
      <4>2. \A c \in Callers : c \notin blind' /\ call[c].at = "write" => c \notin blind
        BY <1>3, <4>1 DEF Watch
      <4>3. QED
        BY <3>1, <4>1, <4>2, StillKnown
    <3>4. CASE Crash
      BY <1>3, <2>2, <3>1, <3>4, CrashKnown
    <3>5. QED
      BY <1>3, <3>2, <3>3, <3>4 DEF TablesMove
  <2>3. QED
    BY <2>1, <2>2 DEF SecretInv, Known
<1>4. QED
  BY <1>2, <1>3 DEF TablesNext

\* The tables there are when the program starts are settled.
LEMMA SecretStart == TablesInit => SecretInv
<1> SUFFICES ASSUME TablesInit PROVE SecretInv
  OBVIOUS
<1>1. \A c \in Callers : call[c].op = "idle" /\ call[c].at = "begin"
  BY DEF TablesInit, Idle
<1>2. \A t \in Tables : Settled(t)
  BY DEF TablesInit, Settled, Secure
<1>3. ASSUME NEW t \in Tables PROVE KnownOf(t)
  BY <1>1, <1>2 DEF KnownOf, Alone, Unshaped, Shapes
<1>4. exposed = {} /\ blind = {}
  BY DEF TablesInit
<1>5. QED
  BY <1>3, <1>4 DEF SecretInv, Known

-----------------------------------------------------------------------------
(* Secrets                                                                 *)

\* A step that stores no new value.
NoNewValue == \A t \in Tables : rows'[t] \subseteq rows[t]

\* What the schema calls do to rows: nothing, or a column and a table that go take the values along.
LEMMA SchemaStoresNothing == ASSUME TablesInv, NEW c \in Callers, SchemaStep(c) PROVE NoNewValue
<1>1. PhysicalTyped /\ call[c] \in CallRecords /\ CallSound(call[c])
  BY CallIs
<1>2. \/ UNCHANGED rows
      \/ rows' = [rows EXCEPT ![call[c].on] = {}]
  <2>1. CASE \E t \in Tables : CreateTable(c, t) \/ AlterTable(c, t) \/ DropTable(c, t)
    BY <2>1 DEF CreateTable, AlterTable, DropTable, BeginReading, Begin, tables
  <2>2. CASE CreatePhysical(c) \/ RegisterTable(c) \/ CreateFTSIndex(c)
    BY <2>2 DEF CreatePhysical, RegisterTable, CreateFTSIndex, tables
  <2>3. CASE AddColumn(c) \/ GateColumns(c) \/ DropColumn(c) \/ WriteSecureColumns(c)
    BY <2>3 DEF AddColumn, GateColumns, DropColumn, WriteSecureColumns, Refused, tables
  <2>4. CASE DropPhysical(c) \/ DropRegistered(c) \/ DropApi(c) \/ DropAuth(c)
    BY <2>4 DEF DropPhysical, DropRegistered, DropApi, DropAuth, tables
  <2>5. QED
    BY <2>1, <2>2, <2>3, <2>4 DEF SchemaStep
<1>3. QED
  BY <1>1, <1>2 DEF NoNewValue, PhysicalTyped

\* The endpoints' calls leave the rows alone.
LEMMA EndpointsStoreNothing == ASSUME NEW c \in Callers, EndpointStep(c) PROVE UNCHANGED rows
<1>1. CASE \E p \in Paths, t \in Tables : CreateAPI(c, p, t) \/ AdminCreateAPI(c, p, t) \/ CreateAuth(c, p, t)
  BY <1>1 DEF CreateAPI, AdminCreateAPI, CreateAuth, Begin, tables
<1>2. ASSUME NEW p \in Paths,
             \/ UpdateAPI(c, p) \/ AdminUpdateAPI(c, p) \/ DeleteAPI(c, p) \/ AdminDeleteAPI(c, p)
             \/ UpdateAuth(c, p) \/ DeleteAuth(c, p)
      PROVE  UNCHANGED rows
  BY <1>2 DEF UpdateAPI, AdminUpdateAPI, DeleteAPI, AdminDeleteAPI, UpdateAuth, DeleteAuth, tables
<1>3. ASSUME NEW p \in Paths,
             CreateUpload(c, p) \/ CreateStream(c, p) \/ CreateWebSocket(c, p) \/ CreateLLM(c, p)
      PROVE  UNCHANGED rows
  BY <1>3 DEF CreateUpload, CreateStream, CreateWebSocket, CreateLLM, CreateLink, Begin, tables
<1>4. ASSUME NEW p \in Paths,
             UpdateUpload(c, p) \/ UpdateStream(c, p) \/ UpdateWebSocket(c, p) \/ UpdateLLM(c, p)
      PROVE  UNCHANGED rows
  BY <1>4 DEF UpdateUpload, UpdateStream, UpdateWebSocket, UpdateLLM, UpdateLink, tables
<1>5. ASSUME NEW p \in Paths,
             DeleteUpload(c, p) \/ DeleteStream(c, p) \/ DeleteWebSocket(c, p) \/ DeleteLLM(c, p)
      PROVE  UNCHANGED rows
  BY <1>5 DEF DeleteUpload, DeleteStream, DeleteWebSocket, DeleteLLM, DeleteLink, tables
<1>6. CASE \E n \in Providers : DeleteOAuth(c, n) \/ \E p \in Paths : CreateOAuth(c, n, p)
  BY <1>6 DEF DeleteOAuth, CreateOAuth, Begin, tables
<1>7. CASE InsertAPI(c) \/ AdminInsertAPI(c) \/ AddRoleColumn(c) \/ UpdateSchemaDef(c)
  BY <1>7 DEF InsertAPI, AdminInsertAPI, AddRoleColumn, UpdateSchemaDef, Refused, tables
<1>8. CASE InsertAuth(c) \/ StoreSecret(c) \/ InsertOAuth(c) \/ DeleteOAuthRow(c) \/ InsertLink(c)
  BY <1>8 DEF InsertAuth, StoreSecret, InsertOAuth, DeleteOAuthRow, InsertLink, tables
<1>9. QED
  BY <1>1, <1>2, <1>3, <1>4, <1>5, <1>6, <1>7, <1>8 DEF EndpointStep

\* A write that stores a value in the clear was blind, or its table torn or exposed: a write that
\* is neither knows the secure column.
LEMMA WritesSeal ==
    ASSUME TablesInv, SecretInv, NEW c \in Callers, ExecWrite(c), NEW t \in Tables
    PROVE  SealedOrExcused(t)
<1>1. PhysicalTyped /\ CallsTyped /\ rows \in [Tables -> SUBSET {"clear", "sealed"}]
  BY CallIs DEF PhysicalTyped
<1>2. call[c].at = "write" /\ End(c)
  BY DEF ExecWrite
<1>3. call'[c] = Idle
  BY <1>1, <1>2 DEF End, CallsTyped
<1>4. SUFFICES ASSUME "clear" \in rows'[t] \ rows[t], t \notin torn, t \notin exposed
               PROVE  c \in blind /\ call[c].on = t
  BY <1>2, <1>3, <1>4 DEF SealedOrExcused
<1>5. /\ Secure \subseteq cols[call[c].on]
      /\ \E rest \in SUBSET rows[call[c].on] : rows' = [rows EXCEPT ![call[c].on] = rest \cup {Stored(c)}]
  BY <1>4 DEF ExecWrite
<1>6. PICK rest \in SUBSET rows[call[c].on] : rows' = [rows EXCEPT ![call[c].on] = rest \cup {Stored(c)}]
  BY <1>5
<1>7. call[c].on = t
  BY <1>1, <1>4, <1>6
<1>8. Stored(c) = "clear"
  BY <1>1, <1>4, <1>6, <1>7
<1>9. "secret" \in cols[t] /\ "secret" \notin call[c].seen
  BY <1>5, <1>7, <1>8 DEF Stored, Secure
<1>10. KnownOf(t)
  BY <1>4 DEF SecretInv, Known
<1>11. c \in blind
  BY <1>2, <1>7, <1>9, <1>10 DEF KnownOf
<1>12. QED
  BY <1>7, <1>11

\* The other writers of rows remove values, or an import has failed to seal one.
LEMMA RowsSeal ==
    ASSUME TablesInv, SecretInv, NEW c \in Callers, RowStep(c), NEW t \in Tables
    PROVE  SealedOrExcused(t)
<1>1. PhysicalTyped /\ OthersTyped
  BY CallIs
<1>2. CASE ImportUnsealed(c)
  <2>1. faults' # faults
    BY <1>1, <1>2 DEF ImportUnsealed, OthersTyped
  <2>2. QED
    BY <2>1 DEF SealedOrExcused
<1>3. CASE ExecWrite(c)
  BY <1>3, WritesSeal
<1>4. ASSUME NEW u \in Tables,
             \/ InsertSingle(c, u) \/ InsertBulk(c, u) \/ UpdateRow(c, u) \/ UpsertRow(c, u)
             \/ ImportCSV(c, u) \/ AdminInsertRow(c, u) \/ AdminUpdateRow(c, u)
      PROVE  UNCHANGED rows
  BY <1>4 DEF InsertSingle, InsertBulk, UpdateRow, UpsertRow, ImportCSV, AdminInsertRow, AdminUpdateRow, Write,
              BeginReading, Begin, tables
<1>5. ASSUME NEW u \in Tables, DeleteRow(c, u) \/ BatchDelete(c, u) \/ AdminDeleteRow(c, u) PROVE NoNewValue
  <2>1. PICK rest \in SUBSET rows[u] : rows' = [rows EXCEPT ![u] = rest]
    BY <1>5 DEF DeleteRow, BatchDelete, AdminDeleteRow, RemoveRows
  <2>2. QED
    BY <1>1, <2>1 DEF NoNewValue, PhysicalTyped
<1>6. ASSUME NEW u \in Tables, AdminAddColumn(c, u) \/ AdminAddSecure(c, u) PROVE UNCHANGED rows
  BY <1>6 DEF AdminAddColumn, AdminAddSecure
<1>7. CASE ExecNothing(c) \/ AdminReadSecure(c) \/ AdminWriteSecure(c)
  <2>1. UNCHANGED rows
    BY <1>7 DEF ExecNothing, AdminReadSecure, AdminWriteSecure, tables
  <2>2. QED
    BY <2>1 DEF SealedOrExcused
<1>8. NoNewValue \/ UNCHANGED rows => SealedOrExcused(t)
  BY DEF NoNewValue, SealedOrExcused
<1>9. QED
  BY <1>2, <1>3, <1>4, <1>5, <1>6, <1>7, <1>8 DEF RowStep

\* Every step stores sealed values in columns known to be secure, or has an excuse.
LEMMA StepsSeal == ASSUME TablesInv, SecretInv, TablesMove, NEW t \in Tables PROVE SealedOrExcused(t)
<1>1. NoNewValue \/ UNCHANGED rows => SealedOrExcused(t)
  BY DEF NoNewValue, SealedOrExcused
<1>2. ASSUME NEW c \in Callers, SchemaStep(c) \/ EndpointStep(c) \/ RowStep(c) \/ StatementFails(c)
      PROVE  SealedOrExcused(t)
  <2>1. CASE SchemaStep(c)
    BY <1>1, <2>1, SchemaStoresNothing
  <2>2. CASE EndpointStep(c)
    BY <1>1, <2>2, EndpointsStoreNothing
  <2>3. CASE RowStep(c)
    BY <2>3, RowsSeal
  <2>4. CASE StatementFails(c)
    BY <1>1, <2>4 DEF StatementFails, tables
  <2>5. QED
    BY <1>2, <2>1, <2>2, <2>3, <2>4
<1>3. CASE \E g \in Gates \X Tables : OwnerAnswers(g)
  BY <1>1, <1>3 DEF OwnerAnswers, tables
<1>4. CASE Crash
  BY <1>1, <1>4 DEF Crash, tables
<1>5. QED
  BY <1>2, <1>3, <1>4 DEF TablesMove

-----------------------------------------------------------------------------
(* The theorems                                                            *)

\* The tables, the registry, the endpoints and the calls under way are in step at all times, and a
\* table that is neither torn nor exposed has its secure column in the registry, or in the one call
\* that shapes it, for any number of callers, tables, paths, calls and failures: tools/tables.go and
\* tools/endpoints.go.
THEOREM TablesInvariant == TablesSpec => [](TablesInv /\ SecretInv)
<1>1. TablesInit => TablesInv /\ SecretInv
  BY TablesStart, SecretStart
<1>2. TablesInv /\ SecretInv /\ [TablesNext]_schemaVars => (TablesInv /\ SecretInv)'
  BY TablesStep, SecretStep
<1>3. QED
  BY <1>1, <1>2, PTL DEF TablesSpec

\* Every variable has its type, a path is one API endpoint, and a table that is gone has neither
\* columns nor rows: the upserts of tools/endpoints.go and the drop of tools/tables.go.
THEOREM TablesTyped == TablesSpec => []TablesTypeOK
  BY TablesInvariant, TablesShow, PTL

\* Registered tables exist, endpoints stand on registered tables and providers have their secrets,
\* but where an operation was cut short or overlapped by a removal: SchemaTool.create and drop,
\* EndpointsTool.create* and delete*.
THEOREM NothingDanglesEver == TablesSpec => []NothingDangles
  BY TablesInvariant, TablesShow, PTL

\* A write stores a value in the clear in a secure column only if an import failed to seal it, if
\* its own read of secure_columns failed or its table was shaped meanwhile, or if its table was torn,
\* or exposed: shaped by two calls at once, by an alter whose read failed or that the owner's gate
\* stopped.  Of every other table the invariant knows that the registry names the secure column
\* whenever a write reads it: the writers of tools/tables.go and server/admin/sitetables*.go.
THEOREM SecretsStaySealed == TablesSpec => SecretsAreSealed
<1>1. TablesInv /\ SecretInv /\ [TablesNext]_schemaVars => [\A t \in Tables : SealedOrExcused(t)]_schemaVars
  BY StepsSeal DEF TablesNext
<1>2. QED
  BY <1>1, TablesInvariant, PTL DEF TablesSpec, SecretsAreSealed
=============================================================================
