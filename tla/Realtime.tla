------------------------------ MODULE Realtime ------------------------------
(***************************************************************************)
(* What the public server keeps open: the WebSocket rooms of the hub       *)
(* (server/public/ws_hub.go, apiWebSocket in handler.go), the event        *)
(* streams that subscribe to the bus (apiStream), and the requests to a    *)
(* language model with their limit per minute (apiLLM).                    *)
(*                                                                         *)
(* A WebSocket has a read pump and a write pump.  The hub's lock guards    *)
(* its map and is not held while messages are put in the channels; what    *)
(* the hub says of a join or a leave goes out in the same step.            *)
(***************************************************************************)
EXTENDS Naturals, FiniteSets

CONSTANTS
    Clients,        \* WebSocket connections
    Rooms,          \* rooms of one endpoint
    Streams,        \* connections to an event stream
    Askers,         \* addresses that ask the language model
    RateLimit,      \* rate_limit of the endpoint, per minute
    Minute,         \* a minute, in steps of the clock
    Buffer,         \* messages a channel holds: 128, and 64 for a stream
    All,            \* a message without _to
    Here,           \* a message that names no room
    MaxMessages,    \* messages and events ever sent: BOUND of the model
    MaxTime         \* steps of the clock: BOUND of the model

ASSUME RealtimeAssumption ==
    /\ All \notin Clients /\ Here \notin Rooms
    /\ RateLimit \in Nat /\ Minute \in Nat \ {0} /\ Buffer \in Nat \ {0}
    /\ MaxMessages \in Nat /\ MaxTime \in Nat

VARIABLES
    open,       \* the rooms in the hub's map
    member,     \* for each room and client: no channel, the one of the connection, or a later one
    conn,       \* the connection: "new", "open", "leaving", "gone"
    first,      \* the room it asked for when it connected
    pump,       \* the read pump: what it does, the room it is in, its message, the targets
    out,        \* the messages in the channel that the write pump drains
    roamed,     \* ghost: the clients that ever switched rooms
    stream,     \* each event stream: "new", "open", "closing", "gone"
    subscribed, \* the streams whose handler is in the bus
    flying,     \* handlers that Publish copied and has not run yet
    waiting,    \* events in the channel of each stream
    sent,       \* messages and events so far
    now,        \* the clock
    stamps,     \* llmRateLimiter.counts: for each asker, the requests it remembers
    admitted,   \* ghost: all the requests let through
    asked       \* the request of each asker: "none", "checked", "streaming"

hubVars == <<open, member, conn, first, pump, out, roamed>>
streamVars == <<stream, subscribed, flying, waiting>>
llmVars == <<now, stamps, admitted, asked>>
realtimeVars == <<hubVars, streamVars, sent, llmVars>>

Handles == {"none", "own", "later"}
Times == 0 .. MaxTime

Resting(r) == [at |-> "read", in |-> r, to |-> All, next |-> Here, targets |-> {}]

RealtimeInit ==
    /\ open = {} /\ member = [r \in Rooms |-> [c \in Clients |-> "none"]]
    /\ conn = [c \in Clients |-> "new"]
    /\ first \in [Clients -> Rooms]
    /\ pump = [c \in Clients |-> [Resting(first[c]) EXCEPT !.at = "off"]]
    /\ out = [c \in Clients |-> 0] /\ roamed = {}
    /\ stream = [s \in Streams |-> "new"]
    /\ subscribed = {} /\ flying = {} /\ waiting = [s \in Streams |-> 0]
    /\ sent = 0 /\ now = 0
    /\ stamps = [k \in Askers |-> {}] /\ admitted = stamps
    /\ asked = [k \in Askers |-> "none"]

-----------------------------------------------------------------------------
(* The hub *)

\* A channel that is full drops the message; nobody drains a later channel.
Enqueue(targets) ==
    out' = [c \in Clients |-> IF c \in targets /\ out[c] < Buffer THEN out[c] + 1 ELSE out[c]]

Drained(row) == {c \in Clients : row[c] = "own"}
Present(row) == {c \in Clients : row[c] # "none"}

\* broadcastAll; the welcome of a client that joins goes with what the hub says of it.
HubSays(row) == Enqueue(Drained(row))

Join(r, c, handle) ==
    /\ open' = open \cup {r}
    /\ member' = [member EXCEPT ![r][c] = handle]
    /\ HubSays(member'[r])

\* Wrong on purpose: a room without clients stays in the map.
LeaveOpen(r, c) ==
    /\ member' = [member EXCEPT ![r][c] = "none"]
    /\ UNCHANGED open /\ HubSays(member'[r])

Leave(r, c) ==
    /\ member' = [member EXCEPT ![r][c] = "none"]
    /\ open' = IF Present(member'[r]) = {} THEN open \ {r} ELSE open
    /\ HubSays(member'[r])

-----------------------------------------------------------------------------
(* apiWebSocket: one connection.  The deferred calls run in the reverse of *)
(* their order: first the context ends, then the client leaves the room it *)
(* asked for, then the connection is closed.                               *)

Connect(c) ==
    /\ conn[c] = "new"
    /\ Join(first[c], c, "own")
    /\ conn' = [conn EXCEPT ![c] = "open"]
    /\ pump' = [pump EXCEPT ![c].at = "read"]
    /\ UNCHANGED <<first, roamed, streamVars, sent, llmVars>>

\* The write pump: the next message of the channel it was given when it joined.
WritePump(c) ==
    /\ conn[c] = "open" /\ out[c] > 0
    /\ out' = [out EXCEPT ![c] = @ - 1]
    /\ UNCHANGED <<open, member, conn, first, pump, roamed, streamVars, sent, llmVars>>

\* A write or a ping fails, or the context is at its end.
WriteEnds(c) ==
    /\ conn[c] = "open"
    /\ conn' = [conn EXCEPT ![c] = "leaving"]
    /\ UNCHANGED <<open, member, first, pump, out, roamed, streamVars, sent, llmVars>>

Disconnect(c) ==
    /\ conn[c] = "leaving"
    /\ Leave(first[c], c)
    /\ conn' = [conn EXCEPT ![c] = "gone"]
    /\ UNCHANGED <<first, pump, roamed, streamVars, sent, llmVars>>

\* Reading fails: the read pump ends the context, which ends the write pump.
ReadEnds(c) ==
    /\ pump[c].at = "read"
    /\ pump' = [pump EXCEPT ![c].at = "off"]
    /\ conn' = [conn EXCEPT ![c] = IF @ = "open" THEN "leaving" ELSE @]
    /\ UNCHANGED <<open, member, first, out, roamed, streamVars, sent, llmVars>>

\* A message that is not a JSON object changes nothing and is left out.
ReadPump(c, to, next) ==
    /\ pump[c].at = "read" /\ conn[c] = "open" /\ sent < MaxMessages
    /\ sent' = sent + 1
    /\ pump' = [pump EXCEPT ![c] = [@ EXCEPT !.to = to, !.next = next,
                                    !.at = IF next \in {Here, pump[c].in} THEN "collect" ELSE "leave"]]
    /\ UNCHANGED <<open, member, conn, first, out, roamed, streamVars, llmVars>>

SwitchLeaves(c) ==
    /\ pump[c].at = "leave"
    /\ Leave(pump[c].in, c)
    /\ pump' = [pump EXCEPT ![c].at = "join"]
    /\ UNCHANGED <<conn, first, roamed, streamVars, sent, llmVars>>

\* join makes a new channel, and what it returns is not kept.
SwitchJoins(c) ==
    /\ pump[c].at = "join"
    /\ Join(pump[c].next, c, "later")
    /\ pump' = [pump EXCEPT ![c].at = "collect", ![c].in = pump[c].next]
    /\ roamed' = roamed \cup {c}
    /\ UNCHANGED <<conn, first, streamVars, sent, llmVars>>

\* broadcast and sendTo look up the targets, and then put the message in their channels.
Collect(c) ==
    /\ pump[c].at = "collect"
    /\ LET near == Drained(member[pump[c].in]) IN
          pump' = [pump EXCEPT ![c].at = "send",
                       ![c].targets = IF pump[c].to = All THEN near \ {c} ELSE near \cap {pump[c].to}]
    /\ UNCHANGED <<open, member, conn, first, out, roamed, streamVars, sent, llmVars>>

Sends(c) ==
    /\ pump[c].at = "send"
    /\ Enqueue(pump[c].targets)
    /\ pump' = [pump EXCEPT ![c] = [Resting(@.in) EXCEPT !.at = "store"]]
    /\ UNCHANGED <<open, member, conn, first, roamed, streamVars, sent, llmVars>>

\* wsWriteToTable: a row whose insertion fails is not noticed; the rows are not kept here.
Stores(c) ==
    /\ pump[c].at = "store"
    /\ pump' = [pump EXCEPT ![c].at = "read"]
    /\ UNCHANGED <<open, member, conn, first, out, roamed, streamVars, sent, llmVars>>

\* The action ws_broadcast.
BroadcastToRoom(r) ==
    /\ sent < MaxMessages /\ sent' = sent + 1
    /\ HubSays(member[r])
    /\ UNCHANGED <<open, member, conn, first, pump, roamed, streamVars, llmVars>>

-----------------------------------------------------------------------------
(* apiStream: events of the bus for one connection.  Publish copies the    *)
(* handlers under the lock and runs them after it; one event at a time.    *)

StreamOpens(s) ==
    /\ stream[s] = "new"
    /\ stream' = [stream EXCEPT ![s] = "open"]
    /\ subscribed' = subscribed \cup {s}
    /\ UNCHANGED <<hubVars, flying, waiting, sent, llmVars>>

Publishes ==
    /\ flying = {} /\ subscribed # {} /\ sent < MaxMessages
    /\ sent' = sent + 1
    /\ flying' = subscribed
    /\ UNCHANGED <<hubVars, stream, subscribed, waiting, llmVars>>

\* Not blocking: an event for a full channel is dropped.
HandlerRuns(s) ==
    /\ s \in flying
    /\ flying' = flying \ {s}
    /\ waiting' = [waiting EXCEPT ![s] = IF @ < Buffer THEN @ + 1 ELSE @]
    /\ UNCHANGED <<hubVars, stream, subscribed, sent, llmVars>>

StreamWrites(s) ==
    /\ stream[s] = "open" /\ waiting[s] > 0
    /\ waiting' = [waiting EXCEPT ![s] = @ - 1]
    /\ UNCHANGED <<hubVars, stream, subscribed, flying, sent, llmVars>>

\* The client is gone or a write fails; Unsubscribe is deferred.
StreamEnds(s) ==
    /\ stream[s] = "open"
    /\ stream' = [stream EXCEPT ![s] = "closing"]
    /\ UNCHANGED <<hubVars, subscribed, flying, waiting, sent, llmVars>>

Unsubscribes(s) ==
    /\ stream[s] = "closing"
    /\ stream' = [stream EXCEPT ![s] = "gone"]
    /\ subscribed' = subscribed \ {s}
    /\ UNCHANGED <<hubVars, flying, waiting, sent, llmVars>>

-----------------------------------------------------------------------------
(* apiLLM: a limit on the requests of each address in the last minute      *)

\* The timestamps of one instant are told apart by their number.
Stamps == [at : Times, nr : Nat]
During(requests, times) == {s \in requests : s.at \in times}

\* Wrong on purpose: the limit is for each full minute of the clock.
ThisMinute == (now - (now % Minute)) .. now

\* The times After(now - minute).
LastMinute == {t \in Times : t <= now /\ t + Minute > now}

Tick ==
    /\ now < MaxTime /\ now' = now + 1
    /\ UNCHANGED <<hubVars, streamVars, sent, stamps, admitted, asked>>

\* checkLLMRateLimit: what is too old is forgotten; a request that is refused is not counted.
Asks(k) ==
    /\ asked[k] = "none"
    /\ LET valid == During(stamps[k], LastMinute)
           pass == Cardinality(valid) < RateLimit
           this == [at |-> now, nr |-> Cardinality(During(valid, {now}))]
       IN  /\ stamps' = [stamps EXCEPT ![k] = IF pass THEN valid \cup {this} ELSE valid]
           /\ admitted' = [admitted EXCEPT ![k] = IF pass THEN @ \cup {this} ELSE @]
           /\ asked' = [asked EXCEPT ![k] = IF pass THEN "checked" ELSE "none"]
    /\ UNCHANGED <<hubVars, streamVars, sent, now>>

\* A request that is malformed or finds no provider was counted all the same.
AskRefused(k) ==
    /\ asked[k] = "checked" /\ asked' = [asked EXCEPT ![k] = "none"]
    /\ UNCHANGED <<hubVars, streamVars, sent, now, stamps, admitted>>

\* complete answers at once; chat streams until the model is done or fails.
Completes(k) == AskRefused(k)

ChatStreams(k) ==
    /\ asked[k] = "checked" /\ asked' = [asked EXCEPT ![k] = "streaming"]
    /\ UNCHANGED <<hubVars, streamVars, sent, now, stamps, admitted>>

ChatEnds(k) ==
    /\ asked[k] = "streaming" /\ asked' = [asked EXCEPT ![k] = "none"]
    /\ UNCHANGED <<hubVars, streamVars, sent, now, stamps, admitted>>

-----------------------------------------------------------------------------

Talks(c) ==
    \/ Connect(c) \/ WritePump(c) \/ WriteEnds(c) \/ Disconnect(c) \/ ReadEnds(c)
    \/ \E to \in Clients \cup {All}, next \in Rooms \cup {Here} : ReadPump(c, to, next)
    \/ SwitchLeaves(c) \/ SwitchJoins(c) \/ Collect(c) \/ Sends(c) \/ Stores(c)

HubNext == (\E c \in Clients : Talks(c)) \/ (\E r \in Rooms : BroadcastToRoom(r))

StreamNext ==
    \/ Publishes
    \/ \E s \in Streams :
          StreamOpens(s) \/ HandlerRuns(s) \/ StreamWrites(s) \/ StreamEnds(s) \/ Unsubscribes(s)

LlmNext ==
    \/ Tick
    \/ \E k \in Askers : Asks(k) \/ AskRefused(k) \/ Completes(k) \/ ChatStreams(k) \/ ChatEnds(k)

RealtimeNext == HubNext \/ StreamNext \/ LlmNext

RealtimeSpec == RealtimeInit /\ [][RealtimeNext]_realtimeVars

-----------------------------------------------------------------------------
(* Properties *)

\* Every variable keeps its type.
RealtimeTypeOK ==
    /\ open \subseteq Rooms /\ member \in [Rooms -> [Clients -> Handles]]
    /\ conn \in [Clients -> {"new", "open", "leaving", "gone"}] /\ first \in [Clients -> Rooms]
    /\ pump \in [Clients ->
          [at : {"off", "read", "leave", "join", "collect", "send", "store"}, in : Rooms,
           to : Clients \cup {All}, next : Rooms \cup {Here},
           targets : SUBSET Clients]]
    /\ out \in [Clients -> 0 .. Buffer] /\ roamed \subseteq Clients
    /\ stream \in [Streams -> {"new", "open", "closing", "gone"}]
    /\ subscribed \subseteq Streams /\ flying \subseteq Streams /\ waiting \in [Streams -> 0 .. Buffer]
    /\ sent \in 0 .. MaxMessages /\ now \in Times
    /\ {stamps, admitted} \subseteq [Askers -> SUBSET Stamps]
    /\ asked \in [Askers -> {"none", "checked", "streaming"}]

\* What is closed leaves nothing behind: a room is in the hub's map exactly
\* when somebody is in it, a client is in one room at most, a connection that
\* is gone is in none unless it switched rooms while it lived (the deferred
\* leave names the first room), and no stream that is gone is in the bus.
ConnectionsCleanUp ==
    /\ \A r \in Rooms : r \in open <=> Present(member[r]) # {}
    /\ \A c \in Clients : \A r, q \in Rooms :
          c \in Present(member[r]) \cap Present(member[q]) => r = q
    /\ \A c \in Clients \ roamed : conn[c] = "gone" =>
          \A r \in Rooms : c \notin Present(member[r])
    /\ \A s \in subscribed : stream[s] # "gone"

\* No minute, wherever it starts, lets more than the limit through.
RateHolds ==
    \A k \in Askers : \A t \in Times : Cardinality(During(admitted[k], t .. t + Minute - 1)) <= RateLimit

\* What handler.go says of room_column: a message with the room field makes
\* the client switch to that room, so who is in a room is sent what is sent there.
SwitchedAreHeard ==
    \A c \in Clients, r \in Rooms :
        conn[c] = "open" /\ c \in Present(member[r]) => member[r][c] = "own"

=============================================================================
