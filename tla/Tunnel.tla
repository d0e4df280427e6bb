------------------------------- MODULE Tunnel -------------------------------
(***************************************************************************)
(* The tunnel that shows a site through a broker (tunnel/manager.go and    *)
(* client.go, server/admin/tunnel.go): the manager's entry for the site,   *)
(* the connections it opens one after the other, and on each the requests  *)
(* and the WebSockets of visitors.                                         *)
(*                                                                         *)
(* One goroutine reads a connection; those that write to it take its lock  *)
(* for each frame, or for a frame and its body.  A frame is one step: what *)
(* a lock keeps together is several steps that nobody else comes between.  *)
(***************************************************************************)
EXTENDS Naturals, Sequences, FiniteSets

CONSTANTS
    Requests,       \* requests of visitors, proxied to the public server
    Relays,         \* WebSockets of visitors
    NoWriter,       \* nobody holds the lock of a connection
    NumTunnels      \* connections to the broker ever made: BOUND of the model

ASSUME TunnelAssumption ==
    NumTunnels \in Nat /\ Requests \cap Relays = {} /\ NoWriter \notin Requests \cup Relays

Tunnels == 1 .. NumTunnels
None == 0

VARIABLES
    entry,      \* the manager's tunnel of the site, or None
    opening,    \* Start holds the manager's lock and connects
    made,       \* connections made so far
    done,       \* the tunnels that are closed
    watched,    \* the tunnels whose goroutine waits for the end
    dead,       \* the connections that are broken: nothing passes any more
    wire,       \* the last two frames written to each connection
    writer,     \* who holds the lock of each connection
    reader,     \* the relay whose local WebSocket the reading goroutine is writing to, or NoWriter
    request,    \* each request: what its goroutine does, on which tunnel
    relay,      \* each WebSocket: what its goroutine does, on which tunnel
    local,      \* its connection to the public server: "none", "open", "closed"
    known,      \* wsConns: the relays that the reading goroutine finds
    opened,     \* ghost: the relays whose ws_opened reached the broker
    left        \* ghost: the relays whose visitor left after that

managerVars == <<entry, opening, made, done, watched>>
lineVars == <<dead, wire, writer, reader>>
relayVars == <<relay, local, known, opened, left>>
tunnelVars == <<managerVars, lineVars, request, relayVars>>

NoWork == [at |-> "idle", on |-> None]

TunnelInit ==
    /\ entry = None /\ opening = FALSE /\ made = 0 /\ done = {} /\ watched = {}
    /\ dead = {} /\ wire = [t \in Tunnels |-> <<>>]
    /\ writer = [t \in Tunnels |-> NoWriter] /\ reader = [t \in Tunnels |-> NoWriter]
    /\ request = [q \in Requests |-> NoWork] /\ relay = [x \in Relays |-> NoWork]
    /\ local = [x \in Relays |-> "none"]
    /\ known = {} /\ opened = {} /\ left = {}

Live(t) == t \in 1 .. made /\ t \notin done

-----------------------------------------------------------------------------
(* The manager.  Close closes the local WebSockets that are known, and     *)
(* waits for the connection's lock first.                                  *)

Closes(t) ==
    /\ writer[t] = NoWriter
    /\ done' = done \cup {t}
    /\ LET ends == {x \in known : relay[x].on = t} IN
          /\ known' = known \ ends
          /\ local' = [x \in Relays |-> IF x \in ends THEN "closed" ELSE local[x]]

\* Start closes the tunnel there is and connects, all under the manager's lock.
StartCloses ==
    /\ ~opening /\ made < NumTunnels
    /\ opening' = TRUE
    /\ IF entry \in Tunnels /\ Live(entry) THEN Closes(entry) ELSE UNCHANGED <<done, known, local>>
    /\ entry' = None
    /\ UNCHANGED <<made, watched, lineVars, request, relay, opened, left>>

\* The broker refuses, or fifteen seconds pass.
StartFails ==
    /\ opening /\ opening' = FALSE
    /\ UNCHANGED <<entry, made, done, watched, lineVars, request, relayVars>>

StartConnects ==
    /\ opening /\ opening' = FALSE
    /\ made' = made + 1 /\ entry' = made + 1
    /\ watched' = watched \cup {made + 1}
    /\ UNCHANGED <<done, lineVars, request, relayVars>>

\* Wrong on purpose: the goroutine that waits for the end removes whatever entry there is.
EndedAny(t) ==
    /\ t \in watched \cap done /\ ~opening
    /\ watched' = watched \ {t} /\ entry' = None
    /\ UNCHANGED <<opening, made, done, lineVars, request, relayVars>>

\* The goroutine that waits for the end of a tunnel removes the entry if it is still its own.
MonitorCleans(t) ==
    /\ t \in watched \cap done /\ ~opening
    /\ watched' = watched \ {t}
    /\ entry' = IF entry = t THEN None ELSE entry
    /\ UNCHANGED <<opening, made, done, lineVars, request, relayVars>>

\* Stop and StopAll.
Stop ==
    /\ ~opening /\ entry # None
    /\ IF Live(entry) THEN Closes(entry) ELSE UNCHANGED <<done, known, local>>
    /\ entry' = None
    /\ UNCHANGED <<opening, made, watched, lineVars, request, relay, opened, left>>

GetStatus ==
    /\ ~opening /\ entry \in done
    /\ entry' = None
    /\ UNCHANGED <<opening, made, done, watched, lineVars, request, relayVars>>

LineBreaks(t) ==
    /\ t \in 1 .. made /\ t \notin dead /\ dead' = dead \cup {t}
    /\ UNCHANGED <<managerVars, wire, writer, reader, request, relayVars>>

\* readLoop fails to read, or a ping is not answered: there is no new connection.
EndsAlone(t) ==
    /\ Live(t) /\ t \in dead /\ Closes(t)
    /\ UNCHANGED <<entry, opening, made, watched, lineVars, request, relay, opened, left>>

-----------------------------------------------------------------------------
(* Frames.  A text frame may say that a body follows.                      *)

Passes(t) == Live(t) /\ t \notin dead

Frame(id, kind) == [id |-> id, kind |-> kind]
FrameKinds == {"announce", "body", "plain", "chunk"}

WriteFrame(t, f) ==
    wire' = IF Passes(t)
            THEN [wire EXCEPT ![t] = (IF @ = <<>> THEN <<>> ELSE <<@[Len(@)]>>) \o <<f>>]
            ELSE wire

\* A frame for which the lock is taken and released.
WriteAlone(t, f) == writer[t] = NoWriter /\ WriteFrame(t, f) /\ UNCHANGED writer

\* Wrong on purpose: the lock is taken again for the body.
AnnounceOnly(t, id) == WriteAlone(t, Frame(id, "announce"))

\* A frame after which the lock is kept for the body.
Announce(t, id) ==
    /\ writer[t] = NoWriter /\ WriteFrame(t, Frame(id, "announce"))
    /\ writer' = [writer EXCEPT ![t] = id]

WriteBody(t, id) ==
    /\ writer[t] \in {id, NoWriter} /\ WriteFrame(t, Frame(id, "body"))
    /\ writer' = [writer EXCEPT ![t] = NoWriter]

-----------------------------------------------------------------------------
(* handleRequest: one goroutine for each request *)

InRequest(q, at) == request[q].at = at
RequestAt(q, at) == request' = [request EXCEPT ![q].at = at]

\* readLoop reads the body of a request with it.
RequestArrives(q, t) ==
    /\ InRequest(q, "idle") /\ Passes(t) /\ reader[t] = NoWriter
    /\ request' = [request EXCEPT ![q] = [at |-> "local", on |-> t]]
    /\ UNCHANGED <<managerVars, lineVars, relayVars>>

\* The answer of the public server, or an error in its place.
Responds(q) ==
    /\ InRequest(q, "local") /\ Announce(request[q].on, q) /\ RequestAt(q, "body")
    /\ UNCHANGED <<managerVars, dead, reader, relayVars>>

RespondsBody(q) ==
    /\ InRequest(q, "body") /\ WriteBody(request[q].on, q) /\ RequestAt(q, "ended")
    /\ UNCHANGED <<managerVars, dead, reader, relayVars>>

RespondsEmpty(q) ==
    /\ InRequest(q, "local") /\ WriteAlone(request[q].on, Frame(q, "plain")) /\ RequestAt(q, "ended")
    /\ UNCHANGED <<managerVars, dead, reader, relayVars>>

\* handleStreamingResponse: the start, the chunks and the end, each alone.
StreamStarts(q) ==
    /\ InRequest(q, "local") /\ WriteAlone(request[q].on, Frame(q, "plain"))
    /\ RequestAt(q, IF Passes(request[q].on) THEN "stream" ELSE "ended")
    /\ UNCHANGED <<managerVars, dead, reader, relayVars>>

StreamChunk(q) ==
    /\ InRequest(q, "stream") /\ WriteAlone(request[q].on, Frame(q, "chunk"))
    /\ RequestAt(q, IF Passes(request[q].on) THEN "stream" ELSE "ended")
    /\ UNCHANGED <<managerVars, dead, reader, relayVars>>

StreamFinishes(q) ==
    /\ InRequest(q, "stream") /\ RequestAt(q, "ended")
    /\ IF Live(request[q].on) THEN WriteAlone(request[q].on, Frame(q, "plain"))
                              ELSE UNCHANGED <<wire, writer>>
    /\ UNCHANGED <<managerVars, dead, reader, relayVars>>

-----------------------------------------------------------------------------
(* handleWSOpen: one goroutine for each WebSocket *)

InRelay(x, at) == relay[x].at = at
RelayAt(x, at) == relay' = [relay EXCEPT ![x].at = at]

RelayArrives(x, t) ==
    /\ InRelay(x, "idle") /\ Passes(t) /\ reader[t] = NoWriter
    /\ relay' = [relay EXCEPT ![x] = [at |-> "dial", on |-> t]]
    /\ UNCHANGED <<managerVars, lineVars, request, local, known, opened, left>>

DialFails(x) ==
    /\ InRelay(x, "dial") /\ RelayAt(x, "ended") /\ WriteAlone(relay[x].on, Frame(x, "plain"))
    /\ UNCHANGED <<managerVars, dead, reader, request, local, known, opened, left>>

RelayStores(x) ==
    /\ InRelay(x, "dial") /\ RelayAt(x, "tell")
    /\ local' = [local EXCEPT ![x] = "open"] /\ known' = known \cup {x}
    /\ UNCHANGED <<managerVars, lineVars, request, opened, left>>

RelayTells(x) ==
    /\ InRelay(x, "tell") /\ RelayAt(x, "relay") /\ WriteAlone(relay[x].on, Frame(x, "plain"))
    /\ opened' = IF Passes(relay[x].on) THEN opened \cup {x} ELSE opened
    /\ UNCHANGED <<managerVars, dead, reader, request, local, known, left>>

\* A frame of the public server: its metadata and its payload.
RelayFrame(x) ==
    /\ InRelay(x, "relay") /\ local[x] = "open"
    /\ IF Passes(relay[x].on) THEN Announce(relay[x].on, x) /\ RelayAt(x, "payload")
                              ELSE RelayAt(x, "close") /\ UNCHANGED <<wire, writer>>
    /\ UNCHANGED <<managerVars, dead, reader, request, local, known, opened, left>>

RelayPayload(x) ==
    /\ InRelay(x, "payload") /\ WriteBody(relay[x].on, x)
    /\ RelayAt(x, IF Passes(relay[x].on) THEN "relay" ELSE "close")
    /\ UNCHANGED <<managerVars, dead, reader, request, local, known, opened, left>>

\* The local connection was closed, here or by the public server.
RelayReadFails(x) ==
    /\ InRelay(x, "relay") /\ RelayAt(x, "close")
    /\ UNCHANGED <<managerVars, lineVars, request, local, known, opened, left>>

\* The deferred calls.
RelayCloses(x) ==
    /\ InRelay(x, "close") /\ RelayAt(x, "ended")
    /\ known' = known \ {x} /\ local' = [local EXCEPT ![x] = "closed"]
    /\ WriteAlone(relay[x].on, Frame(x, "plain"))
    /\ UNCHANGED <<managerVars, dead, reader, request, opened, left>>

\* What the visitor sends is for a relay that is known, or dropped.  Until the local
\* connection takes it, nothing else is read from the tunnel.
VisitorSends(x) ==
    LET t == relay[x].on IN
    /\ x \in known /\ Passes(t) /\ reader[t] = NoWriter
    /\ reader' = [reader EXCEPT ![t] = x]
    /\ UNCHANGED <<managerVars, dead, wire, writer, request, relayVars>>

LocalTakes(t) ==
    /\ reader[t] # NoWriter /\ reader' = [reader EXCEPT ![t] = NoWriter]
    /\ UNCHANGED <<managerVars, dead, wire, writer, request, relayVars>>

\* A visitor that leaves before the relay is known is not found, and its relay stays.
VisitorLeaves(x) ==
    LET t == relay[x].on IN
    /\ relay[x].at \in {"dial", "tell", "relay", "payload"} /\ Passes(t) /\ reader[t] = NoWriter
    /\ known' = known \ {x}
    /\ local' = IF x \in known THEN [local EXCEPT ![x] = "closed"] ELSE local
    /\ left' = IF x \in opened THEN left \cup {x} ELSE left
    /\ UNCHANGED <<managerVars, lineVars, request, relay, opened>>

-----------------------------------------------------------------------------

Manages ==
    \/ StartCloses \/ StartFails \/ StartConnects \/ Stop \/ GetStatus
    \/ \E t \in Tunnels : MonitorCleans(t) \/ LineBreaks(t) \/ EndsAlone(t) \/ LocalTakes(t)

Serves(q) ==
    \/ \E t \in Tunnels : RequestArrives(q, t)
    \/ Responds(q) \/ RespondsBody(q) \/ RespondsEmpty(q)
    \/ StreamStarts(q) \/ StreamChunk(q) \/ StreamFinishes(q)

RelaysOne(x) ==
    \/ \E t \in Tunnels : RelayArrives(x, t)
    \/ DialFails(x) \/ RelayStores(x) \/ RelayTells(x) \/ RelayFrame(x) \/ RelayPayload(x)
    \/ RelayReadFails(x) \/ RelayCloses(x) \/ VisitorSends(x) \/ VisitorLeaves(x)

TunnelNext ==
    \/ Manages
    \/ \E q \in Requests : Serves(q)
    \/ \E x \in Relays : RelaysOne(x)

TunnelSpec == TunnelInit /\ [][TunnelNext]_tunnelVars

-----------------------------------------------------------------------------
(* Properties *)

\* Every variable keeps its type.
TunnelTypeOK ==
    /\ entry \in 0 .. made /\ opening \in BOOLEAN /\ made \in 0 .. NumTunnels
    /\ done \subseteq Tunnels /\ watched \subseteq Tunnels /\ dead \subseteq Tunnels
    /\ \A t \in Tunnels :
          /\ Len(wire[t]) <= 2
          /\ \A i \in DOMAIN wire[t] : wire[t][i] \in [id : Requests \cup Relays, kind : FrameKinds]
    /\ writer \in [Tunnels -> Requests \cup Relays \cup {NoWriter}]
    /\ reader \in [Tunnels -> Relays \cup {NoWriter}]
    /\ request \in [Requests -> [at : {"idle", "local", "body", "stream", "ended"}, on : 0 .. made]]
    /\ relay \in [Relays ->
          [at : {"idle", "dial", "tell", "relay", "payload", "close", "ended"}, on : 0 .. made]]
    /\ local \in [Relays -> {"none", "open", "closed"}]
    /\ known \cup opened \cup left \subseteq Relays

\* The broker reads the body of an announced frame as the next message: nothing
\* comes between them, whoever else writes answers, chunks and frames meanwhile.
FramesPaired ==
    \A t \in Tunnels : Len(wire[t]) = 2 /\ wire[t][1].kind = "announce" =>
        wire[t][2] = Frame(wire[t][1].id, "body")

\* What is closed leaves nothing behind: outside of Start the site has no live
\* tunnel but the one in the manager's entry, whatever ends when; and a WebSocket
\* the broker was told of has no open local connection once its visitor left
\* or its tunnel is closed.
TunnelsCleanUp ==
    /\ \A t \in Tunnels : ~opening /\ Live(t) => t = entry
    /\ \A x \in opened : x \in left \/ relay[x].on \in done => local[x] # "open"

=============================================================================
