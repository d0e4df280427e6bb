----------------------------- MODULE EdgeProofs -----------------------------
(* Invariants of the hub, the streams and the model endpoint, of the tunnel,  *)
(* of the bot and of the admin's chat, and what they say of every behaviour   *)
(* of MCEdge.  Each part has an invariant that its operations keep; a         *)
(* behaviour of MCEdge moves one part, and leaves the others where they are.  *)
EXTENDS MCEdge, FiniteSetTheorems, SequenceTheorems, TLAPS

-----------------------------------------------------------------------------
(* The hub, the event streams and the model endpoint                        *)

PumpStages == {"off", "read", "leave", "join", "collect", "send", "store"}
Pumps == [at : PumpStages, in : Rooms, to : Clients \cup {All}, next : Rooms \cup {Here}, targets : SUBSET Clients]

HubTyped ==
    /\ open \subseteq Rooms /\ member \in [Rooms -> [Clients -> Handles]]
    /\ conn \in [Clients -> {"new", "open", "leaving", "gone"}] /\ first \in [Clients -> Rooms]
    /\ pump \in [Clients -> Pumps]
    /\ out \in [Clients -> 0 .. Buffer] /\ roamed \subseteq Clients

StreamsTyped ==
    /\ stream \in [Streams -> {"new", "open", "closing", "gone"}]
    /\ subscribed \subseteq Streams /\ flying \subseteq Streams /\ waiting \in [Streams -> 0 .. Buffer]

LlmTyped ==
    /\ now \in Times
    /\ {stamps, admitted} \subseteq [Askers -> SUBSET Stamps]
    /\ asked \in [Askers -> {"none", "checked", "streaming"}]

\* A client is where its read pump says it is, or nowhere.
InItsRoom ==
    \A c \in Clients, r \in Rooms :
        member[r][c] # "none" => conn[c] # "new" /\ pump[c].at # "join" /\ r = pump[c].in

\* A client that never switched is in the room it asked for; the pump runs once it is
\* connected, and switches to a room only.
StaysUntilItRoams ==
    \A c \in Clients :
        /\ c \notin roamed => pump[c].in = first[c]
        /\ conn[c] = "new" => pump[c].at = "off" /\ c \notin roamed
        /\ pump[c].at \in {"leave", "join"} => pump[c].next \in Rooms

RoomsAreUsed == \A r \in Rooms : r \in open <=> \E c \in Clients : member[r][c] # "none"
GoneIsNowhere == \A c \in Clients \ roamed : conn[c] = "gone" => \A r \in Rooms : member[r][c] = "none"
BusIsLive == \A s \in subscribed : stream[s] # "gone"

HubInv == HubTyped /\ InItsRoom /\ StaysUntilItRoams /\ RoomsAreUsed /\ GoneIsNowhere
StreamInv == StreamsTyped /\ BusIsLive

\* A client's queue is bounded.
LEMMA EnqueueTyped ==
    ASSUME HubTyped, NEW row, HubSays(row) \/ \E targets : Enqueue(targets) PROVE out' \in [Clients -> 0 .. Buffer]
  BY RealtimeAssumption DEF HubTyped, HubSays, Enqueue

\* join and leave change one entry of the map, and the room with it.
LEMMA JoinKeepsRooms ==
    ASSUME HubTyped, RoomsAreUsed, NEW r \in Rooms, NEW c \in Clients, NEW h \in {"own", "later"}, Join(r, c, h)
    PROVE  /\ open' \subseteq Rooms /\ member' \in [Rooms -> [Clients -> Handles]] /\ out' \in [Clients -> 0 .. Buffer]
           /\ RoomsAreUsed' /\ member'[r][c] = h
           /\ \A q \in Rooms, d \in Clients : q # r \/ d # c => member'[q][d] = member[q][d]
<1>1. out' \in [Clients -> 0 .. Buffer]
  BY EnqueueTyped DEF Join
<1>2. open' \subseteq Rooms /\ member' \in [Rooms -> [Clients -> Handles]] /\ member'[r][c] = h
  BY DEF Join, HubTyped, Handles
<1>3. \A q \in Rooms, d \in Clients : q # r \/ d # c => member'[q][d] = member[q][d]
  BY DEF Join, HubTyped
<1>4. open' = open \cup {r}
  BY DEF Join
<1>5. RoomsAreUsed'
  <2>1. \A q \in Rooms : q # r => ((\E d \in Clients : member'[q][d] # "none") <=> (\E d \in Clients : member[q][d] # "none"))
    BY <1>3
  <2>2. QED
    BY <1>2, <1>4, <2>1 DEF RoomsAreUsed
<1>6. QED
  BY <1>1, <1>2, <1>3, <1>5

\* Leaving changes one entry of the map, and may close the room.
LEMMA LeaveKeepsRooms ==
    ASSUME HubTyped, RoomsAreUsed, NEW r \in Rooms, NEW c \in Clients, Leave(r, c)
    PROVE  /\ open' \subseteq Rooms /\ member' \in [Rooms -> [Clients -> Handles]] /\ out' \in [Clients -> 0 .. Buffer]
           /\ RoomsAreUsed' /\ member'[r][c] = "none"
           /\ \A q \in Rooms, d \in Clients : q # r \/ d # c => member'[q][d] = member[q][d]
<1>1. out' \in [Clients -> 0 .. Buffer]
  BY EnqueueTyped DEF Leave
<1>2. open' \subseteq Rooms /\ member' \in [Rooms -> [Clients -> Handles]] /\ member'[r][c] = "none"
  BY DEF Leave, HubTyped, Handles
<1>3. \A q \in Rooms, d \in Clients : q # r \/ d # c => member'[q][d] = member[q][d]
  BY DEF Leave, HubTyped
<1>4. RoomsAreUsed'
  <2>1. \A q \in Rooms : q # r => ((\E d \in Clients : member'[q][d] # "none") <=> (\E d \in Clients : member[q][d] # "none"))
    BY <1>3
  <2>2. \A q \in Rooms : q # r => (q \in open' <=> q \in open)
    BY DEF Leave
  <2>3. r \in open' <=> \E d \in Clients : member'[r][d] # "none"
    <3>1. Present(member'[r]) = {} <=> ~ \E d \in Clients : member'[r][d] # "none"
      BY DEF Present
    <3>2. (\E d \in Clients : member'[r][d] # "none") => r \in open
      BY <1>2, <1>3 DEF RoomsAreUsed
    <3>3. QED
      BY <3>1, <3>2 DEF Leave
  <2>4. QED
    BY <2>1, <2>2, <2>3 DEF RoomsAreUsed
<1>5. QED
  BY <1>1, <1>2, <1>3, <1>4

\* Every step of a read pump leaves a read pump.
LEMMA PumpMoves ==
    ASSUME NEW p \in Pumps
    PROVE  /\ \A a \in PumpStages : [p EXCEPT !.at = a] \in Pumps
           /\ \A a \in PumpStages, r \in Rooms : [p EXCEPT !.at = a, !.in = r] \in Pumps
           /\ \A a \in PumpStages, ts \in SUBSET Clients : [p EXCEPT !.at = a, !.targets = ts] \in Pumps
           /\ \A a \in PumpStages, to \in Clients \cup {All}, next \in Rooms \cup {Here} :
                 [p EXCEPT !.to = to, !.next = next, !.at = a] \in Pumps
           /\ \A a \in PumpStages : [Resting(p.in) EXCEPT !.at = a] \in Pumps
<1> USE DEF Pumps, PumpStages
<1>1. \A a \in PumpStages : [p EXCEPT !.at = a] \in Pumps
  OBVIOUS
<1>2. \A a \in PumpStages, r \in Rooms : [p EXCEPT !.at = a, !.in = r] \in Pumps
  OBVIOUS
<1>3. \A a \in PumpStages, ts \in SUBSET Clients : [p EXCEPT !.at = a, !.targets = ts] \in Pumps
  OBVIOUS
<1>4. \A a \in PumpStages, to \in Clients \cup {All}, next \in Rooms \cup {Here} :
         [p EXCEPT !.to = to, !.next = next, !.at = a] \in Pumps
  OBVIOUS
<1>5. \A a \in PumpStages : [Resting(p.in) EXCEPT !.at = a] \in Pumps
  BY DEF Resting
<1>6. QED
  BY <1>1, <1>2, <1>3, <1>4, <1>5

\* A connection joins, leaves or talks to a room.
LEMMA TalksKeep == ASSUME HubInv, NEW c \in Clients, Talks(c) PROVE HubInv'
<1> USE RealtimeAssumption DEF HubInv
<1>0. pump[c] \in Pumps
  BY DEF HubTyped
<1>1. ASSUME Connect(c) PROVE HubInv'
  <2>1. first[c] \in Rooms /\ conn[c] = "new" /\ pump[c].in = first[c] /\ pump[c].at = "off" /\ c \notin roamed
    BY <1>1 DEF Connect, HubTyped, StaysUntilItRoams
  <2>2. /\ open' \subseteq Rooms /\ member' \in [Rooms -> [Clients -> Handles]] /\ out' \in [Clients -> 0 .. Buffer]
        /\ RoomsAreUsed' /\ member'[first[c]][c] = "own"
        /\ \A q \in Rooms, d \in Clients : q # first[c] \/ d # c => member'[q][d] = member[q][d]
    BY <1>1, <2>1, JoinKeepsRooms DEF Connect
  <2>3. HubTyped'
    <3>1. pump' = [pump EXCEPT ![c] = [pump[c] EXCEPT !.at = "read"]]
      BY <1>1 DEF Connect
    <3>2. pump' \in [Clients -> Pumps]
      BY <1>0, <3>1, PumpMoves DEF HubTyped, PumpStages
    <3>3. QED
      BY <3>2, <1>1, <2>2 DEF Connect, HubTyped
  <2>4. InItsRoom' /\ GoneIsNowhere'
    BY <1>1, <2>1, <2>2 DEF Connect, HubTyped, InItsRoom, GoneIsNowhere
  <2>5. StaysUntilItRoams'
    BY <1>1, <2>1 DEF Connect, HubTyped, StaysUntilItRoams
  <2>6. QED
    BY <2>2, <2>3, <2>4, <2>5
<1>2. ASSUME Disconnect(c) PROVE HubInv'
  <2>1. first[c] \in Rooms
    BY DEF HubTyped
  <2>2. /\ open' \subseteq Rooms /\ member' \in [Rooms -> [Clients -> Handles]] /\ out' \in [Clients -> 0 .. Buffer]
        /\ RoomsAreUsed' /\ member'[first[c]][c] = "none"
        /\ \A q \in Rooms, d \in Clients : q # first[c] \/ d # c => member'[q][d] = member[q][d]
    BY <1>2, <2>1, LeaveKeepsRooms DEF Disconnect
  <2>3. HubTyped'
    BY <1>2, <2>2 DEF Disconnect, HubTyped
  <2>4. InItsRoom'
    BY <1>2, <2>2 DEF Disconnect, HubTyped, InItsRoom
  <2>5. GoneIsNowhere'
    <3>1. c \notin roamed => \A r \in Rooms : member'[r][c] = "none"
      BY <2>1, <2>2 DEF InItsRoom, StaysUntilItRoams
    <3>2. \A d \in Clients : d # c => conn'[d] = conn[d] /\ \A r \in Rooms : member'[r][d] = member[r][d]
      BY <1>2, <2>2 DEF Disconnect, HubTyped
    <3>3. QED
      BY <1>2, <3>1, <3>2 DEF Disconnect, GoneIsNowhere
  <2>6. StaysUntilItRoams'
    BY <1>2 DEF Disconnect, HubTyped, StaysUntilItRoams
  <2>7. QED
    BY <2>2, <2>3, <2>4, <2>5, <2>6
<1>3. ASSUME SwitchLeaves(c) PROVE HubInv'
  <2>1. pump[c].in \in Rooms
    BY <1>0 DEF Pumps
  <2>2. /\ open' \subseteq Rooms /\ member' \in [Rooms -> [Clients -> Handles]] /\ out' \in [Clients -> 0 .. Buffer]
        /\ RoomsAreUsed' /\ member'[pump[c].in][c] = "none"
        /\ \A q \in Rooms, d \in Clients : q # pump[c].in \/ d # c => member'[q][d] = member[q][d]
    BY <1>3, <2>1, LeaveKeepsRooms DEF SwitchLeaves
  <2>3. HubTyped'
    <3>1. pump' = [pump EXCEPT ![c] = [pump[c] EXCEPT !.at = "join"]]
      BY <1>3 DEF SwitchLeaves
    <3>2. pump' \in [Clients -> Pumps]
      BY <1>0, <3>1, PumpMoves DEF HubTyped, PumpStages
    <3>3. QED
      BY <3>2, <1>3, <2>2 DEF SwitchLeaves, HubTyped
  <2>4. InItsRoom' /\ GoneIsNowhere'
    BY <1>3, <2>2 DEF SwitchLeaves, HubTyped, InItsRoom, GoneIsNowhere
  <2>5. StaysUntilItRoams'
    BY <1>3 DEF SwitchLeaves, HubTyped, StaysUntilItRoams
  <2>6. QED
    BY <2>2, <2>3, <2>4, <2>5
<1>4. ASSUME SwitchJoins(c) PROVE HubInv'
  <2>1. pump[c].next \in Rooms /\ pump[c].at = "join"
    BY <1>4 DEF SwitchJoins, StaysUntilItRoams
  <2>2. /\ open' \subseteq Rooms /\ member' \in [Rooms -> [Clients -> Handles]] /\ out' \in [Clients -> 0 .. Buffer]
        /\ RoomsAreUsed' /\ member'[pump[c].next][c] = "later"
        /\ \A q \in Rooms, d \in Clients : q # pump[c].next \/ d # c => member'[q][d] = member[q][d]
    BY <1>4, <2>1, JoinKeepsRooms DEF SwitchJoins
  <2>3. HubTyped'
    <3>1. pump' = [pump EXCEPT ![c] = [pump[c] EXCEPT !.at = "collect", !.in = pump[c].next]]
      BY <1>4 DEF SwitchJoins
    <3>2. pump' \in [Clients -> Pumps]
      BY <2>1, <1>0, <3>1, PumpMoves DEF HubTyped, PumpStages
    <3>3. QED
      BY <3>2, <1>4, <2>1, <2>2 DEF SwitchJoins, HubTyped
  <2>4. InItsRoom' /\ GoneIsNowhere'
    BY <1>4, <2>1, <2>2 DEF SwitchJoins, HubTyped, InItsRoom, GoneIsNowhere, StaysUntilItRoams
  <2>5. StaysUntilItRoams'
    BY <1>4, <2>1 DEF SwitchJoins, HubTyped, StaysUntilItRoams
  <2>6. QED
    BY <2>2, <2>3, <2>4, <2>5
<1>5. ASSUME UNCHANGED <<open, member, first, roamed>>, HubTyped',
             \A d \in Clients : /\ conn'[d] = conn[d] \/ (conn[d] = "open" /\ conn'[d] = "leaving")
                                /\ pump'[d] = pump[d] \/
                                   /\ conn[d] # "new" /\ pump'[d].in = pump[d].in /\ pump'[d].at # "join"
                                   /\ pump'[d].at = "leave" => pump'[d].next \in Rooms
      PROVE  HubInv'
  <2>1. InItsRoom' /\ GoneIsNowhere' /\ StaysUntilItRoams' /\ RoomsAreUsed'
    <3>1. InItsRoom'
      BY <1>5 DEF InItsRoom, HubTyped
    <3>2. GoneIsNowhere' /\ RoomsAreUsed'
      BY <1>5 DEF GoneIsNowhere, RoomsAreUsed, HubTyped
    <3>3. StaysUntilItRoams'
      BY <1>5 DEF StaysUntilItRoams
    <3>4. QED
      BY <3>1, <3>2, <3>3
  <2>2. QED
    BY <1>5, <2>1
<1>6. ASSUME WritePump(c) \/ WriteEnds(c) PROVE HubInv'
  <2>1. HubTyped'
    BY <1>6 DEF WritePump, WriteEnds, HubTyped
  <2>2. QED
    BY <1>5, <1>6, <2>1 DEF WritePump, WriteEnds, HubTyped
<1>7. ASSUME ReadEnds(c) PROVE HubInv'
  <2>1. HubTyped'
    <3>1. pump' = [pump EXCEPT ![c] = [pump[c] EXCEPT !.at = "off"]]
      BY <1>7 DEF ReadEnds
    <3>2. pump' \in [Clients -> Pumps]
      BY <1>0, <3>1, PumpMoves DEF HubTyped, PumpStages
    <3>3. QED
      BY <3>2, <1>7 DEF ReadEnds, HubTyped
  <2>2. QED
    BY <1>5, <1>7, <2>1 DEF ReadEnds, HubTyped, StaysUntilItRoams
<1>8. ASSUME NEW to \in Clients \cup {All}, NEW next \in Rooms \cup {Here}, ReadPump(c, to, next) PROVE HubInv'
  <2>1. HubTyped'
    <3>1. pump' = [pump EXCEPT ![c] = [pump[c] EXCEPT !.to = to, !.next = next, !.at = IF next \in {Here, pump[c].in} THEN "collect" ELSE "leave"]]
      BY <1>8 DEF ReadPump
    <3>2. pump' \in [Clients -> Pumps]
      BY <1>0, <3>1, PumpMoves DEF HubTyped, PumpStages
    <3>3. QED
      BY <3>2, <1>8 DEF ReadPump, HubTyped
  <2>2. QED
    BY <1>5, <1>8, <2>1 DEF ReadPump, HubTyped, StaysUntilItRoams
<1>9. ASSUME Collect(c) PROVE HubInv'
  <2>1. HubTyped'
    <3> DEFINE near == Drained(member[pump[c].in])
    <3> DEFINE targets == IF pump[c].to = All THEN near \ {c} ELSE near \cap {pump[c].to}
    <3>1. pump' = [pump EXCEPT ![c] = [pump[c] EXCEPT !.at = "send", !.targets = targets]]
      BY <1>9 DEF Collect
    <3>2. pump' \in [Clients -> Pumps]
      <4>1. targets \in SUBSET Clients
        BY DEF Drained
      <4> HIDE DEF targets
      <4>2. QED
        BY <1>0, <3>1, <4>1, PumpMoves DEF HubTyped, PumpStages
    <3>3. QED
      BY <3>2, <1>9 DEF Collect, HubTyped, Drained
  <2>2. QED
    BY <1>5, <1>9, <2>1 DEF Collect, HubTyped, StaysUntilItRoams
<1>10. ASSUME Sends(c) PROVE HubInv'
  <2>1. out' \in [Clients -> 0 .. Buffer]
    BY <1>10, EnqueueTyped DEF Sends
  <2>2. HubTyped'
    <3>1. pump' = [pump EXCEPT ![c] = [Resting(pump[c].in) EXCEPT !.at = "store"]]
      BY <1>10 DEF Sends
    <3>2. pump' \in [Clients -> Pumps]
      BY <1>0, <3>1, PumpMoves DEF HubTyped, PumpStages
    <3>3. QED
      BY <3>2, <1>10, <2>1 DEF Sends, HubTyped, Resting
  <2>3. QED
    BY <1>5, <1>10, <2>2 DEF Sends, HubTyped, StaysUntilItRoams, Resting
<1>11. ASSUME Stores(c) PROVE HubInv'
  <2>1. HubTyped'
    <3>1. pump' = [pump EXCEPT ![c] = [pump[c] EXCEPT !.at = "read"]]
      BY <1>11 DEF Stores
    <3>2. pump' \in [Clients -> Pumps]
      BY <1>0, <3>1, PumpMoves DEF HubTyped, PumpStages
    <3>3. QED
      BY <3>2, <1>11 DEF Stores, HubTyped
  <2>2. QED
    BY <1>5, <1>11, <2>1 DEF Stores, HubTyped, StaysUntilItRoams
<1>12. QED
  BY <1>1, <1>2, <1>3, <1>4, <1>6, <1>7, <1>8, <1>9, <1>10, <1>11 DEF Talks
\* A message counts in every area.
SentTyped == sent \in 0 .. MaxMessages

\* Whatever a connection or the hub does, the hub keeps its invariant.
LEMMA HubKeeps == HubInv /\ SentTyped /\ HubNext => HubInv' /\ SentTyped'
<1> SUFFICES ASSUME HubInv, SentTyped, HubNext PROVE HubInv' /\ SentTyped'
  OBVIOUS
<1>1. SentTyped'
  <2>1. sent' = sent \/ (sent < MaxMessages /\ sent' = sent + 1)
    BY DEF HubNext, Talks, Connect, WritePump, WriteEnds, Disconnect, ReadEnds, ReadPump,
       SwitchLeaves, SwitchJoins, Collect, Sends, Stores, BroadcastToRoom
  <2>2. QED
    BY <2>1, RealtimeAssumption DEF SentTyped
<1>2. ASSUME NEW r \in Rooms, BroadcastToRoom(r) PROVE HubInv'
  <2>1. out' \in [Clients -> 0 .. Buffer]
    BY <1>2, EnqueueTyped DEF BroadcastToRoom, HubInv
  <2>2. QED
    BY <1>2, <2>1 DEF BroadcastToRoom, HubInv, HubTyped, InItsRoom, GoneIsNowhere, StaysUntilItRoams, RoomsAreUsed
<1>3. QED
  BY <1>1, <1>2, TalksKeep DEF HubNext

\* A stream is taken off the bus before its connection is gone.
LEMMA StreamsKeep == StreamInv /\ SentTyped /\ StreamNext => StreamInv' /\ SentTyped'
<1> SUFFICES ASSUME StreamInv, SentTyped, StreamNext PROVE StreamInv' /\ SentTyped'
  OBVIOUS
<1> USE RealtimeAssumption DEF StreamInv, StreamsTyped, BusIsLive, SentTyped
<1>1. CASE Publishes
  BY <1>1 DEF Publishes
<1>2. ASSUME NEW s \in Streams, StreamOpens(s) PROVE StreamInv' /\ SentTyped'
  BY <1>2 DEF StreamOpens
<1>3. ASSUME NEW s \in Streams, HandlerRuns(s) PROVE StreamInv' /\ SentTyped'
  BY <1>3 DEF HandlerRuns
<1>4. ASSUME NEW s \in Streams, StreamWrites(s) PROVE StreamInv' /\ SentTyped'
  BY <1>4 DEF StreamWrites
<1>5. ASSUME NEW s \in Streams, StreamEnds(s) PROVE StreamInv' /\ SentTyped'
  BY <1>5 DEF StreamEnds
<1>6. ASSUME NEW s \in Streams, Unsubscribes(s) PROVE StreamInv' /\ SentTyped'
  BY <1>6 DEF Unsubscribes
<1>7. QED
  BY <1>1, <1>2, <1>3, <1>4, <1>5, <1>6 DEF StreamNext

-----------------------------------------------------------------------------
(* The limit of model requests *)

\* What the limiter remembers was let through, and it remembers all of the last minute;
\* two requests of one instant have different numbers.
RemembersTheMinute ==
    \A k \in Askers :
        /\ IsFiniteSet(admitted[k]) /\ stamps[k] \subseteq admitted[k]
        /\ \A s \in admitted[k] : s.at <= now /\ (s.at + Minute > now => s \in stamps[k])
        /\ \A s \in admitted[k] : s.at = now => s.nr < Cardinality(During(stamps[k], {now}))

LlmInv == LlmTyped /\ RemembersTheMinute /\ RateHolds

\* The requests during some times are finitely many, and one more is one more.
LEMMA DuringFinite ==
    ASSUME NEW S, IsFiniteSet(S), NEW T
    PROVE  IsFiniteSet(During(S, T)) /\ Cardinality(During(S, T)) \in Nat /\ Cardinality(During(S, T)) <= Cardinality(S)
<1>1. During(S, T) \in SUBSET S
  BY DEF During
<1>2. QED
  BY <1>1, FS_Subset, FS_CardinalityType

\* A request that is let through is a new one, and every minute with it has room for it.
LEMMA AskKeepsRate == ASSUME LlmInv, NEW k \in Askers, Asks(k) PROVE LlmInv'
<1> DEFINE valid == During(stamps[k], LastMinute)
           pass == Cardinality(valid) < RateLimit
           this == [at |-> now, nr |-> Cardinality(During(valid, {now}))]
<1> USE RealtimeAssumption
<1>1. /\ now' = now /\ asked' \in [Askers -> {"none", "checked", "streaming"}]
      /\ stamps' = [stamps EXCEPT ![k] = IF pass THEN valid \cup {this} ELSE valid]
      /\ admitted' = [admitted EXCEPT ![k] = IF pass THEN @ \cup {this} ELSE @]
  BY DEF Asks, LlmInv, LlmTyped
<1>2. /\ now \in Times /\ now \in Nat /\ stamps \in [Askers -> SUBSET Stamps] /\ admitted \in [Askers -> SUBSET Stamps]
      /\ \A s \in Stamps : s.at \in Nat /\ s.nr \in Nat /\ s.at \in Times
  BY DEF LlmInv, LlmTyped, Times, Stamps
<1>3. /\ IsFiniteSet(admitted[k]) /\ stamps[k] \subseteq admitted[k]
      /\ \A s \in admitted[k] : s.at <= now /\ (s.at + Minute > now => s \in stamps[k])
      /\ \A s \in admitted[k] : s.at = now => s.nr < Cardinality(During(stamps[k], {now}))
  BY DEF LlmInv, RemembersTheMinute
<1>4. IsFiniteSet(stamps[k]) /\ IsFiniteSet(valid) /\ Cardinality(valid) \in Nat
  <2>1. IsFiniteSet(stamps[k])
    BY <1>3, FS_Subset
  <2>2. QED
    BY <2>1, DuringFinite
<1>5. During(valid, {now}) = During(stamps[k], {now})
  BY <1>2 DEF During, LastMinute
<1>6. this \in Stamps /\ this.at = now /\ this.nr = Cardinality(During(stamps[k], {now})) /\ this.nr \in Nat
  <2>1. Cardinality(During(stamps[k], {now})) \in Nat
    BY <1>4, DuringFinite
  <2>2. QED
    BY <1>2, <1>5, <2>1 DEF Stamps
<1> HIDE DEF valid, pass, this
<1>7. this \notin admitted[k] /\ this \notin stamps[k]
  BY <1>2, <1>3, <1>6
<1>8. valid \subseteq stamps[k] /\ \A s \in stamps[k] : s \in valid <=> s.at + Minute > now
  BY <1>2, <1>3 DEF valid, During, LastMinute
<1>9. LlmTyped'
  BY <1>1, <1>2, <1>6, <1>8 DEF LlmTyped
<1>10. RemembersTheMinute'
  <2>1. IsFiniteSet(admitted'[k]) /\ stamps'[k] \subseteq admitted'[k]
    BY <1>1, <1>2, <1>3, <1>8, FS_AddElement
  <2>2. \A s \in admitted'[k] : s.at <= now /\ (s.at + Minute > now => s \in stamps'[k])
    BY <1>1, <1>2, <1>3, <1>6, <1>8
  <2>3. \A s \in admitted'[k] : s.at = now => s.nr < Cardinality(During(stamps'[k], {now}))
    <3>1. CASE pass
      <4>1. During(stamps'[k], {now}) = During(stamps[k], {now}) \cup {this}
        BY <1>1, <1>2, <1>5, <1>6, <3>1 DEF During, valid
      <4>2. IsFiniteSet(During(stamps[k], {now})) /\ this \notin During(stamps[k], {now})
        BY <1>4, <1>7, DuringFinite DEF During
      <4>3. Cardinality(During(stamps'[k], {now})) = this.nr + 1
        BY <1>6, <4>1, <4>2, FS_AddElement
      <4>4. ASSUME NEW s \in admitted[k], s.at = now PROVE s.nr < this.nr + 1
        <5>1. s.nr \in Nat /\ s.nr < this.nr
          BY <1>2, <1>3, <1>6, <4>4
        <5>2. QED
          BY <1>6, <5>1
      <4>5. admitted'[k] = admitted[k] \cup {this} /\ this.nr < this.nr + 1
        BY <1>1, <1>2, <1>6, <3>1
      <4>6. QED
        BY <4>3, <4>4, <4>5
    <3>2. CASE ~pass
      BY <1>1, <1>2, <1>3, <1>5, <3>2 DEF valid
    <3>3. QED
      BY <3>1, <3>2
  <2>4. QED
    BY <1>1, <1>2, <2>1, <2>2, <2>3 DEF LlmInv, RemembersTheMinute
<1>11. RateHolds'
  <2>1. ASSUME NEW t \in Times PROVE Cardinality(During(admitted'[k], t .. t + Minute - 1)) <= RateLimit
    <3> DEFINE W == t .. t + Minute - 1
    <3>1. Cardinality(During(admitted[k], W)) <= RateLimit
      BY DEF LlmInv, RateHolds
    <3>2. CASE pass /\ now \in W
      <4>1. t \in Nat
        BY DEF Times
      <4>2. During(admitted[k], W) \in SUBSET valid
        BY <1>2, <1>3, <1>8, <3>2, <4>1 DEF During
      <4>3. IsFiniteSet(During(admitted[k], W)) /\ Cardinality(During(admitted[k], W)) <= Cardinality(valid)
        BY <1>4, <4>2, FS_Subset
      <4>4. During(admitted'[k], W) = During(admitted[k], W) \cup {this} /\ this \notin During(admitted[k], W)
        BY <1>1, <1>2, <1>6, <1>7, <3>2 DEF During
      <4>5. Cardinality(During(admitted'[k], W)) = Cardinality(During(admitted[k], W)) + 1
        BY <4>3, <4>4, FS_AddElement
      <4>6. Cardinality(During(admitted[k], W)) \in Nat
        BY <4>3, FS_CardinalityType
      <4>7. QED
        BY <1>4, <3>2, <4>3, <4>5, <4>6 DEF pass
    <3>3. CASE ~(pass /\ now \in W)
      <4>1. During(admitted'[k], W) = During(admitted[k], W)
        BY <1>1, <1>2, <1>6, <3>3 DEF During
      <4>2. QED
        BY <3>1, <4>1
    <3>4. QED
      BY <3>2, <3>3
  <2>2. QED
    BY <1>1, <1>2, <2>1 DEF LlmInv, RateHolds
<1>12. QED
  BY <1>9, <1>10, <1>11 DEF LlmInv

\* An asker is admitted, refused or answered, or time goes on.
LEMMA LlmKeeps == LlmInv /\ LlmNext => LlmInv'
<1> SUFFICES ASSUME LlmInv, LlmNext PROVE LlmInv'
  OBVIOUS
<1>1. CASE Tick
  <2>1. now' = now + 1 /\ now' \in Times /\ now \in Nat /\ UNCHANGED <<stamps, admitted, asked>>
    BY <1>1, RealtimeAssumption DEF Tick, LlmInv, LlmTyped, Times
  <2>2. \A k \in Askers : \A s \in admitted[k] : s.at \in Nat /\ s.nr \in Nat
    BY DEF LlmInv, LlmTyped, Stamps, Times
  <2>3. RemembersTheMinute'
    <3>1. \A k \in Askers : IsFiniteSet(admitted'[k]) /\ stamps'[k] \subseteq admitted'[k]
      BY <2>1 DEF LlmInv, RemembersTheMinute
    <3>2. \A k \in Askers : \A s \in admitted'[k] : s.at <= now' /\ s.at # now' /\ (s.at + Minute > now' => s \in stamps'[k])
      BY <2>1, <2>2, RealtimeAssumption DEF LlmInv, RemembersTheMinute
    <3>3. QED
      BY <3>1, <3>2 DEF RemembersTheMinute
  <2>4. LlmTyped' /\ RateHolds'
    BY <2>1 DEF LlmInv, LlmTyped, RateHolds
  <2>5. QED
    BY <2>3, <2>4 DEF LlmInv
<1>2. ASSUME NEW k \in Askers, AskRefused(k) \/ Completes(k) \/ ChatStreams(k) \/ ChatEnds(k) PROVE LlmInv'
  <2>1. UNCHANGED <<now, stamps, admitted>> /\ asked' \in [Askers -> {"none", "checked", "streaming"}]
    BY <1>2 DEF AskRefused, Completes, ChatStreams, ChatEnds, LlmInv, LlmTyped
  <2>2. QED
    BY <2>1 DEF LlmInv, LlmTyped, RemembersTheMinute, RateHolds
<1>3. QED
  BY <1>1, <1>2, AskKeepsRate DEF LlmNext

RealtimeInv == HubInv /\ StreamInv /\ SentTyped /\ LlmInv

\* One step of the hub, the streams or the model endpoint.
LEMMA RealtimeStep == RealtimeInv /\ [RealtimeNext]_realtimeVars => RealtimeInv'
<1> SUFFICES ASSUME RealtimeInv, [RealtimeNext]_realtimeVars PROVE RealtimeInv'
  OBVIOUS
<1>1. UNCHANGED hubVars => HubInv'
  BY DEF RealtimeInv, hubVars, HubInv, HubTyped, InItsRoom, GoneIsNowhere, StaysUntilItRoams, RoomsAreUsed
<1>2. UNCHANGED streamVars => StreamInv'
  BY DEF RealtimeInv, streamVars, StreamInv, StreamsTyped, BusIsLive
<1>3. UNCHANGED llmVars => LlmInv'
  BY DEF RealtimeInv, llmVars, LlmInv, LlmTyped, RemembersTheMinute, RateHolds
<1>4. CASE HubNext
  <2>1. UNCHANGED <<streamVars, llmVars>>
    BY <1>4 DEF HubNext, Talks, Connect, WritePump, WriteEnds, Disconnect, ReadEnds, ReadPump,
       SwitchLeaves, SwitchJoins, Collect, Sends, Stores, BroadcastToRoom
  <2>2. QED
    BY <1>2, <1>3, <1>4, <2>1, HubKeeps DEF RealtimeInv
<1>5. CASE StreamNext
  <2>1. UNCHANGED <<hubVars, llmVars>>
    BY <1>5 DEF StreamNext, Publishes, StreamOpens, HandlerRuns, StreamWrites, StreamEnds, Unsubscribes
  <2>2. QED
    BY <1>1, <1>3, <1>5, <2>1, StreamsKeep DEF RealtimeInv
<1>6. CASE LlmNext
  <2>1. UNCHANGED <<hubVars, streamVars, sent>>
    BY <1>6 DEF LlmNext, Tick, Asks, AskRefused, Completes, ChatStreams, ChatEnds
  <2>2. QED
    BY <1>1, <1>2, <1>6, <2>1, LlmKeeps DEF RealtimeInv, SentTyped
<1>7. CASE UNCHANGED realtimeVars
  BY <1>1, <1>2, <1>3, <1>7 DEF realtimeVars, RealtimeInv, SentTyped
<1>8. QED
  BY <1>4, <1>5, <1>6, <1>7 DEF RealtimeNext

\* At the start there is no connection, no stream and no asker.
LEMMA RealtimeStart == RealtimeInit => RealtimeInv
<1> SUFFICES ASSUME RealtimeInit PROVE RealtimeInv
  OBVIOUS
<1> USE RealtimeAssumption DEF RealtimeInit
<1>1. HubTyped
  <2>1. \A r \in Rooms : [Resting(r) EXCEPT !.at = "off"] \in Pumps
    BY DEF Pumps, PumpStages, Resting
  <2>2. first \in [Clients -> Rooms] /\ pump \in [Clients -> Pumps]
    BY <2>1
  <2>3. QED
    BY <2>2 DEF HubTyped, Handles
<1>2. InItsRoom /\ StaysUntilItRoams /\ RoomsAreUsed /\ GoneIsNowhere
  BY DEF InItsRoom, StaysUntilItRoams, RoomsAreUsed, GoneIsNowhere, Resting
<1>3. StreamInv /\ SentTyped
  BY DEF StreamInv, StreamsTyped, BusIsLive, SentTyped
<1>4. LlmInv
  <2>1. LlmTyped
    BY DEF LlmTyped, Times
  <2>2. \A k \in Askers : admitted[k] = {} /\ stamps[k] = {}
    OBVIOUS
  <2>3. \A k \in Askers : \A T : During(admitted[k], T) = {}
    BY <2>2 DEF During
  <2>4. RemembersTheMinute
    BY <2>2, FS_EmptySet DEF RemembersTheMinute
  <2>5. RateHolds
    <3>1. \A k \in Askers : \A t \in Times : Cardinality(During(admitted[k], t .. t + Minute - 1)) = 0
      BY <2>3, FS_EmptySet
    <3>2. QED
      BY <3>1 DEF RateHolds
  <2>6. QED
    BY <2>1, <2>4, <2>5 DEF LlmInv
<1>5. QED
  BY <1>1, <1>2, <1>3, <1>4 DEF RealtimeInv, HubInv

\* What the invariant says of connections and of the limit.
LEMMA RealtimeShows == RealtimeInv => RealtimeTypeOK /\ ConnectionsCleanUp /\ RateHolds
<1> SUFFICES ASSUME RealtimeInv PROVE RealtimeTypeOK /\ ConnectionsCleanUp /\ RateHolds
  OBVIOUS
<1> USE DEF RealtimeInv, HubInv, StreamInv, LlmInv
<1>1. RealtimeTypeOK
  BY DEF RealtimeTypeOK, HubTyped, StreamsTyped, LlmTyped, SentTyped, Pumps, PumpStages
<1>2. ConnectionsCleanUp
  BY DEF ConnectionsCleanUp, RoomsAreUsed, InItsRoom, GoneIsNowhere, BusIsLive, Present
<1>3. QED
  BY <1>1, <1>2

-----------------------------------------------------------------------------
(* The tunnel                                                               *)

Ids == Requests \cup Relays
Frames == [id : Ids, kind : FrameKinds]

\* Nothing is written to a connection before it is made.
WireTyped ==
    /\ wire \in [Tunnels -> Seq(Frames)]
    /\ \A t \in Tunnels : Len(wire[t]) <= 2 /\ (t > made => wire[t] = <<>>)
    /\ writer \in [Tunnels -> Ids \cup {NoWriter}]

\* Whoever announced a body last holds the lock, as long as anything passes.
LockedUntilBody ==
    \A t \in Tunnels :
        /\ wire[t] # <<>> /\ Passes(t)
        /\ wire[t][Len(wire[t])].kind = "announce"
        => writer[t] = wire[t][Len(wire[t])].id

ManagerTyped ==
    /\ entry \in 0 .. made /\ opening \in BOOLEAN /\ made \in 0 .. NumTunnels
    /\ done \subseteq Tunnels /\ watched \subseteq Tunnels /\ dead \subseteq Tunnels

WireInv == WireTyped /\ LockedUntilBody /\ FramesPaired

\* The last frame of a connection and the one before it after a frame was written.
LEMMA LastFrames ==
    ASSUME NEW w \in Seq(Frames), Len(w) <= 2, NEW f \in Frames
    PROVE  LET v == (IF w = <<>> THEN <<>> ELSE <<w[Len(w)]>>) \o <<f>> IN
           /\ v \in Seq(Frames) /\ Len(v) \in {1, 2} /\ v[Len(v)] = f
           /\ Len(v) = 2 => w # <<>> /\ v[1] = w[Len(w)] /\ v[2] = f
<1>1. CASE w = <<>>
  BY <1>1
<1>2. CASE w # <<>>
  <2>1. Len(w) \in 1 .. 2 /\ w[Len(w)] \in Frames
    <3>1. Len(w) \in 1 .. 2
      <4>1. Len(w) \in Nat /\ w \in [1 .. Len(w) -> Frames]
        BY LenProperties
      <4>2. Len(w) # 0
        BY <1>2, EmptySeq, Zenon
      <4>3. QED
        BY <4>1, <4>2
    <3>2. QED
      BY <3>1, ElementOfSeq
  <2>2. <<w[Len(w)]>> \in Seq(Frames) /\ <<f>> \in Seq(Frames)
    BY <2>1
  <2>3. QED
    BY <1>2, <2>1, <2>2, ConcatProperties
<1>3. QED
  BY <1>1, <1>2

\* The frames that the lock keeps together.
Writes(t, id) ==
    \/ Announce(t, id) \/ WriteBody(t, id)
    \/ \E kind \in {"plain", "chunk"} : WriteAlone(t, Frame(id, kind))

\* A frame is added to a wire that passes it, header before body.
LEMMA WritesPair ==
    ASSUME ManagerTyped, WireInv, NEW t, NEW id \in Ids, Writes(t, id), UNCHANGED <<made, done, dead>>
    PROVE  WireInv'
<1> DEFINE v(f) == (IF wire[t] = <<>> THEN <<>> ELSE <<wire[t][Len(wire[t])]>>) \o <<f>>
<1> USE TunnelAssumption DEF Ids
<1>1. \A u : Passes(u)' <=> Passes(u)
  BY DEF Passes, Live
<1>2. CASE ~Passes(t)
  <2>1. wire' = wire
    BY <1>2 DEF Writes, Announce, WriteBody, WriteAlone, WriteFrame
  <2>2. writer' \in [Tunnels -> Ids \cup {NoWriter}] /\ \A u \in Tunnels : u # t => writer'[u] = writer[u]
    BY DEF Writes, Announce, WriteBody, WriteAlone, WireInv, WireTyped
  <2>3. QED
    BY <1>1, <1>2, <2>1, <2>2 DEF WireInv, WireTyped, LockedUntilBody, FramesPaired
<1>3. CASE Passes(t)
  <2>1. t \in Tunnels /\ t <= made
    BY <1>3 DEF Passes, Live, Tunnels, ManagerTyped
  <2>2. PICK kind \in FrameKinds :
          /\ wire' = [wire EXCEPT ![t] = v(Frame(id, kind))]
          /\ \/ kind = "announce" /\ writer[t] = NoWriter /\ writer' = [writer EXCEPT ![t] = id]
             \/ kind = "body" /\ writer[t] \in {id, NoWriter} /\ writer' = [writer EXCEPT ![t] = NoWriter]
             \/ kind \in {"plain", "chunk"} /\ writer[t] = NoWriter /\ writer' = writer
    BY <1>3 DEF Writes, Announce, WriteBody, WriteAlone, WriteFrame, FrameKinds
  <2> DEFINE f == Frame(id, kind)
  <2>3. f \in Frames /\ f.id = id /\ f.kind = kind
    BY DEF Frames, Frame
  <2>4. /\ v(f) \in Seq(Frames) /\ Len(v(f)) \in {1, 2} /\ v(f)[Len(v(f))] = f
        /\ Len(v(f)) = 2 => wire[t] # <<>> /\ v(f)[1] = wire[t][Len(wire[t])] /\ v(f)[2] = f
    BY <2>1, <2>3, LastFrames DEF WireInv, WireTyped
  <2>5. wire'[t] = v(f) /\ \A u \in Tunnels : u # t => wire'[u] = wire[u] /\ writer'[u] = writer[u]
    BY <2>1, <2>2 DEF WireInv, WireTyped
  <2> HIDE DEF v, f
  <2>6. WireTyped'
    <3>1. wire' \in [Tunnels -> Seq(Frames)] /\ writer' \in [Tunnels -> Ids \cup {NoWriter}]
      BY <2>1, <2>2, <2>4 DEF WireInv, WireTyped, f
    <3>2. Len(wire'[t]) <= 2 /\ ~(t > made')
      BY <2>1, <2>4, <2>5 DEF ManagerTyped, Tunnels
    <3>3. \A u \in Tunnels : u # t => Len(wire'[u]) <= 2 /\ (u > made' => wire'[u] = <<>>)
      BY <2>5 DEF WireInv, WireTyped
    <3>4. QED
      BY <3>1, <3>2, <3>3 DEF WireTyped
  <2>7. LockedUntilBody'
    <3>1. f.kind = "announce" => writer'[t] = f.id
      BY <2>1, <2>2, <2>3 DEF WireInv, WireTyped
    <3>2. QED
      BY <1>1, <2>4, <2>5, <3>1 DEF WireInv, LockedUntilBody
  <2>8. FramesPaired'
    <3>1. ASSUME wire[t] # <<>>, wire[t][Len(wire[t])].kind = "announce"
          PROVE  f = Frame(wire[t][Len(wire[t])].id, "body")
      <4>1. writer[t] = wire[t][Len(wire[t])].id
        BY <1>3, <2>1, <3>1 DEF WireInv, LockedUntilBody
      <4>2. wire[t][Len(wire[t])] \in Frames
        BY <2>1, <3>1 DEF WireInv, WireTyped
      <4>3. writer[t] \in Ids /\ writer[t] # NoWriter
        BY <4>1, <4>2 DEF Frames
      <4>4. kind = "body" /\ writer[t] = id
        BY <2>2, <4>3
      <4>5. QED
        BY <4>1, <4>4 DEF f
    <3>2. ASSUME NEW u \in Tunnels, Len(wire'[u]) = 2, wire'[u][1].kind = "announce"
          PROVE  wire'[u][2] = Frame(wire'[u][1].id, "body")
      <4>1. CASE u = t
        BY <2>4, <2>5, <3>1, <3>2, <4>1
      <4>2. CASE u # t
        BY <2>5, <3>2, <4>2 DEF WireInv, FramesPaired
      <4>3. QED
        BY <4>1, <4>2
    <3>3. QED
      BY <3>2 DEF FramesPaired
  <2>9. QED
    BY <2>6, <2>7, <2>8 DEF WireInv
<1>4. QED
  BY <1>2, <1>3

\* A step that writes nothing, breaks or closes connections at most, or makes one more.
LEMMA QuietKeepsFrames ==
    ASSUME ManagerTyped, WireInv, UNCHANGED <<wire, writer>>,
           made' \in {made, made + 1}, done \subseteq done', dead \subseteq dead'
    PROVE  WireInv'
<1>1. \A t \in Tunnels : wire[t] # <<>> /\ Passes(t)' => Passes(t)
  BY TunnelAssumption DEF Passes, Live, WireInv, WireTyped, ManagerTyped, Tunnels
<1>2. QED
  BY <1>1, TunnelAssumption DEF WireInv, WireTyped, LockedUntilBody, FramesPaired, ManagerTyped, Tunnels

RequestStages == {"idle", "local", "body", "stream", "ended"}
RelayStages == {"idle", "dial", "tell", "relay", "payload", "close", "ended"}

WorkTyped ==
    /\ reader \in [Tunnels -> Relays \cup {NoWriter}]
    /\ request \in [Requests -> [at : RequestStages, on : 0 .. made]]
    /\ relay \in [Relays -> [at : RelayStages, on : 0 .. made]]
    /\ local \in [Relays -> {"none", "open", "closed"}]
    /\ known \cup opened \cup left \subseteq Relays

\* While Start connects nothing is live; an open local connection is known, so that
\* whoever closes the tunnel or takes the visitor's leave closes it too; the broker is
\* told of a WebSocket after it is known.
NoneWhileOpening ==
    opening => made < NumTunnels /\ entry = None /\ \A t \in Tunnels : ~Live(t)
OpenIsKnown == \A x \in Relays : local[x] = "open" => x \in known
ToldIsRelayed ==
    /\ left \subseteq opened
    /\ \A x \in opened : relay[x].at \in {"relay", "payload", "close", "ended"}

TunnelInv ==
    /\ ManagerTyped /\ WorkTyped /\ WireInv
    /\ NoneWhileOpening /\ TunnelsCleanUp /\ OpenIsKnown /\ ToldIsRelayed

TypedAndClean == ManagerTyped /\ WorkTyped /\ NoneWhileOpening /\ TunnelsCleanUp /\ OpenIsKnown /\ ToldIsRelayed

\* What is closed is the live tunnel of the entry, with the WebSockets it knows.
LEMMA ClosesCleans ==
    ASSUME TunnelInv, NEW t \in Tunnels, Live(t), Closes(t), UNCHANGED <<made, relay, opened, left>>
    PROVE  /\ ~opening /\ t = entry /\ t \in done'
           /\ \A u \in Tunnels : ~Live(u)'
           /\ done' \subseteq Tunnels /\ local' \in [Relays -> {"none", "open", "closed"}] /\ known' \subseteq known
           /\ OpenIsKnown'
           /\ \A x \in opened : x \in left \/ relay[x].on \in done' => local'[x] # "open"
<1> USE DEF TunnelInv, ManagerTyped, WorkTyped
<1>1. ~opening /\ t = entry /\ t \in done'
  BY DEF NoneWhileOpening, TunnelsCleanUp, Closes
<1>2. \A u \in Tunnels : ~Live(u)'
  BY <1>1 DEF TunnelsCleanUp, Closes, Live
<1>3. done' \subseteq Tunnels /\ local' \in [Relays -> {"none", "open", "closed"}] /\ known' \subseteq known
  BY DEF Closes
<1>4. OpenIsKnown'
  BY DEF OpenIsKnown, Closes
<1>5. \A x \in opened : x \in left \/ relay[x].on \in done' => local'[x] # "open"
  BY DEF OpenIsKnown, TunnelsCleanUp, Closes
<1>6. QED
  BY <1>1, <1>2, <1>3, <1>4, <1>5

\* The tunnel is started or stopped, or its reconnection goes on.
LEMMA ManagesKeeps == TunnelInv /\ Manages => TunnelInv'
<1> SUFFICES ASSUME TunnelInv, Manages PROVE TunnelInv'
  OBVIOUS
<1> USE TunnelAssumption DEF managerVars, lineVars, relayVars
<1>1. ManagerTyped /\ WorkTyped /\ NoneWhileOpening /\ TunnelsCleanUp /\ OpenIsKnown /\ ToldIsRelayed
  BY DEF TunnelInv
<1> USE DEF ManagerTyped, WorkTyped
<1>2. WireInv'
  <2>1. /\ UNCHANGED <<wire, writer>> /\ made' \in {made, made + 1}
        /\ done \subseteq done' /\ dead \subseteq dead'
    BY DEF Manages, StartCloses, StartFails, StartConnects, Stop, GetStatus, MonitorCleans, LineBreaks,
           EndsAlone, LocalTakes, Closes
  <2>2. QED
    BY <2>1, QuietKeepsFrames DEF TunnelInv
<1>3. ASSUME StartCloses \/ Stop PROVE TypedAndClean'
  <2>1. CASE entry \in Tunnels /\ Live(entry)
    <3>1. Closes(entry) /\ UNCHANGED <<made, relay, opened, left, watched, dead, reader, request>> /\ entry' = None
      BY <1>3, <2>1 DEF StartCloses, Stop
    <3>2. ~opening /\ opening' \in BOOLEAN
      BY <1>1, <1>3, Zenon DEF StartCloses, Stop
    <3>3. \A u \in Tunnels : ~Live(u)'
      BY <2>1, <3>1, ClosesCleans
    <3>4. /\ done' \subseteq Tunnels /\ local' \in [Relays -> {"none", "open", "closed"}] /\ known' \subseteq known
          /\ OpenIsKnown'
          /\ \A x \in opened : x \in left \/ relay[x].on \in done' => local'[x] # "open"
      BY <2>1, <3>1, ClosesCleans
    <3>5. opening' => made' < NumTunnels
      BY <1>3, <3>1, <3>2 DEF StartCloses, Stop
    <3>6. QED
      BY <1>1, <3>1, <3>2, <3>3, <3>4, <3>5 DEF TypedAndClean, NoneWhileOpening, TunnelsCleanUp, ToldIsRelayed, None
  <2>2. CASE ~(entry \in Tunnels /\ Live(entry))
    <3>1. UNCHANGED <<done, known, local, made, relay, opened, left, watched, dead, reader, request>> /\ entry' = None
      BY <1>1, <1>3, <2>2 DEF StartCloses, Stop, Live, Tunnels, None
    <3>2. ~opening /\ opening' \in BOOLEAN
      BY <1>1, <1>3, Zenon DEF StartCloses, Stop
    <3>3. \A u \in Tunnels : ~Live(u)'
      BY <1>1, <2>2, <3>1, <3>2 DEF TunnelsCleanUp, Live
    <3>4. opening' => made' < NumTunnels
      BY <1>3, <3>1, <3>2 DEF StartCloses, Stop
    <3>5. QED
      BY <1>1, <3>1, <3>2, <3>3, <3>4 DEF TypedAndClean, NoneWhileOpening, TunnelsCleanUp, ToldIsRelayed, OpenIsKnown, None
  <2>3. QED
    BY <2>1, <2>2
<1>4. ASSUME StartFails PROVE TypedAndClean'
  BY <1>1, <1>4 DEF StartFails, TypedAndClean, NoneWhileOpening, TunnelsCleanUp, ToldIsRelayed, OpenIsKnown, Live
<1>5. ASSUME StartConnects PROVE TypedAndClean'
  <2>1. ~opening' /\ opening' \in BOOLEAN /\ opening
    BY <1>5, Zenon DEF StartConnects
  <2>2. made' = made + 1 /\ entry' = made + 1 /\ watched' = watched \cup {made + 1} /\ done' = done
        /\ UNCHANGED <<dead, reader, request, relay, local, known, opened, left>>
    BY <1>5 DEF StartConnects
  <2>3. \A t \in Tunnels : Live(t)' => t = entry'
    BY <1>1, <2>1, <2>2 DEF NoneWhileOpening, Live, Tunnels
  <2>4. ManagerTyped' /\ WorkTyped'
    BY <1>1, <2>1, <2>2 DEF Tunnels, NoneWhileOpening
  <2>5. QED
    BY <1>1, <2>1, <2>2, <2>3, <2>4 DEF TypedAndClean, NoneWhileOpening, TunnelsCleanUp, ToldIsRelayed, OpenIsKnown
<1>6. ASSUME GetStatus \/ \E t \in Tunnels : MonitorCleans(t) PROVE TypedAndClean'
  <2>1. /\ UNCHANGED <<opening, made, done, dead, reader, request, relay, local, known, opened, left>>
        /\ watched' \subseteq watched
        /\ ~opening /\ (entry' = entry \/ (entry' = None /\ entry \in done))
    BY <1>6 DEF GetStatus, MonitorCleans
  <2>2. ManagerTyped' /\ WorkTyped'
    BY <1>1, <2>1 DEF None
  <2>3. \A t \in Tunnels : ~opening' /\ Live(t)' => t = entry'
    BY <1>1, <2>1 DEF TunnelsCleanUp, Live
  <2>4. QED
    BY <1>1, <2>1, <2>2, <2>3 DEF TypedAndClean, NoneWhileOpening, TunnelsCleanUp, ToldIsRelayed, OpenIsKnown
<1>7. ASSUME NEW t \in Tunnels, LineBreaks(t) \/ LocalTakes(t) PROVE TypedAndClean'
  BY <1>1, <1>7 DEF LineBreaks, LocalTakes, TypedAndClean, NoneWhileOpening, TunnelsCleanUp, ToldIsRelayed,
                    OpenIsKnown, Live
<1>8. ASSUME NEW t \in Tunnels, EndsAlone(t) PROVE TypedAndClean'
  <2>1. /\ Live(t) /\ Closes(t)
        /\ UNCHANGED <<entry, opening, made, watched, dead, reader, request, relay, opened, left>>
    BY <1>8 DEF EndsAlone
  <2>2. /\ ~opening /\ \A u \in Tunnels : ~Live(u)'
        /\ done' \subseteq Tunnels /\ local' \in [Relays -> {"none", "open", "closed"}] /\ known' \subseteq known
        /\ OpenIsKnown'
        /\ \A x \in opened : x \in left \/ relay[x].on \in done' => local'[x] # "open"
    BY <2>1, ClosesCleans
  <2>3. QED
    BY <1>1, <2>1, <2>2 DEF TypedAndClean, NoneWhileOpening, TunnelsCleanUp, ToldIsRelayed
<1>9. QED
  BY <1>2, <1>3, <1>4, <1>5, <1>6, <1>7, <1>8 DEF Manages, TypedAndClean, TunnelInv

\* The steps of the goroutines leave the manager alone.
LEMMA WritersKeep ==
    ASSUME TunnelInv, UNCHANGED <<managerVars, dead>>, WorkTyped',
           \/ UNCHANGED <<wire, writer>>
           \/ \E t, id : id \in Ids /\ Writes(t, id),
           UNCHANGED relayVars \/ (OpenIsKnown' /\ ToldIsRelayed' /\ TunnelsCleanUp')
    PROVE  TunnelInv'
<1> USE DEF TunnelInv, managerVars
<1>1. ManagerTyped' /\ NoneWhileOpening'
  BY DEF ManagerTyped, NoneWhileOpening, Live
<1>2. WireInv'
  BY QuietKeepsFrames, WritesPair DEF ManagerTyped
<1>3. OpenIsKnown' /\ ToldIsRelayed' /\ TunnelsCleanUp'
  BY DEF relayVars, OpenIsKnown, ToldIsRelayed, TunnelsCleanUp, Live
<1>4. QED
  BY <1>1, <1>2, <1>3

\* A request is answered without anything but frames.
LEMMA ServesKeeps == ASSUME TunnelInv, NEW q \in Requests, Serves(q) PROVE TunnelInv'
<1> USE DEF TunnelInv
<1>1. UNCHANGED <<managerVars, dead, reader, relayVars>>
  BY DEF Serves, RequestArrives, Responds, RespondsBody, RespondsEmpty, StreamStarts, StreamChunk, StreamFinishes,
         lineVars
<1>2. UNCHANGED <<wire, writer>> \/ \E t, id : id \in Ids /\ Writes(t, id)
  BY DEF Serves, RequestArrives, Responds, RespondsBody, RespondsEmpty, StreamStarts, StreamChunk, StreamFinishes,
         lineVars, Writes, Ids
<1>3. request' \in [Requests -> [at : RequestStages, on : 0 .. made]]
  <2>1. CASE \E t \in Tunnels : RequestArrives(q, t)
    BY <2>1 DEF RequestArrives, WorkTyped, ManagerTyped, RequestStages, Passes, Live
  <2>2. CASE \E at \in RequestStages : RequestAt(q, at)
    BY <2>2 DEF RequestAt, WorkTyped, RequestStages
  <2>3. QED
    BY <2>1, <2>2 DEF Serves, Responds, RespondsBody, RespondsEmpty, StreamStarts, StreamChunk, StreamFinishes,
                      RequestStages
<1>4. WorkTyped'
  BY <1>1, <1>3 DEF WorkTyped, managerVars, relayVars
<1>5. QED
  BY <1>1, <1>2, <1>4, WritersKeep

\* A WebSocket is stored before the broker hears of it, and leaves the table with
\* its local connection.
LEMMA RelaysKeep == ASSUME TunnelInv, NEW x \in Relays, RelaysOne(x) PROVE TunnelInv'
<1> USE DEF TunnelInv
<1>1. UNCHANGED <<managerVars, dead, request>>
  BY DEF RelaysOne, RelayArrives, DialFails, RelayStores, RelayTells, RelayFrame, RelayPayload, RelayReadFails,
         RelayCloses, VisitorSends, VisitorLeaves, lineVars
<1>2. UNCHANGED <<wire, writer>> \/ \E t, id : id \in Ids /\ Writes(t, id)
  BY DEF RelaysOne, RelayArrives, DialFails, RelayStores, RelayTells, RelayFrame, RelayPayload, RelayReadFails,
         RelayCloses, VisitorSends, VisitorLeaves, lineVars, Writes, Ids
<1>3. /\ reader' \in [Tunnels -> Relays \cup {NoWriter}]
      /\ local' \in [Relays -> {"none", "open", "closed"}]
      /\ known' \cup opened' \cup left' \subseteq Relays
  BY DEF RelaysOne, RelayArrives, DialFails, RelayStores, RelayTells, RelayFrame, RelayPayload, RelayReadFails,
         RelayCloses, VisitorSends, VisitorLeaves, lineVars, WorkTyped, relayVars
<1>4. relay' \in [Relays -> [at : RelayStages, on : 0 .. made]] /\ \A y \in Relays : y # x => relay'[y] = relay[y]
  <2>1. CASE \E t \in Tunnels : RelayArrives(x, t)
    BY <2>1 DEF RelayArrives, WorkTyped, ManagerTyped, RelayStages, Passes, Live
  <2>2. CASE \E at \in RelayStages : RelayAt(x, at)
    BY <2>2 DEF RelayAt, WorkTyped, RelayStages
  <2>3. QED
    BY <2>1, <2>2 DEF RelaysOne, DialFails, RelayStores, RelayTells, RelayFrame, RelayPayload, RelayReadFails,
         RelayCloses, VisitorSends, VisitorLeaves, WorkTyped, RelayStages, relayVars
<1>5. WorkTyped'
  BY <1>1, <1>3, <1>4 DEF WorkTyped, managerVars
<1>6. OpenIsKnown'
  BY DEF RelaysOne, RelayArrives, DialFails, RelayStores, RelayTells, RelayFrame, RelayPayload, RelayReadFails,
         RelayCloses, VisitorSends, VisitorLeaves, OpenIsKnown, WorkTyped, relayVars
<1>7. ToldIsRelayed'
  <2>1. left' \subseteq opened'
    BY DEF RelaysOne, RelayArrives, DialFails, RelayStores, RelayTells, RelayFrame, RelayPayload, RelayReadFails,
         RelayCloses, VisitorSends, VisitorLeaves, ToldIsRelayed, relayVars
  <2>2. x \in opened' => relay'[x].at \in {"relay", "payload", "close", "ended"}
    BY DEF RelaysOne, RelayArrives, DialFails, RelayStores, RelayTells, RelayFrame, RelayPayload, RelayReadFails,
         RelayCloses, VisitorSends, VisitorLeaves, ToldIsRelayed, relayVars, RelayAt, InRelay, WorkTyped
  <2>3. opened' \subseteq opened \cup {x}
    BY DEF RelaysOne, RelayArrives, DialFails, RelayStores, RelayTells, RelayFrame, RelayPayload, RelayReadFails,
         RelayCloses, VisitorSends, VisitorLeaves, relayVars
  <2>4. QED
    BY <1>3, <1>4, <2>1, <2>2, <2>3 DEF ToldIsRelayed
<1>8. ASSUME NEW y \in opened', (y \in left' \/ relay'[y].on \in done'), local'[y] = "open" PROVE FALSE
  <2>1. y \in Relays /\ done' = done
    BY <1>1, <1>3, <1>8 DEF managerVars
  <2>2. CASE y # x
    <3>1. (y \in opened' <=> y \in opened) /\ (y \in left' <=> y \in left) /\ relay'[y] = relay[y]
          /\ local'[y] = local[y]
      BY <1>4, <2>1, <2>2 DEF RelaysOne, RelayArrives, DialFails, RelayStores, RelayTells, RelayFrame, RelayPayload,
         RelayReadFails, RelayCloses, VisitorSends, VisitorLeaves, relayVars, WorkTyped
    <3>2. QED
      BY <1>8, <2>1, <3>1 DEF TunnelsCleanUp
  <2>3. CASE y = x
    BY <1>8, <2>1, <2>3 DEF RelaysOne, RelayArrives, DialFails, RelayStores, RelayTells, RelayFrame, RelayPayload,
         RelayReadFails, RelayCloses, VisitorSends, VisitorLeaves, relayVars, WorkTyped, TunnelsCleanUp,
         ToldIsRelayed, OpenIsKnown, RelayAt, InRelay, Passes, Live
  <2>4. QED
    BY <2>2, <2>3
<1>9. TunnelsCleanUp'
  BY <1>1, <1>8 DEF TunnelsCleanUp, managerVars, Live
<1>10. QED
  BY <1>1, <1>2, <1>5, <1>6, <1>7, <1>9, WritersKeep

\* One step of the tunnel.
LEMMA TunnelStep == TunnelInv /\ [TunnelNext]_tunnelVars => TunnelInv'
<1> SUFFICES ASSUME TunnelInv, [TunnelNext]_tunnelVars PROVE TunnelInv'
  OBVIOUS
<1>1. CASE UNCHANGED tunnelVars
  BY <1>1, WritersKeep DEF tunnelVars, managerVars, lineVars, relayVars, TunnelInv, WorkTyped
<1>2. QED
  BY <1>1, ManagesKeeps, ServesKeeps, RelaysKeep DEF TunnelNext

\* At the start there is no tunnel.
LEMMA TunnelStart == TunnelInit => TunnelInv
<1> SUFFICES ASSUME TunnelInit PROVE TunnelInv
  OBVIOUS
<1> USE TunnelAssumption DEF TunnelInit, None, NoWork
<1>1. ManagerTyped
  <2>1. opening \in BOOLEAN
    BY Zenon
  <2>2. QED
    BY <2>1 DEF ManagerTyped
<1>2. WorkTyped
  BY DEF WorkTyped, RequestStages, RelayStages
<1>3. WireInv
  BY EmptySeq DEF WireInv, WireTyped, LockedUntilBody, FramesPaired, Passes, Live
<1>4. NoneWhileOpening /\ TunnelsCleanUp /\ OpenIsKnown /\ ToldIsRelayed
  BY DEF NoneWhileOpening, TunnelsCleanUp, OpenIsKnown, ToldIsRelayed, Live
<1>5. QED
  BY <1>1, <1>2, <1>3, <1>4 DEF TunnelInv

\* The invariant gives every variable its type.
LEMMA TunnelTyped == TunnelInv => TunnelTypeOK
<1> SUFFICES ASSUME TunnelInv PROVE TunnelTypeOK
  OBVIOUS
<1>1. ASSUME NEW t \in Tunnels, NEW i \in DOMAIN wire[t]
      PROVE  wire[t][i] \in [id : Requests \cup Relays, kind : FrameKinds]
  <2>1. wire[t] \in Seq(Frames)
    BY DEF TunnelInv, WireInv, WireTyped
  <2>2. QED
    BY <2>1, LenProperties DEF Frames, Ids
<1>2. QED
  BY <1>1 DEF TunnelInv, ManagerTyped, WorkTyped, WireInv, WireTyped, TunnelTypeOK, RequestStages, RelayStages, Ids

\* What the invariant says of the frames and of what is left open.
LEMMA TunnelShows == TunnelInv => FramesPaired /\ TunnelsCleanUp
  BY DEF TunnelInv, WireInv

-----------------------------------------------------------------------------
(* The chat of the admin                                                    *)

ChatMsgs == [kind : {"text", "calls", "result"}, of : Nat, n : 0 .. MaxCallsOnce]
Senders == [at : {"idle", "sent", "ask", "tools"}, round : 0 .. MaxRounds,
            of : Nat, left : 0 .. MaxCallsOnce, sound : BOOLEAN]

\* A history with the results of a group that are still to come.
Awaiting(h, g, k) == [j \in 1 .. Len(h) + k |-> IF j <= Len(h) THEN h[j] ELSE ResultOf(g)]

\* The results of a group of calls follow the messages there were.
LEMMA AwaitingIsSeq ==
    ASSUME NEW msgs \in Seq(ChatMsgs), NEW g \in Nat, NEW k \in Nat
    PROVE  /\ Awaiting(msgs, g, k) \in Seq(ChatMsgs) /\ Len(Awaiting(msgs, g, k)) = Len(msgs) + k
           /\ DOMAIN Awaiting(msgs, g, k) = 1 .. Len(msgs) + k
           /\ \A j \in 1 .. Len(msgs) : Awaiting(msgs, g, k)[j] = msgs[j]
           /\ \A j \in Len(msgs) + 1 .. Len(msgs) + k : Awaiting(msgs, g, k)[j] = ResultOf(g)
<1> DEFINE e(j) == IF j <= Len(msgs) THEN msgs[j] ELSE ResultOf(g)
<1>1. Len(msgs) \in Nat /\ msgs \in [1 .. Len(msgs) -> ChatMsgs]
  BY LenProperties
<1>2. ResultOf(g) \in ChatMsgs
  BY ChatAssumption DEF ResultOf, ChatMsgs
<1>3. \A j \in 1 .. Len(msgs) + k : e(j) \in ChatMsgs
  BY <1>1, <1>2
<1>4. Len(msgs) + k \in Nat
  BY <1>1
<1>5. Awaiting(msgs, g, k) = [j \in 1 .. Len(msgs) + k |-> e(j)]
  BY DEF Awaiting
<1> HIDE DEF e
<1>6. Awaiting(msgs, g, k) \in [1 .. Len(msgs) + k -> ChatMsgs]
  BY <1>3, <1>5
<1>7. Awaiting(msgs, g, k) \in Seq(ChatMsgs) /\ Len(Awaiting(msgs, g, k)) = Len(msgs) + k
  BY <1>4, <1>6
<1>8. QED
  BY <1>1, <1>5, <1>6, <1>7 DEF e

\* The number of a message is a number.
LEMMA MsgFields == ASSUME NEW m \in ChatMsgs PROVE m.n \in Nat
  BY ChatAssumption DEF ChatMsgs

\* A history without its oldest message.
IsRest(t, h) == Len(h) = Len(t) + 1 /\ \A i \in 1 .. Len(t) : t[i] = h[i + 1]

\* The oldest message can go: a result loses its calls only when all before it are results.
LEMMA DropKeeps ==
    ASSUME NEW h \in Seq(ChatMsgs), NEW t \in Seq(ChatMsgs), IsRest(t, h), WellFormed(h)
    PROVE  WellFormed(t)
<1> USE DEF IsRest
<1>1. Len(t) \in Nat /\ DOMAIN t = 1 .. Len(t) /\ DOMAIN h = 1 .. Len(t) + 1
  BY LenProperties
<1>2. \A i \in 1 .. Len(t) + 1 : h[i] \in ChatMsgs
  BY <1>1, ElementOfSeq
<1>3. \A i \in 1 .. Len(t) + 1 : h[i].n \in Nat
  BY <1>2, ChatAssumption DEF ChatMsgs
<1>4. ASSUME NEW i \in 1 .. Len(t), t[i].kind = "calls" PROVE Complete(t, i)
  <2>1. i + 1 \in 1 .. Len(t) + 1 /\ h[i + 1].kind = "calls" /\ h[i + 1].n \in Nat /\ t[i] = h[i + 1]
    BY <1>1, <1>3, <1>4
  <2>2. Complete(h, i + 1)
    BY <1>1, <2>1 DEF WellFormed
  <2>3. ASSUME NEW j \in i + 1 .. i + t[i].n PROVE j <= Len(t) /\ t[j] = ResultOf(t[i].of)
    <3>1. j + 1 \in (i + 1) + 1 .. (i + 1) + h[i + 1].n
      BY <1>1, <2>1
    <3>2. j + 1 <= Len(h) /\ h[j + 1] = ResultOf(h[i + 1].of)
      BY <2>2, <3>1 DEF Complete
    <3>3. j \in 1 .. Len(t)
      BY <1>1, <2>1, <3>2
    <3>4. QED
      BY <2>1, <3>2, <3>3
  <2>4. QED
    BY <2>3 DEF Complete
<1>5. ASSUME NEW i \in 1 .. Len(t), t[i].kind = "result" PROVE Answers(t, i) \/ CutOff(t, i)
  <2>1. i + 1 \in 1 .. Len(t) + 1 /\ h[i + 1].kind = "result" /\ t[i] = h[i + 1]
    BY <1>1, <1>5
  <2>2. Answers(h, i + 1) \/ CutOff(h, i + 1)
    BY <1>1, <2>1 DEF WellFormed
  <2>3. CASE CutOff(h, i + 1)
    BY <1>1, <2>3 DEF CutOff
  <2>4. CASE Answers(h, i + 1)
    <3>1. PICK j \in 1 .. i : h[j].kind = "calls" /\ h[j].of = h[i + 1].of /\ i + 1 <= j + h[j].n
      BY <1>1, <2>4 DEF Answers
    <3>2. CASE j = 1
      <4>1. \A m \in 2 .. i + 1 : h[m] = ResultOf(h[1].of)
        <5>1. Complete(h, 1) /\ h[1].n \in Nat /\ i + 1 <= 1 + h[1].n
          BY <1>1, <1>3, <3>1, <3>2 DEF WellFormed
        <5>2. QED
          BY <1>1, <5>1 DEF Complete
      <4>2. CutOff(t, i)
        BY <1>1, <4>1 DEF CutOff, ResultOf
      <4>3. QED
        BY <4>2
    <3>3. CASE j # 1
      <4>1. j - 1 \in 1 .. i - 1 /\ t[j - 1] = h[j] /\ h[j].n \in Nat
        BY <1>1, <1>3, <3>3
      <4>2. i <= (j - 1) + t[j - 1].n
        BY <1>1, <3>1, <4>1
      <4>3. QED
        BY <2>1, <3>1, <4>1, <4>2 DEF Answers
    <3>4. QED
      BY <3>2, <3>3
  <2>5. QED
    BY <2>2, <2>3, <2>4
<1>6. QED
  BY <1>1, <1>4, <1>5 DEF WellFormed

\* A text, or calls with the results they will have, can follow.
LEMMA GroupKeeps ==
    ASSUME NEW h \in Seq(ChatMsgs), WellFormed(h), NEW t \in Seq(ChatMsgs), NEW g \in Nat, NEW n \in 0 .. MaxCallsOnce,
           Len(t) = Len(h) + 1 + n, \A i \in 1 .. Len(h) : t[i] = h[i],
           \/ n = 0 /\ t[Len(h) + 1] = Text
           \/ t[Len(h) + 1] = CallsOf(g, n),
           \A i \in Len(h) + 2 .. Len(t) : t[i] = ResultOf(g)
    PROVE  WellFormed(t)
<1>1. Len(h) \in Nat /\ n \in Nat /\ DOMAIN h = 1 .. Len(h) /\ DOMAIN t = 1 .. Len(h) + 1 + n
  BY LenProperties, ChatAssumption
<1>2. \A i \in 1 .. Len(h) : h[i].n \in Nat
  <2>1. \A i \in 1 .. Len(h) : h[i] \in ChatMsgs
    BY ElementOfSeq
  <2>2. QED
    BY <2>1, MsgFields
<1>3. ASSUME NEW i \in 1 .. Len(h) PROVE /\ t[i].kind = "calls" => Complete(t, i)
                                         /\ t[i].kind = "result" => Answers(t, i) \/ CutOff(t, i)
  <2>1. t[i] = h[i] /\ h[i].n \in Nat
    BY <1>2
  <2>2. ASSUME t[i].kind = "calls" PROVE Complete(t, i)
    <3>1. Complete(h, i)
      BY <1>1, <2>1, <2>2 DEF WellFormed
    <3>2. \A j \in i + 1 .. i + h[i].n : j \in 1 .. Len(h) /\ h[j] = ResultOf(h[i].of)
      BY <1>1, <2>1, <3>1 DEF Complete
    <3>3. QED
      BY <1>1, <2>1, <3>2 DEF Complete
  <2>3. ASSUME t[i].kind = "result" PROVE Answers(t, i) \/ CutOff(t, i)
    <3>1. Answers(h, i) \/ CutOff(h, i)
      BY <1>1, <2>1, <2>3 DEF WellFormed
    <3>2. \A j \in 1 .. i : t[j] = h[j]
      BY <1>1
    <3>3. QED
      BY <1>1, <2>1, <3>1, <3>2 DEF Answers, CutOff
  <2>4. QED
    BY <2>2, <2>3
<1> DEFINE c == Len(h) + 1
<1>4. /\ t[c].kind = "calls" => Complete(t, c)
      /\ t[c].kind # "result"
  BY <1>1 DEF Complete, Text, CallsOf
<1>5. ASSUME NEW i \in c + 1 .. c + n PROVE t[i].kind = "result" /\ Answers(t, i)
  <2>1. n # 0 /\ t[c] = CallsOf(g, n) /\ t[i] = ResultOf(g) /\ c \in 1 .. i - 1
    BY <1>1, <1>5
  <2>2. QED
    BY <1>1, <1>5, <2>1 DEF Answers, CallsOf, ResultOf
<1>6. \A i \in 1 .. c + n : i \in 1 .. Len(h) \/ i = c \/ i \in c + 1 .. c + n
  BY <1>1
<1>7. DOMAIN t = 1 .. c + n
  BY <1>1
<1> HIDE DEF c
<1>8. ASSUME NEW i \in DOMAIN t PROVE /\ t[i].kind = "calls" => Complete(t, i)
                                      /\ t[i].kind = "result" => Answers(t, i) \/ CutOff(t, i)
  BY <1>3, <1>4, <1>5, <1>6, <1>7, <1>8
<1>9. QED
  BY <1>8 DEF WellFormed

ChatTyped ==
    /\ history \in Seq(ChatMsgs) /\ Len(history) <= Limit
    /\ sender \in [Talkers -> Senders]
    /\ groups \in Nat /\ mode \in {"building", "monitoring"}
    /\ wakes \in BOOLEAN /\ disturbed \in BOOLEAN
    /\ sends \in 0 .. MaxSends /\ chatFaults \in 0 .. MaxChatFaults

\* A request has rounds left, and calls left while it runs them.
RoundsLeft ==
    \A s \in Talkers :
        /\ sender[s].at # "idle" => sender[s].round < MaxRounds
        /\ sender[s].at = "tools" => sender[s].left > 0

OneAtATime ==
    ~disturbed => \A r, s \in Talkers : sender[r].at # "idle" /\ sender[s].at # "idle" => r = s

\* The history is well formed, with the results that are still to come while a request
\* runs its tools.
HistoryAwaits ==
    ~disturbed =>
        /\ (\A s \in Talkers : sender[s].at # "tools") => WellFormed(history)
        /\ \A s \in Talkers : sender[s].at = "tools" =>
              WellFormed(Awaiting(history, sender[s].of, sender[s].left))

ChatInv == ChatTyped /\ RoundsLeft /\ OneAtATime /\ HistoryAwaits /\ HistoryWellFormed

\* What SaveMessage leaves: the message at the end, and at most the oldest one gone.
LEMMA SaveAppends ==
    ASSUME ChatTyped, NEW s \in Talkers, NEW m \in ChatMsgs, SaveMessage(s, m)
    PROVE  LET h == Append(history, m) IN
           /\ history' \in Seq(ChatMsgs) /\ Len(history') <= Limit /\ chatFaults' = chatFaults
           /\ h \in Seq(ChatMsgs) /\ Len(h) = Len(history) + 1 /\ h[Len(h)] = m
           /\ \A i \in 1 .. Len(history) : h[i] = history[i]
           /\ \/ history' = h
              \/ IsRest(history', h)
<1> DEFINE h == Append(history, m)
<1>1. Len(history) \in Nat /\ history \in Seq(ChatMsgs) /\ Len(history) <= Limit /\ Limit \in Nat
  BY LenProperties, ChatAssumption DEF ChatTyped
<1>2. h \in Seq(ChatMsgs) /\ Len(h) = Len(history) + 1 /\ h[Len(h)] = m /\ \A i \in 1 .. Len(history) : h[i] = history[i]
  BY <1>1, AppendProperties
<1>3. \A i \in 1 .. Len(h) : h[i] \in ChatMsgs
  BY <1>2, ElementOfSeq
<1>4. history' = SubSeq(h, IF Len(h) > Limit THEN Len(h) - Limit + 1 ELSE 1, Len(h)) /\ chatFaults' = chatFaults
  BY DEF SaveMessage
<1> HIDE DEF h
<1>5. CASE Len(h) > Limit
  <2>1. Len(h) - Limit + 1 = 2 /\ Len(h) \in Int
    BY <1>1, <1>2, <1>5
  <2>2. history' = SubSeq(h, 2, Len(h))
    BY <1>4, <1>5, <2>1
  <2>3. \A i \in 2 .. Len(h) : h[i] \in ChatMsgs
    BY <1>3, <2>1
  <2>4. history' \in Seq(ChatMsgs) /\ Len(history') = Len(h) - 1 /\ \A i \in 1 .. Len(h) - 1 : history'[i] = h[i + 1]
    BY <1>1, <1>2, <2>1, <2>2, <2>3, SubSeqProperties
  <2>5. Len(history') = Len(history) /\ Len(history') <= Limit /\ \A i \in 1 .. Len(history) : history'[i] = h[i + 1]
    BY <1>1, <1>2, <2>4
  <2>6. QED
    BY <1>2, <1>4, <2>4, <2>5 DEF h, IsRest
<1>6. CASE ~(Len(h) > Limit)
  <2>1. history' = h
    BY <1>2, <1>4, <1>6, SubSeqFull
  <2>2. QED
    BY <1>1, <1>2, <1>4, <1>6, <2>1 DEF h
<1>7. QED
  BY <1>5, <1>6

\* The oldest message can go while results are awaited.
LEMMA DropAwaiting ==
    ASSUME NEW h \in Seq(ChatMsgs), NEW t \in Seq(ChatMsgs), IsRest(t, h),
           NEW g \in Nat, NEW k \in Nat
    PROVE  WellFormed(Awaiting(h, g, k)) => WellFormed(Awaiting(t, g, k))
<1> DEFINE H == Awaiting(h, g, k)
           T == Awaiting(t, g, k)
<1>1. Len(t) \in Nat /\ Len(h) = Len(t) + 1
  BY LenProperties DEF IsRest
<1>2. /\ H \in Seq(ChatMsgs) /\ Len(H) = Len(h) + k
      /\ \A j \in 1 .. Len(h) : H[j] = h[j]
      /\ \A j \in Len(h) + 1 .. Len(h) + k : H[j] = ResultOf(g)
  <2>1. H \in Seq(ChatMsgs) /\ Len(H) = Len(h) + k
    BY AwaitingIsSeq
  <2>2. \A j \in 1 .. Len(h) : H[j] = h[j]
    BY AwaitingIsSeq
  <2>3. \A j \in Len(h) + 1 .. Len(h) + k : H[j] = ResultOf(g)
    BY AwaitingIsSeq
  <2>4. QED
    BY <2>1, <2>2, <2>3
<1>3. /\ T \in Seq(ChatMsgs) /\ Len(T) = Len(t) + k
      /\ \A j \in 1 .. Len(t) : T[j] = t[j]
      /\ \A j \in Len(t) + 1 .. Len(t) + k : T[j] = ResultOf(g)
  BY AwaitingIsSeq
<1> HIDE DEF H, T
<1>4. ASSUME NEW i \in 1 .. Len(t) + k PROVE T[i] = H[i + 1]
  <2>1. CASE i <= Len(t)
    <3>1. i \in 1 .. Len(t) /\ i + 1 \in 1 .. Len(h)
      BY <1>1, <2>1
    <3>2. QED
      BY <1>2, <1>3, <3>1 DEF IsRest
  <2>2. CASE i > Len(t)
    <3>1. i \in Len(t) + 1 .. Len(t) + k /\ i + 1 \in Len(h) + 1 .. Len(h) + k
      BY <1>1, <2>2
    <3>2. QED
      BY <1>2, <1>3, <3>1
  <2>3. QED
    BY <1>1, <2>1, <2>2
<1>5. Len(H) = Len(T) + 1
  BY <1>1, <1>2, <1>3
<1>6. ASSUME WellFormed(H) PROVE WellFormed(T)
  BY <1>2, <1>3, <1>4, <1>5, <1>6, DropKeeps DEF IsRest
<1>7. QED
  BY <1>6 DEF H, T

\* A message that was awaited, or that nothing is awaited after, is saved.
LEMMA SaveAwaited ==
    ASSUME ChatTyped, NEW s \in Talkers, NEW m \in ChatMsgs, SaveMessage(s, m), NEW g \in Nat, NEW k \in Nat,
           WellFormed(Awaiting(Append(history, m), g, k))
    PROVE  WellFormed(Awaiting(history', g, k))
<1> DEFINE h == Append(history, m)
<1>1. /\ history' \in Seq(ChatMsgs) /\ h \in Seq(ChatMsgs)
      /\ \/ history' = h
         \/ IsRest(history', h)
  BY SaveAppends
<1>2. WellFormed(Awaiting(h, g, k))
  OBVIOUS
<1> HIDE DEF h
<1>3. CASE IsRest(history', h)
  BY <1>1, <1>2, <1>3, DropAwaiting
<1>4. QED
  BY <1>1, <1>2, <1>3

\* Nothing awaited is the history itself.
LEMMA AwaitingNone == ASSUME NEW h \in Seq(ChatMsgs), NEW g \in Nat PROVE Awaiting(h, g, 0) = h
<1>1. Len(h) \in Nat /\ h \in [1 .. Len(h) -> ChatMsgs]
  BY LenProperties
<1>2. QED
  BY <1>1 DEF Awaiting

\* The first result of those awaited is saved.
LEMMA AwaitedArrives ==
    ASSUME NEW h \in Seq(ChatMsgs), NEW g \in Nat, NEW k \in Nat \ {0}
    PROVE  Awaiting(Append(h, ResultOf(g)), g, k - 1) = Awaiting(h, g, k)
<1>1. ResultOf(g) \in ChatMsgs
  BY ChatAssumption DEF ResultOf, ChatMsgs
<1> DEFINE t == Append(h, ResultOf(g))
<1>2. Len(h) \in Nat /\ Len(t) = Len(h) + 1 /\ t[Len(h) + 1] = ResultOf(g) /\ \A i \in 1 .. Len(h) : t[i] = h[i]
  BY <1>1, AppendProperties, LenProperties
<1> HIDE DEF t
<1>3. Len(t) + (k - 1) = Len(h) + k
  BY <1>2
<1>4. ASSUME NEW j \in 1 .. Len(h) + k
      PROVE  (IF j <= Len(t) THEN t[j] ELSE ResultOf(g)) = (IF j <= Len(h) THEN h[j] ELSE ResultOf(g))
  <2>1. CASE j <= Len(h)
    BY <1>2, <2>1
  <2>2. CASE j = Len(h) + 1
    BY <1>2, <2>2
  <2>3. CASE j > Len(h) + 1
    BY <1>2, <2>3
  <2>4. QED
    BY <1>2, <2>1, <2>2, <2>3
<1>5. QED
  BY <1>3, <1>4 DEF Awaiting, t

\* What a request appends to a well-formed history keeps it so, results awaited.
LEMMA AppendKeeps ==
    ASSUME NEW h \in Seq(ChatMsgs), WellFormed(h)
    PROVE  /\ WellFormed(Append(h, Text))
           /\ \A g \in Nat, n \in 1 .. MaxCallsOnce : WellFormed(Awaiting(Append(h, CallsOf(g, n)), g, n))
<1>1. Len(h) \in Nat /\ Text \in ChatMsgs
  BY LenProperties, ChatAssumption DEF Text, ChatMsgs
<1>2. WellFormed(Append(h, Text))
  <2> DEFINE t == Append(h, Text)
  <2>1. t \in Seq(ChatMsgs) /\ Len(t) = Len(h) + 1 /\ t[Len(h) + 1] = Text /\ \A i \in 1 .. Len(h) : t[i] = h[i]
    BY <1>1, AppendProperties
  <2> HIDE DEF t
  <2>2. Len(t) = Len(h) + 1 + 0 /\ 0 \in 0 .. MaxCallsOnce /\ 0 \in Nat
    BY <1>1, <2>1, ChatAssumption
  <2>3. \A i \in Len(h) + 2 .. Len(t) : t[i] = ResultOf(0)
    BY <1>1, <2>2
  <2>4. WellFormed(t)
    BY <2>1, <2>2, <2>3, GroupKeeps
  <2>5. QED
    BY <2>4 DEF t
<1>3. ASSUME NEW g \in Nat, NEW n \in 1 .. MaxCallsOnce PROVE WellFormed(Awaiting(Append(h, CallsOf(g, n)), g, n))
  <2> DEFINE u == Append(h, CallsOf(g, n))
             t == Awaiting(u, g, n)
  <2>1. CallsOf(g, n) \in ChatMsgs /\ n \in Nat /\ n \in 0 .. MaxCallsOnce
    BY ChatAssumption DEF CallsOf, ChatMsgs
  <2>2. u \in Seq(ChatMsgs) /\ Len(u) = Len(h) + 1 /\ u[Len(h) + 1] = CallsOf(g, n) /\ \A i \in 1 .. Len(h) : u[i] = h[i]
    BY <2>1, AppendProperties
  <2> HIDE DEF u
  <2>3. /\ t \in Seq(ChatMsgs) /\ Len(t) = Len(u) + n
        /\ \A j \in 1 .. Len(u) : t[j] = u[j]
        /\ \A j \in Len(u) + 1 .. Len(u) + n : t[j] = ResultOf(g)
    <3>1. t \in Seq(ChatMsgs) /\ Len(t) = Len(u) + n
      BY <2>1, <2>2, AwaitingIsSeq
    <3>2. \A j \in 1 .. Len(u) : t[j] = u[j]
      BY <2>1, <2>2, AwaitingIsSeq
    <3>3. \A j \in Len(u) + 1 .. Len(u) + n : t[j] = ResultOf(g)
      BY <2>1, <2>2, AwaitingIsSeq
    <3>4. QED
      BY <3>1, <3>2, <3>3
  <2> HIDE DEF t
  <2>4. /\ Len(t) = Len(h) + 1 + n /\ t[Len(h) + 1] = CallsOf(g, n)
        /\ \A i \in 1 .. Len(h) : t[i] = h[i]
        /\ \A i \in Len(h) + 2 .. Len(t) : t[i] = ResultOf(g)
    <3>1. Len(u) = Len(h) + 1 /\ Len(t) = Len(u) + n /\ Len(h) \in Nat
      BY <1>1, <2>2, <2>3
    <3>2. t[Len(h) + 1] = CallsOf(g, n)
      BY <2>2, <2>3, <3>1
    <3>3. \A i \in 1 .. Len(h) : t[i] = h[i]
      BY <2>2, <2>3, <3>1
    <3>4. Len(t) = Len(h) + 1 + n /\ \A i \in Len(h) + 2 .. Len(t) : t[i] = ResultOf(g)
      BY <2>1, <2>3, <3>1
    <3>5. QED
      BY <3>2, <3>3, <3>4
  <2>5. WellFormed(t)
    BY <2>1, <2>3, <2>4, GroupKeeps
  <2>6. QED
    BY <2>5 DEF t, u
<1>4. QED
  BY <1>2, <1>3

\* What saving a message, or failing to, keeps of the variables' types.
LEMMA SaveTyped ==
    ASSUME ChatTyped, NEW s \in Talkers, NEW m \in ChatMsgs, SaveMessage(s, m) \/ SaveFails
    PROVE  /\ history' \in Seq(ChatMsgs) /\ Len(history') <= Limit /\ chatFaults' \in 0 .. MaxChatFaults
           /\ disturbed' \in BOOLEAN /\ (~disturbed' => ~disturbed /\ Others(s) = {} /\ SaveMessage(s, m))
<1>1. history' \in Seq(ChatMsgs) /\ Len(history') <= Limit
  BY SaveAppends DEF SaveFails, ChatTyped
<1>2. chatFaults' \in 0 .. MaxChatFaults
  BY ChatAssumption, SaveAppends DEF SaveFails, ChatFails, ChatTyped
<1>3. disturbed' \in BOOLEAN
  BY Zenon DEF SaveFails, SaveMessage, ChatTyped
<1>4. ~disturbed' => ~disturbed /\ Others(s) = {} /\ SaveMessage(s, m)
  BY Zenon DEF SaveFails, SaveMessage
<1>5. QED
  BY <1>1, <1>2, <1>3, <1>4

\* A request that is at work alone and saved a message: what is awaited afterwards.
LEMMA AloneKeeps ==
    ASSUME ChatInv, NEW s \in Talkers, sender' \in [Talkers -> Senders],
           \A r \in Talkers \ {s} : sender'[r] = sender[r],
           ~disturbed' => ~disturbed /\ Others(s) = {},
           sender'[s].at # "idle" => sender'[s].round < MaxRounds,
           sender'[s].at = "tools" => sender'[s].left > 0,
           ~disturbed' /\ sender'[s].at # "tools" => WellFormed(history'),
           ~disturbed' /\ sender'[s].at = "tools" =>
               WellFormed(Awaiting(history', sender'[s].of, sender'[s].left)),
           sender'[s].at \in {"ask", "tools"} => sender'[s].sound \/ disturbed'
    PROVE  RoundsLeft' /\ OneAtATime' /\ HistoryAwaits' /\ (~disturbed' => HistoryWellFormed')
<1>1. RoundsLeft'
  BY DEF ChatInv, RoundsLeft
<1>2. ~disturbed' => \A r \in Talkers \ {s} : sender'[r].at = "idle"
  BY DEF Others
<1>3. OneAtATime' /\ HistoryAwaits'
  BY <1>2 DEF OneAtATime, HistoryAwaits
<1>4. ~disturbed' => HistoryWellFormed'
  BY <1>2 DEF HistoryWellFormed
<1>5. QED
  BY <1>1, <1>3, <1>4

\* A text is saved after a well-formed history.
LEMMA TextKeeps ==
    ASSUME ChatTyped, NEW s \in Talkers, SaveMessage(s, Text), WellFormed(history)
    PROVE  WellFormed(history')
<1>1. history \in Seq(ChatMsgs) /\ Text \in ChatMsgs
  BY ChatAssumption DEF ChatTyped, Text, ChatMsgs
<1>2. Append(history, Text) \in Seq(ChatMsgs) /\ WellFormed(Append(history, Text))
  BY <1>1, AppendKeeps, AppendProperties
<1>3. WellFormed(Awaiting(history', 0, 0))
  BY <1>1, <1>2, AwaitingNone, SaveAwaited
<1>4. history' \in Seq(ChatMsgs)
  BY <1>1, SaveAppends
<1>5. QED
  BY <1>3, <1>4, AwaitingNone

\* A request moves on after one of its calls, whose result was saved or was not.
LEMMA CallDone ==
    ASSUME ChatInv, NEW s \in Talkers, sender[s].at = "tools", NEW after \in Senders,
           sender' = [sender EXCEPT ![s] = after],
           UNCHANGED <<groups, mode, wakes, sends>>,
           \/ SaveMessage(s, ResultOf(sender[s].of)) \/ SaveFails
           \/ disturbed' = TRUE /\ UNCHANGED <<history, chatFaults>>,
           after.at = "idle"
             \/ (/\ after.at \in {"ask", "tools"} /\ after.round < MaxRounds /\ after.sound = sender[s].sound
                 /\ after.at = "tools" => /\ after.of = sender[s].of /\ after.left > 0
                                          /\ after.left = sender[s].left - 1),
           after.at # "tools" => sender[s].left = 1
    PROVE  ChatInv'
<1>1. /\ history \in Seq(ChatMsgs) /\ Len(history) <= Limit /\ sender \in [Talkers -> Senders]
      /\ groups \in Nat /\ mode \in {"building", "monitoring"}
      /\ wakes \in BOOLEAN /\ disturbed \in BOOLEAN
      /\ sends \in 0 .. MaxSends /\ chatFaults \in 0 .. MaxChatFaults
  BY DEF ChatInv, ChatTyped
<1> DEFINE g == sender[s].of
           k == sender[s].left
<1>2. g \in Nat /\ k \in Nat \ {0} /\ ResultOf(g) \in ChatMsgs /\ ChatTyped
  BY <1>1, ChatAssumption DEF Senders, ResultOf, ChatMsgs, ChatInv, RoundsLeft
<1>3. /\ history' \in Seq(ChatMsgs) /\ Len(history') <= Limit /\ chatFaults' \in 0 .. MaxChatFaults
      /\ disturbed' \in BOOLEAN /\ (~disturbed' => ~disturbed /\ Others(s) = {} /\ SaveMessage(s, ResultOf(g)))
  <2>1. CASE SaveMessage(s, ResultOf(g)) \/ SaveFails
    BY <1>2, <2>1, SaveTyped
  <2>2. CASE disturbed' = TRUE /\ UNCHANGED <<history, chatFaults>>
    BY <1>1, <2>2
  <2>3. QED
    BY <2>1, <2>2
<1>4. sender' \in [Talkers -> Senders] /\ sender'[s] = after /\ \A r \in Talkers \ {s} : sender'[r] = sender[r]
  BY <1>1
<1>5. ASSUME ~disturbed' PROVE WellFormed(Awaiting(history', g, k - 1))
  <2>1. WellFormed(Awaiting(history, g, k))
    BY <1>3, <1>5 DEF ChatInv, HistoryAwaits
  <2>2. WellFormed(Awaiting(Append(history, ResultOf(g)), g, k - 1))
    BY <1>1, <1>2, <2>1, AwaitedArrives
  <2>3. k - 1 \in Nat
    BY <1>2
  <2>4. QED
    BY <1>2, <1>3, <1>5, <2>2, <2>3, SaveAwaited
<1>6. ~disturbed' /\ sender'[s].at # "tools" => WellFormed(history')
  BY <1>2, <1>3, <1>4, <1>5, AwaitingNone
<1>7. ~disturbed' => sender[s].sound
  BY <1>3, Zenon DEF ChatInv, HistoryWellFormed
<1>8. sender'[s].at \in {"ask", "tools"} => sender'[s].sound \/ disturbed'
  BY <1>4, <1>7
<1>9. ChatTyped'
  BY <1>1, <1>3, <1>4 DEF ChatTyped
<1>10. disturbed' => HistoryWellFormed' /\ OneAtATime' /\ HistoryAwaits'
  BY DEF HistoryWellFormed, OneAtATime, HistoryAwaits
<1>11. RoundsLeft' /\ OneAtATime' /\ HistoryAwaits' /\ (~disturbed' => HistoryWellFormed')
  <2>1. sender'[s].at = "tools" => WellFormed(Awaiting(history', g, k - 1)) \/ disturbed'
    BY <1>5
  <2> HIDE DEF g, k
  <2>2. ~disturbed' /\ sender'[s].at = "tools" => WellFormed(Awaiting(history', sender'[s].of, sender'[s].left))
    BY <1>4, <2>1 DEF g, k
  <2>3. sender'[s].at # "idle" => sender'[s].round < MaxRounds
    BY <1>4
  <2>4. sender'[s].at = "tools" => sender'[s].left > 0
    BY <1>4
  <2>5. QED
    BY <1>3, <1>4, <1>6, <1>8, <2>2, <2>3, <2>4, AloneKeeps
<1>12. QED
  BY <1>9, <1>10, <1>11 DEF ChatInv

\* One step of the chat.
LEMMA ChatStep == ChatInv /\ [ChatNext]_chatVars => ChatInv'
<1> SUFFICES ASSUME ChatInv, [ChatNext]_chatVars PROVE ChatInv'
  OBVIOUS
<1>1. /\ history \in Seq(ChatMsgs) /\ Len(history) <= Limit /\ sender \in [Talkers -> Senders]
      /\ groups \in Nat /\ mode \in {"building", "monitoring"}
      /\ wakes \in BOOLEAN /\ disturbed \in BOOLEAN
      /\ sends \in 0 .. MaxSends /\ chatFaults \in 0 .. MaxChatFaults
  BY DEF ChatInv, ChatTyped
<1>2. disturbed' => HistoryWellFormed' /\ OneAtATime' /\ HistoryAwaits'
  BY DEF HistoryWellFormed, OneAtATime, HistoryAwaits
<1>3. /\ Text \in ChatMsgs /\ NotSending \in Senders
      /\ \A g \in Nat : ResultOf(g) \in ChatMsgs
      /\ \A g \in Nat, n \in 1 .. MaxCallsOnce : CallsOf(g, n) \in ChatMsgs
  BY ChatAssumption DEF Text, NotSending, ResultOf, CallsOf, ChatMsgs, Senders
<1>4. \A s \in Talkers : sender[s] \in Senders /\ sender[s].of \in Nat /\ sender[s].round \in Nat /\ sender[s].left \in Nat
  BY <1>1, ChatAssumption DEF Senders
<1>5. ASSUME NEW s \in Talkers, ~disturbed, Others(s) = {}, sender[s].at # "tools" PROVE WellFormed(history)
  BY <1>5 DEF ChatInv, HistoryAwaits, Others
<1>6. ASSUME NEW s \in Talkers, Send(s) PROVE ChatInv'
  <2>1. /\ sends' \in 0 .. MaxSends /\ groups' = groups /\ mode' = mode /\ sender[s].at = "idle" /\ SaveMessage(s, Text)
        /\ sender' = [sender EXCEPT ![s] = [NotSending EXCEPT !.at = "sent"]]
    BY <1>1, <1>6, ChatAssumption DEF Send, Stays
  <2>2. wakes' \in BOOLEAN
    BY <1>6, Zenon DEF Send
  <2>3. [NotSending EXCEPT !.at = "sent"] \in Senders
    BY <1>3 DEF Senders
  <2>4. sender' \in [Talkers -> Senders] /\ sender'[s].at = "sent" /\ sender'[s].round = 0
        /\ \A r \in Talkers \ {s} : sender'[r] = sender[r]
    BY <1>1, <2>1, <2>3 DEF NotSending
  <2>5. /\ history' \in Seq(ChatMsgs) /\ Len(history') <= Limit /\ chatFaults' \in 0 .. MaxChatFaults
        /\ disturbed' \in BOOLEAN /\ (~disturbed' => ~disturbed /\ Others(s) = {})
    BY <1>3, <2>1, SaveTyped DEF ChatInv
  <2>6. ~disturbed' => WellFormed(history')
    BY <1>5, <2>1, <2>5, TextKeeps DEF ChatInv
  <2>7. ChatTyped'
    BY <1>1, <2>1, <2>2, <2>4, <2>5 DEF ChatTyped
  <2>8. RoundsLeft' /\ OneAtATime' /\ HistoryAwaits' /\ (~disturbed' => HistoryWellFormed')
    BY <2>4, <2>5, <2>6, AloneKeeps, ChatAssumption
  <2>9. QED
    BY <1>2, <2>7, <2>8 DEF ChatInv
<1>7. ASSUME NEW s \in Talkers, sender' = [sender EXCEPT ![s] = NotSending], sender[s].at # "tools",
             UNCHANGED <<history, groups, mode, wakes, sends, chatFaults, disturbed>>
      PROVE  ChatInv'
  <2>1. sender' \in [Talkers -> Senders] /\ sender'[s].at = "idle" /\ \A r \in Talkers \ {s} : sender'[r] = sender[r]
    BY <1>1, <1>3, <1>7 DEF NotSending
  <2>2. ChatTyped' /\ history' = history
    BY <1>1, <1>7, <2>1 DEF ChatTyped
  <2>3. RoundsLeft' /\ OneAtATime' /\ HistoryAwaits' /\ HistoryWellFormed'
    BY <1>7, <2>1 DEF ChatInv, RoundsLeft, OneAtATime, HistoryAwaits, HistoryWellFormed
  <2>4. QED
    BY <2>2, <2>3 DEF ChatInv
<1>8. ASSUME NEW s \in Talkers, LeavesToWorker(s) \/ AskFails(s) PROVE ChatInv'
  <2>1. /\ sender' = [sender EXCEPT ![s] = NotSending] /\ sender[s].at # "tools"
        /\ UNCHANGED <<history, groups, mode, wakes, sends, chatFaults, disturbed>>
    BY <1>8 DEF LeavesToWorker, AskFails, Stays
  <2>2. QED
    BY <1>7, <2>1
<1>9. ASSUME NEW s \in Talkers, LoadHistory(s) PROVE ChatInv'
  <2>1. /\ sender' = [sender EXCEPT ![s].at = "ask", ![s].sound = WellFormed(history)] /\ sender[s].at = "sent"
        /\ history' = history /\ disturbed' = disturbed /\ groups' = groups /\ mode' = mode
        /\ sends' = sends /\ chatFaults' = chatFaults
    BY <1>9 DEF LoadHistory, Stays
  <2>2. wakes' \in BOOLEAN
    BY <1>1, <1>9, Zenon DEF LoadHistory
  <2> DEFINE after == [sender[s] EXCEPT !.at = "ask", !.sound = WellFormed(history)]
  <2>3. WellFormed(history) \in BOOLEAN
    BY Zenon DEF WellFormed
  <2>4. after \in Senders /\ after.at = "ask" /\ after.round = sender[s].round
    BY <1>4, <2>3 DEF Senders
  <2>5. after.sound = WellFormed(history)
    BY <1>4 DEF Senders
  <2>6. sender' = [sender EXCEPT ![s] = after]
    BY <1>1, <2>1 DEF Senders
  <2> HIDE DEF after
  <2>7. sender' \in [Talkers -> Senders] /\ sender'[s] = after /\ \A r \in Talkers \ {s} : sender'[r] = sender[r]
    BY <1>1, <2>4, <2>6
  <2>8. ChatTyped'
    BY <1>1, <2>1, <2>2, <2>7 DEF ChatTyped
  <2>9. RoundsLeft'
    BY <2>1, <2>4, <2>7 DEF ChatInv, RoundsLeft
  <2>10. OneAtATime'
    BY <2>1, <2>4, <2>7 DEF ChatInv, OneAtATime
  <2>11. ~disturbed => WellFormed(history) /\ \A r \in Talkers \ {s} : sender[r].at = "idle"
    BY <1>5, <2>1 DEF ChatInv, OneAtATime, Others
  <2>12. HistoryAwaits'
    BY <2>1, <2>4, <2>7, <2>11 DEF HistoryAwaits
  <2>13. ~disturbed => after.sound
    BY <2>5, <2>11, Zenon
  <2>14. HistoryWellFormed'
    BY <2>1, <2>7, <2>11, <2>13 DEF HistoryWellFormed
  <2>15. QED
    BY <2>8, <2>9, <2>10, <2>12, <2>14 DEF ChatInv
<1>10. ASSUME NEW s \in Talkers, Replies(s) PROVE ChatInv'
  <2>1. sender[s].at = "ask" /\ sender' = [sender EXCEPT ![s] = NotSending] /\ groups' = groups /\ mode' = mode
        /\ sends' = sends
    BY <1>10 DEF Replies, Stays
  <2>2. wakes' \in BOOLEAN
    BY <1>1, <1>10, Zenon DEF Replies
  <2>3. sender' \in [Talkers -> Senders] /\ sender'[s].at = "idle" /\ \A r \in Talkers \ {s} : sender'[r] = sender[r]
    BY <1>1, <1>3, <2>1 DEF NotSending
  <2>4. CASE SaveMessage(s, Text)
    <3>1. /\ history' \in Seq(ChatMsgs) /\ Len(history') <= Limit /\ chatFaults' \in 0 .. MaxChatFaults
          /\ disturbed' \in BOOLEAN /\ (~disturbed' => ~disturbed /\ Others(s) = {})
      BY <1>3, <2>4, SaveTyped DEF ChatInv
    <3>2. ~disturbed' => WellFormed(history')
      BY <1>5, <2>1, <2>4, <3>1, TextKeeps DEF ChatInv
    <3>3. ChatTyped'
      BY <1>1, <2>1, <2>2, <2>3, <3>1 DEF ChatTyped
    <3>4. RoundsLeft' /\ OneAtATime' /\ HistoryAwaits' /\ (~disturbed' => HistoryWellFormed')
      BY <2>3, <3>1, <3>2, AloneKeeps
    <3>5. QED
      BY <1>2, <3>3, <3>4 DEF ChatInv
  <2>5. CASE ChatFails /\ UNCHANGED <<history, disturbed>>
    <3>1. chatFaults' \in 0 .. MaxChatFaults
      BY <1>1, <2>5, ChatAssumption DEF ChatFails
    <3>2. ChatTyped'
      BY <1>1, <2>1, <2>2, <2>3, <2>5, <3>1 DEF ChatTyped
    <3>3. RoundsLeft' /\ OneAtATime' /\ HistoryAwaits' /\ HistoryWellFormed'
      BY <2>1, <2>3, <2>5 DEF ChatInv, RoundsLeft, OneAtATime, HistoryAwaits, HistoryWellFormed
    <3>4. QED
      BY <3>2, <3>3 DEF ChatInv
  <2>6. QED
    BY <1>10, <2>4, <2>5 DEF Replies
<1>11. ASSUME NEW s \in Talkers, NEW n \in 1 .. MaxCallsOnce, CallsTools(s, n) PROVE ChatInv'
  <2> DEFINE g == groups + 1
             after == [sender[s] EXCEPT !.at = "tools", !.of = g, !.left = n]
  <2>1. /\ sender[s].at = "ask" /\ groups' = g /\ mode' = mode /\ sends' = sends
        /\ sender' = [sender EXCEPT ![s].at = "tools", ![s].of = g, ![s].left = n]
        /\ (SaveMessage(s, CallsOf(g, n)) \/ SaveFails)
    BY <1>11 DEF CallsTools, Stays
  <2>2. wakes' \in BOOLEAN
    BY <1>1, <1>11, Zenon DEF CallsTools
  <2>3. g \in Nat /\ n \in Nat /\ n > 0 /\ CallsOf(g, n) \in ChatMsgs
    BY <1>1, <1>3
  <2>4. /\ after \in Senders /\ after.at = "tools" /\ after.of = g /\ after.left = n
        /\ after.round = sender[s].round /\ after.sound = sender[s].sound
    <3>1. n \in 0 .. MaxCallsOnce /\ g \in Nat /\ sender[s] \in Senders
      BY <1>4, <2>3, ChatAssumption
    <3> HIDE DEF g
    <3>2. QED
      BY <3>1 DEF Senders
  <2>5. sender' = [sender EXCEPT ![s] = after]
    BY <1>1, <2>1 DEF Senders
  <2> HIDE DEF after, g
  <2>6. sender' \in [Talkers -> Senders] /\ sender'[s] = after /\ \A r \in Talkers \ {s} : sender'[r] = sender[r]
    BY <1>1, <2>4, <2>5
  <2>7. /\ history' \in Seq(ChatMsgs) /\ Len(history') <= Limit /\ chatFaults' \in 0 .. MaxChatFaults
        /\ disturbed' \in BOOLEAN /\ (~disturbed' => ~disturbed /\ Others(s) = {} /\ SaveMessage(s, CallsOf(g, n)))
    BY <2>1, <2>3, SaveTyped DEF ChatInv
  <2>8. ASSUME ~disturbed' PROVE WellFormed(Awaiting(history', g, n))
    <3>1. WellFormed(Awaiting(Append(history, CallsOf(g, n)), g, n))
      BY <1>1, <1>5, <2>1, <2>3, <2>7, <2>8, AppendKeeps
    <3>2. QED
      BY <2>3, <2>7, <2>8, <3>1, SaveAwaited DEF ChatInv
  <2>9. ~disturbed' => sender[s].sound
    BY <2>1, <2>7, Zenon DEF ChatInv, HistoryWellFormed
  <2>10. ChatTyped'
    BY <1>1, <2>1, <2>2, <2>3, <2>6, <2>7 DEF ChatTyped
  <2>11. sender'[s].round < MaxRounds
    BY <2>1, <2>4, <2>6 DEF ChatInv, RoundsLeft
  <2>12. sender'[s].at \in {"ask", "tools"} => sender'[s].sound \/ disturbed'
    BY <2>4, <2>6, <2>9, Zenon
  <2>13. RoundsLeft' /\ OneAtATime' /\ HistoryAwaits' /\ (~disturbed' => HistoryWellFormed')
    BY <2>3, <2>4, <2>6, <2>7, <2>8, <2>11, <2>12, AloneKeeps
  <2>14. QED
    BY <1>2, <2>10, <2>13 DEF ChatInv
<1>12. ASSUME NEW s \in Talkers, sender[s].at = "tools", NextCall(s),
              UNCHANGED <<groups, mode, wakes, sends>>,
              \/ SaveMessage(s, ResultOf(sender[s].of)) \/ SaveFails
              \/ disturbed' = TRUE /\ UNCHANGED <<history, chatFaults>>
       PROVE  ChatInv'
  <2> DEFINE g == sender[s].of
             k == sender[s].left
             last == k = 1
             more == [sender[s] EXCEPT !.left = k - 1, !.at = IF last THEN "ask" ELSE "tools",
                                       !.round = IF last THEN sender[s].round + 1 ELSE sender[s].round]
             after == IF last /\ sender[s].round + 1 = MaxRounds THEN NotSending ELSE more
  <2>1. k \in Nat \ {0} /\ k <= MaxCallsOnce /\ g \in Nat /\ sender[s].round < MaxRounds /\ ResultOf(g) \in ChatMsgs
    BY <1>3, <1>4, <1>12 DEF ChatInv, RoundsLeft, Senders
  <2>2. sender' = [sender EXCEPT ![s] = after]
    BY <1>1, <1>12 DEF NextCall
  <2>3. more.left = k - 1 /\ more.of = g /\ more.sound = sender[s].sound
        /\ (last => more.at = "ask" /\ more.round = sender[s].round + 1)
        /\ (~last => more.at = "tools" /\ more.round = sender[s].round)
    BY <1>4 DEF Senders
  <2>4. CASE last /\ sender[s].round + 1 = MaxRounds
    <3>1. after = NotSending
      BY <2>4
    <3>2. after \in Senders /\ after.at = "idle"
      BY <1>3, <3>1 DEF NotSending
    <3>3. QED
      BY <1>12, <2>1, <2>2, <2>4, <3>2, CallDone
  <2>5. CASE last /\ sender[s].round + 1 # MaxRounds
    <3>1. after = more
      BY <2>5
    <3>2. after = [sender[s] EXCEPT !.left = 0, !.at = "ask", !.round = sender[s].round + 1]
      BY <2>1, <2>5, <3>1
    <3>3. sender[s].round + 1 \in 0 .. MaxRounds /\ 0 \in 0 .. MaxCallsOnce
      BY <1>4, <2>1, ChatAssumption
    <3> HIDE DEF after
    <3>4. after \in Senders
      <4>1. sender[s] \in Senders
        BY <1>4
      <4>2. QED
        BY <3>2, <3>3, <4>1 DEF Senders
    <3>5. after.at = "ask" /\ after.sound = sender[s].sound /\ after.round < MaxRounds
      BY <1>4, <2>1, <2>3, <2>5, <3>1, ChatAssumption DEF after
    <3>6. QED
      BY <1>12, <2>1, <2>2, <2>5, <3>4, <3>5, CallDone
  <2>6. CASE ~last
    <3>1. after = more
      BY <2>6
    <3>2. after = [sender[s] EXCEPT !.left = k - 1, !.at = "tools", !.round = sender[s].round]
      BY <2>6, <3>1
    <3>3. k - 1 \in 0 .. MaxCallsOnce /\ sender[s].round \in 0 .. MaxRounds
      BY <1>4, <2>1, ChatAssumption DEF Senders
    <3>4. after \in Senders
      BY <1>4, <3>2, <3>3 DEF Senders
    <3>5. /\ after.at = "tools" /\ after.sound = sender[s].sound /\ after.round < MaxRounds
          /\ after.of = g /\ after.left = k - 1 /\ after.left > 0
      BY <1>4, <2>1, <2>3, <2>6, <3>1, ChatAssumption
    <3>6. QED
      BY <1>12, <2>1, <2>2, <2>6, <3>4, <3>5, CallDone
  <2>7. QED
    BY <2>4, <2>5, <2>6
<1>13. ASSUME NEW s \in Talkers, RunsTool(s) \/ RefusesTool(s) PROVE ChatInv'
  <2>1. sender[s].at = "tools" /\ NextCall(s) /\ UNCHANGED <<groups, mode, wakes, sends>>
    BY <1>13, Zenon DEF RunsTool, RefusesTool, Stays
  <2>2. \/ SaveMessage(s, ResultOf(sender[s].of)) \/ SaveFails
        \/ disturbed' = TRUE /\ UNCHANGED <<history, chatFaults>>
    BY <1>13, Zenon DEF RunsTool, RefusesTool
  <2>3. QED
    BY <1>12, <2>1, <2>2, Zenon
<1>14. CASE ChatCrashes
  <2>1. chatFaults' \in 0 .. MaxChatFaults /\ sender' = [s \in Talkers |-> NotSending]
        /\ history' = history /\ groups' = groups /\ mode' = mode /\ sends' = sends
    BY <1>1, <1>14, ChatAssumption DEF ChatCrashes, ChatFails
  <2>2. wakes' \in BOOLEAN
    BY <1>1, <1>14, Zenon DEF ChatCrashes
  <2>3. disturbed' \in BOOLEAN
    BY <1>14, Zenon DEF ChatCrashes
  <2>4. ~disturbed' => ~disturbed /\ \A s \in Talkers : sender[s].at # "tools"
    BY <1>14, Zenon DEF ChatCrashes
  <2>5. sender' \in [Talkers -> Senders] /\ \A s \in Talkers : sender'[s].at = "idle"
    BY <1>3, <2>1 DEF NotSending
  <2>6. ChatTyped'
    BY <1>1, <2>1, <2>2, <2>3, <2>5 DEF ChatTyped
  <2>7. RoundsLeft' /\ OneAtATime' /\ HistoryWellFormed' /\ HistoryAwaits'
    BY <2>1, <2>4, <2>5 DEF ChatInv, RoundsLeft, OneAtATime, HistoryWellFormed, HistoryAwaits
  <2>8. QED
    BY <2>6, <2>7 DEF ChatInv
<1>15. ASSUME UNCHANGED <<history, sender, groups, sends, chatFaults, disturbed>>,
              mode' \in {"building", "monitoring"}, wakes' \in BOOLEAN
       PROVE  ChatInv'
  BY <1>1, <1>15 DEF ChatInv, ChatTyped, RoundsLeft, OneAtATime, HistoryWellFormed, HistoryAwaits
<1>16. CASE ModeChanges
  BY <1>1, <1>15, <1>16, Zenon DEF ModeChanges
<1>17. CASE WorkerAnswers
  BY <1>1, <1>15, <1>17, Zenon DEF WorkerAnswers
<1>18. CASE UNCHANGED chatVars
  BY <1>1, <1>15, <1>18, Zenon DEF chatVars
<1>19. QED
  BY <1>6, <1>8, <1>9, <1>10, <1>11, <1>13, <1>14, <1>16, <1>17, <1>18 DEF ChatNext

\* The conversation starts empty.
LEMMA ChatStart == ChatInit => ChatInv
<1> SUFFICES ASSUME ChatInit PROVE ChatInv
  OBVIOUS
<1>1. NotSending \in Senders /\ NotSending.at = "idle"
  BY ChatAssumption DEF NotSending, Senders
<1>2. history = <<>> /\ history \in Seq(ChatMsgs) /\ Len(history) = 0 /\ \A s \in Talkers : sender[s].at = "idle"
  BY <1>1 DEF ChatInit
<1>3. ChatTyped
  <2>1. wakes \in BOOLEAN /\ disturbed \in BOOLEAN
    BY Zenon DEF ChatInit
  <2>2. sender \in [Talkers -> Senders]
    BY <1>1 DEF ChatInit
  <2>3. sends \in 0 .. MaxSends /\ chatFaults \in 0 .. MaxChatFaults /\ groups \in Nat /\ Len(history) <= Limit
    BY <1>2, ChatAssumption DEF ChatInit
  <2>4. mode \in {"building", "monitoring"}
    BY DEF ChatInit
  <2>5. QED
    BY <1>2, <2>1, <2>2, <2>3, <2>4 DEF ChatTyped
<1>4. WellFormed(history)
  BY <1>2 DEF WellFormed
<1>5. QED
  BY <1>2, <1>3, <1>4 DEF ChatInv, RoundsLeft, OneAtATime, HistoryWellFormed, HistoryAwaits

\* What the invariant says of what a request loads.
LEMMA ChatShows == ChatInv => ChatTypeOK /\ HistoryWellFormed
<1> SUFFICES ASSUME ChatInv PROVE ChatTypeOK /\ HistoryWellFormed
  OBVIOUS
<1>1. \A i \in DOMAIN history : history[i] \in ChatMsgs
  BY ElementOfSeq, LenProperties DEF ChatInv, ChatTyped
<1>2. QED
  BY <1>1 DEF ChatInv, ChatTyped, ChatTypeOK, ChatMsgs, Senders

-----------------------------------------------------------------------------
(* The bot                                                                  *)

Posts == [chat : Chats \cup {NoSite}, kind : UpdateKinds \cup {"forgotten"}, site : Projects \cup {NoSite}]
PollerStates == [at : Polls, offset : Nat, batch : Seq(Nat), site : Projects \cup {NoSite}, stop : BOOLEAN]
Users == [on : Projects \cup {NoSite}, muted : BOOLEAN, awaits : BOOLEAN]
Sessions == [on : Projects \cup {NoSite}, muted : BOOLEAN]

\* Fetched updates follow each other, have been sent and are still with Telegram.
Fetched(b) == \A i \in 1 .. Len(b) :
    b[i] = b[1] + (i - 1) /\ b[i] \in Sent /\ update[b[i]].kind # "forgotten"

Holding(b) ==
    /\ b.at \in {"batch", "database", "publish"} <=> b.batch # <<>>
    /\ b.offset \in 1 .. Len(update) + 1 /\ Fetched(b.batch)
    /\ b.at \in {"database", "publish"} => b.offset = b.batch[1] + 1 /\ b.site \in Projects

\* What is before the place of a poller has been handled.
Passed(b) ==
    /\ \A u \in Updates : u < b.offset => handled[u] > 0
    /\ b.batch # <<>> => \A u \in Updates : u < b.batch[1] => handled[u] > 0

\* What is at its place or behind it has not, unless something went wrong.
Ahead(b, u) ==
    /\ b.at = "batch" => u >= b.batch[1]
    /\ b.at \in {"database", "publish"} => u > b.batch[1]
    /\ b.at \in {"born", "poll"} => u >= b.offset /\ u > confirmed

\* A registered provider polls and was not told to stop, and there is one at most.
Registered ==
    /\ provider = {} \/ \E p \in Pollers : provider = {p}
    /\ \A p \in provider : poller[p].at # "off" /\ poller[p].stop = FALSE
    /\ up = FALSE => provider = {} /\ \A p \in Pollers : poller[p].at = "off" /\ reload[p] = "none"

Posted == \A u \in 1 .. Len(update) :
    /\ update[u].kind # "forgotten" => update[u].chat \in Chats
    /\ update[u].kind = "forgotten" => u <= confirmed

CloudTyped ==
    /\ up \in BOOLEAN /\ upset \in BOOLEAN /\ poller \in [Pollers -> PollerStates]
    /\ reload \in [Pollers -> {"none", "read", "stop", "start"}]
    /\ update \in Seq(Posts) /\ Len(update) <= MaxUpdates /\ confirmed \in 0 .. Len(update)
    /\ handled \in [Updates -> 0 .. 2]

Undisturbed == upset = FALSE =>
    /\ \A p, q \in Pollers : poller[p].at # "off" /\ poller[q].at # "off" => p = q
    /\ \A p \in Pollers : poller[p].stop = FALSE /\ (poller[p].at = "off" => poller[p].offset = 1)
    /\ \A u \in Updates : handled[u] <= 1
    /\ (\A p \in Pollers : poller[p].at = "off") => \A u \in Updates : u > confirmed => handled[u] = 0
    /\ \A p \in Pollers, u \in Updates : poller[p].at # "off" /\ Ahead(poller[p], u) => handled[u] = 0

CloudInv ==
    /\ CloudTyped /\ Registered /\ Posted /\ Undisturbed
    /\ \A p \in Pollers : Holding(poller[p]) /\ Passed(poller[p])
    /\ \A u \in Updates : u <= confirmed => handled[u] > 0

\* What the handlers of updates and of the site's events work on.
DeskTyped ==
    /\ token \in BOOLEAN /\ listening \in BOOLEAN
    /\ user \in [Chats -> Users] /\ session \in [Chats -> Sessions]
    /\ project \in [Projects -> [row : BOOLEAN, db : BOOLEAN]]
    /\ works \subseteq Projects /\ telling \in BOOLEAN
    /\ botFaults \in 0 .. MaxBotFaults

BotInv == CloudInv /\ DeskTyped

cloudy == <<up, upset, provider, poller, reload, update, confirmed, handled>>
desk == <<token, listening, user, session, project, works, telling, botFaults>>

\* What the invariant says of one poll.
LEMMA PollerTyped ==
    ASSUME CloudInv, NEW p \in Pollers
    PROVE  LET b == poller[p] IN
           /\ b \in PollerStates /\ b.at \in Polls /\ b.offset \in Nat /\ b.batch \in Seq(Nat)
           /\ b.stop \in BOOLEAN /\ b.site \in Projects \cup {NoSite} /\ Len(b.batch) \in Nat
           /\ Holding(b) /\ Passed(b)
<1>1. poller[p] \in PollerStates /\ Holding(poller[p]) /\ Passed(poller[p])
  BY DEF CloudInv, CloudTyped
<1>2. poller[p].batch \in Seq(Nat)
  BY <1>1 DEF PollerStates
<1>3. Len(poller[p].batch) \in Nat
  BY <1>2, LenProperties
<1>4. QED
  BY <1>1, <1>2, <1>3 DEF PollerStates

\* The update a poller handles is one that Telegram still has.
LEMMA DoingIsSent ==
    ASSUME CloudInv, NEW p \in Pollers, poller[p].batch # <<>>
    PROVE  /\ Doing(p) = poller[p].batch[1] /\ Doing(p) \in Updates /\ Doing(p) \in 1 .. Len(update)
           /\ Asked(p) \in Posts /\ Asked(p).kind # "forgotten" /\ Asked(p).chat \in Chats
<1>1. poller[p].batch \in Seq(Nat) /\ Holding(poller[p])
  BY PollerTyped
<1>2. Len(poller[p].batch) \in Nat \ {0} /\ Doing(p) = poller[p].batch[1]
  <2>1. Len(poller[p].batch) \in Nat \ {0}
    BY <1>1, EmptySeq, LenProperties, Zenon
  <2>2. QED
    BY <1>1, <2>1 DEF Doing
<1>3. update \in Seq(Posts) /\ Len(update) \in Nat /\ DOMAIN update = 1 .. Len(update) /\ Len(update) <= MaxUpdates
  BY LenProperties DEF CloudInv, CloudTyped
<1>4. Doing(p) \in 1 .. Len(update) /\ update[Doing(p)].kind # "forgotten"
  BY <1>1, <1>2, <1>3 DEF Holding, Fetched, Sent
<1>5. Asked(p) \in Posts
  BY <1>3, <1>4, ElementOfSeq DEF Asked
<1>6. Doing(p) \in Updates
  BY <1>3, <1>4, TelegramAssumption DEF Updates
<1>7. QED
  BY <1>2, <1>4, <1>5, <1>6 DEF Asked, CloudInv, Posted

\* The rest of a batch, once the offset is behind its first update.
LEMMA RestHolds ==
    ASSUME CloudInv, NEW b \in PollerStates, b.batch # <<>>, Fetched(b.batch), b.offset = b.batch[1] + 1
    PROVE  LET c == Rest(b) IN
           /\ c \in PollerStates /\ Holding(c) /\ c.offset = b.offset /\ c.stop = b.stop
           /\ \/ c.at = "batch" /\ c.batch # <<>> /\ c.batch[1] = b.offset
              \/ c.at = "poll" /\ c.batch = <<>>
              \/ c.at = "off" /\ c.batch = <<>> /\ b.stop = TRUE
<1> DEFINE c == Rest(b)
           t == Tail(b.batch)
<1>1. b.batch \in Seq(Nat) /\ b.stop \in BOOLEAN /\ b.offset \in Nat
  BY DEF PollerStates
<1>2. Len(b.batch) \in Nat \ {0}
  BY <1>1, EmptySeq, LenProperties, Zenon
<1>3. t \in Seq(Nat) /\ Len(t) = Len(b.batch) - 1 /\ \A i \in 1 .. Len(t) : t[i] = b.batch[i + 1]
  BY <1>1, HeadTailProperties
<1>4. b.batch[1] \in 1 .. Len(update) /\ Len(update) \in Nat
  <2>1. DOMAIN update = 1 .. Len(update) /\ Len(update) \in Nat
    BY LenProperties DEF CloudInv, CloudTyped
  <2>2. QED
    BY <1>2, <2>1 DEF Fetched, Sent
<1> HIDE DEF t
<1>5. Fetched(t)
  <2>1. ASSUME NEW i \in 1 .. Len(t)
        PROVE  t[i] = t[1] + (i - 1) /\ t[i] \in Sent /\ update[t[i]].kind # "forgotten"
    <3>1. t[i] = b.batch[i + 1] /\ t[1] = b.batch[2] /\ i + 1 \in 1 .. Len(b.batch) /\ 2 \in 1 .. Len(b.batch)
      BY <1>2, <1>3
    <3>2. b.batch[i + 1] = b.batch[1] + i /\ b.batch[2] = b.batch[1] + 1 /\ b.batch[i + 1] \in Sent
          /\ update[b.batch[i + 1]].kind # "forgotten"
      BY <3>1 DEF Fetched
    <3>3. QED
      BY <1>4, <3>1, <3>2
  <2>2. QED
    BY <2>1 DEF Fetched
<1>6. t # <<>> => t[1] = b.offset
  <2>1. t # <<>> => Len(t) \in Nat \ {0}
    BY <1>2, <1>3, EmptySeq, LenProperties, Zenon
  <2>2. t # <<>> => t[1] = b.batch[2] /\ 2 \in 1 .. Len(b.batch)
    BY <1>2, <1>3, <2>1
  <2>3. QED
    BY <1>4, <2>2 DEF Fetched
<1>7. c = [b EXCEPT !.batch = t, !.site = NoSite, !.at = IF t # <<>> THEN "batch" ELSE IF b.stop THEN "off" ELSE "poll"]
  BY DEF Rest, t
<1>8. /\ c.batch = t /\ c.offset = b.offset /\ c.stop = b.stop /\ c.site = NoSite
      /\ c.at = IF t # <<>> THEN "batch" ELSE IF b.stop THEN "off" ELSE "poll"
  BY <1>7 DEF PollerStates
<1>9. c \in PollerStates
  BY <1>3, <1>7 DEF PollerStates, Polls
<1> HIDE DEF c
<1>10. Holding(c)
  BY <1>4, <1>5, <1>8 DEF Holding
<1>11. \/ c.at = "batch" /\ c.batch # <<>> /\ c.batch[1] = b.offset
       \/ c.at = "poll" /\ c.batch = <<>>
       \/ c.at = "off" /\ c.batch = <<>> /\ b.stop = TRUE
  BY <1>1, <1>6, <1>8
<1>12. QED
  BY <1>8, <1>9, <1>10, <1>11 DEF c

\* A poller goes on, with what it handled counted: Telegram has not moved.
LEMMA PollerGoesOn ==
    ASSUME CloudInv, NEW p \in Pollers, NEW c \in PollerStates, poller' = [poller EXCEPT ![p] = c],
           UNCHANGED <<up, upset, provider, reload, update, confirmed>>,
           handled' \in [Updates -> 0 .. 2], \A u \in Updates : handled'[u] >= handled[u],
           poller[p].at # "off", c.stop = poller[p].stop, c.at = "off" => c.stop = TRUE, Holding(c),
           \A u \in Updates : u < c.offset \/ (c.batch # <<>> /\ u < c.batch[1]) => handled'[u] > 0,
           upset = FALSE => \A u \in Updates : handled'[u] <= 1 /\ (Ahead(c, u) => handled'[u] = 0)
    PROVE  CloudInv'
<1>1. poller \in [Pollers -> PollerStates] /\ poller' \in [Pollers -> PollerStates] /\ poller'[p] = c
      /\ \A q \in Pollers \ {p} : poller'[q] = poller[q]
  BY DEF CloudInv, CloudTyped
<1>2. CloudTyped'
  BY <1>1 DEF CloudInv, CloudTyped
<1>3. Registered'
  BY <1>1 DEF CloudInv, Registered
<1>4. Posted'
  BY DEF CloudInv, Posted
<1>5. Undisturbed'
  BY <1>1 DEF CloudInv, Undisturbed, Ahead
<1>6. \A q \in Pollers : Holding(poller[q])'
  BY <1>1 DEF CloudInv, Holding, Fetched, Sent
<1>7. \A u \in Updates : handled[u] \in 0 .. 2 /\ handled'[u] \in 0 .. 2
  BY DEF CloudInv, CloudTyped
<1>8. ASSUME NEW q \in Pollers PROVE Passed(poller[q])'
  <2>1. CASE q = p
    BY <1>1, <2>1 DEF Passed
  <2>2. CASE q # p
    BY <1>1, <1>7, <2>2 DEF CloudInv, Passed
  <2>3. QED
    BY <2>1, <2>2
<1>9. \A u \in Updates : u <= confirmed' => handled'[u] > 0
  BY <1>7 DEF CloudInv
<1>10. QED
  BY <1>2, <1>3, <1>4, <1>5, <1>6, <1>8, <1>9 DEF CloudInv

\* The offset goes behind an update whose handler runs.
LEMMA TakenCounts ==
    ASSUME CloudInv, NEW p \in Pollers, Takes(p)
    PROVE  /\ handled' \in [Updates -> 0 .. 2] /\ \A u \in Updates : handled'[u] >= handled[u]
           /\ UNCHANGED <<up, upset, provider, reload, update, confirmed>>
           /\ poller[p].at = "batch" /\ poller[p].batch # <<>> /\ Doing(p) = poller[p].batch[1]
           /\ Moved(p) \in PollerStates /\ Moved(p).offset = Doing(p) + 1 /\ Moved(p).batch = poller[p].batch
           /\ Moved(p).stop = poller[p].stop /\ Doing(p) + 1 \in 1 .. Len(update) + 1
           /\ \A u \in Updates : u < Doing(p) + 1 => handled'[u] > 0
           /\ upset = FALSE => /\ \A u \in Updates : handled'[u] <= 1
                               /\ \A u \in Updates : u > Doing(p) => handled'[u] = 0
<1>1. poller[p].at = "batch" /\ handled' = [handled EXCEPT ![Doing(p)] = IF @ = 2 THEN 2 ELSE @ + 1]
      /\ UNCHANGED <<up, upset, provider, reload, update, confirmed>>
  BY DEF Takes
<1>2. poller[p] \in PollerStates /\ poller[p].batch # <<>> /\ Passed(poller[p])
  BY <1>1, PollerTyped DEF Holding
<1>3. Doing(p) = poller[p].batch[1] /\ Doing(p) \in Updates /\ Doing(p) \in 1 .. Len(update) /\ Len(update) \in Nat
  BY <1>2, DoingIsSent, LenProperties DEF CloudInv, CloudTyped
<1>4. handled \in [Updates -> 0 .. 2] /\ \A u \in Updates : u \in Nat
  BY TelegramAssumption DEF CloudInv, CloudTyped, Updates
<1> DEFINE d == Doing(p)
<1> HIDE DEF d
<1>5. handled' = [handled EXCEPT ![d] = IF handled[d] = 2 THEN 2 ELSE handled[d] + 1] /\ d \in Updates
  BY <1>1, <1>3 DEF d
<1>6. handled' \in [Updates -> 0 .. 2] /\ handled'[d] > 0 /\ \A u \in Updates : handled'[u] >= handled[u]
  BY <1>4, <1>5
<1>7. Moved(p) = [poller[p] EXCEPT !.offset = d + 1] /\ d \in Nat
  BY <1>3, <1>4 DEF Moved, d
<1>8. Moved(p) \in PollerStates /\ Moved(p).offset = d + 1 /\ Moved(p).batch = poller[p].batch
      /\ Moved(p).stop = poller[p].stop
  BY <1>2, <1>7 DEF PollerStates
<1>9. \A u \in Updates : u < d + 1 => handled'[u] > 0
  BY <1>2, <1>3, <1>4, <1>6, <1>7 DEF Passed, d
<1>10. ASSUME upset = FALSE PROVE \A u \in Updates : handled'[u] <= 1 /\ (u > d => handled'[u] = 0)
  <2>1. \A u \in Updates : handled[u] <= 1 /\ (u >= d => handled[u] = 0)
    BY <1>1, <1>3, <1>10 DEF CloudInv, Undisturbed, Ahead, d
  <2>2. QED
    BY <1>4, <1>5, <1>7, <2>1
<1>11. d + 1 \in 1 .. Len(update) + 1
  BY <1>3 DEF d
<1>12. QED
  BY <1>1, <1>2, <1>3, <1>6, <1>8, <1>9, <1>10, <1>11 DEF d

\* A poll ends.
LEMMA FinishesKeeps == ASSUME CloudInv, NEW p \in Pollers, Finishes(p) PROVE CloudInv'
<1>1. Takes(p) /\ poller' = [poller EXCEPT ![p] = Rest(Moved(p))]
  BY DEF Finishes
<1> DEFINE b == Moved(p)
           c == Rest(b)
<1>2. /\ handled' \in [Updates -> 0 .. 2] /\ \A u \in Updates : handled'[u] >= handled[u]
      /\ UNCHANGED <<up, upset, provider, reload, update, confirmed>>
      /\ poller[p].at = "batch" /\ poller[p].batch # <<>> /\ Doing(p) = poller[p].batch[1]
  BY <1>1, TakenCounts
<1>3. b \in PollerStates /\ b.offset = Doing(p) + 1 /\ b.batch = poller[p].batch /\ b.stop = poller[p].stop
  BY <1>1, TakenCounts
<1>4. /\ \A u \in Updates : u < Doing(p) + 1 => handled'[u] > 0
      /\ upset = FALSE => \A u \in Updates : handled'[u] <= 1 /\ (u > Doing(p) => handled'[u] = 0)
  BY <1>1, TakenCounts
<1> HIDE DEF b
<1>5. Fetched(b.batch)
  BY <1>3, PollerTyped DEF Holding
<1>6. /\ c \in PollerStates /\ Holding(c) /\ c.offset = b.offset /\ c.stop = b.stop
      /\ \/ c.at = "batch" /\ c.batch # <<>> /\ c.batch[1] = b.offset
         \/ c.at = "poll" /\ c.batch = <<>>
         \/ c.at = "off" /\ c.batch = <<>> /\ b.stop = TRUE
  BY <1>2, <1>3, <1>5, RestHolds
<1>7. poller' = [poller EXCEPT ![p] = c]
  BY <1>1 DEF b
<1> HIDE DEF c
<1>8. Doing(p) \in Nat /\ \A u \in Updates : u \in Nat
  BY <1>2, DoingIsSent, TelegramAssumption DEF Updates
<1>9. \A u \in Updates : u < c.offset \/ (c.batch # <<>> /\ u < c.batch[1]) => handled'[u] > 0
  BY <1>3, <1>4, <1>6
<1>10. upset = FALSE => poller[p].stop = FALSE
  BY DEF CloudInv, Undisturbed
<1>11. upset = FALSE => \A u \in Updates : handled'[u] <= 1 /\ (Ahead(c, u) => handled'[u] = 0)
  BY <1>3, <1>4, <1>6, <1>8, <1>10 DEF Ahead
<1>12. poller[p].at # "off" /\ c.stop = poller[p].stop /\ (c.at = "off" => c.stop = TRUE)
  BY <1>2, <1>3, <1>6
<1>13. QED
  BY <1>2, <1>6, <1>7, <1>9, <1>11, <1>12, PollerGoesOn

\* A poll that is off, or has just been made.
LEMMA OffIsState ==
    /\ Off \in PollerStates /\ Off.at = "off" /\ Off.offset = 1 /\ Off.batch = <<>> /\ Off.stop = FALSE
    /\ [Off EXCEPT !.at = "born"] \in PollerStates /\ [Off EXCEPT !.at = "born"].at = "born"
    /\ [Off EXCEPT !.at = "born"].offset = 1 /\ [Off EXCEPT !.at = "born"].batch = <<>>
    /\ [Off EXCEPT !.at = "born"].stop = FALSE
<1>1. <<>> \in Seq(Nat)
  BY EmptySeq
<1>2. QED
  BY <1>1 DEF Off, PollerStates, Polls

\* A poller with nothing fetched and at the start holds nothing wrong.
LEMMA FreshHolds ==
    ASSUME CloudInv, NEW b, b.offset = 1, b.batch = <<>>, b.at \in {"off", "born", "poll"}
    PROVE  Holding(b) /\ Passed(b)
<1>1. Len(update) \in Nat /\ Len(b.batch) = 0
  BY EmptySeq, LenProperties DEF CloudInv, CloudTyped
<1>2. \A u \in Updates : ~(u < 1)
  BY TelegramAssumption DEF Updates
<1>3. QED
  BY <1>1, <1>2 DEF Holding, Passed, Fetched

\* Pollers begin or stop, and Telegram has not moved.
LEMMA PollersChange ==
    ASSUME CloudInv, UNCHANGED <<update, confirmed, handled>>, up' \in BOOLEAN, upset' \in BOOLEAN,
           poller' \in [Pollers -> PollerStates], reload' \in [Pollers -> {"none", "read", "stop", "start"}],
           Registered', Undisturbed', \A p \in Pollers : Holding(poller'[p]) /\ Passed(poller'[p])
    PROVE  CloudInv'
<1>1. CloudTyped' /\ Posted'
  BY DEF CloudInv, CloudTyped, Posted
<1>2. \A p \in Pollers : Holding(poller[p])' /\ Passed(poller[p])'
  BY DEF Holding, Passed, Fetched, Sent
<1>3. QED
  BY <1>1, <1>2 DEF CloudInv

\* The bot starts.
LEMMA BotStartsKeeps == CloudInv /\ BotStarts => CloudInv'
<1> SUFFICES ASSUME CloudInv, BotStarts PROVE CloudInv'
  OBVIOUS
<1>1. up = FALSE /\ up' = TRUE /\ UNCHANGED <<upset, reload, update, confirmed, handled>>
  BY DEF BotStarts, CloudInv, CloudTyped, cloudVars
<1>2. \A p \in Pollers : poller[p].at = "off" /\ poller[p] \in PollerStates /\ Holding(poller[p]) /\ Passed(poller[p])
  BY <1>1 DEF CloudInv, Registered, CloudTyped
<1>3. CASE token
  <2>1. PICK p \in Pollers : provider' = {p} /\ poller' = [poller EXCEPT ![p] = [Off EXCEPT !.at = "born"]]
    BY <1>3 DEF BotStarts
  <2> DEFINE b == [Off EXCEPT !.at = "born"]
  <2>2. b \in PollerStates /\ b.at = "born" /\ b.offset = 1 /\ b.batch = <<>> /\ b.stop = FALSE
    BY OffIsState
  <2> HIDE DEF b
  <2>3. poller' \in [Pollers -> PollerStates] /\ poller'[p] = b /\ \A q \in Pollers \ {p} : poller'[q] = poller[q]
    BY <2>1, <2>2 DEF CloudInv, CloudTyped, b
  <2>4. Registered'
    BY <1>1, <2>1, <2>2, <2>3 DEF Registered
  <2>5. Undisturbed'
    BY <1>1, <1>2, <2>2, <2>3 DEF CloudInv, Undisturbed, Ahead
  <2>6. \A q \in Pollers : Holding(poller'[q]) /\ Passed(poller'[q])
    BY <1>2, <2>2, <2>3, FreshHolds
  <2>7. QED
    BY <1>1, <2>3, <2>4, <2>5, <2>6, PollersChange DEF CloudInv, CloudTyped
<1>4. CASE ~token
  <2>1. UNCHANGED <<provider, poller>>
    BY <1>4 DEF BotStarts
  <2>2. Registered' /\ Undisturbed'
    BY <1>1, <2>1 DEF CloudInv, Registered, Undisturbed, Ahead
  <2>3. QED
    BY <1>1, <1>2, <2>1, <2>2, PollersChange DEF CloudInv, CloudTyped
<1>5. QED
  BY <1>3, <1>4

\* The process dies.
LEMMA BotCrashesKeeps == CloudInv /\ BotCrashes => CloudInv'
<1> SUFFICES ASSUME CloudInv, BotCrashes PROVE CloudInv'
  OBVIOUS
<1>1. /\ up' = FALSE /\ upset' = TRUE /\ provider' = {} /\ UNCHANGED <<update, confirmed, handled>>
      /\ poller' = [p \in Pollers |-> Off] /\ reload' = [p \in Pollers |-> "none"]
  BY DEF BotCrashes, cloudVars
<1>2. poller' \in [Pollers -> PollerStates] /\ \A p \in Pollers : poller'[p] = Off
  BY <1>1, OffIsState
<1>3. Registered' /\ Undisturbed'
  BY <1>1, <1>2, OffIsState DEF Registered, Undisturbed
<1>4. \A p \in Pollers : Holding(poller'[p]) /\ Passed(poller'[p])
  BY <1>2, OffIsState, FreshHolds
<1>5. QED
  BY <1>1, <1>2, <1>3, <1>4, PollersChange

\* A reload stops the poll that is on.
LEMMA ReloadStopsKeeps == ASSUME CloudInv, NEW p \in Pollers, ReloadStops(p) PROVE CloudInv'
<1> DEFINE told == [q \in Pollers |-> IF q \notin provider \/ poller[q].at = "born" THEN poller[q]
                                      ELSE IF poller[q].at = "poll" THEN Off
                                      ELSE [poller[q] EXCEPT !.stop = TRUE]]
<1>1. /\ reload[p] = "stop" /\ provider' = {} /\ UNCHANGED <<up, update, confirmed, handled>>
      /\ poller' = told /\ reload' = [reload EXCEPT ![p] = "none"]
  BY DEF ReloadStops, cloudVars
<1>2. upset' = (upset \/ \E q \in provider : poller[q].batch # <<>> \/ poller[q].offset > confirmed + 1)
  BY DEF ReloadStops
<1>3. upset' \in BOOLEAN /\ reload' \in [Pollers -> {"none", "read", "stop", "start"}] /\ upset \in BOOLEAN
  BY <1>1, <1>2 DEF CloudInv, CloudTyped
<1>4. ~upset' => ~upset /\ \A q \in provider : poller[q].batch = <<>> /\ ~(poller[q].offset > confirmed + 1)
  BY <1>2, Zenon
<1>5. ASSUME NEW q \in Pollers
      PROVE  /\ poller'[q] \in PollerStates /\ Holding(poller'[q]) /\ Passed(poller'[q])
             /\ \/ poller'[q] = poller[q]
                \/ poller'[q] = Off /\ poller[q].at = "poll" /\ q \in provider
                \/ upset' = TRUE
  <2>1. poller[q] \in PollerStates /\ Holding(poller[q]) /\ Passed(poller[q])
    BY PollerTyped
  <2>2. CASE q \notin provider \/ poller[q].at = "born"
    BY <1>1, <2>1, <2>2
  <2>3. CASE q \in provider /\ poller[q].at = "poll"
    <3>1. poller'[q] = Off
      BY <1>1, <2>3
    <3>2. QED
      BY <2>3, <3>1, OffIsState, FreshHolds
  <2>4. CASE q \in provider /\ poller[q].at \notin {"born", "poll"}
    <3>1. poller'[q] = [poller[q] EXCEPT !.stop = TRUE]
      BY <1>1, <2>4
    <3>2. poller'[q] \in PollerStates /\ poller'[q].at = poller[q].at /\ poller'[q].batch = poller[q].batch
          /\ poller'[q].offset = poller[q].offset /\ poller'[q].site = poller[q].site
      BY <2>1, <3>1 DEF PollerStates
    <3>3. poller[q].batch # <<>>
      BY <2>1, <2>4 DEF Holding, PollerStates, Polls, CloudInv, Registered
    <3>4. upset' = TRUE
      BY <1>3, <1>4, <2>4, <3>3
    <3>5. QED
      BY <2>1, <3>2, <3>4 DEF Holding, Passed
  <2>5. QED
    BY <2>2, <2>3, <2>4
<1>6. poller' \in [Pollers -> PollerStates]
  <2> DEFINE f == poller'
  <2>1. f = [q \in Pollers |-> f[q]]
    BY <1>1
  <2>2. \A q \in Pollers : f[q] \in PollerStates
    BY <1>5
  <2> HIDE DEF f
  <2>3. f \in [Pollers -> PollerStates]
    BY <2>1, <2>2
  <2>4. QED
    BY <2>3 DEF f
<1>7. Registered'
  BY <1>1 DEF CloudInv, Registered
<1>8. Undisturbed'
  <2>1. SUFFICES ASSUME upset' = FALSE PROVE Undisturbed'
    BY DEF Undisturbed
  <2>2. upset = FALSE /\ \A q \in provider : poller[q].batch = <<>> /\ ~(poller[q].offset > confirmed + 1)
    BY <1>3, <1>4, <2>1
  <2>3. \A q \in Pollers : poller'[q] = poller[q] \/ (poller'[q] = Off /\ poller[q].at = "poll" /\ q \in provider)
    BY <1>5, <2>1
  <2>4. \A q \in Pollers : poller'[q].at # "off" => poller'[q] = poller[q]
    BY <2>3, OffIsState
  <2>5. \A q \in Pollers : poller'[q].stop = FALSE /\ (poller'[q].at = "off" => poller'[q].offset = 1)
    BY <2>2, <2>3, OffIsState DEF CloudInv, Undisturbed
  <2>6. ASSUME \A q \in Pollers : poller'[q].at = "off" PROVE \A u \in Updates : u > confirmed => handled[u] = 0
    <3>1. CASE \A q \in Pollers : poller[q].at = "off"
      BY <2>2, <3>1 DEF CloudInv, Undisturbed
    <3>2. CASE \E q \in Pollers : poller[q].at # "off"
      <4>1. PICK q \in Pollers : poller[q].at = "poll" /\ q \in provider
        BY <2>3, <2>6, <3>2
      <4>2. poller[q].offset \in Nat /\ confirmed \in Nat /\ ~(poller[q].offset > confirmed + 1)
        BY <2>2, <4>1, PollerTyped DEF CloudInv, CloudTyped
      <4>3. \A u \in Updates : u \in Nat
        BY TelegramAssumption DEF Updates
      <4>4. \A u \in Updates : Ahead(poller[q], u) => handled[u] = 0
        BY <2>2, <4>1 DEF CloudInv, Undisturbed
      <4>5. QED
        BY <4>1, <4>2, <4>3, <4>4 DEF Ahead
    <3>3. QED
      BY <3>1, <3>2
  <2>7. \A q, r \in Pollers : poller'[q].at # "off" /\ poller'[r].at # "off" => q = r
    BY <2>2, <2>4 DEF CloudInv, Undisturbed
  <2>8. \A u \in Updates : handled[u] <= 1
    BY <2>2 DEF CloudInv, Undisturbed
  <2>9. \A q \in Pollers, u \in Updates : poller'[q].at # "off" /\ Ahead(poller'[q], u) => handled[u] = 0
    BY <2>2, <2>4 DEF CloudInv, Undisturbed
  <2>10. QED
    BY <1>1, <2>1, <2>5, <2>6, <2>7, <2>8, <2>9 DEF Undisturbed, Ahead
<1>9. QED
  BY <1>1, <1>3, <1>5, <1>6, <1>7, <1>8, PollersChange DEF CloudInv, CloudTyped

\* A reload starts a new one.
LEMMA ReloadStartsKeeps == ASSUME CloudInv, NEW p \in Pollers, ReloadStarts(p) PROVE CloudInv'
<1> DEFINE b == [Off EXCEPT !.at = "born"]
<1>1. /\ reload[p] = "start" /\ poller[p].at = "off" /\ provider' = {p} /\ UNCHANGED <<up, update, confirmed, handled>>
      /\ poller' = [poller EXCEPT ![p] = b] /\ reload' = [reload EXCEPT ![p] = "none"]
  BY DEF ReloadStarts, cloudVars
<1>2. upset' = (upset \/ Running # {})
  BY DEF ReloadStarts
<1>3. upset' \in BOOLEAN /\ reload' \in [Pollers -> {"none", "read", "stop", "start"}] /\ upset \in BOOLEAN
  BY <1>1, <1>2 DEF CloudInv, CloudTyped
<1>4. ~upset' => ~upset /\ \A q \in Pollers : poller[q].at = "off"
  BY <1>2, Zenon DEF Running
<1>5. b \in PollerStates /\ b.at = "born" /\ b.offset = 1 /\ b.batch = <<>> /\ b.stop = FALSE
  BY OffIsState
<1> HIDE DEF b
<1>6. poller' \in [Pollers -> PollerStates] /\ poller'[p] = b /\ \A q \in Pollers \ {p} : poller'[q] = poller[q]
  BY <1>1, <1>5 DEF CloudInv, CloudTyped
<1>7. Registered'
  BY <1>1, <1>5, <1>6 DEF CloudInv, Registered
<1>8. Undisturbed'
  BY <1>1, <1>3, <1>4, <1>5, <1>6 DEF CloudInv, Undisturbed, Ahead
<1>9. \A q \in Pollers : Holding(poller'[q]) /\ Passed(poller'[q])
  BY <1>5, <1>6, FreshHolds, PollerTyped
<1>10. QED
  BY <1>1, <1>3, <1>6, <1>7, <1>8, <1>9, PollersChange DEF CloudInv, CloudTyped

\* A new goroutine polls for the first time.
LEMMA PollerBeginsKeeps == ASSUME CloudInv, NEW p \in Pollers, PollerBegins(p) PROVE CloudInv'
<1> DEFINE c == [poller[p] EXCEPT !.at = "poll"]
<1>1. /\ poller[p].at = "born" /\ poller' = [poller EXCEPT ![p] = c]
      /\ UNCHANGED <<up, upset, provider, reload, update, confirmed, handled>>
  BY DEF PollerBegins, cloudVars
<1>2. poller[p] \in PollerStates /\ Holding(poller[p]) /\ Passed(poller[p])
  BY PollerTyped
<1>3. /\ c \in PollerStates /\ c.at = "poll" /\ c.stop = poller[p].stop /\ c.offset = poller[p].offset
      /\ c.batch = poller[p].batch
  BY <1>2 DEF PollerStates, Polls
<1> HIDE DEF c
<1>4. Holding(c)
  BY <1>1, <1>2, <1>3 DEF Holding
<1>5. handled \in [Updates -> 0 .. 2]
  BY DEF CloudInv, CloudTyped
<1>6. \A u \in Updates : u < c.offset \/ (c.batch # <<>> /\ u < c.batch[1]) => handled'[u] > 0
  BY <1>1, <1>2, <1>3 DEF Passed
<1>7. upset = FALSE => \A u \in Updates : handled'[u] <= 1 /\ (Ahead(c, u) => handled'[u] = 0)
  BY <1>1, <1>3 DEF CloudInv, Undisturbed, Ahead
<1>8. \A u \in Updates : handled'[u] >= handled[u]
  BY <1>1, <1>5
<1>9. QED
  BY <1>1, <1>3, <1>4, <1>5, <1>6, <1>7, <1>8, PollerGoesOn

\* An update arrives at Telegram.
LEMMA ArrivesKeeps ==
    ASSUME CloudInv, NEW h \in Chats, NEW kind \in UpdateKinds, NEW s \in Projects \cup {NoSite}, Arrives(h, kind, s)
    PROVE  CloudInv'
<1> DEFINE m == [chat |-> h, kind |-> kind, site |-> s]
<1>1. /\ Len(update) < MaxUpdates /\ update' = Append(update, m)
      /\ UNCHANGED <<up, upset, provider, poller, reload, confirmed, handled>>
  BY DEF Arrives, pollVars
<1>2. m \in Posts /\ m.chat = h /\ m.kind = kind /\ kind # "forgotten"
  BY DEF Posts, UpdateKinds
<1> HIDE DEF m
<1>3. update \in Seq(Posts) /\ Len(update) \in Nat /\ MaxUpdates \in Nat /\ DOMAIN update = 1 .. Len(update)
  BY LenProperties, TelegramAssumption DEF CloudInv, CloudTyped
<1>4. /\ update' \in Seq(Posts) /\ Len(update') = Len(update) + 1 /\ update'[Len(update) + 1] = m
      /\ \A i \in 1 .. Len(update) : update'[i] = update[i]
  BY <1>1, <1>2, <1>3, AppendProperties
<1>5. DOMAIN update' = 1 .. Len(update) + 1
  BY <1>3, <1>4, LenProperties
<1>6. CloudTyped'
  BY <1>1, <1>3, <1>4 DEF CloudInv, CloudTyped
<1>7. Registered' /\ Undisturbed'
  BY <1>1 DEF CloudInv, Registered, Undisturbed, Ahead
<1>8. Posted'
  BY <1>1, <1>2, <1>3, <1>4 DEF CloudInv, Posted
<1>9. ASSUME NEW p \in Pollers PROVE Holding(poller[p])' /\ Passed(poller[p])'
  <2>1. Holding(poller[p]) /\ Passed(poller[p]) /\ poller[p].offset \in Nat
    BY PollerTyped
  <2>2. Fetched(poller[p].batch)'
    BY <1>1, <1>3, <1>4, <1>5, <2>1 DEF Holding, Fetched, Sent
  <2>3. QED
    BY <1>1, <1>3, <1>4, <2>1, <2>2 DEF Holding, Passed
<1>10. QED
  BY <1>1, <1>6, <1>7, <1>8, <1>9 DEF CloudInv

\* Telegram forgets what is confirmed and no poller holds.
LEMMA PollKeeps == ASSUME CloudInv, NEW p \in Pollers, Poll(p) PROVE CloudInv'
<1> DEFINE b == poller[p]
           rest == [i \in 1 .. Len(update) - confirmed' |-> confirmed' + i]
           c == [b EXCEPT !.at = "batch", !.batch = rest]
           kept(u) == IF u <= confirmed' /\ \A q \in Pollers : ~Holds(q, u) THEN Forgotten ELSE update[u]
<1>1. /\ b.at = "poll" /\ UNCHANGED <<up, upset, provider, reload, handled>>
      /\ confirmed' = IF b.offset - 1 > confirmed THEN b.offset - 1 ELSE confirmed
      /\ update' = [u \in Sent |-> kept(u)]
  BY DEF Poll
<1>2. UNCHANGED poller \/ (rest # <<>> /\ poller' = [poller EXCEPT ![p] = c])
  <2>1. \/ UNCHANGED poller
        \/ rest # <<>> /\ poller' = [poller EXCEPT ![p].at = "batch", ![p].batch = rest]
    BY DEF Poll
  <2> HIDE DEF rest
  <2>2. poller \in [Pollers -> PollerStates]
    BY DEF CloudInv, CloudTyped
  <2>3. QED
    BY <2>1, <2>2
<1>3. b \in PollerStates /\ Holding(b) /\ Passed(b) /\ b.offset \in Nat
  BY PollerTyped
<1>4. update \in Seq(Posts) /\ Len(update) \in Nat /\ Sent = 1 .. Len(update) /\ Len(update) <= MaxUpdates
      /\ MaxUpdates \in Nat /\ confirmed \in 0 .. Len(update) /\ handled \in [Updates -> 0 .. 2]
  BY LenProperties, TelegramAssumption DEF CloudInv, CloudTyped, Sent
<1>5. confirmed' \in 0 .. Len(update) /\ confirmed' >= confirmed /\ confirmed' >= b.offset - 1
  BY <1>1, <1>3, <1>4 DEF Holding
<1>6. \A u \in Updates : u <= confirmed' => handled[u] > 0
  BY <1>1, <1>3, <1>4 DEF CloudInv, Passed, Updates
<1>7. \A u \in 1 .. Len(update) : update[u] \in Posts
  BY <1>4, ElementOfSeq
<1>8. Forgotten \in Posts /\ Forgotten.kind = "forgotten"
  BY DEF Forgotten, Posts
<1>9. \A u \in Sent : kept(u) \in Posts
  BY <1>4, <1>7, <1>8
<1>10. \A q \in Pollers : \A i \in 1 .. Len(poller[q].batch) : Holds(q, poller[q].batch[i])
  BY PollerTyped, LenProperties DEF Holds
<1>11. \A u \in Sent : kept(u) = update[u] \/ (kept(u) = Forgotten /\ u <= confirmed')
  OBVIOUS
<1>12. \A u \in Sent : (u > confirmed' \/ \E q \in Pollers : Holds(q, u)) => kept(u) = update[u]
  BY <1>4, <1>5
<1> HIDE DEF kept
<1>13. update' \in [1 .. Len(update) -> Posts] /\ \A u \in 1 .. Len(update) : update'[u] = kept(u)
  BY <1>1, <1>4, <1>9
<1>14. update' \in Seq(Posts) /\ Len(update') = Len(update) /\ DOMAIN update' = 1 .. Len(update)
  BY <1>4, <1>13
<1>15. rest \in Seq(Nat) /\ Len(rest) = Len(update) - confirmed'
       /\ \A i \in 1 .. Len(rest) : rest[i] = confirmed' + i
  BY <1>4, <1>5
<1> HIDE DEF rest
<1>16. /\ c \in PollerStates /\ c.at = "batch" /\ c.batch = rest /\ c.offset = b.offset /\ c.stop = b.stop
  BY <1>3, <1>15 DEF PollerStates, Polls
<1> HIDE DEF c
<1>17. poller' \in [Pollers -> PollerStates] /\ \A q \in Pollers \ {p} : poller'[q] = poller[q]
  BY <1>2, <1>16 DEF CloudInv, CloudTyped
<1>18. poller'[p] = b \/ (poller'[p] = c /\ rest # <<>>)
  BY <1>2, <1>16 DEF CloudInv, CloudTyped
<1>19. CloudTyped'
  BY <1>1, <1>4, <1>5, <1>14, <1>17 DEF CloudInv, CloudTyped
<1>20. \A q \in Pollers : poller'[q].stop = poller[q].stop /\ poller'[q].offset = poller[q].offset
                          /\ (poller'[q].at = "off" <=> poller[q].at = "off")
  BY <1>1, <1>16, <1>17, <1>18
<1>21. Registered'
  BY <1>1, <1>20 DEF CloudInv, Registered
<1>22. Posted'
  BY <1>4, <1>5, <1>8, <1>11, <1>13, <1>14 DEF CloudInv, Posted
<1>23. rest # <<>> => rest[1] = confirmed' + 1
  BY <1>4, <1>5, <1>15, EmptySeq, LenProperties
<1>24. \A u \in Updates : u \in Nat
  BY TelegramAssumption DEF Updates
<1>25. ASSUME upset = FALSE, NEW q \in Pollers, NEW u \in Updates, poller'[q].at # "off", Ahead(poller[q], u)'
       PROVE  handled[u] = 0
  <2>1. q = p
    BY <1>1, <1>20, <1>25 DEF CloudInv, Undisturbed
  <2>2. u >= b.offset /\ u > confirmed
    <3>1. u \in Nat /\ b.offset \in Nat /\ confirmed \in Nat /\ confirmed' \in Nat
          /\ confirmed' >= confirmed /\ confirmed' >= b.offset - 1
      BY <1>3, <1>4, <1>5, <1>24
    <3>2. CASE poller'[p] = b
      <4>1. u >= b.offset /\ u > confirmed'
        BY <1>1, <1>25, <2>1, <3>2 DEF Ahead
      <4>2. QED
        BY <3>1, <4>1
    <3>3. CASE poller'[p] = c /\ rest # <<>>
      <4>1. u >= confirmed' + 1
        <5>1. poller'[q] = c /\ c.at = "batch" /\ c.batch = rest
          BY <1>16, <2>1, <3>3
        <5>2. poller'[q].at = "batch" => u >= poller'[q].batch[1]
          BY <1>25 DEF Ahead
        <5>3. u >= poller'[q].batch[1]
          BY <5>1, <5>2
        <5>4. u >= rest[1]
          BY <5>1, <5>3
        <5>5. QED
          BY <1>23, <3>3, <5>4
      <4>2. \A x, y, z, w \in Nat : x >= z + 1 /\ z >= w /\ z >= y - 1 => x >= y /\ x > w
        OBVIOUS
      <4>3. QED
        BY <3>1, <4>1, <4>2
    <3>4. QED
      BY <1>18, <3>2, <3>3
  <2>3. Ahead(b, u)
    BY <1>1, <2>2 DEF Ahead
  <2>4. QED
    BY <1>1, <1>25, <2>3 DEF CloudInv, Undisturbed
<1>26. Undisturbed'
  <2>1. SUFFICES ASSUME upset' = FALSE PROVE Undisturbed'
    BY DEF Undisturbed
  <2>2. \A q, r \in Pollers : poller'[q].at # "off" /\ poller'[r].at # "off" => q = r
    BY <1>1, <1>20, <2>1 DEF CloudInv, Undisturbed
  <2>3. \A q \in Pollers : poller'[q].stop = FALSE /\ (poller'[q].at = "off" => poller'[q].offset = 1)
    BY <1>1, <1>20, <2>1 DEF CloudInv, Undisturbed
  <2>4. (\A u \in Updates : handled'[u] <= 1) /\ ~(\A q \in Pollers : poller'[q].at = "off")
    BY <1>1, <1>20, <2>1 DEF CloudInv, Undisturbed
  <2>5. QED
    BY <1>1, <1>25, <2>1, <2>2, <2>3, <2>4 DEF Undisturbed
<1>27. ASSUME NEW q \in Pollers PROVE Holding(poller[q])' /\ Passed(poller[q])'
  <2>1. CASE poller'[q] = poller[q]
    <3>1. poller[q] \in PollerStates /\ Holding(poller[q]) /\ Passed(poller[q])
      BY PollerTyped
    <3>2. Fetched(poller[q].batch)'
      BY <1>4, <1>10, <1>12, <1>13, <1>14, <2>1, <3>1 DEF Holding, Fetched, Sent
    <3>3. QED
      BY <1>1, <1>14, <2>1, <3>1, <3>2 DEF Holding, Passed
  <2>2. CASE q = p /\ poller'[q] = c /\ rest # <<>>
    <3>1. ASSUME NEW i \in 1 .. Len(rest)
          PROVE  rest[i] = rest[1] + (i - 1) /\ rest[i] \in 1 .. Len(update) /\ update'[rest[i]].kind # "forgotten"
      <4>1. rest[i] = confirmed' + i /\ confirmed' + i \in 1 .. Len(update) /\ confirmed' + i > confirmed'
        <5>1. Len(update) \in Nat /\ confirmed' \in 0 .. Len(update) /\ i \in 1 .. Len(update) - confirmed'
          BY <1>4, <1>5, <1>15
        <5>2. \A n \in Nat : \A x \in 0 .. n : \A y \in 1 .. n - x : x + y \in 1 .. n /\ x + y > x
          OBVIOUS
        <5>3. confirmed' + i \in 1 .. Len(update) /\ confirmed' + i > confirmed'
          BY <5>1, <5>2
        <5>4. QED
          BY <1>15, <5>3
      <4>2. update'[confirmed' + i] = update[confirmed' + i]
        <5> DEFINE v == confirmed' + i
        <5>1. v \in 1 .. Len(update) /\ v > confirmed' /\ v \in Sent
          BY <1>4, <4>1
        <5> HIDE DEF v
        <5>2. kept(v) = update[v]
          BY <1>12, <5>1
        <5>3. update'[v] = kept(v)
          BY <1>13, <5>1
        <5>4. QED
          BY <5>2, <5>3 DEF v
      <4>3. update[confirmed' + i].kind # "forgotten"
        BY <1>4, <1>5, <4>1 DEF CloudInv, Posted
      <4>4. QED
        <5>1. confirmed' \in Nat /\ i \in Nat /\ rest[1] = confirmed' + 1
          BY <1>5, <1>15, <2>2, <1>23
        <5>2. rest[i] = rest[1] + (i - 1)
          BY <4>1, <5>1
        <5>3. QED
          BY <4>1, <4>2, <4>3, <5>2
    <3>2. /\ \A i \in 1 .. Len(rest) : rest[i] = rest[1] + (i - 1)
          /\ \A i \in 1 .. Len(rest) : rest[i] \in DOMAIN update' /\ update'[rest[i]].kind # "forgotten"
      BY <1>14, <3>1
    <3>8. poller'[q].batch = rest
      BY <1>16, <2>2
    <3>9. Fetched(poller[q].batch)'
      BY <3>2, <3>8 DEF Fetched, Sent
    <3>3. b.offset \in 1 .. Len(update) + 1
      BY <1>3 DEF Holding
    <3>4. Holding(poller[q])'
      BY <1>14, <1>16, <2>2, <3>3, <3>9 DEF Holding
    <3>5. \A u \in Updates : u < confirmed' + 1 => handled[u] > 0
      BY <1>5, <1>6, <1>24
    <3>6. Passed(poller[q])'
      BY <1>1, <1>3, <1>16, <1>23, <2>2, <3>5 DEF Passed
    <3>7. QED
      BY <3>4, <3>6
  <2>3. QED
    BY <1>17, <1>18, <2>1, <2>2
<1>28. QED
  BY <1>1, <1>6, <1>19, <1>21, <1>22, <1>26, <1>27 DEF CloudInv

\* The creation of a project, in its steps.
LEMMA CreateRowKeeps == ASSUME CloudInv, NEW p \in Pollers, CreateRow(p) PROVE CloudInv'
<1>1. CASE Finishes(p)
  BY <1>1, FinishesKeeps
<1>2. ASSUME NEW s \in Projects, Takes(p), poller' = [poller EXCEPT ![p] = [Moved(p) EXCEPT !.at = "database", !.site = s]]
      PROVE  CloudInv'
  <2> DEFINE b == Moved(p)
             c == [b EXCEPT !.at = "database", !.site = s]
  <2>1. /\ handled' \in [Updates -> 0 .. 2] /\ \A u \in Updates : handled'[u] >= handled[u]
        /\ UNCHANGED <<up, upset, provider, reload, update, confirmed>>
        /\ poller[p].at = "batch" /\ poller[p].batch # <<>> /\ Doing(p) = poller[p].batch[1]
    BY <1>2, TakenCounts
  <2>2. b \in PollerStates /\ b.offset = Doing(p) + 1 /\ b.batch = poller[p].batch /\ b.stop = poller[p].stop
        /\ Doing(p) + 1 \in 1 .. Len(update) + 1
    BY <1>2, TakenCounts
  <2>3. /\ \A u \in Updates : u < Doing(p) + 1 => handled'[u] > 0
        /\ upset = FALSE => \A u \in Updates : handled'[u] <= 1 /\ (u > Doing(p) => handled'[u] = 0)
    BY <1>2, TakenCounts
  <2> HIDE DEF b
  <2>4. c \in PollerStates /\ c.at = "database" /\ c.site = s /\ c.offset = b.offset /\ c.batch = b.batch /\ c.stop = b.stop
    BY <2>2 DEF PollerStates, Polls
  <2>5. poller' = [poller EXCEPT ![p] = c]
    BY <1>2 DEF b
  <2> HIDE DEF c
  <2>6. Fetched(b.batch)
    BY <2>2, PollerTyped DEF Holding
  <2>7. Holding(c)
    BY <2>1, <2>2, <2>4, <2>6 DEF Holding
  <2>8. Doing(p) \in Nat /\ \A u \in Updates : u \in Nat
    BY <2>1, DoingIsSent, TelegramAssumption DEF Updates
  <2>9. \A u \in Updates : u < c.offset \/ (c.batch # <<>> /\ u < c.batch[1]) => handled'[u] > 0
    BY <2>1, <2>2, <2>3, <2>4, <2>8
  <2>10. upset = FALSE => \A u \in Updates : handled'[u] <= 1 /\ (Ahead(c, u) => handled'[u] = 0)
    BY <2>1, <2>2, <2>3, <2>4, <2>8 DEF Ahead
  <2>11. poller[p].at # "off" /\ c.stop = poller[p].stop /\ c.at # "off"
    BY <2>1, <2>2, <2>4
  <2>12. QED
    BY <2>1, <2>4, <2>5, <2>7, <2>9, <2>10, <2>11, PollerGoesOn
<1>3. QED
  BY <1>1, <1>2 DEF CreateRow

\* A step of a creation, and then the rest of the batch.
LEMMA CreationEnds ==
    ASSUME CloudInv, NEW p \in Pollers, poller[p].at \in {"database", "publish"},
           poller' = [poller EXCEPT ![p] = Rest(poller[p])],
           UNCHANGED <<up, upset, provider, reload, update, confirmed, handled>>
    PROVE  CloudInv'
<1> DEFINE b == poller[p]
           c == Rest(b)
<1>1. b \in PollerStates /\ Holding(b) /\ Passed(b) /\ b.batch # <<>> /\ b.offset = b.batch[1] + 1 /\ Fetched(b.batch)
  BY PollerTyped DEF Holding
<1>2. /\ c \in PollerStates /\ Holding(c) /\ c.offset = b.offset /\ c.stop = b.stop
      /\ \/ c.at = "batch" /\ c.batch # <<>> /\ c.batch[1] = b.offset
         \/ c.at = "poll" /\ c.batch = <<>>
         \/ c.at = "off" /\ c.batch = <<>> /\ b.stop = TRUE
  BY <1>1, RestHolds
<1> HIDE DEF c
<1>3. handled \in [Updates -> 0 .. 2] /\ b.offset \in Nat /\ b.batch[1] \in Nat /\ \A u \in Updates : u \in Nat
  <2>1. handled \in [Updates -> 0 .. 2] /\ b.offset \in Nat /\ \A u \in Updates : u \in Nat
    BY PollerTyped, TelegramAssumption DEF CloudInv, CloudTyped, Updates
  <2>2. b.batch[1] \in Nat
    BY <1>1, DoingIsSent
  <2>3. QED
    BY <2>1, <2>2
<1>4. \A u \in Updates : u < c.offset \/ (c.batch # <<>> /\ u < c.batch[1]) => handled'[u] > 0
  BY <1>1, <1>2 DEF Passed
<1>5. ASSUME upset = FALSE, NEW u \in Updates PROVE handled'[u] <= 1 /\ (Ahead(c, u) => handled'[u] = 0)
  <2>1. b.stop = FALSE /\ handled[u] <= 1 /\ (u > b.batch[1] => handled[u] = 0)
    BY <1>5 DEF CloudInv, Undisturbed, Ahead
  <2>2. Ahead(c, u) => u > b.batch[1]
    BY <1>1, <1>2, <1>3, <2>1 DEF Ahead
  <2>3. QED
    BY <2>1, <2>2
<1>6. poller' = [poller EXCEPT ![p] = c] /\ poller[p].at # "off" /\ c.stop = poller[p].stop
      /\ (c.at = "off" => c.stop = TRUE)
  BY <1>2 DEF c
<1>7. handled' \in [Updates -> 0 .. 2] /\ \A u \in Updates : handled'[u] >= handled[u]
  BY <1>3
<1>8. QED
  BY <1>2, <1>4, <1>5, <1>6, <1>7, PollerGoesOn

\* A handler creates the database of a site.
LEMMA CreateDatabaseKeeps == ASSUME CloudInv, NEW p \in Pollers, CreateDatabase(p) PROVE CloudInv'
<1>1. poller[p].at = "database" /\ UNCHANGED <<up, upset, provider, reload, update, confirmed, handled>>
  BY DEF CreateDatabase, cloudVars
<1>2. CASE poller' = [poller EXCEPT ![p] = Rest(poller[p])]
  BY <1>1, <1>2, CreationEnds
<1>3. CASE poller' = [poller EXCEPT ![p].at = "publish"]
  <2> DEFINE b == poller[p]
             c == [b EXCEPT !.at = "publish"]
  <2>1. b \in PollerStates /\ Holding(b) /\ Passed(b)
    BY PollerTyped
  <2>2. c \in PollerStates /\ c.at = "publish" /\ c.site = b.site /\ c.offset = b.offset /\ c.batch = b.batch
        /\ c.stop = b.stop
    BY <2>1 DEF PollerStates, Polls
  <2>3. poller' = [poller EXCEPT ![p] = c]
    BY <1>3
  <2> HIDE DEF c
  <2>4. Holding(c)
    BY <1>1, <2>1, <2>2 DEF Holding
  <2>5. handled \in [Updates -> 0 .. 2]
    BY DEF CloudInv, CloudTyped
  <2>6. \A u \in Updates : u < c.offset \/ (c.batch # <<>> /\ u < c.batch[1]) => handled'[u] > 0
    BY <1>1, <2>1, <2>2 DEF Passed
  <2>7. upset = FALSE => \A u \in Updates : handled'[u] <= 1 /\ (Ahead(c, u) => handled'[u] = 0)
    BY <1>1, <2>2 DEF CloudInv, Undisturbed, Ahead
  <2>8. \A u \in Updates : handled'[u] >= handled[u]
    BY <1>1, <2>5
  <2>9. QED
    BY <1>1, <2>2, <2>3, <2>4, <2>5, <2>6, <2>7, <2>8, PollerGoesOn
<1>4. QED
  BY <1>2, <1>3 DEF CreateDatabase

\* A step that leaves the polls and the updates alone.
LEMMA CloudStill ==
    ASSUME CloudInv, UNCHANGED <<upset, provider, poller, update, confirmed, handled>>,
           up' = up, reload' \in [Pollers -> {"none", "read", "stop", "start"}], up = FALSE => reload' = reload
    PROVE  CloudInv'
<1>1. CloudTyped' /\ Registered' /\ Posted' /\ Undisturbed'
  <2>1. CloudTyped' /\ Posted'
    BY DEF CloudInv, CloudTyped, Posted
  <2>2. Registered'
    BY DEF CloudInv, Registered
  <2>3. Undisturbed'
    BY DEF CloudInv, Undisturbed, Ahead
  <2>4. QED
    BY <2>1, <2>2, <2>3
<1>2. \A p \in Pollers : Holding(poller[p])' /\ Passed(poller[p])'
  BY DEF CloudInv, Holding, Passed, Fetched, Sent
<1>3. QED
  BY <1>1, <1>2 DEF CloudInv

\* The handlers of updates.
LEMMA HandlersKeepDesk == ASSUME BotInv, NEW p \in Pollers, HandlesOne(p) PROVE DeskTyped'
<1> USE DEF userVars, siteVars
<1>1. CloudInv /\ DeskTyped
  BY DEF BotInv
<1>2. ASSUME UNCHANGED <<token, listening, botFaults>>, NEW works1 \in SUBSET Projects, works' = works1,
             UNCHANGED <<user, session, telling, project>>
      PROVE  DeskTyped'
  BY <1>1, <1>2 DEF DeskTyped
<1>3. Takes(p) /\ poller[p].at = "batch" /\ UNCHANGED <<token, listening, botFaults>>
  BY DEF HandlesOne, RefusesStranger, Reports, CmdMute, CmdNew, CmdOrder, CmdStop, HandleChat, PickSite, PressAnswer,
         CreateRow, Finishes, Takes
<1>4. Asked(p).chat \in Chats /\ Asked(p) \in Posts
  BY <1>1, <1>3, DoingIsSent, PollerTyped DEF Holding
<1> DEFINE h == Asked(p).chat
<1> HIDE DEF h
<1>5. user[h] \in Users /\ h \in Chats
  BY <1>1, <1>4 DEF DeskTyped, h
<1>6. ASSUME NEW st \in Users, Saves(h, st), UNCHANGED <<telling, project, works>> PROVE DeskTyped'
  <2>1. [on |-> st.on, muted |-> st.muted] \in Sessions
    BY DEF Users, Sessions
  <2>2. user' \in [Chats -> Users] /\ session' \in [Chats -> Sessions]
    BY <1>1, <1>6, <2>1 DEF DeskTyped, Saves
  <2>3. QED
    BY <1>1, <1>3, <1>6, <2>2 DEF DeskTyped
<1>7. CASE RefusesStranger(p) \/ Reports(p) \/ CmdOrder(p) \/ PressAnswer(p)
  BY <1>1, <1>3, <1>7 DEF RefusesStranger, Reports, CmdOrder, PressAnswer, DeskTyped
<1>8. CASE CmdMute(p)
  <2>1. [user[h] EXCEPT !.muted = (Asked(p).kind = "mute")] \in Users
    BY <1>5 DEF Users
  <2>2. QED
    BY <1>6, <1>8, <2>1 DEF CmdMute, h
<1>9. CASE CmdNew(p)
  <2>1. user' = [user EXCEPT ![h].awaits = TRUE] /\ UNCHANGED <<session, telling, project, works>>
    BY <1>9 DEF CmdNew, h
  <2>2. [user[h] EXCEPT !.awaits = TRUE] \in Users
    BY <1>5 DEF Users
  <2>3. user' = [user EXCEPT ![h] = [user[h] EXCEPT !.awaits = TRUE]]
    BY <1>1, <2>1 DEF DeskTyped
  <2>4. user' \in [Chats -> Users]
    BY <1>1, <2>2, <2>3 DEF DeskTyped
  <2>5. QED
    BY <1>1, <1>3, <2>1, <2>4 DEF DeskTyped
<1>10. CASE CmdStop(p)
  BY <1>1, <1>3, <1>10 DEF CmdStop, DeskTyped
<1>11. CASE HandleChat(p)
  BY <1>1, <1>3, <1>11 DEF HandleChat, DeskTyped
<1>12. CASE PickSite(p)
  <2>1. Asked(p).site \in Projects \cup {NoSite}
    BY <1>4 DEF Posts
  <2>2. [user[h] EXCEPT !.on = Asked(p).site] \in Users
    BY <1>5, <2>1 DEF Users
  <2>3. QED
    BY <1>6, <1>12, <2>2 DEF PickSite, h
<1>13. CASE CreateRow(p)
  <2>1. user' = [user EXCEPT ![h].awaits = FALSE] /\ UNCHANGED <<session, telling, works>>
    BY <1>13 DEF CreateRow, h
  <2>2. [user[h] EXCEPT !.awaits = FALSE] \in Users
    BY <1>5 DEF Users
  <2>3. user' = [user EXCEPT ![h] = [user[h] EXCEPT !.awaits = FALSE]]
    BY <1>1, <2>1 DEF DeskTyped
  <2>4. user' \in [Chats -> Users]
    BY <1>1, <2>2, <2>3 DEF DeskTyped
  <2>5. project' = project \/ \E s \in Projects : project' = [project EXCEPT ![s].row = TRUE]
    BY <1>13 DEF CreateRow
  <2>6. project' \in [Projects -> [row : BOOLEAN, db : BOOLEAN]]
    BY <1>1, <2>5 DEF DeskTyped
  <2>7. QED
    BY <1>1, <1>3, <2>1, <2>4, <2>6 DEF DeskTyped
<1>14. QED
  BY <1>7, <1>8, <1>9, <1>10, <1>11, <1>12, <1>13 DEF HandlesOne

\* The creation of a site keeps what is known of the owner's desk.
LEMMA CreationKeepsDesk ==
    ASSUME BotInv, NEW p \in Pollers, CreateDatabase(p) \/ CreatePublishes(p)
    PROVE  DeskTyped'
<1> USE DEF userVars, siteVars
<1>1. CloudInv /\ DeskTyped
  BY DEF BotInv
<1>2. Holding(poller[p]) /\ poller[p].at \in {"database", "publish"}
  BY <1>1, PollerTyped DEF CreateDatabase, CreatePublishes
<1>3. poller[p].site \in Projects /\ poller[p].batch # <<>>
  BY <1>2 DEF Holding
<1> DEFINE s == poller[p].site
<1> HIDE DEF s
<1>4. CASE CreateDatabase(p)
  <2>1. UNCHANGED <<token, listening, user, session, telling, works>>
    BY <1>4 DEF CreateDatabase
  <2>2. botFaults' \in 0 .. MaxBotFaults
    BY <1>1, <1>4, TelegramAssumption DEF CreateDatabase, BotFails, DeskTyped
  <2>3. project' = [project EXCEPT ![s].db = TRUE] \/ project' = [project EXCEPT ![s].row = FALSE]
    BY <1>4 DEF CreateDatabase, s
  <2>4. project' \in [Projects -> [row : BOOLEAN, db : BOOLEAN]]
    BY <1>1, <1>3, <2>3 DEF DeskTyped, s
  <2>5. QED
    BY <1>1, <2>1, <2>2, <2>4 DEF DeskTyped
<1>5. CASE CreatePublishes(p)
  <2> DEFINE h == Asked(p).chat
             st == [user[h] EXCEPT !.on = s]
  <2>1. /\ works' = works \cup {s} /\ user' = [user EXCEPT ![h] = st]
        /\ session' = [session EXCEPT ![h] = [on |-> st.on, muted |-> st.muted]]
        /\ UNCHANGED <<token, listening, telling, project, botFaults>>
    BY <1>5 DEF CreatePublishes, Saves, s
  <2>2. h \in Chats /\ user[h] \in Users /\ s \in Projects
    BY <1>1, <1>3, DoingIsSent DEF DeskTyped, s
  <2>3. st \in Users /\ [on |-> st.on, muted |-> st.muted] \in Sessions
    BY <2>2 DEF Users, Sessions
  <2> HIDE DEF h, st
  <2>4. user' \in [Chats -> Users] /\ session' \in [Chats -> Sessions]
    BY <1>1, <2>1, <2>2, <2>3 DEF DeskTyped
  <2>5. QED
    BY <1>1, <2>1, <2>2, <2>4 DEF DeskTyped
<1>6. QED
  BY <1>4, <1>5

\* Starting and stopping, and what the chats are told.
LEMMA RestKeepsDesk ==
    ASSUME BotInv,
           \/ BotStarts \/ BotCrashes \/ TellingEnds
           \/ \E p \in Pollers : \/ SettingSaved(p) \/ ReloadReads(p) \/ ReloadStops(p) \/ ReloadStarts(p)
                                 \/ PollerBegins(p) \/ Poll(p)
           \/ \E h \in Chats, kind \in UpdateKinds, s \in Projects \cup {NoSite} : Arrives(h, kind, s)
           \/ \E s \in Projects, chats \in SUBSET Chats : Tells(s, chats)
    PROVE  DeskTyped'
<1> USE DEF userVars, siteVars, pollVars, cloudVars
<1>1. DeskTyped
  BY DEF BotInv
<1>2. CASE BotStarts
  <2>1. \A h \in Chats : [on |-> session[h].on, muted |-> session[h].muted, awaits |-> FALSE] \in Users
    BY <1>1 DEF DeskTyped, Sessions, Users
  <2>2. user' \in [Chats -> Users]
    BY <1>2, <2>1 DEF BotStarts
  <2>3. listening' \in BOOLEAN
    BY <1>1, <1>2, Zenon DEF BotStarts, DeskTyped
  <2>4. works' \subseteq Projects /\ UNCHANGED <<token, session, telling, project, botFaults>>
    BY <1>2 DEF BotStarts
  <2>5. QED
    BY <1>1, <2>2, <2>3, <2>4 DEF DeskTyped
<1>3. CASE BotCrashes
  <2>1. works' = {} /\ telling' = FALSE /\ listening' = FALSE /\ UNCHANGED <<token, user, session, project>>
    BY <1>3 DEF BotCrashes
  <2>2. botFaults' \in 0 .. MaxBotFaults
    BY <1>1, <1>3, TelegramAssumption DEF BotCrashes, BotFails, DeskTyped
  <2>3. QED
    BY <1>1, <2>1, <2>2 DEF DeskTyped
<1>4. CASE TellingEnds
  BY <1>1, <1>4 DEF TellingEnds, DeskTyped
<1>5. ASSUME NEW p \in Pollers, SettingSaved(p) PROVE DeskTyped'
  BY <1>1, <1>5, TelegramAssumption DEF SettingSaved, BotFails, DeskTyped
<1>6. ASSUME NEW p \in Pollers, ReloadReads(p) \/ ReloadStops(p) \/ ReloadStarts(p) \/ PollerBegins(p) \/ Poll(p)
      PROVE  DeskTyped'
  <2>1. UNCHANGED desk
    BY <1>6 DEF ReloadReads, ReloadStops, ReloadStarts, PollerBegins, Poll, desk
  <2>2. QED
    BY <1>1, <2>1 DEF desk, DeskTyped
<1>7. ASSUME NEW h \in Chats, NEW kind \in UpdateKinds, NEW s \in Projects \cup {NoSite}, Arrives(h, kind, s)
      PROVE  DeskTyped'
  BY <1>1, <1>7 DEF Arrives, DeskTyped
<1>8. ASSUME NEW s \in Projects, NEW chats \in SUBSET Chats, Tells(s, chats) PROVE DeskTyped'
  <2>1. telling' \in BOOLEAN
    BY <1>8, Zenon DEF Tells
  <2>2. UNCHANGED <<token, listening, user, session, project, works, botFaults>>
    BY <1>8 DEF Tells
  <2>3. QED
    BY <1>1, <2>1, <2>2 DEF DeskTyped
<1>9. QED
  BY <1>2, <1>3, <1>4, <1>5, <1>6, <1>7, <1>8

\* One step of the bot.
LEMMA BotStep == BotInv /\ [TelegramNext]_telegramVars => BotInv'
<1> SUFFICES ASSUME BotInv, [TelegramNext]_telegramVars PROVE BotInv'
  OBVIOUS
<1>1. CloudInv /\ DeskTyped
  BY DEF BotInv
<1>2. reload \in [Pollers -> {"none", "read", "stop", "start"}]
  BY <1>1 DEF CloudInv, CloudTyped
<1>3. ASSUME UNCHANGED cloudy PROVE CloudInv'
  BY <1>1, <1>2, <1>3, CloudStill DEF cloudy
<1>4. CASE BotStarts
  BY <1>1, <1>4, BotStartsKeeps, RestKeepsDesk DEF BotInv
<1>5. CASE BotCrashes
  BY <1>1, <1>5, BotCrashesKeeps, RestKeepsDesk DEF BotInv
<1>6. CASE TellingEnds
  <2>1. UNCHANGED cloudy
    BY <1>6 DEF TellingEnds, cloudy, pollVars, cloudVars
  <2>2. QED
    BY <1>3, <1>6, <2>1, RestKeepsDesk DEF BotInv
<1>7. ASSUME NEW h \in Chats, NEW kind \in UpdateKinds, NEW s \in Projects \cup {NoSite}, Arrives(h, kind, s)
      PROVE  BotInv'
  BY <1>1, <1>7, ArrivesKeeps, RestKeepsDesk DEF BotInv
<1>8. ASSUME NEW p \in Pollers, SettingSaved(p) \/ ReloadReads(p) PROVE BotInv'
  <2>1. UNCHANGED <<up, upset, provider, poller, update, confirmed, handled>>
    BY <1>8 DEF SettingSaved, ReloadReads, cloudVars
  <2>2. reload' \in [Pollers -> {"none", "read", "stop", "start"}]
    BY <1>2, <1>8 DEF SettingSaved, ReloadReads
  <2>3. up # FALSE
    BY <1>1, <1>8 DEF SettingSaved, ReloadReads, CloudInv, Registered
  <2>4. CloudInv'
    BY <1>1, <2>1, <2>2, <2>3, CloudStill
  <2>5. QED
    BY <1>8, <2>4, RestKeepsDesk DEF BotInv
<1>9. ASSUME NEW p \in Pollers, ReloadStops(p) PROVE BotInv'
  BY <1>1, <1>9, ReloadStopsKeeps, RestKeepsDesk DEF BotInv
<1>10. ASSUME NEW p \in Pollers, ReloadStarts(p) PROVE BotInv'
  BY <1>1, <1>10, ReloadStartsKeeps, RestKeepsDesk DEF BotInv
<1>11. ASSUME NEW p \in Pollers, PollerBegins(p) PROVE BotInv'
  BY <1>1, <1>11, PollerBeginsKeeps, RestKeepsDesk DEF BotInv
<1>12. ASSUME NEW p \in Pollers, Poll(p) PROVE BotInv'
  BY <1>1, <1>12, PollKeeps, RestKeepsDesk DEF BotInv
<1>13. ASSUME NEW p \in Pollers, HandlesOne(p) PROVE BotInv'
  <2>1. Finishes(p) \/ CreateRow(p)
    BY <1>13 DEF HandlesOne, RefusesStranger, Reports, CmdMute, CmdNew, CmdOrder, CmdStop, HandleChat, PickSite,
                 PressAnswer
  <2>2. CloudInv'
    BY <1>1, <2>1, FinishesKeeps, CreateRowKeeps
  <2>3. QED
    BY <1>13, <2>2, HandlersKeepDesk DEF BotInv
<1>14. ASSUME NEW p \in Pollers, CreateDatabase(p) PROVE BotInv'
  BY <1>1, <1>14, CreateDatabaseKeeps, CreationKeepsDesk DEF BotInv
<1>15. ASSUME NEW p \in Pollers, CreatePublishes(p) PROVE BotInv'
  <2>1. CloudInv'
    BY <1>1, <1>15, CreationEnds DEF CreatePublishes, cloudVars
  <2>2. QED
    BY <1>15, <2>1, CreationKeepsDesk DEF BotInv
<1>16. ASSUME NEW s \in Projects, NEW chats \in SUBSET Chats, Tells(s, chats) PROVE BotInv'
  <2>1. UNCHANGED cloudy
    BY <1>16 DEF Tells, cloudy, pollVars, cloudVars
  <2>2. QED
    BY <1>3, <1>16, <2>1, RestKeepsDesk DEF BotInv
<1>17. CASE UNCHANGED telegramVars
  BY <1>1, <1>3, <1>17 DEF telegramVars, pollVars, cloudVars, userVars, siteVars, cloudy, DeskTyped, BotInv
<1>18. ASSUME NEW h \in Chats, NEW kind \in UpdateKinds,
              \E s \in IF kind = "pick" THEN {q \in Projects : project[q].row} ELSE {NoSite} : Arrives(h, kind, s)
       PROVE  BotInv'
  BY <1>7, <1>18
<1>19. ASSUME NEW s \in Projects, BroadcastToSiteUsers(s) \/ OnQuestionAsked(s) \/ BroadcastNotification(s)
       PROVE  BotInv'
  BY <1>16, <1>19 DEF BroadcastToSiteUsers, OnQuestionAsked, BroadcastNotification
<1>20. QED
  BY <1>4, <1>5, <1>6, <1>8, <1>9, <1>10, <1>11, <1>12, <1>13, <1>14, <1>15, <1>17, <1>18, <1>19 DEF TelegramNext

\* At the start there is no update.
LEMMA BotStart == TelegramInit => BotInv
<1> SUFFICES ASSUME TelegramInit PROVE BotInv
  OBVIOUS
<1> USE DEF TelegramInit
<1>1. poller \in [Pollers -> PollerStates] /\ \A p \in Pollers : poller[p] = Off
  BY OffIsState
<1>2. Len(update) = 0 /\ update \in Seq(Posts) /\ \A u \in Updates : u \in Nat /\ u > 0
  BY EmptySeq, TelegramAssumption DEF Updates
<1>3. CloudTyped
  <2>1. up \in BOOLEAN /\ upset \in BOOLEAN
    OBVIOUS
  <2>2. reload \in [Pollers -> {"none", "read", "stop", "start"}] /\ handled \in [Updates -> 0 .. 2]
    OBVIOUS
  <2>3. Len(update) <= MaxUpdates /\ confirmed \in 0 .. Len(update)
    BY <1>2, TelegramAssumption
  <2>4. QED
    BY <1>1, <1>2, <2>1, <2>2, <2>3 DEF CloudTyped
<1>4. Registered /\ Posted
  BY <1>1, <1>2, OffIsState DEF Registered, Posted
<1>5. Undisturbed
  BY <1>1, OffIsState DEF Undisturbed
<1>6. \A u \in Updates : u <= confirmed => handled[u] > 0
  BY <1>2
<1>7. \A p \in Pollers : Holding(poller[p]) /\ Passed(poller[p])
  <2>1. <<>> = update /\ Len(<<>>) = 0
    BY <1>2
  <2>2. QED
    BY <1>1, <1>2, <2>1, OffIsState DEF Holding, Passed, Fetched
<1>8. CloudInv
  BY <1>3, <1>4, <1>5, <1>6, <1>7 DEF CloudInv
<1>9. NoUser \in Users /\ NoSession \in Sessions /\ NoProject \in [row : BOOLEAN, db : BOOLEAN]
  BY DEF NoUser, NoSession, NoProject, Users, Sessions
<1>10. DeskTyped
  <2>1. token \in BOOLEAN /\ listening = FALSE /\ telling = FALSE
    OBVIOUS
  <2>2. user \in [Chats -> Users] /\ session \in [Chats -> Sessions]
    BY <1>9
  <2>3. project \in [Projects -> [row : BOOLEAN, db : BOOLEAN]] /\ works \subseteq Projects
    BY <1>9
  <2>4. botFaults \in 0 .. MaxBotFaults
    BY TelegramAssumption
  <2>5. QED
    BY <2>1, <2>2, <2>3, <2>4 DEF DeskTyped
<1>11. QED
  BY <1>8, <1>10 DEF BotInv

\* What the invariant says of the updates.
LEMMA BotShows == BotInv => TelegramTypeOK /\ UpdatesHandled
<1> SUFFICES ASSUME BotInv PROVE TelegramTypeOK /\ UpdatesHandled
  OBVIOUS
<1>1. CloudInv /\ DeskTyped
  BY DEF BotInv
<1>2. provider \subseteq Pollers /\ Cardinality(provider) <= 1
  <2>1. CASE provider = {}
    BY <2>1, FS_EmptySet
  <2>2. ASSUME NEW p \in Pollers, provider = {p} PROVE provider \subseteq Pollers /\ Cardinality(provider) <= 1
    BY <2>2, FS_Singleton
  <2>3. QED
    BY <1>1, <2>1, <2>2 DEF CloudInv, Registered
<1>3. ASSUME NEW p \in Pollers
      PROVE  /\ poller[p].at \in Polls /\ poller[p].stop \in BOOLEAN
             /\ poller[p].offset \in 1 .. MaxUpdates + 1 /\ poller[p].batch \in Seq(Updates)
             /\ poller[p].site \in Projects \cup {NoSite}
             /\ poller[p].at \in {"batch", "database", "publish"} <=> poller[p].batch # <<>>
  <2>1. /\ poller[p].at \in Polls /\ poller[p].stop \in BOOLEAN /\ poller[p].batch \in Seq(Nat)
        /\ poller[p].site \in Projects \cup {NoSite} /\ Holding(poller[p])
    BY <1>1, PollerTyped
  <2>2. update \in Seq(Posts) /\ Len(update) \in Nat /\ Sent = 1 .. Len(update) /\ Len(update) <= MaxUpdates
    BY <1>1, LenProperties DEF CloudInv, CloudTyped, Sent
  <2>3. \A i \in 1 .. Len(poller[p].batch) : poller[p].batch[i] \in Updates
    <3>1. \A i \in 1 .. Len(poller[p].batch) : poller[p].batch[i] \in 1 .. Len(update)
      BY <2>1, <2>2 DEF Holding, Fetched
    <3>2. QED
      BY <2>2, <3>1, TelegramAssumption DEF Updates
  <2>4. poller[p].batch \in Seq(Updates)
    <3> DEFINE b == poller[p].batch
    <3> HIDE DEF b
    <3>1. b \in [1 .. Len(b) -> Nat] /\ Len(b) \in Nat /\ \A i \in 1 .. Len(b) : b[i] \in Updates
      BY <2>1, <2>3, LenProperties DEF b
    <3>2. b \in [1 .. Len(b) -> Updates]
      BY <3>1
    <3>3. QED
      BY <3>1, <3>2 DEF b
  <2>5. poller[p].offset \in 1 .. MaxUpdates + 1
    BY <2>1, <2>2, TelegramAssumption DEF Holding
  <2>6. QED
    BY <2>1, <2>4, <2>5 DEF Holding
<1>4. TelegramTypeOK
  BY <1>1, <1>2, <1>3 DEF TelegramTypeOK, CloudInv, CloudTyped, DeskTyped, Users, Sessions
<1>5. ASSUME NEW u \in Updates PROVE handled[u] > 1 => upset
  <2>1. handled[u] \in 0 .. 2 /\ upset \in BOOLEAN
    BY <1>1 DEF CloudInv, CloudTyped
  <2>2. upset = FALSE => handled[u] <= 1
    BY <1>1 DEF CloudInv, Undisturbed
  <2>3. QED
    BY <2>1, <2>2
<1>6. UpdatesHandled
  BY <1>1, <1>5 DEF CloudInv, UpdatesHandled
<1>7. QED
  BY <1>4, <1>6

-----------------------------------------------------------------------------
(* All of them                                                              *)

EdgeInv == area \in Areas /\ RealtimeInv /\ TunnelInv /\ BotInv /\ ChatInv

\* One part moves, the others stay.
LEMMA EdgeStep == EdgeInv /\ [EdgeNext]_edgeVars => EdgeInv'
<1> SUFFICES ASSUME EdgeInv, [EdgeNext]_edgeVars PROVE EdgeInv'
  OBVIOUS
<1>1. RealtimeInv /\ TunnelInv /\ BotInv /\ ChatInv /\ area \in Areas
  BY DEF EdgeInv
<1>2. area' = area
  BY DEF EdgeNext, edgeVars
<1>3. [RealtimeNext]_realtimeVars
  BY DEF EdgeNext, edgeVars, RealtimeNext
<1>4. [TunnelNext]_tunnelVars
  BY DEF EdgeNext, edgeVars
<1>5. [TelegramNext]_telegramVars
  BY DEF EdgeNext, edgeVars
<1>6. [ChatNext]_chatVars
  BY DEF EdgeNext, edgeVars
<1>7. RealtimeInv'
  BY <1>1, <1>3, RealtimeStep
<1>8. TunnelInv'
  BY <1>1, <1>4, TunnelStep
<1>9. BotInv'
  BY <1>1, <1>5, BotStep
<1>10. ChatInv'
  BY <1>1, <1>6, ChatStep
<1>11. QED
  BY <1>1, <1>2, <1>7, <1>8, <1>9, <1>10 DEF EdgeInv

\* Every behaviour of the six parts keeps the invariant of each.
THEOREM EdgeInvariant == EdgeSpec => []EdgeInv
<1>1. EdgeInit => EdgeInv
  BY RealtimeStart, TunnelStart, BotStart, ChatStart DEF EdgeInit, EdgeInv
<1>2. QED
  BY <1>1, EdgeStep, PTL DEF EdgeSpec

\* Every variable of the hub, the streams, the model endpoint, the bot, the tunnel and
\* the chat keeps its type.
THEOREM EdgeTyped == EdgeSpec => []EdgeTypeOK
<1>1. EdgeInv => EdgeTypeOK
  BY RealtimeShows, TunnelTyped, BotShows, ChatShows DEF EdgeInv, EdgeTypeOK
<1>2. QED
  BY <1>1, EdgeInvariant, PTL

\* The rooms, subscriptions, tunnels and local connections there are belong to
\* connections that live, whichever side closes first.
THEOREM NothingStaysOpen == EdgeSpec => []NothingLeftOpen
<1>1. EdgeInv => NothingLeftOpen
  BY RealtimeShows, TunnelShows DEF EdgeInv, NothingLeftOpen
<1>2. QED
  BY <1>1, EdgeInvariant, PTL

\* No asker is admitted more often than the limit within any minute.
THEOREM RateHoldsAlways == EdgeSpec => []RateHolds
<1>1. EdgeInv => RateHolds
  BY RealtimeShows DEF EdgeInv
<1>2. QED
  BY <1>1, EdgeInvariant, PTL

\* On each connection of the tunnel a body follows its own header, whatever other writers do.
THEOREM FramesStayPaired == EdgeSpec => []FramesPaired
<1>1. EdgeInv => FramesPaired
  BY TunnelShows DEF EdgeInv
<1>2. QED
  BY <1>1, EdgeInvariant, PTL

\* Telegram forgets an update only once its handler ran, and a handler runs twice only when
\* the process died, its poll was stopped, or two polls went on.
THEOREM UpdatesAreHandled == EdgeSpec => []UpdatesHandled
<1>1. EdgeInv => UpdatesHandled
  BY BotShows DEF EdgeInv
<1>2. QED
  BY <1>1, EdgeInvariant, PTL

\* What a request of the admin's chat loads is a conversation a model accepts, unless a
\* message was not saved, the process died among a group's calls, or two requests ran at once.
THEOREM HistoryStaysWellFormed == EdgeSpec => []HistoryWellFormed
<1>1. EdgeInv => HistoryWellFormed
  BY ChatShows DEF EdgeInv
<1>2. QED
  BY <1>1, EdgeInvariant, PTL

=============================================================================
