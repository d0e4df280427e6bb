------------------------------- MODULE MCEdge -------------------------------
(* The parts through which a site is visited and talked to, for TLC: the      *)
(* WebSocket hub, the event streams, the model endpoint, the bot, the tunnel  *)
(* and the admin's chat.  They share no state, so a behaviour picks an area   *)
(* at the start and only that area moves; the rest stays as it began.         *)
EXTENDS Realtime, Telegram, Tunnel, Chat

VARIABLE area

Areas == {"hub", "streams", "llm", "bot", "tunnel", "chat"}

edgeVars == <<area, realtimeVars, telegramVars, tunnelVars, chatVars>>

\* Where an area has several initial states they matter only when it is the one that moves.
EdgeInit ==
    /\ area \in Areas
    /\ RealtimeInit /\ TelegramInit /\ TunnelInit /\ ChatInit
    /\ area # "hub" => first = [c \in Clients |-> CHOOSE r \in Rooms : TRUE]
    /\ area # "bot" => token
    /\ area # "chat" => mode = "building"

EdgeNext ==
    /\ UNCHANGED area
    /\ \/ /\ area = "hub" /\ HubNext
          /\ UNCHANGED <<telegramVars, tunnelVars, chatVars>>
       \/ /\ area = "streams" /\ StreamNext
          /\ UNCHANGED <<telegramVars, tunnelVars, chatVars>>
       \/ /\ area = "llm" /\ LlmNext
          /\ UNCHANGED <<telegramVars, tunnelVars, chatVars>>
       \/ /\ area = "bot" /\ TelegramNext
          /\ UNCHANGED <<realtimeVars, tunnelVars, chatVars>>
       \/ /\ area = "tunnel" /\ TunnelNext
          /\ UNCHANGED <<realtimeVars, telegramVars, chatVars>>
       \/ /\ area = "chat" /\ ChatNext
          /\ UNCHANGED <<realtimeVars, telegramVars, tunnelVars>>

EdgeSpec == EdgeInit /\ [][EdgeNext]_edgeVars

\* Every variable of every part keeps its type, whatever interleaving of its
\* operations, failures and crashes it goes through.
EdgeTypeOK ==
    /\ area \in Areas
    /\ RealtimeTypeOK /\ TelegramTypeOK /\ TunnelTypeOK /\ ChatTypeOK

\* What is closed leaves nothing behind, in the hub, on the bus and in the tunnel:
\* the rooms, subscriptions, tunnels and local connections there are belong to
\* connections that live, whichever side closed first.
NothingLeftOpen == ConnectionsCleanUp /\ TunnelsCleanUp

=============================================================================
