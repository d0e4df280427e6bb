-------------------------------- MODULE Chat --------------------------------
(***************************************************************************)
(* A chat session of the admin (chat/session.go, handler.go, history.go):  *)
(* what a message of the owner sets off, and the history from which the    *)
(* next message takes the conversation.  A model refuses a conversation in *)
(* which a call of a tool is without its result, or a result without its   *)
(* call, so what matters of the history is how calls and results stand.    *)
(*                                                                         *)
(* Requests of one session run at the same time; each message is saved by  *)
(* a statement of its own, and the last Limit messages are what is loaded. *)
(***************************************************************************)
EXTENDS Naturals, Sequences

CONSTANTS
    Talkers,        \* requests that can be under way in the session
    Limit,          \* historyLimit
    MaxRounds,      \* chatMaxToolIterations
    MaxCallsOnce,   \* calls of tools in one answer of the model: BOUND of the model
    MaxSends,       \* messages ever sent: BOUND of the model
    MaxChatFaults   \* statements that fail and crashes: BOUND of the model

ASSUME ChatAssumption ==
    /\ Limit \in Nat \ {0} /\ MaxRounds \in Nat \ {0} /\ MaxCallsOnce \in Nat \ {0}
    /\ MaxSends \in Nat /\ MaxChatFaults \in Nat

VARIABLES
    history,        \* the last Limit messages of the session
    sender,         \* each request: what it does, its round, its group of calls and how many are left
    groups,         \* groups of calls so far
    mode,           \* the site is "building" or "monitoring"
    wakes,          \* CommandChat was published for the worker
    sends,          \* messages sent so far
    chatFaults,     \* failures so far
    disturbed       \* ghost: a message was not saved, or two requests saved theirs in turns

chatVars == <<history, sender, groups, mode, wakes, sends, chatFaults, disturbed>>

Text == [kind |-> "text", of |-> 0, n |-> 0]
CallsOf(g, n) == [kind |-> "calls", of |-> g, n |-> n]
ResultOf(g) == [kind |-> "result", of |-> g, n |-> 0]

NotSending == [at |-> "idle", round |-> 0, of |-> 0, left |-> 0, sound |-> TRUE]

ChatInit ==
    /\ history = <<>> /\ sender = [s \in Talkers |-> NotSending] /\ groups = 0
    /\ mode \in {"building", "monitoring"} /\ wakes = FALSE
    /\ sends = 0 /\ chatFaults = 0 /\ disturbed = FALSE

Stays(s, at) == sender[s].at = at
Others(s) == {r \in Talkers \ {s} : sender[r].at # "idle"}
ChatFails == chatFaults < MaxChatFaults /\ chatFaults' = chatFaults + 1

-----------------------------------------------------------------------------
(* The history *)

\* SaveMessage; in a group of another request it stands in the wrong place.
SaveMessage(s, m) ==
    /\ history' = LET h == Append(history, m)
                  IN  SubSeq(h, IF Len(h) > Limit THEN Len(h) - Limit + 1 ELSE 1, Len(h))
    /\ disturbed' = (disturbed \/ Others(s) # {})
    /\ UNCHANGED chatFaults

\* An error is logged, and the request goes on.
SaveFails == ChatFails /\ disturbed' = TRUE /\ UNCHANGED history

\* A group as a model wants it: the calls and then a result for each.
Complete(h, i) ==
    \A j \in i + 1 .. i + h[i].n : j <= Len(h) /\ h[j] = ResultOf(h[i].of)
Answers(h, i) ==
    \E j \in 1 .. i - 1 : h[j].kind = "calls" /\ h[j].of = h[i].of /\ i <= j + h[j].n
\* The results whose calls are before the first message loaded.
CutOff(h, i) == \A j \in 1 .. i : h[j].kind = "result"

WellFormed(h) == \A i \in DOMAIN h :
    /\ h[i].kind = "calls" => Complete(h, i)
    /\ h[i].kind = "result" => Answers(h, i) \/ CutOff(h, i)

-----------------------------------------------------------------------------
(* Send *)

\* The message of the owner is saved and published; the request fails when it is not saved.
Send(s) ==
    /\ Stays(s, "idle") /\ sends < MaxSends /\ sends' = sends + 1
    /\ SaveMessage(s, Text)
    /\ sender' = [sender EXCEPT ![s] = [NotSending EXCEPT !.at = "sent"]]
    /\ wakes' = TRUE
    /\ UNCHANGED <<groups, mode>>

\* A site in monitoring answers with its worker.
LeavesToWorker(s) ==
    /\ Stays(s, "sent") /\ mode = "monitoring"
    /\ sender' = [sender EXCEPT ![s] = NotSending]
    /\ UNCHANGED <<history, groups, mode, wakes, sends, chatFaults, disturbed>>

LoadHistory(s) ==
    /\ Stays(s, "sent") /\ mode # "monitoring"
    /\ sender' = [sender EXCEPT ![s].at = "ask", ![s].sound = WellFormed(history)]
    /\ UNCHANGED <<history, groups, mode, wakes, sends, chatFaults, disturbed>>

\* No provider, an error of the model, or the client has gone.
AskFails(s) ==
    /\ Stays(s, "ask") /\ sender' = [sender EXCEPT ![s] = NotSending]
    /\ UNCHANGED <<history, groups, mode, wakes, sends, chatFaults, disturbed>>

Replies(s) ==
    /\ Stays(s, "ask") /\ sender' = [sender EXCEPT ![s] = NotSending]
    /\ SaveMessage(s, Text) \/ (ChatFails /\ UNCHANGED <<history, disturbed>>)
    /\ UNCHANGED <<groups, mode, wakes, sends>>

\* The answer has calls: it is saved before they run.
CallsTools(s, n) ==
    /\ Stays(s, "ask") /\ groups' = groups + 1
    /\ sender' = [sender EXCEPT ![s].at = "tools", ![s].of = groups + 1, ![s].left = n]
    /\ SaveMessage(s, CallsOf(groups + 1, n)) \/ SaveFails
    /\ UNCHANGED <<mode, wakes, sends>>

\* After the last call the next round asks again, with what is in memory.
NextCall(s) ==
    LET me == sender[s]
        last == me.left = 1
        ends == last /\ me.round + 1 = MaxRounds
    IN  sender' = [sender EXCEPT ![s] =
                     IF ends THEN NotSending
                     ELSE [me EXCEPT !.left = me.left - 1, !.at = IF last THEN "ask" ELSE "tools",
                                     !.round = IF last THEN me.round + 1 ELSE me.round]]

\* Wrong on purpose: a tool that fails has no result to save.
RunsSaved(s) ==
    /\ Stays(s, "tools") /\ NextCall(s)
    /\ SaveMessage(s, ResultOf(sender[s].of)) \/ UNCHANGED <<history, disturbed, chatFaults>>
    /\ UNCHANGED <<groups, mode, wakes, sends>>

\* Executed within two minutes, or an error: either is a result.
RunsTool(s) ==
    /\ Stays(s, "tools") /\ NextCall(s)
    /\ SaveMessage(s, ResultOf(sender[s].of)) \/ SaveFails
    /\ UNCHANGED <<groups, mode, wakes, sends>>

\* A tool that is not for chats: the model is told, and nothing is saved.
RefusesTool(s) ==
    /\ Stays(s, "tools") /\ NextCall(s)
    /\ disturbed' = TRUE
    /\ UNCHANGED <<history, groups, mode, wakes, sends, chatFaults>>

\* The process dies: a group is cut short where it was.
ChatCrashes ==
    /\ ChatFails /\ \E s \in Talkers : sender[s].at # "idle"
    /\ disturbed' = (disturbed \/ \E s \in Talkers : sender[s].at = "tools")
    /\ sender' = [s \in Talkers |-> NotSending]
    /\ UNCHANGED <<history, groups, mode, wakes, sends>>

\* The worker changes the site's mode, and takes the command when it is not building.
ModeChanges ==
    /\ mode' \in {"building", "monitoring"} \ {mode}
    /\ UNCHANGED <<history, sender, groups, wakes, sends, chatFaults, disturbed>>

WorkerAnswers ==
    /\ wakes /\ mode = "monitoring" /\ wakes' = FALSE
    /\ UNCHANGED <<history, sender, groups, mode, sends, chatFaults, disturbed>>

ChatNext ==
    \/ ChatCrashes \/ ModeChanges \/ WorkerAnswers
    \/ \E s \in Talkers :
          \/ Send(s) \/ LeavesToWorker(s) \/ LoadHistory(s) \/ AskFails(s) \/ Replies(s)
          \/ RunsTool(s) \/ RefusesTool(s)
          \/ \E n \in 1 .. MaxCallsOnce : CallsTools(s, n)

ChatSpec == ChatInit /\ [][ChatNext]_chatVars

-----------------------------------------------------------------------------
(* Properties *)

\* Every variable keeps its type.
ChatTypeOK ==
    /\ Len(history) <= Limit
    /\ \A i \in DOMAIN history :
          history[i] \in [kind : {"text", "calls", "result"}, of : Nat, n : 0 .. MaxCallsOnce]
    /\ sender \in [Talkers -> [at : {"idle", "sent", "ask", "tools"}, round : 0 .. MaxRounds,
                               of : Nat, left : 0 .. MaxCallsOnce, sound : BOOLEAN]]
    /\ groups \in Nat /\ mode \in {"building", "monitoring"}
    /\ wakes \in BOOLEAN /\ disturbed \in BOOLEAN
    /\ sends \in 0 .. MaxSends /\ chatFaults \in 0 .. MaxChatFaults

\* What a request loads is a conversation a model accepts but for results at its
\* start, whichever requests before it failed, ran out of rounds or lost their client:
\* only a message that was not saved (refused tools among them), a crash between calls
\* and results, or two requests of the session at the same time spoil it.
HistoryWellFormed ==
    \A s \in Talkers : sender[s].at \in {"ask", "tools"} => sender[s].sound \/ disturbed

=============================================================================
