------------------------------ MODULE ToolLoop ------------------------------
(***************************************************************************)
(* The tool loop of a BUILD (src/brain/tool_loop.go): the language model    *)
(* is called with the conversation so far, its tool calls run side by side  *)
(* under a semaphore and a timeout, their results are appended in the order *)
(* of the calls, what succeeded is marked in the progress tracker, and the  *)
(* conversation is pruned, checkpointed, and restored by the next BUILD     *)
(* after a crash, a failure or a pause for the owner.                       *)
(*                                                                          *)
(* A message is a record with a role; "anchor" and "context" are the user   *)
(* messages injectAnchors adds, "user" every other user message.  Tables    *)
(* stands for tables and endpoints (one kind of infrastructure is enough).  *)
(***************************************************************************)
EXTENDS Integers, FiniteSets, Sequences, SequencesExt

CONSTANTS
  Tables, Pages,     \* the names the model may create
  Plan,              \* those of them that are items of the plan
  MaxIter,           \* iterations of the loop (maxIter, 50 to 180 in the code)
  MaxContinuations,  \* cut-off answers that end the loop (5 in the code)
  MaxRetries,        \* attempts per provider (maxLLMRetries, 3 in the code)
  Slots,             \* maxConcurrentToolCalls (4 in the code)
  TokenBudget,       \* tokens of a build (3 000 000 in the code)
  PriorTokens,       \* tokens the stages before BUILD have used
  Costs, MaxAnswer,  \* what an answer may be charged, with its prompt, and the most
  Window, Slack,     \* recentWindow (18 to 24 in the code) and the 8 added to it
  AnchorFloor,       \* anchors that always survive pruning (14 in the code)
  MaxCalls,          \* bound: calls in one response
  MaxTotalCalls,     \* bound: calls in all
  MaxFaults          \* bound: crashes, provider errors, failed and hanging calls

ASSUME ToolLoopAssumption ==
  /\ IsFiniteSet(Tables) /\ IsFiniteSet(Pages) /\ Tables \cap Pages = {}
  /\ Plan \subseteq Tables \cup Pages
  /\ {MaxIter, MaxContinuations, MaxRetries, Slots, TokenBudget, MaxAnswer, Window,
      AnchorFloor, MaxCalls} \subseteq Nat \ {0}
  /\ Costs \subseteq 0..MaxAnswer
  /\ {Slack, PriorTokens, MaxTotalCalls, MaxFaults} \subseteq Nat

VARIABLES
  loop,            \* the goroutine in runToolLoop: where it is and its locals
  bp,              \* w.buildProgress and the anchor store's dedup set
  messages,        \* the conversation
  group,           \* the calls of this iteration, each with its state
  made,            \* items that exist in the site's database
  late,            \* calls given up at their timeout whose goroutines go on
  undone,          \* history: items such a call has removed, and nobody made again
  checkpoint,      \* checkpoint_messages; <<>> is NULL
  pauseRequested,  \* w.pauseRequested
  spent,           \* w.costTracker.totalTokens: the stages before this loop
  prompt,          \* "calm", or the 90% warning was sent (costTracker.wrapUpSent)
  burnt,           \* history: tokens of the whole build
  breaks,          \* history: loops of this build that were paused, failed or crashed
  faults, asked    \* the bounds' counters

loopVars == <<loop, bp, messages, group, pauseRequested, spent, prompt>>
vars == <<loopVars, made, late, undone, checkpoint, burnt, breaks, faults, asked>>

Items == Tables \cup Pages
Ops == {"create", "drop", "read", "ask", "malformed"}
NoItem == "-"
broken == breaks > 0

Idle == [pc |-> "off", iter |-> 0, conts |-> 0, tokens |-> 0, attempt |-> 0,
         fallback |-> FALSE, end |-> "none"]
NoProgress == [done |-> {}, seen |-> {}, saved |-> FALSE, grace |-> 0, readOnly |-> 0,
               nudged |-> FALSE]

User == [role |-> "user"]
Progress == [role |-> "progress"]
Anchor(x) == [role |-> "anchor", of |-> x]
Context == [role |-> "context"]
Assistant(cs) == [role |-> "assistant", calls |-> cs]
Result(c) == [role |-> "tool", call |-> c]
IsUser(m) == m.role \in {"user", "progress", "anchor", "context"}

-----------------------------------------------------------------------------
(* The progress tracker.  Both counts are counts of names the model used,   *)
(* whether the plan has them or not.                                        *)

Done(d, kind) == Cardinality(d \cap kind) >= Cardinality(Plan \cap kind)

allComplete(d) == Done(d, Tables) /\ Done(d, Pages)

infrastructureComplete(d) == Done(d, Tables) /\ ~ Done(d, Pages)

remainingItems(d) == Plan \ d

-----------------------------------------------------------------------------
(* Pruning.                                                                 *)

\* Only the latest [PAGE_CTX] message is kept.
WithoutStaleContext(ms) ==
  LET Stale(i) == ms[i].role = "context" /\ \E j \in i + 1..Len(ms) : ms[j].role = "context"
  IN  FlattenSeq([i \in DOMAIN ms |-> IF Stale(i) THEN <<>> ELSE <<ms[i]>>])

\* The window of recent messages, backed up over results to the nearest other message.
RecentStart(ms) ==
  LET first == Len(ms) - Window + 1
      heads == {i \in 2..first : ms[i].role # "tool"}
  IN  IF heads = {} THEN 2 ELSE CHOOSE i \in heads : \A j \in heads : j <= i

AnchorBudget(n) == LET most == AnchorFloor + n \div 3 IN IF most > 24 THEN 24 ELSE most

Anchors(ms) == {i \in DOMAIN ms : ms[i].role = "anchor"}

Summarised(m) == m.role = "assistant" /\ \E c \in ToSet(m.calls) : c.op = "create"

\* The messages before the window: anchors stay, runs of calls between them become one
\* progress message, everything else goes.
Collapse(ms, budget) ==
  LET anchors == Anchors(ms)
      keep == {i \in anchors : Cardinality({j \in anchors : j <= i}) <= budget}
      Pending(i) == \E j \in 1..i - 1 : Summarised(ms[j]) /\ keep \cap (j..i - 1) = {}
      ProgressBefore(i) == IF Pending(i) THEN <<Progress>> ELSE <<>>
  IN  FlattenSeq([i \in DOMAIN ms |-> IF i \in keep THEN ProgressBefore(i) \o <<ms[i]>> ELSE <<>>])
        \o ProgressBefore(Len(ms) + 1)

\* What of the messages after the first lies before the window.
Old(ms) == SubSeq(ms, 2, RecentStart(ms) - 1)

\* The next conversation is ms, pruned.
pruneMessages(ms) ==
  \E kept \in {WithoutStaleContext(ms)} :
    IF Len(ms) <= Window + 1 \/ Len(kept) <= Window + 1
    THEN messages' = IF Len(ms) <= Window + 1 THEN ms ELSE kept
    ELSE \E old \in {Old(kept)} :
           LET budget == AnchorBudget(Cardinality(Anchors(SubSeq(kept, 2, Len(kept) - Window))))
           IN  messages' = <<kept[1]>> \o Collapse(old, budget) \o SubSeq(kept, Len(old) + 2, Len(kept))

-----------------------------------------------------------------------------
Init ==
  /\ loop = Idle
  /\ bp = NoProgress
  /\ messages = <<>> /\ group = <<>> /\ checkpoint = <<>>
  /\ made = {} /\ late = {} /\ undone = {}
  /\ pauseRequested = FALSE
  /\ spent \in {0, PriorTokens}  \* a worker that starts with BUILD, or with an earlier stage
  /\ prompt = "calm"
  /\ burnt = spent
  /\ breaks = 0
  /\ faults = 0 /\ asked = 0

\* runBuild up to the loop: a fresh conversation, or the checkpoint if anything exists.
Start ==
  /\ loop.pc = "off"
  /\ LET restored == made # {} /\ checkpoint # <<>>
     IN  /\ messages' = (IF restored THEN checkpoint ELSE <<>>) \o <<User>>
         /\ bp' = [NoProgress EXCEPT !.saved = restored]
  /\ loop' = [Idle EXCEPT !.pc = "llm"]
  /\ group' = <<>>
  /\ UNCHANGED <<pauseRequested, spent, prompt, made, late, undone, checkpoint, burnt, breaks, faults, asked>>

Ends(why) == loop' = [loop EXCEPT !.pc = "end", !.end = why]

\* A limit that is one too high.
AgainOnceMore(l) ==
  loop' = IF l.iter = MaxIter
          THEN [l EXCEPT !.pc = "end", !.end = "iterations"]
          ELSE [l EXCEPT !.pc = "llm", !.iter = @ + 1, !.attempt = 0, !.fallback = FALSE]

\* The loop's head: the next iteration, or the end of the iterations.
Again(l) ==
  loop' = IF l.iter + 1 = MaxIter
          THEN [l EXCEPT !.pc = "end", !.end = "iterations", !.iter = @ + 1]
          ELSE [l EXCEPT !.pc = "llm", !.iter = @ + 1, !.attempt = 0, !.fallback = FALSE]

-----------------------------------------------------------------------------
(* One call of the language model.                                          *)

\* callWithRetryOnProvider: an error that will not go away on a retry, or the last attempt,
\* moves callWithRetry to the fallback provider, and from there to the caller.
LLMFails ==
  /\ loop.pc = "llm"
  /\ faults < MaxFaults
  /\ faults' = faults + 1
  /\ \E permanent \in BOOLEAN, another \in BOOLEAN :
       LET over == permanent \/ loop.attempt + 1 = MaxRetries
       IN  \/ /\ ~ over
              /\ loop' = [loop EXCEPT !.attempt = @ + 1]
           \/ /\ over /\ ~ loop.fallback /\ another
              /\ loop' = [loop EXCEPT !.attempt = 0, !.fallback = TRUE]
           \/ /\ over /\ (loop.fallback \/ ~ another)
              /\ Ends("failed")
  /\ UNCHANGED <<bp, messages, group, pauseRequested, spent, prompt, made, late, undone, checkpoint, burnt, breaks, asked>>

\* The tokens of this loop alone.
ProjectedHere(l) == l.tokens

\* What the budget governor compares with the budget.
Projected(l) == spent + l.tokens

\* The loop with the tokens of an answer added: what they are is known when it is there,
\* and a provider that reports no usage costs nothing.
Charged == {[loop EXCEPT !.tokens = @ + cost] : cost \in Costs}

\* The tokens of an answer are counted before anything else.
Answered(l) ==
  /\ loop.pc = "llm"
  /\ l \in Charged
  /\ burnt' = burnt + (l.tokens - loop.tokens)
  /\ UNCHANGED <<spent, made, late, undone, checkpoint, breaks, faults>>

WithinBudget(l) == Projected(l) < TokenBudget

\* At 90% of the budget a warning enters the conversation, once.
Warned(l, ms) ==
  IF prompt = "calm" /\ Projected(l) >= (TokenBudget * 9) \div 10
  THEN prompt' = "warned" /\ messages' = Append(messages, User) \o ms
  ELSE prompt' = prompt /\ messages' = messages \o ms

BudgetExhausted ==
  \E l \in Charged :
    /\ Answered(l)
    /\ ~ WithinBudget(l)
    /\ loop' = [l EXCEPT !.pc = "end", !.end = "budget"]
    /\ UNCHANGED <<bp, messages, group, pauseRequested, prompt, asked>>

\* An answer without calls ends the loop.
FinalAnswer ==
  \E l \in Charged :
    /\ Answered(l)
    /\ WithinBudget(l)
    /\ Warned(l, <<>>)
    /\ loop' = [l EXCEPT !.pc = "end", !.end = "finished"]
    /\ UNCHANGED <<bp, group, pauseRequested, asked>>

\* An answer cut off before any call is continued a limited number of times.
CutOff ==
  \E l \in Charged :
    /\ Answered(l)
    /\ WithinBudget(l)
    /\ IF l.conts + 1 >= MaxContinuations
       THEN /\ Warned(l, <<>>)
            /\ loop' = [l EXCEPT !.conts = @ + 1, !.pc = "end", !.end = "limit"]
       ELSE /\ Warned(l, <<Assistant(<<>>), User>>)
            /\ Again([l EXCEPT !.conts = @ + 1])
    /\ UNCHANGED <<bp, group, pauseRequested, asked>>

\* An answer whose only call is cut off is continued too, without the limit.
CallTruncated ==
  \E l \in Charged :
    /\ Answered(l)
    /\ WithinBudget(l)
    /\ asked < MaxTotalCalls
    /\ asked' = asked + 1
    /\ Warned(l, <<Assistant(<<>>), User>>)
    /\ Again([l EXCEPT !.conts = @ + 1])
    /\ UNCHANGED <<bp, group, pauseRequested>>

\* What a call can be: an item can be dropped once it exists.
CallShapes ==
  {[op |-> "create", item |-> x] : x \in Items} \cup {[op |-> "drop", item |-> x] : x \in made}
  \cup {[op |-> o, item |-> NoItem] : o \in {"read", "ask", "malformed"}}

Calls(n) ==
  {[i \in 1..n |-> [n |-> asked + i, op |-> f[i].op, item |-> f[i].item]] : f \in [1..n -> CallShapes]}

\* An answer with calls: they are appended to the conversation; a call whose arguments do
\* not parse gets its result without being run.
CallTools ==
  \E l \in Charged, n \in 1..MaxCalls :
    /\ Answered(l)
    /\ WithinBudget(l)
    /\ asked + n <= MaxTotalCalls
    /\ \E cs \in Calls(n) :
         /\ Warned(l, <<Assistant(cs)>>)
         /\ group' = [i \in 1..n |->
              [call |-> cs[i], st |-> IF cs[i].op = "malformed" THEN "failed" ELSE "waiting"]]
    /\ asked' = asked + n
    /\ loop' = [l EXCEPT !.pc = "tools"]
    /\ UNCHANGED <<bp, pauseRequested>>

-----------------------------------------------------------------------------
(* executeToolCalls.                                                        *)

ToolStep(i, from, to) ==
  /\ loop.pc = "tools"
  /\ i \in DOMAIN group
  /\ group[i].st = from
  /\ group' = [group EXCEPT ![i].st = to]
  /\ UNCHANGED <<loop, bp, messages, pauseRequested, spent, prompt, checkpoint, burnt, breaks, asked>>

\* A goroutine gets one of the slots.
TakeSlot(i) ==
  /\ Cardinality({j \in DOMAIN group : group[j].st \in {"running", "hanging"}}) < Slots
  /\ ToolStep(i, "waiting", "running")
  /\ UNCHANGED <<made, late, undone, faults>>

\* The tool succeeds; a question or a read leaves the items alone.
ToolSucceeds(i) ==
  /\ ToolStep(i, "running", "ok")
  /\ made' = CASE group[i].call.op = "create" -> made \cup {group[i].call.item}
               [] group[i].call.op = "drop" -> made \ {group[i].call.item}
               [] OTHER -> made
  /\ undone' = undone \ made'
  /\ UNCHANGED <<late, faults>>

\* The tool returns an error or panics, or returns a result that says success: false.
ToolFails(i) ==
  /\ faults < MaxFaults
  /\ faults' = faults + 1
  /\ ToolStep(i, "running", "failed")
  /\ UNCHANGED <<made, late, undone>>

ToolHangs(i) ==
  /\ faults < MaxFaults
  /\ faults' = faults + 1
  /\ ToolStep(i, "running", "hanging")
  /\ UNCHANGED <<made, late, undone>>

\* An executor that waits for its tool.
ToolNeverTimesOut(i) == FALSE /\ UNCHANGED vars

\* Executor.Execute gives up at its timeout and frees the slot; the tool goes on.
ToolTimesOut(i) ==
  /\ ToolStep(i, "hanging", "failed")
  /\ late' = IF group[i].call.op \in {"create", "drop"} THEN late \cup {group[i].call} ELSE late
  /\ UNCHANGED <<made, undone, faults>>

\* A tool that was given up creates or drops its item after all, at any time, or never.
LateWrite ==
  /\ \E c \in late :
       /\ late' = late \ {c}
       /\ made' \in {made, IF c.op = "create" THEN made \cup {c.item} ELSE made \ {c.item}}
  /\ undone' = (undone \cup (made \ made')) \ made'
  /\ UNCHANGED <<loopVars, checkpoint, burnt, breaks, faults, asked>>

\* Success as the absence of a rejection.
AnyResultSucceeds(st) == TRUE

\* What counts as a success: no error, and no "success": false in the result.
toolResultSucceeded(st) == st = "ok"

\* The items marked as done after the first k results.
trackToolResult(k) ==
  bp.done \cup {group[i].call.item : i \in {j \in 1..k : /\ toolResultSucceeded(group[j].st)
                                                         /\ group[j].call.op = "create"}}

\* injectAnchors: a schema anchor once per content, the page context after every page.
injectAnchors(i) ==
  LET c == group[i].call
  IN  CASE ~ toolResultSucceeded(group[i].st) \/ c.op # "create" -> <<>>
        [] c.item \in Tables /\ c.item \notin bp.seen \cup (trackToolResult(i - 1) \ bp.done) -> <<Anchor(c.item)>>
        [] c.item \notin Tables -> <<Context>>
        [] OTHER -> <<>>

\* The conversation without the results of failed calls.
ToldSucceeded(k) ==
  messages \o FlattenSeq([i \in 1..k |->
    IF toolResultSucceeded(group[i].st) THEN <<Result(group[i].call)>> \o injectAnchors(i) ELSE <<>>])

\* The conversation with the first k results and what was injected after each of them.
Told(k) == messages \o FlattenSeq([i \in 1..k |-> <<Result(group[i].call)>> \o injectAnchors(i)])

\* The results after which every table and endpoint is there and a page is missing.
CheckpointsAt ==
  {k \in DOMAIN group : toolResultSucceeded(group[k].st) /\ infrastructureComplete(trackToolResult(k))}

\* After wg.Wait: the results in the order of the calls, each with its mark and its anchors;
\* the first that completes the infrastructure saves the conversation so far.
CollectResults ==
  /\ loop.pc = "tools"
  /\ \A i \in DOMAIN group : group[i].st \in {"ok", "failed"}
  /\ messages' = Told(Len(group))
  /\ bp' = [bp EXCEPT !.done = trackToolResult(Len(group)),
                      !.seen = @ \cup (trackToolResult(Len(group)) \cap Tables),
                      !.saved = @ \/ CheckpointsAt # {}]
  /\ IF bp.saved \/ CheckpointsAt = {} THEN UNCHANGED checkpoint
     ELSE \E k \in CheckpointsAt :
            /\ \A j \in CheckpointsAt : k <= j
            /\ checkpoint' = Append(Told(k - 1), Result(group[k].call))
  /\ pauseRequested' = (pauseRequested \/ \E i \in DOMAIN group :
                          toolResultSucceeded(group[i].st) /\ group[i].call.op = "ask")
  /\ loop' = [loop EXCEPT !.pc = "judge"]
  /\ UNCHANGED <<group, spent, prompt, made, late, undone, burnt, breaks, faults, asked>>

-----------------------------------------------------------------------------
(* The rest of the iteration.                                               *)

\* A secret was asked for: checkpoint, pause, out of the loop.
PauseForOwner ==
  /\ loop.pc = "judge"
  /\ pauseRequested
  /\ pauseRequested' = FALSE
  /\ checkpoint' = messages
  /\ Ends("paused")
  /\ UNCHANGED <<bp, messages, group, spent, prompt, made, late, undone, burnt, breaks, faults, asked>>

hasWrites == \E i \in DOMAIN group : group[i].call.op \in {"create", "drop", "ask"}

GraceLimit == 2
Graced ==
  IF allComplete(bp.done)
  THEN [bp EXCEPT !.grace = @ + 1, !.readOnly = IF hasWrites THEN 0 ELSE @ + 1]
  ELSE bp

\* Everything is marked as built and the grace window is used up.
StopComplete ==
  /\ loop.pc = "judge"
  /\ ~ pauseRequested
  /\ allComplete(bp.done)
  /\ Graced.readOnly >= GraceLimit \/ Graced.grace > GraceLimit
  /\ bp' = Graced
  /\ Ends("complete")
  /\ UNCHANGED <<messages, group, pauseRequested, spent, prompt, made, late, undone, checkpoint, burnt, breaks, faults, asked>>

\* The reminder of what is missing, once, late in the iterations; then pruning.
GoOn ==
  /\ loop.pc = "judge"
  /\ ~ pauseRequested
  /\ ~ (allComplete(bp.done) /\ (Graced.readOnly >= GraceLimit \/ Graced.grace > GraceLimit))
  /\ \E nudge \in {~ bp.nudged /\ loop.iter >= (MaxIter * 3) \div 4 /\ remainingItems(bp.done) # {}} :
       /\ bp' = [Graced EXCEPT !.nudged = @ \/ nudge]
       /\ \E ms \in {IF nudge THEN Append(messages, User) ELSE messages} :
            IF Len(ms) > Window + Slack THEN pruneMessages(ms) ELSE messages' = ms
  /\ group' = <<>>
  /\ Again(loop)
  /\ UNCHANGED <<pauseRequested, spent, prompt, made, late, undone, checkpoint, burnt, breaks, faults, asked>>

-----------------------------------------------------------------------------
(* After the loop, and crashes.                                             *)

\* runBuild after the loop.  A paused build leaves the build loop and starts a new cost
\* tracker when it resumes; any other end drops the checkpoint; only a success is charged.
AfterLoop ==
  /\ loop.pc = "end"
  /\ CASE loop.end = "paused" ->
            /\ loop' = Idle
            /\ spent' = 0 /\ prompt' = "calm" /\ breaks' = breaks + 1
            /\ UNCHANGED checkpoint
       [] loop.end = "failed" ->
            /\ loop' = Idle
            /\ checkpoint' = <<>> /\ breaks' = breaks + 1
            /\ UNCHANGED <<spent, prompt>>
       [] OTHER ->
            /\ loop' = [loop EXCEPT !.pc = "built"]
            /\ checkpoint' = <<>>
            /\ spent' = spent + loop.tokens
            /\ UNCHANGED <<prompt, breaks>>
  /\ bp' = IF loop.end \in {"paused", "failed"} THEN NoProgress ELSE bp
  /\ messages' = <<>> /\ group' = <<>>
  /\ UNCHANGED <<pauseRequested, made, late, undone, burnt, faults, asked>>

\* The process dies: the database keeps the items and the checkpoint.
Crash ==
  /\ loop.pc \notin {"off", "built"}
  /\ faults < MaxFaults
  /\ faults' = faults + 1
  /\ loop' = Idle /\ bp' = NoProgress
  /\ messages' = <<>> /\ group' = <<>> /\ late' = {}
  /\ pauseRequested' = FALSE
  /\ spent' = 0 /\ prompt' = "calm"
  /\ breaks' = breaks + 1
  /\ UNCHANGED <<made, undone, checkpoint, burnt, asked>>

LLM == LLMFails \/ BudgetExhausted \/ FinalAnswer \/ CutOff \/ CallTruncated \/ CallTools
Judge == PauseForOwner \/ StopComplete \/ GoOn
Loop == Start \/ LLM \/ CollectResults \/ Judge \/ AfterLoop
Tools == \E i \in 1..MaxCalls : TakeSlot(i) \/ ToolSucceeds(i) \/ ToolFails(i) \/ ToolHangs(i)
Timeouts == \E i \in 1..MaxCalls : ToolTimesOut(i)

Next == Loop \/ Tools \/ Timeouts \/ LateWrite \/ Crash

\* The loop's goroutine runs, a provider call ends (with an answer or at llmTimeout), a tool
\* that does not hang returns, and a timeout fires.
ToolLoopSpec == Init /\ [][Next]_vars /\ WF_vars(Loop) /\ WF_vars(Tools) /\ WF_vars(Timeouts)

-----------------------------------------------------------------------------
(* Properties.                                                              *)

CallSet == [n : Nat, op : Ops, item : Items \cup {NoItem}]
MessageOK(m) ==
  CASE m.role = "assistant" -> \A c \in ToSet(m.calls) : c \in CallSet
    [] m.role = "tool" -> m.call \in CallSet
    [] m.role = "anchor" -> m.of \in Tables
    [] OTHER -> m.role \in {"user", "progress", "context"}

\* The types of the loop's locals and of the rows it writes; the loop never runs an
\* iteration past its limit and never asks a provider once more than the limit.
ToolLoopTypeOK ==
  /\ loop.pc \in {"off", "llm", "tools", "judge", "end", "built"}
  /\ loop.end \in {"none", "finished", "complete", "budget", "limit", "iterations", "failed", "paused"}
  /\ loop.iter \in 0..MaxIter /\ loop.attempt \in 0..MaxRetries - 1
  /\ loop.pc = "llm" => loop.iter < MaxIter
  /\ loop.tokens \in Nat /\ loop.conts \in Nat /\ loop.fallback \in BOOLEAN
  /\ bp.done \subseteq Items /\ bp.seen \subseteq Tables
  /\ bp.saved \in BOOLEAN /\ bp.nudged \in BOOLEAN
  /\ bp.grace \in 0..GraceLimit + 1 /\ bp.readOnly \in 0..GraceLimit
  /\ made \subseteq Items /\ undone \subseteq Items /\ late \subseteq CallSet
  /\ \A m \in ToSet(messages) \cup ToSet(checkpoint) : MessageOK(m)
  /\ \A g \in ToSet(group) : g.call \in CallSet /\ g.st \in {"waiting", "running", "hanging", "ok", "failed"}
  /\ pauseRequested \in BOOLEAN /\ prompt \in {"calm", "warned"}
  /\ {spent, burnt, breaks, faults, asked} \subseteq Nat

\* What the tracker marks as done was done: a name is marked only in the step that reads
\* the result of a call that made it.  If the item is not there any more, a call removed it:
\* one of the same group, or one that was given up and went on in its goroutine
\* (src/tools/executor.go), and nothing else has made it since.
MarksAreEarned ==
  [][\A x \in bp'.done \ bp.done :
       \/ x \in made
       \/ \E i \in DOMAIN group : group[i].call.op = "drop" /\ group[i].call.item = x
       \/ x \in undone]_vars

\* Where the results of the calls of the message at i stand.
Answers(i) ==
  {j \in DOMAIN messages : messages[j].role = "tool" /\ messages[j].call \in ToSet(messages[i].calls)}

Injected(m) == m.role \in {"anchor", "context"}

\* A conversation sent to the provider keeps calls and results together: the results of a
\* message's calls follow it, one for each call and in the order of the calls, whatever order
\* the calls ended in, with nothing but injected messages between them; all of them, unless
\* the conversation was cut by a checkpoint and a restart, and then the first of them.  And a
\* result whose call was pruned away comes before every call that is still there.
GroupsInOrder ==
  loop.pc = "llm" =>
    \A i \in DOMAIN messages :
      /\ messages[i].role = "assistant" =>
           LET calls == messages[i].calls
           IN  /\ \A j \in Answers(i) :
                    /\ i < j
                    /\ \A h \in i + 1..j - 1 : Injected(messages[h]) \/ h \in Answers(i)
                    /\ \A k \in DOMAIN calls : calls[k] = messages[j].call =>
                         \A m \in 1..k - 1 : \E h \in i + 1..j - 1 : h \in Answers(i) /\ messages[h].call = calls[m]
               /\ \A j, h \in Answers(i) : messages[j].call = messages[h].call => j = h
               /\ ~ broken => \A k \in DOMAIN calls : \E j \in Answers(i) : messages[j].call = calls[k]
      /\ messages[i].role = "tool" =>
           \/ \E h \in DOMAIN messages : messages[h].role = "assistant" /\ i \in Answers(h)
           \/ \A h \in 1..i - 1 : messages[h].role # "assistant"

\* Pruning separates a result from its call only where a message was injected between them:
\* it backs up over results, and stops at whatever else it meets (src/brain/messages.go:89).
CutsAtInjected ==
  [][loop.pc = "judge" /\ loop'.pc = "llm" =>
       \A i \in DOMAIN messages : messages[i].role = "assistant" /\ messages[i] \notin ToSet(messages') =>
         \A j \in Answers(i) : messages[j] \in ToSet(messages') =>
           \E h \in i + 1..j - 1 : Injected(messages[h])]_vars

\* What one run of the loop can bring the account to: the governor looks at the budget after
\* every answer and asks for no other one once it is reached, so the answer that reaches it
\* is paid in full, and so is the first one of a build that has used its budget up before.
Ceiling ==
  MaxAnswer + (IF PriorTokens < TokenBudget THEN TokenBudget - 1 ELSE PriorTokens)

\* The budget bounds a whole build ("hard ceiling for the entire build",
\* src/brain/progress.go:129), all its loops together: each time a loop is paused, fails or
\* crashes its tokens are forgotten, and the build may use the ceiling once more.
BudgetHolds == burnt <= (breaks + 1) * Ceiling

\* A build's tool loop ends, though a tool hangs or a provider fails.
LoopEnds == loop.pc \in {"llm", "tools", "judge", "end"} ~> loop.pc \in {"off", "built"}

=============================================================================
