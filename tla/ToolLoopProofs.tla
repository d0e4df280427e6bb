--------------------------- MODULE ToolLoopProofs ---------------------------
(***************************************************************************)
(* Theorems about the tool loop of a build, for every limit, every plan and *)
(* every window of the conversation: its types, the token budget, the marks *)
(* of the progress tracker, and the order of calls and results in the       *)
(* conversation that is sent, checkpointed, restored and pruned.            *)
(*                                                                         *)
(* The conversation is built with FlattenSeq, a recursive function.  What   *)
(* holds of its steps is shown from the least step at which it would fail   *)
(* (Least, Upto): the library's induction theorems take an operator.        *)
(***************************************************************************)
EXTENDS ToolLoop, TLAPS, WellFoundedInduction

-----------------------------------------------------------------------------
\* A set of natural numbers with a member has a least one.
LEMMA Least == ASSUME NEW S \in SUBSET Nat, S # {} PROVE \E m \in S : \A k \in S : m <= k
<1> DEFINE R == OpToRel(<, Nat)
<1>1. \A x, y \in Nat : <<y, x>> \in R <=> y < x
  BY DEF OpToRel
<1>2. IsWellFoundedOn(R, Nat)
  BY NatLessThanWellFounded
<1> HIDE DEF R
<1>3. PICK m \in S : \A y \in S : ~ (<<y, m>> \in R)
  BY <1>2, WFMin
<1>4. ASSUME NEW k \in S PROVE m <= k
  <2>1. k \in Nat /\ m \in Nat /\ ~ (<<k, m>> \in R)
    BY <1>3
  <2>2. ~ (k < m)
    BY <1>1, <2>1
  <2>3. QED
    BY <2>1, <2>2
<1>5. QED
  BY <1>4

\* Induction up to n, from the least counterexample.
LEMMA Upto ==
    ASSUME NEW n \in Nat, NEW S, n > 0 => 1 \in S, \A i \in 1 .. n - 1 : i \in S => i + 1 \in S
    PROVE  1 .. n \subseteq S
<1>1. SUFFICES ASSUME ~(1 .. n \subseteq S) PROVE FALSE
  OBVIOUS
<1> DEFINE T == {i \in 1 .. n : i \notin S}
<1>2. T \in SUBSET Nat /\ T # {}
  BY <1>1
<1>3. PICK m \in T : \A k \in T : m <= k
  BY <1>2, Least
<1>4. m \in 1 .. n /\ m \notin S
  BY <1>3
<1>5. m > 1
  BY <1>4
<1>6. m - 1 \in 1 .. n - 1 /\ m - 1 \notin T
  BY <1>3, <1>4, <1>5
<1>7. m - 1 \in S
  BY <1>6
<1>8. QED
  BY <1>4, <1>6, <1>7

\* FlattenSeq joins the sequences one after the other.
LEMMA FlattenSteps ==
    ASSUME NEW M, NEW s \in Seq(Seq(M)), s # <<>>
    PROVE  \E f \in [1 .. Len(s) -> Seq(M)] :
              /\ f[1] = s[1] /\ FlattenSeq(s) = f[Len(s)]
              /\ \A i \in 1 .. Len(s) - 1 : f[i + 1] = f[i] \o s[i + 1]
<1> DEFINE n == Len(s)
           Def(f, m) == f = [i \in 1 .. m |-> IF i = 1 THEN s[i] ELSE f[i - 1] \o s[i]]
           S == {m \in 1 .. n : \E f \in [1 .. m -> Seq(M)] : Def(f, m)}
<1>1. n \in Nat /\ n > 0 /\ \A i \in 1 .. n : s[i] \in Seq(M)
  OBVIOUS
<1>2. 1 \in S
  <2> DEFINE f == [i \in 1 .. 1 |-> s[i]]
  <2>1. f \in [1 .. 1 -> Seq(M)] /\ Def(f, 1)
    BY <1>1
  <2> HIDE DEF f
  <2>2. 1 \in 1 .. n /\ \E h \in [1 .. 1 -> Seq(M)] : Def(h, 1)
    BY <1>1, <2>1
  <2>3. QED
    BY <2>2
<1>3. ASSUME NEW m \in 1 .. n - 1, m \in S PROVE m + 1 \in S
  <2>1. PICK f \in [1 .. m -> Seq(M)] : Def(f, m)
    BY <1>3
  <2> DEFINE g == [i \in 1 .. m + 1 |-> IF i <= m THEN f[i] ELSE f[m] \o s[m + 1]]
  <2>2. f[m] \in Seq(M) /\ s[m + 1] \in Seq(M) /\ m + 1 \in 1 .. n
    BY <1>1
  <2>3. f[m] \o s[m + 1] \in Seq(M)
    BY <2>2
  <2>4. g \in [1 .. m + 1 -> Seq(M)]
    BY <2>3
  <2>5. \A i \in 1 .. m + 1 : g[i] = IF i = 1 THEN s[i] ELSE g[i - 1] \o s[i]
    <3>1. ASSUME NEW i \in 1 .. m PROVE g[i] = IF i = 1 THEN s[i] ELSE g[i - 1] \o s[i]
      <4>1. f[i] = IF i = 1 THEN s[i] ELSE f[i - 1] \o s[i]
        BY <2>1
      <4>2. g[i] = f[i] /\ (i # 1 => g[i - 1] = f[i - 1])
        BY m \in Nat
      <4>3. QED
        BY <4>1, <4>2
    <3>2. g[m + 1] = g[m] \o s[m + 1] /\ m + 1 # 1
      <4>1. g[m + 1] = f[m] \o s[m + 1] /\ g[m] = f[m] /\ m + 1 # 1
        BY m \in Nat
      <4>2. QED
        BY <4>1
    <3>3. m \in Nat /\ \A i \in 1 .. m + 1 : i \in 1 .. m \/ i = m + 1
      OBVIOUS
    <3> HIDE DEF g
    <3>4. ASSUME NEW i \in 1 .. m + 1 PROVE g[i] = IF i = 1 THEN s[i] ELSE g[i - 1] \o s[i]
      <4>1. CASE i \in 1 .. m
        BY <4>1, <3>1
      <4>2. CASE i = m + 1
        <5>1. i # 1 /\ i - 1 = m
          BY <3>3, <4>2
        <5>2. QED
          BY <3>2, <4>2, <5>1
      <4>3. QED
        BY <3>3, <4>1, <4>2
    <3>5. QED
      BY <3>4
  <2>6. Def(g, m + 1)
    BY <2>4, <2>5
  <2>7. QED
    BY <2>2, <2>4, <2>6
<1>4. n \in S
  <2> HIDE DEF S
  <2>1. 1 .. n \subseteq S
    BY <1>1, <1>2, <1>3, Upto
  <2>2. QED
    BY <1>1, <2>1
<1> DEFINE c == CHOOSE f : f = [i \in 1 .. Len(s) |-> IF i = 1 THEN s[i] ELSE f[i - 1] \o s[i]]
<1>5. Def(c, n)
  BY <1>4
<1>6. FlattenSeq(s) = c[n]
  BY <1>1 DEF FlattenSeq
<1> HIDE DEF c
<1>7. /\ DOMAIN c = 1 .. n /\ c[1] = s[1]
      /\ \A i \in 1 .. n - 1 : c[i + 1] = c[i] \o s[i + 1]
  <2>1. DOMAIN c = 1 .. n /\ \A i \in 1 .. n : c[i] = IF i = 1 THEN s[i] ELSE c[i - 1] \o s[i]
    BY <1>5
  <2>2. c[1] = s[1]
    <3>1. 1 \in 1 .. n
      BY <1>1
    <3>2. QED
      BY <2>1, <3>1
  <2>3. ASSUME NEW i \in 1 .. n - 1 PROVE c[i + 1] = c[i] \o s[i + 1]
    <3>1. i + 1 \in 1 .. n /\ i + 1 # 1 /\ (i + 1) - 1 = i
      BY <1>1
    <3>2. QED
      BY <2>1, <3>1
  <2>4. QED
    BY <2>1, <2>2, <2>3
<1> DEFINE T == {m \in 1 .. n : c[m] \in Seq(M)}
<1>8. 1 .. n \subseteq T
  <2>1. 1 \in T
    BY <1>1, <1>7
  <2>2. ASSUME NEW i \in 1 .. n - 1, i \in T PROVE i + 1 \in T
    <3>1. c[i] \in Seq(M) /\ s[i + 1] \in Seq(M) /\ i + 1 \in 1 .. n
      BY <2>2, <1>1
    <3>2. c[i] \o s[i + 1] \in Seq(M)
      BY <3>1
    <3>3. QED
      BY <3>1, <3>2, <1>7
  <2> HIDE DEF T
  <2>3. QED
    BY <1>1, <2>1, <2>2, Upto
<1>9. c = [i \in 1 .. n |-> c[i]]
  BY <1>5
<1>10. c \in [1 .. n -> Seq(M)]
  BY <1>8, <1>9
<1>11. QED
  BY <1>6, <1>7, <1>10
-----------------------------------------------------------------------------
Pcs == {"off", "llm", "tools", "judge", "end", "built"}
Outcomes == {"none", "finished", "complete", "budget", "limit", "iterations", "failed", "paused"}
States == {"waiting", "running", "hanging", "ok", "failed"}

\* A call that creates names what it creates.
Proper == {c \in CallSet : c.op = "create" => c.item \in Items}
Jobs == [call : Proper, st : States]

IsLoop(l) ==
    /\ DOMAIN l = {"pc", "iter", "conts", "tokens", "attempt", "fallback", "end"}
    /\ l.pc \in Pcs /\ l.end \in Outcomes /\ l.fallback \in BOOLEAN
    /\ l.iter \in Nat /\ l.conts \in Nat /\ l.tokens \in Nat /\ l.attempt \in Nat

IsTracker(b) ==
    /\ DOMAIN b = {"done", "seen", "saved", "grace", "readOnly", "nudged"}
    /\ b.done \subseteq Items /\ b.seen \subseteq Tables /\ b.saved \in BOOLEAN /\ b.nudged \in BOOLEAN
    /\ b.grace \in Nat /\ b.readOnly \in Nat

\* What holds at the head of an iteration: within the limits.
Within ==
    /\ loop.pc \in {"llm", "tools", "judge"} =>
          loop.iter < MaxIter /\ bp.grace <= GraceLimit /\ bp.readOnly < GraceLimit
    /\ loop.iter <= MaxIter /\ loop.attempt < MaxRetries
    /\ bp.grace <= GraceLimit + 1 /\ bp.readOnly <= GraceLimit
    /\ loop.pc = "off" => loop = Idle
    /\ loop.pc = "end" => loop.end # "none"

LoopTyped ==
    /\ IsLoop(loop) /\ IsTracker(bp) /\ Within
    /\ group \in Seq(Jobs)
    /\ made \subseteq Items /\ undone \subseteq Items /\ late \subseteq Proper
    /\ pauseRequested \in BOOLEAN /\ prompt \in {"calm", "warned"}
    /\ spent \in Nat /\ burnt \in Nat /\ breaks \in Nat /\ faults \in Nat /\ asked \in Nat

\* What the assumption on the constants says of each.
LEMMA Limits ==
    /\ MaxIter \in Nat \ {0} /\ MaxContinuations \in Nat \ {0} /\ MaxRetries \in Nat \ {0}
    /\ Slots \in Nat \ {0} /\ TokenBudget \in Nat \ {0} /\ Window \in Nat \ {0}
    /\ AnchorFloor \in Nat \ {0} /\ MaxCalls \in Nat \ {0} /\ Slack \in Nat /\ PriorTokens \in Nat
    /\ MaxTotalCalls \in Nat /\ MaxFaults \in Nat /\ Tables \cap Pages = {}
    /\ Plan \subseteq Tables \cup Pages /\ MaxAnswer \in Nat \ {0} /\ Costs \subseteq 0 .. MaxAnswer
  BY ToolLoopAssumption

\* The next iteration, or the end of the iterations.
LEMMA AgainIs ==
    ASSUME NEW l, IsLoop(l), l.iter < MaxIter, Again(l)
    PROVE  /\ IsLoop(loop') /\ loop'.iter <= MaxIter /\ loop'.tokens = l.tokens
           /\ loop'.pc \in {"llm", "end"}
           /\ loop'.pc = "llm" => loop'.iter < MaxIter /\ loop'.attempt = 0
           /\ loop'.pc = "end" => loop'.attempt = l.attempt /\ loop'.end = "iterations"
<1>1. l.iter \in Nat /\ MaxIter \in Nat /\ DOMAIN l = {"pc", "iter", "conts", "tokens", "attempt", "fallback", "end"}
  BY Limits DEF IsLoop
<1>2. CASE l.iter + 1 = MaxIter
  <2>1. loop' = [l EXCEPT !.pc = "end", !.end = "iterations", !.iter = @ + 1]
    BY <1>2 DEF Again
  <2>2. IsLoop(loop')
    BY <2>1 DEF IsLoop, Pcs, Outcomes
  <2>3. QED
    BY <1>1, <1>2, <2>1, <2>2
<1>3. CASE l.iter + 1 # MaxIter
  <2>1. loop' = [l EXCEPT !.pc = "llm", !.iter = @ + 1, !.attempt = 0, !.fallback = FALSE]
    BY <1>3 DEF Again
  <2>2. IsLoop(loop')
    BY <2>1 DEF IsLoop, Pcs, Outcomes
  <2>3. QED
    BY <1>1, <1>3, <2>1, <2>2
<1>4. QED
  BY <1>2, <1>3

\* The loop starts in its domains.
LEMMA TypedStart == Init => LoopTyped
<1>1. IsLoop(Idle) /\ IsTracker(NoProgress)
  BY DEF IsLoop, Pcs, Outcomes, Idle, IsTracker, NoProgress
<1>2. Init => Within
  BY Limits DEF Init, Within, Idle, NoProgress, GraceLimit
<1>3. Init => spent \in Nat /\ burnt \in Nat
  BY Limits DEF Init
<1>4. Init => group \in Seq(Jobs)
  BY DEF Init
<1>5. Init => pauseRequested \in BOOLEAN
  BY Zenon DEF Init
<1>6. Init => /\ made \subseteq Items /\ undone \subseteq Items /\ late \subseteq Proper
              /\ prompt \in {"calm", "warned"} /\ breaks \in Nat /\ faults \in Nat /\ asked \in Nat
  BY DEF Init
<1>7. Init => loop = Idle /\ bp = NoProgress
  BY DEF Init
<1>8. QED
  BY <1>1, <1>2, <1>3, <1>4, <1>5, <1>6, <1>7 DEF LoopTyped

\* A function on 1 .. n is a sequence of length n.
LEMMA IsASeqOf == ASSUME NEW n \in Nat, NEW M, NEW f \in [1 .. n -> M] PROVE f \in Seq(M) /\ Len(f) = n
  OBVIOUS

\* The calls of an answer: numbered on from the calls asked for before.
LEMMA CallsAre ==
    ASSUME NEW n \in Nat, asked \in Nat, made \subseteq Items, NEW cs \in Calls(n)
    PROVE  cs \in [1 .. n -> Proper] /\ \A i \in 1 .. n : cs[i].n = asked + i
<1>1. \A c \in CallShapes : /\ c.op \in Ops /\ c.item \in Items \cup {NoItem}
                            /\ c.op = "create" => c.item \in Items
  BY DEF CallShapes, Ops
<1>2. PICK f \in [1 .. n -> CallShapes] : cs = [i \in 1 .. n |-> [n |-> asked + i, op |-> f[i].op, item |-> f[i].item]]
  BY DEF Calls
<1>3. \A i \in 1 .. n : /\ f[i].op \in Ops /\ f[i].item \in Items \cup {NoItem}
                        /\ f[i].op = "create" => f[i].item \in Items
  BY <1>1, <1>2
<1>4. ASSUME NEW i \in 1 .. n PROVE cs[i] \in Proper /\ cs[i].n = asked + i
  <2>1. cs[i] = [n |-> asked + i, op |-> f[i].op, item |-> f[i].item]
    BY <1>2
  <2>2. asked + i \in Nat /\ f[i].op \in Ops /\ f[i].item \in Items \cup {NoItem}
    <3>1. asked + i \in Nat
      OBVIOUS
    <3>2. QED
      BY <1>3, <3>1
  <2>3. cs[i] \in CallSet
    BY <2>1, <2>2 DEF CallSet
  <2>4. QED
    <3>1. cs[i].op = f[i].op /\ cs[i].item = f[i].item /\ cs[i].n = asked + i
      BY <2>1
    <3>2. QED
      BY <1>3, <2>3, <3>1 DEF Proper
<1>5. QED
  BY <1>2, <1>4

\* A step that leaves the tracker and the rows alone.
LEMMA LoopGoesOn ==
    ASSUME LoopTyped, IsLoop(loop'), bp' = bp, Within',
           group' \in Seq(Jobs), made' = made, late' = late, undone' = undone,
           pauseRequested' = pauseRequested, breaks' = breaks, prompt' \in {"calm", "warned"},
           spent' = spent, burnt' \in Nat, faults' \in Nat, asked' \in Nat
    PROVE  LoopTyped'
  BY DEF LoopTyped

\* An answer adds its tokens and changes nothing else.
LEMMA AnsweredIs ==
    ASSUME LoopTyped, NEW l, Answered(l)
    PROVE  /\ IsLoop(l) /\ \E cost \in 0 .. MaxAnswer : l.tokens = loop.tokens + cost /\ burnt' = burnt + cost
           /\ l.iter = loop.iter /\ l.attempt = loop.attempt /\ l.pc = "llm"
           /\ l.conts = loop.conts /\ loop.pc = "llm" /\ l.iter < MaxIter /\ l.attempt < MaxRetries
           /\ bp.grace <= GraceLimit /\ bp.readOnly < GraceLimit
           /\ spent' = spent /\ made' = made /\ late' = late /\ undone' = undone
           /\ breaks' = breaks /\ broken' = broken /\ faults' = faults
           /\ burnt' \in Nat /\ checkpoint' = checkpoint
           /\ faults' \in Nat
<1>1. IsLoop(loop) /\ loop.iter < MaxIter /\ loop.attempt < MaxRetries /\ bp.grace <= GraceLimit
      /\ bp.readOnly < GraceLimit /\ burnt \in Nat /\ faults \in Nat /\ loop.pc = "llm"
  BY DEF Answered, LoopTyped, Within
<1>2. PICK cost \in 0 .. MaxAnswer : l = [loop EXCEPT !.tokens = @ + cost]
  BY Limits DEF Answered, Charged
<1>3. cost \in Nat /\ loop.tokens \in Nat
  BY <1>1, Limits DEF IsLoop
<1>4. IsLoop(l)
  BY <1>1, <1>2, <1>3 DEF IsLoop
<1>5. /\ l.iter = loop.iter /\ l.attempt = loop.attempt /\ l.pc = "llm" /\ l.tokens = loop.tokens + cost
      /\ l.conts = loop.conts
  BY <1>1, <1>2 DEF IsLoop
<1>6. burnt' = burnt + cost /\ burnt' \in Nat
  BY <1>1, <1>3, <1>5 DEF Answered
<1>7. broken' = broken
  BY DEF Answered, broken
<1>8. QED
  BY <1>1, <1>3, <1>4, <1>5, <1>6, <1>7 DEF Answered

\* A continuation is the answer's loop with one more of them.
Continued(l) == [l EXCEPT !.conts = @ + 1]

LEMMA ContinuedIs ==
    ASSUME LoopTyped, NEW l, Answered(l)
    PROVE  /\ IsLoop(Continued(l)) /\ Continued(l).iter = l.iter /\ Continued(l).attempt = l.attempt
           /\ Continued(l).pc = "llm" /\ Continued(l).tokens = l.tokens
  BY AnsweredIs DEF IsLoop, Continued

LEMMA CutOffIs ==
    ASSUME CutOff \/ CallTruncated
    PROVE  \E l : /\ Answered(l) /\ WithinBudget(l) /\ UNCHANGED <<bp, group, pauseRequested>>
                  /\ asked' = asked \/ asked' = asked + 1
                  /\ loop' = [Continued(l) EXCEPT !.pc = "end", !.end = "limit"] \/ Again(Continued(l))
                  /\ \E ms : Warned(l, ms)
<1>1. CASE CutOff
  <2>1. PICK l \in Charged :
           /\ Answered(l) /\ WithinBudget(l) /\ UNCHANGED <<bp, group, pauseRequested, asked>>
           /\ \/ Warned(l, <<>>) /\ loop' = [l EXCEPT !.conts = @ + 1, !.pc = "end", !.end = "limit"]
              \/ Warned(l, <<Assistant(<<>>), User>>) /\ Again(Continued(l))
    BY <1>1 DEF CutOff, Continued
  <2>2. [l EXCEPT !.conts = @ + 1, !.pc = "end", !.end = "limit"]
          = [Continued(l) EXCEPT !.pc = "end", !.end = "limit"]
    BY DEF Continued
  <2>3. QED
    BY <2>1, <2>2
<1>2. CASE CallTruncated
  BY <1>2 DEF CallTruncated, Continued
<1>3. QED
  BY <1>1, <1>2

LEMMA EndsIs ==
    ASSUME BudgetExhausted \/ FinalAnswer
    PROVE  \E l \in Charged : \E why \in {"budget", "finished"} :
              /\ Answered(l) /\ loop' = [l EXCEPT !.pc = "end", !.end = why]
              /\ UNCHANGED <<bp, group, pauseRequested, asked>>
<1>1. CASE BudgetExhausted
  <2>1. PICK l \in Charged : /\ Answered(l) /\ loop' = [l EXCEPT !.pc = "end", !.end = "budget"]
                             /\ UNCHANGED <<bp, group, pauseRequested, asked>>
    BY <1>1 DEF BudgetExhausted
  <2>2. QED
    BY <2>1, Zenon
<1>2. CASE FinalAnswer
  <2>1. PICK l \in Charged : /\ Answered(l) /\ loop' = [l EXCEPT !.pc = "end", !.end = "finished"]
                             /\ UNCHANGED <<bp, group, pauseRequested, asked>>
    BY <1>2 DEF FinalAnswer
  <2>2. QED
    BY <2>1, Zenon
<1>3. QED
  BY <1>1, <1>2

\* A call of the model, whatever it answers, stays in the domains.
LEMMA TypedLLM == ASSUME LoopTyped, LLM PROVE LoopTyped'
<1>1. ASSUME LLMFails PROVE LoopTyped'
  <2>1. /\ IsLoop(loop) /\ loop.iter < MaxIter /\ loop.attempt < MaxRetries /\ MaxRetries \in Nat
        /\ bp.grace <= GraceLimit /\ bp.readOnly < GraceLimit /\ loop.attempt \in Nat /\ MaxRetries > 0
        /\ faults \in Nat
    <3>1. IsLoop(loop) /\ Within /\ faults \in Nat
      BY DEF LoopTyped
    <3>2. loop.pc = "llm"
      BY <1>1 DEF LLMFails
    <3>3. loop.iter < MaxIter /\ loop.attempt < MaxRetries /\ bp.grace <= GraceLimit /\ bp.readOnly < GraceLimit
      BY <3>1, <3>2 DEF Within
    <3>4. loop.attempt \in Nat /\ MaxRetries \in Nat /\ MaxRetries > 0
      BY <3>1, Limits DEF IsLoop
    <3>5. QED
      BY <3>1, <3>3, <3>4
  <2>2. \/ loop' = [loop EXCEPT !.attempt = @ + 1] /\ loop.attempt + 1 # MaxRetries
        \/ loop' = [loop EXCEPT !.attempt = 0, !.fallback = TRUE]
        \/ loop' = [loop EXCEPT !.pc = "end", !.end = "failed"]
    BY <1>1 DEF LLMFails, Ends
  <2>3. CASE loop' = [loop EXCEPT !.attempt = @ + 1] /\ loop.attempt + 1 # MaxRetries
    <3>1. IsLoop(loop')
      BY <2>1, <2>3 DEF IsLoop
    <3>2. loop'.pc = loop.pc /\ loop'.iter = loop.iter /\ loop'.attempt < MaxRetries
      BY <2>1, <2>3 DEF IsLoop
    <3>3. QED
      BY <1>1, <2>1, <3>1, <3>2, LoopGoesOn, SMTT(30) DEF LLMFails, LoopTyped, Within, GraceLimit
  <2>4. CASE loop' = [loop EXCEPT !.attempt = 0, !.fallback = TRUE]
    <3>1. IsLoop(loop')
      BY <2>1, <2>4 DEF IsLoop
    <3>2. loop'.pc = loop.pc /\ loop'.iter = loop.iter /\ loop'.attempt < MaxRetries
      BY <2>1, <2>4 DEF IsLoop
    <3>3. QED
      BY <1>1, <2>1, <3>1, <3>2, LoopGoesOn, SMTT(30) DEF LLMFails, LoopTyped, Within, GraceLimit
  <2>5. CASE loop' = [loop EXCEPT !.pc = "end", !.end = "failed"]
    <3>1. IsLoop(loop')
      BY <2>1, <2>5 DEF IsLoop, Pcs, Outcomes
    <3>2. loop'.pc = "end" /\ loop'.iter = loop.iter /\ loop'.attempt < MaxRetries /\ loop'.end = "failed"
      BY <2>1, <2>5 DEF IsLoop
    <3>3. QED
      BY <1>1, <2>1, <3>1, <3>2, LoopGoesOn DEF LLMFails, LoopTyped, Within, GraceLimit
  <2>6. QED
    BY <2>2, <2>3, <2>4, <2>5
<1>2. LoopTyped => IsLoop(loop) /\ group \in Seq(Jobs) /\ asked \in Nat
  BY DEF LoopTyped
<1>3. ASSUME NEW l, Answered(l), NEW why \in Outcomes \ {"none"}, loop' = [l EXCEPT !.pc = "end", !.end = why],
             UNCHANGED <<bp, group, pauseRequested, asked>>, prompt' \in {"calm", "warned"}
      PROVE  LoopTyped'
  <2>1. IsLoop(loop')
    BY <1>3, AnsweredIs DEF IsLoop, Pcs, Outcomes
  <2>2. loop'.pc = "end" /\ loop'.iter = loop.iter /\ loop'.attempt < MaxRetries /\ loop'.end = why
    BY <1>3, AnsweredIs DEF IsLoop
  <2>3. Within'
    BY <1>3, <2>2 DEF LoopTyped, Within
  <2>4. QED
    BY <1>2, <1>3, <2>1, <2>3, AnsweredIs, LoopGoesOn
<1>4. ASSUME NEW l, NEW ms, Warned(l, ms) PROVE prompt' \in {"calm", "warned"}
  BY <1>4 DEF Warned, LoopTyped
<1>5. ASSUME BudgetExhausted \/ FinalAnswer PROVE LoopTyped'
  <2>1. PICK l \in Charged, why \in Outcomes \ {"none"} :
           /\ Answered(l) /\ loop' = [l EXCEPT !.pc = "end", !.end = why]
           /\ UNCHANGED <<bp, group, pauseRequested, asked>>
    <3>1. {"budget", "finished"} \subseteq Outcomes \ {"none"}
      BY DEF Outcomes
    <3>2. QED
      BY <1>5, <3>1, EndsIs, Zenon
  <2>2. prompt' \in {"calm", "warned"}
    BY <1>4, <1>5 DEF BudgetExhausted, FinalAnswer, LoopTyped
  <2>3. QED
    BY <2>1, <2>2, <1>3
<1>6. ASSUME NEW l, IsLoop(l), l.iter < MaxIter, l.attempt < MaxRetries, Again(l), loop.pc = "llm",
             prompt' \in {"calm", "warned"}, asked' \in Nat, UNCHANGED <<bp, group, pauseRequested>>,
             NEW k, Answered(k)
      PROVE  LoopTyped'
  <2>1. /\ IsLoop(loop') /\ loop'.iter <= MaxIter /\ loop'.pc \in {"llm", "end"}
        /\ loop'.pc = "llm" => loop'.iter < MaxIter /\ loop'.attempt = 0
        /\ loop'.pc = "end" => loop'.attempt = l.attempt /\ loop'.end = "iterations"
    BY <1>6, AgainIs
  <2>2. bp.grace <= GraceLimit /\ bp.readOnly < GraceLimit
    BY <1>6 DEF LoopTyped, Within
  <2>3. Within'
    BY <1>6, <2>1, <2>2, Limits DEF LoopTyped, Within, GraceLimit
  <2>4. QED
    BY <1>2, <1>6, <2>1, <2>3, AnsweredIs, LoopGoesOn
<1>7. ASSUME CutOff \/ CallTruncated PROVE LoopTyped'
  <2>1. PICK k : /\ Answered(k) /\ UNCHANGED <<bp, group, pauseRequested>>
                 /\ asked' = asked \/ asked' = asked + 1
                 /\ loop' = [Continued(k) EXCEPT !.pc = "end", !.end = "limit"] \/ Again(Continued(k))
                 /\ \E ms : Warned(k, ms)
    BY <1>7, CutOffIs
  <2> DEFINE l == Continued(k)
  <2>2. loop' = [l EXCEPT !.pc = "end", !.end = "limit"] \/ Again(l)
    BY <2>1
  <2>3. prompt' \in {"calm", "warned"}
    BY <1>4, <2>1
  <2>4. asked' \in Nat
    BY <1>2, <2>1
  <2>5. loop.pc = "llm" /\ IsLoop(loop) /\ loop.iter < MaxIter /\ loop.attempt < MaxRetries
    BY <2>1 DEF Answered, LoopTyped, Within
  <2>6. IsLoop(l) /\ l.iter < MaxIter /\ l.attempt < MaxRetries /\ l.pc = "llm" /\ l.iter = loop.iter
    BY <2>1, <2>5, AnsweredIs, ContinuedIs
  <2> HIDE DEF l
  <2>7. CASE Again(l)
    BY <1>6, <2>1, <2>3, <2>4, <2>5, <2>6, <2>7
  <2>8. CASE loop' = [l EXCEPT !.pc = "end", !.end = "limit"]
    <3>1. IsLoop(loop')
      BY <2>6, <2>8 DEF IsLoop, Pcs, Outcomes
    <3>2. loop'.pc = "end" /\ loop'.iter = l.iter /\ loop'.attempt < MaxRetries /\ loop'.end = "limit"
      BY <2>6, <2>8 DEF IsLoop
    <3>3. Within'
      BY <2>1, <2>6, <3>2 DEF LoopTyped, Within
    <3>4. QED
      BY <1>2, <2>1, <2>3, <2>4, <3>1, <3>3, AnsweredIs, LoopGoesOn
  <2>9. QED
    BY <2>2, <2>7, <2>8
<1>8. ASSUME CallTools PROVE LoopTyped'
  <2> DEFINE Given(cs, n) == [i \in 1 .. n |->
                [call |-> cs[i], st |-> IF cs[i].op = "malformed" THEN "failed" ELSE "waiting"]]
  <2>1. PICK l \in Charged, n \in 1 .. MaxCalls :
           /\ Answered(l)
           /\ \E cs \in Calls(n) : Warned(l, <<Assistant(cs)>>) /\ group' = Given(cs, n)
           /\ asked' = asked + n /\ loop' = [l EXCEPT !.pc = "tools"]
           /\ UNCHANGED <<bp, pauseRequested>>
    BY <1>8 DEF CallTools
  <2>2. PICK cs \in Calls(n) : Warned(l, <<Assistant(cs)>>) /\ group' = Given(cs, n)
    BY <2>1
  <2>3. n \in Nat /\ asked \in Nat /\ made \subseteq Items
    BY Limits DEF LoopTyped
  <2>4. cs \in [1 .. n -> Proper]
    BY <2>3, CallsAre
  <2>5. \A i \in 1 .. n : [call |-> cs[i], st |-> IF cs[i].op = "malformed" THEN "failed" ELSE "waiting"]
                          \in Jobs
    BY <2>4 DEF States, Jobs
  <2>6. Given(cs, n) \in [1 .. n -> Jobs]
    BY <2>5
  <2>7. group' \in Seq(Jobs)
    <3>1. group' \in [1 .. n -> Jobs]
      BY <2>2, <2>6
    <3>2. QED
      BY <2>3, <3>1, IsASeqOf
  <2>8. prompt' \in {"calm", "warned"}
    BY <1>4, <2>2
  <2>9. asked' \in Nat
    BY <2>1, <2>3
  <2>10. Answered(l) /\ loop' = [l EXCEPT !.pc = "tools"] /\ UNCHANGED <<bp, pauseRequested>>
    BY <2>1
  <2>11. IsLoop(loop')
    BY <2>10, AnsweredIs DEF IsLoop, Pcs, Outcomes
  <2>12. loop'.pc = "tools" /\ loop'.iter = loop.iter /\ loop'.attempt < MaxRetries
    BY <2>10, AnsweredIs DEF IsLoop
  <2>13. Within'
    BY <2>10, <2>12, AnsweredIs DEF LoopTyped, Within
  <2>14. QED
    BY <2>7, <2>8, <2>9, <2>10, <2>11, <2>13, AnsweredIs, LoopGoesOn
<1>9. QED
  BY <1>1, <1>5, <1>7, <1>8 DEF LLM

\* So does a tool, however it ends, and a timeout.
LEMMA TypedTools ==
    ASSUME LoopTyped, NEW i, \/ TakeSlot(i) \/ ToolSucceeds(i) \/ ToolFails(i) \/ ToolHangs(i)
                             \/ ToolTimesOut(i)
    PROVE  LoopTyped'
<1>1. PICK from \in States, to \in States : ToolStep(i, from, to)
  BY DEF TakeSlot, ToolSucceeds, ToolFails, ToolHangs, ToolTimesOut, States
<1>2. i \in DOMAIN group /\ group \in Seq(Jobs) /\ group[i] \in Jobs
  BY <1>1 DEF ToolStep, LoopTyped
<1>3. group' \in Seq(Jobs)
  <2> DEFINE g == [group[i] EXCEPT !.st = to]
  <2>1. g \in Jobs
    BY <1>2 DEF Jobs
  <2>2. group' = [group EXCEPT ![i] = g]
    BY <1>1 DEF ToolStep
  <2> HIDE DEF g
  <2>3. QED
    BY <1>2, <2>1, <2>2
<1>4. group[i].call.op = "create" => group[i].call.item \in Items
  BY <1>2 DEF Jobs, Proper
<1>5. made \subseteq Items /\ undone \subseteq Items /\ late \subseteq Proper /\ faults \in Nat
      /\ group[i].call \in Proper
  BY <1>2 DEF LoopTyped, Jobs
<1>6. made' \subseteq Items /\ undone' \subseteq Items /\ late' \subseteq Proper /\ faults' \in Nat
  BY <1>4, <1>5 DEF TakeSlot, ToolSucceeds, ToolFails, ToolHangs, ToolTimesOut
<1>7. UNCHANGED <<loop, bp, pauseRequested, spent, prompt, burnt, breaks, asked>>
  BY <1>1 DEF ToolStep
<1>8. QED
  BY <1>3, <1>6, <1>7 DEF LoopTyped, Within

\* What is marked are items, and the tables of them are seen.
LEMMA Tracked ==
    ASSUME LoopTyped, NEW k \in 0 .. Len(group)
    PROVE  trackToolResult(k) \subseteq Items
<1>1. \A j \in 1 .. k : group[j] \in Jobs
  BY DEF LoopTyped
<1>2. \A j \in 1 .. k : group[j].call.op = "create" => group[j].call.item \in Items
  BY <1>1 DEF Jobs, Proper
<1>3. bp.done \subseteq Items
  BY DEF LoopTyped, IsTracker
<1>4. QED
  BY <1>2, <1>3 DEF trackToolResult

\* So does reading the results of a group.
LEMMA TypedCollect == ASSUME LoopTyped, CollectResults PROVE LoopTyped'
<1> DEFINE d == trackToolResult(Len(group))
           c == CheckpointsAt # {}
<1>1. IsLoop(loop) /\ IsTracker(bp) /\ loop.pc = "tools" /\ d \subseteq Items /\ group \in Seq(Jobs)
  BY Tracked DEF LoopTyped, CollectResults
<1>2. /\ loop' = [loop EXCEPT !.pc = "judge"]
      /\ bp' = [bp EXCEPT !.done = d, !.seen = @ \cup (d \cap Tables), !.saved = @ \/ c]
  BY DEF CollectResults
<1> HIDE DEF d, c
<1>3. IsLoop(loop') /\ loop'.pc = "judge" /\ loop'.iter = loop.iter /\ loop'.attempt = loop.attempt
  BY <1>1, <1>2 DEF IsLoop, Pcs
<1>4. IsTracker(bp') /\ bp'.grace = bp.grace /\ bp'.readOnly = bp.readOnly
  BY <1>1, <1>2 DEF IsTracker
<1>5. Within'
  BY <1>1, <1>3, <1>4 DEF LoopTyped, Within
<1>6. pauseRequested' \in BOOLEAN
  BY DEF CollectResults
<1>7. QED
  BY <1>3, <1>4, <1>5, <1>6 DEF LoopTyped, CollectResults

\* So does the end of an iteration: the grace window bounds its counters.
LEMMA TypedJudge == ASSUME LoopTyped, Judge PROVE LoopTyped'
<1>1. IsLoop(loop) /\ IsTracker(bp) /\ group \in Seq(Jobs) /\ Within /\ loop.pc = "judge"
  BY DEF LoopTyped, Judge, PauseForOwner, StopComplete, GoOn
<1>2. /\ IsTracker(Graced) /\ Graced.grace <= GraceLimit + 1 /\ Graced.readOnly <= GraceLimit
      /\ \/ allComplete(bp.done) \/ Graced = bp
  <2>1. CASE allComplete(bp.done)
    <3> DEFINE w == hasWrites
    <3>1. Graced = [bp EXCEPT !.grace = @ + 1, !.readOnly = IF w THEN 0 ELSE @ + 1]
      BY <2>1 DEF Graced
    <3> HIDE DEF w
    <3>2. QED
      BY <1>1, <2>1, <3>1 DEF IsTracker, Within, GraceLimit
  <2>2. CASE ~ allComplete(bp.done)
    BY <1>1, <2>2 DEF Graced, Within, GraceLimit
  <2>3. QED
    BY <2>1, <2>2
<1>3. ASSUME NEW why \in Outcomes \ {"none"}, Ends(why)
      PROVE  /\ IsLoop(loop') /\ loop'.pc = "end" /\ loop'.end = why
             /\ loop'.iter = loop.iter /\ loop'.attempt = loop.attempt
  BY <1>1, <1>3 DEF Ends, IsLoop, Pcs, Outcomes
<1>4. CASE PauseForOwner
  <2>1. Ends("paused") /\ "paused" \in Outcomes \ {"none"}
    BY <1>4 DEF PauseForOwner, Outcomes
  <2>2. Within'
    BY <1>1, <1>3, <1>4, <2>1 DEF PauseForOwner, Within
  <2>3. QED
    BY <1>1, <1>3, <1>4, <2>1, <2>2 DEF PauseForOwner, LoopTyped
<1>5. CASE StopComplete
  <2>1. Ends("complete") /\ "complete" \in Outcomes \ {"none"} /\ bp' = Graced
    BY <1>5 DEF StopComplete, Outcomes
  <2>2. Within'
    BY <1>1, <1>2, <1>3, <2>1 DEF Within
  <2>3. QED
    BY <1>1, <1>2, <1>3, <1>5, <2>1, <2>2 DEF StopComplete, LoopTyped
<1>6. CASE GoOn
  <2>1. PICK nudge \in BOOLEAN : bp' = [Graced EXCEPT !.nudged = @ \/ nudge]
    BY <1>6 DEF GoOn
  <2>2. IsTracker(bp') /\ bp'.grace = Graced.grace /\ bp'.readOnly = Graced.readOnly
    BY <1>2, <2>1 DEF IsTracker
  <2>3. Graced.grace <= GraceLimit /\ Graced.readOnly < GraceLimit
    <3>1. Graced.grace \in Nat /\ Graced.readOnly \in Nat /\ bp.grace <= GraceLimit /\ bp.readOnly < GraceLimit
      BY <1>1, <1>2 DEF IsTracker, Within
    <3>2. ~ (allComplete(bp.done) /\ (Graced.readOnly >= GraceLimit \/ Graced.grace > GraceLimit))
      BY <1>6 DEF GoOn
    <3>3. QED
      BY <1>2, <3>1, <3>2 DEF GraceLimit
  <2>4. Again(loop)
    BY <1>6 DEF GoOn
  <2>5. /\ IsLoop(loop') /\ loop'.iter <= MaxIter /\ loop'.pc \in {"llm", "end"}
        /\ loop'.pc = "llm" => loop'.iter < MaxIter /\ loop'.attempt = 0
        /\ loop'.pc = "end" => loop'.attempt = loop.attempt /\ loop'.end = "iterations"
    BY <1>1, <2>4, AgainIs DEF Within
  <2>6. Within'
    BY <1>1, <1>2, <2>2, <2>3, <2>5, Limits DEF Within
  <2>7. group' \in Seq(Jobs)
    BY <1>6 DEF GoOn
  <2>8. QED
    BY <2>2, <2>5, <2>6, <2>7, <1>6 DEF GoOn, LoopTyped
<1>7. QED
  BY <1>4, <1>5, <1>6 DEF Judge

\* So do the loop's start and end, late writes and crashes.
LEMMA TypedOther ==
    ASSUME LoopTyped, Start \/ AfterLoop \/ Crash \/ (LateWrite) PROVE LoopTyped'
<1>1. IsLoop(Idle) /\ IsTracker(NoProgress) /\ <<>> \in Seq(Jobs)
  BY DEF IsLoop, Pcs, Outcomes, Idle, IsTracker, NoProgress
<1>2. CASE Start
  <2>1. PICK x \in BOOLEAN : bp' = [NoProgress EXCEPT !.saved = x]
    BY <1>2 DEF Start
  <2>2. loop' = [Idle EXCEPT !.pc = "llm"] /\ group' = <<>>
    BY <1>2 DEF Start
  <2>3. IsLoop(loop') /\ IsTracker(bp')
    BY <1>1, <2>1, <2>2 DEF IsLoop, IsTracker, Pcs
  <2>4. Within'
    BY <2>1, <2>2, Limits DEF Within, Idle, NoProgress, GraceLimit
  <2>5. QED
    BY <1>1, <1>2, <2>2, <2>3, <2>4 DEF Start, LoopTyped
<1>3. CASE AfterLoop
  <2>1. IsLoop(loop) /\ IsTracker(bp) /\ Within /\ loop.pc = "end" /\ spent \in Nat
    BY <1>3 DEF AfterLoop, LoopTyped
  <2>2. /\ loop' = Idle \/ loop' = [loop EXCEPT !.pc = "built"]
        /\ bp' = bp \/ bp' = NoProgress
    BY <1>3 DEF AfterLoop
  <2>3. IsLoop(loop') /\ loop'.iter <= MaxIter /\ loop'.attempt < MaxRetries
        /\ (loop'.pc = "off" => loop' = Idle) /\ loop'.pc \in {"off", "built"}
    <3>1. CASE loop' = Idle
      BY <1>1, <3>1, Limits DEF Idle
    <3>2. CASE loop' = [loop EXCEPT !.pc = "built"]
      BY <2>1, <3>2 DEF IsLoop, Pcs, Within
    <3>3. QED
      BY <2>2, <3>1, <3>2
  <2>4. IsTracker(bp') /\ bp'.grace <= GraceLimit + 1 /\ bp'.readOnly <= GraceLimit
    <3>1. CASE bp' = bp
      BY <2>1, <3>1 DEF Within
    <3>2. CASE bp' = NoProgress
      BY <1>1, <3>2 DEF NoProgress, GraceLimit
    <3>3. QED
      BY <2>2, <3>1, <3>2
  <2>8. Within'
    BY <2>3, <2>4 DEF Within
  <2>5. spent' \in Nat /\ prompt' \in {"calm", "warned"}
    BY <1>3, <2>1 DEF AfterLoop, IsLoop, LoopTyped
  <2>6. breaks' \in Nat
    <3>1. breaks' = breaks \/ breaks' = breaks + 1
      BY <1>3 DEF AfterLoop
    <3>2. QED
      BY <3>1 DEF LoopTyped
  <2>7. QED
    BY <1>1, <1>3, <2>3, <2>4, <2>8, <2>5, <2>6 DEF AfterLoop, LoopTyped
<1>4. CASE Crash
  <2>1. Within'
    BY <1>4, Limits DEF Crash, Within, Idle, NoProgress, GraceLimit
  <2>2. pauseRequested' \in BOOLEAN
    BY <1>4, Zenon DEF Crash
  <2>3. /\ loop' = Idle /\ bp' = NoProgress /\ group' = <<>> /\ late' = {} /\ made' = made
        /\ undone' = undone /\ breaks' = breaks + 1
    BY <1>4 DEF Crash
  <2>4. spent' = 0 /\ prompt' = "calm" /\ faults' = faults + 1 /\ burnt' = burnt /\ asked' = asked
    BY <1>4 DEF Crash
  <2>5. QED
    BY <1>1, <2>1, <2>2, <2>3, <2>4 DEF LoopTyped
<1>5. CASE LateWrite
  <2>1. PICK c \in late : /\ late' = late \ {c}
                          /\ made' \in {made, IF c.op = "create" THEN made \cup {c.item} ELSE made \ {c.item}}
    BY <1>5 DEF LateWrite
  <2>2. c.op = "create" => c.item \in Items
    BY <2>1 DEF LoopTyped, Proper
  <2>3. made' \subseteq Items /\ late' \subseteq Proper /\ undone' \subseteq Items
    BY <1>5, <2>1, <2>2 DEF LateWrite, LoopTyped
  <2>4. QED
    BY <1>5, <2>3 DEF LateWrite, loopVars, LoopTyped, Within
<1>6. QED
  BY <1>2, <1>3, <1>4, <1>5

\* Every step stays in the domains.
LEMMA TypedStep == LoopTyped /\ [Next]_vars => LoopTyped'
<1>1. LoopTyped /\ UNCHANGED vars => LoopTyped'
  BY DEF vars, loopVars, LoopTyped, Within
<1>2. QED
  BY <1>1, TypedLLM, TypedTools, TypedCollect, TypedJudge, TypedOther DEF Next, Loop, Tools, Timeouts

-----------------------------------------------------------------------------
\* The account of this loop: what the stages before it were charged and its own tokens.
Account == IF loop.pc = "built" THEN spent ELSE spent + loop.tokens

\* Before an answer the account is below the budget, or nothing was added to it; what the
\* loops broken off have used is forgotten, at most a ceiling each.
BudgetInv ==
    /\ burnt <= breaks * Ceiling + Account
    /\ Account <= Ceiling
    /\ loop.pc # "built" => spent <= PriorTokens
    /\ loop.pc \in {"off", "llm", "tools", "judge"} => Account < TokenBudget \/ Account <= PriorTokens

LEMMA CeilingIs ==
    /\ Ceiling \in Nat /\ PriorTokens <= Ceiling
    /\ \A n \in Nat : n < TokenBudget \/ n <= PriorTokens => n + MaxAnswer <= Ceiling
  BY Limits DEF Ceiling

\* One more loop is worth one more ceiling.
LEMMA OneMore == ASSUME NEW b \in Nat PROVE (b + 1) * Ceiling = b * Ceiling + Ceiling /\ b * Ceiling \in Nat
  BY CeilingIs

\* An answer is asked for below the budget, so it passes it by less than an answer.
LEMMA BudgetAnswered ==
    ASSUME LoopTyped, BudgetInv, NEW l, Answered(l),
           \/ WithinBudget(l) /\ loop'.pc \in {"llm", "tools", "end"}
           \/ loop'.pc = "end",
           IsLoop(loop'), loop'.tokens = l.tokens
    PROVE  BudgetInv'
<1>1. PICK cost \in 0 .. MaxAnswer : l.tokens = loop.tokens + cost /\ burnt' = burnt + cost
  BY AnsweredIs
<1>2. /\ spent' = spent /\ breaks' = breaks
      /\ loop.pc = "llm" /\ loop.tokens \in Nat /\ spent \in Nat /\ burnt \in Nat /\ breaks \in Nat
      /\ cost \in Nat /\ cost <= MaxAnswer /\ MaxAnswer \in Nat
  BY AnsweredIs, Limits DEF LoopTyped, IsLoop
<1>3. TokenBudget \in Nat /\ PriorTokens \in Nat
  BY Limits
<1>4. WithinBudget(l) => spent + l.tokens < TokenBudget
  BY DEF WithinBudget, Projected
<1>5. Account = spent + loop.tokens /\ Account' = spent + loop.tokens + cost
  BY <1>1, <1>2 DEF Account
<1>6. Account + MaxAnswer <= Ceiling
  BY <1>2, <1>5, CeilingIs DEF BudgetInv
<1>7. (breaks * Ceiling)' = breaks * Ceiling /\ breaks * Ceiling \in Nat /\ Ceiling \in Nat
  BY <1>2, OneMore, CeilingIs DEF Ceiling
<1>8. burnt' <= (breaks * Ceiling)' + Account'
  <2> DEFINE B == breaks * Ceiling
  <2>1. burnt <= B + Account /\ B \in Nat
    BY <1>7 DEF BudgetInv
  <2> HIDE DEF B
  <2>2. burnt' <= B + Account'
    BY <1>1, <1>2, <1>5, <2>1
  <2>3. QED
    BY <1>7, <2>2 DEF B
<1>9. Account' <= Ceiling'
  BY <1>2, <1>5, <1>6, <1>7 DEF Ceiling
<1>10. loop'.pc # "built" => spent' <= PriorTokens
  BY <1>2 DEF BudgetInv
<1>11. loop'.pc \in {"off", "llm", "tools", "judge"} => Account' < TokenBudget \/ Account' <= PriorTokens
  BY <1>1, <1>2, <1>4, <1>5
<1>12. QED
  BY <1>8, <1>9, <1>10, <1>11 DEF BudgetInv

\* A loop that is broken off is forgotten, at a ceiling's price.
LEMMA BudgetBroken ==
    ASSUME LoopTyped, BudgetInv, burnt' = burnt, breaks' = breaks + 1, loop' = Idle, loop.pc # "built",
           spent' = 0 \/ spent' = spent
    PROVE  BudgetInv'
<1>1. /\ spent \in Nat /\ burnt \in Nat /\ breaks \in Nat /\ Ceiling \in Nat /\ PriorTokens \in Nat
      /\ loop.tokens \in Nat /\ spent <= PriorTokens /\ PriorTokens <= Ceiling
  BY Limits, CeilingIs DEF LoopTyped, IsLoop, BudgetInv
<1>2. loop'.pc = "off" /\ loop'.tokens = 0
  BY DEF Idle
<1>3. Account' = spent' /\ spent' \in Nat /\ spent' <= PriorTokens
  BY <1>1, <1>2 DEF Account
<1>4. Account = spent + loop.tokens
  BY DEF Account
<1>5. (breaks * Ceiling)' = breaks * Ceiling + Ceiling /\ breaks * Ceiling \in Nat
  BY <1>1, OneMore DEF Ceiling
<1>6. burnt' <= (breaks * Ceiling)' + Account'
  <2> DEFINE B == breaks * Ceiling
  <2>1. burnt <= B + Account /\ Account <= Ceiling /\ B \in Nat
    BY <1>5 DEF BudgetInv
  <2> HIDE DEF B
  <2>2. burnt <= B + Ceiling
    BY <1>1, <1>4, <2>1
  <2>3. burnt' <= (B + Ceiling) + spent'
    <3>1. B + Ceiling \in Nat /\ burnt' \in Nat
      BY <1>1, <2>1
    <3>2. \A x, y, z \in Nat : x <= y => x <= y + z
      OBVIOUS
    <3>3. QED
      BY <1>1, <1>3, <2>2, <3>1, <3>2
  <2>4. (breaks * Ceiling)' = B + Ceiling
    BY <1>5 DEF B
  <2>5. QED
    BY <1>3, <2>3, <2>4
<1>7. Account' <= Ceiling'
  BY <1>1, <1>3 DEF Ceiling
<1>8. QED
  BY <1>1, <1>2, <1>3, <1>6, <1>7 DEF BudgetInv

\* Every step keeps the account of the build's tokens.
LEMMA BudgetStep == LoopTyped /\ BudgetInv /\ [Next]_vars => BudgetInv'
<1> SUFFICES ASSUME LoopTyped, BudgetInv, [Next]_vars PROVE BudgetInv'
  OBVIOUS
<1>1. /\ TokenBudget \in Nat /\ PriorTokens \in Nat /\ IsLoop(loop) /\ loop.tokens \in Nat /\ spent \in Nat
      /\ burnt \in Nat /\ loop.pc \in Pcs
  BY Limits DEF LoopTyped, IsLoop
<1>2. ASSUME burnt' = burnt, spent' = spent, breaks' = breaks, loop'.tokens = loop.tokens, loop'.pc # "built",
             loop.pc # "built", loop'.pc \in {"off", "llm", "tools", "judge"} => loop.pc \in {"off", "llm", "tools", "judge"}
      PROVE  BudgetInv'
  <2>1. Account' = Account /\ Ceiling' = Ceiling
    BY <1>2 DEF Account, Ceiling
  <2>2. QED
    BY <1>2, <2>1 DEF BudgetInv
<1>3. CASE LLMFails
  <2>1. loop.pc = "llm" /\ UNCHANGED <<burnt, spent, breaks>>
    BY <1>3 DEF LLMFails
  <2>2. \/ loop' = [loop EXCEPT !.attempt = @ + 1]
        \/ loop' = [loop EXCEPT !.attempt = 0, !.fallback = TRUE]
        \/ loop' = [loop EXCEPT !.pc = "end", !.end = "failed"]
    BY <1>3 DEF LLMFails, Ends
  <2>3. loop'.tokens = loop.tokens /\ loop'.pc \in {"llm", "end"}
    BY <1>1, <2>1, <2>2 DEF IsLoop
  <2>4. QED
    BY <1>2, <2>1, <2>3
<1>4. CASE BudgetExhausted \/ FinalAnswer
  <2>1. PICK l \in Charged, why \in {"budget", "finished"} : Answered(l) /\ loop' = [l EXCEPT !.pc = "end", !.end = why]
    BY <1>4, EndsIs, Zenon
  <2>2. LoopTyped'
    BY TypedLLM, <1>4 DEF LLM
  <2>3. loop'.tokens = l.tokens /\ loop'.pc = "end" /\ IsLoop(loop')
    BY <2>1, <2>2, AnsweredIs DEF IsLoop, LoopTyped
  <2>4. QED
    BY <2>1, <2>3, BudgetAnswered
<1>5. CASE CutOff \/ CallTruncated
  <2>1. PICK k : /\ Answered(k) /\ WithinBudget(k)
                 /\ loop' = [Continued(k) EXCEPT !.pc = "end", !.end = "limit"] \/ Again(Continued(k))
    BY <1>5, CutOffIs
  <2>2. LoopTyped'
    BY TypedLLM, <1>5 DEF LLM
  <2> DEFINE l == Continued(k)
  <2>3. IsLoop(l) /\ k.tokens = l.tokens /\ l.iter = loop.iter /\ loop.pc = "llm" /\ l.iter < MaxIter
    BY <2>1, AnsweredIs, ContinuedIs
  <2>4. loop' = [l EXCEPT !.pc = "end", !.end = "limit"] \/ Again(l)
    BY <2>1
  <2> HIDE DEF l
  <2>5. loop'.tokens = l.tokens /\ loop'.pc \in {"llm", "end"}
    <3>2. CASE Again(l)
      BY <2>3, <3>2, AgainIs
    <3>3. CASE loop' = [l EXCEPT !.pc = "end", !.end = "limit"]
      BY <2>3, <3>3 DEF IsLoop
    <3>4. QED
      BY <2>4, <3>2, <3>3
  <2>6. IsLoop(loop') /\ loop'.tokens = k.tokens
    BY <2>2, <2>3, <2>5 DEF LoopTyped
  <2>7. QED
    BY <2>1, <2>5, <2>6, BudgetAnswered
<1>6. CASE CallTools
  <2>1. PICK l : Answered(l) /\ WithinBudget(l) /\ loop' = [l EXCEPT !.pc = "tools"]
    BY <1>6 DEF CallTools
  <2>2. LoopTyped'
    BY TypedLLM, <1>6 DEF LLM
  <2>3. loop'.tokens = l.tokens /\ loop'.pc = "tools" /\ IsLoop(loop')
    BY <2>1, <2>2, AnsweredIs DEF IsLoop, LoopTyped
  <2>4. QED
    BY <2>1, <2>3, BudgetAnswered
<1>7. CASE \/ Tools \/ Timeouts \/ LateWrite
  <2>1. UNCHANGED <<loop, burnt, spent, breaks>>
    BY <1>7 DEF Tools, Timeouts, LateWrite, TakeSlot, ToolSucceeds, ToolFails, ToolHangs, ToolTimesOut, ToolStep,
       loopVars
  <2>2. QED
    BY <2>1 DEF BudgetInv, Account, Ceiling
<1>8. CASE CollectResults
  <2>1. loop.pc = "tools" /\ loop' = [loop EXCEPT !.pc = "judge"] /\ UNCHANGED <<burnt, spent, breaks>>
    BY <1>8 DEF CollectResults
  <2>2. loop'.tokens = loop.tokens /\ loop'.pc = "judge"
    BY <1>1, <2>1 DEF IsLoop
  <2>3. QED
    BY <1>2, <2>1, <2>2
<1>9. CASE Judge
  <2>1. loop.pc = "judge" /\ UNCHANGED <<burnt, spent, breaks>>
    BY <1>9 DEF Judge, PauseForOwner, StopComplete, GoOn
  <2>2. \/ \E why \in {"paused", "complete"} : loop' = [loop EXCEPT !.pc = "end", !.end = why]
        \/ Again(loop)
    BY <1>9 DEF Judge, PauseForOwner, StopComplete, GoOn, Ends
  <2>3. loop'.tokens = loop.tokens /\ loop'.pc \in {"llm", "end"}
    <3>1. loop.iter < MaxIter
      BY <2>1 DEF LoopTyped, Within
    <3>2. CASE Again(loop)
      BY <1>1, <3>1, <3>2, AgainIs
    <3>3. CASE \E why \in {"paused", "complete"} : loop' = [loop EXCEPT !.pc = "end", !.end = why]
      BY <1>1, <3>3 DEF IsLoop
    <3>4. QED
      BY <2>2, <3>2, <3>3
  <2>4. QED
    BY <1>2, <2>1, <2>3
<1>10. CASE Start
  <2>1. loop.pc = "off" /\ loop = Idle /\ loop' = [Idle EXCEPT !.pc = "llm"] /\ UNCHANGED <<burnt, spent, breaks>>
    BY <1>10 DEF Start, LoopTyped, Within
  <2>2. loop.tokens = 0 /\ loop'.tokens = 0 /\ loop'.pc = "llm"
    BY <2>1 DEF Idle
  <2>3. QED
    BY <1>2, <2>1, <2>2
<1>11. CASE AfterLoop
  <2>1. loop.pc = "end" /\ burnt' = burnt
    BY <1>11 DEF AfterLoop
  <2>2. CASE loop.end \in {"paused", "failed"}
    <3>1. breaks' = breaks + 1 /\ loop' = Idle /\ (spent' = 0 \/ spent' = spent)
      BY <1>11, <2>2 DEF AfterLoop
    <3>2. QED
      BY <2>1, <3>1, BudgetBroken
  <2>3. CASE loop.end \notin {"paused", "failed"}
    <3>1. loop' = [loop EXCEPT !.pc = "built"] /\ spent' = spent + loop.tokens /\ breaks' = breaks
      BY <1>11, <2>3 DEF AfterLoop
    <3>2. loop'.pc = "built"
      BY <1>1, <3>1 DEF IsLoop
    <3>3. Account' = Account /\ Ceiling' = Ceiling
      BY <2>1, <3>1, <3>2 DEF Account, Ceiling
    <3>4. QED
      BY <2>1, <3>1, <3>2, <3>3 DEF BudgetInv
  <2>4. QED
    BY <2>2, <2>3
<1>12. CASE Crash
  <2>1. burnt' = burnt /\ breaks' = breaks + 1 /\ loop' = Idle /\ loop.pc # "built" /\ spent' = 0
    BY <1>12 DEF Crash
  <2>2. QED
    BY <2>1, BudgetBroken
<1>13. CASE UNCHANGED vars
  BY <1>13 DEF vars, loopVars, BudgetInv, Account, Ceiling
<1>14. QED
  BY <1>3, <1>4, <1>5, <1>6, <1>7, <1>8, <1>9, <1>10, <1>11, <1>12, <1>13 DEF Next, Loop, LLM

\* The budget bounds the tokens of a whole build (progress.go:129), whatever an answer costs:
\* a ceiling that is passed by less than one answer, and once more for every loop of the
\* build that was paused, failed or crashed, whose tokens the tracker never sees.
THEOREM BudgetIsACeiling == ToolLoopSpec => []BudgetHolds
<1>1. Init => LoopTyped
  BY TypedStart
<1>2. Init => BudgetInv
  <2>1. Init => /\ loop.pc = "off" /\ loop.tokens = 0 /\ burnt = spent /\ spent \in {0, PriorTokens}
                /\ breaks = 0
    BY DEF Init, Idle
  <2>2. breaks = 0 => breaks * Ceiling = 0
    BY CeilingIs
  <2>3. QED
    BY <2>1, <2>2, Limits, CeilingIs DEF BudgetInv, Account
<1>3. LoopTyped /\ [Next]_vars => LoopTyped'
  BY TypedStep
<1>4. LoopTyped /\ BudgetInv /\ [Next]_vars => BudgetInv'
  BY BudgetStep
<1>5. LoopTyped /\ BudgetInv => BudgetHolds
  <2> SUFFICES ASSUME LoopTyped, BudgetInv PROVE BudgetHolds
    OBVIOUS
  <2>1. (breaks + 1) * Ceiling = breaks * Ceiling + Ceiling /\ breaks * Ceiling \in Nat /\ Ceiling \in Nat
    BY OneMore, CeilingIs DEF LoopTyped
  <2>2. Account \in Nat /\ burnt \in Nat
    BY DEF LoopTyped, IsLoop, Account
  <2>3. burnt <= breaks * Ceiling + Account /\ Account <= Ceiling
    BY DEF BudgetInv
  <2>4. burnt <= breaks * Ceiling + Ceiling
    BY <2>1, <2>2, <2>3
  <2>5. QED
    BY <2>1, <2>4 DEF BudgetHolds
<1>6. QED
  BY <1>1, <1>2, <1>3, <1>4, <1>5, PTL DEF ToolLoopSpec

-----------------------------------------------------------------------------
\* A call that made its item is still in its group, and so is the call that removed it.
MarksInv ==
    loop.pc = "tools" =>
      \A i \in DOMAIN group : group[i].st = "ok" /\ group[i].call.op = "create" =>
        \/ group[i].call.item \in made
        \/ \E j \in DOMAIN group : group[j].call.op = "drop" /\ group[j].call.item = group[i].call.item
        \/ group[i].call.item \in undone

\* An answer without calls leaves the loop where it was, or ends it.
LEMMA AnswerWithoutCalls ==
    ASSUME LoopTyped, LLMFails \/ BudgetExhausted \/ FinalAnswer \/ CutOff \/ CallTruncated
    PROVE  loop.pc = "llm" /\ loop'.pc \in {"llm", "end"}
<1>0. IsLoop(loop) /\ loop.pc = "llm"
  BY DEF LoopTyped, LLMFails, BudgetExhausted, FinalAnswer, CutOff, CallTruncated, Answered
<1>1. CASE LLMFails
  <2>1. \/ loop' = [loop EXCEPT !.attempt = @ + 1]
        \/ loop' = [loop EXCEPT !.attempt = 0, !.fallback = TRUE]
        \/ loop' = [loop EXCEPT !.pc = "end", !.end = "failed"]
    BY <1>1 DEF LLMFails, Ends
  <2>2. loop.pc = "llm"
    BY <1>1 DEF LLMFails
  <2>3. QED
    BY <1>0, <2>1, <2>2 DEF IsLoop
<1>2. CASE BudgetExhausted \/ FinalAnswer
  <2>1. PICK l \in Charged, why \in {"budget", "finished"} : Answered(l) /\ loop' = [l EXCEPT !.pc = "end", !.end = why]
    BY <1>2, EndsIs, Zenon
  <2>2. QED
    BY <2>1, AnsweredIs DEF IsLoop
<1>3. CASE CutOff \/ CallTruncated
  <2>0. PICK k : /\ Answered(k)
                 /\ loop' = [Continued(k) EXCEPT !.pc = "end", !.end = "limit"] \/ Again(Continued(k))
    BY <1>3, CutOffIs
  <2> DEFINE l == Continued(k)
  <2>1. loop' = [l EXCEPT !.pc = "end", !.end = "limit"] \/ Again(l)
    BY <2>0
  <2>2. IsLoop(l) /\ l.iter = loop.iter /\ loop.iter < MaxIter
    BY <2>0, AnsweredIs, ContinuedIs
  <2> HIDE DEF l
  <2>3. CASE Again(l)
    BY <1>0, <2>2, <2>3, AgainIs
  <2>4. CASE loop' = [l EXCEPT !.pc = "end", !.end = "limit"]
    BY <1>0, <2>2, <2>4 DEF IsLoop
  <2>5. QED
    BY <2>1, <2>3, <2>4
<1>4. QED
  BY <1>1, <1>2, <1>3

\* Every step keeps what succeeded in the group in the database, or a drop beside it.
LEMMA MarksStep == LoopTyped /\ MarksInv /\ [Next]_vars => MarksInv'
<1> SUFFICES ASSUME LoopTyped, MarksInv, [Next]_vars PROVE MarksInv'
  OBVIOUS
<1>1. group \in Seq(Jobs) /\ IsLoop(loop)
  BY DEF LoopTyped
<1>2. ASSUME NEW i, TakeSlot(i) \/ ToolSucceeds(i) \/ ToolFails(i) \/ ToolHangs(i) \/ ToolTimesOut(i)
      PROVE  MarksInv'
  <2>1. PICK from \in States, to \in States : ToolStep(i, from, to)
    BY <1>2 DEF TakeSlot, ToolSucceeds, ToolFails, ToolHangs, ToolTimesOut, States
  <2>2. /\ loop.pc = "tools" /\ loop' = loop /\ i \in DOMAIN group /\ group' = [group EXCEPT ![i].st = to]
        /\ group[i] \in Jobs
    BY <1>1, <2>1 DEF ToolStep
  <2> DEFINE g == [group[i] EXCEPT !.st = to]
  <2>3. g.call = group[i].call /\ g.st = to /\ group' = [group EXCEPT ![i] = g]
    BY <2>2 DEF Jobs
  <2> HIDE DEF g
  <2>4. /\ DOMAIN group' = DOMAIN group
        /\ \A j \in DOMAIN group : group'[j].call = group[j].call /\ (j # i => group'[j].st = group[j].st)
        /\ group'[i].st = to
    BY <1>1, <2>2, <2>3
  <2>5. CASE ToolSucceeds(i)
    <3>1. \/ group[i].call.op = "create" /\ made' = made \cup {group[i].call.item}
          \/ group[i].call.op = "drop" /\ made' = made \ {group[i].call.item}
          \/ group[i].call.op \notin {"create", "drop"} /\ made' = made
      BY <2>5 DEF ToolSucceeds
    <3>2. \A x : x \in made \/ x \in undone =>
             x \in made' \/ x \in undone' \/ (group[i].call.op = "drop" /\ group[i].call.item = x)
      BY <2>5, <3>1 DEF ToolSucceeds
    <3>3. QED
      BY <2>2, <2>4, <3>1, <3>2 DEF MarksInv
  <2>6. CASE TakeSlot(i) \/ ToolFails(i) \/ ToolHangs(i) \/ ToolTimesOut(i)
    <3>1. made' = made /\ undone' = undone
      BY <2>6 DEF TakeSlot, ToolFails, ToolHangs, ToolTimesOut
    <3>2. group'[i].st # "ok"
      <4>1. group[i].st # "ok"
        BY <2>1, <2>6 DEF TakeSlot, ToolFails, ToolHangs, ToolTimesOut, ToolStep
      <4>2. \A b \in States : group' = [group EXCEPT ![i].st = b] => group'[i].st = b
        BY <1>1, <2>2 DEF Jobs
      <4>3. QED
        BY <2>6, <4>2 DEF TakeSlot, ToolFails, ToolHangs, ToolTimesOut, ToolStep, States
    <3>3. QED
      BY <2>2, <2>4, <3>1, <3>2 DEF MarksInv
  <2>7. QED
    BY <1>2, <2>5, <2>6
<1>3. CASE LateWrite
  <2>1. \A x : x \in made \/ x \in undone => x \in made' \/ x \in undone'
    BY <1>3 DEF LateWrite
  <2>2. UNCHANGED <<loop, group>>
    BY <1>3 DEF LateWrite, loopVars
  <2>3. QED
    BY <2>1, <2>2 DEF MarksInv
<1>4. CASE CallTools
  <2>1. PICK n \in 1 .. MaxCalls : \E cs \in Calls(n) :
           group' = [i \in 1 .. n |->
             [call |-> cs[i], st |-> IF cs[i].op = "malformed" THEN "failed" ELSE "waiting"]]
    BY <1>4 DEF CallTools
  <2>2. \A i \in DOMAIN group' : group'[i].st # "ok"
    BY <2>1
  <2>3. QED
    BY <2>2 DEF MarksInv
<1>5. CASE LLMFails \/ BudgetExhausted \/ FinalAnswer \/ CutOff \/ CallTruncated
  <2>1. LoopTyped' /\ loop'.pc # "tools" => MarksInv'
    BY DEF MarksInv
  <2>2. loop'.pc \in {"llm", "end"}
    BY <1>5, AnswerWithoutCalls
  <2>3. QED
    BY <2>2 DEF MarksInv
<1>6. CASE CollectResults
  BY <1>1, <1>6 DEF CollectResults, IsLoop, MarksInv
<1>7. CASE Judge
  <2>1. group' = <<>> \/ \E why \in {"paused", "complete"} : loop' = [loop EXCEPT !.pc = "end", !.end = why]
    BY <1>7 DEF Judge, PauseForOwner, StopComplete, GoOn, Ends
  <2>2. group' = <<>> \/ loop'.pc = "end"
    BY <1>1, <2>1 DEF IsLoop
  <2>3. QED
    BY <2>2 DEF MarksInv
<1>8. CASE Start \/ AfterLoop \/ Crash
  <2>1. group' = <<>>
    BY <1>8 DEF Start, AfterLoop, Crash
  <2>2. QED
    BY <2>1 DEF MarksInv
<1>9. CASE UNCHANGED vars
  BY <1>9 DEF vars, loopVars, MarksInv
<1>10. QED
  BY <1>2, <1>3, <1>4, <1>5, <1>6, <1>7, <1>8, <1>9 DEF Next, Loop, LLM, Tools, Timeouts

\* A name is marked only when a call that made it has succeeded: after the group, in the
\* step that reads its results; what is not there then was removed by a call of the same
\* group or by one that was given up and went on (tools/executor.go).
THEOREM MarksHaveCalls == ToolLoopSpec => MarksAreEarned
<1> DEFINE Earned == \A x \in bp'.done \ bp.done :
                       \/ x \in made
                       \/ \E i \in DOMAIN group : group[i].call.op = "drop" /\ group[i].call.item = x
                       \/ x \in undone
<1>1. LoopTyped /\ MarksInv /\ [Next]_vars => [Earned]_vars
  <2> SUFFICES ASSUME LoopTyped, MarksInv, Next PROVE Earned
    OBVIOUS
  <2>1. group \in Seq(Jobs) /\ IsTracker(bp)
    BY DEF LoopTyped
  <2>2. CASE CollectResults
    <3> DEFINE d == trackToolResult(Len(group))
               c == CheckpointsAt # {}
    <3>1. bp' = [bp EXCEPT !.done = d, !.seen = @ \cup (d \cap Tables), !.saved = @ \/ c] /\ loop.pc = "tools"
      BY <2>2 DEF CollectResults
    <3>2. \A x \in d \ bp.done : \E i \in 1 .. Len(group) :
             group[i].st = "ok" /\ group[i].call.op = "create" /\ group[i].call.item = x
      BY DEF trackToolResult, toolResultSucceeded
    <3> HIDE DEF d, c
    <3>3. bp'.done = d
      BY <2>1, <3>1 DEF IsTracker
    <3>4. QED
      BY <2>1, <3>1, <3>2, <3>3 DEF MarksInv
  <2>3. ASSUME ~ CollectResults PROVE bp'.done \subseteq bp.done
    <3>1. CASE bp' = bp
      BY <3>1
    <3>2. CASE Start \/ Crash \/ AfterLoop
      <4>1. bp' = bp \/ \E b \in BOOLEAN : bp' = [NoProgress EXCEPT !.saved = b] \/ bp' = NoProgress
        BY <3>2 DEF Start, Crash, AfterLoop
      <4>2. QED
        BY <4>1 DEF NoProgress
    <3>3. CASE Judge
      <4> DEFINE w == hasWrites
      <4>1. Graced = bp \/ Graced = [bp EXCEPT !.grace = @ + 1, !.readOnly = IF w THEN 0 ELSE @ + 1]
        BY DEF Graced
      <4>2. bp' = bp \/ bp' = Graced \/ \E b \in BOOLEAN : bp' = [Graced EXCEPT !.nudged = @ \/ b]
        BY <3>3 DEF Judge, PauseForOwner, StopComplete, GoOn
      <4> HIDE DEF w
      <4>3. Graced.done = bp.done /\ DOMAIN Graced = DOMAIN bp
        BY <2>1, <4>1 DEF IsTracker
      <4>4. QED
        BY <2>1, <4>2, <4>3 DEF IsTracker
    <3>4. QED
      BY <2>3, <3>1, <3>2, <3>3 DEF Next, Loop, LLM, Tools, Timeouts, LLMFails, BudgetExhausted, FinalAnswer, CutOff,
         CallTruncated, CallTools, TakeSlot, ToolSucceeds, ToolFails, ToolHangs, ToolTimesOut, ToolStep, LateWrite,
         loopVars
  <2>4. QED
    BY <2>2, <2>3
<1>2. Init => LoopTyped /\ MarksInv
  <2>1. Init => MarksInv
    BY DEF Init, Idle, MarksInv
  <2>2. QED
    BY <2>1, TypedStart
<1>3. QED
  BY <1>1, <1>2, TypedStep, MarksStep, PTL DEF ToolLoopSpec, MarksAreEarned

-----------------------------------------------------------------------------
\* The messages of a conversation, and who asks and who tells.
Msgs == [role : {"user", "progress", "context"}] \cup [role : {"anchor"}, of : Tables]
        \cup [role : {"assistant"}, calls : Seq(Proper)] \cup [role : {"tool"}, call : Proper]

Asks(ms, i) == ms[i].role = "assistant"
Tells(ms, j) == ms[j].role = "tool"

\* Calls are numbered in the order they were asked for, results come in that order, a
\* result without its call comes before every call, and a call's results follow it at once.
InOrder(ms) ==
    /\ \A i \in DOMAIN ms : Asks(ms, i) =>
          \A k, m \in DOMAIN ms[i].calls : k < m => ms[i].calls[k].n < ms[i].calls[m].n
    /\ \A i, j \in DOMAIN ms : i < j =>
          /\ Asks(ms, i) /\ Asks(ms, j) =>
               \A k \in DOMAIN ms[i].calls, m \in DOMAIN ms[j].calls : ms[i].calls[k].n < ms[j].calls[m].n
          /\ Tells(ms, i) /\ Tells(ms, j) => ms[i].call.n < ms[j].call.n
          /\ Tells(ms, i) /\ Asks(ms, j) => \A m \in DOMAIN ms[j].calls : ms[i].call.n < ms[j].calls[m].n

\* A result after a call is of the last call before it; the results before it are there.
Grouped(ms) ==
    \A i, j \in DOMAIN ms : i < j /\ Asks(ms, i) /\ Tells(ms, j) =>
      /\ \E h \in i .. j - 1 :
           /\ Asks(ms, h) /\ \E k \in DOMAIN ms[h].calls : ms[h].calls[k] = ms[j].call
           /\ \A g \in h + 1 .. j - 1 : Tells(ms, g) \/ Injected(ms[g])
      /\ \A k \in DOMAIN ms[i].calls : ms[i].calls[k] = ms[j].call =>
           \A m \in 1 .. k - 1 : \E g \in i + 1 .. j - 1 : Tells(ms, g) /\ ms[g].call = ms[i].calls[m]

\* A conversation opens with a user message, in order and grouped.
Conv(ms) == /\ ms \in Seq(Msgs) /\ (ms # <<>> => ms[1] = User)
            /\ InOrder(ms) /\ Grouped(ms)

\* Every call of the messages up to the n-th has its result.
Whole(ms, n) ==
    \A i \in 1 .. n : Asks(ms, i) =>
      \A k \in DOMAIN ms[i].calls : \E j \in DOMAIN ms : Tells(ms, j) /\ ms[j].call = ms[i].calls[k]

\* No call has a number above top.
Numbered(ms, top) ==
    \A i \in DOMAIN ms : /\ Tells(ms, i) => ms[i].call.n <= top
                         /\ Asks(ms, i) => \A k \in DOMAIN ms[i].calls : ms[i].calls[k].n <= top

\* The last message asks for the calls of the group.
Asked(ms, gr) ==
    /\ ms # <<>> /\ Asks(ms, Len(ms)) /\ Len(ms[Len(ms)].calls) = Len(gr)
    /\ \A i \in DOMAIN gr : gr[i].call = ms[Len(ms)].calls[i]

\* The conversation and the checkpoint, at every point of the loop: calls are open only
\* while their tools run, and a checkpoint is left only by a build that was broken off.
TalkInv ==
    /\ Conv(messages) /\ Numbered(messages, asked)
    /\ Conv(checkpoint) /\ Numbered(checkpoint, asked)
    /\ loop.pc \in {"llm", "tools", "judge"} => messages # <<>>
    /\ loop.pc \in {"llm", "judge"} /\ ~ broken => Whole(messages, Len(messages))
    /\ loop.pc = "tools" => Asked(messages, group) /\ (~ broken => Whole(messages, Len(messages) - 1))
    /\ loop.pc = "off" /\ ~ broken => checkpoint = <<>>

-----------------------------------------------------------------------------
\* What a grouped conversation says of one call and one result after it.
LEMMA GroupedAt ==
    ASSUME NEW ms, Grouped(ms), NEW i \in DOMAIN ms, NEW j \in DOMAIN ms, i < j, Asks(ms, i), Tells(ms, j)
    PROVE  /\ \E h \in i .. j - 1 :
                /\ Asks(ms, h) /\ \E k \in DOMAIN ms[h].calls : ms[h].calls[k] = ms[j].call
                /\ \A g \in h + 1 .. j - 1 : Tells(ms, g) \/ Injected(ms[g])
           /\ \A k \in DOMAIN ms[i].calls : ms[i].calls[k] = ms[j].call =>
                \A m \in 1 .. k - 1 : \E g \in i + 1 .. j - 1 : Tells(ms, g) /\ ms[g].call = ms[i].calls[m]
  BY DEF Grouped

\* Two sequences joined.
LEMMA JoinIs ==
    ASSUME NEW M, NEW a \in Seq(M), NEW b \in Seq(M)
    PROVE  /\ a \o b \in Seq(M) /\ Len(a \o b) = Len(a) + Len(b)
           /\ \A i \in 1 .. Len(a) : (a \o b)[i] = a[i]
           /\ \A i \in Len(a) + 1 .. Len(a) + Len(b) : (a \o b)[i] = b[i - Len(a)]
  OBVIOUS

\* Joined sequences of members are a sequence of members.
LEMMA FlattenType == ASSUME NEW M, NEW s \in Seq(Seq(M)) PROVE FlattenSeq(s) \in Seq(M)
<1>1. CASE s = <<>>
  BY <1>1 DEF FlattenSeq
<1>2. CASE s # <<>>
  <2>1. PICK f \in [1 .. Len(s) -> Seq(M)] : FlattenSeq(s) = f[Len(s)]
    BY <1>2, FlattenSteps
  <2>2. Len(s) \in 1 .. Len(s)
    BY <1>2
  <2>3. QED
    BY <2>1, <2>2
<1>3. QED
  BY <1>1, <1>2

\* A set of numbers up to n with a member has a greatest one.
LEMMA Greatest ==
    ASSUME NEW n \in Nat, NEW S \in SUBSET (0 .. n), S # {}
    PROVE  \E m \in S : \A k \in S : k <= m
<1> DEFINE T == {n - k : k \in S}
<1>0. \A k \in S : k \in 0 .. n /\ n - k \in Nat
  OBVIOUS
<1>1. T \in SUBSET Nat /\ T # {}
  <2>1. \A t \in T : t \in Nat
    BY <1>0
  <2>2. PICK k \in S : TRUE
    OBVIOUS
  <2>3. n - k \in T
    BY <2>2
  <2>4. QED
    BY <2>1, <2>3
<1>2. PICK t \in T : \A u \in T : t <= u
  BY <1>1, Least
<1>3. PICK m \in S : t = n - m
  BY <1>2
<1>4. ASSUME NEW k \in S PROVE k <= m
  <2>1. n - k \in T /\ n - m <= n - k
    BY <1>2, <1>3
  <2>2. k \in 0 .. n /\ m \in 0 .. n
    OBVIOUS
  <2>3. QED
    BY <2>1, <2>2
<1>5. QED
  BY <1>4

\* Sequences are equal when their lengths and elements are.
LEMMA SeqEqualOf ==
    ASSUME NEW M, NEW s \in Seq(M), NEW t \in Seq(M), Len(s) = Len(t), \A i \in 1 .. Len(s) : s[i] = t[i]
    PROVE  s = t
  OBVIOUS

\* The end of a sequence.
LEMMA SuffixIs ==
    ASSUME NEW M, NEW s \in Seq(M), NEW r \in 1 .. Len(s) + 1
    PROVE  /\ SubSeq(s, r, Len(s)) \in Seq(M) /\ Len(SubSeq(s, r, Len(s))) = Len(s) - r + 1
           /\ \A x \in 1 .. Len(s) - r + 1 : SubSeq(s, r, Len(s))[x] = s[r + x - 1]
<1>1. Len(s) \in Nat /\ r \in Nat /\ r > 0
  OBVIOUS
<1>2. QED
  BY <1>1

\* The fields of a message.
LEMMA MsgIs ==
    ASSUME NEW m \in Msgs
    PROVE  /\ m.role \in {"user", "progress", "context", "anchor", "assistant", "tool"}
           /\ m.role = "assistant" => /\ m.calls \in Seq(Proper)
                                     /\ \A k \in DOMAIN m.calls : m.calls[k] \in Proper /\ m.calls[k].n \in Nat
           /\ m.role = "tool" => m.call \in Proper /\ m.call.n \in Nat
           /\ m.role = "anchor" => m.of \in Tables
<1>1. \A c \in Proper : c.n \in Nat
  BY DEF Proper, CallSet
<1>2. \/ m \in [role : {"user", "progress", "context"}] \/ m \in [role : {"anchor"}, of : Tables]
      \/ m \in [role : {"assistant"}, calls : Seq(Proper)] \/ m \in [role : {"tool"}, call : Proper]
  BY DEF Msgs
<1>3. QED
  BY <1>1, <1>2

\* A sequence that is not empty has a length above zero.
LEMMA LenOf == ASSUME NEW M, NEW s \in Seq(M), s # <<>> PROVE Len(s) \in Nat /\ Len(s) > 0 /\ DOMAIN s = 1 .. Len(s)
  OBVIOUS

\* out are the messages of ms at places g, in order, from the p-th on; after the first of
\* them only contexts are missing.
Picks(ms, out, p, g) ==
    /\ g \in [p + 1 .. Len(out) -> DOMAIN ms]
    /\ \A x \in p + 1 .. Len(out) : out[x] = ms[g[x]]
    /\ \A x, z \in p + 1 .. Len(out) : x < z => g[x] < g[z]
    /\ \A x \in p + 1 .. Len(out) : \A y \in DOMAIN ms :
          y > g[x] /\ ms[y].role # "context" => \E z \in x + 1 .. Len(out) : g[z] = y

\* Dropping stale contexts keeps the other messages, in order.
LEMMA StaleGo ==
    ASSUME NEW ms \in Seq(Msgs), ms # <<>>, ms[1] = User
    PROVE  /\ WithoutStaleContext(ms) \in Seq(Msgs) /\ WithoutStaleContext(ms) # <<>>
           /\ WithoutStaleContext(ms)[1] = User
           /\ \E g : Picks(ms, WithoutStaleContext(ms), 0, g) /\ g[1] = 1
<1> DEFINE Stale(i) == ms[i].role = "context" /\ \E j \in i + 1 .. Len(ms) : ms[j].role = "context"
           s == [i \in DOMAIN ms |-> IF Stale(i) THEN <<>> ELSE <<ms[i]>>]
           n == Len(ms)
           out == FlattenSeq(s)
<1>1. WithoutStaleContext(ms) = out
  BY DEF WithoutStaleContext
<1>2. n \in Nat /\ n > 0 /\ DOMAIN ms = 1 .. n /\ \A i \in 1 .. n : ms[i] \in Msgs
  OBVIOUS
<1>3. \A i \in 1 .. n : (s[i] = <<>> /\ ms[i].role = "context") \/ s[i] = <<ms[i]>>
  BY <1>2
<1>4. s[1] = <<ms[1]>>
  BY <1>2 DEF User
<1> HIDE DEF Stale
<1>5. s \in Seq(Seq(Msgs)) /\ Len(s) = n /\ s # <<>>
  <2>1. \A i \in 1 .. n : s[i] \in Seq(Msgs)
    BY <1>2, <1>3
  <2>2. s \in [1 .. n -> Seq(Msgs)]
    BY <1>2, <2>1
  <2> HIDE DEF s
  <2>3. QED
    BY <1>2, <2>2, IsASeqOf
<1> HIDE DEF s
<1> HIDE DEF n, out
<1>6. PICK f \in [1 .. n -> Seq(Msgs)] : /\ f[1] = s[1] /\ out = f[n]
                                         /\ \A i \in 1 .. n - 1 : f[i + 1] = f[i] \o s[i + 1]
  BY <1>5, FlattenSteps DEF out
<1> DEFINE Good(i, g) == /\ g \in [1 .. Len(f[i]) -> 1 .. i]
                         /\ \A x \in 1 .. Len(f[i]) : f[i][x] = ms[g[x]]
                         /\ \A x, z \in 1 .. Len(f[i]) : x < z => g[x] < g[z]
                         /\ \A y \in 1 .. i : ms[y].role # "context" => \E x \in 1 .. Len(f[i]) : g[x] = y
           S == {i \in 1 .. n : \E g : Good(i, g)}
<1>7. 1 \in S
  <2> DEFINE g == [x \in 1 .. 1 |-> 1]
  <2>1. f[1] = <<ms[1]>> /\ Len(f[1]) = 1 /\ f[1][1] = ms[1]
    BY <1>4, <1>6
  <2>2. g \in [1 .. 1 -> 1 .. 1] /\ g[1] = 1
    OBVIOUS
  <2> HIDE DEF g
  <2>3. Good(1, g)
    BY <2>1, <2>2
  <2> HIDE DEF Good
  <2>4. QED
    BY <1>2, <2>3
<1>8. ASSUME NEW i \in 1 .. n - 1, i \in S PROVE i + 1 \in S
  <2>1. PICK g : Good(i, g)
    BY <1>8
  <2>2. /\ f[i] \in Seq(Msgs) /\ f[i + 1] = f[i] \o s[i + 1] /\ i + 1 \in 1 .. n /\ i \in 1 .. n
        /\ Len(f[i]) \in Nat
    <3>1. i + 1 \in 1 .. n /\ i \in 1 .. n
      BY <1>2
    <3>2. f[i] \in Seq(Msgs) /\ f[i + 1] = f[i] \o s[i + 1]
      BY <1>6, <3>1
    <3>3. QED
      BY <3>1, <3>2
  <2>3. CASE s[i + 1] = <<>> /\ ms[i + 1].role = "context"
    <3>1. f[i + 1] = f[i]
      BY <2>2, <2>3
    <3>2. /\ g \in [1 .. Len(f[i + 1]) -> 1 .. i + 1]
          /\ \A y \in 1 .. i + 1 : ms[y].role # "context" => y \in 1 .. i
      BY <2>1, <2>2, <2>3, <3>1
    <3>3. Good(i + 1, g)
      BY <2>1, <3>1, <3>2
    <3> HIDE DEF Good
    <3>4. QED
      BY <2>2, <3>3
  <2>4. CASE s[i + 1] = <<ms[i + 1]>>
    <3> DEFINE m == Len(f[i])
               h == [x \in 1 .. m + 1 |-> IF x <= m THEN g[x] ELSE i + 1]
    <3>1. /\ Len(f[i + 1]) = m + 1 /\ f[i + 1][m + 1] = ms[i + 1]
          /\ \A x \in 1 .. m : f[i + 1][x] = f[i][x]
      BY <2>2, <2>4
    <3>2. g \in [1 .. m -> 1 .. i] /\ m \in Nat
      BY <2>1, <2>2
    <3>3. h \in [1 .. m + 1 -> 1 .. i + 1] /\ h[m + 1] = i + 1 /\ \A x \in 1 .. m : h[x] = g[x] /\ h[x] \in 1 .. i
      <4> HIDE DEF m
      <4>1. i + 1 \in 1 .. i + 1 /\ \A x \in 1 .. m : g[x] \in 1 .. i + 1 /\ g[x] \in 1 .. i
        BY <3>2
      <4>2. \A x \in 1 .. m + 1 : x <= m => x \in 1 .. m
        BY <3>2
      <4>3. QED
        BY <3>2, <4>1, <4>2
    <3> HIDE DEF h
    <3>4. ASSUME NEW x \in 1 .. m + 1 PROVE f[i + 1][x] = ms[h[x]]
      BY <2>1, <3>1, <3>2, <3>3
    <3>5. ASSUME NEW x \in 1 .. m + 1, NEW z \in 1 .. m + 1, x < z PROVE h[x] < h[z]
      <4>1. CASE z = m + 1
        BY <3>2, <3>3, <3>5, <4>1
      <4>2. CASE z # m + 1
        <5> HIDE DEF m
        <5>1. x \in 1 .. m /\ z \in 1 .. m
          BY <3>2, <3>5, <4>2
        <5>2. QED
          BY <2>1, <3>3, <3>5, <5>1 DEF m
      <4>3. QED
        BY <4>1, <4>2
    <3>6. ASSUME NEW y \in 1 .. i + 1, ms[y].role # "context" PROVE \E x \in 1 .. m + 1 : h[x] = y
      <4>1. CASE y = i + 1
        BY <3>2, <3>3, <4>1
      <4>2. CASE y # i + 1
        <5>1. y \in 1 .. i
          BY <4>2
        <5>2. PICK x \in 1 .. m : g[x] = y
          BY <2>1, <3>6, <5>1
        <5>3. x \in 1 .. m + 1 /\ h[x] = y
          BY <3>2, <3>3, <5>2
        <5>4. QED
          BY <5>3
      <4>3. QED
        BY <4>1, <4>2
    <3>7. Good(i + 1, h)
      BY <3>1, <3>3, <3>4, <3>5, <3>6
    <3> HIDE DEF Good
    <3>8. QED
      BY <2>2, <3>7
  <2>5. QED
    BY <1>3, <2>2, <2>3, <2>4
<1>9. n \in S
  <2> HIDE DEF S
  <2>1. 1 .. n \subseteq S
    BY <1>2, <1>7, <1>8, Upto
  <2>2. QED
    BY <1>2, <2>1
<1>10. PICK g : Good(n, g)
  BY <1>9
<1> HIDE DEF out
<1>11. /\ out \in Seq(Msgs) /\ g \in [1 .. Len(out) -> 1 .. n] /\ \A x \in 1 .. Len(out) : out[x] = ms[g[x]]
       /\ \A x, z \in 1 .. Len(out) : x < z => g[x] < g[z]
       /\ \A y \in 1 .. n : ms[y].role # "context" => \E x \in 1 .. Len(out) : g[x] = y
  BY <1>2, <1>6, <1>10
<1>12. PICK a \in 1 .. Len(out) : g[a] = 1
  <2>1. 1 \in 1 .. n /\ ms[1].role # "context"
    BY <1>2 DEF User
  <2>2. QED
    BY <1>11, <2>1
<1>13. Len(out) \in Nat /\ out # <<>> /\ 1 \in 1 .. Len(out) /\ a = 1
  <2>1. Len(out) \in Nat /\ 1 \in 1 .. Len(out)
    BY <1>11, <1>12
  <2>2. a > 1 => g[1] < g[a] /\ g[1] \in 1 .. n
    BY <1>11, <1>12, <2>1
  <2>3. QED
    BY <1>11, <1>12, <2>1, <2>2
<1>14. \A x \in 1 .. Len(out) : \A y \in 1 .. n :
          y > g[x] /\ ms[y].role # "context" => \E z \in x + 1 .. Len(out) : g[z] = y
  <2>1. SUFFICES ASSUME NEW x \in 1 .. Len(out), NEW y \in 1 .. n, y > g[x], ms[y].role # "context"
                 PROVE  \E z \in x + 1 .. Len(out) : g[z] = y
    OBVIOUS
  <2>2. PICK z \in 1 .. Len(out) : g[z] = y
    BY <1>11, <2>1
  <2>3. ~ (z <= x)
    <3>1. g[x] \in 1 .. n /\ g[z] \in 1 .. n /\ (z < x => g[z] < g[x])
      BY <1>11, <2>1, <2>2
    <3>2. y # g[x] /\ ~ (g[z] < g[x])
      BY <2>1, <2>2, <3>1
    <3>3. ~ (z < x) /\ z # x
      BY <2>2, <3>1, <3>2
    <3>4. QED
      BY <3>3, <1>11
  <2>4. QED
    BY <1>13, <2>2, <2>3
<1>15. Picks(ms, out, 0, g)
  <2>1. 0 + 1 = 1 /\ DOMAIN ms = 1 .. n
    BY <1>2
  <2>2. g \in [0 + 1 .. Len(out) -> DOMAIN ms] /\ \A x \in 0 + 1 .. Len(out) : out[x] = ms[g[x]]
    BY <1>11, <2>1
  <2>3. \A x, z \in 0 + 1 .. Len(out) : x < z => g[x] < g[z]
    BY <1>11, <2>1
  <2>4. \A x \in 0 + 1 .. Len(out) : \A y \in DOMAIN ms :
          y > g[x] /\ ms[y].role # "context" => \E z \in x + 1 .. Len(out) : g[z] = y
    BY <1>14, <2>1
  <2>5. QED
    BY <2>2, <2>3, <2>4, Zenon DEF Picks
<1>16. QED
  BY <1>1, <1>11, <1>12, <1>13, <1>15

-----------------------------------------------------------------------------
\* What a collapsed message can become.
Sums == [role : {"progress"}] \cup [role : {"anchor"}, of : Tables]

\* What the messages before the window become: anchors and progress messages.
LEMMA CollapseIs == ASSUME NEW ms \in Seq(Msgs), NEW budget PROVE Collapse(ms, budget) \in Seq(Sums)
<1> DEFINE keep == {i \in Anchors(ms) : Cardinality({j \in Anchors(ms) : j <= i}) <= budget}
           Pending(i) == \E j \in 1 .. i - 1 : Summarised(ms[j]) /\ keep \cap (j .. i - 1) = {}
           Before(i) == IF Pending(i) THEN <<Progress>> ELSE <<>>
           s == [i \in DOMAIN ms |-> IF i \in keep THEN Before(i) \o <<ms[i]>> ELSE <<>>]
<1>1. Collapse(ms, budget) = FlattenSeq(s) \o Before(Len(ms) + 1)
  BY DEF Collapse
<1>2. \A i \in keep : i \in DOMAIN ms /\ ms[i] \in Sums
  <2>1. \A i \in keep : i \in DOMAIN ms /\ ms[i].role = "anchor" /\ ms[i] \in Msgs
    BY DEF Anchors
  <2> HIDE DEF keep
  <2>2. QED
    BY <2>1 DEF Msgs, Sums
<1> HIDE DEF Pending, keep
<1>3. \A i : Before(i) \in Seq(Sums)
  <2>1. Progress \in Sums
    BY DEF Progress, Sums
  <2>2. <<Progress>> \in Seq(Sums) /\ <<>> \in Seq(Sums)
    BY <2>1
  <2>3. QED
    BY <2>2
<1> HIDE DEF Before
<1>4. \A i \in DOMAIN ms : s[i] \in Seq(Sums)
  <2>1. ASSUME NEW i \in DOMAIN ms PROVE s[i] \in Seq(Sums)
    <3>1. CASE i \in keep
      <4>1. Before(i) \in Seq(Sums) /\ ms[i] \in Sums /\ s[i] = Before(i) \o <<ms[i]>>
        BY <1>2, <1>3, <3>1
      <4>2. QED
        BY <4>1
    <3>2. CASE i \notin keep
      BY <3>2
    <3>3. QED
      BY <3>1, <3>2
  <2>2. QED
    BY <2>1
<1>5. s \in Seq(Seq(Sums))
  <2>1. s \in [1 .. Len(ms) -> Seq(Sums)] /\ Len(ms) \in Nat
    BY <1>4
  <2> HIDE DEF s
  <2>2. QED
    BY <2>1, IsASeqOf
<1>6. FlattenSeq(s) \in Seq(Sums)
  BY <1>5, FlattenType
<1> HIDE DEF s
<1>7. QED
  BY <1>1, <1>3, <1>6

\* The window starts at the second message or at one that is not a result.
LEMMA RecentStartIs ==
    ASSUME NEW ms \in Seq(Msgs), Len(ms) > Window + 1
    PROVE  /\ RecentStart(ms) \in 2 .. Len(ms) /\ RecentStart(ms) <= Len(ms) - Window + 1
           /\ RecentStart(ms) = 2 \/ ms[RecentStart(ms)].role # "tool"
<1> DEFINE first == Len(ms) - Window + 1
           heads == {i \in 2 .. first : ms[i].role # "tool"}
<1>1. Window \in Nat /\ Window > 0 /\ Len(ms) \in Nat
  BY Limits
<1>2. first \in Nat /\ first > 2 /\ first <= Len(ms)
  BY <1>1
<1>3. RecentStart(ms) = IF heads = {} THEN 2 ELSE CHOOSE i \in heads : \A j \in heads : j <= i
  BY DEF RecentStart
<1>4. CASE heads = {}
  BY <1>1, <1>2, <1>3, <1>4
<1>5. CASE heads # {}
  <2>1. heads \in SUBSET (0 .. first)
    BY <1>2
  <2>2. \E i \in heads : \A j \in heads : j <= i
    BY <1>2, <1>5, <2>1, Greatest
  <2>3. RecentStart(ms) \in heads
    <3> HIDE DEF heads
    <3>1. QED
      BY <1>3, <1>5, <2>2
  <2>4. RecentStart(ms) \in 2 .. first /\ ms[RecentStart(ms)].role # "tool"
    BY <2>3
  <2>5. QED
    BY <1>1, <1>2, <2>4
<1>6. QED
  BY <1>4, <1>5

\* out is ms with its oldest messages collapsed and its stale contexts gone.
Cut(ms, out) ==
    /\ out \in Seq(Msgs) /\ out # <<>> /\ out[1] = User
    /\ \E p \in 1 .. Len(out) : \E g :
          /\ \A x \in 2 .. p : out[x].role \in {"anchor", "progress"}
          /\ Picks(ms, out, p, g)
          /\ \/ \A y \in 2 .. Len(ms) : ms[y].role # "context" => \E z \in p + 1 .. Len(out) : g[z] = y
             \/ p < Len(out) /\ out[p + 1].role # "tool"

\* Collapsing the messages before such a place is a cut.
LEMMA CutIs ==
    ASSUME NEW ms \in Seq(Msgs), NEW kept \in Seq(Msgs), kept # <<>>, kept[1] = User,
           NEW g, Picks(ms, kept, 0, g), g[1] = 1,
           NEW r \in 2 .. Len(kept) + 1, r = 2 \/ (r <= Len(kept) /\ kept[r].role # "tool"),
           NEW c \in Seq(Sums)
    PROVE  Cut(ms, <<kept[1]>> \o c \o SubSeq(kept, r, Len(kept)))
<1> DEFINE p == 1 + Len(c)
           out == <<kept[1]>> \o c \o SubSeq(kept, r, Len(kept))
           h == [x \in p + 1 .. Len(out) |-> g[r + (x - p - 1)]]
<1>1. Len(kept) \in Nat /\ Len(kept) > 0 /\ r \in Nat /\ p \in Nat /\ p > 0 /\ Len(c) \in Nat
  OBVIOUS
<1>2. c \in Seq(Msgs) /\ \A x \in 1 .. Len(c) : c[x].role \in {"anchor", "progress"}
  <2>1. Sums \subseteq Msgs /\ \A m \in Sums : m.role \in {"anchor", "progress"}
    BY DEF Sums, Msgs
  <2>2. QED
    BY <2>1
<1>3. /\ SubSeq(kept, r, Len(kept)) \in Seq(Msgs) /\ Len(SubSeq(kept, r, Len(kept))) = Len(kept) - r + 1
      /\ \A x \in 1 .. Len(kept) - r + 1 : SubSeq(kept, r, Len(kept))[x] = kept[r + x - 1]
  BY <1>1
<1>4. kept[1] \in Msgs
  BY <1>1
<1> DEFINE t == SubSeq(kept, r, Len(kept))
<1> HIDE DEF t
<1>5. /\ out \in Seq(Msgs) /\ Len(out) = p + Len(kept) - r + 1 /\ out[1] = User
      /\ \A x \in 2 .. p : out[x] = c[x - 1]
      /\ \A x \in p + 1 .. Len(out) : out[x] = kept[r + (x - p - 1)] /\ r + (x - p - 1) \in r .. Len(kept)
  <2>1. /\ t \in Seq(Msgs) /\ Len(t) = Len(kept) - r + 1
        /\ \A x \in 1 .. Len(kept) - r + 1 : t[x] = kept[r + x - 1]
    BY <1>3 DEF t
  <2>2. out = <<kept[1]>> \o c \o t
    BY DEF t
  <2> HIDE DEF out
  <2>3. out \in Seq(Msgs) /\ Len(out) = 1 + Len(c) + Len(t)
    <3>1. <<kept[1]>> \o c \in Seq(Msgs) /\ Len(<<kept[1]>> \o c) = 1 + Len(c)
      BY <1>2, <1>4
    <3> DEFINE first == <<kept[1]>> \o c
    <3>2. first \in Seq(Msgs) /\ Len(first) = 1 + Len(c) /\ out = first \o t
      BY <2>2, <3>1
    <3> HIDE DEF first
    <3>3. out \in Seq(Msgs) /\ Len(out) = Len(first) + Len(t)
      BY <2>1, <3>2, JoinIs
    <3>4. QED
      BY <3>2, <3>3
  <2>4. out[1] = kept[1] /\ \A x \in 2 .. 1 + Len(c) : out[x] = c[x - 1]
    BY <1>1, <1>2, <1>4, <2>1, <2>2
  <2>5. \A x \in 1 + Len(c) + 1 .. 1 + Len(c) + Len(t) : out[x] = t[x - 1 - Len(c)]
    BY <1>1, <1>2, <1>4, <2>1, <2>2
  <2>6. ASSUME NEW x \in p + 1 .. Len(out) PROVE out[x] = kept[r + (x - p - 1)] /\ r + (x - p - 1) \in r .. Len(kept)
    <3>1. x \in 1 + Len(c) + 1 .. 1 + Len(c) + Len(t) /\ x - 1 - Len(c) \in 1 .. Len(kept) - r + 1
      <4>1. x \in (1 + Len(c)) + 1 .. 1 + Len(c) + (Len(kept) - r + 1)
        BY <2>1, <2>3
      <4>2. ASSUME NEW a \in Nat, a = Len(c), NEW b \in Int, b = Len(kept) - r + 1
            PROVE  x \in 1 + a + 1 .. 1 + a + b /\ x - 1 - a \in 1 .. b
        BY <4>1, <4>2
      <4>3. Len(kept) - r + 1 \in Int
        BY <1>1
      <4>4. QED
        BY <1>1, <2>1, <4>2, <4>3
    <3>2. out[x] = t[x - 1 - Len(c)] /\ t[x - 1 - Len(c)] = kept[r + (x - 1 - Len(c)) - 1]
      BY <2>1, <2>5, <3>1
    <3>3. r + (x - 1 - Len(c)) - 1 = r + (x - p - 1)
      BY <1>1
    <3>4. QED
      BY <1>1, <3>1, <3>2, <3>3
  <2>7. QED
    BY <1>1, <2>1, <2>3, <2>4, <2>6
<1> HIDE DEF out
<1>6. /\ g \in [1 .. Len(kept) -> DOMAIN ms] /\ \A x \in 1 .. Len(kept) : kept[x] = ms[g[x]]
      /\ \A x, z \in 1 .. Len(kept) : x < z => g[x] < g[z]
      /\ \A x \in 1 .. Len(kept) : \A y \in DOMAIN ms :
            y > g[x] /\ ms[y].role # "context" => \E z \in x + 1 .. Len(kept) : g[z] = y
  BY DEF Picks
<1>7. \A x \in p + 1 .. Len(out) : r + (x - p - 1) \in 1 .. Len(kept) /\ h[x] = g[r + (x - p - 1)]
  BY <1>1, <1>5
<1>8. h \in [p + 1 .. Len(out) -> DOMAIN ms]
  BY <1>6, <1>7
<1>9. DOMAIN h = p + 1 .. Len(out)
  OBVIOUS
<1> HIDE DEF h
<1>10. \A k \in r .. Len(kept) : k - r + p + 1 \in p + 1 .. Len(out) /\ h[k - r + p + 1] = g[k]
  <2>1. SUFFICES ASSUME NEW k \in r .. Len(kept)
                 PROVE  k - r + p + 1 \in p + 1 .. Len(out) /\ h[k - r + p + 1] = g[k]
    OBVIOUS
  <2>2. k - r + p + 1 \in p + 1 .. Len(out) /\ r + ((k - r + p + 1) - p - 1) = k
    <3> HIDE DEF p
    <3>1. QED
      BY <1>1, <1>5
  <2>3. QED
    BY <1>7, <2>2
<1>11. Picks(ms, out, p, h)
  <2>1. \A x \in p + 1 .. Len(out) : out[x] = ms[h[x]]
    BY <1>5, <1>6, <1>7
  <2>2. ASSUME NEW x \in p + 1 .. Len(out), NEW z \in p + 1 .. Len(out), x < z PROVE h[x] < h[z]
    <3>1. r + (x - p - 1) < r + (z - p - 1)
      BY <1>1, <2>2
    <3>2. QED
      BY <1>6, <1>7, <2>2, <3>1
  <2>3. ASSUME NEW x \in p + 1 .. Len(out), NEW y \in DOMAIN ms, y > h[x], ms[y].role # "context"
        PROVE  \E z \in x + 1 .. Len(out) : h[z] = y
    <3> DEFINE k0 == r + (x - p - 1)
    <3>1. k0 \in 1 .. Len(kept) /\ h[x] = g[k0] /\ k0 >= r
      BY <1>1, <1>7
    <3>2. PICK k \in k0 + 1 .. Len(kept) : g[k] = y
      BY <1>6, <2>3, <3>1
    <3>3. k \in r .. Len(kept)
      BY <3>1, <3>2
    <3>4. h[k - r + p + 1] = y /\ k - r + p + 1 \in p + 1 .. Len(out)
      BY <1>10, <3>2, <3>3
    <3>5. k - r + p + 1 \in x + 1 .. Len(out)
      <4> HIDE DEF p
      <4>1. QED
        BY <1>1, <3>1, <3>2, <3>4
    <3>6. QED
      BY <3>4, <3>5
  <2>4. QED
    BY <1>8, <2>1, <2>2, <2>3 DEF Picks
<1>12. \/ \A y \in 2 .. Len(ms) : ms[y].role # "context" => \E z \in p + 1 .. Len(out) : h[z] = y
       \/ p < Len(out) /\ out[p + 1].role # "tool"
  <2>1. CASE r = 2
    <3>1. ASSUME NEW y \in 2 .. Len(ms), ms[y].role # "context" PROVE \E z \in p + 1 .. Len(out) : h[z] = y
      <4>1. y > g[1] /\ y \in DOMAIN ms /\ 1 \in 1 .. Len(kept)
        BY <1>1
      <4>2. PICK k \in 2 .. Len(kept) : g[k] = y
        BY <1>6, <3>1, <4>1
      <4>3. QED
        BY <1>10, <2>1, <4>2
    <3>2. QED
      BY <3>1
  <2>2. CASE r <= Len(kept) /\ kept[r].role # "tool"
    <3>1. p + 1 \in p + 1 .. Len(out) /\ r + ((p + 1) - p - 1) = r
      BY <1>1, <1>5, <2>2, SMTT(30)
    <3>2. out[p + 1] = kept[r]
      BY <1>5, <3>1
    <3>3. QED
      BY <1>1, <1>5, <2>2, <3>1, <3>2
  <2>3. QED
    BY <2>1, <2>2
<1>13. p \in 1 .. Len(out) /\ out # <<>>
  <2>1. out \in Seq(Msgs) /\ Len(out) = p + Len(kept) - r + 1
    BY <1>5
  <2>2. r <= Len(kept) + 1 /\ p \in Nat /\ p > 0 /\ Len(kept) \in Nat /\ r \in Nat
    BY <1>1
  <2> HIDE DEF p
  <2>3. Len(out) \in Nat /\ p <= Len(out)
    BY <2>1, <2>2
  <2>4. out # <<>>
    <3>1. out = <<>> => Len(out) = 0
      OBVIOUS
    <3>2. QED
      BY <2>2, <2>3, <3>1
  <2>5. p \in 1 .. Len(out)
    BY <2>2, <2>3
  <2>6. QED
    BY <2>4, <2>5
<1>14. ASSUME NEW x \in 2 .. p PROVE out[x].role \in {"anchor", "progress"}
  <2>1. x - 1 \in 1 .. Len(c)
    BY <1>1
  <2>2. out[x] = c[x - 1]
    BY <1>5
  <2>3. QED
    BY <1>2, <2>1, <2>2
<1>15. Cut(ms, out)
  BY <1>5, <1>11, <1>12, <1>13, <1>14 DEF Cut
<1>16. QED
  BY <1>15 DEF out

\* A conversation is its first message and the rest.
LEMMA WithTail ==
    ASSUME NEW q \in Seq(Msgs), q # <<>>, q[1] = User
    PROVE  q = <<q[1]>> \o <<>> \o SubSeq(q, 2, Len(q))
<1>1. Len(q) \in Nat /\ Len(q) > 0
  OBVIOUS
<1> DEFINE t == SubSeq(q, 2, Len(q))
<1>2. t \in Seq(Msgs) /\ Len(t) = Len(q) - 1 /\ \A x \in 1 .. Len(q) - 1 : t[x] = q[x + 1]
  <2>1. 2 \in 1 .. Len(q) + 1
    BY <1>1
  <2>2. \A x : 2 + x - 1 = x + 1 \/ x \notin Int
    OBVIOUS
  <2>3. /\ t \in Seq(Msgs) /\ Len(t) = Len(q) - 2 + 1
        /\ \A x \in 1 .. Len(q) - 2 + 1 : t[x] = q[2 + x - 1]
    BY <2>1, SuffixIs
  <2> HIDE DEF t
  <2>4. QED
    BY <1>1, <2>2, <2>3
<1>3. q[1] \in Msgs
  <2>1. 1 \in 1 .. Len(q)
    BY <1>1
  <2>2. QED
    BY <2>1
<1> HIDE DEF t
<1> DEFINE o == <<q[1]>> \o <<>> \o t
<1>4. o \in Seq(Msgs) /\ Len(o) = Len(q) /\ o[1] = q[1] /\ \A x \in 2 .. Len(q) : o[x] = t[x - 1]
  BY <1>1, <1>2, <1>3
<1>5. \A x \in 1 .. Len(q) : o[x] = q[x]
  BY <1>1, <1>2, <1>4
<1> HIDE DEF o
<1>6. o = q
  BY <1>4, <1>5, SeqEqualOf
<1>7. QED
  BY <1>6 DEF o, t

\* Leaving a conversation alone is a cut.
LEMMA CutSame == ASSUME NEW ms \in Seq(Msgs), ms # <<>>, ms[1] = User PROVE Cut(ms, ms)
<1> DEFINE i == [x \in 1 .. Len(ms) |-> x]
<1>1. i[1] = 1 /\ i \in [0 + 1 .. Len(ms) -> DOMAIN ms] /\ \A x \in 1 .. Len(ms) : i[x] = x
  BY LenOf
<1> HIDE DEF i
<1>2. Picks(ms, ms, 0, i)
  <2>1. Len(ms) \in Nat /\ DOMAIN ms = 1 .. Len(ms)
    OBVIOUS
  <2>2. QED
    BY <1>1, <2>1 DEF Picks
<1>3. 2 \in 2 .. Len(ms) + 1 /\ <<>> \in Seq(Sums)
  BY LenOf
<1>4. Cut(ms, <<ms[1]>> \o <<>> \o SubSeq(ms, 2, Len(ms)))
  BY <1>1, <1>2, <1>3, CutIs
<1>5. QED
  BY <1>4, WithTail

\* So pruning is a cut.
LEMMA PruneIs ==
    ASSUME NEW ms \in Seq(Msgs), ms # <<>>, ms[1] = User, pruneMessages(ms)
    PROVE  Cut(ms, messages')
<1> DEFINE kept == WithoutStaleContext(ms)
<1>1. PICK g : /\ kept \in Seq(Msgs) /\ kept # <<>> /\ kept[1] = User
               /\ Picks(ms, kept, 0, g) /\ g[1] = 1
  BY StaleGo
<1>2. \/ messages' = ms
      \/ messages' = kept
      \/ /\ Len(kept) > Window + 1
         /\ \E b : messages' = <<kept[1]>> \o Collapse(Old(kept), b) \o SubSeq(kept, Len(Old(kept)) + 2, Len(kept))
  <2>1. kept \in Seq(Msgs) /\ Len(kept) \in Nat /\ Window \in Nat
    BY <1>1, Limits
  <2> HIDE DEF kept
  <2>2. CASE Len(kept) > Window + 1
    BY <2>2 DEF pruneMessages, kept
  <2>3. CASE ~ (Len(kept) > Window + 1)
    <3>1. Len(kept) <= Window + 1
      BY <2>1, <2>3
    <3>2. QED
      BY <3>1 DEF pruneMessages, kept
  <2>4. QED
    BY <2>2, <2>3
<1> HIDE DEF kept
<1>3. CASE messages' = ms
  BY <1>3, CutSame
<1>4. CASE messages' = kept
  <2>1. 2 \in 2 .. Len(kept) + 1 /\ <<>> \in Seq(Sums)
    BY <1>1, LenOf
  <2>2. Cut(ms, <<kept[1]>> \o <<>> \o SubSeq(kept, 2, Len(kept)))
    BY <1>1, <2>1, CutIs
  <2>3. QED
    BY <1>1, <1>4, <2>2, WithTail
<1>5. ASSUME Len(kept) > Window + 1,
             NEW b, messages' = <<kept[1]>> \o Collapse(Old(kept), b) \o SubSeq(kept, Len(Old(kept)) + 2, Len(kept))
      PROVE  Cut(ms, messages')
  <2> DEFINE r == RecentStart(kept)
  <2>1. r \in 2 .. Len(kept) /\ (r = 2 \/ kept[r].role # "tool") /\ Len(kept) \in Nat
    BY <1>1, <1>5, RecentStartIs
  <2>2. Old(kept) = SubSeq(kept, 2, r - 1)
    BY DEF Old
  <2> HIDE DEF r
  <2>3. Old(kept) \in Seq(Msgs) /\ Len(Old(kept)) + 2 = r
    BY <1>1, <2>1, <2>2
  <2>4. Collapse(Old(kept), b) \in Seq(Sums)
    BY <2>3, CollapseIs
  <2>5. r \in 2 .. Len(kept) + 1 /\ (r = 2 \/ (r <= Len(kept) /\ kept[r].role # "tool"))
    BY <2>1
  <2>6. QED
    BY <1>1, <1>5, <2>3, <2>4, <2>5, CutIs
<1>6. QED
  BY <1>2, <1>3, <1>4, <1>5

-----------------------------------------------------------------------------
\* A cut keeps a conversation in order and grouped, and whole if it was whole.
LEMMA CutConv ==
    ASSUME NEW ms, Conv(ms), NEW out, Cut(ms, out)
    PROVE  /\ Conv(out)
           /\ Whole(ms, Len(ms)) => Whole(out, Len(out))
           /\ \A top \in Nat : Numbered(ms, top) => Numbered(out, top)
<1>1. PICK p \in 1 .. Len(out) : \E g :
          /\ \A x \in 2 .. p : out[x].role \in {"anchor", "progress"}
          /\ Picks(ms, out, p, g)
  BY DEF Cut
<1>2. PICK g : /\ \A x \in 2 .. p : out[x].role \in {"anchor", "progress"}
               /\ Picks(ms, out, p, g)
  BY <1>1
<1>3. /\ ms \in Seq(Msgs) /\ out \in Seq(Msgs) /\ out # <<>> /\ out[1] = User
      /\ DOMAIN ms = 1 .. Len(ms) /\ DOMAIN out = 1 .. Len(out) /\ Len(ms) \in Nat /\ Len(out) \in Nat
  BY DEF Conv, Cut
<1>4. /\ g \in [p + 1 .. Len(out) -> 1 .. Len(ms)]
      /\ \A x \in p + 1 .. Len(out) : out[x] = ms[g[x]] /\ g[x] \in 1 .. Len(ms)
      /\ \A x, z \in p + 1 .. Len(out) : x < z => g[x] < g[z]
      /\ \A x \in p + 1 .. Len(out) : \A y \in 1 .. Len(ms) :
            y > g[x] /\ ms[y].role # "context" => \E z \in x + 1 .. Len(out) : g[z] = y
  BY <1>2, <1>3 DEF Picks
<1>5. ASSUME NEW x \in 1 .. Len(out), out[x].role \in {"assistant", "tool"} PROVE x \in p + 1 .. Len(out)
  <2>1. x # 1
    BY <1>3, <1>5 DEF User
  <2>2. x \notin 2 .. p
    BY <1>2, <1>5
  <2>3. QED
    BY <1>3, <2>1, <2>2
<1>6. InOrder(ms) /\ Grouped(ms)
  BY DEF Conv
<1>7. InOrder(out)
  <2>1. ASSUME NEW x \in 1 .. Len(out), Asks(out, x), NEW k \in DOMAIN out[x].calls, NEW m \in DOMAIN out[x].calls, k < m
        PROVE  out[x].calls[k].n < out[x].calls[m].n
    BY <1>3, <1>4, <1>5, <1>6, <2>1 DEF InOrder, Asks
  <2>2. ASSUME NEW x \in 1 .. Len(out), NEW z \in 1 .. Len(out), x < z
        PROVE  /\ Asks(out, x) /\ Asks(out, z) =>
                    \A k \in DOMAIN out[x].calls, m \in DOMAIN out[z].calls : out[x].calls[k].n < out[z].calls[m].n
               /\ Tells(out, x) /\ Tells(out, z) => out[x].call.n < out[z].call.n
               /\ Tells(out, x) /\ Asks(out, z) => \A m \in DOMAIN out[z].calls : out[x].call.n < out[z].calls[m].n
    <3>1. CASE x \in p + 1 .. Len(out) /\ z \in p + 1 .. Len(out)
      <4>1. g[x] < g[z] /\ out[x] = ms[g[x]] /\ out[z] = ms[g[z]] /\ g[x] \in DOMAIN ms /\ g[z] \in DOMAIN ms
        BY <1>3, <1>4, <2>2, <3>1
      <4>2. QED
        BY <1>6, <4>1 DEF InOrder, Asks, Tells
    <3>2. CASE ~ (x \in p + 1 .. Len(out) /\ z \in p + 1 .. Len(out))
      BY <1>5, <3>2 DEF Asks, Tells
    <3>3. QED
      BY <3>1, <3>2
  <2>3. QED
    BY <1>3, <2>1, <2>2 DEF InOrder
<1>8. Grouped(out)
  <2>1. SUFFICES ASSUME NEW x \in 1 .. Len(out), NEW z \in 1 .. Len(out), x < z, Asks(out, x), Tells(out, z)
                 PROVE  /\ \E h \in x .. z - 1 :
                             /\ Asks(out, h) /\ \E k \in DOMAIN out[h].calls : out[h].calls[k] = out[z].call
                             /\ \A y \in h + 1 .. z - 1 : Tells(out, y) \/ Injected(out[y])
                        /\ \A k \in DOMAIN out[x].calls : out[x].calls[k] = out[z].call =>
                             \A m \in 1 .. k - 1 : \E y \in x + 1 .. z - 1 : Tells(out, y) /\ out[y].call = out[x].calls[m]
    BY <1>3 DEF Grouped
  <2>2. /\ x \in p + 1 .. Len(out) /\ z \in p + 1 .. Len(out) /\ g[x] < g[z]
        /\ out[x] = ms[g[x]] /\ out[z] = ms[g[z]] /\ g[x] \in 1 .. Len(ms) /\ g[z] \in 1 .. Len(ms)
        /\ Asks(ms, g[x]) /\ Tells(ms, g[z])
    BY <1>4, <1>5, <2>1 DEF Asks, Tells
  <2>3. ASSUME NEW y \in g[x] .. g[z] - 1, ms[y].role # "context"
        PROVE  \E w \in x .. z - 1 : g[w] = y /\ w \in p + 1 .. Len(out) /\ out[w] = ms[y]
    <3>1. CASE y = g[x]
      BY <2>1, <2>2, <3>1
    <3>2. CASE y # g[x]
      <4>1. y \in 1 .. Len(ms) /\ y > g[x] /\ y < g[z]
        BY <2>2, <3>2
      <4>2. PICK w \in x + 1 .. Len(out) : g[w] = y
        BY <1>4, <2>2, <2>3, <4>1
      <4>3. w \in p + 1 .. Len(out)
        BY <2>2, <4>2
      <4>4. ~ (z <= w)
        <5>1. z < w => g[z] < g[w]
          BY <1>4, <2>2, <4>3
        <5>2. z # w /\ ~ (g[z] < g[w])
          BY <2>2, <4>1, <4>2
        <5>3. QED
          BY <5>1, <5>2, <4>3
      <4>5. w \in x .. z - 1
        BY <1>3, <2>1, <4>2, <4>4
      <4>6. out[w] = ms[y]
        BY <1>4, <4>2, <4>3
      <4>7. QED
        BY <4>2, <4>3, <4>5, <4>6
    <3>3. QED
      BY <3>1, <3>2
  <2>4. \E h \in x .. z - 1 :
             /\ Asks(out, h) /\ \E k \in DOMAIN out[h].calls : out[h].calls[k] = out[z].call
             /\ \A y \in h + 1 .. z - 1 : Tells(out, y) \/ Injected(out[y])
    <3>0. g[x] \in DOMAIN ms /\ g[z] \in DOMAIN ms
      BY <1>3, <2>2
    <3>1. PICK h \in g[x] .. g[z] - 1 :
             /\ Asks(ms, h) /\ \E k \in DOMAIN ms[h].calls : ms[h].calls[k] = ms[g[z]].call
             /\ \A y \in h + 1 .. g[z] - 1 : Tells(ms, y) \/ Injected(ms[y])
      BY <1>6, <2>2, <3>0, GroupedAt
    <3>2. PICK w \in x .. z - 1 : g[w] = h /\ w \in p + 1 .. Len(out) /\ out[w] = ms[h]
      BY <2>3, <3>1 DEF Asks
    <3>3. ASSUME NEW y \in w + 1 .. z - 1 PROVE Tells(out, y) \/ Injected(out[y])
      <4>1. y \in p + 1 .. Len(out) /\ w < y /\ y < z
        <5>1. p \in Nat /\ w \in Nat /\ z \in Nat /\ w >= p + 1 /\ z <= Len(out) /\ Len(out) \in Nat
          BY <1>3, <3>2
        <5>2. QED
          BY <5>1
      <4>2. g[w] < g[y] /\ g[y] < g[z] /\ g[y] \in 1 .. Len(ms) /\ out[y] = ms[g[y]]
        BY <1>4, <2>2, <3>2, <4>1
      <4>3. g[y] \in h + 1 .. g[z] - 1
        <5>1. h \in Int /\ g[z] \in Int /\ g[y] \in Int /\ h < g[y] /\ g[y] < g[z]
          BY <2>2, <3>2, <4>2, <1>4
        <5>2. QED
          BY <5>1
      <4>4. QED
        BY <3>1, <4>2, <4>3 DEF Tells, Injected
    <3>4. Asks(out, w) /\ \E k \in DOMAIN out[w].calls : out[w].calls[k] = out[z].call
      BY <2>2, <3>1, <3>2 DEF Asks
    <3>5. QED
      BY <3>2, <3>3, <3>4
  <2>5. ASSUME NEW k \in DOMAIN out[x].calls, out[x].calls[k] = out[z].call, NEW m \in 1 .. k - 1
        PROVE  \E y \in x + 1 .. z - 1 : Tells(out, y) /\ out[y].call = out[x].calls[m]
    <3>0. k \in DOMAIN ms[g[x]].calls /\ ms[g[x]].calls[k] = ms[g[z]].call /\ g[x] \in DOMAIN ms /\ g[z] \in DOMAIN ms
      BY <1>3, <2>2, <2>5
    <3>1. PICK y \in g[x] + 1 .. g[z] - 1 : Tells(ms, y) /\ ms[y].call = ms[g[x]].calls[m]
      BY <1>6, <2>2, <2>5, <3>0, GroupedAt
    <3>2. y \in g[x] .. g[z] - 1 /\ ms[y].role # "context" /\ y # g[x]
      BY <2>2, <3>1 DEF Tells
    <3>3. PICK w \in x .. z - 1 : g[w] = y /\ w \in p + 1 .. Len(out) /\ out[w] = ms[y]
      BY <2>3, <3>2
    <3>4. w # x
      BY <3>2, <3>3
    <3>5. w \in x + 1 .. z - 1
      BY <3>3, <3>4
    <3>6. QED
      BY <2>2, <3>1, <3>3, <3>5 DEF Tells
  <2>6. QED
    BY <2>4, <2>5
<1>9. ASSUME Whole(ms, Len(ms)) PROVE Whole(out, Len(out))
  <2>1. SUFFICES ASSUME NEW x \in 1 .. Len(out), Asks(out, x), NEW k \in DOMAIN out[x].calls
                 PROVE  \E j \in DOMAIN out : Tells(out, j) /\ out[j].call = out[x].calls[k]
    BY DEF Whole
  <2>2. x \in p + 1 .. Len(out) /\ out[x] = ms[g[x]] /\ g[x] \in 1 .. Len(ms)
    BY <1>4, <1>5, <2>1 DEF Asks
  <2>3. PICK j \in DOMAIN ms : Tells(ms, j) /\ ms[j].call = ms[g[x]].calls[k]
    BY <1>9, <2>1, <2>2 DEF Whole, Asks
  <2>4. ~ (j < g[x]) /\ j # g[x]
    <3>1. j < g[x] => ms[j].call.n < ms[g[x]].calls[k].n
      BY <1>3, <1>6, <2>1, <2>2, <2>3 DEF InOrder, Asks
    <3>2. ms[g[x]].calls[k].n \in Nat
      <4>1. ms[g[x]] \in Msgs /\ ms[g[x]].role = "assistant" /\ k \in DOMAIN ms[g[x]].calls
        BY <1>3, <2>1, <2>2 DEF Asks
      <4>2. QED
        BY <4>1, MsgIs
    <3>3. j # g[x]
      BY <2>1, <2>2, <2>3 DEF Asks, Tells
    <3>4. QED
      BY <2>3, <3>1, <3>2, <3>3
  <2>5. PICK w \in x + 1 .. Len(out) : g[w] = j
    <3>1. j \in 1 .. Len(ms) /\ j > g[x] /\ ms[j].role # "context"
      BY <1>3, <2>2, <2>3, <2>4 DEF Tells
    <3>2. QED
      BY <1>4, <2>2, <3>1
  <2>6. w \in p + 1 .. Len(out) /\ w \in DOMAIN out /\ out[w] = ms[j]
    <3>1. w \in p + 1 .. Len(out)
      BY <2>2, <2>5
    <3>2. QED
      BY <1>3, <1>4, <2>5, <3>1
  <2>7. QED
    BY <2>2, <2>3, <2>6 DEF Tells
<1>10. ASSUME NEW top \in Nat, Numbered(ms, top) PROVE Numbered(out, top)
  BY <1>3, <1>4, <1>5, <1>10 DEF Numbered, Tells, Asks
<1>11. QED
  BY <1>3, <1>7, <1>8, <1>9, <1>10 DEF Conv

-----------------------------------------------------------------------------
\* The elements of an extended conversation.
LEMMA AppendIs ==
    ASSUME NEW ms \in Seq(Msgs), NEW m \in Msgs
    PROVE  /\ Append(ms, m) \in Seq(Msgs) /\ Len(Append(ms, m)) = Len(ms) + 1 /\ Len(ms) \in Nat
           /\ DOMAIN Append(ms, m) = 1 .. Len(ms) + 1 /\ DOMAIN ms = 1 .. Len(ms)
           /\ Append(ms, m)[Len(ms) + 1] = m /\ \A i \in 1 .. Len(ms) : Append(ms, m)[i] = ms[i]
           /\ Append(ms, m) # <<>>
  OBVIOUS

\* A message without calls or results can be added anywhere.
LEMMA AddPlain ==
    ASSUME NEW ms, Conv(ms), NEW m \in Msgs, m.role \in {"user", "progress", "context", "anchor"},
           ms = <<>> => m = User
    PROVE  /\ Conv(Append(ms, m))
           /\ \A top \in Nat : Numbered(ms, top) => Numbered(Append(ms, m), top)
           /\ \A n \in 0 .. Len(ms) : Whole(ms, n) => Whole(Append(ms, m), n)
           /\ Whole(ms, Len(ms)) => Whole(Append(ms, m), Len(ms) + 1)
<1> DEFINE out == Append(ms, m)
           n == Len(ms)
<1>1. ms \in Seq(Msgs) /\ (ms # <<>> => ms[1] = User) /\ InOrder(ms) /\ Grouped(ms)
  BY DEF Conv
<1>2. /\ out \in Seq(Msgs) /\ Len(out) = n + 1 /\ n \in Nat /\ DOMAIN out = 1 .. n + 1 /\ DOMAIN ms = 1 .. n
      /\ out[n + 1] = m /\ \A i \in 1 .. n : out[i] = ms[i]
  BY <1>1, AppendIs
<1>3. out # <<>> => out[1] = User
  <2>1. CASE ms = <<>>
    BY <1>2, <2>1
  <2>2. CASE ms # <<>>
    <3>1. 1 \in 1 .. n
      BY <1>1, <1>2, <2>2
    <3>2. QED
      BY <1>1, <1>2, <2>2, <3>1
  <2>3. QED
    BY <2>1, <2>2
<1> HIDE DEF out, n
<1>4. \A i \in 1 .. n + 1 : i \in 1 .. n \/ (i = n + 1 /\ out[i] = m)
  BY <1>2
<1>5. \A i \in 1 .. n + 1 : Asks(out, i) \/ Tells(out, i) => i \in 1 .. n /\ out[i] = ms[i]
  BY <1>2, <1>4 DEF Asks, Tells
<1>6. InOrder(out)
  BY <1>1, <1>2, <1>5 DEF InOrder, Asks, Tells
<1>7. Grouped(out)
  <2>1. SUFFICES ASSUME NEW i \in 1 .. n + 1, NEW j \in 1 .. n + 1, i < j, Asks(out, i), Tells(out, j)
                 PROVE  /\ \E h \in i .. j - 1 :
                             /\ Asks(out, h) /\ \E k \in DOMAIN out[h].calls : out[h].calls[k] = out[j].call
                             /\ \A g \in h + 1 .. j - 1 : Tells(out, g) \/ Injected(out[g])
                        /\ \A k \in DOMAIN out[i].calls : out[i].calls[k] = out[j].call =>
                             \A q \in 1 .. k - 1 : \E g \in i + 1 .. j - 1 : Tells(out, g) /\ out[g].call = out[i].calls[q]
    BY <1>2, ZenonT(60) DEF Grouped
  <2>2. i \in 1 .. n /\ j \in 1 .. n /\ out[i] = ms[i] /\ out[j] = ms[j] /\ Asks(ms, i) /\ Tells(ms, j)
    BY <1>5, <2>1 DEF Asks, Tells
  <2>3. /\ \E h \in i .. j - 1 :
             /\ Asks(ms, h) /\ \E k \in DOMAIN ms[h].calls : ms[h].calls[k] = ms[j].call
             /\ \A g \in h + 1 .. j - 1 : Tells(ms, g) \/ Injected(ms[g])
        /\ \A k \in DOMAIN ms[i].calls : ms[i].calls[k] = ms[j].call =>
             \A q \in 1 .. k - 1 : \E g \in i + 1 .. j - 1 : Tells(ms, g) /\ ms[g].call = ms[i].calls[q]
    <3>1. i \in DOMAIN ms /\ j \in DOMAIN ms
      BY <1>2, <2>2
    <3>2. QED
      BY <1>1, <2>1, <2>2, <3>1, GroupedAt
  <2>4. \A h \in i .. j - 1 : h \in 1 .. n /\ out[h] = ms[h] /\ \A g \in h + 1 .. j - 1 : out[g] = ms[g]
    <3>1. \A h \in i .. j - 1 : h \in 1 .. n /\ \A g \in h + 1 .. j - 1 : g \in 1 .. n
      BY <1>2, <2>2
    <3>2. QED
      BY <1>2, <3>1
  <2>5. \A g \in i + 1 .. j - 1 : out[g] = ms[g]
    <3>1. \A g \in i + 1 .. j - 1 : g \in i .. j - 1
      BY <2>2
    <3>2. QED
      BY <2>4, <3>1
  <2>6. QED
    BY <2>2, <2>3, <2>4, <2>5 DEF Asks, Tells
<1>8. \A top \in Nat : Numbered(ms, top) => Numbered(out, top)
  BY <1>2, <1>5 DEF Numbered, Asks, Tells
<1>9. ASSUME NEW a \in 0 .. n, Whole(ms, a) PROVE Whole(out, a) /\ (a = n => Whole(out, n + 1))
  <2>1. \A i \in 1 .. n : i \in 1 .. n + 1
    BY <1>2
  <2>2. ASSUME NEW i \in 1 .. n + 1, Asks(out, i), i \in 1 .. a \/ a = n, NEW k \in DOMAIN out[i].calls
        PROVE  \E j \in DOMAIN out : Tells(out, j) /\ out[j].call = out[i].calls[k]
    <3>1. i \in 1 .. a /\ out[i] = ms[i] /\ Asks(ms, i)
      BY <1>5, <2>2 DEF Asks
    <3>2. PICK j \in DOMAIN ms : Tells(ms, j) /\ ms[j].call = ms[i].calls[k]
      BY <1>9, <2>2, <3>1 DEF Whole
    <3>3. j \in DOMAIN out /\ out[j] = ms[j]
      BY <1>2, <2>1
    <3>4. QED
      BY <3>1, <3>2, <3>3 DEF Tells
  <2>3. \A i \in 1 .. a : i \in 1 .. n + 1
    BY <1>2
  <2>4. QED
    BY <2>2, <2>3 DEF Whole
<1>10. n \in 0 .. n
  BY <1>2
<1>11. QED
  BY <1>2, <1>3, <1>6, <1>7, <1>8, <1>9, <1>10 DEF Conv, out, n

\* A message with calls numbered above all others can be added.
LEMMA AddCalls ==
    ASSUME NEW ms, Conv(ms), ms # <<>>, NEW top \in Nat, Numbered(ms, top),
           NEW cs \in Seq(Proper), \A k \in DOMAIN cs : cs[k].n > top,
           \A k, q \in DOMAIN cs : k < q => cs[k].n < cs[q].n
    PROVE  /\ Conv(Append(ms, Assistant(cs)))
           /\ \A high \in Nat : high >= top /\ (\A k \in DOMAIN cs : cs[k].n <= high) =>
                                  Numbered(Append(ms, Assistant(cs)), high)
           /\ Whole(ms, Len(ms)) => /\ Whole(Append(ms, Assistant(cs)), Len(ms))
                                    /\ cs = <<>> => Whole(Append(ms, Assistant(cs)), Len(ms) + 1)
<1> DEFINE m == Assistant(cs)
           out == Append(ms, m)
           n == Len(ms)
<1>1. ms \in Seq(Msgs) /\ ms[1] = User /\ InOrder(ms) /\ Grouped(ms)
  BY DEF Conv
<1>2. m \in Msgs /\ m.role = "assistant" /\ m.calls = cs
  BY DEF Assistant, Msgs
<1> HIDE DEF m
<1>3. /\ out \in Seq(Msgs) /\ Len(out) = n + 1 /\ n \in Nat /\ DOMAIN out = 1 .. n + 1 /\ DOMAIN ms = 1 .. n
      /\ out[n + 1] = m /\ \A i \in 1 .. n : out[i] = ms[i]
  BY <1>1, <1>2, AppendIs
<1>4. out[1] = User /\ 1 \in 1 .. n
  <2>1. 1 \in 1 .. n
    BY <1>1, <1>3
  <2>2. QED
    BY <1>1, <1>3, <2>1
<1> HIDE DEF out, n
<1>5. \A i \in 1 .. n + 1 : i \in 1 .. n \/ (i = n + 1 /\ out[i] = m)
  BY <1>3
<1>6. /\ \A i \in 1 .. n : Tells(ms, i) => ms[i].call.n \in Nat /\ ms[i].call.n <= top
      /\ \A i \in 1 .. n : Asks(ms, i) => \A k \in DOMAIN ms[i].calls : ms[i].calls[k].n \in Nat /\ ms[i].calls[k].n <= top
  <2>1. \A i \in 1 .. n : ms[i] \in Msgs
    BY <1>1, <1>3
  <2>2. QED
    BY <2>1, <1>3, MsgIs DEF Numbered, Asks, Tells
<1>7. \A k \in DOMAIN cs : cs[k].n \in Nat
  BY DEF Proper, CallSet
<1>8. InOrder(out)
  <2>1. ASSUME NEW i \in 1 .. n + 1, Asks(out, i), NEW k \in DOMAIN out[i].calls, NEW q \in DOMAIN out[i].calls, k < q
        PROVE  out[i].calls[k].n < out[i].calls[q].n
    BY <1>1, <1>2, <1>3, <1>5, <2>1 DEF InOrder, Asks
  <2>2. ASSUME NEW i \in 1 .. n + 1, NEW j \in 1 .. n + 1, i < j
        PROVE  /\ Asks(out, i) /\ Asks(out, j) =>
                    \A k \in DOMAIN out[i].calls, q \in DOMAIN out[j].calls : out[i].calls[k].n < out[j].calls[q].n
               /\ Tells(out, i) /\ Tells(out, j) => out[i].call.n < out[j].call.n
               /\ Tells(out, i) /\ Asks(out, j) => \A q \in DOMAIN out[j].calls : out[i].call.n < out[j].calls[q].n
    <3>1. i \in 1 .. n /\ out[i] = ms[i]
      BY <1>3, <2>2
    <3>2. CASE j \in 1 .. n
      BY <1>1, <1>3, <2>2, <3>1, <3>2 DEF InOrder, Asks, Tells
    <3>3. CASE j = n + 1 /\ out[j] = m
      BY <1>2, <1>6, <1>7, <3>1, <3>3 DEF Asks, Tells
    <3>4. QED
      BY <1>5, <3>2, <3>3
  <2>3. QED
    BY <1>3, <2>1, <2>2 DEF InOrder
<1>9. Grouped(out)
  <2>1. SUFFICES ASSUME NEW i \in 1 .. n + 1, NEW j \in 1 .. n + 1, i < j, Asks(out, i), Tells(out, j)
                 PROVE  /\ \E h \in i .. j - 1 :
                             /\ Asks(out, h) /\ \E k \in DOMAIN out[h].calls : out[h].calls[k] = out[j].call
                             /\ \A g \in h + 1 .. j - 1 : Tells(out, g) \/ Injected(out[g])
                        /\ \A k \in DOMAIN out[i].calls : out[i].calls[k] = out[j].call =>
                             \A q \in 1 .. k - 1 : \E g \in i + 1 .. j - 1 : Tells(out, g) /\ out[g].call = out[i].calls[q]
    BY <1>3 DEF Grouped
  <2>2. i \in 1 .. n /\ j \in 1 .. n /\ out[i] = ms[i] /\ out[j] = ms[j] /\ Asks(ms, i) /\ Tells(ms, j)
    <3>1. j \in 1 .. n
      BY <1>2, <1>5, <2>1 DEF Tells
    <3>2. i \in 1 .. n
      BY <1>3, <2>1, <3>1
    <3>3. QED
      BY <1>3, <2>1, <3>1, <3>2 DEF Asks, Tells
  <2>3. /\ \E h \in i .. j - 1 :
             /\ Asks(ms, h) /\ \E k \in DOMAIN ms[h].calls : ms[h].calls[k] = ms[j].call
             /\ \A g \in h + 1 .. j - 1 : Tells(ms, g) \/ Injected(ms[g])
        /\ \A k \in DOMAIN ms[i].calls : ms[i].calls[k] = ms[j].call =>
             \A q \in 1 .. k - 1 : \E g \in i + 1 .. j - 1 : Tells(ms, g) /\ ms[g].call = ms[i].calls[q]
    <3>1. i \in DOMAIN ms /\ j \in DOMAIN ms
      BY <1>3, <2>2
    <3>2. QED
      BY <1>1, <2>1, <2>2, <3>1, GroupedAt
  <2>4. \A h \in i .. j - 1 : h \in 1 .. n /\ out[h] = ms[h] /\ \A g \in h + 1 .. j - 1 : out[g] = ms[g]
    <3>1. \A h \in i .. j - 1 : h \in 1 .. n /\ \A g \in h + 1 .. j - 1 : g \in 1 .. n
      BY <1>3, <2>2
    <3>2. QED
      BY <1>3, <3>1
  <2>5. \A g \in i + 1 .. j - 1 : out[g] = ms[g]
    <3>1. \A g \in i + 1 .. j - 1 : g \in i .. j - 1
      BY <2>2
    <3>2. QED
      BY <2>4, <3>1
  <2>6. QED
    BY <2>2, <2>3, <2>4, <2>5 DEF Asks, Tells
<1>10. ASSUME NEW high \in Nat, high >= top, \A k \in DOMAIN cs : cs[k].n <= high PROVE Numbered(out, high)
  <2>1. SUFFICES ASSUME NEW i \in 1 .. n + 1
                 PROVE  /\ Tells(out, i) => out[i].call.n <= high
                        /\ Asks(out, i) => \A k \in DOMAIN out[i].calls : out[i].calls[k].n <= high
    BY <1>3 DEF Numbered
  <2>2. CASE i \in 1 .. n
    BY <1>3, <1>6, <1>10, <2>2 DEF Asks, Tells
  <2>3. CASE i = n + 1 /\ out[i] = m
    BY <1>2, <1>10, <2>3 DEF Asks, Tells
  <2>4. QED
    BY <1>5, <2>2, <2>3
<1>11. ASSUME Whole(ms, n) PROVE Whole(out, n) /\ (cs = <<>> => Whole(out, n + 1))
  <2>1. ASSUME NEW i \in 1 .. n, Asks(out, i), NEW k \in DOMAIN out[i].calls
        PROVE  \E j \in DOMAIN out : Tells(out, j) /\ out[j].call = out[i].calls[k]
    <3>1. out[i] = ms[i] /\ Asks(ms, i)
      BY <1>3, <2>1 DEF Asks
    <3>2. PICK j \in DOMAIN ms : Tells(ms, j) /\ ms[j].call = ms[i].calls[k]
      BY <1>11, <2>1, <3>1 DEF Whole
    <3>3. j \in DOMAIN out /\ out[j] = ms[j]
      BY <1>3
    <3>4. QED
      BY <3>1, <3>2, <3>3 DEF Tells
  <2>2. cs = <<>> => DOMAIN cs = {}
    OBVIOUS
  <2>3. QED
    BY <1>2, <1>5, <2>1, <2>2 DEF Whole
<1>12. QED
  BY <1>3, <1>4, <1>8, <1>9, <1>10, <1>11 DEF Conv, out, n, m

-----------------------------------------------------------------------------
\* The message at a asks for cs, and the first i of them are answered behind it.
Answering(ms, a, cs, i) ==
    /\ Conv(ms) /\ a \in 1 .. Len(ms) /\ Asks(ms, a) /\ ms[a].calls = cs
    /\ \A j \in a + 1 .. Len(ms) :
          \/ Injected(ms[j])
          \/ Tells(ms, j) /\ \E k \in 1 .. i : ms[j].call = cs[k]
    /\ \A k \in 1 .. i : \E j \in a + 1 .. Len(ms) : Tells(ms, j) /\ ms[j].call = cs[k]

\* The result of the next call can be added.
LEMMA TellOne ==
    ASSUME NEW ms, NEW a, NEW cs \in Seq(Proper), NEW i \in 0 .. Len(cs) - 1, Answering(ms, a, cs, i)
    PROVE  /\ Answering(Append(ms, Result(cs[i + 1])), a, cs, i + 1)
           /\ \A top \in Nat : Numbered(ms, top) => Numbered(Append(ms, Result(cs[i + 1])), top)
           /\ Whole(ms, a - 1) => Whole(Append(ms, Result(cs[i + 1])), a - 1)
<1> DEFINE m == Result(cs[i + 1])
           out == Append(ms, m)
           n == Len(ms)
<1>1. ms \in Seq(Msgs) /\ (ms # <<>> => ms[1] = User) /\ InOrder(ms) /\ Grouped(ms) /\ a \in 1 .. n
      /\ Asks(ms, a) /\ ms[a].calls = cs
  BY DEF Conv, Answering
<1>2. i + 1 \in DOMAIN cs /\ cs[i + 1] \in Proper /\ DOMAIN cs = 1 .. Len(cs) /\ Len(cs) \in Nat /\ i \in Nat
  OBVIOUS
<1>3. m \in Msgs /\ m.role = "tool" /\ m.call = cs[i + 1]
  BY <1>2 DEF Result, Msgs
<1> HIDE DEF m
<1>4. /\ out \in Seq(Msgs) /\ Len(out) = n + 1 /\ n \in Nat /\ DOMAIN out = 1 .. n + 1 /\ DOMAIN ms = 1 .. n
      /\ out[n + 1] = m /\ \A j \in 1 .. n : out[j] = ms[j]
  BY <1>1, <1>3, AppendIs
<1>5. out[1] = User
  <2>1. 1 \in 1 .. n /\ ms # <<>>
    BY <1>1, <1>4
  <2>2. QED
    BY <1>1, <1>4, <2>1
<1> HIDE DEF out, n
<1>6. \A j \in 1 .. n + 1 : j \in 1 .. n \/ (j = n + 1 /\ out[j] = m)
  BY <1>4
<1>7. \A k \in DOMAIN cs : cs[k].n \in Nat
  BY DEF Proper, CallSet
<1>8. \A k, q \in DOMAIN cs : k < q => cs[k].n < cs[q].n
  BY <1>1, <1>4 DEF InOrder
<1>9. \A k \in DOMAIN cs : cs[k] = cs[i + 1] => k = i + 1
  BY <1>2, <1>7, <1>8
<1>10. \A j \in a + 1 .. n : \/ Injected(ms[j])
                             \/ Tells(ms, j) /\ \E k \in 1 .. i : ms[j].call = cs[k]
  BY DEF Answering, n
<1>11. \A j \in 1 .. n : Tells(ms, j) => ms[j].call.n < cs[i + 1].n
  <2>1. SUFFICES ASSUME NEW j \in 1 .. n, Tells(ms, j) PROVE ms[j].call.n < cs[i + 1].n
    OBVIOUS
  <2>2. CASE j < a
    BY <1>1, <1>2, <1>4, <2>1, <2>2 DEF InOrder
  <2>3. CASE j = a
    BY <1>1, <2>1, <2>3 DEF Asks, Tells
  <2>4. CASE j > a
    <3>1. j \in a + 1 .. n
      BY <1>1, <2>4
    <3>2. PICK k \in 1 .. i : ms[j].call = cs[k]
      BY <1>10, <2>1, <3>1 DEF Tells, Injected
    <3>3. k \in DOMAIN cs /\ k < i + 1
      BY <1>2
    <3>4. QED
      BY <1>2, <1>8, <3>2, <3>3
  <2>5. QED
    BY <1>1, <2>2, <2>3, <2>4
<1>12. \A j \in 1 .. n : Asks(ms, j) => j <= a /\ (j < a => \A k \in DOMAIN ms[j].calls : ms[j].calls[k].n < cs[i + 1].n)
  <2>1. SUFFICES ASSUME NEW j \in 1 .. n, Asks(ms, j)
                 PROVE  j <= a /\ (j < a => \A k \in DOMAIN ms[j].calls : ms[j].calls[k].n < cs[i + 1].n)
    OBVIOUS
  <2>2. j <= a
    <3>1. j \notin a + 1 .. n
      BY <1>10, <2>1 DEF Asks, Tells, Injected
    <3>2. QED
      BY <1>1, <1>4, <3>1
  <2>3. j < a => \A k \in DOMAIN ms[j].calls : ms[j].calls[k].n < cs[i + 1].n
    BY <1>1, <1>2, <1>4, <2>1 DEF InOrder
  <2>4. QED
    BY <2>2, <2>3
<1>13. InOrder(out)
  <2>1. ASSUME NEW x \in 1 .. n + 1, Asks(out, x), NEW k \in DOMAIN out[x].calls, NEW q \in DOMAIN out[x].calls, k < q
        PROVE  out[x].calls[k].n < out[x].calls[q].n
    BY <1>1, <1>3, <1>4, <1>6, <2>1 DEF InOrder, Asks
  <2>2. ASSUME NEW x \in 1 .. n + 1, NEW y \in 1 .. n + 1, x < y
        PROVE  /\ Asks(out, x) /\ Asks(out, y) =>
                    \A k \in DOMAIN out[x].calls, q \in DOMAIN out[y].calls : out[x].calls[k].n < out[y].calls[q].n
               /\ Tells(out, x) /\ Tells(out, y) => out[x].call.n < out[y].call.n
               /\ Tells(out, x) /\ Asks(out, y) => \A q \in DOMAIN out[y].calls : out[x].call.n < out[y].calls[q].n
    <3>1. x \in 1 .. n /\ out[x] = ms[x]
      BY <1>4, <2>2
    <3>2. CASE y \in 1 .. n
      BY <1>1, <1>4, <2>2, <3>1, <3>2 DEF InOrder, Asks, Tells
    <3>3. CASE y = n + 1 /\ out[y] = m
      BY <1>3, <1>11, <3>1, <3>3 DEF Asks, Tells
    <3>4. QED
      BY <1>6, <3>2, <3>3
  <2>3. QED
    BY <1>4, <2>1, <2>2 DEF InOrder
<1>14. Grouped(out)
  <2>1. SUFFICES ASSUME NEW x \in 1 .. n + 1, NEW j \in 1 .. n + 1, x < j, Asks(out, x), Tells(out, j)
                 PROVE  /\ \E h \in x .. j - 1 :
                             /\ Asks(out, h) /\ \E k \in DOMAIN out[h].calls : out[h].calls[k] = out[j].call
                             /\ \A g \in h + 1 .. j - 1 : Tells(out, g) \/ Injected(out[g])
                        /\ \A k \in DOMAIN out[x].calls : out[x].calls[k] = out[j].call =>
                             \A q \in 1 .. k - 1 : \E g \in x + 1 .. j - 1 : Tells(out, g) /\ out[g].call = out[x].calls[q]
    BY <1>4, ZenonT(60) DEF Grouped
  <2>2. x \in 1 .. n /\ out[x] = ms[x] /\ Asks(ms, x)
    BY <1>4, <2>1 DEF Asks
  <2>3. \A h \in x .. j - 1 : h \in 1 .. n /\ out[h] = ms[h] /\ \A g \in h + 1 .. j - 1 : out[g] = ms[g] /\ g \in 1 .. n
    <3>1. \A h \in x .. j - 1 : h \in 1 .. n /\ \A g \in h + 1 .. j - 1 : g \in 1 .. n
      BY <1>4, <2>2
    <3>2. QED
      BY <1>4, <3>1
  <2>4. \A g \in x + 1 .. j - 1 : out[g] = ms[g]
    <3>1. \A g \in x + 1 .. j - 1 : g \in x .. j - 1
      BY <2>2
    <3>2. QED
      BY <2>3, <3>1
  <2>5. CASE j \in 1 .. n
    <3>1. out[j] = ms[j] /\ Tells(ms, j)
      BY <1>4, <2>1, <2>5 DEF Tells
    <3>2. /\ \E h \in x .. j - 1 :
               /\ Asks(ms, h) /\ \E k \in DOMAIN ms[h].calls : ms[h].calls[k] = ms[j].call
               /\ \A g \in h + 1 .. j - 1 : Tells(ms, g) \/ Injected(ms[g])
          /\ \A k \in DOMAIN ms[x].calls : ms[x].calls[k] = ms[j].call =>
               \A q \in 1 .. k - 1 : \E g \in x + 1 .. j - 1 : Tells(ms, g) /\ ms[g].call = ms[x].calls[q]
      <4>1. x \in DOMAIN ms /\ j \in DOMAIN ms
        BY <1>4, <2>2, <2>5
      <4>2. QED
        BY <1>1, <2>1, <2>2, <3>1, <4>1, GroupedAt
    <3>3. QED
      BY <2>2, <2>3, <2>4, <3>1, <3>2 DEF Asks, Tells
  <2>6. CASE j = n + 1 /\ out[j] = m
    <3>1. x <= a /\ a \in x .. j - 1 /\ a < n + 1
      BY <1>1, <1>4, <1>12, <2>2, <2>6
    <3>2. \A g \in a + 1 .. j - 1 : Tells(out, g) \/ Injected(out[g])
      <4>1. \A g \in a + 1 .. j - 1 : g \in a + 1 .. n /\ out[g] = ms[g]
        BY <1>1, <1>4, <2>6
      <4>2. QED
        BY <1>10, <4>1 DEF Tells
    <3>3. Asks(out, a) /\ out[a] = ms[a] /\ out[a].calls[i + 1] = out[j].call /\ i + 1 \in DOMAIN out[a].calls
      BY <1>1, <1>2, <1>3, <1>4, <2>6 DEF Asks
    <3>4. ASSUME NEW k \in DOMAIN out[x].calls, out[x].calls[k] = out[j].call, NEW q \in 1 .. k - 1
          PROVE  \E g \in x + 1 .. j - 1 : Tells(out, g) /\ out[g].call = out[x].calls[q]
      <4>1. x = a
        <5>1. x < a => ms[x].calls[k].n < cs[i + 1].n
          BY <1>12, <2>2, <3>4
        <5>2. ms[x].calls[k] = cs[i + 1] /\ cs[i + 1].n \in Nat
          BY <1>2, <1>3, <1>7, <2>2, <2>6, <3>4
        <5>3. QED
          BY <1>1, <2>2, <3>1, <5>1, <5>2
      <4>2. k = i + 1
        BY <1>1, <1>3, <1>9, <2>2, <2>6, <3>4, <4>1
      <4>3. PICK g \in a + 1 .. n : Tells(ms, g) /\ ms[g].call = cs[q]
        <5>1. q \in 1 .. i
          BY <1>2, <4>2
        <5>2. QED
          BY <5>1 DEF Answering, n
      <4>4. g \in x + 1 .. j - 1 /\ out[g] = ms[g]
        BY <1>1, <1>4, <2>6, <4>1
      <4>5. QED
        BY <1>1, <2>2, <4>1, <4>3, <4>4 DEF Tells
    <3>5. QED
      BY <3>1, <3>2, <3>3, <3>4
  <2>7. QED
    BY <1>6, <2>5, <2>6
<1>15. ASSUME NEW top \in Nat, Numbered(ms, top) PROVE Numbered(out, top)
  <2>1. SUFFICES ASSUME NEW x \in 1 .. n + 1
                 PROVE  /\ Tells(out, x) => out[x].call.n <= top
                        /\ Asks(out, x) => \A k \in DOMAIN out[x].calls : out[x].calls[k].n <= top
    BY <1>4 DEF Numbered
  <2>2. CASE x \in 1 .. n
    BY <1>4, <1>15, <2>2 DEF Numbered, Asks, Tells
  <2>3. CASE x = n + 1 /\ out[x] = m
    BY <1>1, <1>2, <1>3, <1>4, <1>15, <2>3 DEF Numbered, Asks, Tells
  <2>4. QED
    BY <1>6, <2>2, <2>3
<1>16. ASSUME Whole(ms, a - 1) PROVE Whole(out, a - 1)
  <2>1. ASSUME NEW x \in 1 .. a - 1, Asks(out, x), NEW k \in DOMAIN out[x].calls
        PROVE  \E j \in DOMAIN out : Tells(out, j) /\ out[j].call = out[x].calls[k]
    <3>1. x \in 1 .. n /\ out[x] = ms[x] /\ Asks(ms, x)
      BY <1>1, <1>4, <2>1 DEF Asks
    <3>2. PICK j \in DOMAIN ms : Tells(ms, j) /\ ms[j].call = ms[x].calls[k]
      BY <1>16, <2>1, <3>1 DEF Whole
    <3>3. j \in DOMAIN out /\ out[j] = ms[j]
      BY <1>4
    <3>4. QED
      BY <3>1, <3>2, <3>3 DEF Tells
  <2>2. QED
    BY <2>1 DEF Whole
<1>17. Answering(out, a, cs, i + 1)
  <2>1. Conv(out)
    BY <1>4, <1>5, <1>13, <1>14 DEF Conv
  <2>2. a \in 1 .. Len(out) /\ Asks(out, a) /\ out[a].calls = cs
    BY <1>1, <1>4 DEF Asks
  <2>3. ASSUME NEW j \in a + 1 .. Len(out)
        PROVE  Injected(out[j]) \/ (Tells(out, j) /\ \E k \in 1 .. i + 1 : out[j].call = cs[k])
    <3>1. CASE j = n + 1
      <4>1. i + 1 \in 1 .. i + 1
        BY <1>2
      <4>2. QED
        BY <1>3, <1>4, <3>1, <4>1 DEF Tells
    <3>2. CASE j # n + 1
      <4>1. j \in a + 1 .. n /\ out[j] = ms[j]
        BY <1>1, <1>4, <2>3, <3>2
      <4>2. \A k \in 1 .. i : k \in 1 .. i + 1
        BY <1>2
      <4>3. QED
        BY <1>10, <4>1, <4>2 DEF Tells
    <3>3. QED
      BY <3>1, <3>2
  <2>4. ASSUME NEW k \in 1 .. i + 1 PROVE \E j \in a + 1 .. Len(out) : Tells(out, j) /\ out[j].call = cs[k]
    <3>1. CASE k = i + 1
      <4>1. n + 1 \in a + 1 .. Len(out)
        BY <1>1, <1>4
      <4>2. QED
        BY <1>3, <1>4, <3>1, <4>1 DEF Tells
    <3>2. CASE k # i + 1
      <4>1. k \in 1 .. i
        BY <1>2, <3>2
      <4>2. PICK j \in a + 1 .. n : Tells(ms, j) /\ ms[j].call = cs[k]
        BY <4>1 DEF Answering, n
      <4>3. j \in a + 1 .. Len(out) /\ out[j] = ms[j]
        BY <1>1, <1>4
      <4>4. QED
        BY <4>2, <4>3 DEF Tells
    <3>3. QED
      BY <3>1, <3>2
  <2>5. QED
    BY <2>1, <2>2, <2>3, <2>4 DEF Answering
<1>18. QED
  BY <1>15, <1>16, <1>17 DEF out, m

\* So can an injected message between results.
LEMMA TellInjected ==
    ASSUME NEW ms, NEW a, NEW cs \in Seq(Proper), NEW i \in 0 .. Len(cs), Answering(ms, a, cs, i),
           NEW m \in Msgs, Injected(m)
    PROVE  /\ Answering(Append(ms, m), a, cs, i)
           /\ \A top \in Nat : Numbered(ms, top) => Numbered(Append(ms, m), top)
           /\ Whole(ms, a - 1) => Whole(Append(ms, m), a - 1)
<1> DEFINE out == Append(ms, m)
           n == Len(ms)
<1>1. Conv(ms) /\ a \in 1 .. n /\ Asks(ms, a) /\ ms[a].calls = cs /\ ms \in Seq(Msgs)
  BY DEF Conv, Answering
<1>2. /\ Len(out) = n + 1 /\ n \in Nat /\ out[n + 1] = m /\ \A j \in 1 .. n : out[j] = ms[j]
  BY <1>1, AppendIs
<1>3. ms # <<>> /\ m.role \in {"user", "progress", "context", "anchor"} /\ a - 1 \in 0 .. n
  BY <1>1, <1>2 DEF Injected
<1>4. /\ Conv(out) /\ \A top \in Nat : Numbered(ms, top) => Numbered(out, top)
      /\ Whole(ms, a - 1) => Whole(out, a - 1)
  BY <1>1, <1>3, AddPlain
<1> HIDE DEF out
<1>5. ASSUME NEW j \in a + 1 .. n + 1
      PROVE  Injected(out[j]) \/ (Tells(out, j) /\ \E k \in 1 .. i : out[j].call = cs[k])
  <2>1. CASE j = n + 1
    BY <1>2, <2>1
  <2>2. CASE j # n + 1
    <3>1. j \in a + 1 .. n /\ out[j] = ms[j]
      BY <1>1, <1>2, <1>5, <2>2
    <3>2. QED
      BY <3>1 DEF Answering, Tells
  <2>3. QED
    BY <2>1, <2>2
<1>6. ASSUME NEW k \in 1 .. i PROVE \E j \in a + 1 .. n + 1 : Tells(out, j) /\ out[j].call = cs[k]
  <2>1. PICK j \in a + 1 .. n : Tells(ms, j) /\ ms[j].call = cs[k]
    BY DEF Answering
  <2>2. j \in a + 1 .. n + 1 /\ out[j] = ms[j]
    BY <1>1, <1>2
  <2>3. QED
    BY <2>1, <2>2 DEF Tells
<1>7. a \in 1 .. n + 1 /\ Asks(out, a) /\ out[a].calls = cs
  BY <1>1, <1>2 DEF Asks
<1>8. Answering(out, a, cs, i)
  BY <1>2, <1>4, <1>5, <1>6, <1>7 DEF Answering
<1>9. QED
  BY <1>4, <1>8 DEF out

\* What is injected after a result: nothing, an anchor or a context.
LEMMA InjectedIs ==
    ASSUME NEW i
    PROVE  injectAnchors(i) = <<>> \/ \E m \in Msgs : Injected(m) /\ injectAnchors(i) = <<m>>
<1>1. /\ \A x \in Tables : Anchor(x) \in Msgs /\ Injected(Anchor(x))
      /\ Context \in Msgs /\ Injected(Context)
  BY DEF Anchor, Context, Msgs, Injected
<1>2. \/ injectAnchors(i) = <<>>
      \/ injectAnchors(i) = <<Context>>
      \/ group[i].call.item \in Tables /\ injectAnchors(i) = <<Anchor(group[i].call.item)>>
  BY DEF injectAnchors
<1>3. QED
  BY <1>1, <1>2

\* Joining with one or two messages is appending them.
LEMMA Extended ==
    ASSUME NEW M, NEW a \in Seq(M), NEW r \in M, NEW x \in M
    PROVE  /\ a \o <<>> = a /\ a \o <<r>> = Append(a, r) /\ a \o <<r, x>> = Append(Append(a, r), x)
           /\ a \o (<<r>> \o <<>>) = Append(a, r) /\ a \o (<<r>> \o <<x>>) = Append(Append(a, r), x)
<1>1. a \o <<>> = a /\ a \o <<r>> = Append(a, r) /\ a \o <<r, x>> = Append(Append(a, r), x)
  OBVIOUS
<1>2. <<r>> \o <<>> = <<r>>
  OBVIOUS
<1>3. <<r>> \o <<x>> = <<r, x>>
  <2>1. /\ <<r>> \o <<x>> \in Seq(M) /\ Len(<<r>> \o <<x>>) = 2
        /\ (<<r>> \o <<x>>)[1] = r /\ (<<r>> \o <<x>>)[2] = x
    OBVIOUS
  <2>2. <<r, x>> \in Seq(M) /\ Len(<<r, x>>) = 2 /\ <<r, x>>[1] = r /\ <<r, x>>[2] = x
    OBVIOUS
  <2>3. \A i \in 1 .. 2 : i = 1 \/ i = 2
    OBVIOUS
  <2>4. \A i \in 1 .. 2 : (<<r>> \o <<x>>)[i] = <<r, x>>[i]
    BY <2>1, <2>2, <2>3
  <2>5. QED
    BY <2>1, <2>2, <2>4, SeqEqualOf
<1>4. QED
  BY <1>1, <1>2, <1>3

\* Joining sequences is associative.
LEMMA Joined ==
    ASSUME NEW M, NEW a \in Seq(M), NEW b \in Seq(M), NEW c \in Seq(M)
    PROVE  a \o (b \o c) = (a \o b) \o c
<1> DEFINE u == a \o (b \o c)
           v == (a \o b) \o c
<1>1. u \in Seq(M) /\ Len(u) = Len(a) + Len(b) + Len(c)
  OBVIOUS
<1>2. v \in Seq(M) /\ Len(v) = Len(a) + Len(b) + Len(c)
  OBVIOUS
<1>3. ASSUME NEW i \in 1 .. Len(a) + Len(b) + Len(c) PROVE u[i] = v[i]
  OBVIOUS
<1> HIDE DEF u, v
<1>4. u = v
  BY <1>1, <1>2, <1>3, SeqEqualOf
<1>5. QED
  BY <1>4 DEF u, v

\* The conversation with the first i results answers the first i calls.
LEMMA ToldIs ==
    ASSUME group \in Seq(Jobs), Conv(messages), Asked(messages, group), NEW k \in 0 .. Len(group)
    PROVE  /\ Answering(Told(k), Len(messages), messages[Len(messages)].calls, k)
           /\ Numbered(messages, asked) /\ asked \in Nat => Numbered(Told(k), asked)
           /\ Whole(messages, Len(messages) - 1) => Whole(Told(k), Len(messages) - 1)
<1> DEFINE a == Len(messages)
           cs == messages[a].calls
           Good(ms, i) == /\ Answering(ms, a, cs, i)
                          /\ Numbered(messages, asked) /\ asked \in Nat => Numbered(ms, asked)
                          /\ Whole(messages, a - 1) => Whole(ms, a - 1)
           s == [i \in 1 .. k |-> <<Result(group[i].call)>> \o injectAnchors(i)]
<1>1. /\ messages \in Seq(Msgs) /\ messages # <<>> /\ Asks(messages, a) /\ a \in Nat /\ a > 0
      /\ Len(cs) = Len(group) /\ Len(group) \in Nat /\ \A i \in 1 .. Len(group) : group[i].call = cs[i]
  BY DEF Conv, Asked
<1>2. cs \in Seq(Proper)
  <2>1. messages[a] \in Msgs
    BY <1>1
  <2>2. QED
    BY <1>1, <2>1, MsgIs DEF Asks
<1>3. k \in Nat /\ \A i \in 1 .. k : i \in 1 .. Len(group) /\ i - 1 \in 0 .. Len(cs) - 1 /\ i \in 0 .. Len(cs)
  BY <1>1
<1>4. Good(messages, 0)
  BY <1>1 DEF Answering
<1> HIDE DEF a, cs
<1>5. ASSUME NEW ms \in Seq(Msgs), NEW i \in 1 .. k, Good(ms, i - 1)
      PROVE  /\ s[i] \in Seq(Msgs)
             /\ ms \o s[i] \in Seq(Msgs) /\ Good(ms \o s[i], i)
  <2> DEFINE r == Result(cs[i])
  <2>1. i - 1 \in 0 .. Len(cs) - 1 /\ (i - 1) + 1 = i /\ cs[i] \in Proper /\ group[i].call = cs[i]
    BY <1>1, <1>2, <1>3
  <2>2. r \in Msgs
    BY <2>1 DEF Result, Msgs
  <2>3. s[i] = <<r>> \o injectAnchors(i)
    BY <2>1
  <2>4. Good(Append(ms, r), i)
    BY <1>2, <1>5, <2>1, TellOne
  <2>5. \A m \in Msgs : Injected(m) => Good(Append(Append(ms, r), m), i)
    BY <1>2, <1>3, <2>4, TellInjected
  <2> HIDE DEF Good, s, r
  <2>6. CASE injectAnchors(i) = <<>>
    <3>1. s[i] = <<r>> \o <<>>
      BY <2>3, <2>6
    <3>2. ms \o s[i] = Append(ms, r) /\ s[i] \in Seq(Msgs) /\ ms \o s[i] \in Seq(Msgs)
      BY <2>2, <3>1
    <3>3. QED
      BY <2>4, <3>2
  <2>7. ASSUME NEW m \in Msgs, Injected(m), injectAnchors(i) = <<m>>
        PROVE  s[i] \in Seq(Msgs) /\ ms \o s[i] \in Seq(Msgs) /\ Good(ms \o s[i], i)
    <3>1. s[i] = <<r>> \o <<m>>
      BY <2>3, <2>7
    <3>2. ms \o s[i] = Append(Append(ms, r), m)
      <4>1. r \in Msgs /\ m \in Msgs /\ ms \in Seq(Msgs)
        BY <2>2
      <4>2. ms \o (<<r>> \o <<m>>) = Append(Append(ms, r), m)
        BY <4>1, Extended
      <4>3. QED
        BY <3>1, <4>2
    <3>3. s[i] \in Seq(Msgs)
      BY <2>2, <3>1
    <3>4. ms \o s[i] \in Seq(Msgs)
      BY <3>3
    <3>5. QED
      BY <2>5, <2>7, <3>2, <3>3, <3>4
  <2>8. QED
    BY <2>6, <2>7, InjectedIs
<1>6. CASE k = 0
  <2>1. s = <<>>
    BY <1>6
  <2>2. FlattenSeq(s) = <<>>
    BY <2>1 DEF FlattenSeq
  <2>3. Told(k) = messages \o FlattenSeq(s)
    BY DEF Told
  <2> HIDE DEF s, Good
  <2>4. Told(k) = messages
    BY <1>1, <2>2, <2>3
  <2>5. Good(Told(k), k)
    BY <1>4, <1>6, <2>4
  <2>6. QED
    BY <2>5 DEF Good, a, cs
<1>7. CASE k > 0
  <2> DEFINE Rests(i) == s[i] \in Seq(Msgs)
  <2>0. \A i \in 1 .. k : s[i] \in Seq(Msgs)
    <3>1. SUFFICES ASSUME NEW i \in 1 .. k PROVE s[i] \in Seq(Msgs)
      OBVIOUS
    <3>2. s[i] = <<Result(group[i].call)>> \o injectAnchors(i) /\ group[i].call \in Proper
      BY <1>1, <1>2, <1>3
    <3> HIDE DEF s
    <3>3. <<Result(group[i].call)>> \in Seq(Msgs)
      BY <3>2 DEF Result, Msgs
    <3>4. injectAnchors(i) \in Seq(Msgs)
      <4>1. \A m \in Msgs : <<m>> \in Seq(Msgs)
        OBVIOUS
      <4>2. <<>> \in Seq(Msgs)
        OBVIOUS
      <4>3. QED
        BY <4>1, <4>2, InjectedIs
    <3>5. QED
      BY <3>2, <3>3, <3>4
  <2>1. s \in [1 .. k -> Seq(Msgs)]
    BY <2>0
  <2> HIDE DEF s, Good
  <2>2. s \in Seq(Seq(Msgs)) /\ Len(s) = k
    BY <1>3, <2>1, IsASeqOf
  <2>3. s # <<>>
    BY <1>7, <2>2
  <2>4. PICK f \in [1 .. k -> Seq(Msgs)] : /\ f[1] = s[1] /\ FlattenSeq(s) = f[k]
                                           /\ \A i \in 1 .. k - 1 : f[i + 1] = f[i] \o s[i + 1]
    BY <2>2, <2>3, FlattenSteps
  <2> DEFINE S == {i \in 1 .. k : messages \o f[i] \in Seq(Msgs) /\ Good(messages \o f[i], i)}
  <2>5. 1 \in S
    <3>1. 1 \in 1 .. k /\ 1 - 1 = 0
      BY <1>3, <1>7
    <3>2. messages \o s[1] \in Seq(Msgs) /\ Good(messages \o s[1], 1)
      BY <1>1, <1>4, <1>5, <3>1
    <3>3. QED
      BY <2>4, <3>1, <3>2
  <2>6. ASSUME NEW i \in 1 .. k - 1, i \in S PROVE i + 1 \in S
    <3>0. i \in 1 .. k /\ i + 1 \in 1 .. k /\ (i + 1) - 1 = i
      BY <1>3
    <3>1. i + 1 \in 1 .. k /\ (i + 1) - 1 = i /\ f[i] \in Seq(Msgs) /\ f[i + 1] = f[i] \o s[i + 1]
      BY <2>4, <3>0
    <3>2. messages \o f[i] \in Seq(Msgs) /\ Good(messages \o f[i], i)
      BY <2>6
    <3> DEFINE ms == messages \o f[i]
    <3> HIDE DEF ms
    <3>3. ms \in Seq(Msgs) /\ Good(ms, i)
      BY <3>2 DEF ms
    <3>4. s[i + 1] \in Seq(Msgs) /\ ms \o s[i + 1] \in Seq(Msgs) /\ Good(ms \o s[i + 1], i + 1)
      BY <1>5, <3>1, <3>3
    <3>5. messages \o f[i + 1] = ms \o s[i + 1]
      <4> DEFINE x == f[i]
                 y == s[i + 1]
      <4>0. messages \in Seq(Msgs) /\ x \in Seq(Msgs) /\ y \in Seq(Msgs)
        BY <1>1, <3>1, <3>4
      <4> HIDE DEF x, y
      <4>1. messages \o (x \o y) = (messages \o x) \o y
        BY <4>0, Joined, SMTT(30)
      <4>2. QED
        BY <3>1, <4>1 DEF ms, x, y
    <3>6. QED
      BY <3>1, <3>4, <3>5
  <2>7. k \in S
    <3> HIDE DEF S
    <3>1. 1 .. k \subseteq S
      BY <1>3, <2>5, <2>6, Upto
    <3>2. QED
      BY <1>3, <1>7, <3>1
  <2>8. Told(k) = messages \o f[k]
    BY <2>4 DEF Told, s
  <2>9. QED
    BY <2>7, <2>8 DEF Good, a, cs
<1>8. QED
  BY <1>3, <1>6, <1>7

-----------------------------------------------------------------------------
\* The empty conversation.
LEMMA ConvEmpty == Conv(<<>>) /\ \A top : Numbered(<<>>, top)
<1>1. <<>> \in Seq(Msgs) /\ DOMAIN <<>> = {}
  OBVIOUS
<1>2. QED
  BY <1>1 DEF Conv, InOrder, Grouped, Numbered

\* A bound on the numbers can be raised.
LEMMA NumberedUp ==
    ASSUME NEW ms \in Seq(Msgs), NEW low \in Nat, NEW high \in Nat, low <= high, Numbered(ms, low)
    PROVE  Numbered(ms, high)
<1>1. \A i \in DOMAIN ms : ms[i] \in Msgs
  OBVIOUS
<1>2. ASSUME NEW i \in DOMAIN ms
      PROVE  /\ Tells(ms, i) => ms[i].call.n <= high
             /\ Asks(ms, i) => \A k \in DOMAIN ms[i].calls : ms[i].calls[k].n <= high
  <2>1. Tells(ms, i) => ms[i].call.n \in Nat /\ ms[i].call.n <= low
    BY <1>1, MsgIs DEF Tells, Numbered
  <2>2. Asks(ms, i) => \A k \in DOMAIN ms[i].calls : ms[i].calls[k].n \in Nat /\ ms[i].calls[k].n <= low
    BY <1>1, MsgIs DEF Asks, Numbered
  <2>3. QED
    BY <2>1, <2>2
<1>3. QED
  BY <1>2 DEF Numbered

\* A step of the loop that leaves the checkpoint alone.
LEMMA TalkGoesOn ==
    ASSUME LoopTyped, LoopTyped', TalkInv, broken' = broken, checkpoint' = checkpoint, asked <= asked',
           Conv(messages'), Numbered(messages', asked'), messages' # <<>>, loop'.pc \in {"llm", "judge", "end"},
           broken \/ loop'.pc = "end" \/ Whole(messages', Len(messages'))
    PROVE  TalkInv'
<1>1. asked \in Nat /\ asked' \in Nat /\ checkpoint \in Seq(Msgs)
  BY DEF LoopTyped, TalkInv, Conv
<1>2. Conv(checkpoint') /\ Numbered(checkpoint', asked')
  BY <1>1, NumberedUp DEF TalkInv
<1>3. QED
  BY <1>2 DEF TalkInv

\* The conversation before the answer, with or without the 90% warning.
LEMMA WarnedIs ==
    ASSUME LoopTyped, TalkInv, loop.pc = "llm", NEW l, NEW ms, Warned(l, ms)
    PROVE  \E base : /\ Conv(base) /\ base # <<>> /\ Numbered(base, asked) /\ (broken \/ Whole(base, Len(base)))
                     /\ messages' = base \o ms
<1>1. /\ Conv(messages) /\ messages # <<>> /\ Numbered(messages, asked) /\ (broken \/ Whole(messages, Len(messages)))
      /\ asked \in Nat /\ messages \in Seq(Msgs)
  BY DEF TalkInv, LoopTyped, Conv
<1>2. CASE messages' = messages \o ms
  BY <1>1, <1>2
<1>3. CASE messages' = Append(messages, User) \o ms
  <2> DEFINE base == Append(messages, User)
  <2>1. User \in Msgs /\ User.role \in {"user", "progress", "context", "anchor"}
    BY DEF User, Msgs
  <2>2. Len(base) = Len(messages) + 1 /\ base # <<>>
    BY <1>1, <2>1, AppendIs
  <2>3. Conv(base) /\ Numbered(base, asked) /\ (broken \/ Whole(base, Len(messages) + 1))
    BY <1>1, <2>1, AddPlain
  <2> HIDE DEF base
  <2>4. QED
    BY <1>3, <2>2, <2>3 DEF base
<1>4. QED
  BY <1>2, <1>3 DEF Warned

\* A call of the model keeps the conversation.
LEMMA TalkLLM == ASSUME LoopTyped, LoopTyped', TalkInv, LLM PROVE TalkInv'
<1>0. /\ loop.pc = "llm" /\ checkpoint' = checkpoint /\ broken' = broken
      /\ Conv(messages) /\ messages # <<>> /\ Numbered(messages, asked) /\ (broken \/ Whole(messages, Len(messages)))
      /\ asked \in Nat /\ asked' \in Nat /\ IsLoop(loop)
  BY DEF LLM, LLMFails, BudgetExhausted, FinalAnswer, CutOff, CallTruncated, CallTools, Answered, TalkInv, LoopTyped,
     broken
<1>1. CASE LLMFails \/ BudgetExhausted
  <2>1. messages' = messages /\ asked' = asked /\ loop'.pc \in {"llm", "end"}
    BY <1>1, AnswerWithoutCalls DEF LLMFails, BudgetExhausted
  <2>2. QED
    BY <1>0, <2>1, TalkGoesOn
<1>2. ASSUME NEW l, Warned(l, <<>>), loop'.pc = "end", asked' = asked PROVE TalkInv'
  <2>1. PICK base : /\ Conv(base) /\ base # <<>> /\ Numbered(base, asked) /\ messages' = base \o <<>>
    BY <1>0, <1>2, WarnedIs
  <2>2. base \in Seq(Msgs)
    BY <2>1 DEF Conv
  <2>3. messages' = base
    BY <2>1, <2>2
  <2>4. QED
    BY <1>0, <1>2, <2>1, <2>3, TalkGoesOn
<1>3. ASSUME NEW l, Warned(l, <<Assistant(<<>>), User>>), loop'.pc \in {"llm", "end"}, asked <= asked' PROVE TalkInv'
  <2>1. PICK base : /\ Conv(base) /\ base # <<>> /\ Numbered(base, asked) /\ (broken \/ Whole(base, Len(base)))
                    /\ messages' = base \o <<Assistant(<<>>), User>>
    BY <1>0, <1>3, WarnedIs
  <2> DEFINE mid == Append(base, Assistant(<<>>))
  <2>2. base \in Seq(Msgs) /\ <<>> \in Seq(Proper) /\ DOMAIN <<>> = {}
    BY <2>1 DEF Conv
  <2>3. Assistant(<<>>) \in Msgs /\ User \in Msgs /\ User.role \in {"user", "progress", "context", "anchor"}
    BY <2>2 DEF Assistant, User, Msgs
  <2>4. /\ Conv(mid) /\ (\A high \in Nat : high >= asked => Numbered(mid, high))
        /\ (broken \/ Whole(mid, Len(base) + 1))
    BY <1>0, <2>1, <2>2, AddCalls
  <2>5. mid # <<>> /\ Len(mid) = Len(base) + 1 /\ mid \in Seq(Msgs)
    BY <2>2, <2>3, AppendIs
  <2>6. messages' = Append(mid, User)
    BY <2>1, <2>2, <2>3, Extended
  <2> HIDE DEF mid
  <2>7. Numbered(mid, asked')
    BY <1>0, <1>3, <2>4
  <2>8. /\ Conv(messages') /\ Numbered(messages', asked') /\ messages' # <<>> /\ Len(messages') = Len(mid) + 1
        /\ (broken \/ Whole(messages', Len(mid) + 1))
    BY <1>0, <2>3, <2>4, <2>5, <2>6, <2>7, AddPlain, AppendIs
  <2>9. QED
    BY <1>0, <1>3, <2>8, TalkGoesOn
<1>4. CASE FinalAnswer
  <2>1. \E l : Warned(l, <<>>) /\ loop' = [l EXCEPT !.pc = "end", !.end = "finished"]
    BY <1>4 DEF FinalAnswer
  <2>2. loop'.pc = "end" /\ asked' = asked
    <3>1. PICK l : Answered(l) /\ loop' = [l EXCEPT !.pc = "end", !.end = "finished"]
      BY <1>4 DEF FinalAnswer
    <3>2. QED
      BY <1>4, <3>1, AnsweredIs DEF IsLoop, FinalAnswer
  <2>3. QED
    BY <1>2, <2>1, <2>2
<1>5. CASE CutOff \/ CallTruncated
  <2>1. loop'.pc \in {"llm", "end"} /\ asked <= asked' /\ (CutOff => asked' = asked)
    <3>1. loop'.pc \in {"llm", "end"}
      BY <1>5, AnswerWithoutCalls
    <3>2. asked' = asked \/ asked' = asked + 1
      BY <1>5 DEF CutOff, CallTruncated
    <3>3. CutOff => asked' = asked
      BY DEF CutOff
    <3>4. QED
      BY <1>0, <3>1, <3>2, <3>3
  <2>2. PICK l : /\ Answered(l)
                 /\ \/ CutOff /\ Warned(l, <<>>) /\ loop' = [l EXCEPT !.conts = @ + 1, !.pc = "end", !.end = "limit"]
                    \/ Warned(l, <<Assistant(<<>>), User>>)
    BY <1>5 DEF CutOff, CallTruncated
  <2>3. CASE CutOff /\ Warned(l, <<>>) /\ loop' = [l EXCEPT !.conts = @ + 1, !.pc = "end", !.end = "limit"]
    <3>1. loop'.pc = "end"
      BY <2>2, <2>3, AnsweredIs DEF IsLoop
    <3>2. QED
      BY <1>2, <2>1, <2>3, <3>1
  <2>4. CASE Warned(l, <<Assistant(<<>>), User>>)
    BY <1>3, <2>1, <2>4
  <2>5. QED
    BY <2>2, <2>3, <2>4
<1>6. CASE CallTools
  <2>1. PICK l \in Charged, n \in 1 .. MaxCalls : Answered(l) /\ \E cs \in Calls(n) :
           /\ Warned(l, <<Assistant(cs)>>) /\ asked' = asked + n /\ loop' = [l EXCEPT !.pc = "tools"]
           /\ group' = [i \in 1 .. n |->
                [call |-> cs[i], st |-> IF cs[i].op = "malformed" THEN "failed" ELSE "waiting"]]
    BY <1>6 DEF CallTools
  <2>2. PICK cs \in Calls(n) :
           /\ Warned(l, <<Assistant(cs)>>) /\ asked' = asked + n /\ loop' = [l EXCEPT !.pc = "tools"]
           /\ group' = [i \in 1 .. n |->
                [call |-> cs[i], st |-> IF cs[i].op = "malformed" THEN "failed" ELSE "waiting"]]
    BY <2>1
  <2>3. loop'.pc = "tools"
    <3>1. IsLoop(l)
      BY <2>1, AnsweredIs
    <3>2. QED
      BY <2>2, <3>1 DEF IsLoop
  <2>4. n \in Nat /\ n > 0 /\ asked + n \in Nat
    BY <1>0, Limits
  <2>5. cs \in [1 .. n -> Proper] /\ \A i \in 1 .. n : cs[i].n = asked + i
    BY <1>0, <2>4, CallsAre DEF LoopTyped
  <2>6. cs \in Seq(Proper) /\ Len(cs) = n /\ DOMAIN cs = 1 .. n
    BY <2>4, <2>5, IsASeqOf
  <2>7. PICK base : /\ Conv(base) /\ base # <<>> /\ Numbered(base, asked) /\ (broken \/ Whole(base, Len(base)))
                    /\ messages' = base \o <<Assistant(cs)>>
    BY <1>0, <2>2, WarnedIs
  <2>8. base \in Seq(Msgs) /\ Assistant(cs) \in Msgs
    BY <2>6, <2>7 DEF Conv, Assistant, Msgs
  <2>9. messages' = Append(base, Assistant(cs))
    BY <2>7, <2>8
  <2>10. /\ \A k \in DOMAIN cs : cs[k].n > asked
         /\ \A k, q \in DOMAIN cs : k < q => cs[k].n < cs[q].n
         /\ \A k \in DOMAIN cs : cs[k].n <= asked + n
    BY <1>0, <2>4, <2>5, <2>6
  <2>11. /\ Conv(messages') /\ Numbered(messages', asked + n)
         /\ (broken \/ Whole(messages', Len(base)))
    <3>1. asked + n >= asked /\ asked + n \in Nat
      BY <1>0, <2>4
    <3>2. /\ Conv(messages')
          /\ \A high \in Nat : high >= asked /\ (\A k \in DOMAIN cs : cs[k].n <= high) => Numbered(messages', high)
          /\ Whole(base, Len(base)) => Whole(messages', Len(base))
      BY <1>0, <2>6, <2>7, <2>9, <2>10, AddCalls
    <3>3. QED
      BY <2>7, <2>10, <3>1, <3>2
  <2>12. /\ messages' # <<>> /\ Len(messages') = Len(base) + 1 /\ Len(base) \in Nat
         /\ messages'[Len(messages')] = Assistant(cs)
    BY <2>8, <2>9, AppendIs
  <2>13. Asked(messages', group')
    <3>1. Len(group') = n /\ DOMAIN group' = 1 .. n /\ \A i \in 1 .. n : group'[i].call = cs[i]
      BY <2>2, <2>4
    <3>2. QED
      BY <2>6, <2>12, <3>1 DEF Asked, Asks, Assistant
  <2>14. Conv(checkpoint') /\ Numbered(checkpoint', asked')
    <3>1. checkpoint \in Seq(Msgs) /\ Conv(checkpoint) /\ Numbered(checkpoint, asked) /\ asked <= asked'
      BY <1>0, <2>2, <2>4 DEF TalkInv, Conv
    <3>2. QED
      BY <1>0, <3>1, NumberedUp
  <2>15. broken \/ Whole(messages', Len(messages') - 1)
    BY <2>11, <2>12
  <2>16. QED
    BY <1>0, <2>2, <2>3, <2>11, <2>12, <2>13, <2>14, <2>15 DEF TalkInv
<1>7. QED
  BY <1>1, <1>4, <1>5, <1>6 DEF LLM

\* A tool that starts or ends leaves the conversation and the calls alone.
LEMMA TalkTools == ASSUME LoopTyped, TalkInv, NEW i, NEW from, NEW to, ToolStep(i, from, to) PROVE TalkInv'
<1>1. /\ loop.pc = "tools" /\ i \in DOMAIN group /\ group' = [group EXCEPT ![i].st = to] /\ group \in Seq(Jobs)
      /\ UNCHANGED <<loop, messages, checkpoint, broken, asked>>
  BY DEF ToolStep, LoopTyped, broken
<1>2. group[i] \in Jobs
  BY <1>1
<1> DEFINE g == [group[i] EXCEPT !.st = to]
<1>3. g.call = group[i].call /\ group' = [group EXCEPT ![i] = g]
  BY <1>1, <1>2 DEF Jobs
<1> HIDE DEF g
<1>4. DOMAIN group' = DOMAIN group /\ \A j \in DOMAIN group : group'[j].call = group[j].call
  BY <1>1, <1>3
<1>5. Len(group') = Len(group)
  BY <1>1, <1>3
<1>6. Asked(messages, group) => Asked(messages', group')
  BY <1>1, <1>4, <1>5 DEF Asked
<1>7. QED
  BY <1>1, <1>6 DEF TalkInv

\* With every call answered, the conversation is whole.
LEMMA AllAnswered ==
    ASSUME NEW ms, NEW a, NEW cs, Answering(ms, a, cs, Len(cs)), cs \in Seq(Proper), Whole(ms, a - 1)
    PROVE  Whole(ms, Len(ms))
<1>1. ms \in Seq(Msgs) /\ a \in 1 .. Len(ms) /\ ms[a].calls = cs /\ DOMAIN ms = 1 .. Len(ms) /\ DOMAIN cs = 1 .. Len(cs)
      /\ Len(ms) \in Nat
  BY DEF Answering, Conv
<1>2. ASSUME NEW i \in 1 .. Len(ms), Asks(ms, i), NEW k \in DOMAIN ms[i].calls
      PROVE  \E j \in DOMAIN ms : Tells(ms, j) /\ ms[j].call = ms[i].calls[k]
  <2>1. CASE i < a
    <3>1. i \in 1 .. a - 1
      BY <1>1, <2>1
    <3>2. QED
      BY <1>2, <3>1 DEF Whole
  <2>2. CASE i = a
    <3>1. PICK j \in a + 1 .. Len(ms) : Tells(ms, j) /\ ms[j].call = cs[k]
      BY <1>1, <1>2, <2>2 DEF Answering
    <3>2. j \in DOMAIN ms
      BY <1>1
    <3>3. QED
      BY <1>1, <2>2, <3>1, <3>2
  <2>3. CASE i > a
    <3>1. i \in a + 1 .. Len(ms)
      BY <1>1, <2>3
    <3>2. QED
      BY <1>2, <3>1 DEF Answering, Asks, Tells, Injected
  <2>4. QED
    BY <1>1, <2>1, <2>2, <2>3
<1>3. QED
  BY <1>2 DEF Whole

\* Reading the results answers every call, and the checkpoint some of them.
LEMMA TalkCollect == ASSUME LoopTyped, LoopTyped', TalkInv, CollectResults PROVE TalkInv'
<1> DEFINE a == Len(messages)
           cs == messages[a].calls
           n == Len(group)
<1>1. /\ loop.pc = "tools" /\ messages' = Told(n) /\ asked' = asked /\ broken' = broken /\ asked \in Nat
      /\ loop' = [loop EXCEPT !.pc = "judge"] /\ IsLoop(loop)
  BY DEF CollectResults, LoopTyped, broken
<1>2. loop'.pc = "judge"
  BY <1>1 DEF IsLoop
<1>3. /\ group \in Seq(Jobs) /\ Conv(messages) /\ Asked(messages, group) /\ Numbered(messages, asked)
      /\ (broken \/ Whole(messages, a - 1)) /\ Conv(checkpoint) /\ Numbered(checkpoint, asked)
  BY <1>1 DEF TalkInv, LoopTyped
<1>4. /\ n \in Nat /\ DOMAIN group = 1 .. n /\ Len(cs) = n /\ \A i \in 1 .. n : group[i].call = cs[i]
      /\ messages \in Seq(Msgs) /\ messages # <<>> /\ Asks(messages, a) /\ a \in Nat /\ a > 0
  BY <1>3 DEF Asked, Conv
<1>5. cs \in Seq(Proper)
  <2>1. messages[a] \in Msgs
    BY <1>4
  <2>2. QED
    BY <1>4, <2>1, MsgIs DEF Asks
<1>6. \A k \in 0 .. n : /\ Answering(Told(k), a, cs, k) /\ Numbered(Told(k), asked)
                        /\ (broken \/ Whole(Told(k), a - 1))
  BY <1>1, <1>3, ToldIs
<1> HIDE DEF a, cs, n
<1>7. /\ Conv(messages') /\ Numbered(messages', asked') /\ messages' # <<>>
      /\ (broken \/ Whole(messages', Len(messages')))
  <2>1. n \in 0 .. n
    BY <1>4
  <2>2. /\ Answering(messages', a, cs, Len(cs)) /\ Numbered(messages', asked)
        /\ (broken \/ Whole(messages', a - 1))
    BY <1>1, <1>4, <1>6, <2>1
  <2>3. broken \/ Whole(messages', Len(messages'))
    BY <1>5, <2>2, AllAnswered
  <2>4. Conv(messages') /\ messages' # <<>>
    <3>1. Conv(messages') /\ a \in 1 .. Len(messages') /\ messages' \in Seq(Msgs)
      BY <2>2 DEF Answering, Conv
    <3>2. QED
      BY <3>1
  <2>5. QED
    BY <1>1, <2>2, <2>3, <2>4
<1>8. Conv(checkpoint') /\ Numbered(checkpoint', asked')
  <2>1. CASE checkpoint' = checkpoint
    BY <1>1, <1>3, <2>1
  <2>2. ASSUME NEW k \in CheckpointsAt, checkpoint' = Append(Told(k - 1), Result(group[k].call))
        PROVE  Conv(checkpoint') /\ Numbered(checkpoint', asked')
    <3>1. k \in 1 .. n
      BY <1>4 DEF CheckpointsAt
    <3>2. k - 1 \in 0 .. n /\ k - 1 \in 0 .. Len(cs) - 1 /\ (k - 1) + 1 = k /\ group[k].call = cs[k]
      BY <1>4, <3>1
    <3>3. Answering(Told(k - 1), a, cs, k - 1) /\ Numbered(Told(k - 1), asked)
      BY <1>6, <3>2
    <3>4. Answering(checkpoint', a, cs, k) /\ Numbered(checkpoint', asked)
      BY <1>1, <1>5, <2>2, <3>2, <3>3, TellOne
    <3>5. QED
      BY <1>1, <3>4 DEF Answering
  <2>3. checkpoint' = checkpoint \/ \E k \in CheckpointsAt : checkpoint' = Append(Told(k - 1), Result(group[k].call))
    BY DEF CollectResults
  <2>4. QED
    BY <2>1, <2>2, <2>3
<1>9. QED
  BY <1>1, <1>2, <1>7, <1>8 DEF TalkInv

\* What GoOn does to the conversation.
LEMMA GoOnIs ==
    ASSUME LoopTyped, TalkInv, GoOn
    PROVE  \E ms : /\ ms = messages \/ ms = Append(messages, User)
                   /\ Conv(ms) /\ ms # <<>> /\ Numbered(ms, asked) /\ (broken \/ Whole(ms, Len(ms)))
                   /\ Cut(ms, messages')
<1>1. /\ loop.pc = "judge" /\ Conv(messages) /\ messages # <<>> /\ Numbered(messages, asked) /\ asked \in Nat
      /\ (broken \/ Whole(messages, Len(messages))) /\ messages \in Seq(Msgs)
  BY DEF GoOn, TalkInv, LoopTyped, Conv
<1>2. PICK ms : /\ ms = messages \/ ms = Append(messages, User)
                /\ pruneMessages(ms) \/ messages' = ms
  BY DEF GoOn
<1>3. Conv(ms) /\ ms # <<>> /\ Numbered(ms, asked) /\ (broken \/ Whole(ms, Len(ms)))
  <2>1. CASE ms = messages
    BY <1>1, <2>1
  <2>2. CASE ms = Append(messages, User)
    <3>1. User \in Msgs /\ User.role \in {"user", "progress", "context", "anchor"}
      BY DEF User, Msgs
    <3>2. Len(ms) = Len(messages) + 1 /\ ms # <<>>
      BY <1>1, <2>2, <3>1, AppendIs
    <3>3. Conv(ms) /\ Numbered(ms, asked) /\ (broken \/ Whole(ms, Len(messages) + 1))
      BY <1>1, <2>2, <3>1, AddPlain
    <3>4. QED
      BY <3>2, <3>3
  <2>3. QED
    BY <1>2, <2>1, <2>2
<1>4. ms \in Seq(Msgs) /\ ms[1] = User
  BY <1>3 DEF Conv
<1>5. Cut(ms, messages')
  <2>1. CASE pruneMessages(ms)
    BY <1>3, <1>4, <2>1, PruneIs
  <2>2. CASE messages' = ms
    BY <1>3, <1>4, <2>2, CutSame
  <2>3. QED
    BY <1>2, <2>1, <2>2
<1>6. QED
  BY <1>2, <1>3, <1>5

\* Every step keeps the conversation and the checkpoint.
LEMMA TalkStep == LoopTyped /\ TalkInv /\ [Next]_vars => TalkInv'
<1> SUFFICES ASSUME LoopTyped, TalkInv, [Next]_vars PROVE TalkInv'
  OBVIOUS
<1>0. LoopTyped' /\ IsLoop(loop) /\ asked \in Nat
  BY TypedStep DEF LoopTyped
<1>1. CASE Start
  <2>1. /\ loop.pc = "off" /\ loop' = [Idle EXCEPT !.pc = "llm"] /\ UNCHANGED <<checkpoint, broken, asked>>
        /\ messages' = <<>> \o <<User>> \/ (checkpoint # <<>> /\ messages' = checkpoint \o <<User>>)
    BY <1>1 DEF Start, broken
  <2>2. loop'.pc = "llm"
    BY <2>1 DEF Idle
  <2>3. User \in Msgs /\ User.role \in {"user", "progress", "context", "anchor"}
    BY DEF User, Msgs
  <2>4. PICK base \in {<<>>, checkpoint} : messages' = base \o <<User>> /\ (base = <<>> \/ checkpoint # <<>>)
    BY <2>1
  <2>5. Conv(base) /\ Numbered(base, asked) /\ base \in Seq(Msgs)
    <3>1. Conv(base) /\ Numbered(base, asked)
      BY <2>4, ConvEmpty DEF TalkInv
    <3>2. QED
      BY <3>1 DEF Conv
  <2>6. messages' = Append(base, User)
    BY <2>3, <2>4, <2>5
  <2>7. Conv(messages') /\ Numbered(messages', asked) /\ messages' # <<>> /\ Len(messages') = Len(base) + 1
    BY <1>0, <2>3, <2>5, <2>6, AddPlain, AppendIs
  <2>8. broken \/ Whole(messages', Len(messages'))
    <3>1. broken \/ base = <<>>
      BY <2>1, <2>4 DEF TalkInv
    <3>2. base = <<>> => Whole(base, Len(base))
      BY DEF Whole
    <3>3. base = <<>> => Whole(messages', Len(base) + 1)
      BY <2>3, <2>5, <2>6, <3>2, AddPlain
    <3>4. QED
      BY <2>7, <3>1, <3>3
  <2>9. QED
    BY <1>0, <2>1, <2>2, <2>7, <2>8, TalkGoesOn
<1>2. CASE LLM
  BY <1>0, <1>2, TalkLLM
<1>3. CASE CollectResults
  BY <1>0, <1>3, TalkCollect
<1>4. CASE PauseForOwner \/ StopComplete
  <2>1. /\ loop.pc = "judge" /\ \E why \in {"paused", "complete"} : loop' = [loop EXCEPT !.pc = "end", !.end = why]
        /\ UNCHANGED <<messages, broken, asked>> /\ checkpoint' \in {checkpoint, messages}
    BY <1>4 DEF PauseForOwner, StopComplete, Ends, broken
  <2>2. loop'.pc = "end"
    BY <1>0, <2>1 DEF IsLoop
  <2>3. QED
    BY <2>1, <2>2 DEF TalkInv
<1>5. CASE GoOn
  <2>1. PICK ms : /\ Conv(ms) /\ ms # <<>> /\ Numbered(ms, asked) /\ (broken \/ Whole(ms, Len(ms)))
                  /\ Cut(ms, messages')
    BY <1>5, GoOnIs
  <2>2. /\ Conv(messages') /\ Numbered(messages', asked) /\ (broken \/ Whole(messages', Len(messages')))
    BY <1>0, <2>1, CutConv
  <2>3. messages' # <<>>
    BY <2>1 DEF Cut
  <2>4. loop.pc = "judge" /\ Again(loop) /\ UNCHANGED <<checkpoint, broken, asked>>
    BY <1>5 DEF GoOn, broken
  <2>5. loop'.pc \in {"llm", "end"}
    <3>1. loop.iter < MaxIter
      BY <2>4 DEF LoopTyped, Within
    <3>2. QED
      BY <1>0, <2>4, <3>1, AgainIs
  <2>6. QED
    BY <1>0, <2>2, <2>3, <2>4, <2>5, TalkGoesOn
<1>6. CASE AfterLoop
  <2>1. /\ messages' = <<>> /\ asked' = asked /\ checkpoint' \in {checkpoint, <<>>}
        /\ \/ loop' = Idle /\ breaks' = breaks + 1
           \/ loop' = [loop EXCEPT !.pc = "built"]
    BY <1>6 DEF AfterLoop
  <2>2. (loop'.pc = "off" /\ broken') \/ loop'.pc = "built"
    <3>1. breaks' = breaks + 1 => broken'
      BY DEF LoopTyped, broken
    <3>2. QED
      BY <1>0, <2>1, <3>1 DEF Idle, IsLoop
  <2>3. Conv(checkpoint') /\ Numbered(checkpoint', asked')
    BY <2>1, ConvEmpty DEF TalkInv
  <2>4. QED
    BY <2>1, <2>2, <2>3, ConvEmpty DEF TalkInv
<1>7. CASE Crash
  <2>1. messages' = <<>> /\ asked' = asked /\ checkpoint' = checkpoint /\ loop' = Idle /\ broken'
    BY <1>7 DEF Crash, LoopTyped, broken
  <2>2. loop'.pc = "off"
    BY <2>1 DEF Idle
  <2>3. QED
    BY <2>1, <2>2, ConvEmpty DEF TalkInv
<1>8. CASE Tools \/ Timeouts
  <2>1. PICK i : \E from, to : ToolStep(i, from, to)
    BY <1>8 DEF Tools, Timeouts, TakeSlot, ToolSucceeds, ToolFails, ToolHangs, ToolTimesOut
  <2>2. QED
    BY <2>1, TalkTools
<1>9. CASE LateWrite
  BY <1>9 DEF LateWrite, loopVars, TalkInv, broken
<1>10. CASE UNCHANGED vars
  BY <1>10 DEF vars, loopVars, TalkInv, broken
<1>11. QED
  BY <1>1, <1>2, <1>3, <1>4, <1>5, <1>6, <1>7, <1>8, <1>9, <1>10 DEF Next, Loop, Judge

\* They hold at the start.
LEMMA TalkStart == Init => LoopTyped /\ TalkInv
<1> SUFFICES ASSUME Init PROVE LoopTyped /\ TalkInv
  OBVIOUS
<1>1. messages = <<>> /\ checkpoint = <<>> /\ asked = 0 /\ loop.pc = "off"
  BY DEF Init, Idle
<1>2. QED
  BY <1>1, TypedStart, ConvEmpty DEF TalkInv

\* What the invariant says of a message and the results of its calls.
LEMMA AnswersAre ==
    ASSUME NEW ms, Conv(ms), NEW i \in DOMAIN ms, Asks(ms, i), NEW j \in DOMAIN ms, Tells(ms, j),
           ms[j].call \in ToSet(ms[i].calls)
    PROVE  /\ i < j
           /\ \A h \in i + 1 .. j - 1 : /\ h \in DOMAIN ms
                                        /\ \/ Injected(ms[h])
                                           \/ Tells(ms, h) /\ ms[h].call \in ToSet(ms[i].calls)
<1>1. ms \in Seq(Msgs) /\ InOrder(ms) /\ Grouped(ms) /\ DOMAIN ms = 1 .. Len(ms) /\ Len(ms) \in Nat
  BY DEF Conv
<1>2. ms[i] \in Msgs /\ ms[j] \in Msgs
  BY <1>1
<1>3. PICK k \in DOMAIN ms[i].calls : ms[j].call = ms[i].calls[k]
  BY DEF ToSet
<1>4. ms[j].call.n \in Nat
  BY <1>2, MsgIs DEF Tells
<1>5. i < j
  <2>1. i # j
    BY DEF Asks, Tells
  <2>2. ~ (j < i)
    <3>1. j < i => ms[j].call.n < ms[i].calls[k].n
      BY <1>1 DEF InOrder
    <3>2. QED
      BY <1>3, <1>4, <3>1
  <2>3. QED
    BY <1>1, <2>1, <2>2
<1>6. PICK h \in i .. j - 1 :
         /\ Asks(ms, h) /\ \E m \in DOMAIN ms[h].calls : ms[h].calls[m] = ms[j].call
         /\ \A g \in h + 1 .. j - 1 : Tells(ms, g) \/ Injected(ms[g])
  BY <1>1, <1>5, GroupedAt
<1>7. h = i
  <2>1. PICK m \in DOMAIN ms[h].calls : ms[h].calls[m] = ms[j].call
    BY <1>6
  <2>2. h \in DOMAIN ms
    BY <1>1
  <2>3. i < h => ms[i].calls[k].n < ms[h].calls[m].n
    BY <1>1, <1>6, <2>2 DEF InOrder
  <2>4. QED
    BY <1>1, <1>3, <1>4, <2>1, <2>3
<1>8. ASSUME NEW g \in i + 1 .. j - 1
      PROVE  g \in DOMAIN ms /\ (Injected(ms[g]) \/ (Tells(ms, g) /\ ms[g].call \in ToSet(ms[i].calls)))
  <2>1. g \in DOMAIN ms /\ i < g
    BY <1>1
  <2>2. Tells(ms, g) \/ Injected(ms[g])
    BY <1>6, <1>7
  <2>3. ASSUME Tells(ms, g) PROVE ms[g].call \in ToSet(ms[i].calls)
    <3>1. PICK e \in i .. g - 1 : Asks(ms, e) /\ \E m \in DOMAIN ms[e].calls : ms[e].calls[m] = ms[g].call
      BY <1>1, <2>1, <2>3, GroupedAt
    <3>2. e = i
      <4>1. e \notin i + 1 .. j - 1
        BY <1>6, <1>7, <3>1 DEF Asks, Tells, Injected
      <4>2. QED
        BY <1>1, <2>1, <4>1
    <3>3. QED
      BY <3>1, <3>2 DEF ToSet
  <2>4. QED
    BY <2>1, <2>2, <2>3
<1>9. QED
  BY <1>5, <1>8

\* The invariant puts the results behind their calls.
LEMMA TalkOrdered == LoopTyped /\ TalkInv => GroupsInOrder
<1> SUFFICES ASSUME LoopTyped, TalkInv, loop.pc = "llm", NEW i \in DOMAIN messages
             PROVE
      /\ messages[i].role = "assistant" =>
           LET calls == messages[i].calls
           IN  /\ \A j \in Answers(i) :
                    /\ i < j
                    /\ \A h \in i + 1..j - 1 : Injected(messages[h]) \/ h \in Answers(i)
                    /\ \A k \in DOMAIN calls : calls[k] = messages[j].call =>
                         \A m \in 1..k - 1 : \E h \in i + 1..j - 1 : h \in Answers(i) /\ messages[h].call = calls[m]
               /\ \A j, h \in Answers(i) : messages[j].call = messages[h].call => j = h
               /\ ~ broken => \A k \in DOMAIN calls : \E j \in Answers(i) : messages[j].call = calls[k]
      /\ messages[i].role = "tool" =>
           \/ \E h \in DOMAIN messages : messages[h].role = "assistant" /\ i \in Answers(h)
           \/ \A h \in 1..i - 1 : messages[h].role # "assistant"
  BY DEF GroupsInOrder
<1>1. /\ Conv(messages) /\ InOrder(messages) /\ Grouped(messages) /\ messages \in Seq(Msgs)
      /\ DOMAIN messages = 1 .. Len(messages) /\ Len(messages) \in Nat
      /\ (broken \/ Whole(messages, Len(messages)))
  BY DEF TalkInv, Conv
<1>2. \A j \in DOMAIN messages : Tells(messages, j) => messages[j].call.n \in Nat
  <2>1. \A j \in DOMAIN messages : messages[j] \in Msgs
    BY <1>1
  <2>2. QED
    BY <2>1, MsgIs DEF Tells
<1>3. ASSUME Asks(messages, i), NEW j \in Answers(i)
      PROVE  /\ i < j
             /\ \A h \in i + 1..j - 1 : Injected(messages[h]) \/ h \in Answers(i)
             /\ \A k \in DOMAIN messages[i].calls : messages[i].calls[k] = messages[j].call =>
                  \A m \in 1..k - 1 : \E h \in i + 1..j - 1 : h \in Answers(i) /\ messages[h].call = messages[i].calls[m]
  <2>1. j \in DOMAIN messages /\ Tells(messages, j) /\ messages[j].call \in ToSet(messages[i].calls)
    BY DEF Answers, Tells
  <2>2. /\ i < j
        /\ \A h \in i + 1 .. j - 1 : /\ h \in DOMAIN messages
                                     /\ \/ Injected(messages[h])
                                        \/ Tells(messages, h) /\ messages[h].call \in ToSet(messages[i].calls)
    BY <1>1, <1>3, <2>1, AnswersAre
  <2>3. \A h \in i + 1..j - 1 : Tells(messages, h) => h \in Answers(i)
    BY <2>2 DEF Answers, Tells, Injected
  <2>4. \A k \in DOMAIN messages[i].calls : messages[i].calls[k] = messages[j].call =>
          \A m \in 1 .. k - 1 : \E h \in i + 1 .. j - 1 : Tells(messages, h) /\ messages[h].call = messages[i].calls[m]
    BY <1>1, <1>3, <2>1, <2>2, GroupedAt
  <2>5. QED
    BY <2>2, <2>3, <2>4
<1>4. ASSUME NEW j \in Answers(i), NEW h \in Answers(i), messages[j].call = messages[h].call PROVE j = h
  <2>1. j \in DOMAIN messages /\ h \in DOMAIN messages /\ Tells(messages, j) /\ Tells(messages, h)
    BY DEF Answers, Tells
  <2>2. /\ j < h => messages[j].call.n < messages[h].call.n
        /\ h < j => messages[h].call.n < messages[j].call.n
    BY <1>1, <2>1 DEF InOrder
  <2>3. ~ (j < h) /\ ~ (h < j)
    BY <1>2, <1>4, <2>1, <2>2
  <2>4. QED
    BY <1>1, <2>1, <2>3
<1>5. ASSUME Asks(messages, i), ~ broken, NEW k \in DOMAIN messages[i].calls
      PROVE  \E j \in Answers(i) : messages[j].call = messages[i].calls[k]
  <2>1. PICK j \in DOMAIN messages : Tells(messages, j) /\ messages[j].call = messages[i].calls[k]
    BY <1>1, <1>5 DEF Whole
  <2>2. messages[j].call \in ToSet(messages[i].calls)
    BY <2>1 DEF ToSet
  <2>3. QED
    BY <2>1, <2>2 DEF Answers, Tells
<1>6. ASSUME Tells(messages, i), NEW h \in 1 .. i - 1, Asks(messages, h)
      PROVE  \E g \in DOMAIN messages : messages[g].role = "assistant" /\ i \in Answers(g)
  <2>1. h \in DOMAIN messages /\ h < i
    BY <1>1
  <2>2. PICK g \in h .. i - 1 : Asks(messages, g) /\ \E k \in DOMAIN messages[g].calls : messages[g].calls[k] = messages[i].call
    BY <1>1, <1>6, <2>1, GroupedAt
  <2>3. g \in DOMAIN messages
    BY <1>1, <2>1
  <2>4. messages[i].call \in ToSet(messages[g].calls)
    BY <2>2 DEF ToSet
  <2>5. QED
    BY <1>6, <2>2, <2>3, <2>4 DEF Answers, Asks, Tells
<1>7. QED
  BY <1>3, <1>4, <1>5, <1>6 DEF Asks, Tells

\* What is sent to the provider keeps calls and results together (messages.go:90): the
\* numbers of the calls rise along the conversation, so a result can only be of the last
\* call before it, through every checkpoint, restart, reminder and pruning.
THEOREM CallsKeepTheirResults == ToolLoopSpec => []GroupsInOrder
  BY TypedStep, TalkStart, TalkStep, TalkOrdered, PTL DEF ToolLoopSpec

\* The types of the loop, its conversation and its checkpoint.
THEOREM ToolLoopIsTyped == ToolLoopSpec => []ToolLoopTypeOK
<1>1. ASSUME NEW ms, Conv(ms), NEW m \in ToSet(ms) PROVE MessageOK(m)
  <2>1. m \in Msgs
    BY <1>1 DEF Conv, ToSet
  <2>2. Proper \subseteq CallSet
    BY DEF Proper
  <2>3. m.role = "assistant" => \A c \in ToSet(m.calls) : c \in CallSet
    BY <2>1, <2>2, MsgIs DEF ToSet
  <2>4. QED
    BY <2>1, <2>2, <2>3, MsgIs DEF MessageOK
<1>2. LoopTyped /\ TalkInv => ToolLoopTypeOK
  <2> SUFFICES ASSUME LoopTyped, TalkInv PROVE ToolLoopTypeOK
    OBVIOUS
  <2>1. /\ IsLoop(loop) /\ IsTracker(bp) /\ Within /\ group \in Seq(Jobs)
        /\ made \subseteq Items /\ undone \subseteq Items /\ late \subseteq CallSet
        /\ prompt \in {"calm", "warned"} /\ {spent, burnt, breaks, faults, asked} \subseteq Nat
    BY DEF LoopTyped, Proper
  <2>2. pauseRequested \in BOOLEAN
    BY Zenon DEF LoopTyped
  <2>3. loop.fallback \in BOOLEAN
    BY <2>1, Zenon DEF IsLoop
  <2>4. bp.saved \in BOOLEAN /\ bp.nudged \in BOOLEAN
    BY <2>1, Zenon DEF IsTracker
  <2>5. /\ loop.pc \in {"off", "llm", "tools", "judge", "end", "built"}
        /\ loop.end \in {"none", "finished", "complete", "budget", "limit", "iterations", "failed", "paused"}
        /\ loop.iter \in 0..MaxIter /\ loop.attempt \in 0..MaxRetries - 1
        /\ loop.pc = "llm" => loop.iter < MaxIter
        /\ loop.tokens \in Nat /\ loop.conts \in Nat
    BY <2>1, Limits DEF IsLoop, Pcs, Outcomes, Within
  <2>6. /\ bp.done \subseteq Items /\ bp.seen \subseteq Tables
        /\ bp.grace \in 0..GraceLimit + 1 /\ bp.readOnly \in 0..GraceLimit
    BY <2>1 DEF IsTracker, Within, GraceLimit
  <2>7. \A g \in ToSet(group) : g.call \in CallSet /\ g.st \in {"waiting", "running", "hanging", "ok", "failed"}
    <3>1. \A g \in ToSet(group) : g \in Jobs
      BY <2>1 DEF ToSet
    <3>2. QED
      BY <3>1 DEF Jobs, Proper, States
  <2>8. \A m \in ToSet(messages) \cup ToSet(checkpoint) : MessageOK(m)
    BY <1>1 DEF TalkInv
  <2>9. QED
    BY <2>1, <2>2, <2>3, <2>4, <2>5, <2>6, <2>7, <2>8 DEF ToolLoopTypeOK
<1>3. QED
  BY <1>2, TypedStep, TalkStart, TalkStep, PTL DEF ToolLoopSpec

\* A pruning that keeps a result without its call started at an injected message.
LEMMA CutIsInjected ==
    ASSUME LoopTyped, TalkInv, GoOn,
           NEW i \in DOMAIN messages, messages[i].role = "assistant", messages[i] \notin ToSet(messages'),
           NEW j \in Answers(i), messages[j] \in ToSet(messages')
    PROVE  \E h \in i + 1 .. j - 1 : Injected(messages[h])
<1>1. PICK ms : /\ ms = messages \/ ms = Append(messages, User)
                /\ Conv(ms) /\ ms # <<>> /\ Cut(ms, messages')
  BY GoOnIs
<1> DEFINE out == messages'
<1>2. /\ messages \in Seq(Msgs) /\ DOMAIN messages = 1 .. Len(messages) /\ Len(messages) \in Nat
      /\ ms \in Seq(Msgs) /\ ms[1] = User /\ InOrder(ms) /\ DOMAIN ms = 1 .. Len(ms) /\ Len(ms) \in Nat
      /\ out \in Seq(Msgs) /\ out[1] = User /\ DOMAIN out = 1 .. Len(out) /\ Len(out) \in Nat
  BY <1>1 DEF TalkInv, Conv, Cut
<1>3. i \in DOMAIN ms /\ j \in DOMAIN ms /\ ms[i] = messages[i] /\ ms[j] = messages[j]
  <2>1. j \in DOMAIN messages
    BY DEF Answers
  <2>2. CASE ms = messages
    BY <2>1, <2>2
  <2>3. CASE ms = Append(messages, User)
    <3>1. User \in Msgs
      BY DEF User, Msgs
    <3>2. QED
      BY <1>2, <2>1, <2>3, <3>1, AppendIs
  <2>4. QED
    BY <1>1, <2>2, <2>3
<1>4. Asks(ms, i) /\ Tells(ms, j) /\ ms[j].call \in ToSet(ms[i].calls)
  BY <1>3 DEF Answers, Asks, Tells
<1>5. /\ i < j
      /\ \A h \in i + 1 .. j - 1 : h \in DOMAIN ms /\ (Injected(ms[h]) \/ Tells(ms, h))
  BY <1>1, <1>3, <1>4, AnswersAre
<1>6. PICK p \in 1 .. Len(out) : \E g :
         /\ \A x \in 2 .. p : out[x].role \in {"anchor", "progress"}
         /\ Picks(ms, out, p, g)
         /\ \/ \A y \in 2 .. Len(ms) : ms[y].role # "context" => \E z \in p + 1 .. Len(out) : g[z] = y
            \/ p < Len(out) /\ out[p + 1].role # "tool"
  BY <1>1 DEF Cut
<1>7. PICK g :
         /\ \A x \in 2 .. p : out[x].role \in {"anchor", "progress"}
         /\ Picks(ms, out, p, g)
         /\ \/ \A y \in 2 .. Len(ms) : ms[y].role # "context" => \E z \in p + 1 .. Len(out) : g[z] = y
            \/ p < Len(out) /\ out[p + 1].role # "tool"
  BY <1>6
<1> HIDE DEF out
<1>8. /\ \A x \in p + 1 .. Len(out) : out[x] = ms[g[x]] /\ g[x] \in 1 .. Len(ms)
      /\ \A x, z \in p + 1 .. Len(out) : x < z => g[x] < g[z]
      /\ \A x \in p + 1 .. Len(out) : \A y \in 1 .. Len(ms) :
            y > g[x] /\ ms[y].role # "context" => \E z \in x + 1 .. Len(out) : g[z] = y
  BY <1>2, <1>7, ZenonT(60) DEF Picks
<1>9. ASSUME NEW z \in p + 1 .. Len(out) PROVE g[z] # i
  <2>1. z \in DOMAIN out
    BY <1>2
  <2>2. out[z] \in ToSet(out)
    BY <2>1 DEF ToSet
  <2>3. QED
    BY <1>3, <1>8, <2>2 DEF out
<1>10. i # 1
  BY <1>2, <1>4 DEF Asks, User
<1>11. PICK x \in DOMAIN out : out[x] = ms[j]
  BY <1>3 DEF ToSet, out
<1>12. x \in p + 1 .. Len(out)
  <2>1. x # 1 /\ x \notin 2 .. p
    BY <1>2, <1>4, <1>7, <1>11 DEF Tells, User
  <2>2. QED
    BY <1>2, <2>1
<1>13. g[x] = j
  <2>1. g[x] \in DOMAIN ms /\ ms[g[x]] = ms[j] /\ Tells(ms, g[x])
    BY <1>2, <1>4, <1>8, <1>11, <1>12 DEF Tells
  <2>2. /\ g[x] < j => ms[g[x]].call.n < ms[j].call.n
        /\ j < g[x] => ms[j].call.n < ms[g[x]].call.n
    BY <1>2, <1>3, <1>4, <2>1 DEF InOrder
  <2>3. ms[j].call.n \in Nat
    <3>1. ms[j] \in Msgs
      BY <1>2, <1>3
    <3>2. QED
      BY <1>4, <3>1, MsgIs DEF Tells
  <2>4. ~ (g[x] < j) /\ ~ (j < g[x])
    BY <2>1, <2>2, <2>3
  <2>5. QED
    BY <1>2, <1>3, <2>1, <2>4
<1>14. p < Len(out) /\ out[p + 1].role # "tool"
  <2>1. i \in 2 .. Len(ms) /\ ms[i].role # "context"
    BY <1>2, <1>3, <1>4, <1>10 DEF Asks
  <2>2. QED
    BY <1>7, <1>9, <2>1
<1> DEFINE y == g[p + 1]
<1>15. /\ p + 1 \in p + 1 .. Len(out) /\ y \in 1 .. Len(ms) /\ ms[y].role # "tool" /\ y # i
  <2>1. p + 1 \in p + 1 .. Len(out)
    BY <1>2, <1>14
  <2>2. QED
    BY <1>8, <1>9, <1>14, <2>1
<1>16. y < j
  <2>1. p + 1 < x \/ p + 1 = x
    BY <1>12
  <2>2. p + 1 < x => y < j
    BY <1>8, <1>12, <1>13, <1>15
  <2>3. p + 1 # x
    BY <1>4, <1>13, <1>15 DEF Tells
  <2>4. QED
    BY <2>1, <2>2, <2>3
<1>17. ~ (y < i)
  <2>1. SUFFICES ASSUME y < i PROVE FALSE
    OBVIOUS
  <2>2. i \in 1 .. Len(ms) /\ i > y /\ ms[i].role # "context"
    BY <1>2, <1>3, <1>4, <1>15, <2>1 DEF Asks
  <2>3. PICK z \in p + 1 + 1 .. Len(out) : g[z] = i
    BY <1>8, <1>15, <2>2
  <2>4. z \in p + 1 .. Len(out)
    BY <1>2
  <2>5. QED
    BY <1>9, <2>3, <2>4
<1>18. y \in i + 1 .. j - 1 /\ Injected(ms[y])
  <2> HIDE DEF y
  <2>1. y \in i + 1 .. j - 1
    BY <1>2, <1>3, <1>15, <1>16, <1>17
  <2>2. QED
    BY <1>5, <1>15, <2>1 DEF Tells
<1>19. ms[y] = messages[y]
  <2> HIDE DEF y
  <2>0. j \in 1 .. Len(messages) /\ i \in 1 .. Len(messages)
    BY <1>2 DEF Answers
  <2>1. y \in 1 .. Len(messages)
    BY <1>2, <1>18, <2>0
  <2>2. User \in Msgs
    BY DEF User, Msgs
  <2>3. Append(messages, User)[y] = messages[y]
    BY <1>2, <2>1, <2>2, AppendIs
  <2>4. QED
    BY <1>1, <2>3
<1>20. QED
  BY <1>18, <1>19

\* The prune separates a result from its call only at an injected message: the window backs
\* up over results (messages.go:89) and stops at the first other message.
THEOREM CutsAreAtInjected == ToolLoopSpec => CutsAtInjected
<1> DEFINE Cuts == loop.pc = "judge" /\ loop'.pc = "llm" =>
       \A i \in DOMAIN messages : messages[i].role = "assistant" /\ messages[i] \notin ToSet(messages') =>
         \A j \in Answers(i) : messages[j] \in ToSet(messages') =>
           \E h \in i + 1..j - 1 : Injected(messages[h])
<1>1. LoopTyped /\ TalkInv /\ [Next]_vars => [Cuts]_vars
  <2> SUFFICES ASSUME LoopTyped, TalkInv, Next, loop.pc = "judge", loop'.pc = "llm" PROVE Cuts
    BY DEF vars
  <2>1. IsLoop(loop)
    BY DEF LoopTyped
  <2>2. CASE GoOn
    BY <2>2, CutIsInjected
  <2>3. CASE PauseForOwner \/ StopComplete
    <3>1. \E why \in {"paused", "complete"} : loop' = [loop EXCEPT !.pc = "end", !.end = why]
      BY <2>3 DEF PauseForOwner, StopComplete, Ends
    <3>2. QED
      BY <2>1, <3>1 DEF IsLoop
  <2>4. CASE Crash
    BY <2>4 DEF Crash, Idle
  <2>5. CASE LateWrite
    BY <2>5 DEF LateWrite, loopVars
  <2>6. QED
    BY <2>2, <2>3, <2>4, <2>5 DEF Next, Loop, LLM, Judge, Tools, Timeouts, Start, LLMFails, BudgetExhausted, FinalAnswer,
       CutOff, CallTruncated, CallTools, Answered, CollectResults, AfterLoop, TakeSlot, ToolSucceeds, ToolFails,
       ToolHangs, ToolTimesOut, ToolStep
<1>2. QED
  BY <1>1, TypedStep, TalkStart, TalkStep, PTL DEF ToolLoopSpec, CutsAtInjected

=============================================================================
