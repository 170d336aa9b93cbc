--------------------------- MODULE ReactorProofs ---------------------------
(***************************************************************************)
(* Proofs about Reactor for every set of messages, tool calls and           *)
(* signatures and every limit.  The inductive invariant says, next to the   *)
(* types, that the reactor waits for at most one thing, that a tracker      *)
(* without an outstanding call has been deleted, and that a retry timer is  *)
(* only set while an attempt is left.                                       *)
(***************************************************************************)
EXTENDS ReactorMailbox, TLAPS

\* A retry timer runs only while the chain has an attempt left.
RetryRoom(s) == s.retry > 0 => s.attempt < MaxAttempts

\* A tracker with no outstanding call has been aggregated and deleted.
Tracked(s) == ~ToolsPending(s) => s.tools = NoTools

Inv == TypeOK /\ OneActivity /\ RetryRoom(reactor) /\ Tracked(reactor)

\* What a handler finds when it ends the turn: nothing is outstanding.
Calm(s) == s \in ReactorType /\ s.llm = 0 /\ s.retry = 0 /\ s.tools = NoTools

\* What such a handler leaves: a settled cycle, or one that waits for one thing.
Resumes ==
    \/ phase' = "idle" /\ reactor'.llm = 0 /\ reactor'.retry = 0 /\ reactor'.tools = NoTools
    \/ phase' = phase /\ Waits(reactor') = 1

Outcome ==
    /\ reactor' \in ReactorType
    /\ RetryRoom(reactor') /\ Tracked(reactor')
    /\ Resumes
    /\ orphans' \in Nat /\ lastReason' \in Reasons
    /\ delivered' \in Seq(Msgs) /\ dropped' \subseteq Msgs

\* No tool call is outstanding when the tracker is empty.
LEMMA NoToolsQuiet ==
    ASSUME NEW s, s.tools = NoTools PROVE ~ToolsPending(s)
BY DEF ToolsPending, NoTools

LEMMA WaitsQuiet ==
    ASSUME NEW s \in ReactorType, s.tools = NoTools
    PROVE  Waits(s) = s.llm + s.retry
BY NoToolsQuiet DEF Waits, ReactorType

LEMMA NewReactorType ==
    ASSUME NEW q \in Seq(Msgs)
    PROVE  /\ NewReactor(q) \in ReactorType
           /\ Calm(NewReactor(q))
           /\ NewReactor(q).attempt = 0
BY ConstantsAssumption DEF NewReactor, ReactorType, NoTools, Calm

\* Replacing the queue changes nothing else.
LEMMA SetQueue ==
    ASSUME NEW s \in ReactorType, NEW q \in Seq(Msgs)
    PROVE  LET x == [s EXCEPT !.queue = q]
           IN  /\ x \in ReactorType /\ x.queue = q
               /\ x.llm = s.llm /\ x.retry = s.retry /\ x.tools = s.tools
               /\ x.interrupted = s.interrupted /\ x.attempt = s.attempt
               /\ x.abortedByUser = s.abortedByUser /\ x.compaction = s.compaction
BY DEF ReactorType

\* Nor does a change of one of the counters.
LEMMA SetCounters ==
    ASSUME NEW s \in ReactorType, NEW n \in Nat
    PROVE  /\ LET x == [s EXCEPT !.llm = n]
              IN  /\ x \in ReactorType /\ x.llm = n /\ x.retry = s.retry
                  /\ x.tools = s.tools /\ x.attempt = s.attempt
                  /\ x.interrupted = s.interrupted
           /\ LET x == [s EXCEPT !.retry = n]
              IN  /\ x \in ReactorType /\ x.llm = s.llm /\ x.retry = n
                  /\ x.tools = s.tools /\ x.attempt = s.attempt
                  /\ x.interrupted = s.interrupted
BY DEF ReactorType

\* A chain of its own: retries and loop detection start anew.
LEMMA ResetAttempt ==
    ASSUME NEW s, Calm(s)
    PROVE  LET x == [s EXCEPT !.attempt = 0]
           IN  Calm(x) /\ x.interrupted = s.interrupted
BY ConstantsAssumption DEF Calm, ReactorType

LEMMA ResetSig ==
    ASSUME NEW s, Calm(s)
    PROVE  LET x == [s EXCEPT !.sig = NoSig]
           IN  Calm(x) /\ x.interrupted = s.interrupted
BY DEF Calm, ReactorType

LEMMA ResetRounds ==
    ASSUME NEW s, Calm(s)
    PROVE  LET x == [s EXCEPT !.rounds = 0]
           IN  Calm(x) /\ x.interrupted = s.interrupted
BY ConstantsAssumption DEF Calm, ReactorType

\* USER_MESSAGE under a live signal starts exactly one LLM call.
LEMMA UserMessageStarts ==
    ASSUME NEW s, Calm(s)
    PROVE  /\ UserMessage(s) \in ReactorType
           /\ UserMessage(s).retry = 0
           /\ UserMessage(s).tools = NoTools
           /\ UserMessage(s).llm = IF s.interrupted THEN 0 ELSE 1
<1> DEFINE v == [s EXCEPT !.attempt = 0]
           w == [v EXCEPT !.sig = NoSig]
           x == [w EXCEPT !.rounds = 0]
<1>1. CASE s.interrupted
  <2>1. UserMessage(s) = [s EXCEPT !.attempt = 0]
    BY <1>1 DEF UserMessage
  <2> QED
    BY <1>1, <2>1, ConstantsAssumption DEF Calm, ReactorType
<1>2. CASE ~s.interrupted
  <2>a. Calm(v) /\ v.interrupted = s.interrupted
    BY ResetAttempt
  <2>b. Calm(w) /\ w.interrupted = s.interrupted
    <3> HIDE DEF v
    <3> QED BY <2>a, ResetSig
  <2>c. Calm(x) /\ ~x.interrupted
    <3> HIDE DEF w
    <3> QED BY <1>2, <2>b, ResetRounds
  <2>1. x \in ReactorType /\ x.llm = 0 /\ x.retry = 0 /\ x.tools = NoTools /\ ~x.interrupted
    BY <2>c DEF Calm
  <2>2. UserMessage(s) = [x EXCEPT !.llm = @ + 1]
    BY <1>2, <2>1 DEF UserMessage, RequestTurn
  <2> HIDE DEF x
  <2> QED
    BY <1>2, <2>1, <2>2 DEF ReactorType
<1> QED
  BY <1>1, <1>2

\* Whatever way a turn completes, the cycle settles or waits for one thing.
LEMMA TurnCompletedOutcome ==
    ASSUME TypeOK, NEW s, Calm(s), NEW reason \in Reasons, NEW retryable \in BOOLEAN,
           TurnCompleted(s, reason, retryable)
    PROVE  Outcome
<1> USE DEF Calm
<1>0. s \in ReactorType /\ s.queue \in Seq(Msgs) /\ s.attempt \in 0..MaxAttempts
  BY DEF ReactorType
<1>1. lastReason' \in Reasons
  BY DEF TurnCompleted
<1>a. ASSUME NEW x \in ReactorType, x.llm = 0, x.retry = 0, x.tools = NoTools, x.queue = <<>>,
             Settle(x)
      PROVE  /\ reactor' \in ReactorType /\ RetryRoom(reactor') /\ Tracked(reactor') /\ Resumes
             /\ orphans' \in Nat
  <2>1. EndCycle(x)
    BY <1>a DEF Settle
  <2>2. NewReactor(<<>>) \in ReactorType /\ Calm(NewReactor(<<>>))
    BY NewReactorType, <1>a DEF ReactorType
  <2>3. reactor' \in ReactorType /\ reactor'.llm = 0 /\ reactor'.retry = 0 /\ reactor'.tools = NoTools
    BY <2>1, <2>2, <1>a DEF EndCycle, ReactorType
  <2>4. orphans' \in Nat /\ phase' = "idle"
    BY <2>1 DEF EndCycle, TypeOK
  <2> QED
    BY <2>3, <2>4 DEF RetryRoom, Tracked, Resumes, ReactorType
<1>2. CASE DiscardFollowUps(s)
  <2> DEFINE w == [s EXCEPT !.queue = <<>>]
             x == [w EXCEPT !.abortedByUser = FALSE]
  <2>0. <<>> \in Seq(Msgs)
    OBVIOUS
  <2>a. Calm(w) /\ w.queue = <<>>
    BY <1>0, <2>0, SetQueue
  <2>1. /\ x \in ReactorType /\ x.llm = 0 /\ x.retry = 0 /\ x.tools = NoTools /\ x.queue = <<>>
    <3> HIDE DEF w
    <3> QED BY <2>a DEF ReactorType
  <2>2. Settle(x)
    BY <1>2 DEF DiscardFollowUps
  <2>3. /\ reactor' \in ReactorType /\ RetryRoom(reactor') /\ Tracked(reactor') /\ Resumes
        /\ orphans' \in Nat
    <3> HIDE DEF x
    <3> QED BY <2>1, <2>2, <1>a
  <2>4. delivered' \in Seq(Msgs) /\ dropped' \subseteq Msgs
    BY <1>0, <1>2 DEF DiscardFollowUps, TypeOK, Elems
  <2> QED
    BY <1>1, <2>3, <2>4 DEF Outcome
<1>3. CASE CanRetry(s, retryable) /\ ScheduleRetry(s)
  <2> DEFINE x == [s EXCEPT !.retry = @ + 1]
  <2>1. x \in ReactorType /\ x.llm = 0 /\ x.retry = 1 /\ x.tools = NoTools /\ x.attempt = s.attempt
    BY <1>0 DEF ReactorType
  <2>2. reactor' = x /\ phase' = phase /\ orphans' = orphans
    BY <1>3 DEF ScheduleRetry, Continue
  <2>3. x.attempt < MaxAttempts
    BY <1>3, <2>1 DEF CanRetry
  <2> HIDE DEF x
  <2>4. Waits(x) = 1
    BY <2>1, WaitsQuiet
  <2>5. delivered' \in Seq(Msgs) /\ dropped' \subseteq Msgs
    BY <1>3 DEF ScheduleRetry, TypeOK
  <2>6. RetryRoom(reactor') /\ Tracked(reactor') /\ Resumes
    BY <2>1, <2>2, <2>3, <2>4 DEF RetryRoom, Tracked, Resumes
  <2> QED
    BY <1>1, <2>1, <2>2, <2>5, <2>6 DEF Outcome, TypeOK
<1>4. CASE DrainFollowUp(s)
  <2> DEFINE w == [s EXCEPT !.queue = Tail(@)]
             x == [w EXCEPT !.interrupted = FALSE]
             y == UserMessage(x)
  <2>0. Tail(s.queue) \in Seq(Msgs)
    BY <1>0, <1>4 DEF DrainFollowUp
  <2>a. Calm(w)
    BY <1>0, <2>0, SetQueue
  <2>1. Calm(x) /\ ~x.interrupted
    <3> HIDE DEF w
    <3> QED BY <2>a DEF ReactorType
  <2>2. y \in ReactorType /\ y.llm = 1 /\ y.retry = 0 /\ y.tools = NoTools
    <3> HIDE DEF x
    <3> QED BY <2>1, UserMessageStarts
  <2>3. reactor' = y /\ phase' = phase /\ orphans' = orphans
    BY <1>4 DEF DrainFollowUp, Continue
  <2> HIDE DEF y
  <2>4. Waits(y) = 1
    BY <2>2, WaitsQuiet
  <2>5. delivered' \in Seq(Msgs) /\ dropped' \subseteq Msgs
    BY <1>0, <1>4 DEF DrainFollowUp, TypeOK
  <2>6. RetryRoom(reactor') /\ Tracked(reactor') /\ Resumes
    BY <2>2, <2>3, <2>4 DEF RetryRoom, Tracked, Resumes
  <2> QED
    BY <1>1, <2>2, <2>3, <2>5, <2>6 DEF Outcome, TypeOK
<1>5. CASE GoIdle(s, reason)
  <2>1. PICK x \in {s, RequestCompaction(s)} : Settle(x)
    BY <1>5 DEF GoIdle
  <2>2. x \in ReactorType /\ x.llm = 0 /\ x.retry = 0 /\ x.tools = NoTools /\ x.queue = <<>>
    BY <1>0, <1>5, <2>1 DEF GoIdle, RequestCompaction, ReactorType
  <2>3. delivered' \in Seq(Msgs) /\ dropped' \subseteq Msgs
    BY <1>5 DEF GoIdle, TypeOK
  <2> QED
    BY <1>1, <1>a, <2>1, <2>2, <2>3 DEF Outcome
<1> QED
  BY <1>2, <1>3, <1>4, <1>5 DEF TurnCompleted

\* With no call in flight a complete tracker resumes the cycle in one way.
LEMMA AggregatedOutcome ==
    ASSUME TypeOK, NEW s \in ReactorType, s.llm = 0, s.retry = 0, Aggregated(s)
    PROVE  Outcome
<1> DEFINE x == [s EXCEPT !.tools = NoTools]
<1>1. Calm(x) /\ x.interrupted = s.interrupted /\ x.rounds = s.rounds
  BY DEF Calm, ReactorType, NoTools
<1>2. \/ TurnCompleted(x, "aborted", FALSE)
      \/ TurnCompleted(x, "loop_detected", FALSE)
      \/ ~x.interrupted /\ Proceed(RequestTurn(x))
  BY DEF Aggregated
<1> HIDE DEF x
<1>3. CASE ~x.interrupted /\ Proceed(RequestTurn(x))
  <2> DEFINE y == [x EXCEPT !.llm = @ + 1]
  <2>0. x.llm + 1 \in Nat /\ x.llm + 1 = 1
    BY <1>1 DEF Calm
  <2>1. y \in ReactorType /\ y.llm = 1 /\ y.retry = 0 /\ y.tools = NoTools
    BY <1>1, <2>0, SetCounters DEF Calm
  <2>2. reactor' = y /\ phase' = phase /\ orphans' = orphans
    BY <1>3 DEF Proceed, Continue, RequestTurn
  <2>3. lastReason' \in Reasons /\ delivered' \in Seq(Msgs) /\ dropped' \subseteq Msgs
    BY <1>3 DEF Proceed, TypeOK
  <2> HIDE DEF y
  <2>4. Waits(y) = 1
    BY <2>1, WaitsQuiet
  <2> QED
    BY <2>1, <2>2, <2>3, <2>4 DEF Outcome, Resumes, RetryRoom, Tracked, TypeOK
<1>4. {"aborted", "loop_detected"} \subseteq Reasons
  BY DEF Reasons
<1> QED
  BY <1>1, <1>2, <1>3, <1>4, TurnCompletedOutcome

\* The same for any report of a tool call.
LEMMA ToolsReportedOutcome ==
    ASSUME TypeOK, NEW s \in ReactorType, s.llm = 0, s.retry = 0, ToolsReported(s)
    PROVE  Outcome
<1>1. CASE Aggregated(s)
  BY <1>1, AggregatedOutcome
<1>2. CASE /\ ~ \A t \in ToolIds : s.tools[t] \in {"none", "done"}
           /\ Proceed(s)
  <2>1. ToolsPending(s)
    BY <1>2 DEF ToolsPending, ReactorType
  <2>2. reactor' = s /\ phase' = phase /\ orphans' = orphans
    BY <1>2 DEF Proceed, Continue
  <2>3. Waits(s) = 1
    BY <2>1 DEF Waits
  <2>4. lastReason' \in Reasons /\ delivered' \in Seq(Msgs) /\ dropped' \subseteq Msgs
    BY <1>2 DEF Proceed, TypeOK
  <2> QED
    BY <2>1, <2>2, <2>3, <2>4 DEF Outcome, Resumes, RetryRoom, Tracked, TypeOK
<1> QED
  BY <1>1, <1>2 DEF ToolsReported

\* A handler run by a running cycle leaves the invariant true.
LEMMA OutcomeInv ==
    ASSUME TypeOK, phase = "running", Outcome, UNCHANGED mail
    PROVE  Inv'
<1>1. ASSUME reactor'.llm = 0, reactor'.retry = 0, reactor'.tools = NoTools
      PROVE  Waits(reactor') = 0
  BY <1>1, NoToolsQuiet DEF Waits
<1> QED
  BY <1>1 DEF Outcome, Resumes, Inv, TypeOK, OneActivity, mail

\* An LLM call in flight is the only thing a cycle waits for.
LEMMA LlmAlone ==
    ASSUME Inv, phase = "running", reactor.llm > 0
    PROVE  Calm(LlmDone) /\ LlmDone.attempt = reactor.attempt /\ LlmDone.interrupted = reactor.interrupted
<1>1. reactor \in ReactorType /\ reactor.llm \in Nat /\ reactor.retry \in Nat
  BY DEF Inv, TypeOK, ReactorType
<1>2. reactor.llm = 1 /\ reactor.retry = 0 /\ ~ToolsPending(reactor)
  BY <1>1 DEF Inv, OneActivity, Waits
<1>3. reactor.tools = NoTools /\ reactor.llm - 1 \in Nat /\ reactor.llm - 1 = 0
  BY <1>2 DEF Inv, Tracked
<1> QED
  BY <1>1, <1>2, <1>3, SetCounters DEF Calm, LlmDone

\* So is an outstanding tool call of any round.
LEMMA ToolsAlone ==
    ASSUME Inv, phase = "running", NEW t \in ToolIds, reactor.tools[t] \in {"approval", "running"}
    PROVE  reactor \in ReactorType /\ reactor.llm = 0 /\ reactor.retry = 0
<1>1. reactor \in ReactorType /\ reactor.llm \in Nat /\ reactor.retry \in Nat
  BY DEF Inv, TypeOK, ReactorType
<1>2. ToolsPending(reactor)
  BY DEF ToolsPending
<1> QED
  BY <1>1, <1>2 DEF Inv, OneActivity, Waits

\* And a retry timer.
LEMMA RetryAlone ==
    ASSUME Inv, phase = "running", reactor.retry > 0
    PROVE  /\ reactor \in ReactorType /\ reactor.llm = 0 /\ reactor.retry = 1
           /\ reactor.tools = NoTools /\ reactor.attempt < MaxAttempts
<1>1. reactor \in ReactorType /\ reactor.llm \in Nat /\ reactor.retry \in Nat
  BY DEF Inv, TypeOK, ReactorType
<1>2. reactor.llm = 0 /\ reactor.retry = 1 /\ ~ToolsPending(reactor)
  BY <1>1 DEF Inv, OneActivity, Waits
<1> QED
  BY <1>1, <1>2 DEF Inv, Tracked, RetryRoom

\* The report of one outstanding tool call.
LEMMA ToolReportOutcome ==
    ASSUME Inv, phase = "running", NEW t \in ToolIds, reactor.tools[t] \in {"approval", "running"},
           ToolsReported([reactor EXCEPT !.tools[t] = "done"])
    PROVE  Outcome
<1> DEFINE x == [reactor EXCEPT !.tools[t] = "done"]
<1>1. reactor \in ReactorType /\ reactor.llm = 0 /\ reactor.retry = 0
  BY ToolsAlone
<1>2. x \in ReactorType /\ x.llm = 0 /\ x.retry = 0
  BY <1>1 DEF ReactorType
<1>3. TypeOK /\ ToolsReported(x)
  BY DEF Inv
<1> HIDE DEF x
<1> QED
  BY <1>2, <1>3, ToolsReportedOutcome

\* Setting the abort signal, the flag, the queue or the compaction leaves what
\* the reactor waits for alone.
LEMMA InterruptedType ==
    ASSUME NEW s \in ReactorType
    PROVE  LET x == [s EXCEPT !.interrupted = TRUE,
                              !.compaction = IF @ = "none" THEN "none" ELSE "cancelled"]
           IN  /\ x \in ReactorType
               /\ x.llm = s.llm /\ x.retry = s.retry /\ x.tools = s.tools /\ x.attempt = s.attempt
<1> DEFINE w == [s EXCEPT !.interrupted = TRUE]
<1>1. /\ w \in ReactorType
      /\ w.llm = s.llm /\ w.retry = s.retry /\ w.tools = s.tools /\ w.attempt = s.attempt
  BY DEF ReactorType
<1> DEFINE x == [w EXCEPT !.compaction = IF @ = "none" THEN "none" ELSE "cancelled"]
<1>2. /\ x \in ReactorType
      /\ x.llm = s.llm /\ x.retry = s.retry /\ x.tools = s.tools /\ x.attempt = s.attempt
  <2> HIDE DEF w
  <2> QED BY <1>1 DEF ReactorType
<1> QED
  BY <1>2

\* s differs from the reactor in nothing the invariant speaks about.
Alike(s) ==
    /\ s \in ReactorType
    /\ s.llm = reactor.llm /\ s.retry = reactor.retry
    /\ s.tools = reactor.tools /\ s.attempt = reactor.attempt

\* A step to such a reactor keeps the invariant.
LEMMA AlikeInv ==
    ASSUME Inv, NEW s, Alike(s), reactor' = s, phase' = phase,
           orphans' \in Nat, lastReason' \in Reasons,
           inbox' \in Seq(Msgs), delivered' \in Seq(Msgs),
           steered' \subseteq Msgs, fresh' \subseteq Msgs, dropped' \subseteq Msgs, stray' \subseteq Msgs
    PROVE  Inv'
<1>1. ToolsPending(s) = ToolsPending(reactor)
  BY DEF Alike, ToolsPending
<1>2. Waits(s) = Waits(reactor)
  BY <1>1 DEF Alike, Waits
<1> QED
  BY <1>1, <1>2 DEF Inv, TypeOK, OneActivity, RetryRoom, Tracked, Alike

\* USER_INTERRUPT either settles a waiting retry or only sets the signal.
LEMMA InterruptInv ==
    ASSUME Inv, Interruptible, NEW s, Alike(s), Interrupt(s),
           inbox' \in Seq(Msgs), steered' \subseteq Msgs, fresh' \subseteq Msgs, stray' \subseteq Msgs
    PROVE  Inv'
<1> DEFINE i == [s EXCEPT !.interrupted = TRUE,
                          !.compaction = IF @ = "none" THEN "none" ELSE "cancelled"]
<1>1. Alike(i)
  BY InterruptedType DEF Alike
<1>2. \/ s.retry > 0 /\ TurnCompleted([i EXCEPT !.retry = 0], "aborted", FALSE)
      \/ Proceed(i)
  BY DEF Interrupt
<1>t. TypeOK
  BY DEF Inv
<1> HIDE DEF i
<1>3. CASE Proceed(i)
  BY <1>1, <1>3, <1>t, AlikeInv DEF Proceed, Continue, TypeOK
<1>4. CASE s.retry > 0 /\ TurnCompleted([i EXCEPT !.retry = 0], "aborted", FALSE)
  <2>1. reactor.retry > 0
    BY <1>4 DEF Alike
  <2>2. phase = "running"
    <3>1. reactor.llm \in Nat /\ reactor.retry \in Nat
      BY <1>t DEF TypeOK, ReactorType
    <3> QED BY <2>1, <3>1, <1>t DEF Inv, OneActivity, Waits, TypeOK
  <2>3. reactor.llm = 0 /\ reactor.tools = NoTools
    BY <2>1, <2>2, RetryAlone
  <2> DEFINE x == [i EXCEPT !.retry = 0]
  <2>4. Calm(x)
    <3>1. i \in ReactorType /\ i.llm = 0 /\ i.tools = NoTools /\ 0 \in Nat
      BY <1>1, <2>3 DEF Alike
    <3> QED BY <3>1, SetCounters DEF Calm
  <2>5. "aborted" \in Reasons
    BY DEF Reasons
  <2>6. TurnCompleted(x, "aborted", FALSE)
    BY <1>4
  <2> HIDE DEF x
  <2>7. Outcome
    BY <1>t, <2>4, <2>5, <2>6, TurnCompletedOutcome
  <2>8. ASSUME reactor'.llm = 0, reactor'.retry = 0, reactor'.tools = NoTools
        PROVE  Waits(reactor') = 0
    BY <2>8, NoToolsQuiet DEF Waits
  <2> QED
    BY <2>2, <2>7, <2>8 DEF Outcome, Resumes, Inv, TypeOK, OneActivity
<1> QED
  BY <1>2, <1>3, <1>4

\* The calls of the API.
LEMMA CallsInv ==
    ASSUME Inv,
           Prompt \/ SendPrompt \/ Abort \/ Compact \/ \E m \in Msgs : Input(m)
    PROVE  Inv'
<1>t. TypeOK /\ reactor \in ReactorType
  BY DEF Inv, TypeOK
<1>1. CASE Prompt
  <2>1. PICK n \in 0..Len(inbox) : \E q \in [1..n -> Elems(inbox)] : reactor' = NewReactor(q)
    BY <1>1 DEF Prompt
  <2>2. PICK q \in [1..n -> Elems(inbox)] : reactor' = NewReactor(q)
    BY <2>1
  <2>3. q \in Seq(Msgs)
    <3>1. Elems(inbox) \subseteq Msgs /\ n \in Nat
      BY <1>t DEF TypeOK, Elems
    <3> QED BY <3>1
  <2>4. Calm(reactor') /\ reactor'.attempt = 0
    BY <2>2, <2>3, NewReactorType
  <2>5. Waits(reactor') = 0 /\ ~ToolsPending(reactor')
    BY <2>4, NoToolsQuiet DEF Calm, Waits
  <2> QED
    BY <1>1, <1>t, <2>4, <2>5 DEF Prompt, Inv, TypeOK, OneActivity, RetryRoom, Tracked, Calm, mail
<1>2. CASE SendPrompt
  <2>1. Calm(reactor)
    <3>1. reactor.llm \in Nat /\ reactor.retry \in Nat
      BY <1>t DEF ReactorType
    <3> QED BY <1>2, <1>t, <3>1 DEF SendPrompt, Inv, OneActivity, Waits, Calm
  <2>2. /\ reactor' \in ReactorType /\ reactor'.retry = 0 /\ reactor'.tools = NoTools
        /\ reactor'.llm \in 0..1
    BY <1>2, <2>1, UserMessageStarts DEF SendPrompt
  <2>3. Waits(reactor') \in 0..1
    BY <2>2, WaitsQuiet
  <2> QED
    BY <1>2, <1>t, <2>2, <2>3 DEF SendPrompt, Inv, TypeOK, OneActivity, RetryRoom, Tracked, mail
<1>3. CASE Abort
  <2> DEFINE x == [reactor EXCEPT !.abortedByUser = TRUE]
  <2>1. Alike(x)
    BY <1>t DEF Alike, ReactorType
  <2>2. Interruptible /\ Interrupt(x) /\ UNCHANGED mail
    BY <1>3 DEF Abort
  <2> HIDE DEF x
  <2> QED
    BY <1>t, <2>1, <2>2, InterruptInv DEF TypeOK, mail
<1>4. CASE Compact
  <2>1. Alike(RequestCompaction(reactor))
    BY <1>t DEF Alike, RequestCompaction, ReactorType
  <2> QED
    BY <1>4, <1>t, <2>1, AlikeInv DEF Compact, Proceed, Continue, TypeOK, mail
<1>5. ASSUME NEW m \in Msgs, Input(m)
      PROVE  Inv'
  <2>1. CASE Steer(m)
    <3> DEFINE x == [reactor EXCEPT !.queue = Append(@, m)]
    <3>0. Append(reactor.queue, m) \in Seq(Msgs)
      BY <1>t DEF ReactorType
    <3>1. Alike(x)
      BY <1>t, <3>0, SetQueue DEF Alike
    <3>2. Interruptible /\ Interrupt(x)
      BY <2>1 DEF Steer
    <3>3. /\ inbox' \in Seq(Msgs) /\ steered' \subseteq Msgs
          /\ fresh' \subseteq Msgs /\ stray' \subseteq Msgs
      BY <1>t, <2>1 DEF Steer, TypeOK
    <3> HIDE DEF x
    <3> QED
      BY <3>1, <3>2, <3>3, InterruptInv
  <2>2. CASE SteerIdle(m)
    <3>1. Alike(reactor)
      BY <1>t DEF Alike
    <3> QED
      BY <1>t, <2>2, <3>1, AlikeInv DEF SteerIdle, TypeOK
  <2>3. CASE FollowUp(m)
    <3>0. Append(reactor.queue, m) \in Seq(Msgs)
      BY <1>t DEF ReactorType
    <3>1. Alike(reactor')
      BY <1>t, <2>3, <3>0, SetQueue DEF Alike, FollowUp
    <3>2. inbox' \in Seq(Msgs) /\ fresh' \subseteq Msgs
      BY <1>t, <2>3 DEF FollowUp, TypeOK
    <3> QED
      BY <1>t, <2>3, <3>1, <3>2, AlikeInv DEF FollowUp, TypeOK
  <2> QED
    BY <1>5, <2>1, <2>2, <2>3 DEF Input
<1> QED
  BY <1>1, <1>2, <1>3, <1>4, <1>5

\* A tool round begins with nothing but its calls outstanding.
LEMMA ToolRoundStarts ==
    ASSUME NEW s, Calm(s), NEW calls \in SUBSET ToolIds, NEW sig \in Sigs, ToolRound(s, calls, sig)
    PROVE  \E w \in ReactorType : w.llm = 0 /\ w.retry = 0 /\ ToolsReported(w)
<1> DEFINE tools == [t \in ToolIds |-> IF t \in calls THEN IntentToolCall(t) ELSE "none"]
           u == [s EXCEPT !.tools = tools]
           v == [u EXCEPT !.sig = sig]
           w == [v EXCEPT !.rounds = RoundsOf(s, sig)]
<1>1. tools \in [ToolIds -> {"none", "approval", "running", "done"}]
  BY DEF IntentToolCall
<1>2. RoundsOf(s, sig) \in 0..LoopLimit
  BY ConstantsAssumption DEF Calm, ReactorType, RoundsOf
<1>3. u \in ReactorType /\ u.llm = 0 /\ u.retry = 0
  <2> HIDE DEF tools
  <2> QED BY <1>1 DEF Calm, ReactorType
<1>4. v \in ReactorType /\ v.llm = 0 /\ v.retry = 0
  <2> HIDE DEF u
  <2> QED BY <1>3 DEF ReactorType
<1>5. w \in ReactorType /\ w.llm = 0 /\ w.retry = 0
  <2> HIDE DEF v
  <2> QED BY <1>2, <1>4 DEF ReactorType
<1>6. ToolsReported(w)
  BY DEF ToolRound
<1> HIDE DEF w
<1> QED
  BY <1>5, <1>6

\* What the awaits of a running cycle are resolved by.
LEMMA AwaitsInv ==
    ASSUME Inv,
           \/ LlmAnswers \/ LlmCallsTools \/ LlmThrows \/ RetryTimer
           \/ \E t \in ToolIds : Tool(t)
           \/ CompactionEnds \/ OrphanEnds \/ Restart
    PROVE  Inv'
<1>t. TypeOK /\ reactor \in ReactorType
  BY DEF Inv, TypeOK
<1>r. {"stop", "error", "aborted"} \subseteq Reasons
  BY DEF Reasons
<1>1. CASE LlmAnswers
  <2>1. Calm(LlmDone) /\ phase = "running"
    BY <1>1, LlmAlone DEF LlmAnswers
  <2>2. PICK reason \in {"stop", "error", "aborted"} : \E retryable \in BOOLEAN :
           TurnCompleted(LlmDone, reason, retryable)
    BY <1>1 DEF LlmAnswers
  <2>3. PICK retryable \in BOOLEAN : TurnCompleted(LlmDone, reason, retryable)
    BY <2>2
  <2>4. Outcome
    BY <1>t, <1>r, <2>1, <2>3, TurnCompletedOutcome
  <2> QED
    BY <1>t, <1>1, <2>1, <2>4, OutcomeInv DEF LlmAnswers
<1>2. CASE LlmCallsTools
  <2>1. Calm(LlmDone) /\ phase = "running"
    BY <1>2, LlmAlone DEF LlmCallsTools
  <2>2. PICK calls \in (SUBSET ToolIds) \ {{}}, sig \in Sigs : ToolRound(LlmDone, calls, sig)
    BY <1>2 DEF LlmCallsTools
  <2>3. PICK w \in ReactorType : w.llm = 0 /\ w.retry = 0 /\ ToolsReported(w)
    BY <2>1, <2>2, ToolRoundStarts
  <2>4. Outcome
    BY <1>t, <2>3, ToolsReportedOutcome
  <2> QED
    BY <1>t, <1>2, <2>1, <2>4, OutcomeInv DEF LlmCallsTools
<1>3. CASE LlmThrows
  <2>1. Calm(LlmDone) /\ phase = "running"
    BY <1>3, LlmAlone DEF LlmThrows
  <2>2. PICK retryable \in BOOLEAN :
          \/ CanRetry(LlmDone, retryable) /\ ScheduleRetry(LlmDone) /\ UNCHANGED lastReason
          \/ TurnCompleted(LlmDone, "error", FALSE)
    BY <1>3 DEF LlmThrows
  <2>3. CASE TurnCompleted(LlmDone, "error", FALSE)
    <3>1. Outcome
      BY <1>t, <1>r, <2>1, <2>3, TurnCompletedOutcome
    <3> QED
      BY <1>t, <1>3, <2>1, <3>1, OutcomeInv DEF LlmThrows
  <2>4. CASE CanRetry(LlmDone, retryable) /\ ScheduleRetry(LlmDone) /\ UNCHANGED lastReason
    <3> DEFINE x == [LlmDone EXCEPT !.retry = @ + 1]
    <3>0. LlmDone.retry + 1 \in Nat /\ LlmDone.retry + 1 = 1
      BY <2>1 DEF Calm
    <3>1. /\ x \in ReactorType /\ x.llm = 0 /\ x.retry = 1 /\ x.tools = NoTools
          /\ x.attempt < MaxAttempts
      BY <2>1, <2>4, <3>0, SetCounters DEF Calm, CanRetry
    <3>2. reactor' = x /\ phase' = phase /\ orphans' = orphans
      BY <2>4 DEF ScheduleRetry, Continue
    <3> HIDE DEF x
    <3>3. Waits(x) = 1
      BY <3>1, WaitsQuiet
    <3>4. Outcome
      BY <1>t, <2>4, <3>1, <3>2, <3>3
         DEF ScheduleRetry, Outcome, Resumes, RetryRoom, Tracked, TypeOK
    <3> QED
      BY <1>t, <1>3, <2>1, <3>4, OutcomeInv DEF LlmThrows
  <2> QED
    BY <2>2, <2>3, <2>4
<1>4. CASE RetryTimer
  <2>1. /\ phase = "running" /\ reactor.llm = 0 /\ reactor.retry = 1
        /\ reactor.tools = NoTools /\ reactor.attempt < MaxAttempts
    BY <1>4, RetryAlone DEF RetryTimer
  <2> DEFINE s == [reactor EXCEPT !.retry = @ - 1]
             u == [s EXCEPT !.attempt = @ + 1]
             v == [u EXCEPT !.llm = @ + 1]
  <2>2. Calm(s) /\ s.attempt = reactor.attempt /\ s.interrupted = reactor.interrupted
    <3>1. reactor.retry - 1 \in Nat /\ reactor.retry - 1 = 0
      BY <2>1
    <3> QED BY <1>t, <2>1, <3>1, SetCounters DEF Calm
  <2>3. s.attempt + 1 \in 0..MaxAttempts
    BY <1>t, <2>1, <2>2, ConstantsAssumption DEF ReactorType
  <2>4. Calm(u) /\ u.interrupted = s.interrupted
    <3> HIDE DEF s
    <3> QED BY <2>2, <2>3 DEF Calm, ReactorType
  <2>5. /\ v \in ReactorType /\ v.llm = 1 /\ v.retry = 0 /\ v.tools = NoTools
    <3>1. u.llm + 1 \in Nat /\ u.llm + 1 = 1
      BY <2>4 DEF Calm
    <3> HIDE DEF u
    <3> QED BY <2>4, <3>1, SetCounters DEF Calm
  <2>6. Proceed(IF s.interrupted THEN s ELSE v) /\ UNCHANGED mail
    BY <1>4, <2>4 DEF RetryTimer, RequestTurn
  <2> HIDE DEF s, v
  <2>7. PICK x \in {s, v} : Proceed(x)
    BY <2>6
  <2>8. x \in ReactorType /\ x.llm \in 0..1 /\ x.retry = 0 /\ x.tools = NoTools
    BY <2>2, <2>5, <2>7 DEF Calm
  <2>9. Waits(x) \in 0..1
    BY <2>8, WaitsQuiet
  <2> QED
    BY <1>t, <2>1, <2>6, <2>7, <2>8, <2>9
       DEF Proceed, Continue, Inv, TypeOK, OneActivity, RetryRoom, Tracked, mail
<1>5. ASSUME NEW t \in ToolIds, ToolEnds(t) \/ Reject(t)
      PROVE  Inv'
  <2>1. /\ phase = "running" /\ reactor.tools[t] \in {"approval", "running"} /\ UNCHANGED mail
        /\ ToolsReported([reactor EXCEPT !.tools[t] = "done"])
    BY <1>5 DEF ToolEnds, Reject
  <2>2. Outcome
    BY <2>1, ToolReportOutcome
  <2> QED
    BY <1>t, <2>1, <2>2, OutcomeInv
<1>6. ASSUME NEW t \in ToolIds, Approve(t)
      PROVE  Inv'
  <2>1. /\ phase = "running" /\ reactor.tools[t] = "approval" /\ UNCHANGED mail
        /\ Proceed([reactor EXCEPT !.tools[t] = "running"])
    BY <1>6 DEF Approve
  <2> DEFINE x == [reactor EXCEPT !.tools[t] = "running"]
  <2>2. reactor.llm = 0 /\ reactor.retry = 0
    BY <2>1, ToolsAlone
  <2>3. x \in ReactorType /\ x.llm = 0 /\ x.retry = 0 /\ x.tools[t] = "running"
    BY <1>t, <2>2 DEF ReactorType
  <2>4. Proceed(x)
    BY <2>1
  <2> HIDE DEF x
  <2>5. ToolsPending(x) /\ Waits(x) = 1
    BY <2>3 DEF ToolsPending, Waits
  <2> QED
    BY <1>t, <2>1, <2>3, <2>4, <2>5
       DEF Proceed, Continue, Inv, TypeOK, OneActivity, RetryRoom, Tracked, mail
<1>7. CASE CompactionEnds
  <2>1. Alike([reactor EXCEPT !.compaction = "none"])
    BY <1>t DEF Alike, ReactorType
  <2> QED
    BY <1>7, <1>t, <2>1, AlikeInv DEF CompactionEnds, Proceed, Continue, TypeOK, mail
<1>8. CASE OrphanEnds
  <2>1. Alike(reactor)
    BY <1>t DEF Alike
  <2> QED
    BY <1>8, <1>t, <2>1, AlikeInv DEF OrphanEnds, TypeOK, mail
<1>9. CASE Restart
  <2>1. <<>> \in Seq(Msgs)
    OBVIOUS
  <2>2. Calm(reactor') /\ reactor'.attempt = 0
    BY <1>9, <2>1, NewReactorType DEF Restart
  <2>3. Waits(reactor') = 0 /\ ~ToolsPending(reactor')
    BY <2>2, NoToolsQuiet DEF Calm, Waits
  <2> QED
    BY <1>9, <1>t, <2>2, <2>3 DEF Restart, Inv, TypeOK, OneActivity, RetryRoom, Tracked, Calm
<1> QED
  BY <1>1, <1>2, <1>3, <1>4, <1>5, <1>6, <1>7, <1>8, <1>9 DEF Tool

\* Inv is inductive.
LEMMA Invariance == Spec => []Inv
<1>1. Init => Inv
  <2> SUFFICES ASSUME Init PROVE Inv
    OBVIOUS
  <2>1. <<>> \in Seq(Msgs)
    OBVIOUS
  <2>2. Calm(reactor) /\ reactor.attempt = 0
    BY <2>1, NewReactorType DEF Init
  <2>3. Waits(reactor) = 0 /\ ~ToolsPending(reactor)
    BY <2>2, NoToolsQuiet DEF Calm, Waits
  <2> QED
    BY <2>1, <2>2, <2>3 DEF Init, Inv, TypeOK, OneActivity, RetryRoom, Tracked, Calm, Reasons
<1>2. Inv /\ [Next]_vars => Inv'
  <2> SUFFICES ASSUME Inv, [Next]_vars PROVE Inv'
    OBVIOUS
  <2>1. CASE Next
    BY <2>1, CallsInv, AwaitsInv DEF Next
  <2>2. CASE UNCHANGED vars
    BY <2>2 DEF vars, mail, Inv, TypeOK, OneActivity, RetryRoom, Tracked, Waits, ToolsPending
  <2> QED
    BY <2>1, <2>2
<1> QED
  BY <1>1, <1>2, PTL DEF Spec

\* Every variable keeps its type; the retry count stays within maxAttempts.
THEOREM TypeCorrect == Spec => []TypeOK
BY Invariance, PTL DEF Inv

\* One turn at a time: a reactor never awaits two LLM calls, timers or tool
\* rounds, and nothing of a cycle is outstanding once prompt() has resolved.
THEOREM OneActivityAlways == Spec => []OneActivity
BY Invariance, PTL DEF Inv
-----------------------------------------------------------------------------
(* AbortStopsCalls: the flag of an abort is only ever set together with the  *)
(* signal, and until the turn has ended no handler clears the signal alone.  *)

Seen(s) == s.abortedByUser => s.interrupted

\* What AbortStopsCalls says of a step.
HeedsAbort ==
    phase = "running" /\ reactor.abortedByUser =>
        /\ phase' = "running" => reactor'.llm <= reactor.llm /\ delivered' = delivered
        /\ orphans' > orphans => reactor.compaction # "none"

\* A handler that ran in the reactor s heeded it.
Heeded(s) ==
    /\ Seen(reactor')
    /\ s.abortedByUser =>
        /\ phase' = "running" => reactor'.llm <= s.llm /\ delivered' = delivered
        /\ orphans' > orphans => s.compaction # "none"

LEMMA UserMessageFlags ==
    ASSUME NEW s \in ReactorType
    PROVE  UserMessage(s).abortedByUser = s.abortedByUser /\ UserMessage(s).interrupted = s.interrupted
<1> DEFINE v == [s EXCEPT !.attempt = 0]
           w == [v EXCEPT !.sig = NoSig]
           x == [w EXCEPT !.rounds = 0]
           Same(y) == y.abortedByUser = s.abortedByUser /\ y.interrupted = s.interrupted
<1>1. v \in ReactorType /\ Same(v)
  BY ConstantsAssumption DEF ReactorType
<1>2. w \in ReactorType /\ Same(w)
  <2> HIDE DEF v
  <2> QED BY <1>1 DEF ReactorType
<1>3. x \in ReactorType /\ Same(x)
  <2>1. 0 \in 0..LoopLimit
    BY ConstantsAssumption
  <2> HIDE DEF w
  <2> QED BY <1>2, <2>1 DEF ReactorType
<1>4. CASE s.interrupted
  BY <1>1, <1>4 DEF UserMessage
<1>5. CASE ~s.interrupted
  <2>1. UserMessage(s) = [x EXCEPT !.llm = @ + 1]
    BY <1>3, <1>5 DEF UserMessage, RequestTurn
  <2> HIDE DEF x
  <2> QED BY <1>3, <2>1 DEF ReactorType
<1> QED
  BY <1>4, <1>5

LEMMA SettleHeeds ==
    ASSUME TypeOK, NEW s \in ReactorType, Seen(s), Settle(s)
    PROVE  /\ Seen(reactor')
           /\ phase' = "running" => reactor' = s
           /\ orphans' > orphans => s.compaction # "none"
<1>1. orphans \in Nat
  BY DEF TypeOK
<1>2. CASE EndCycle(s)
  <2> DEFINE n == NewReactor(<<>>)
             m == [n EXCEPT !.llm = s.llm]
             o == [m EXCEPT !.tools = s.tools]
  <2>1. n \in ReactorType /\ n.abortedByUser = FALSE
    <3>1. <<>> \in Seq(Msgs)
      OBVIOUS
    <3> QED BY <3>1, NewReactorType DEF NewReactor
  <2>2. m \in ReactorType /\ m.abortedByUser = FALSE
    <3> HIDE DEF n
    <3> QED BY <2>1 DEF ReactorType
  <2>3. o.abortedByUser = FALSE
    <3> HIDE DEF m
    <3> QED BY <2>2 DEF ReactorType
  <2>4. /\ reactor' = o /\ phase' = "idle"
        /\ orphans' = IF s.compaction = "none" THEN orphans ELSE orphans + 1
    BY <1>2 DEF EndCycle
  <2> HIDE DEF o
  <2> QED BY <1>1, <2>3, <2>4 DEF Seen
<1>3. CASE Continue(s)
  BY <1>1, <1>3 DEF Continue
<1> QED
  BY <1>2, <1>3 DEF Settle

LEMMA TurnCompletedHeeds ==
    ASSUME TypeOK, NEW s \in ReactorType, Seen(s), NEW reason, NEW retryable,
           TurnCompleted(s, reason, retryable)
    PROVE  Heeded(s)
<1>1. CASE DiscardFollowUps(s)
  <2> DEFINE v == [s EXCEPT !.queue = <<>>]
             x == [v EXCEPT !.abortedByUser = FALSE]
  <2>0. <<>> \in Seq(Msgs)
    OBVIOUS
  <2>1. v \in ReactorType /\ v.llm = s.llm /\ v.compaction = s.compaction
    BY <2>0, SetQueue
  <2>2. /\ x \in ReactorType /\ x.llm = s.llm /\ x.compaction = s.compaction
        /\ x.abortedByUser = FALSE
    <3> HIDE DEF v
    <3> QED BY <2>1 DEF ReactorType
  <2>3. Settle(x) /\ UNCHANGED delivered
    BY <1>1 DEF DiscardFollowUps
  <2>4. x.llm \in Nat
    BY <2>2 DEF ReactorType
  <2> HIDE DEF x
  <2> QED
    BY <2>2, <2>3, <2>4, SettleHeeds DEF Heeded, Seen
<1>2. CASE ~s.abortedByUser /\ ScheduleRetry(s)
  <2>1. reactor' = [s EXCEPT !.retry = @ + 1]
    BY <1>2 DEF ScheduleRetry, Continue
  <2>2. ~reactor'.abortedByUser
    BY <1>2, <2>1 DEF ReactorType
  <2> QED BY <1>2, <2>2 DEF Heeded, Seen
<1>3. CASE ~s.abortedByUser /\ DrainFollowUp(s)
  <2> DEFINE v == [s EXCEPT !.queue = Tail(@)]
             x == [v EXCEPT !.interrupted = FALSE]
  <2>1. Tail(s.queue) \in Seq(Msgs)
    BY <1>3 DEF DrainFollowUp, ReactorType
  <2>2. v \in ReactorType /\ v.abortedByUser = s.abortedByUser
    BY <2>1, SetQueue
  <2>3. x \in ReactorType /\ x.abortedByUser = s.abortedByUser
    <3> HIDE DEF v
    <3> QED BY <2>2 DEF ReactorType
  <2>4. reactor' = UserMessage(x)
    BY <1>3 DEF DrainFollowUp, Continue
  <2> HIDE DEF x
  <2>5. ~reactor'.abortedByUser
    BY <1>3, <2>3, <2>4, UserMessageFlags
  <2> QED BY <1>3, <2>5 DEF Heeded, Seen
<1>4. CASE ~s.abortedByUser /\ GoIdle(s, reason)
  <2>1. PICK x \in ReactorType : x.abortedByUser = s.abortedByUser /\ Settle(x)
    <3>1. /\ RequestCompaction(s) \in ReactorType
          /\ RequestCompaction(s).abortedByUser = s.abortedByUser
      BY DEF RequestCompaction, ReactorType
    <3> QED BY <1>4, <3>1 DEF GoIdle
  <2>2. Seen(reactor')
    BY <1>4, <2>1, SettleHeeds DEF Seen
  <2> QED BY <1>4, <2>2 DEF Heeded
<1> QED
  BY <1>1, <1>2, <1>3, <1>4 DEF TurnCompleted

LEMMA ProceedHeeds ==
    ASSUME TypeOK, NEW s \in ReactorType, Seen(s), Proceed(s)
    PROVE  Heeded(s)
<1>1. orphans \in Nat /\ s.llm \in Nat
  BY DEF TypeOK, ReactorType
<1> QED
  BY <1>1 DEF Proceed, Continue, Heeded

LEMMA ToolsReportedHeeds ==
    ASSUME TypeOK, NEW s \in ReactorType, Seen(s), ToolsReported(s)
    PROVE  Heeded(s)
<1>1. CASE Aggregated(s)
  <2> DEFINE x == [s EXCEPT !.tools = NoTools]
  <2>1. /\ x \in ReactorType /\ x.interrupted = s.interrupted
        /\ x.abortedByUser = s.abortedByUser /\ x.llm = s.llm /\ x.compaction = s.compaction
    BY DEF ReactorType, NoTools
  <2>2. \/ TurnCompleted(x, "aborted", FALSE)
        \/ TurnCompleted(x, "loop_detected", FALSE)
        \/ ~x.interrupted /\ Proceed(RequestTurn(x))
    BY <1>1 DEF Aggregated
  <2> HIDE DEF x
  <2>3. Seen(x) /\ (Heeded(x) => Heeded(s))
    BY <2>1 DEF Seen, Heeded
  <2>4. CASE ~x.interrupted /\ Proceed(RequestTurn(x))
    <3>1. ~x.abortedByUser
      BY <2>3, <2>4 DEF Seen
    <3>2. RequestTurn(x).abortedByUser = x.abortedByUser
      BY <2>1 DEF RequestTurn, ReactorType
    <3> QED BY <2>1, <2>4, <3>1, <3>2 DEF Proceed, Continue, Heeded, Seen
  <2> QED
    BY <2>1, <2>2, <2>3, <2>4, TurnCompletedHeeds
<1>2. CASE Proceed(s)
  BY <1>2, ProceedHeeds
<1> QED
  BY <1>1, <1>2 DEF ToolsReported

LEMMA InterruptHeeds ==
    ASSUME TypeOK, NEW s \in ReactorType, Interrupt(s)
    PROVE  Heeded(s)
<1> DEFINE i == [s EXCEPT !.interrupted = TRUE,
                          !.compaction = IF @ = "none" THEN "none" ELSE "cancelled"]
           x == [i EXCEPT !.retry = 0]
           Same(y) == /\ y \in ReactorType /\ y.interrupted = TRUE
                      /\ y.abortedByUser = s.abortedByUser /\ y.llm = s.llm
                      /\ y.compaction # "none" => s.compaction # "none"
<1>1. Same(i)
  BY DEF ReactorType
<1>2. Same(x)
  <2> HIDE DEF i
  <2> QED BY <1>1 DEF ReactorType
<1>3. TurnCompleted(x, "aborted", FALSE) \/ Proceed(i)
  BY DEF Interrupt
<1> HIDE DEF i, x
<1>4. \A y : Same(y) /\ Heeded(y) => Heeded(s)
  BY DEF Heeded
<1>5. Seen(i) /\ Seen(x)
  BY <1>1, <1>2 DEF Seen
<1> QED
  BY <1>1, <1>2, <1>3, <1>4, <1>5, TurnCompletedHeeds, ProceedHeeds

\* The reactor a handler runs in: what the call or the awaited result left.
Reaches(s) ==
    /\ s \in ReactorType
    /\ reactor.abortedByUser => s.abortedByUser
    /\ s.llm <= reactor.llm
    /\ s.compaction # "none" => reactor.compaction # "none"

LEMMA HandlerHeeds ==
    ASSUME TypeOK, TypeOK', NEW s, Reaches(s), Heeded(s)
    PROVE  HeedsAbort /\ Seen(reactor')
<1>1. reactor.llm \in Nat /\ s.llm \in Nat /\ reactor'.llm \in Nat
  BY DEF TypeOK, Reaches, ReactorType
<1>2. ASSUME phase' = "running", reactor.abortedByUser
      PROVE  reactor'.llm <= reactor.llm /\ delivered' = delivered
  <2>1. s.llm <= reactor.llm /\ s.abortedByUser
    BY <1>2 DEF Reaches
  <2>2. reactor'.llm <= s.llm /\ delivered' = delivered
    BY <1>2, <2>1 DEF Heeded
  <2> QED BY <1>1, <2>1, <2>2
<1>3. ASSUME reactor.abortedByUser, orphans' > orphans
      PROVE  reactor.compaction # "none"
  BY <1>3 DEF Reaches, Heeded
<1>4. Seen(reactor')
  BY DEF Heeded
<1> QED
  BY <1>2, <1>3, <1>4 DEF HeedsAbort

LEMMA StepsHeed ==
    ASSUME TypeOK, TypeOK', Seen(reactor), Next
    PROVE  HeedsAbort /\ Seen(reactor')
<1>t. /\ reactor \in ReactorType /\ reactor.llm \in Nat /\ reactor.retry \in Nat
      /\ orphans \in Nat /\ reactor.queue \in Seq(Msgs)
  BY DEF TypeOK, ReactorType
<1>l. ASSUME reactor.llm > 0
      PROVE  /\ Reaches(LlmDone) /\ Seen(LlmDone)
             /\ LlmDone.interrupted = reactor.interrupted
             /\ LlmDone.abortedByUser = reactor.abortedByUser
  <2>1. reactor.llm - 1 \in Nat /\ reactor.llm - 1 <= reactor.llm
    BY <1>t, <1>l
  <2> QED BY <1>t, <2>1 DEF LlmDone, ReactorType, Reaches, Seen
<1>h. ASSUME NEW s, Reaches(s), Seen(s),
             \/ Proceed(s) \/ ToolsReported(s)
             \/ \E reason, retryable : TurnCompleted(s, reason, retryable)
      PROVE  HeedsAbort /\ Seen(reactor')
  <2>1. Heeded(s)
    BY <1>h, ProceedHeeds, ToolsReportedHeeds, TurnCompletedHeeds DEF Reaches
  <2> QED BY <1>h, <2>1, HandlerHeeds
<1>q. ASSUME ~(phase = "running" /\ reactor.abortedByUser), Seen(reactor')
      PROVE  HeedsAbort /\ Seen(reactor')
  BY <1>q DEF HeedsAbort
<1>1. CASE Prompt \/ Restart
  <2>1. PICK q : reactor' = NewReactor(q)
    BY <1>1 DEF Prompt, Restart
  <2>2. Seen(reactor')
    BY <2>1 DEF Seen, NewReactor
  <2>3. CASE Prompt
    BY <1>q, <2>2, <2>3 DEF Prompt
  <2>4. CASE Restart
    BY <1>t, <2>2, <2>4 DEF Restart, HeedsAbort
  <2> QED BY <1>1, <2>3, <2>4
<1>2. CASE SendPrompt
  <2>1. Seen(reactor')
    BY <1>t, <1>2, UserMessageFlags DEF SendPrompt, Seen
  <2> QED BY <1>2, <1>q, <2>1 DEF SendPrompt
<1>3. CASE Abort
  <2> DEFINE s == [reactor EXCEPT !.abortedByUser = TRUE]
  <2>0. /\ s \in ReactorType /\ s.abortedByUser = TRUE
        /\ s.llm = reactor.llm /\ s.compaction = reactor.compaction
    BY <1>t DEF ReactorType
  <2>2. Interrupt(s)
    BY <1>3 DEF Abort
  <2>1. Reaches(s)
    <3> HIDE DEF s
    <3> QED BY <1>t, <2>0 DEF Reaches
  <2> HIDE DEF s
  <2>3. Heeded(s)
    BY <2>1, <2>2, InterruptHeeds DEF Reaches
  <2> QED BY <2>1, <2>3, HandlerHeeds
<1>4. CASE Compact
  <2> DEFINE s == RequestCompaction(reactor)
  <2>1. /\ s \in ReactorType /\ s.abortedByUser = reactor.abortedByUser
        /\ s.interrupted = reactor.interrupted /\ s.llm = reactor.llm
    BY <1>t DEF RequestCompaction, ReactorType
  <2>2. Proceed(s)
    BY <1>4 DEF Compact
  <2> HIDE DEF s
  <2>3. Seen(s)
    BY <2>1 DEF Seen
  <2>4. Heeded(s)
    BY <2>1, <2>2, <2>3, ProceedHeeds
  <2> QED BY <1>t, <2>1, <2>2, <2>4 DEF Heeded, HeedsAbort, Proceed, Continue
<1>5. ASSUME NEW m \in Msgs, Input(m) PROVE HeedsAbort /\ Seen(reactor')
  <2> DEFINE s == [reactor EXCEPT !.queue = Append(@, m)]
  <2>0. Append(reactor.queue, m) \in Seq(Msgs)
    BY <1>t
  <2>a. /\ s \in ReactorType /\ s.llm = reactor.llm /\ s.compaction = reactor.compaction
        /\ s.abortedByUser = reactor.abortedByUser /\ s.interrupted = reactor.interrupted
    BY <1>t, <2>0, SetQueue
  <2>1. Reaches(s) /\ Seen(s)
    <3> HIDE DEF s
    <3> QED BY <1>t, <2>a DEF Reaches, Seen
  <2>2. CASE Steer(m)
    <3>1. Interrupt(s)
      BY <2>2 DEF Steer
    <3> HIDE DEF s
    <3>2. Heeded(s)
      BY <2>1, <3>1, InterruptHeeds DEF Reaches
    <3> QED BY <2>1, <3>2, HandlerHeeds
  <2>3. CASE SteerIdle(m)
    BY <1>t, <2>3 DEF SteerIdle, HeedsAbort
  <2>4. CASE FollowUp(m)
    <3>1. reactor' = reactor \/ reactor' = s
      BY <2>4 DEF FollowUp
    <3>2. phase' = phase /\ orphans' = orphans /\ delivered' = delivered
      BY <2>4 DEF FollowUp
    <3>3. s.llm = reactor.llm
      BY <1>t, <2>0, SetQueue
    <3> HIDE DEF s
    <3> QED BY <1>t, <2>1, <3>1, <3>2, <3>3 DEF HeedsAbort, Reaches
  <2> QED BY <1>5, <2>2, <2>3, <2>4 DEF Input
<1>6. CASE LlmAnswers
  <2>1. reactor.llm > 0 /\ \E reason, retryable : TurnCompleted(LlmDone, reason, retryable)
    BY <1>6 DEF LlmAnswers
  <2> QED BY <1>h, <1>l, <2>1
<1>7. CASE LlmCallsTools
  <2>1. reactor.llm > 0 /\ ~reactor.interrupted
    BY <1>7 DEF LlmCallsTools
  <2>2. ~reactor.abortedByUser
    BY <2>1 DEF Seen
  <2>3. LlmDone \in ReactorType /\ ~LlmDone.abortedByUser
    BY <1>l, <2>1, <2>2 DEF Reaches
  <2>4. PICK calls \in SUBSET ToolIds, sig \in Sigs : ToolRound(LlmDone, calls, sig)
    BY <1>7 DEF LlmCallsTools
  <2> DEFINE tools == [t \in ToolIds |-> IF t \in calls THEN IntentToolCall(t) ELSE "none"]
             s == LlmDone
             u == [s EXCEPT !.tools = tools]
             v == [u EXCEPT !.sig = sig]
             w == [v EXCEPT !.rounds = RoundsOf(s, sig)]
  <2>5. tools \in [ToolIds -> {"none", "approval", "running", "done"}]
    BY DEF IntentToolCall
  <2>6. RoundsOf(s, sig) \in 0..LoopLimit
    BY <2>3, ConstantsAssumption DEF ReactorType, RoundsOf
  <2>7. ToolsReported(w)
    BY <2>4 DEF ToolRound
  <2> HIDE DEF tools, s
  <2>8. u \in ReactorType /\ ~u.abortedByUser
    BY <2>3, <2>5 DEF ReactorType, s
  <2> HIDE DEF u
  <2>9. v \in ReactorType /\ ~v.abortedByUser
    BY <2>8 DEF ReactorType
  <2> HIDE DEF v
  <2>10. w \in ReactorType /\ ~w.abortedByUser
    BY <2>6, <2>9 DEF ReactorType
  <2> HIDE DEF w
  <2>11. Heeded(w)
    BY <2>7, <2>10, ToolsReportedHeeds DEF Seen
  <2> QED BY <1>q, <2>2, <2>11 DEF Heeded
<1>8. CASE LlmThrows
  <2>1. reactor.llm > 0
    BY <1>8 DEF LlmThrows
  <2>2. CASE ScheduleRetry(LlmDone)
    <3> DEFINE x == [LlmDone EXCEPT !.retry = @ + 1]
    <3>1. /\ x.llm = LlmDone.llm /\ x.interrupted = LlmDone.interrupted
          /\ x.abortedByUser = LlmDone.abortedByUser
      BY <1>l, <2>1 DEF Reaches, ReactorType
    <3>2. reactor' = x /\ orphans' = orphans /\ delivered' = delivered
      BY <2>2 DEF ScheduleRetry, Continue
    <3> HIDE DEF x
    <3> QED BY <1>t, <1>l, <2>1, <3>1, <3>2 DEF HeedsAbort, Seen, Reaches
  <2>3. CASE \E reason, retryable : TurnCompleted(LlmDone, reason, retryable)
    BY <1>h, <1>l, <2>1, <2>3
  <2> QED BY <1>8, <2>2, <2>3 DEF LlmThrows
<1>9. CASE RetryTimer
  <2> DEFINE s == [reactor EXCEPT !.retry = @ - 1]
             a == [s EXCEPT !.attempt = @ + 1]
             b == [a EXCEPT !.llm = @ + 1]
  <2>1. /\ s.llm = reactor.llm /\ s.interrupted = reactor.interrupted
        /\ s.abortedByUser = reactor.abortedByUser
        /\ a.interrupted = reactor.interrupted /\ a.abortedByUser = reactor.abortedByUser
        /\ b.abortedByUser = reactor.abortedByUser
    BY <1>t DEF ReactorType
  <2>2. /\ reactor' = IF s.interrupted THEN s ELSE RequestTurn(a)
        /\ orphans' = orphans /\ delivered' = delivered
    BY <1>9 DEF RetryTimer, Proceed, Continue
  <2>3. CASE reactor.interrupted
    BY <1>t, <2>1, <2>2, <2>3 DEF HeedsAbort, Seen
  <2>4. CASE ~reactor.interrupted
    <3>1. reactor' = b /\ ~reactor.abortedByUser
      BY <2>1, <2>2, <2>4 DEF RequestTurn, Seen
    <3> QED BY <1>q, <2>1, <3>1 DEF Seen
  <2> QED BY <2>3, <2>4
<1>10. ASSUME NEW t \in ToolIds, Tool(t) PROVE HeedsAbort /\ Seen(reactor')
  <2> DEFINE x(v) == [reactor EXCEPT !.tools[t] = v]
  <2>1. \A v \in {"running", "done"} : Reaches(x(v)) /\ Seen(x(v))
    BY <1>t DEF Reaches, Seen, ReactorType
  <2>2. Proceed(x("running")) \/ ToolsReported(x("done"))
    BY <1>10 DEF Tool, ToolEnds, Approve, Reject
  <2> HIDE DEF x
  <2> QED BY <1>h, <2>1, <2>2
<1>11. CASE CompactionEnds
  <2> DEFINE x == [reactor EXCEPT !.compaction = "none"]
  <2>1. Reaches(x) /\ Seen(x)
    BY <1>t DEF Reaches, Seen, ReactorType
  <2>2. Proceed(x)
    BY <1>11 DEF CompactionEnds
  <2> HIDE DEF x
  <2> QED BY <1>h, <2>1, <2>2
<1>12. CASE OrphanEnds
  BY <1>t, <1>12 DEF OrphanEnds, HeedsAbort
<1> QED
  BY <1>1, <1>2, <1>3, <1>4, <1>5, <1>6, <1>7, <1>8, <1>9, <1>10, <1>11, <1>12 DEF Next

\* After abort() the cycle starts no LLM call, delivers no message and starts
\* no compaction, whatever completes late.
THEOREM AbortAlwaysStopsCalls == Spec => AbortStopsCalls
<1>1. Init => Seen(reactor)
  BY DEF Init, NewReactor, Seen
<1>2. TypeOK /\ TypeOK' /\ Seen(reactor) /\ [Next]_vars => Seen(reactor)' /\ [HeedsAbort]_vars
  <2> SUFFICES ASSUME TypeOK, TypeOK', Seen(reactor), [Next]_vars
               PROVE  Seen(reactor)' /\ [HeedsAbort]_vars
    OBVIOUS
  <2>1. CASE Next
    BY <2>1, StepsHeed DEF Seen
  <2>2. CASE UNCHANGED vars
    BY <2>2 DEF vars, Seen
  <2> QED BY <2>1, <2>2
<1>3. Spec => [][HeedsAbort]_vars
  BY <1>1, <1>2, TypeCorrect, PTL DEF Spec
<1> QED
  BY <1>3, PTL DEF AbortStopsCalls, HeedsAbort
-----------------------------------------------------------------------------
(* NeverStranded, for an LLM client that reports its errors as messages and  *)
(* for inputs that come no earlier than the prompt's own message.            *)

RetryAwake(s) == s.retry > 0 => ~s.interrupted

\* A running cycle waits for something; and neither the prompt's message nor a
\* retry timer, which both give up under an aborted signal, ever meets one.
Awake ==
    /\ phase = "running" => Waits(reactor) >= 1
    /\ phase = "starting" => ~reactor.interrupted
    /\ RetryAwake(reactor)

\* A turn that completes after an interrupt schedules no retry.
LEMMA TurnCompletedAwake ==
    ASSUME TypeOK, phase = "running", NEW s, Calm(s), NEW reason \in Reasons,
           NEW retryable \in BOOLEAN, retryable => ~s.interrupted,
           TurnCompleted(s, reason, retryable)
    PROVE  RetryAwake(reactor')
<1>0. s \in ReactorType /\ s.queue \in Seq(Msgs) /\ s.retry = 0
  BY DEF Calm, ReactorType
<1>a. ASSUME NEW x, x.queue = <<>>, x.retry = 0, Settle(x)
      PROVE  phase' = "idle"
  BY <1>a DEF Settle, EndCycle
<1>1. CASE phase' = "idle"
  <2>1. Outcome
    BY TurnCompletedOutcome
  <2> QED
    BY <1>1, <2>1 DEF Outcome, Resumes, RetryAwake
<1>2. CASE CanRetry(s, retryable) /\ ScheduleRetry(s)
  <2> DEFINE x == [s EXCEPT !.retry = @ + 1]
  <2>1. x.interrupted = s.interrupted
    BY <1>0, SetCounters
  <2>2. reactor' = x
    BY <1>2 DEF ScheduleRetry, Continue
  <2>3. ~s.interrupted
    BY <1>2 DEF CanRetry
  <2> HIDE DEF x
  <2> QED
    BY <2>1, <2>2, <2>3 DEF RetryAwake
<1>3. CASE DrainFollowUp(s)
  <2> DEFINE w == [s EXCEPT !.queue = Tail(@)]
             x == [w EXCEPT !.interrupted = FALSE]
  <2>0. Tail(s.queue) \in Seq(Msgs)
    BY <1>0, <1>3 DEF DrainFollowUp
  <2>1. Calm(w)
    BY <1>0, <2>0, SetQueue DEF Calm
  <2>2. Calm(x)
    <3> HIDE DEF w
    <3> QED BY <2>1 DEF Calm, ReactorType
  <2>3. reactor' = UserMessage(x)
    BY <1>3 DEF DrainFollowUp, Continue
  <2> HIDE DEF x
  <2>4. reactor'.retry = 0
    BY <2>2, <2>3, UserMessageStarts
  <2> QED
    BY <2>4 DEF RetryAwake
<1>4. CASE DiscardFollowUps(s)
  <2> DEFINE w == [s EXCEPT !.queue = <<>>]
             x == [w EXCEPT !.abortedByUser = FALSE]
  <2>1. Calm(w) /\ w.queue = <<>>
    <3>1. <<>> \in Seq(Msgs)
      OBVIOUS
    <3> QED BY <1>0, <3>1, SetQueue DEF Calm
  <2>2. x.queue = <<>> /\ x.retry = 0
    <3> HIDE DEF w
    <3> QED BY <2>1 DEF Calm, ReactorType
  <2>3. Settle(x)
    BY <1>4 DEF DiscardFollowUps
  <2> HIDE DEF x
  <2> QED
    BY <2>2, <2>3, <1>a, <1>1
<1>5. CASE GoIdle(s, reason)
  <2> DEFINE x == RequestCompaction(s)
  <2>1. s.queue = <<>> /\ (Settle(s) \/ Settle(x))
    BY <1>5 DEF GoIdle
  <2>2. x.queue = s.queue /\ x.retry = 0
    BY <1>0 DEF RequestCompaction, ReactorType
  <2> HIDE DEF x
  <2> QED
    BY <1>0, <2>1, <2>2, <1>a, <1>1
<1> QED
  BY <1>2, <1>3, <1>4, <1>5 DEF TurnCompleted

\* Nor does a tool round that ends.
LEMMA ToolsReportedAwake ==
    ASSUME TypeOK, phase = "running", NEW s \in ReactorType, s.llm = 0, s.retry = 0,
           ToolsReported(s)
    PROVE  RetryAwake(reactor')
<1> DEFINE x == [s EXCEPT !.tools = NoTools]
<1>1. Calm(x) /\ x.retry = 0
  BY DEF Calm, ReactorType, NoTools
<1>2. \/ TurnCompleted(x, "aborted", FALSE)
      \/ TurnCompleted(x, "loop_detected", FALSE)
      \/ ~x.interrupted /\ Proceed(RequestTurn(x))
      \/ Proceed(s)
  BY DEF ToolsReported, Aggregated
<1>3. {"aborted", "loop_detected"} \subseteq Reasons
  BY DEF Reasons
<1>4. CASE Proceed(s)
  BY <1>4 DEF Proceed, Continue, RetryAwake
<1> HIDE DEF x
<1>5. CASE ~x.interrupted /\ Proceed(RequestTurn(x))
  <2> DEFINE y == [x EXCEPT !.llm = @ + 1]
  <2>1. x.llm + 1 \in Nat
    BY <1>1 DEF Calm
  <2>2. y.retry = 0
    BY <1>1, <2>1, SetCounters DEF Calm
  <2>3. reactor' = y
    BY <1>5 DEF Proceed, Continue, RequestTurn
  <2> HIDE DEF y
  <2> QED
    BY <2>2, <2>3 DEF RetryAwake
<1> QED
  BY <1>1, <1>2, <1>3, <1>4, <1>5, TurnCompletedAwake

\* A handler run by a running cycle leaves it awake.
LEMMA OutcomeAwake ==
    ASSUME phase = "running", Outcome, RetryAwake(reactor')
    PROVE  Awake'
BY DEF Outcome, Resumes, Awake, RetryAwake

\* A step to a reactor that waits for the same, under the same signal.
LEMMA AlikeAwake ==
    ASSUME Awake, NEW s, Alike(s), s.interrupted = reactor.interrupted,
           reactor' = s, phase' = phase
    PROVE  Awake'
<1>1. Waits(s) = Waits(reactor)
  BY DEF Alike, Waits, ToolsPending
<1> QED
  BY <1>1 DEF Awake, RetryAwake, Alike

\* USER_INTERRUPT, with the reactor already holding its message or its flag.
LEMMA InterruptAwake ==
    ASSUME ~SameTickInputs, Inv, Awake, Interruptible, NEW s, Alike(s), Interrupt(s)
    PROVE  Awake'
<1> DEFINE i == [s EXCEPT !.interrupted = TRUE,
                          !.compaction = IF @ = "none" THEN "none" ELSE "cancelled"]
<1>1. Alike(i)
  BY InterruptedType DEF Alike
<1>2. \/ s.retry > 0 /\ TurnCompleted([i EXCEPT !.retry = 0], "aborted", FALSE)
      \/ ~(s.retry > 0) /\ Proceed(i)
  BY DEF Interrupt
<1>3. phase = "running" /\ TypeOK
  BY DEF Interruptible, Inv
<1> HIDE DEF i
<1>4. CASE ~(s.retry > 0) /\ Proceed(i)
  <2>1. reactor' = i /\ phase' = phase
    BY <1>4 DEF Proceed, Continue
  <2>2. Waits(i) = Waits(reactor)
    BY <1>1 DEF Alike, Waits, ToolsPending
  <2>3. ~(i.retry > 0)
    BY <1>1, <1>4 DEF Alike
  <2> QED
    BY <1>3, <2>1, <2>2, <2>3 DEF Awake, RetryAwake
<1>5. CASE s.retry > 0 /\ TurnCompleted([i EXCEPT !.retry = 0], "aborted", FALSE)
  <2> DEFINE x == [i EXCEPT !.retry = 0]
  <2>1. reactor.llm = 0 /\ reactor.tools = NoTools
    BY <1>3, <1>5, RetryAlone DEF Alike
  <2>2. Calm(x)
    <3>1. i \in ReactorType /\ i.llm = 0 /\ i.tools = NoTools /\ 0 \in Nat
      BY <1>1, <2>1 DEF Alike
    <3> QED BY <3>1, SetCounters DEF Calm
  <2>3. "aborted" \in Reasons
    BY DEF Reasons
  <2>4. TurnCompleted(x, "aborted", FALSE)
    BY <1>5
  <2> HIDE DEF x
  <2> QED
    BY <1>3, <2>2, <2>3, <2>4, TurnCompletedOutcome, TurnCompletedAwake, OutcomeAwake
<1> QED
  BY <1>2, <1>4, <1>5

\* The calls of the API.
LEMMA CallsAwake ==
    ASSUME ~SameTickInputs, Inv, Awake,
           Prompt \/ SendPrompt \/ Abort \/ Compact \/ \E m \in Msgs : Input(m)
    PROVE  Awake'
<1>t. TypeOK /\ reactor \in ReactorType
  BY DEF Inv, TypeOK
<1>1. CASE Prompt
  <2>1. PICK q : reactor' = NewReactor(q)
    BY <1>1 DEF Prompt
  <2>2. reactor'.retry = 0 /\ reactor'.interrupted = FALSE
    BY <2>1 DEF NewReactor
  <2> QED
    BY <1>1, <2>2 DEF Prompt, Awake, RetryAwake
<1>2. CASE SendPrompt
  <2>1. Calm(reactor) /\ ~reactor.interrupted
    <3>1. reactor.llm \in Nat /\ reactor.retry \in Nat
      BY <1>t DEF ReactorType
    <3>2. Calm(reactor)
      BY <1>2, <1>t, <3>1 DEF SendPrompt, Inv, OneActivity, Waits, Calm
    <3> QED BY <1>2, <3>2 DEF SendPrompt, Awake
  <2>2. /\ reactor' \in ReactorType /\ reactor'.retry = 0 /\ reactor'.tools = NoTools
        /\ reactor'.llm = 1
    BY <1>2, <2>1, UserMessageStarts DEF SendPrompt
  <2>3. Waits(reactor') = 1
    BY <2>2, WaitsQuiet
  <2> QED
    BY <1>2, <2>2, <2>3 DEF SendPrompt, Awake, RetryAwake
<1>3. CASE Abort
  <2> DEFINE x == [reactor EXCEPT !.abortedByUser = TRUE]
  <2>1. Alike(x)
    BY <1>t DEF Alike, ReactorType
  <2>2. Interruptible /\ Interrupt(x)
    BY <1>3 DEF Abort
  <2> HIDE DEF x
  <2> QED
    BY <2>1, <2>2, InterruptAwake
<1>4. CASE Compact
  <2>1. /\ Alike(RequestCompaction(reactor))
        /\ RequestCompaction(reactor).interrupted = reactor.interrupted
    BY <1>t DEF Alike, RequestCompaction, ReactorType
  <2> QED
    BY <1>4, <2>1, AlikeAwake DEF Compact, Proceed, Continue
<1>5. ASSUME NEW m \in Msgs, Input(m)
      PROVE  Awake'
  <2> DEFINE x == [reactor EXCEPT !.queue = Append(@, m)]
  <2>1. Alike(x) /\ x.interrupted = reactor.interrupted
    <3>1. Append(reactor.queue, m) \in Seq(Msgs)
      BY <1>t DEF ReactorType
    <3> QED BY <1>t, <3>1, SetQueue DEF Alike
  <2>2. CASE Steer(m)
    <3>1. Interruptible /\ Interrupt(x)
      BY <2>2 DEF Steer
    <3> HIDE DEF x
    <3> QED BY <2>1, <3>1, InterruptAwake
  <2>3. CASE SteerIdle(m)
    BY <1>t, <2>3, AlikeAwake DEF SteerIdle, Alike
  <2>4. CASE FollowUp(m)
    <3>1. (reactor' = reactor \/ reactor' = x) /\ phase' = phase
      BY <2>4 DEF FollowUp
    <3> HIDE DEF x
    <3> QED BY <1>t, <2>1, <3>1, AlikeAwake DEF Alike
  <2> QED
    BY <1>5, <2>2, <2>3, <2>4 DEF Input
<1> QED
  BY <1>1, <1>2, <1>3, <1>4, <1>5

\* What the awaits of a running cycle are resolved by.
LEMMA AwaitsAwake ==
    ASSUME ~LlmMayThrow, Inv, Awake,
           \/ LlmAnswers \/ LlmCallsTools \/ LlmThrows \/ RetryTimer
           \/ \E t \in ToolIds : Tool(t)
           \/ CompactionEnds \/ OrphanEnds \/ Restart
    PROVE  Awake'
<1>t. TypeOK /\ reactor \in ReactorType
  BY DEF Inv, TypeOK
<1>1. CASE LlmAnswers
  <2>1. Calm(LlmDone) /\ phase = "running" /\ LlmDone.interrupted = reactor.interrupted
    BY <1>1, LlmAlone DEF LlmAnswers
  <2>2. PICK reason \in Reasons, retryable \in BOOLEAN :
           TurnCompleted(LlmDone, reason, retryable) /\ (retryable => ~reactor.interrupted)
    BY <1>1 DEF LlmAnswers, Reasons
  <2>3. Outcome /\ RetryAwake(reactor')
    BY <1>t, <2>1, <2>2, TurnCompletedOutcome, TurnCompletedAwake
  <2> QED
    BY <2>1, <2>3, OutcomeAwake
<1>2. CASE LlmCallsTools
  <2>1. Calm(LlmDone) /\ phase = "running"
    BY <1>2, LlmAlone DEF LlmCallsTools
  <2>2. PICK calls \in (SUBSET ToolIds) \ {{}}, sig \in Sigs : ToolRound(LlmDone, calls, sig)
    BY <1>2 DEF LlmCallsTools
  <2>3. PICK w \in ReactorType : w.llm = 0 /\ w.retry = 0 /\ ToolsReported(w)
    BY <2>1, <2>2, ToolRoundStarts
  <2>4. Outcome /\ RetryAwake(reactor')
    BY <1>t, <2>1, <2>3, ToolsReportedOutcome, ToolsReportedAwake
  <2> QED
    BY <2>1, <2>4, OutcomeAwake
<1>3. CASE LlmThrows
  BY <1>3 DEF LlmThrows
<1>4. CASE RetryTimer
  <2>1. /\ phase = "running" /\ reactor.llm = 0 /\ reactor.retry = 1
        /\ reactor.tools = NoTools /\ ~reactor.interrupted
    BY <1>4, RetryAlone DEF RetryTimer, Awake, RetryAwake
  <2>2. reactor.attempt + 1 \in 0..MaxAttempts
    BY <1>t, <1>4, RetryAlone, ConstantsAssumption DEF RetryTimer, ReactorType
  <2> DEFINE s == [reactor EXCEPT !.retry = @ - 1]
             u == [s EXCEPT !.attempt = @ + 1]
             v == [u EXCEPT !.llm = @ + 1]
  <2>3. Calm(s) /\ s.attempt = reactor.attempt /\ s.interrupted = reactor.interrupted
    <3>1. reactor.retry - 1 \in Nat /\ reactor.retry - 1 = 0
      BY <2>1
    <3> QED BY <1>t, <2>1, <3>1, SetCounters DEF Calm
  <2>4. Calm(u) /\ u.interrupted = s.interrupted
    <3>1. s.attempt + 1 \in 0..MaxAttempts
      BY <2>2, <2>3
    <3> HIDE DEF s
    <3> QED BY <2>3, <3>1 DEF Calm, ReactorType
  <2>5. v \in ReactorType /\ v.llm = 1 /\ v.retry = 0 /\ v.tools = NoTools
    <3>1. u.llm + 1 \in Nat /\ u.llm + 1 = 1
      BY <2>4 DEF Calm
    <3> HIDE DEF u
    <3> QED BY <2>4, <3>1, SetCounters DEF Calm
  <2>6. Proceed(v)
    BY <1>4, <2>1, <2>3, <2>4 DEF RetryTimer, RequestTurn
  <2> HIDE DEF v
  <2>7. Waits(v) = 1
    BY <2>5, WaitsQuiet
  <2> QED
    BY <2>1, <2>5, <2>6, <2>7 DEF Proceed, Continue, Awake, RetryAwake
<1>5. ASSUME NEW t \in ToolIds, ToolEnds(t) \/ Reject(t)
      PROVE  Awake'
  <2>1. /\ phase = "running" /\ reactor.tools[t] \in {"approval", "running"}
        /\ ToolsReported([reactor EXCEPT !.tools[t] = "done"])
    BY <1>5 DEF ToolEnds, Reject
  <2>2. Outcome
    BY <2>1, ToolReportOutcome
  <2>3. RetryAwake(reactor')
    <3> DEFINE x == [reactor EXCEPT !.tools[t] = "done"]
    <3>1. reactor \in ReactorType /\ reactor.llm = 0 /\ reactor.retry = 0
      BY <2>1, ToolsAlone
    <3>2. x \in ReactorType /\ x.llm = 0 /\ x.retry = 0
      BY <3>1 DEF ReactorType
    <3>3. ToolsReported(x)
      BY <2>1
    <3> HIDE DEF x
    <3> QED
      BY <1>t, <2>1, <3>2, <3>3, ToolsReportedAwake
  <2> QED
    BY <2>1, <2>2, <2>3, OutcomeAwake
<1>6. ASSUME NEW t \in ToolIds, Approve(t)
      PROVE  Awake'
  <2>1. /\ phase = "running" /\ reactor.tools[t] = "approval"
        /\ Proceed([reactor EXCEPT !.tools[t] = "running"])
    BY <1>6 DEF Approve
  <2> DEFINE x == [reactor EXCEPT !.tools[t] = "running"]
  <2>2. reactor.llm = 0 /\ reactor.retry = 0
    BY <2>1, ToolsAlone
  <2>3. x.llm = 0 /\ x.retry = 0 /\ x.tools[t] = "running"
    BY <1>t, <2>2 DEF ReactorType
  <2>4. Proceed(x)
    BY <2>1
  <2> HIDE DEF x
  <2>5. Waits(x) = 1
    BY <2>3 DEF ToolsPending, Waits
  <2> QED
    BY <2>1, <2>3, <2>4, <2>5 DEF Proceed, Continue, Awake, RetryAwake
<1>7. CASE CompactionEnds
  <2> DEFINE x == [reactor EXCEPT !.compaction = "none"]
  <2>1. Alike(x) /\ x.interrupted = reactor.interrupted
    BY <1>t DEF Alike, ReactorType
  <2>2. reactor' = x /\ phase' = phase
    BY <1>7 DEF CompactionEnds, Proceed, Continue
  <2> HIDE DEF x
  <2> QED
    BY <2>1, <2>2, AlikeAwake
<1>8. CASE OrphanEnds
  BY <1>t, <1>8, AlikeAwake DEF OrphanEnds, Alike
<1>9. CASE Restart
  <2>1. reactor'.retry = 0
    BY <1>9 DEF Restart, NewReactor
  <2> QED
    BY <1>9, <2>1 DEF Restart, Awake, RetryAwake
<1> QED
  BY <1>1, <1>2, <1>3, <1>4, <1>5, <1>6, <1>7, <1>8, <1>9 DEF Tool

\* A running cycle always waits for something that will resume it, so prompt()
\* is never left pending: with an LLM client that does not throw and no input
\* in the prompt's own tick, the two cases in which the code does strand it.
THEOREM NeverStrandedWhenOrderly ==
    ~LlmMayThrow /\ ~SameTickInputs => (Spec => []NeverStranded)
<1> SUFFICES ASSUME ~LlmMayThrow, ~SameTickInputs PROVE Spec => []NeverStranded
  OBVIOUS
<1>1. Init => Awake
  BY DEF Init, NewReactor, Awake, RetryAwake
<1>2. Inv /\ Awake /\ [Next]_vars => Awake'
  <2> SUFFICES ASSUME Inv, Awake, [Next]_vars PROVE Awake'
    OBVIOUS
  <2>1. CASE Next
    BY <2>1, CallsAwake, AwaitsAwake DEF Next
  <2>2. CASE UNCHANGED vars
    BY <2>2 DEF vars, mail, Awake, RetryAwake, Waits, ToolsPending
  <2> QED
    BY <2>1, <2>2
<1>3. Awake => NeverStranded
  BY DEF Awake, NeverStranded
<1> QED
  BY <1>1, <1>2, <1>3, Invariance, PTL DEF Spec

-----------------------------------------------------------------------------
(***************************************************************************)
(* The messages of the user: none logged in this process run disappears,    *)
(* and the prompt cycle implements Mailbox.                                 *)
(*                                                                         *)
(* Between cycles the refinement maps the waiting messages to the sequence  *)
(* the next reactor would replay, which is chosen by its order.  The        *)
(* inductive invariant therefore says that there is such a sequence and     *)
(* that it is the only one: it is empty when a cycle ends, since what is    *)
(* not queued was delivered or dropped, and grows at its end only.          *)
(***************************************************************************)

\* a was logged before b in box.
Precedes(box, a, b) == \E j \in DOMAIN box : \E i \in 1..(j - 1) : box[i] = a /\ box[j] = b

\* q lists the messages S in the order of the log box.
Orders(box, S, q) ==
    /\ q \in Seq(Elems(box)) /\ Len(q) <= Len(box)
    /\ Elems(q) = S
    /\ \A j \in DOMAIN q : \A i \in 1..(j - 1) : Precedes(box, q[i], q[j])

\* And no other sequence does.
OnlyOrder(box, S, q) == Orders(box, S, q) /\ \A r : Orders(box, S, r) => r = q

\* Whatever the reactor knows of a message comes from the log.
Recorded ==
    Elems(delivered) \cup dropped \cup steered \cup fresh \cup Elems(reactor.queue) \subseteq Elems(inbox)

MailInv ==
    /\ Recorded
    /\ NothingLost
    /\ phase = "idle" => /\ reactor.queue = <<>>
                         /\ \E q : OnlyOrder(inbox, Replayable, q)

-----------------------------------------------------------------------------
(* Sequences and their order.                                              *)

LEMMA ElemsAppend ==
    ASSUME NEW S, NEW s \in Seq(S), NEW m \in S
    PROVE  Elems(Append(s, m)) = Elems(s) \cup {m}
<1> DEFINE t == Append(s, m)
<1>1. /\ DOMAIN s = 1..Len(s) /\ Len(s) \in Nat
      /\ DOMAIN t = 1..(Len(s) + 1)
      /\ t[Len(s) + 1] = m
      /\ \A i \in 1..Len(s) : t[i] = s[i]
  OBVIOUS
<1> HIDE DEF t
<1>2. \A i \in 1..(Len(s) + 1) : i \in 1..Len(s) \/ i = Len(s) + 1
  BY <1>1
<1>3. Len(s) + 1 \in 1..(Len(s) + 1) /\ 1..Len(s) \subseteq 1..(Len(s) + 1)
  BY <1>1
<1>4. Elems(t) = Elems(s) \cup {m}
  BY <1>1, <1>2, <1>3 DEF Elems
<1> QED
  BY <1>4 DEF t

LEMMA ElemsSplit ==
    ASSUME NEW S, NEW s \in Seq(S), s # <<>>
    PROVE  /\ Tail(s) \in Seq(S) /\ Head(s) \in S
           /\ Elems(s) = {Head(s)} \cup Elems(Tail(s))
<1> DEFINE t == Tail(s)
<1>1. /\ t \in Seq(S) /\ Head(s) = s[1] /\ s[1] \in S
      /\ Len(s) \in Nat \ {0}
      /\ DOMAIN s = 1..Len(s) /\ DOMAIN t = 1..(Len(s) - 1)
      /\ \A i \in 1..(Len(s) - 1) : t[i] = s[i + 1]
  OBVIOUS
<1> HIDE DEF t
<1>2. ASSUME NEW x \in Elems(s) PROVE x = s[1] \/ x \in Elems(t)
  <2>1. PICK i \in 1..Len(s) : x = s[i]
    BY <1>1 DEF Elems
  <2>2. i = 1 \/ (i - 1 \in 1..(Len(s) - 1) /\ (i - 1) + 1 = i)
    BY <1>1
  <2> QED BY <1>1, <2>1, <2>2 DEF Elems
<1>3. ASSUME NEW x \in Elems(t) PROVE x \in Elems(s)
  <2>1. PICK i \in 1..(Len(s) - 1) : x = s[i + 1]
    BY <1>1 DEF Elems
  <2>2. i + 1 \in 1..Len(s)
    BY <1>1
  <2> QED BY <1>1, <2>1, <2>2 DEF Elems
<1>4. s[1] \in Elems(s)
  BY <1>1 DEF Elems
<1> QED
  BY <1>1, <1>2, <1>3, <1>4 DEF t

LEMMA ElemsEmpty == Elems(<<>>) = {}
BY DEF Elems

\* The replay of nothing is empty.
LEMMA EmptyOrder ==
    ASSUME NEW box \in Seq(Msgs)
    PROVE  OnlyOrder(box, {}, <<>>)
<1>1. Orders(box, {}, <<>>)
  BY ElemsEmpty DEF Orders
<1>2. ASSUME NEW r, Orders(box, {}, r) PROVE r = <<>>
  <2>1. r \in Seq(Elems(box)) /\ Elems(r) = {}
    BY <1>2 DEF Orders
  <2>2. CASE r # <<>>
    BY <2>1, <2>2, ElemsSplit
  <2> QED BY <2>2
<1> QED
  BY <1>1, <1>2 DEF OnlyOrder

LEMMA ElemsType ==
    ASSUME NEW S, NEW s \in Seq(S)
    PROVE  Elems(s) \subseteq S /\ s \in Seq(Elems(s))
<1>1. /\ DOMAIN s = 1..Len(s) /\ Len(s) \in Nat
      /\ \A i \in 1..Len(s) : s[i] \in S
  OBVIOUS
<1>2. \A i \in 1..Len(s) : s[i] \in Elems(s)
  BY <1>1 DEF Elems
<1>3. s \in [1..Len(s) -> Elems(s)]
  BY <1>1, <1>2
<1>4. s \in Seq(Elems(s))
  <2> HIDE DEF Elems
  <2> DEFINE T == Elems(s)
  <2> HIDE DEF T
  <2>1. s \in [1..Len(s) -> T]
    BY <1>3 DEF T
  <2>2. s \in Seq(T)
    BY <1>1, <2>1
  <2> QED BY <2>2 DEF T
<1> QED
  BY <1>1, <1>4 DEF Elems

\* A message logged last comes last in the replay, and nothing else changes.
LEMMA OrderGrows ==
    ASSUME NEW box \in Seq(Msgs), NEW m \in Msgs, m \notin Elems(box),
           NEW S \in SUBSET Elems(box), NEW q, OnlyOrder(box, S, q)
    PROVE  OnlyOrder(Append(box, m), S \cup {m}, Append(q, m))
<1> DEFINE bx == Append(box, m)
           n == Len(box)
<1>1. /\ bx \in Seq(Msgs) /\ n \in Nat /\ Len(bx) = n + 1
      /\ DOMAIN box = 1..n /\ DOMAIN bx = 1..(n + 1)
      /\ bx[n + 1] = m
      /\ \A i \in 1..n : bx[i] = box[i]
  OBVIOUS
<1>2. Elems(bx) = Elems(box) \cup {m}
  BY ElemsAppend
<1> HIDE DEF bx, n
<1>3. ASSUME NEW i \in 1..n PROVE box[i] \in Elems(box)
  BY <1>1 DEF Elems
<1>4. ASSUME NEW a \in Elems(box), NEW b \in Elems(box)
      PROVE  Precedes(bx, a, b) <=> Precedes(box, a, b)
  <2>1. ASSUME Precedes(box, a, b) PROVE Precedes(bx, a, b)
    <3>1. PICK j \in 1..n : \E i \in 1..(j - 1) : box[i] = a /\ box[j] = b
      BY <1>1, <2>1 DEF Precedes
    <3>2. PICK i \in 1..(j - 1) : box[i] = a /\ box[j] = b
      BY <3>1
    <3>3. j \in 1..(n + 1) /\ i \in 1..n
      BY <1>1, <3>1, <3>2
    <3>4. bx[i] = a /\ bx[j] = b
      BY <1>1, <3>2, <3>3
    <3> QED BY <1>1, <3>2, <3>3, <3>4 DEF Precedes
  <2>2. ASSUME Precedes(bx, a, b) PROVE Precedes(box, a, b)
    <3>1. PICK j \in 1..(n + 1) : \E i \in 1..(j - 1) : bx[i] = a /\ bx[j] = b
      BY <1>1, <2>2 DEF Precedes
    <3>2. PICK i \in 1..(j - 1) : bx[i] = a /\ bx[j] = b
      BY <3>1
    <3>3. j # n + 1
      BY <1>1, <3>2
    <3>4. j \in 1..n /\ i \in 1..n
      BY <1>1, <3>1, <3>2, <3>3
    <3> QED BY <1>1, <3>2, <3>4 DEF Precedes
  <2> QED BY <2>1, <2>2
<1>5. ASSUME NEW a \in Elems(box) PROVE Precedes(bx, a, m)
  <2>1. PICK i \in 1..n : box[i] = a
    BY <1>1 DEF Elems
  <2>2. n + 1 \in 1..(n + 1) /\ i \in 1..((n + 1) - 1)
    BY <1>1
  <2> QED BY <1>1, <2>1, <2>2 DEF Precedes
<1>6. ASSUME NEW b \in Elems(bx) PROVE ~Precedes(bx, m, b)
  <2>1. SUFFICES ASSUME Precedes(bx, m, b) PROVE FALSE
    OBVIOUS
  <2>2. PICK j \in 1..(n + 1) : \E i \in 1..(j - 1) : bx[i] = m /\ bx[j] = b
    BY <1>1, <2>1 DEF Precedes
  <2>3. PICK i \in 1..(j - 1) : bx[i] = m
    BY <2>2
  <2>4. i \in 1..n
    BY <1>1, <2>2, <2>3
  <2> QED BY <1>1, <1>3, <2>3, <2>4
<1>q. /\ q \in Seq(Elems(box)) /\ Len(q) <= n /\ Elems(q) = S
      /\ \A j \in DOMAIN q : \A i \in 1..(j - 1) : Precedes(box, q[i], q[j])
  BY DEF OnlyOrder, Orders, n
<1>7. Orders(bx, S \cup {m}, Append(q, m))
  <2> DEFINE qm == Append(q, m)
             k == Len(q)
  <2>1. q \in Seq(Elems(bx)) /\ m \in Elems(bx)
    <3>1. Elems(box) \subseteq Elems(bx)
      BY <1>2
    <3> QED BY <1>2, <1>q, <3>1
  <2>2. /\ qm \in Seq(Elems(bx)) /\ k \in Nat /\ Len(qm) = k + 1 /\ qm[k + 1] = m
        /\ DOMAIN qm = 1..(k + 1) /\ DOMAIN q = 1..k
        /\ \A i \in 1..k : qm[i] = q[i] /\ q[i] \in Elems(box)
    BY <1>q, <2>1
  <2>3. Elems(qm) = S \cup {m}
    BY <1>q, <2>1, ElemsAppend
  <2> HIDE DEF qm, k
  <2>4. ASSUME NEW j \in 1..(k + 1), NEW i \in 1..(j - 1)
        PROVE  Precedes(bx, qm[i], qm[j])
    <3>1. i \in 1..k
      BY <2>2
    <3>2. CASE j = k + 1
      BY <1>5, <2>2, <3>1, <3>2
    <3>3. CASE j # k + 1
      <4>1. j \in 1..k
        BY <2>2, <3>3
      <4>2. Precedes(box, q[i], q[j])
        BY <1>q, <2>2, <4>1
      <4> QED BY <1>4, <2>2, <3>1, <4>1, <4>2
    <3> QED BY <3>2, <3>3
  <2>5. Len(qm) <= Len(bx)
    BY <1>1, <1>q, <2>2 DEF k
  <2> QED
    BY <2>2, <2>3, <2>4, <2>5 DEF Orders, qm
<1>8. ASSUME NEW r, Orders(bx, S \cup {m}, r) PROVE r = Append(q, m)
  <2> DEFINE k == Len(r)
  <2>1. /\ r \in Seq(Elems(bx)) /\ k <= n + 1 /\ Elems(r) = S \cup {m}
        /\ \A j \in DOMAIN r : \A i \in 1..(j - 1) : Precedes(bx, r[i], r[j])
    BY <1>1, <1>8 DEF Orders
  <2>2. k \in Nat /\ DOMAIN r = 1..k /\ \A i \in 1..k : r[i] \in Elems(bx)
    BY <2>1
  <2> HIDE DEF k
  <2>3. PICK p \in 1..k : r[p] = m
    BY <2>1, <2>2 DEF Elems
  <2>4. p = k
    <3>1. CASE p < k
      <4>1. k \in 1..k /\ p \in 1..(k - 1)
        BY <2>2, <3>1
      <4>2. Precedes(bx, r[p], r[k])
        BY <2>1, <2>2, <4>1
      <4> QED BY <1>6, <2>2, <2>3, <4>1, <4>2
    <3> QED BY <2>2, <3>1
  <2>5. ASSUME NEW i \in 1..(k - 1) PROVE r[i] # m
    <3>1. k \in 1..k /\ i \in 1..k
      BY <2>2
    <3>2. Precedes(bx, r[i], r[k])
      BY <2>1, <2>2, <3>1
    <3> QED BY <1>6, <2>2, <3>1, <3>2
  <2> DEFINE f == [i \in 1..(k - 1) |-> r[i]]
  <2>6. k - 1 \in Nat /\ \A i \in 1..(k - 1) : i \in 1..k
    BY <2>2, <2>3
  <2>7. \A i \in 1..(k - 1) : r[i] \in Elems(box)
    BY <1>2, <2>2, <2>5, <2>6
  <2>8. f \in Seq(Elems(box)) /\ Len(f) = k - 1 /\ DOMAIN f = 1..(k - 1)
        /\ \A i \in 1..(k - 1) : f[i] = r[i]
    BY <2>6, <2>7
  <2>9. r = Append(f, m)
    <3> DEFINE fm == Append(f, m)
    <3>1. fm \in Seq(Elems(bx))
      <4>1. Elems(box) \subseteq Elems(bx) /\ m \in Elems(bx)
        BY <1>2
      <4>2. f \in Seq(Elems(bx))
        BY <2>8, <4>1
      <4> HIDE DEF f
      <4> QED BY <4>1, <4>2
    <3>2. Len(fm) = k /\ fm[k] = m /\ \A i \in 1..(k - 1) : fm[i] = f[i]
      <4> HIDE DEF f
      <4>1. Len(f) + 1 = k /\ Len(fm) = Len(f) + 1 /\ fm[Len(f) + 1] = m
        BY <2>2, <2>6, <2>8
      <4>2. \A i \in 1..Len(f) : fm[i] = f[i]
        BY <2>8
      <4> HIDE DEF fm
      <4> QED BY <2>8, <4>1, <4>2
    <3> HIDE DEF fm, f
    <3>3. \A i \in 1..k : fm[i] = r[i]
      <4>1. \A i \in 1..k : i = k \/ i \in 1..(k - 1)
        BY <2>2
      <4> QED BY <2>3, <2>4, <2>8, <3>2, <4>1
    <3>4. Len(r) = Len(fm) /\ \A i \in 1..Len(r) : r[i] = fm[i]
      BY <3>2, <3>3 DEF k
    <3> HIDE DEF k
    <3>5. r = fm
      BY <2>1, <3>1, <3>4
    <3> QED BY <3>5 DEF fm
  <2> HIDE DEF f
  <2>10. Elems(f) = S
    <3>1. Elems(r) = Elems(f) \cup {m}
      <4>1. f \in Seq(Elems(bx)) /\ m \in Elems(bx)
        <5>1. Elems(box) \subseteq Elems(bx) /\ m \in Elems(bx)
          BY <1>2
        <5> QED BY <2>8, <5>1
      <4> QED BY <2>9, <4>1, ElemsAppend
    <3>2. m \notin Elems(f)
      BY <2>5, <2>8 DEF Elems
    <3> QED BY <2>1, <3>1, <3>2
  <2>11. ASSUME NEW j \in 1..(k - 1), NEW i \in 1..(j - 1)
         PROVE  Precedes(box, f[i], f[j])
    <3>1. i \in 1..(k - 1) /\ j \in 1..k
      BY <2>6
    <3>2. Precedes(bx, r[i], r[j])
      BY <2>1, <2>2, <3>1
    <3> QED BY <1>4, <2>7, <2>8, <3>1, <3>2
  <2>12. Len(f) <= n
    BY <1>1, <2>1, <2>2, <2>8
  <2>13. Orders(box, S, f)
    BY <2>8, <2>10, <2>11, <2>12 DEF Orders, n
  <2>14. f = q
    BY <2>13 DEF OnlyOrder
  <2> QED BY <2>9, <2>14
<1> QED
  BY <1>7, <1>8 DEF OnlyOrder, bx
-----------------------------------------------------------------------------
(* What waits between cycles.                                              *)

LEMMA Candidates ==
    ASSUME NEW box \in Seq(Msgs), NEW r
    PROVE  r \in UNION {[1..n -> Elems(box)] : n \in 0..Len(box)}
               <=> r \in Seq(Elems(box)) /\ Len(r) <= Len(box)
<1> DEFINE E == Elems(box)
<1> HIDE DEF E
<1>1. Len(box) \in Nat
  OBVIOUS
<1>2. ASSUME NEW n \in 0..Len(box), r \in [1..n -> E]
      PROVE  r \in Seq(E) /\ Len(r) <= Len(box)
  BY <1>1, <1>2
<1>3. ASSUME r \in Seq(E), Len(r) <= Len(box)
      PROVE  \E n \in 0..Len(box) : r \in [1..n -> E]
  <2>1. Len(r) \in 0..Len(box) /\ r \in [1..Len(r) -> E]
    BY <1>1, <1>3
  <2> QED BY <2>1
<1> QED
  BY <1>2, <1>3 DEF E

\* The sequence the next reactor would replay, when there is just one.
LEMMA WaitingIs ==
    ASSUME inbox \in Seq(Msgs), NEW q, OnlyOrder(inbox, Replayable, q), phase = "idle"
    PROVE  Waiting = q
<1> DEFINE C == UNION {[1..n -> Elems(inbox)] : n \in 0..Len(inbox)}
<1>1. \A r : r \in C /\ IsReplay(r) <=> Orders(inbox, Replayable, r)
  <2> TAKE r
  <2>1. r \in C <=> r \in Seq(Elems(inbox)) /\ Len(r) <= Len(inbox)
    BY Candidates
  <2> HIDE DEF C
  <2> QED BY <2>1 DEF IsReplay, Orders, Before, Precedes
<1>2. q \in C /\ IsReplay(q)
  BY <1>1 DEF OnlyOrder
<1>3. \A r \in C : IsReplay(r) => r = q
  BY <1>1 DEF OnlyOrder
<1>4. Waiting = CHOOSE r \in C : IsReplay(r)
  BY DEF Waiting
<1> HIDE DEF C
<1> QED
  BY <1>2, <1>3, <1>4

LEMMA WaitingIsNext ==
    ASSUME inbox' \in Seq(Msgs), NEW q, OnlyOrder(inbox', Replayable', q), phase' = "idle"
    PROVE  Waiting' = q
<1> DEFINE C == UNION {[1..n -> Elems(inbox')] : n \in 0..Len(inbox')}
           R(r) == /\ Elems(r) = Replayable'
                   /\ \A j \in DOMAIN r : \A i \in 1..(j - 1) : Precedes(inbox', r[i], r[j])
<1>1. \A r : r \in C /\ R(r) <=> Orders(inbox', Replayable', r)
  <2> TAKE r
  <2>1. r \in C <=> r \in Seq(Elems(inbox')) /\ Len(r) <= Len(inbox')
    BY Candidates
  <2> HIDE DEF C
  <2> QED BY <2>1 DEF Orders
<1>2. q \in C /\ R(q)
  BY <1>1 DEF OnlyOrder
<1>3. \A r \in C : R(r) => r = q
  BY <1>1 DEF OnlyOrder
<1>4. Waiting' = CHOOSE r \in C : R(r)
  BY DEF Waiting, IsReplay, Before, Precedes
<1> HIDE DEF C, R
<1> QED
  BY <1>2, <1>3, <1>4

\* During a cycle it is the queue.
LEMMA WaitingInCycle == phase # "idle" => Waiting = reactor.queue
BY DEF Waiting

-----------------------------------------------------------------------------
(* What a handler does with the messages that are queued when it runs.     *)

\* It leaves them, delivers the first, or discards them all; a cycle that ends
\* leaves none behind.
Handled(w) ==
    /\ phase' \in {phase, "idle"}
    /\ phase' = "idle" => reactor'.queue = <<>>
    /\ \/ reactor'.queue = w /\ UNCHANGED <<delivered, dropped>>
       \/ /\ w # <<>>
          /\ delivered' = Append(delivered, Head(w)) /\ reactor'.queue = Tail(w)
          /\ UNCHANGED dropped
       \/ /\ dropped' = dropped \cup Elems(w) /\ reactor'.queue = <<>>
          /\ UNCHANGED delivered

LEMMA SettleQueue ==
    ASSUME phase # "idle", NEW s, Settle(s)
    PROVE  /\ phase' \in {phase, "idle"}
           /\ phase' = "idle" => s.queue = <<>>
           /\ reactor'.queue = s.queue
<1>1. CASE s.queue = <<>> /\ EndCycle(s)
  BY <1>1 DEF EndCycle, NewReactor
<1>2. CASE Continue(s)
  BY <1>2 DEF Continue
<1> QED
  BY <1>1, <1>2 DEF Settle

LEMMA UserMessageQueue ==
    ASSUME NEW s \in ReactorType
    PROVE  UserMessage(s).queue = s.queue
<1> DEFINE v == [s EXCEPT !.attempt = 0]
           w == [v EXCEPT !.sig = NoSig]
           x == [w EXCEPT !.rounds = 0]
<1>1. v \in ReactorType /\ v.queue = s.queue /\ v.interrupted = s.interrupted
  BY ConstantsAssumption DEF ReactorType
<1>2. w \in ReactorType /\ w.queue = s.queue /\ w.interrupted = s.interrupted
  <2> HIDE DEF v
  <2> QED BY <1>1 DEF ReactorType
<1>3. x \in ReactorType /\ x.queue = s.queue /\ x.interrupted = s.interrupted
  <2>1. 0 \in 0..LoopLimit
    BY ConstantsAssumption
  <2> HIDE DEF w
  <2> QED BY <1>2, <2>1 DEF ReactorType
<1>4. CASE s.interrupted
  BY <1>1, <1>4 DEF UserMessage
<1>5. CASE ~s.interrupted
  <2>1. UserMessage(s) = [x EXCEPT !.llm = @ + 1]
    BY <1>3, <1>5 DEF UserMessage, RequestTurn
  <2> HIDE DEF x
  <2> QED BY <1>3, <2>1 DEF ReactorType
<1> QED
  BY <1>4, <1>5

LEMMA TurnCompletedMail ==
    ASSUME phase # "idle", NEW s \in ReactorType, NEW reason, NEW retryable,
           TurnCompleted(s, reason, retryable)
    PROVE  Handled(s.queue)
<1>q. s.queue \in Seq(Msgs)
  BY DEF ReactorType
<1>1. CASE DiscardFollowUps(s)
  <2> DEFINE v == [s EXCEPT !.queue = <<>>]
             x == [v EXCEPT !.abortedByUser = FALSE]
  <2>0. <<>> \in Seq(Msgs)
    OBVIOUS
  <2>1. v \in ReactorType /\ v.queue = <<>>
    BY <2>0, SetQueue
  <2>2. x.queue = <<>>
    <3> HIDE DEF v
    <3> QED BY <2>1 DEF ReactorType
  <2>3. Settle(x) /\ dropped' = dropped \cup Elems(s.queue) /\ UNCHANGED delivered
    BY <1>1 DEF DiscardFollowUps
  <2> HIDE DEF x
  <2> QED
    BY <2>2, <2>3, SettleQueue DEF Handled
<1>2. CASE ScheduleRetry(s)
  BY <1>2, SetCounters DEF ScheduleRetry, Continue, Handled, ReactorType
<1>3. CASE DrainFollowUp(s)
  <2> DEFINE v == [s EXCEPT !.queue = Tail(@)]
             x == [v EXCEPT !.interrupted = FALSE]
  <2>1. Tail(s.queue) \in Seq(Msgs)
    BY <1>q, <1>3 DEF DrainFollowUp
  <2>2. v \in ReactorType /\ v.queue = Tail(s.queue)
    BY <2>1, SetQueue
  <2>3. x \in ReactorType /\ x.queue = Tail(s.queue)
    <3> HIDE DEF v
    <3> QED BY <2>2 DEF ReactorType
  <2>4. /\ s.queue # <<>> /\ delivered' = Append(delivered, Head(s.queue))
        /\ UNCHANGED dropped /\ reactor' = UserMessage(x) /\ phase' = phase
    BY <1>3 DEF DrainFollowUp, Continue
  <2> HIDE DEF x
  <2>5. reactor'.queue = Tail(s.queue)
    BY <2>3, <2>4, UserMessageQueue
  <2> QED
    BY <2>4, <2>5 DEF Handled
<1>4. CASE GoIdle(s, reason)
  <2>1. PICK x \in ReactorType : x.queue = <<>> /\ Settle(x)
    <3>1. RequestCompaction(s) \in ReactorType /\ RequestCompaction(s).queue = s.queue
      BY DEF RequestCompaction, ReactorType
    <3> QED BY <1>4, <3>1 DEF GoIdle
  <2>2. s.queue = <<>> /\ UNCHANGED <<delivered, dropped>>
    BY <1>4 DEF GoIdle
  <2> QED
    BY <2>1, <2>2, SettleQueue DEF Handled
<1> QED
  BY <1>1, <1>2, <1>3, <1>4 DEF TurnCompleted

LEMMA ProceedMail ==
    ASSUME phase # "idle", NEW s, Proceed(s)
    PROVE  Handled(s.queue)
BY DEF Proceed, Continue, Handled

LEMMA ToolsReportedMail ==
    ASSUME phase # "idle", NEW s \in ReactorType, ToolsReported(s)
    PROVE  Handled(s.queue)
<1>1. CASE Aggregated(s)
  <2> DEFINE x == [s EXCEPT !.tools = NoTools]
  <2>1. x \in ReactorType /\ x.queue = s.queue
    BY DEF ReactorType, NoTools
  <2>2. \/ TurnCompleted(x, "aborted", FALSE)
        \/ TurnCompleted(x, "loop_detected", FALSE)
        \/ Proceed(RequestTurn(x))
    BY <1>1 DEF Aggregated
  <2> HIDE DEF x
  <2>3. RequestTurn(x).queue = x.queue
    BY <2>1 DEF RequestTurn, ReactorType
  <2> QED
    BY <2>1, <2>2, <2>3, TurnCompletedMail, ProceedMail
<1>2. CASE Proceed(s)
  BY <1>2, ProceedMail
<1> QED
  BY <1>1, <1>2 DEF ToolsReported

LEMMA InterruptMail ==
    ASSUME phase # "idle", NEW s \in ReactorType, Interrupt(s)
    PROVE  Handled(s.queue)
<1> DEFINE i == [s EXCEPT !.interrupted = TRUE,
                          !.compaction = IF @ = "none" THEN "none" ELSE "cancelled"]
           x == [i EXCEPT !.retry = 0]
<1>1. i \in ReactorType /\ i.queue = s.queue
  BY DEF ReactorType
<1>2. x \in ReactorType /\ x.queue = s.queue
  <2> HIDE DEF i
  <2> QED BY <1>1 DEF ReactorType
<1>3. TurnCompleted(x, "aborted", FALSE) \/ Proceed(i)
  BY DEF Interrupt
<1> HIDE DEF i, x
<1> QED
  BY <1>1, <1>2, <1>3, TurnCompletedMail, ProceedMail
-----------------------------------------------------------------------------
(* Steps.                                                                  *)

\* A handler that runs in a cycle with the queue w, after the message m was
\* logged (S = {m}) or none (S = {}).
LEMMA HandledInv ==
    ASSUME TypeOK, TypeOK', MailInv, phase # "idle", NEW S \in SUBSET Msgs,
           NEW w \in Seq(Msgs), Handled(w),
           Elems(w) = Elems(reactor.queue) \cup S,
           Elems(inbox') = Elems(inbox) \cup S,
           fresh' = fresh \cup S, steered' \subseteq steered \cup S
    PROVE  MailInv' /\ Waiting' = reactor'.queue
<1>0. /\ inbox \in Seq(Msgs) /\ inbox' \in Seq(Msgs) /\ reactor.queue \in Seq(Msgs)
      /\ delivered \in Seq(Msgs) /\ delivered' \in Seq(Msgs)
      /\ dropped \subseteq Msgs
  BY DEF TypeOK, ReactorType
<1>1. Elems(w) \cup Elems(delivered) \cup dropped
         = Elems(reactor'.queue) \cup Elems(delivered') \cup dropped'
  <2>1. CASE reactor'.queue = w /\ UNCHANGED <<delivered, dropped>>
    BY <2>1
  <2>2. CASE /\ w # <<>>
             /\ delivered' = Append(delivered, Head(w)) /\ reactor'.queue = Tail(w)
             /\ UNCHANGED dropped
    <3>1. Head(w) \in Msgs /\ Elems(w) = {Head(w)} \cup Elems(Tail(w))
      BY <2>2, ElemsSplit
    <3>2. Elems(delivered') = Elems(delivered) \cup {Head(w)}
      BY <1>0, <2>2, <3>1, ElemsAppend
    <3> QED BY <2>2, <3>1, <3>2
  <2>3. CASE /\ dropped' = dropped \cup Elems(w) /\ reactor'.queue = <<>>
             /\ UNCHANGED delivered
    BY <2>3, ElemsEmpty
  <2> QED BY <2>1, <2>2, <2>3 DEF Handled
<1>2. Recorded'
  <2>1. /\ Elems(delivered) \cup dropped \cup steered \cup fresh \subseteq Elems(inbox)
        /\ Elems(reactor.queue) \subseteq Elems(inbox)
    BY DEF MailInv, Recorded
  <2>2. /\ Elems(delivered') \cup dropped' \cup Elems(reactor'.queue) \subseteq Elems(inbox')
        /\ steered' \cup fresh' \subseteq Elems(inbox')
    BY <1>1, <2>1
  <2> QED BY <2>2 DEF Recorded
<1>3. fresh' \subseteq Elems(delivered') \cup dropped' \cup Elems(reactor'.queue)
  <2>1. fresh \subseteq Elems(delivered) \cup dropped \cup Elems(reactor.queue)
    BY DEF MailInv, NothingLost
  <2> QED BY <1>1, <2>1
<1>4. NothingLost'
  BY <1>3 DEF NothingLost
<1>5. CASE phase' = "idle"
  <2>1. reactor'.queue = <<>>
    BY <1>5 DEF Handled
  <2>2. Replayable' = {}
    BY <1>3, <2>1, ElemsEmpty DEF Replayable
  <2>3. OnlyOrder(inbox', Replayable', <<>>)
    BY <1>0, <2>2, EmptyOrder
  <2>4. Waiting' = <<>>
    BY <1>0, <1>5, <2>3, WaitingIsNext
  <2> QED BY <1>2, <1>4, <2>1, <2>3, <2>4 DEF MailInv
<1>6. CASE phase' # "idle"
  BY <1>2, <1>4, <1>6 DEF MailInv, Waiting
<1> QED
  BY <1>5, <1>6

\* A step of the prompt cycle is one of the mailbox, or changes nothing of it.
Simulated == MailInv' /\ [M!Next]_(M!vars)

\* A handler that logs no message.
LEMMA HandlerSimulated ==
    ASSUME TypeOK, TypeOK', MailInv, phase # "idle", UNCHANGED mail, Handled(reactor.queue)
    PROVE  Simulated
<1>0. inbox' = inbox /\ fresh' = fresh /\ steered' = steered
  BY DEF mail
<1>1. reactor.queue \in Seq(Msgs) /\ inbox \in Seq(Msgs)
  BY DEF TypeOK, ReactorType
<1>2. MailInv' /\ Waiting' = reactor'.queue
  <2>1. {} \in SUBSET Msgs /\ Elems(reactor.queue) = Elems(reactor.queue) \cup {}
    OBVIOUS
  <2> QED BY <1>0, <1>1, <2>1, HandledInv
<1>3. Waiting = reactor.queue
  BY WaitingInCycle
<1>4. M!Next
  <2>1. <<>> \in M!Arrivals /\ inbox' = inbox \o <<>> /\ Waiting \o <<>> = Waiting
    BY <1>0, <1>1, <1>3 DEF M!Arrivals
  <2>2. M!Keep(Waiting) \/ M!Deliver(Waiting) \/ M!Discard(Waiting)
    <3>1. Elems(Waiting) = M!Elems(Waiting)
      BY DEF Elems, M!Elems
    <3> QED BY <1>2, <1>3, <3>1 DEF Handled, M!Keep, M!Deliver, M!Discard
  <2>3. \E a \in M!Arrivals :
           /\ inbox' = inbox \o a
           /\ M!Keep(Waiting \o a) \/ M!Deliver(Waiting \o a) \/ M!Discard(Waiting \o a)
    BY <2>1, <2>2
  <2> QED BY <2>3 DEF M!Next
<1> QED
  BY <1>2, <1>4 DEF Simulated

\* A handler that logs the message m and queues it before anything else.
LEMMA ArrivalSimulated ==
    ASSUME TypeOK, TypeOK', MailInv, phase # "idle", NEW m \in Msgs, m \notin Used,
           inbox' = Append(inbox, m), fresh' = fresh \cup {m},
           steered' \subseteq steered \cup {m}, Handled(Append(reactor.queue, m))
    PROVE  Simulated
<1>1. reactor.queue \in Seq(Msgs) /\ inbox \in Seq(Msgs) /\ m \notin Elems(inbox)
  BY DEF TypeOK, ReactorType, Used
<1>2. MailInv' /\ Waiting' = reactor'.queue
  <2> DEFINE w == Append(reactor.queue, m)
  <2>1. w \in Seq(Msgs) /\ Elems(w) = Elems(reactor.queue) \cup {m}
    BY <1>1, ElemsAppend
  <2>2. Elems(inbox') = Elems(inbox) \cup {m} /\ {m} \in SUBSET Msgs
    BY <1>1, ElemsAppend
  <2>3. Handled(w)
    OBVIOUS
  <2> HIDE DEF w
  <2> QED BY <2>1, <2>2, <2>3, HandledInv
<1>3. Waiting = reactor.queue
  BY WaitingInCycle
<1> DEFINE w == Waiting \o <<m>>
<1>4. w = Append(reactor.queue, m) /\ inbox' = inbox \o <<m>>
  BY <1>1, <1>3
<1>5. <<m>> \in M!Arrivals
  BY <1>1 DEF M!Arrivals, M!Elems, Elems
<1>6. M!Keep(w) \/ M!Deliver(w) \/ M!Discard(w)
  <2>1. Elems(w) = M!Elems(w)
    BY DEF Elems, M!Elems
  <2>2. Handled(w)
    BY <1>4
  <2> HIDE DEF w
  <2> QED BY <1>2, <2>1, <2>2 DEF Handled, M!Keep, M!Deliver, M!Discard
<1>7. M!Next
  BY <1>4, <1>5, <1>6 DEF M!Next
<1> QED
  BY <1>2, <1>7 DEF Simulated

\* The calls of the API: between cycles a follow-up is replayed after the
\* others, and prompt() takes over just what waits.
LEMMA CallsSimulated ==
    ASSUME TypeOK, TypeOK', MailInv,
           Prompt \/ SendPrompt \/ Abort \/ Compact \/ \E m \in Msgs : Input(m)
    PROVE  Simulated
<1>t. /\ reactor \in ReactorType /\ reactor.queue \in Seq(Msgs) /\ inbox \in Seq(Msgs)
      /\ inbox' \in Seq(Msgs)
  BY DEF TypeOK, ReactorType
<1>1. CASE Prompt
  <2>1. /\ phase = "idle" /\ phase' = "starting"
        /\ UNCHANGED <<mail, delivered, dropped>>
    BY <1>1 DEF Prompt
  <2>2. PICK q \in UNION {[1..n -> Elems(inbox)] : n \in 0..Len(inbox)} :
           IsReplay(q) /\ reactor' = NewReactor(q)
    BY <1>1 DEF Prompt
  <2>3. Orders(inbox, Replayable, q)
    BY <1>t, <2>2, Candidates DEF Orders, IsReplay, Before, Precedes
  <2>4. PICK only : OnlyOrder(inbox, Replayable, only)
    BY <2>1 DEF MailInv
  <2>5. q = only
    BY <2>3, <2>4 DEF OnlyOrder
  <2>6. Waiting = q
    BY <1>t, <2>1, <2>4, <2>5, WaitingIs
  <2>7. reactor'.queue = q /\ Waiting' = q
    BY <2>1, <2>2 DEF Waiting, NewReactor
  <2>8. Elems(q) = Replayable
    BY <2>2 DEF IsReplay
  <2>9. Recorded'
    BY <2>1, <2>7, <2>8 DEF MailInv, Recorded, Replayable, mail
  <2>10. NothingLost'
    <3>1. reactor.queue = <<>> /\ phase = "idle"
      BY <2>1 DEF MailInv
    <3>2. ASSUME NEW m \in fresh PROVE m \in Elems(delivered) \cup dropped \cup Elems(q)
      <4>1. m \in Elems(delivered) \cup dropped \/ m \notin steered
        BY <3>1, ElemsEmpty DEF MailInv, NothingLost
      <4> QED BY <2>8, <4>1 DEF Replayable
    <3> QED BY <2>1, <2>7, <3>2 DEF NothingLost, mail
  <2>11. UNCHANGED M!vars
    BY <2>1, <2>6, <2>7 DEF M!vars, mail
  <2> QED
    BY <2>1, <2>9, <2>10, <2>11 DEF Simulated, MailInv
<1>2. CASE SendPrompt
  <2>1. /\ phase # "idle" /\ phase' # "idle" /\ UNCHANGED <<mail, delivered, dropped>>
        /\ reactor'.queue = reactor.queue
    BY <1>t, <1>2, UserMessageQueue DEF SendPrompt
  <2>2. Recorded' /\ NothingLost'
    BY <2>1 DEF MailInv, Recorded, NothingLost, mail
  <2>3. UNCHANGED M!vars
    BY <2>1 DEF M!vars, Waiting, mail
  <2> QED BY <2>1, <2>2, <2>3 DEF Simulated, MailInv
<1>3. CASE Abort
  <2> DEFINE s == [reactor EXCEPT !.abortedByUser = TRUE]
  <2>1. s \in ReactorType /\ s.queue = reactor.queue
    BY <1>t DEF ReactorType
  <2>2. phase # "idle" /\ Interrupt(s) /\ UNCHANGED mail
    BY <1>3 DEF Abort, Interruptible
  <2> HIDE DEF s
  <2>3. Handled(reactor.queue)
    BY <2>1, <2>2, InterruptMail
  <2> QED BY <2>2, <2>3, HandlerSimulated
<1>4. CASE Compact
  <2>1. RequestCompaction(reactor).queue = reactor.queue
    BY <1>t DEF RequestCompaction, ReactorType
  <2>2. phase # "idle" /\ Proceed(RequestCompaction(reactor)) /\ UNCHANGED mail
    BY <1>4 DEF Compact
  <2>3. Handled(reactor.queue)
    BY <2>1, <2>2, ProceedMail
  <2> QED BY <2>2, <2>3, HandlerSimulated
<1>5. ASSUME NEW m \in Msgs, Input(m) PROVE Simulated
  <2>1. CASE Steer(m)
    <3> DEFINE s == [reactor EXCEPT !.queue = Append(@, m)]
    <3>1. Append(reactor.queue, m) \in Seq(Msgs)
      BY <1>t
    <3>2. s \in ReactorType /\ s.queue = Append(reactor.queue, m)
      BY <1>t, <3>1, SetQueue
    <3>3. /\ phase # "idle" /\ Interrupt(s) /\ m \notin Used
          /\ inbox' = Append(inbox, m) /\ fresh' = fresh \cup {m}
          /\ steered' = steered \cup {m}
      BY <2>1 DEF Steer, Interruptible
    <3> HIDE DEF s
    <3>4. Handled(Append(reactor.queue, m))
      BY <3>2, <3>3, InterruptMail
    <3> QED BY <3>3, <3>4, ArrivalSimulated
  <2>2. CASE SteerIdle(m)
    <3>1. UNCHANGED <<phase, reactor, inbox, steered, fresh, delivered, dropped>>
      BY <2>2 DEF SteerIdle
    <3>2. Waiting' = Waiting
      BY <3>1 DEF Waiting, IsReplay, Replayable, Before
    <3> QED
      BY <3>1, <3>2 DEF Simulated, MailInv, Recorded, NothingLost, Replayable, M!vars
  <2>3. CASE FollowUp(m) /\ phase # "idle"
    <3>1. Append(reactor.queue, m) \in Seq(Msgs)
      BY <1>t
    <3>2. /\ m \notin Used /\ inbox' = Append(inbox, m) /\ fresh' = fresh \cup {m}
          /\ reactor' = [reactor EXCEPT !.queue = Append(@, m)]
          /\ UNCHANGED <<phase, steered, delivered, dropped>>
      BY <2>3 DEF FollowUp
    <3>3. reactor'.queue = Append(reactor.queue, m)
      BY <1>t, <3>1, <3>2, SetQueue
    <3>4. Handled(Append(reactor.queue, m))
      BY <2>3, <3>2, <3>3 DEF Handled
    <3> QED BY <2>3, <3>2, <3>4, ArrivalSimulated
  <2>4. CASE FollowUp(m) /\ phase = "idle"
    <3>1. /\ m \notin Elems(inbox) /\ inbox' = Append(inbox, m) /\ fresh' = fresh \cup {m}
          /\ UNCHANGED <<reactor, phase, steered, delivered, dropped>>
      BY <2>4 DEF FollowUp, Used
    <3>2. PICK q : OnlyOrder(inbox, Replayable, q)
      BY <2>4 DEF MailInv
    <3>3. m \notin steered \cup Elems(delivered) \cup dropped /\ fresh \subseteq Elems(inbox)
      BY <3>1 DEF MailInv, Recorded
    <3>4. Replayable' = Replayable \cup {m} /\ Replayable \in SUBSET Elems(inbox)
      BY <3>1, <3>3 DEF Replayable
    <3>5. OnlyOrder(inbox', Replayable', Append(q, m))
      BY <1>t, <3>1, <3>2, <3>4, OrderGrows
    <3>6. Waiting = q /\ Waiting' = Append(q, m)
      BY <1>t, <2>4, <3>1, <3>2, <3>5, WaitingIs, WaitingIsNext
    <3>7. Elems(inbox') = Elems(inbox) \cup {m}
      BY <1>t, <3>1, ElemsAppend
    <3>8. Recorded' /\ NothingLost'
      BY <2>4, <3>1, <3>3, <3>7 DEF MailInv, Recorded, NothingLost
    <3>9. reactor.queue = <<>>
      BY <2>4 DEF MailInv
    <3>10. M!Next
      <4>1. q \in Seq(Elems(inbox)) /\ Elems(inbox) \subseteq Msgs
        BY <1>t, <3>2, ElemsType DEF OnlyOrder, Orders
      <4>2. q \o <<m>> = Append(q, m) /\ inbox' = inbox \o <<m>>
        BY <1>t, <3>1, <4>1
      <4>3. <<m>> \in M!Arrivals
        BY <3>1 DEF M!Arrivals, M!Elems, Elems
      <4>4. M!Keep(Waiting \o <<m>>)
        BY <3>1, <3>6, <4>2 DEF M!Keep
      <4> QED BY <4>2, <4>3, <4>4 DEF M!Next
    <3> QED
      BY <2>4, <3>1, <3>5, <3>8, <3>9, <3>10 DEF Simulated, MailInv
  <2> QED
    BY <1>5, <2>1, <2>2, <2>3, <2>4 DEF Input
<1> QED
  BY <1>1, <1>2, <1>3, <1>4, <1>5

\* What the awaits of a running cycle are resolved by; a restart forgets what
\* waits.
LEMMA AwaitsSimulated ==
    ASSUME TypeOK, TypeOK', MailInv,
           \/ LlmAnswers \/ LlmCallsTools \/ LlmThrows \/ RetryTimer
           \/ \E t \in ToolIds : Tool(t)
           \/ CompactionEnds \/ OrphanEnds \/ Restart
    PROVE  Simulated
<1>t. /\ reactor \in ReactorType /\ reactor.queue \in Seq(Msgs) /\ inbox \in Seq(Msgs)
      /\ reactor.llm \in Nat /\ reactor.retry \in Nat
  BY DEF TypeOK, ReactorType
<1>l. ASSUME reactor.llm > 0
      PROVE  LlmDone \in ReactorType /\ LlmDone.queue = reactor.queue
  <2>1. reactor.llm - 1 \in Nat
    BY <1>t, <1>l
  <2> QED BY <1>t, <2>1 DEF LlmDone, ReactorType
<1>d. ASSUME NEW t \in ToolIds, NEW v \in {"running", "done"}
      PROVE  LET x == [reactor EXCEPT !.tools[t] = v]
             IN  x \in ReactorType /\ x.queue = reactor.queue
  BY <1>t DEF ReactorType
<1>h. ASSUME phase = "running", NEW s \in ReactorType, s.queue = reactor.queue, UNCHANGED mail,
             \/ Proceed(s) \/ ToolsReported(s)
             \/ \E reason, retryable : TurnCompleted(s, reason, retryable)
      PROVE  Simulated
  <2>1. phase # "idle"
    BY <1>h
  <2>2. Handled(reactor.queue)
    BY <1>h, <2>1, ProceedMail, ToolsReportedMail, TurnCompletedMail
  <2> QED BY <1>h, <2>1, <2>2, HandlerSimulated
<1>1. CASE LlmAnswers
  <2>1. phase = "running" /\ UNCHANGED mail
        /\ \E reason, retryable : TurnCompleted(LlmDone, reason, retryable)
    BY <1>1 DEF LlmAnswers
  <2>2. LlmDone \in ReactorType /\ LlmDone.queue = reactor.queue
    BY <1>1, <1>l DEF LlmAnswers
  <2> QED BY <1>h, <2>1, <2>2
<1>2. CASE LlmCallsTools
  <2>1. /\ phase = "running" /\ UNCHANGED mail
        /\ LlmDone \in ReactorType /\ LlmDone.queue = reactor.queue
    BY <1>2, <1>l DEF LlmCallsTools
  <2>2. PICK calls \in SUBSET ToolIds, sig \in Sigs : ToolRound(LlmDone, calls, sig)
    BY <1>2 DEF LlmCallsTools
  <2> DEFINE tools == [t \in ToolIds |-> IF t \in calls THEN IntentToolCall(t) ELSE "none"]
             s == LlmDone
             u == [s EXCEPT !.tools = tools]
             v == [u EXCEPT !.sig = sig]
             w == [v EXCEPT !.rounds = RoundsOf(s, sig)]
  <2>3. tools \in [ToolIds -> {"none", "approval", "running", "done"}]
    BY DEF IntentToolCall
  <2>4. RoundsOf(s, sig) \in 0..LoopLimit
    BY <2>1, ConstantsAssumption DEF ReactorType, RoundsOf
  <2>5. ToolsReported(w)
    BY <2>2 DEF ToolRound
  <2> HIDE DEF s, tools
  <2>6. u \in ReactorType /\ u.queue = reactor.queue
    BY <2>1, <2>3 DEF ReactorType, s
  <2> HIDE DEF u
  <2>7. v \in ReactorType /\ v.queue = reactor.queue
    BY <2>6 DEF ReactorType
  <2> HIDE DEF v
  <2>8. w \in ReactorType /\ w.queue = reactor.queue
    BY <2>4, <2>7 DEF ReactorType
  <2> HIDE DEF w
  <2> QED BY <1>h, <2>1, <2>5, <2>8
<1>3. CASE LlmThrows
  <2>1. /\ phase = "running" /\ UNCHANGED mail
        /\ LlmDone \in ReactorType /\ LlmDone.queue = reactor.queue
    BY <1>3, <1>l DEF LlmThrows
  <2>2. CASE ScheduleRetry(LlmDone)
    <3>1. Handled(reactor.queue) /\ phase # "idle"
      BY <2>1, <2>2, SetCounters DEF ScheduleRetry, Continue, Handled, ReactorType
    <3> QED BY <2>1, <3>1, HandlerSimulated
  <2>3. CASE \E reason, retryable : TurnCompleted(LlmDone, reason, retryable)
    BY <1>h, <2>1, <2>3
  <2> QED BY <1>3, <2>2, <2>3 DEF LlmThrows
<1>4. CASE RetryTimer
  <2> DEFINE s == [reactor EXCEPT !.retry = @ - 1]
             a == [s EXCEPT !.attempt = @ + 1]
  <2>1. phase = "running" /\ UNCHANGED mail /\ reactor.retry - 1 \in Nat
    BY <1>t, <1>4 DEF RetryTimer
  <2>2. s.queue = reactor.queue /\ a.queue = reactor.queue /\ RequestTurn(a).queue = reactor.queue
    BY <1>t DEF ReactorType, RequestTurn
  <2>3. \E x : Proceed(x) /\ x.queue = reactor.queue
    BY <1>4, <2>2 DEF RetryTimer
  <2>4. Handled(reactor.queue) /\ phase # "idle"
    BY <2>1, <2>3, ProceedMail
  <2> QED BY <2>1, <2>4, HandlerSimulated
<1>5. ASSUME NEW t \in ToolIds, Tool(t) PROVE Simulated
  <2>1. phase = "running" /\ UNCHANGED mail
    BY <1>5 DEF Tool, ToolEnds, Approve, Reject
  <2>2. \/ Proceed([reactor EXCEPT !.tools[t] = "running"])
        \/ ToolsReported([reactor EXCEPT !.tools[t] = "done"])
    BY <1>5 DEF Tool, ToolEnds, Approve, Reject
  <2> DEFINE x(v) == [reactor EXCEPT !.tools[t] = v]
  <2>3. \A v \in {"running", "done"} : x(v) \in ReactorType /\ x(v).queue = reactor.queue
    BY <1>d
  <2>4. Proceed(x("running")) \/ ToolsReported(x("done"))
    BY <2>2
  <2> HIDE DEF x
  <2> QED BY <1>h, <2>1, <2>3, <2>4
<1>6. CASE CompactionEnds
  <2> DEFINE x == [reactor EXCEPT !.compaction = "none"]
  <2>1. x.queue = reactor.queue
    BY <1>t DEF ReactorType
  <2>2. phase # "idle" /\ Proceed(x) /\ UNCHANGED mail
    BY <1>6 DEF CompactionEnds
  <2> HIDE DEF x
  <2>3. Handled(reactor.queue)
    BY <2>1, <2>2, ProceedMail
  <2> QED BY <2>2, <2>3, HandlerSimulated
<1>7. CASE OrphanEnds
  <2>1. UNCHANGED <<phase, reactor, inbox, steered, fresh, delivered, dropped>>
    BY <1>7 DEF OrphanEnds, mail
  <2>2. Waiting' = Waiting
    BY <2>1 DEF Waiting, IsReplay, Replayable, Before
  <2> QED
    BY <2>1, <2>2 DEF Simulated, MailInv, Recorded, NothingLost, Replayable, M!vars
<1>8. CASE Restart
  <2>1. /\ phase' = "idle" /\ reactor'.queue = <<>> /\ fresh' = {}
        /\ UNCHANGED <<inbox, steered, delivered, dropped>>
    BY <1>8 DEF Restart, NewReactor
  <2>2. Replayable' = {}
    BY <2>1 DEF Replayable
  <2>3. OnlyOrder(inbox', Replayable', <<>>)
    BY <1>t, <2>1, <2>2, EmptyOrder
  <2>4. Waiting' = <<>>
    BY <1>t, <2>1, <2>3, WaitingIsNext
  <2>5. Recorded' /\ NothingLost'
    BY <2>1, ElemsEmpty DEF MailInv, Recorded, NothingLost
  <2>6. M!Next
    BY <2>1, <2>4 DEF M!Next, M!Forget
  <2> QED
    BY <2>1, <2>3, <2>5, <2>6 DEF Simulated, MailInv
<1> QED
  BY <1>1, <1>2, <1>3, <1>4, <1>5, <1>6, <1>7, <1>8

LEMMA MailSteps == TypeOK /\ TypeOK' /\ MailInv /\ [Next]_vars => Simulated
<1> SUFFICES ASSUME TypeOK, TypeOK', MailInv, [Next]_vars PROVE Simulated
  OBVIOUS
<1>1. CASE Next
  BY <1>1, CallsSimulated, AwaitsSimulated DEF Next
<1>2. CASE UNCHANGED vars
  <2>1. UNCHANGED <<phase, reactor, inbox, steered, fresh, delivered, dropped>>
    BY <1>2 DEF vars, mail
  <2>2. Waiting' = Waiting
    BY <2>1 DEF Waiting, IsReplay, Replayable, Before
  <2> QED
    BY <2>1, <2>2 DEF Simulated, MailInv, Recorded, NothingLost, Replayable, M!vars
<1> QED
  BY <1>1, <1>2

LEMMA MailInit == Init => MailInv /\ M!Init
<1> SUFFICES ASSUME Init PROVE MailInv /\ M!Init
  OBVIOUS
<1>1. /\ phase = "idle" /\ reactor.queue = <<>> /\ inbox = <<>> /\ delivered = <<>>
      /\ steered = {} /\ fresh = {} /\ dropped = {} /\ <<>> \in Seq(Msgs)
  BY DEF Init, NewReactor
<1>2. Replayable = {}
  BY <1>1 DEF Replayable
<1>3. OnlyOrder(inbox, Replayable, <<>>)
  BY <1>1, <1>2, EmptyOrder
<1>4. Waiting = <<>>
  BY <1>1, <1>3, WaitingIs
<1>5. Recorded /\ NothingLost
  BY <1>1, ElemsEmpty DEF Recorded, NothingLost
<1> QED
  BY <1>1, <1>3, <1>4, <1>5 DEF MailInv, M!Init

LEMMA MailInvariance == Spec => []MailInv
<1>1. Spec => []TypeOK
  BY TypeCorrect
<1>2. Simulated => MailInv'
  BY DEF Simulated
<1> QED
  BY <1>1, <1>2, MailInit, MailSteps, PTL DEF Spec

\* No message logged in this process run disappears, for any number of
\* messages: it is delivered, recorded as dropped, queued, or a follow-up the
\* next prompt() replays.
THEOREM NothingEverLost == Spec => []NothingLost
BY MailInvariance, PTL DEF MailInv

\* The prompt cycle implements Mailbox: each step delivers the first message
\* that waits, records those that wait as dropped, forgets them in a restart,
\* or leaves them waiting.
THEOREM CycleImplementsMailbox == Spec => ImplementsMailbox
<1>1. Simulated => [M!Next]_(M!vars)
  BY DEF Simulated
<1> QED
  BY <1>1, MailInit, MailSteps, MailInvariance, TypeCorrect, PTL DEF Spec, ImplementsMailbox, M!Spec
=============================================================================
