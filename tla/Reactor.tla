------------------------------ MODULE Reactor ------------------------------
(***************************************************************************)
(* The prompt cycle of the event-sourced runtime: EventSourcedRuntime       *)
(* (src/core/runtime/runtime.ts), which accepts prompt, steer, followUp,    *)
(* abort, compact and approval calls, and the Reactor it creates for each   *)
(* prompt (src/core/runtime/reactor.ts), a table of event handlers.         *)
(*                                                                         *)
(* The store notifies its subscribers synchronously, so one handler's       *)
(* append runs the next handler before it returns.  An action below is      *)
(* therefore everything that happens from one resumption of the event loop  *)
(* to the next await: a call of the API, the return of an LLM call, the end *)
(* of a tool, an answer to an approval, a retry timer, the end of a         *)
(* compaction, and the first microtask of prompt().                         *)
(*                                                                         *)
(* `reactor' is the Reactor object (volatile, one per prompt).  `inbox',    *)
(* `steered', `delivered', `dropped' and `stray' are what the event log     *)
(* records about the messages of the user.                                  *)
(***************************************************************************)
EXTENDS Naturals, Sequences, FiniteSets

CONSTANTS
    Msgs,                \* follow-up and steer messages the user may send
    ToolIds,             \* tool calls an assistant message may contain
    NeedsApproval,       \* those the classifier marks requires_approval
    HasApprovalHandler,  \* is an approval handler configured
    Sigs,                \* signatures (names and arguments) of a tool round
    NoSig,               \* no tool round yet
    LoopLimit,           \* MAX_CONSECUTIVE_IDENTICAL_TOOL_ROUNDS
    MaxAttempts,         \* RetryPolicy.maxAttempts
    LlmMayThrow,         \* may LLMClient.complete throw (LLM_CALL_FAILED)
    SameTickInputs,      \* may steer or abort run before prompt()'s first microtask
    MayCrash,            \* may the process (or the runtime object) be replaced
    MaxOrphans           \* bound on compactions left behind by ended cycles

ASSUME ConstantsAssumption ==
    /\ NeedsApproval \subseteq ToolIds
    /\ IsFiniteSet(ToolIds)
    /\ NoSig \notin Sigs
    /\ LoopLimit \in Nat \ {0}
    /\ MaxAttempts \in Nat
    /\ MaxOrphans \in Nat
    /\ {HasApprovalHandler, LlmMayThrow, SameTickInputs, MayCrash} \subseteq BOOLEAN

VARIABLES
    phase,       \* "idle" | "starting" | "running": _isProcessing and the reactor
    reactor,     \* the fields of the Reactor object
    orphans,     \* compactions still running for reactors that were stopped
    lastReason,  \* payload.reason of the last AGENT_TURN_COMPLETED
    inbox,       \* USER_FOLLOWUP_QUEUED and content-carrying USER_INTERRUPT, in log order
    steered,     \* those that came as USER_INTERRUPT
    fresh,       \* those logged since the last RUNTIME_STARTED
    delivered,   \* the caused_by of each drained USER_MESSAGE, in log order
    dropped,     \* ids listed by USER_FOLLOWUP_DROPPED
    stray        \* steers logged as USER_MESSAGE while no reactor was subscribed

mail == <<inbox, steered, fresh, stray>>
vars == <<phase, reactor, orphans, lastReason, mail, delivered, dropped>>

Elems(s) == {s[i] : i \in DOMAIN s}

NoTools == [t \in ToolIds |-> "none"]

\* A fresh Reactor whose follow-up queue is q.
NewReactor(q) ==
    [ llm           |-> 0,        \* LLMClient.complete calls being awaited
      retry         |-> 0,        \* size of retryTimers
      tools         |-> NoTools,  \* the turn tracker and its pending approvals
      interrupted   |-> FALSE,    \* abortController.signal.aborted
      abortedByUser |-> FALSE,    \* _abortedByUser
      queue         |-> q,        \* followUpQueue
      attempt       |-> 0,        \* _attemptCount of the current causal chain
      sig           |-> NoSig,    \* signature of the last tool round ...
      rounds        |-> 0,        \* ... and how many rounds in a row had it
      compaction    |-> "none" ]  \* compactionAbort: none | running | cancelled

Reasons == {"none", "stop", "error", "aborted", "loop_detected"}

Init ==
    /\ phase = "idle"
    /\ reactor = NewReactor(<<>>)
    /\ orphans = 0
    /\ lastReason = "none"
    /\ inbox = <<>>
    /\ delivered = <<>>
    /\ steered = {} /\ fresh = {} /\ dropped = {} /\ stray = {}

-----------------------------------------------------------------------------
(* Handlers.  s is the Reactor object when the handler runs.               *)

\* AGENT_TURN_REQUESTED and LLM_CALL_REQUESTED: both return at once when the
\* signal is aborted, otherwise the turn is awaiting the LLM.
RequestTurn(s) == IF s.interrupted THEN s ELSE [s EXCEPT !.llm = @ + 1]

\* USER_MESSAGE starts a causal chain of its own and resets loop detection.
UserMessage(s) ==
    IF s.interrupted
    THEN [s EXCEPT !.attempt = 0]
    ELSE RequestTurn([s EXCEPT !.attempt = 0, !.sig = NoSig, !.rounds = 0])

\* The cycle goes on with the reactor in state s.
Continue(s) ==
    /\ reactor' = s
    /\ UNCHANGED <<phase, orphans>>

\* prompt() returns: reactor.stop() drops the subscriptions and the timers.
\* A compaction is not cancelled by it, and an LLM call or a tool that was
\* still in flight would go on unobserved.
EndCycle(s) ==
    /\ phase' = "idle"
    /\ reactor' = [NewReactor(<<>>) EXCEPT !.llm = s.llm, !.tools = s.tools]
    /\ orphans' = IF s.compaction = "none" THEN orphans ELSE orphans + 1

\* The microtask of _waitUntilSettled, queued by an AGENT_TURN_COMPLETED that
\* no newer USER_MESSAGE followed.
Settle(s) == IF s.queue = <<>> /\ s.retry = 0 THEN EndCycle(s) ELSE Continue(s)

\* Completion after abort(): the queue is discarded, and recorded as dropped.
DiscardUnrecorded(s) ==
    /\ s.abortedByUser
    /\ UNCHANGED <<delivered, dropped>>
    /\ Settle([s EXCEPT !.queue = <<>>, !.abortedByUser = FALSE])
DiscardFollowUps(s) ==
    /\ s.abortedByUser
    /\ dropped' = dropped \cup Elems(s.queue)
    /\ UNCHANGED delivered
    /\ Settle([s EXCEPT !.queue = <<>>, !.abortedByUser = FALSE])

CanRetryOnceMore(s, retryable) == retryable /\ s.attempt <= MaxAttempts
CanRetry(s, retryable) == retryable /\ s.attempt < MaxAttempts

\* _scheduleRetry: the timer is set whatever the state of the abort signal.
ScheduleRetry(s) ==
    /\ Continue([s EXCEPT !.retry = @ + 1])
    /\ UNCHANGED <<delivered, dropped>>

\* The oldest queued message becomes a USER_MESSAGE under a new abort signal.
DrainOldSignal(s) ==
    /\ s.queue # <<>>
    /\ delivered' = Append(delivered, Head(s.queue))
    /\ UNCHANGED dropped
    /\ Continue(UserMessage([s EXCEPT !.queue = Tail(@)]))
DrainFollowUp(s) ==
    /\ s.queue # <<>>
    /\ delivered' = Append(delivered, Head(s.queue))
    /\ UNCHANGED dropped
    /\ Continue(UserMessage([s EXCEPT !.queue = Tail(@), !.interrupted = FALSE]))

\* COMPACTION_REQUESTED is ignored while this reactor has a compaction running.
RequestCompaction(s) ==
    IF s.compaction = "none" THEN [s EXCEPT !.compaction = "running"] ELSE s

\* Nothing is queued: unless the turn was aborted the compaction policy is
\* consulted, and the cycle settles.
GoIdle(s, reason) ==
    /\ s.queue = <<>>
    /\ UNCHANGED <<delivered, dropped>>
    /\ \/ Settle(s)
       \/ reason # "aborted" /\ Settle(RequestCompaction(s))

\* AGENT_TURN_COMPLETED with the queue drained before the abort flag is read.
TurnCompletedDrainFirst(s, reason, retryable) ==
    /\ lastReason' = reason
    /\ \/ DrainFollowUp(s)
       \/ s.queue = <<>> /\ DiscardFollowUps(s)
       \/ ~s.abortedByUser /\ GoIdle(s, reason)

\* AGENT_TURN_COMPLETED.  retryable: the reason is an error of a completed
\* assistant message (not of LLM_CALL_FAILED) the retry policy accepts.
TurnCompleted(s, reason, retryable) ==
    /\ lastReason' = reason
    /\ \/ DiscardFollowUps(s)
       \/ ~s.abortedByUser /\ CanRetry(s, retryable) /\ ScheduleRetry(s)
       \/ /\ ~s.abortedByUser
          /\ ~CanRetry(s, retryable)
          /\ DrainFollowUp(s) \/ GoIdle(s, reason)

\* A handler that leaves the log of messages and completions alone.
Proceed(s) ==
    /\ Continue(s)
    /\ UNCHANGED <<lastReason, delivered, dropped>>

\* TOOL_RESULTS_AGGREGATED that leaves an aborted turn to somebody else.
AggregatedSilent(tracked) ==
    LET s == [tracked EXCEPT !.tools = NoTools]
    IN  CASE s.interrupted -> Proceed(s)
          [] ~s.interrupted /\ s.rounds >= LoopLimit
                           -> TurnCompleted(s, "loop_detected", FALSE)
          [] OTHER         -> Proceed(RequestTurn(s))

\* TOOL_RESULTS_AGGREGATED: the tracker is gone, the turn ends or goes round.
Aggregated(tracked) ==
    LET s == [tracked EXCEPT !.tools = NoTools]
    IN  CASE s.interrupted         -> TurnCompleted(s, "aborted", FALSE)
          [] ~s.interrupted /\ s.rounds >= LoopLimit
                                   -> TurnCompleted(s, "loop_detected", FALSE)
          [] OTHER                 -> Proceed(RequestTurn(s))

\* TOOL_EXECUTION_END: aggregate once every expected call has been received.
ToolsReported(s) ==
    IF \A t \in ToolIds : s.tools[t] \in {"none", "done"}
    THEN Aggregated(s)
    ELSE Proceed(s)

\* INTENT_TOOL_CALL: ask for approval, reject for want of a handler, or run.
IntentToolCall(t) ==
    CASE t \notin NeedsApproval -> "running"
      [] t \in NeedsApproval /\ HasApprovalHandler -> "approval"
      [] OTHER -> "done"

\* Consecutive rounds with this signature, capped where the loop check is.
RoundsReset(s, sig) == 1
RoundsOf(s, sig) ==
    CASE s.sig # sig         -> 1
      [] s.sig = sig /\ s.rounds < LoopLimit -> s.rounds + 1
      [] OTHER               -> LoopLimit

\* AGENT_MESSAGE_END with tool calls: track them and record the signature.
ToolRound(s, calls, sig) ==
    ToolsReported(
        [s EXCEPT !.tools = [t \in ToolIds |->
                                IF t \in calls THEN IntentToolCall(t) ELSE "none"],
                  !.sig = sig,
                  !.rounds = RoundsOf(s, sig)])

-----------------------------------------------------------------------------
(* The calls of the API.                                                   *)

Used == Elems(inbox) \cup stray

\* Follow-ups _replayPendingFollowUps re-queues: logged in this process run,
\* not yet delivered, not dropped.
ReplayableGhosts == (fresh \ steered) \ Elems(delivered)
Replayable == (fresh \ steered) \ (Elems(delivered) \cup dropped)

Before(a, b) == \E j \in DOMAIN inbox : \E i \in 1..(j - 1) : inbox[i] = a /\ inbox[j] = b

\* q lists them in the order of the log.
IsReplay(q) ==
    /\ Elems(q) = Replayable
    /\ \A j \in DOMAIN q : \A i \in 1..(j - 1) : Before(q[i], q[j])

\* prompt() up to its first await: reactor.start() has subscribed and replayed.
Prompt ==
    /\ phase = "idle"
    /\ orphans < MaxOrphans
    /\ \E n \in 0..Len(inbox) : \E q \in [1..n -> Elems(inbox)] :
          IsReplay(q) /\ reactor' = NewReactor(q)
    /\ phase' = "starting"
    /\ UNCHANGED <<orphans, lastReason, mail, delivered, dropped>>

\* The microtask after it: the prompt's own USER_MESSAGE is appended.
SendPrompt ==
    /\ phase = "starting"
    /\ phase' = "running"
    /\ reactor' = UserMessage(reactor)
    /\ UNCHANGED <<orphans, lastReason, mail, delivered, dropped>>

\* May the user interrupt now?
Interruptible == phase = "running" \/ (SameTickInputs /\ phase = "starting")

\* USER_INTERRUPT that always completes the turn itself.
InterruptCompletes(s) ==
    TurnCompleted([s EXCEPT !.interrupted = TRUE, !.retry = 0], "aborted", FALSE)

\* USER_INTERRUPT, with (s already holds its message) or without content: the
\* signal and the compaction are aborted, and a scheduled retry completes the
\* turn at once.
Interrupt(s) ==
    LET i == [s EXCEPT !.interrupted = TRUE,
                       !.compaction = IF @ = "none" THEN "none" ELSE "cancelled"]
    IN  IF s.retry > 0
        THEN TurnCompleted([i EXCEPT !.retry = 0], "aborted", FALSE)
        ELSE Proceed(i)

Abort ==
    /\ Interruptible
    /\ Interrupt([reactor EXCEPT !.abortedByUser = TRUE])
    /\ UNCHANGED mail

Steer(m) ==
    /\ Interruptible
    /\ m \notin Used
    /\ inbox' = Append(inbox, m)
    /\ steered' = steered \cup {m}
    /\ fresh' = fresh \cup {m}
    /\ Interrupt([reactor EXCEPT !.queue = Append(@, m)])
    /\ UNCHANGED stray

\* steer() while nothing is processed is a plain USER_MESSAGE nobody handles.
SteerIdle(m) ==
    /\ phase = "idle"
    /\ m \notin Used
    /\ stray' = stray \cup {m}
    /\ UNCHANGED <<phase, reactor, orphans, lastReason, inbox, steered, fresh, delivered, dropped>>

\* USER_FOLLOWUP_QUEUED: logged, and queued when a reactor is subscribed.
FollowUp(m) ==
    /\ m \notin Used
    /\ inbox' = Append(inbox, m)
    /\ fresh' = fresh \cup {m}
    /\ reactor' = IF phase = "idle" THEN reactor
                  ELSE [reactor EXCEPT !.queue = Append(@, m)]
    /\ UNCHANGED <<phase, orphans, lastReason, steered, stray, delivered, dropped>>

\* compact() during a cycle; between cycles the request is only recorded.
Compact ==
    /\ phase # "idle"
    /\ reactor.compaction = "none"
    /\ Proceed(RequestCompaction(reactor))
    /\ UNCHANGED mail

-----------------------------------------------------------------------------
(* What the awaits of a running cycle are resolved by.                     *)

LlmDone == [reactor EXCEPT !.llm = @ - 1]

\* The stream ends in a message without tool calls, or in any message at all
\* when the signal is aborted.
LlmAnswers ==
    /\ phase = "running" /\ reactor.llm > 0
    /\ IF reactor.interrupted
       THEN TurnCompleted(LlmDone, "aborted", FALSE)
       ELSE \/ TurnCompleted(LlmDone, "stop", FALSE)
            \/ \E retryable \in BOOLEAN : TurnCompleted(LlmDone, "error", retryable)
    /\ UNCHANGED mail

\* It ends with stop reason tool_use.
LlmCallsTools ==
    /\ phase = "running" /\ reactor.llm > 0
    /\ ~reactor.interrupted
    /\ \E calls \in (SUBSET ToolIds) \ {{}} : \E sig \in Sigs : ToolRound(LlmDone, calls, sig)
    /\ UNCHANGED mail

\* complete() throws: LLM_CALL_FAILED.
LlmThrows ==
    /\ LlmMayThrow
    /\ phase = "running" /\ reactor.llm > 0
    /\ \E retryable \in BOOLEAN :
          IF CanRetry(LlmDone, retryable)
          THEN ScheduleRetry(LlmDone) /\ UNCHANGED lastReason
          ELSE TurnCompleted(LlmDone, "error", FALSE)
    /\ UNCHANGED mail

\* A retry timer fires; under an aborted signal it does nothing.
RetryTimer ==
    /\ phase = "running" /\ reactor.retry > 0
    /\ LET s == [reactor EXCEPT !.retry = @ - 1]
       IN  Proceed(IF s.interrupted THEN s ELSE RequestTurn([s EXCEPT !.attempt = @ + 1]))
    /\ UNCHANGED mail

\* executeTool returns or throws; either way TOOL_EXECUTION_END follows.
ToolEnds(t) ==
    /\ phase = "running" /\ reactor.tools[t] = "running"
    /\ ToolsReported([reactor EXCEPT !.tools[t] = "done"])
    /\ UNCHANGED mail

\* USER_APPROVAL resolves the promise; the tool starts without a look at the
\* abort signal.
Approve(t) ==
    /\ phase = "running" /\ reactor.tools[t] = "approval"
    /\ Proceed([reactor EXCEPT !.tools[t] = "running"])
    /\ UNCHANGED mail

\* USER_REJECTION: an error result stands in for the execution.
Reject(t) ==
    /\ phase = "running" /\ reactor.tools[t] = "approval"
    /\ ToolsReported([reactor EXCEPT !.tools[t] = "done"])
    /\ UNCHANGED mail

\* compact() of this cycle's compaction policy returns or throws.
CompactionEnds ==
    /\ phase # "idle" /\ reactor.compaction # "none"
    /\ Proceed([reactor EXCEPT !.compaction = "none"])
    /\ UNCHANGED mail

\* The same for a cycle that has ended.
OrphanEnds ==
    /\ orphans > 0
    /\ orphans' = orphans - 1
    /\ UNCHANGED <<phase, reactor, lastReason, mail, delivered, dropped>>

\* The process dies, or a new runtime is built on the same store: a new
\* RUNTIME_STARTED is logged and every volatile thing is gone.
Restart ==
    /\ MayCrash
    /\ phase' = "idle"
    /\ reactor' = NewReactor(<<>>)
    /\ orphans' = 0
    /\ fresh' = {}
    /\ UNCHANGED <<lastReason, inbox, steered, stray, delivered, dropped>>

-----------------------------------------------------------------------------
Tool(t) == ToolEnds(t) \/ Approve(t) \/ Reject(t)

Input(m) == Steer(m) \/ SteerIdle(m) \/ FollowUp(m)

Next ==
    \/ Prompt \/ SendPrompt \/ Abort \/ Compact
    \/ \E m \in Msgs : Input(m)
    \/ LlmAnswers \/ LlmCallsTools \/ LlmThrows \/ RetryTimer
    \/ \E t \in ToolIds : Tool(t)
    \/ CompactionEnds \/ OrphanEnds \/ Restart

Spec == Init /\ [][Next]_vars

(* The event loop runs microtasks and timers, a tool call returns, and the  *)
(* LLM client's stream ends.  Nothing obliges the user to do anything.      *)
Fairness ==
    /\ WF_vars(SendPrompt)
    /\ WF_vars(LlmAnswers \/ LlmCallsTools \/ LlmThrows)
    /\ WF_vars(RetryTimer)
    /\ \A t \in ToolIds : WF_vars(ToolEnds(t))

FairSpec == Spec /\ Fairness
-----------------------------------------------------------------------------
(* Properties.                                                             *)

ReactorType ==
    [ llm : Nat, retry : Nat,
      tools : [ToolIds -> {"none", "approval", "running", "done"}],
      interrupted : BOOLEAN, abortedByUser : BOOLEAN,
      queue : Seq(Msgs), attempt : 0..MaxAttempts,
      sig : Sigs \cup {NoSig}, rounds : 0..LoopLimit,
      compaction : {"none", "running", "cancelled"} ]

\* Every variable holds a value of its kind; in particular the retry count of
\* a causal chain never passes maxAttempts (reactor.ts _scheduleRetry).
TypeOK ==
    /\ phase \in {"idle", "starting", "running"}
    /\ reactor \in ReactorType
    /\ orphans \in Nat
    /\ lastReason \in Reasons
    /\ inbox \in Seq(Msgs) /\ delivered \in Seq(Msgs)
    /\ steered \subseteq Msgs /\ fresh \subseteq Msgs
    /\ dropped \subseteq Msgs /\ stray \subseteq Msgs

ToolsPending(s) == \E t \in ToolIds : s.tools[t] \in {"approval", "running"}

\* How many things the reactor is waiting for: LLM calls, timers, tool rounds.
Waits(s) == s.llm + s.retry + (IF ToolsPending(s) THEN 1 ELSE 0)

\* One turn at a time: a running cycle never has two LLM calls, an LLM call and
\* a tool round, or either of them and a retry timer outstanding; and when
\* prompt() is not running its turn, nothing of it is outstanding at all (so
\* when prompt() resolves no call of the cycle is still in flight).
OneActivity ==
    /\ phase = "running" => Waits(reactor) <= 1
    /\ phase # "running" => Waits(reactor) = 0 /\ reactor.tools = NoTools

\* A running cycle waits for something: no handler returns without having
\* completed the turn or started what will resume it.  Otherwise prompt()
\* never resolves and every later prompt() throws.
NeverStranded == phase = "running" => Waits(reactor) >= 1

\* Messages reach the conversation in the order they were logged, none of them
\* twice and none that was recorded as dropped, whatever is delivered, queued,
\* replayed by a later reactor, discarded by an abort or cut off by a restart.
MailInOrder ==
    LET sent == delivered \o reactor.queue
    IN  /\ \A j \in DOMAIN sent : \A i \in 1..(j - 1) : Before(sent[i], sent[j])
        /\ Elems(sent) \cap dropped = {}

\* No message logged in this process run disappears: it was delivered, it was
\* recorded as dropped, it is queued, or it is a follow-up the next prompt()
\* will replay.
NothingLost ==
    \A m \in fresh :
        \/ m \in Elems(delivered) \cup dropped \cup Elems(reactor.queue)
        \/ phase = "idle" /\ m \notin steered

\* After abort() the cycle makes no further LLM call and delivers no message,
\* whatever completes late: tool results, retry timers, the turn itself.  Nor
\* does the compaction policy start a compaction when the turn ends at last.
AbortStopsCalls ==
    [][phase = "running" /\ reactor.abortedByUser =>
        /\ phase' = "running" => reactor'.llm <= reactor.llm /\ delivered' = delivered
        /\ orphans' > orphans => reactor.compaction # "none"]_vars

\* abort() ends the cycle: "the settled promise resolves naturally when the
\* current turn finishes" (runtime.ts abort).
AbortSettles == (phase # "idle" /\ reactor.abortedByUser) ~> (phase = "idle")

\* With one signature to choose from, a model that keeps calling tools is
\* stopped by loop detection, so every prompt() resolves.
PromptSettles == (phase # "idle") ~> (phase = "idle")
=============================================================================
