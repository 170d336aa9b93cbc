------------------------------ MODULE SubAgent ------------------------------
(***************************************************************************)
(* One delegation: delegateOne (src/core/tools/delegate-agent.ts) over an   *)
(* RpcClient (packages/rpc/rpc-client.ts) and the sub-agent process behind  *)
(* it.  The caller waits for the reply to its prompt, for the end of the    *)
(* turn, for the text, for the process to exit; each wait has its own       *)
(* timer, and the process may answer, stay silent or die at any moment.     *)
(*                                                                         *)
(* The caller runs many delegations at once, under one abort signal.        *)
(* Left out: the texts, stderr, and an error on the stdin pipe of a process *)
(* that dies while it is written to.                                        *)
(***************************************************************************)
EXTENDS Naturals, Sequences

CONSTANTS
    Targets,        \* the delegations
    MaxTurns        \* bound on the turns a prompt takes (retries, follow-ups)

ASSUME SubAgentAssumption == MaxTurns \in Nat \ {0}

VARIABLES
    agents,         \* the delegation of each target
    aborted         \* signal.aborted

Phases == {"unclaimed", "starting", "prompting", "collecting", "aborting", "asking",
           "stopping", "done"}
Requests == {"prompt", "abort", "text"}
Lines == Requests \cup {"turn"}     \* a reply names its request, by the id it carries

Delegation ==
    [phase     : Phases,
     process   : {"none", "up", "down"},
     asked     : Seq(Requests),     \* stdin lines the process has not answered
     pipe      : Seq(Lines),        \* stdout lines not read yet
     working   : BOOLEAN,           \* the sub-agent has a turn in progress
     turns     : 0 .. MaxTurns,     \* history: AGENT_TURN_COMPLETED events written
     collector : {"off", "armed", "met", "late"},   \* eventsPromise and its timer
     result    : {"none", "ok", "failed"}]

Unclaimed ==
    [phase |-> "unclaimed", process |-> "none", asked |-> <<>>, pipe |-> <<>>,
     working |-> FALSE, turns |-> 0, collector |-> "off", result |-> "none"]

\* client.start() spawns the process; a spawn error is a process that dies at once.
Spawn(a) == [a EXCEPT !.phase = "starting", !.process = "up"]

Becomes(t, a) == agents' = [agents EXCEPT ![t] = a] /\ UNCHANGED aborted

-----------------------------------------------------------------------------
(* delegateOne                                                             *)

Waiting(a) == a.phase \in {"prompting", "aborting", "asking"}   \* a send() is pending
Reading(a) == Waiting(a) \/ a.phase \in {"starting", "collecting"}

\* catch and finally: the result is recorded, stop() sends SIGTERM and stops reading.
Finish(a, result) ==
    [a EXCEPT !.phase = "stopping", !.result = result, !.asked = <<>>, !.pipe = <<>>]

Send(a, phase, request) == [a EXCEPT !.phase = phase, !.asked = Append(@, request)]

\* promptAndWait returned: only now is the signal looked at.
Collected(a) ==
    IF aborted THEN Send(a, "aborting", "abort") ELSE Send(a, "asking", "text")

\* 100 ms after the spawn: a process that has exited fails, and so does an
\* aborted call; otherwise the collector is armed and the prompt sent.
Started(t) ==
    LET a == agents[t]
    IN  /\ a.phase = "starting"
        /\ Becomes(t, IF a.process = "down" \/ aborted THEN Finish(a, "failed")
                      ELSE [Send(a, "prompting", "prompt") EXCEPT !.collector = "armed"])

\* Bug: promptAndWait returns with the reply to the prompt.
ReceiveReply(a, line) ==
    CASE line = "prompt" /\ a.phase = "prompting" -> {Collected(a)}
      [] line = "abort" /\ a.phase = "aborting"   -> {Send(a, "asking", "text")}
      [] line = "text" /\ a.phase = "asking"      -> {Finish(a, "ok"), Finish(a, "failed")}
      [] OTHER -> {a}

\* handleLine: a reply resolves the pending request it names.
Receive(a, line) ==
    CASE line = "turn" /\ a.collector = "armed" ->
            LET met == [a EXCEPT !.collector = "met"]
            IN  {IF a.phase = "collecting" THEN Collected(met) ELSE met}
      [] line = "prompt" /\ a.phase = "prompting" ->
            {IF a.collector = "met" THEN Collected(a) ELSE [a EXCEPT !.phase = "collecting"]}
      [] line = "abort" /\ a.phase = "aborting" -> {Send(a, "asking", "text")}
      [] line = "text" /\ a.phase = "asking" ->     \* the reply may be an error
            {Finish(a, "ok"), Finish(a, "failed")}
      [] OTHER -> {a}       \* an event nobody waits for, or a reply that comes too late

ReadLine(t) ==
    /\ Reading(agents[t]) /\ agents[t].pipe # <<>>
    /\ \E a \in Receive([agents[t] EXCEPT !.pipe = Tail(@)], Head(agents[t].pipe)) :
          Becomes(t, a)

\* Bug: only the prompt has a timer.
PromptTimeout(t) ==
    /\ agents[t].phase = "prompting"
    /\ Becomes(t, Finish(agents[t], "failed"))

\* 30 s without a reply: the request is rejected.  abort() is best effort.
ReplyTimeout(t) ==
    LET a == agents[t]
    IN  /\ Waiting(a)
        /\ Becomes(t, IF a.phase = "aborting" THEN Send(a, "asking", "text")
                      ELSE Finish(a, "failed"))

\* The collector's timer ends the wait for the turn.
CollectTimeout(t) ==
    /\ agents[t].collector = "armed" /\ agents[t].phase = "collecting"
    /\ Becomes(t, [Finish(agents[t], "failed") EXCEPT !.collector = "late"])

\* The same timer, when nobody awaits eventsPromise: the reply is still pending,
\* or it has timed out and the promise was abandoned with its timer running.
\* The rejection is unhandled.
Unhandled(t) == agents[t].collector = "armed" /\ agents[t].phase # "collecting"

\* Bug: the caller goes on before the process has exited.
StoppedAtOnce(a) == [a EXCEPT !.phase = "done"]

\* stop() returns: the process has exited, or was killed after a second.
Stopped(a) == [a EXCEPT !.phase = "done", !.process = "down", !.working = FALSE]

-----------------------------------------------------------------------------
(* The sub-agent process, in RPC mode.  After SIGTERM nothing it does is read. *)

\* It answers the next command; a prompt starts a turn, or is refused, which
\* the reply does not tell.
Answer(t) ==
    LET a == agents[t]
    IN  /\ a.process = "up" /\ Reading(a) /\ a.asked # <<>>
        /\ \E start \in {FALSE, Head(a.asked) = "prompt"} :
              Becomes(t, [a EXCEPT !.asked = Tail(@), !.pipe = Append(@, Head(a.asked)),
                                   !.working = @ \/ start])

\* A turn completes; a retry or a follow-up may begin another one.
TurnEnds(t) ==
    LET a == agents[t]
    IN  /\ a.process = "up" /\ Reading(a) /\ a.working
        /\ \E more \in {FALSE, a.turns + 1 < MaxTurns} :
              Becomes(t, [a EXCEPT !.turns = @ + 1, !.pipe = Append(@, "turn"),
                                   !.working = more])

\* What it has written stays in the pipe.
Die(t) ==
    /\ agents[t].process = "up" /\ Reading(agents[t])
    /\ Becomes(t, [agents[t] EXCEPT !.process = "down", !.working = FALSE])

DelegationStep(t) ==
    \/ Started(t) \/ ReadLine(t) \/ ReplyTimeout(t) \/ CollectTimeout(t)
    \/ Answer(t) \/ TurnEnds(t) \/ Die(t)

-----------------------------------------------------------------------------
\* A delegation that succeeds has seen a turn of the sub-agent end: no late or
\* foreign line is taken for it (promptAndWait, handleLine).
OkHadTurn == \A t \in Targets : agents[t].result = "ok" => agents[t].turns >= 1
=============================================================================
