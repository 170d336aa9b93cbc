-------------------------- MODULE InteractiveMode --------------------------
(***************************************************************************)
(* The terminal interface (packages/tui/interactive-mode.ts) in front of    *)
(* the runtime of module Reactor: what it does with a text the user submits *)
(* and with the Escape key depends on flags it keeps up to date from the    *)
(* runtime's events.                                                        *)
(*                                                                         *)
(* The interface subscribes before any reactor does, and hears each event   *)
(* within the step that appends it.  A key is never handled between two     *)
(* microtasks, so while the loop is about to go on, or texts are being sent *)
(* after a compaction, nothing else happens.                                *)
(***************************************************************************)
EXTENDS Reactor

CONSTANT InitialPrompts      \* messages given on the command line

ASSUME InterfaceAssumption == InitialPrompts \in Nat /\ SameTickInputs

VARIABLES
    ui,          \* the fields of InteractiveMode
    loop,        \* run(): "asks" for input, or "prompts" and awaits the runtime,
    initial,     \* and the command line's messages it has still to prompt
    sending,     \* what flushCompactionQueue has still to send, and whether it
    stage,       \* has to prompt, is in the tick of its prompt, or past it
    typed,       \* the texts submitted so far,
    prompted,    \* those given to a prompt that was accepted,
    editor,      \* those put back into the editor,
    abandoned,   \* and those discarded by going to another session
    untold,      \* lost: submitted to a prompt that waits (Stalled) or has settled
    mute,        \* a command has removed the loader of the turn under way
    tangled      \* a handler of Escape was saved that was not the normal one

history == <<typed, prompted, editor, abandoned, untold, mute, tangled>>
uiVars == <<ui, loop, initial, sending, stage, history>>

Texts(q) == {q[i].text : i \in DOMAIN q}
Queued(m, mode) == [text |-> m, mode |-> mode]

-----------------------------------------------------------------------------
(* handleModeEvent                                                         *)

TurnStarted(u) ==
    [u EXCEPT !.streaming = TRUE, !.working = TRUE, !.retrySaved = "none",
              !.escape = IF u.retrySaved = "none" THEN @ ELSE u.retrySaved]

\* TurnEndedStreaming is a mistake.
TurnEndedStreaming(u) == [u EXCEPT !.working = FALSE]
TurnEnded(u) == [u EXCEPT !.streaming = FALSE, !.working = FALSE]

CompactionStarted(u) ==
    [u EXCEPT !.compacting = TRUE, !.compactionSaved = u.escape, !.escape = "compaction"]

CompactionOver(u) ==
    [u EXCEPT !.compacting = FALSE, !.compactionSaved = "none",
              !.escape = IF u.compactionSaved = "none" THEN @ ELSE u.compactionSaved]

RetryScheduled(u) == [u EXCEPT !.retrySaved = u.escape, !.escape = "retry"]

RetryAborted(u) ==
    [u EXCEPT !.retrySaved = "none",
              !.escape = IF u.retrySaved = "none" THEN @ ELSE u.retrySaved]

-----------------------------------------------------------------------------
(* What the interface hears of a step of the runtime                       *)

Compacting == reactor.compaction # "none" \/ orphans > 0

StartsCompaction ==
    reactor.compaction = "none" /\ (reactor'.compaction # "none" \/ orphans' > orphans)

\* A completion is followed by a retry, the next message, or a compaction.
HeardCompletion(u) ==
    LET e == TurnEnded(u)
    IN  CASE reactor'.retry > 0                          -> RetryScheduled(e)
          [] reactor'.retry = 0 /\ reactor'.llm > 0      -> TurnStarted(e)
          [] reactor'.retry + reactor'.llm = 0 /\ StartsCompaction -> CompactionStarted(e)
          [] OTHER                                       -> e

\* A round of tools is awaited, answered by the model, or the turn's last.
HeardTools(u) ==
    CASE reactor'.tools # NoTools -> u
      [] reactor'.tools = NoTools /\ reactor'.llm > 0 /\ delivered' = delivered -> TurnStarted(u)
      [] OTHER -> HeardCompletion(u)

\* An interrupt ends a retry wait and the turn with it.
HeardInterrupt(u) == IF reactor.retry > 0 THEN HeardCompletion(RetryAborted(u)) ELSE u

\* The loop asks for input again when its prompt has settled.
LoopGoesOn ==
    loop' = IF loop = "prompts" /\ phase' = "idle" /\ initial = 0 THEN "asks" ELSE loop

\* The interface's fields are u after a step of the runtime or a command.
Shows(u) ==
    /\ ui' = u
    /\ tangled' = (tangled \/ {u.retrySaved, u.compactionSaved} \cap {"retry", "compaction"} # {})

Hears(u) ==
    /\ Shows(u)
    /\ LoopGoesOn
    /\ mute' = (mute /\ u.streaming /\ ~u.working)

\* Neither a key nor I/O comes between two microtasks.
Quiet == sending = <<>> /\ phase # "starting" /\ ~(loop = "prompts" /\ phase = "idle")

RuntimeSteps ==
    /\ \/ stage \in {"none", "past"} /\ SendPrompt /\ Hears(IF reactor'.llm > 0 THEN TurnStarted(ui) ELSE ui)
       \/ Quiet /\ LlmAnswers /\ Hears(HeardCompletion(ui))
       \/ Quiet /\ LlmCallsTools /\ Hears(HeardTools(ui))
       \/ Quiet /\ LlmThrows /\ Hears(IF reactor'.retry > 0 THEN RetryScheduled(ui) ELSE HeardCompletion(ui))
       \/ Quiet /\ RetryTimer /\ Hears(IF reactor'.llm > 0 THEN TurnStarted(ui) ELSE ui)
       \/ Quiet /\ \E t \in ToolIds : Tool(t) /\ Hears(HeardTools(ui))
    /\ UNCHANGED <<initial, sending, stage, typed, prompted, editor, abandoned, untold>>

-----------------------------------------------------------------------------
(* Texts                                                                   *)

\* queueCompactionMessage
QueueText(m, mode) ==
    /\ ui' = [ui EXCEPT !.queue = Append(@, Queued(m, mode))]
    /\ UNCHANGED <<vars, loop, initial, sending, stage, prompted, editor, abandoned, untold, mute, tangled>>

\* To the runtime, in a turn.
SteerText(m) ==
    /\ IF phase = "idle" THEN SteerIdle(m) /\ Hears(ui) ELSE Steer(m) /\ Hears(HeardInterrupt(ui))
    /\ UNCHANGED <<initial, sending, stage, prompted, editor, abandoned, untold>>

FollowUpText(m) ==
    /\ FollowUp(m)
    /\ UNCHANGED <<ui, loop, initial, sending, stage, prompted, editor, abandoned, untold, mute, tangled>>

\* A turn is under way; or a prompt is processed, and waits to try again or, when
\* it was interrupted before it began, for nothing.
TurnUnderWay == phase = "running" /\ (reactor.llm > 0 \/ ToolsPending(reactor))
Stalled == phase # "idle" /\ ~TurnUnderWay

\* To the loop, if it asks; its prompt() throws when the runtime is processing,
\* and without a loop that asks the text goes to the editor's history alone.
GiveToLoop(m) ==
    /\ IF loop = "asks" /\ phase = "idle"
       THEN Prompt /\ loop' = "prompts" /\ prompted' = prompted \cup {m} /\ UNCHANGED untold
       ELSE /\ untold' = IF Stalled THEN untold \cup {m} ELSE untold
            /\ UNCHANGED <<vars, loop, prompted>>
    /\ UNCHANGED <<ui, initial, sending, stage, editor, abandoned, mute, tangled>>

\* An approval dialog takes the keys.
Dialog == \E t \in ToolIds : reactor.tools[t] = "approval"
Key == Quiet /\ ~Dialog

\* onSubmit
Submit(m) ==
    /\ Key /\ m \notin typed /\ typed' = typed \cup {m}
    /\ \/ ui.compacting /\ QueueText(m, "steer")
       \/ ~ui.compacting /\ ui.streaming /\ SteerText(m)
       \/ ~ui.compacting /\ ~ui.streaming /\ GiveToLoop(m)

\* handleFollowUp
SubmitFollowUp(m) ==
    /\ Key /\ m \notin typed /\ typed' = typed \cup {m}
    /\ \/ ui.compacting /\ QueueText(m, "followUp")
       \/ ~ui.compacting /\ ui.streaming /\ FollowUpText(m)

\* run() prompts the messages of the command line one after the other.
PromptInitial ==
    /\ loop = "prompts" /\ phase = "idle" /\ initial > 0 /\ sending = <<>>
    /\ Prompt
    /\ initial' = initial - 1
    /\ UNCHANGED <<ui, loop, sending, stage, history>>

\* restoreQueuedMessagesToEditor; the runtime's own queue is not asked.
RestoreQueue == editor' = editor \cup Texts(ui.queue)

Dequeue ==
    /\ Key /\ ui.queue # <<>>
    /\ RestoreQueue
    /\ ui' = [ui EXCEPT !.queue = <<>>]
    /\ UNCHANGED <<vars, loop, initial, sending, stage, typed, prompted, abandoned, untold, mute, tangled>>

\* onEscape: of a compaction or a retry it is abort() alone; otherwise abort()
\* if there is a loader.  Between prompts abort() reaches no reactor.
Escape ==
    /\ Key
    /\ ui.escape # "normal" \/ ui.working
    /\ LET u == IF ui.escape = "normal" THEN [ui EXCEPT !.queue = <<>>] ELSE ui
       IN  IF phase = "idle" THEN UNCHANGED vars /\ Hears(u) ELSE Abort /\ Hears(HeardInterrupt(u))
    /\ IF ui.escape = "normal" THEN RestoreQueue ELSE UNCHANGED editor
    /\ UNCHANGED <<initial, sending, stage, typed, prompted, abandoned, untold>>

\* handleCompactCommand; the request does nothing while a compaction of this
\* cycle runs or no prompt is processed.
CompactCommand ==
    /\ Key
    /\ LET u == [ui EXCEPT !.working = FALSE]
       IN  \/ Compact /\ Shows(CompactionStarted(u))
           \/ (phase = "idle" \/ reactor.compaction # "none") /\ UNCHANGED vars /\ Shows(u)
    /\ mute' = (mute \/ ui.working)
    /\ UNCHANGED <<loop, initial, sending, stage, typed, prompted, editor, abandoned, untold>>

\* renderCurrentSessionState after /rewind, which empties the editor, or after a
\* session is resumed, which stops the loader.
ChangeSession ==
    /\ Key
    /\ abandoned' = abandoned \cup Texts(ui.queue)
    /\ \E resumed \in BOOLEAN :
          /\ ui' = [ui EXCEPT !.queue = <<>>, !.working = @ /\ ~resumed]
          /\ mute' = (mute \/ (ui.working /\ resumed))
    /\ UNCHANGED <<vars, loop, initial, sending, stage, typed, prompted, editor, untold, tangled>>

-----------------------------------------------------------------------------
(* The end of a compaction                                                 *)

\* compaction_finished and compaction_aborted.  Bound: a text that has been sent
\* once is not queued when another compaction ends.
EndCompaction ==
    /\ Quiet
    /\ Texts(ui.queue) \cap Used = {}
    /\ CompactionEnds \/ OrphanEnds
    /\ ui' = [CompactionOver(ui) EXCEPT !.queue = <<>>]
    /\ sending' = ui.queue
    /\ stage' = IF ui.queue = <<>> THEN "none" ELSE "prompt"
    /\ UNCHANGED <<loop, initial, history>>

StageAfter(rest, next) == IF rest = <<>> THEN "none" ELSE next

\* flushCompactionQueue: the first text is a prompt; if a prompt is processed it
\* throws, and all are queued again, whether they are then sent or not.
FlushPrompt ==
    /\ stage = "prompt"
    /\ IF phase = "idle"
       THEN Prompt /\ prompted' = prompted \cup {Head(sending).text} /\ UNCHANGED ui
       ELSE ui' = [ui EXCEPT !.queue = sending] /\ UNCHANGED <<vars, prompted>>
    /\ sending' = Tail(sending)
    /\ stage' = StageAfter(Tail(sending), "tick")
    /\ UNCHANGED <<loop, initial, typed, editor, abandoned, untold, mute, tangled>>

\* The others are steered or queued by the runtime: one in the tick of the
\* prompt, whose own message is appended in the next.  If the one before has
\* settled a prompt after abort(), one that is steered still reaches its reactor,
\* which is stopped with it; what the log then says of it is left out.
FlushNext ==
    /\ stage = "tick" \/ (stage = "past" /\ phase # "starting")
    /\ LET m == Head(sending).text
       IN  \/ /\ Head(sending).mode = "steer" /\ phase # "idle"
              /\ Steer(m) /\ Hears(HeardInterrupt(ui))
              /\ UNCHANGED untold
           \/ /\ Head(sending).mode = "steer" /\ phase = "idle"
              /\ untold' = untold \cup {m}
              /\ UNCHANGED <<vars, ui, loop, mute, tangled>>
           \/ /\ Head(sending).mode = "followUp"
              /\ FollowUp(m)
              /\ UNCHANGED <<ui, loop, mute, tangled, untold>>
    /\ sending' = Tail(sending)
    /\ stage' = StageAfter(Tail(sending), "past")
    /\ UNCHANGED <<initial, typed, prompted, editor, abandoned>>

-----------------------------------------------------------------------------
InterfaceInit ==
    /\ Init
    /\ ui = [streaming |-> FALSE, compacting |-> FALSE, working |-> FALSE, escape |-> "normal",
             retrySaved |-> "none", compactionSaved |-> "none", queue |-> <<>>]
    /\ initial = InitialPrompts
    /\ loop = IF InitialPrompts = 0 THEN "asks" ELSE "prompts"
    /\ sending = <<>> /\ stage = "none"
    /\ typed = {} /\ prompted = {} /\ editor = {} /\ abandoned = {} /\ untold = {}
    /\ mute = FALSE /\ tangled = FALSE

InterfaceNext ==
    \/ RuntimeSteps \/ PromptInitial \/ EndCompaction \/ FlushPrompt \/ FlushNext
    \/ \E m \in Msgs : Submit(m) \/ SubmitFollowUp(m)
    \/ Dequeue \/ Escape \/ CompactCommand \/ ChangeSession

InterfaceSpec == InterfaceInit /\ [][InterfaceNext]_<<vars, uiVars>>

-----------------------------------------------------------------------------
(* Properties                                                              *)

Handlers == {"normal", "retry", "compaction"}

\* The shape of the interface's state.
InterfaceTypeOK ==
    /\ ui \in [streaming : BOOLEAN, compacting : BOOLEAN, working : BOOLEAN, escape : Handlers,
              retrySaved : Handlers \cup {"none"}, compactionSaved : Handlers \cup {"none"},
              queue : Seq([text : Msgs, mode : {"steer", "followUp"}])]
    /\ loop \in {"asks", "prompts"} /\ initial \in 0 .. InitialPrompts
    /\ sending \in Seq([text : Msgs, mode : {"steer", "followUp"}])
    /\ stage \in {"none", "prompt", "tick", "past"}
    /\ {typed, prompted, editor, abandoned, untold} \subseteq SUBSET Msgs

\* The flags say what the runtime does: a turn under way is shown and steered, none
\* is when no prompt is processed, and a compaction is shown while one runs.
FlagsTell ==
    /\ TurnUnderWay => ui.streaming
    /\ ui.streaming => phase = "running"
    /\ ~tangled => (ui.compacting <=> Compacting)

\* A text the user submits is in the log as a message of a prompt, queued, back
\* in the editor or left behind with its session, and never appended where
\* nobody answers; unless it came while a prompt was stalled.
TextsKept ==
    /\ stray = {}
    /\ typed \subseteq prompted \cup Elems(inbox) \cup Texts(ui.queue) \cup Texts(sending)
                         \cup editor \cup abandoned \cup untold

\* Escape interrupts whatever turn, retry or compaction goes on, and is the
\* editor's own key again when nothing does; except in a turn whose loader a
\* command has removed, and once handlers have been saved out of order.
EscapeInterrupts ==
    tangled \/
        /\ TurnUnderWay \/ reactor.retry > 0 \/ Compacting =>
               ui.escape # "normal" \/ ui.working \/ mute
        /\ phase = "idle" /\ ~Compacting => ui.escape = "normal"

\* What the user sees, types and interrupts is what the runtime does.
InterfaceSound == InterfaceTypeOK /\ FlagsTell /\ TextsKept /\ EscapeInterrupts
=============================================================================
