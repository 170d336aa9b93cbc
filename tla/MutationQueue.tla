--------------------------- MODULE MutationQueue ---------------------------
(***************************************************************************)
(* withFileMutationQueue (src/core/tools/file-mutation-queue.ts) under its  *)
(* two users, the edit and the write tool: calls that change one file, in   *)
(* one process.  A call is bound to the turn that made it; abort() aborts   *)
(* the turn, which rejects the call's promise at once while its file        *)
(* operation is still under way.                                            *)
(*                                                                         *)
(* The file may be reached by several paths (a symbolic link on the way).   *)
(* Its content is the set of calls whose change it holds.  Left out: edits  *)
(* that do not apply (they end like a missing file), other programs.        *)
(***************************************************************************)
EXTENDS Naturals, FiniteSets

CONSTANTS
    ToolCalls, NoCall,
    IsEdit,         \* the calls of the edit tool; the others are writes
    PathOf,         \* [ToolCalls -> Paths]: the absolute path each call names
    RealPath,       \* what realpathSync answers for every path, once the file exists
    TurnOf          \* [ToolCalls -> Nat]: the turn that makes the call

ASSUME MutationAssumption ==
    NoCall \notin ToolCalls /\ IsEdit \subseteq ToolCalls /\ TurnOf \in [ToolCalls -> Nat]

QueueKeys == {PathOf[c] : c \in ToolCalls} \cup {RealPath}

VARIABLES
    queues,     \* fileMutationQueues: the last call of each key, NoCall without an entry
    call,       \* the calls
    content,    \* the changes in the file, or {NoCall} while there is no file
    abortedTurns,
    landedAfter \* history: which calls changed the file after this one

mutationVars == <<queues, call, content, abortedTurns, landedAfter>>

Missing == {NoCall}

ToolCall ==
    [stage : {"new", "queued", "access", "reading", "writing", "landed", "over"},
     key : QueueKeys, after : ToolCalls \cup {NoCall},   \* the call whose end it awaits
     base : SUBSET ToolCalls,                       \* what an edit has read
     promise : {"pending", "ok", "error"}]

Is(c, stage) == call[c].stage = stage
Settled(c) == call[c].promise # "pending"
Cancelled(c) == TurnOf[c] \in abortedTurns

\* An entry is deleted by its last user only.
\* Bug: by the first one to end.
WithoutAny(Q, c, key) == [Q EXCEPT ![key] = NoCall]
Without(Q, c, key) == IF Q[key] = c THEN [Q EXCEPT ![key] = NoCall] ELSE Q

\* The promise settles: the finally block lets the next call begin.
Settle(c, result, stage) ==
    /\ call' = [call EXCEPT ![c].promise = result, ![c].stage = stage]
    /\ queues' = Without(queues, c, call[c].key)

Steps(c, stage) == call' = [call EXCEPT ![c].stage = stage] /\ UNCHANGED queues

-----------------------------------------------------------------------------
(* The actions                                                             *)

\* getMutationQueueKey: the real path, or the path itself while there is no file.
KeyOf(c) == IF content = Missing THEN PathOf[c] ELSE RealPath

\* The model asks for the call.  A turn begins when the calls of the last have settled.
Request(c) ==
    /\ Is(c, "new") /\ ~Cancelled(c)
    /\ \A d \in ToolCalls : TurnOf[d] < TurnOf[c] => Settled(d) \/ (Is(d, "new") /\ Cancelled(d))
    /\ \A d \in ToolCalls : TurnOf[d] > TurnOf[c] => Is(d, "new")
    /\ call' = [call EXCEPT ![c].stage = "queued", ![c].key = KeyOf(c), ![c].after = queues[KeyOf(c)]]
    /\ queues' = [queues EXCEPT ![KeyOf(c)] = c]
    /\ UNCHANGED <<content, abortedTurns, landedAfter>>

MayStart(c) == Is(c, "queued") /\ (call[c].after # NoCall => Settled(call[c].after))

Start(c) ==
    /\ MayStart(c)
    /\ IF Cancelled(c) THEN Settle(c, "error", "over") ELSE Steps(c, "access")
    /\ UNCHANGED <<content, abortedTurns, landedAfter>>

\* access() of an edit, mkdir() of a write.
Accessed(c) ==
    /\ Is(c, "access")
    /\ \/ Cancelled(c) /\ Steps(c, "over")
       \/ ~Cancelled(c) /\ c \in IsEdit /\ content = Missing /\ Settle(c, "error", "over")
       \/ ~Cancelled(c) /\ c \in IsEdit /\ content # Missing /\ Steps(c, "reading")
       \/ ~Cancelled(c) /\ c \notin IsEdit /\ Steps(c, "writing")
    /\ UNCHANGED <<content, abortedTurns, landedAfter>>

ReadFile(c) ==
    /\ Is(c, "reading")
    /\ call' = [call EXCEPT ![c].stage = IF Cancelled(c) THEN "over" ELSE "writing",
                            ![c].base = content]
    /\ UNCHANGED <<queues, content, abortedTurns, landedAfter>>

\* The write takes effect, whatever has become of the call.
WriteLands(c) ==
    /\ Is(c, "writing") /\ Steps(c, "landed")
    /\ content' = (IF c \in IsEdit THEN call[c].base ELSE {}) \cup {c}
    /\ landedAfter' = [d \in ToolCalls |-> IF Is(d, "landed") \/ Is(d, "over")
                                           THEN landedAfter[d] \cup {c} ELSE landedAfter[d]]
    /\ UNCHANGED abortedTurns

WriteReported(c) ==
    /\ Is(c, "landed")
    /\ IF Cancelled(c) THEN Steps(c, "over") ELSE Settle(c, "ok", "over")
    /\ UNCHANGED <<content, abortedTurns, landedAfter>>

\* abort(): every call that has begun and not settled is rejected.
AbortTurn(t) ==
    /\ t \notin abortedTurns
    /\ \A c \in ToolCalls : TurnOf[c] > t => Is(c, "new")
    /\ abortedTurns' = abortedTurns \cup {t}
    /\ LET rejected == {c \in ToolCalls : TurnOf[c] = t /\ ~Settled(c) /\ ~Is(c, "new") /\ ~Is(c, "queued")}
       IN  /\ call' = [c \in ToolCalls |-> IF c \in rejected THEN [call[c] EXCEPT !.promise = "error"]
                                           ELSE call[c]]
           /\ queues' = [k \in QueueKeys |-> IF queues[k] \in rejected THEN NoCall ELSE queues[k]]
    /\ UNCHANGED <<content, landedAfter>>

NewToolCall == [stage |-> "new", key |-> RealPath, after |-> NoCall, base |-> {}, promise |-> "pending"]

MutationInit ==
    /\ queues = [k \in QueueKeys |-> NoCall] /\ call = [c \in ToolCalls |-> NewToolCall]
    /\ content \in {{}, Missing} /\ abortedTurns = {}
    /\ landedAfter = [c \in ToolCalls |-> {}]

MutationNext ==
    \/ \E c \in ToolCalls :
           Request(c) \/ Start(c) \/ Accessed(c) \/ ReadFile(c) \/ WriteLands(c) \/ WriteReported(c)
    \/ \E t \in {TurnOf[c] : c \in ToolCalls} : AbortTurn(t)

MutationSpec == MutationInit /\ [][MutationNext]_mutationVars

-----------------------------------------------------------------------------
(* Properties                                                              *)

MutationTypeOK ==
    /\ queues \in [QueueKeys -> ToolCalls \cup {NoCall}]
    /\ call \in [ToolCalls -> ToolCall]
    /\ content = Missing \/ content \subseteq ToolCalls
    /\ abortedTurns \subseteq {TurnOf[c] : c \in ToolCalls}

\* An entry of the map is a call that has not ended, and a key some call has not
\* ended with has one: no entry leaks, and none is deleted that a later call
\* needs in order to wait.
QueueHasUser ==
    /\ \A k \in QueueKeys : queues[k] # NoCall => ~Settled(queues[k])
    /\ \A c \in ToolCalls :
           call[c].stage \notin {"new", "over"} /\ ~Settled(c) => queues[call[c].key] # NoCall

\* A change that an edit has reported stays in the file until a write replaces
\* the file, unless a call landed after it that was rejected while it wrote, or
\* that had been queued under another path because the file did not exist.
ReportedEditStays ==
    \A c \in IsEdit :
        call[c].promise = "ok" /\ c \notin content =>
            \E d \in landedAfter[c] :
                d \notin IsEdit \/ call[d].promise = "error" \/ call[d].key # call[c].key

\* The queue of calls on a file neither leaks nor loses its tail, and so an edit
\* that was reported stays.
EditsKept == QueueHasUser /\ ReportedEditStays
=============================================================================
