----------------------------- MODULE Compaction -----------------------------
(***************************************************************************)
(* Compaction of a session's context: the cut (src/core/compaction/         *)
(* compaction-engine.ts), the boundary event the reactor appends when the    *)
(* summary has been made (_onCompactionRequested of                         *)
(* src/core/runtime/reactor.ts) and what the projection shows afterwards    *)
(* (src/core/projection/session-projection.ts).  The log only grows; a      *)
(* COMPACTION_END tells the projection where to begin.                      *)
(*                                                                         *)
(* A compaction awaits the LLM while the conversation goes on, and the next *)
(* prompt's reactor may start another.  A session that continues another    *)
(* shows its parent's messages before its own.  Of a message the model      *)
(* keeps its kind and its estimated tokens; a summary carries, as history,  *)
(* the messages it stands for.  Left out: when a threshold asks for a       *)
(* compaction (it may be asked for at any time), a steer, after which an    *)
(* aborted cycle goes on, a parent that was compacted itself, branch         *)
(* summaries.                                                               *)
(***************************************************************************)
EXTENDS Integers, Sequences, FiniteSets, FiniteSetsExt, SequencesExt

CONSTANTS
    Sizes,          \* estimated tokens of a result; of other messages, the least
    KeepRecent,     \* keepRecentTokens
    MaxCalls,       \* bound on the tool calls of one assistant message
    MaxLog,         \* bound on the events of the log
    MaxRunning      \* bound on the compactions under way together

ASSUME CompactionAssumption ==
    /\ Sizes \subseteq Nat \ {0} /\ Sizes # {}
    /\ {KeepRecent, MaxCalls, MaxLog, MaxRunning} \subseteq Nat /\ MaxLog >= 2

VARIABLES
    log,        \* the context-relevant events, by sequence number
    inherited,  \* how many of them belong to the session continued by this one
    turn,       \* of the prompt cycle: "idle", "asking" the LLM, "tools", "answered"
    calls,      \* calls of the last assistant message that have no result yet
    compacting  \* the compactions that await their summary, in the order they began

compactionVars == <<log, inherited, turn, calls, compacting>>

Seqs == 1 .. MaxLog

LogEvent ==
    [kind : {"user", "assistant", "result", "notice", "end"},
     size : Sizes \cup {0},
     call : 0 .. MaxLog,        \* of a result: the assistant message that called
     firstKept : 0 .. MaxLog,   \* of a COMPACTION_END; 0 for ""
     covers : SUBSET Seqs,      \* history: what its summary stands for
     partial : BOOLEAN,         \* history: its summary was cut short
     failed : BOOLEAN]

Message(kind, size, call) ==
    [kind |-> kind, size |-> size, call |-> call, firstKept |-> 0, covers |-> {},
     partial |-> FALSE, failed |-> FALSE]

NoMessage == Message("end", 0, 0)

Compaction ==
    [firstKept : 0 .. MaxLog, covers : SUBSET Seqs, failed : BOOLEAN,
     current : BOOLEAN,     \* its reactor is that of the last prompt
     aborted : BOOLEAN]     \* its signal was set

Appends(events) == Len(log) + Len(events) <= MaxLog /\ log' = log \o events

-----------------------------------------------------------------------------
(* buildContext                                                            *)

Own == inherited + 1 .. Len(log)
Ends == {n \in Own : log[n].kind = "end"}
Messages == {n \in DOMAIN log : log[n].kind # "end"}
LatestEnd == Max({0} \cup Ends)

\* _applyCompactionBoundary: without a kept event to name, what came before is gone.
FirstKept == IF log[LatestEnd].firstKept # 0 THEN log[LatestEnd].firstKept ELSE LatestEnd + 1

OwnShown == IF LatestEnd = 0 THEN Messages \cap Own
            ELSE {n \in Messages \cap Own : n >= FirstKept}

Shown == 1 .. inherited \cup OwnShown
Covered == IF LatestEnd = 0 THEN {} ELSE log[LatestEnd].covers

-----------------------------------------------------------------------------
(* compact                                                                 *)

\* What follows the last summary in the context; all of it if there is none.
Compactable == IF LatestEnd = 0 THEN Shown ELSE OwnShown

\* isValidCutMessage; a FILE_MUTATION_APPLIED and a shell command are notices.
\* Bug: a result may be the first message kept.
ValidCutAny(n) == log[n].kind # "assistant"
ValidCut(n) == log[n].kind \in {"user", "notice"}

SizeFrom(S, n) == MapThenSumSet(LAMBDA m : log[m].size, {m \in S : m >= n})

\* findCutIndex: the first valid cut from where the recent messages reach the
\* budget; the last one if there is none; the first of all if they do not reach it.
Cut(S) ==
    LET cuts == {n \in S : ValidCut(n)}
        full == {n \in S : SizeFrom(S, n) >= KeepRecent}
        later == {n \in cuts : \A m \in full : n >= m}
    IN  IF cuts = {} THEN 0
        ELSE IF full = {} THEN Min(cuts)
        ELSE IF later = {} THEN Max(cuts) ELSE Min(later)

Before(S, cut) == {n \in S : n < cut}

NothingToCompact(S) == Cardinality(S) < 2 \/ Before(S, Cut(S)) = {}

Summarized(S) == Covered \cup Before(S, Cut(S))

Failure == [firstKept |-> 0, covers |-> {}, failed |-> TRUE, current |-> TRUE, aborted |-> FALSE]

\* COMPACTION_REQUESTED, at the end of a turn or by compact() during one.  The
\* context is read before the LLM is asked for the summary.
BeginCompaction ==
    /\ turn # "idle" /\ Len(compacting) < MaxRunning
    /\ \A i \in DOMAIN compacting : ~compacting[i].current
    /\ compacting' = Append(compacting,
           IF NothingToCompact(Compactable) THEN Failure
           ELSE [firstKept |-> Cut(Compactable),
                 covers |-> Summarized(Compactable), failed |-> FALSE, current |-> TRUE,
                 aborted |-> FALSE])
    /\ UNCHANGED <<log, inherited, turn, calls>>

\* COMPACTION_END, with a summary that stands for these messages.
Boundary(c, stands) ==
    [NoMessage EXCEPT !.firstKept = c.firstKept, !.covers = stands,
                      !.partial = (stands # c.covers), !.failed = c.failed]

\* The summary arrives, or the LLM fails: either way a COMPACTION_END.
Answered(c) ==
    \E d \in {c, Failure} : Appends(<<Boundary(d, d.covers)>>)

\* The signal cuts the answer of the LLM short, and what has come of it is an
\* answer like any other (only the stop reason "error" is refused); with no text, or
\* nothing to summarize, there is COMPACTION_ABORTED, which is no boundary.
CutShort(c) ==
    \/ UNCHANGED log
    \/ ~c.failed /\ \E stands \in SUBSET c.covers : Appends(<<Boundary(c, stands)>>)

EndCompaction(i) ==
    /\ IF compacting[i].aborted THEN CutShort(compacting[i]) ELSE Answered(compacting[i])
    /\ compacting' = RemoveAt(compacting, i)
    /\ UNCHANGED <<inherited, turn, calls>>

-----------------------------------------------------------------------------
(* The conversation                                                        *)

\* prompt(): a new reactor.
Prompt ==
    /\ turn = "idle" /\ turn' = "asking"
    /\ Appends(<<Message("user", Min(Sizes), 0)>>)
    /\ compacting' = [i \in DOMAIN compacting |-> [compacting[i] EXCEPT !.current = FALSE]]
    /\ UNCHANGED <<inherited, calls>>

\* Bug: an answer without calls waits for results.
AwaitsResults(n) == "tools"
TurnAfter(n) == IF n = 0 THEN "answered" ELSE "tools"

Assistant(n) ==
    /\ turn = "asking" /\ turn' = TurnAfter(n)
    /\ calls' = n
    /\ Appends(<<Message("assistant", Min(Sizes), 0)>>)
    /\ UNCHANGED <<inherited, compacting>>

LastAssistant == Max({n \in DOMAIN log : log[n].kind = "assistant"})

\* TOOL_EXECUTION_END, and a FILE_MUTATION_APPLIED if the tool changed a file.
Result(size) ==
    /\ turn = "tools" /\ calls' = calls - 1
    /\ turn' = IF calls = 1 THEN "asking" ELSE "tools"
    /\ \E notices \in {<<>>, <<Message("notice", Min(Sizes), 0)>>} :
          Appends(<<Message("result", size, LastAssistant)>> \o notices)
    /\ UNCHANGED <<inherited, compacting>>

\* A shell command of the user, a message of an extension: at any time.
Notice ==
    /\ Appends(<<Message("notice", Min(Sizes), 0)>>)
    /\ UNCHANGED <<inherited, turn, calls, compacting>>

\* A queued message begins the next turn of the same cycle.
FollowUp ==
    /\ turn = "answered" /\ turn' = "asking"
    /\ Appends(<<Message("user", Min(Sizes), 0)>>)
    /\ UNCHANGED <<inherited, calls, compacting>>

EndTurn ==
    /\ turn = "answered" /\ turn' = "idle"
    /\ UNCHANGED <<log, inherited, calls, compacting>>

\* abort(): a compaction of this reactor is told by its signal, and goes on; one of an
\* earlier reactor is out of reach.
AbortAll ==
    /\ turn # "idle" /\ turn' = "idle" /\ calls' = 0
    /\ compacting' = [i \in DOMAIN compacting |->
           [compacting[i] EXCEPT !.aborted = @ \/ compacting[i].current]]
    /\ UNCHANGED <<log, inherited>>

-----------------------------------------------------------------------------
\* A session of its own, or one that continues a short conversation.
CompactionInit ==
    /\ \E size \in Sizes :
          log \in {<<>>, <<Message("user", Min(Sizes), 0), Message("assistant", size, 0)>>}
    /\ inherited = Len(log)
    /\ turn = "idle" /\ calls = 0 /\ compacting = <<>>

CompactionNext ==
    \/ Prompt \/ Notice \/ FollowUp
    \/ \E size \in Sizes : Result(size)
    \/ \E n \in 0 .. MaxCalls : Assistant(n)
    \/ BeginCompaction \/ EndTurn \/ AbortAll
    \/ \E i \in DOMAIN compacting : EndCompaction(i)

CompactionSpec == CompactionInit /\ [][CompactionNext]_compactionVars

-----------------------------------------------------------------------------
(* Properties                                                              *)

CompactionTypeOK ==
    /\ log \in Seq(LogEvent) /\ Len(log) <= MaxLog /\ inherited \in 0 .. Len(log)
    /\ turn \in {"idle", "asking", "tools", "answered"} /\ calls \in 0 .. MaxCalls
    /\ (turn = "tools") = (calls > 0)
    /\ compacting \in Seq(Compaction) /\ Len(compacting) <= MaxRunning

Forgotten == Messages \ (Shown \cup Covered)

\* compaction-engine.ts:5: "callers record the returned first_kept_event_id on
\* COMPACTION_END so projections can ignore the summarized prefix": what the
\* context no longer shows is in the summary it shows instead.
NothingForgotten == Forgotten = {}

\* The same while compactions succeed, whatever compactions overlap or begin in a
\* session that shows its parent's messages: only one that failed, or whose summary
\* was cut short by an abort, can make the model forget a message.
OnlyFailureForgets ==
    \A n \in Forgotten : \E f \in Ends : (log[f].failed \/ log[f].partial) /\ n < f

\* The model does not get a message of the session twice, once as it was and
\* once in the summary, although a summary may end long after it began.
ShownOrSummarized == OwnShown \cap Covered = {}

\* A result is shown without its call only if the first message kept was logged
\* between the two (compaction.ts:256 has the rule "never cut at tool results"),
\* or a failure cut the context there.
ResultsStayWithCalls ==
    \A n \in Shown : log[n].kind = "result" /\ log[n].call \notin Shown =>
        \/ log[LatestEnd].failed
        \/ log[n].call < FirstKept /\ FirstKept < n /\ log[FirstKept].kind = "notice"

\* What the model is shown after any number of compactions, overlapping, aborted or
\* failed: every message, as it was or in a summary and not in both, and results with
\* the calls they answer, but for what was lost by one that failed or was cut short.
ContextComplete == OnlyFailureForgets /\ ShownOrSummarized /\ ResultsStayWithCalls
=============================================================================
