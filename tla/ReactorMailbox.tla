--------------------------- MODULE ReactorMailbox ---------------------------
(* The prompt cycle implements Mailbox.                                    *)
EXTENDS Reactor

\* While a cycle runs the messages that wait are the reactor's queue; between
\* cycles they are the follow-ups the next reactor would replay.
Waiting ==
    IF phase = "idle"
    THEN CHOOSE q \in UNION {[1..n -> Elems(inbox)] : n \in 0..Len(inbox)} : IsReplay(q)
    ELSE reactor.queue

M == INSTANCE Mailbox WITH waiting <- Waiting

\* Whatever turns, retries, interrupts, aborts and restarts happen, each message
\* is delivered in log order at most once, or recorded as dropped, or forgotten
\* by a restart; no reactor delivers what an earlier one delivered or dropped.
ImplementsMailbox == M!Spec
=============================================================================
