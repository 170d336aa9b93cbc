------------------------------ MODULE Mailbox ------------------------------
(***************************************************************************)
(* What the runtime promises about the messages a user sends while a prompt *)
(* is being processed, or before the next one: each is logged, waits its    *)
(* turn, and leaves the queue by being delivered, in the order of the log,  *)
(* or by being discarded by an abort, which is recorded, or by a restart.   *)
(***************************************************************************)
EXTENDS Sequences

CONSTANT Msgs

VARIABLES
    inbox,      \* every message logged, in log order
    waiting,    \* those still to be delivered, in delivery order
    delivered,  \* those delivered, in delivery order
    dropped     \* those discarded by an abort

vars == <<inbox, waiting, delivered, dropped>>

Elems(s) == {s[i] : i \in DOMAIN s}

Init == inbox = <<>> /\ waiting = <<>> /\ delivered = <<>> /\ dropped = {}

\* A step may log one new message; a is that message, or nothing.
Arrivals == {<<>>} \cup {<<m>> : m \in Msgs \ Elems(inbox)}

Keep(w) == waiting' = w /\ UNCHANGED <<delivered, dropped>>

Deliver(w) ==
    /\ w # <<>>
    /\ delivered' = Append(delivered, Head(w))
    /\ waiting' = Tail(w)
    /\ UNCHANGED dropped

Discard(w) ==
    /\ dropped' = dropped \cup Elems(w)
    /\ waiting' = <<>>
    /\ UNCHANGED delivered

Forget == waiting' = <<>> /\ UNCHANGED <<inbox, delivered, dropped>>

Next ==
    \/ Forget
    \/ \E a \in Arrivals :
          /\ inbox' = inbox \o a
          /\ LET w == waiting \o a IN Keep(w) \/ Deliver(w) \/ Discard(w)

Spec == Init /\ [][Next]_vars
=============================================================================
