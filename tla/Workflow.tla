------------------------------ MODULE Workflow ------------------------------
(***************************************************************************)
(* executeWorkflow (src/core/workflow/engine.ts): a graph of nodes, each    *)
(* fanning out over its targets through mapWithConcurrency; waves of nodes  *)
(* whose dependencies have run, until all have or the run is aborted.  Each *)
(* target is a delegation of SubAgent.                                      *)
(*                                                                         *)
(* One action per resumption of the caller's event loop.  The last          *)
(* delegation of a wave to stop also ends its nodes, starts the next wave    *)
(* or returns, in the same step: there is no timer or I/O in between.       *)
(***************************************************************************)
EXTENDS SubAgent, FiniteSets, SequencesExt

CONSTANTS
    Order,          \* the nodes of the definition, in order
    Width,          \* number of targets (cwds) of each node
    Limit           \* its concurrency, clamped to 1..16

Nodes == Range(Order)

ASSUME WorkflowAssumption ==
    /\ Order \in Seq(Nodes) /\ Cardinality(Nodes) = Len(Order)
    /\ Targets = UNION {{n} \X (1 .. Width[n]) : n \in Nodes}
    /\ Width \in [Nodes -> Nat \ {0}] /\ Limit \in [Nodes -> 1 .. 16]

VARIABLES
    deps,       \* dependsOn of each node
    phase,      \* "called", "rejected" (not a valid definition), "running", "returned", "crashed"
    ran,        \* done: nodes whose run is recorded
    wave,       \* nodes of the current Promise.all
    ok          \* WorkflowRunResult.ok

wvars == <<deps, phase, aborted, ran, wave, agents, ok>>

-----------------------------------------------------------------------------
(* topoOrder: repeatedly takes a node without pending dependencies.        *)

\* The nodes of a set, in the order of the definition.
InOrder(nodes) ==
    LET listed[i \in 0 .. Len(Order)] ==
            IF i = 0 THEN <<>>
            ELSE IF Order[i] \in nodes THEN Append(listed[i - 1], Order[i])
            ELSE listed[i - 1]
    IN  listed[Len(Order)]

Indegree(n, taken) == Cardinality(deps[n] \ Range(taken))

\* One turn of the loop: what is ordered, what is queued.
OrderNext(s) ==
    LET order == Append(s.order, Head(s.queue))
        freed == {n \in Nodes : Head(s.queue) \in deps[n] /\ Indegree(n, order) = 0}
    IN  IF s.queue = <<>> THEN s
        ELSE [order |-> order, queue |-> Tail(s.queue) \o InOrder(freed)]

Roots == InOrder({n \in Nodes : Indegree(n, <<>>) = 0})

Sorted ==
    LET loop[k \in 0 .. Len(Order)] ==
            IF k = 0 THEN [order |-> <<>>, queue |-> Roots] ELSE OrderNext(loop[k - 1])
    IN  loop[Len(Order)].order

HasOrder == Len(Sorted) = Len(Order)

-----------------------------------------------------------------------------
(* Waves and pools                                                         *)

Ready(done) == {n \in Nodes \ done : deps[n] \subseteq done}

Claimed(A, n) == {i \in 1 .. Width[n] : A[<<n, i>>].phase # "unclaimed"}
Busy(A, n) == {i \in Claimed(A, n) : A[<<n, i>>].phase # "done"}

\* Bug: a node has ended when one of its targets has.
EndedEarly(A, n) == \E i \in Claimed(A, n) : A[<<n, i>>].phase = "done"
Ended(A, n) == Busy(A, n) = {}

\* A worker that is free takes the next target.
Claim(A, n) ==
    LET next == Cardinality(Claimed(A, n)) + 1
    IN  IF next > Width[n] THEN A
        ELSE [A EXCEPT ![<<n, next>>] = Spawn(@)]

\* runNode starts min(concurrency, cwds) workers.
StartNodes(A, nodes) ==
    [t \in Targets |->
        IF t[1] \in nodes /\ t[2] <= Limit[t[1]] THEN Spawn(A[t]) ELSE A[t]]

\* Bug: the first target stands for the node.
FirstOk(A, n) == A[<<n, 1>>].result = "ok"

\* results.every() skips the holes of targets that were never claimed.
NodeOk(A, n) == \A i \in Claimed(A, n) : A[<<n, i>>].result = "ok"

\* `while': another wave, unless every node has run or the signal is aborted.
Loop(A, done) ==
    IF done # Nodes /\ ~aborted /\ Ready(done) # {}
    THEN /\ wave' = Ready(done)
         /\ agents' = StartNodes(A, Ready(done))
         /\ phase' = "running"
         /\ UNCHANGED ok
    ELSE /\ wave' = {}
         /\ agents' = A
         /\ phase' = "returned"
         /\ ok' = (done = Nodes /\ \A n \in done : NodeOk(A, n))

\* A delegation of node n has returned.
WorkerFree(A, n) ==
    LET claim == IF aborted THEN A ELSE Claim(A, n)
    IN  IF \A m \in wave : Ended(claim, m)
        THEN /\ ran' = ran \cup wave
             /\ Loop(claim, ran \cup wave)
        ELSE /\ agents' = claim
             /\ UNCHANGED <<phase, ran, wave, ok>>

-----------------------------------------------------------------------------
(* Actions                                                                 *)

Execute ==
    /\ phase = "called"
    /\ \/ /\ ~HasOrder
          /\ phase' = "rejected"
          /\ UNCHANGED <<ran, wave, agents, ok>>
       \/ /\ HasOrder
          /\ Loop(agents, ran)
          /\ UNCHANGED ran
    /\ UNCHANGED <<deps, aborted>>

Abort ==
    /\ phase = "running" /\ ~aborted
    /\ aborted' = TRUE
    /\ UNCHANGED <<deps, phase, ran, wave, agents, ok>>

Alive == phase \in {"running", "returned"}

InDelegation(t) ==
    /\ Alive
    /\ DelegationStep(t)
    /\ UNCHANGED <<deps, phase, ran, wave, ok>>

\* delegateOne returns, and its worker goes on.
DelegationEnds(t) ==
    /\ Alive
    /\ agents[t].phase = "stopping"
    /\ WorkerFree([agents EXCEPT ![t] = Stopped(@)], t[1])
    /\ UNCHANGED <<deps, aborted>>

\* An unhandled rejection ends the caller's process.
Crash(t) ==
    /\ Alive /\ Unhandled(t)
    /\ phase' = "crashed"
    /\ UNCHANGED <<deps, aborted, ran, wave, agents, ok>>

WorkflowInit ==
    /\ deps \in [Nodes -> SUBSET Nodes]
    /\ phase = "called" /\ aborted = FALSE
    /\ ran = {} /\ wave = {}
    /\ agents = [t \in Targets |-> Unclaimed]
    /\ ok = FALSE

WorkflowNext ==
    \/ Execute
    \/ Abort
    \/ \E t \in Targets :
          \/ InDelegation(t)
          \/ DelegationEnds(t)
          \/ Crash(t)

WorkflowSpec == WorkflowInit /\ [][WorkflowNext]_wvars

\* The timers of the caller run; of the sub-agents nothing is expected.
FairWorkflowSpec ==
    /\ WorkflowSpec
    /\ WF_wvars(Execute)
    /\ \A t \in Targets :
          /\ WF_wvars(Alive /\ (Started(t) \/ ReplyTimeout(t) \/ CollectTimeout(t))
                      /\ UNCHANGED <<deps, phase, ran, wave, ok>>)
          /\ WF_wvars(DelegationEnds(t))

-----------------------------------------------------------------------------
(* Properties                                                              *)

WorkflowTypeOK ==
    /\ deps \in [Nodes -> SUBSET Nodes]
    /\ phase \in {"called", "rejected", "running", "returned", "crashed"}
    /\ {aborted, ok} \subseteq BOOLEAN
    /\ ran \subseteq Nodes /\ wave \subseteq Nodes \ ran
    /\ agents \in [Targets -> Delegation]

\* validateWorkflow rejects exactly the definitions with a cycle: those with a
\* set of nodes each of which waits for another of the set.
Cyclic == \E S \in (SUBSET Nodes) \ {{}} : \A n \in S : deps[n] \cap S # {}
RejectsCycles == phase # "called" => (phase = "rejected" <=> Cyclic)

\* A node starts only when every target of its dependencies has been delegated
\* and has returned, with its process gone.
DependenciesSettled ==
    \A n \in Nodes : Claimed(agents, n) # {} =>
        \A d \in deps[n] : \A i \in 1 .. Width[d] :
            agents[<<d, i>>].phase = "done" /\ agents[<<d, i>>].process = "down"

\* A node never has more sub-agent processes than its concurrency.
PoolBounded ==
    \A n \in Nodes :
        Cardinality({i \in 1 .. Width[n] : agents[<<n, i>>].process = "up"}) <= Limit[n]

\* When the tool returns no sub-agent is left running.
NoneLeftBehind == phase = "returned" => \A t \in Targets : agents[t].process # "up"

\* Without an abort, ok says that every target of every node succeeded, and a
\* result that is not ok has a failed target; whoever succeeded has had a turn.
ReportsTruth ==
    /\ phase = "returned" /\ ~aborted =>
           (ok <=> \A t \in Targets : agents[t].result = "ok")
    /\ OkHadTurn

\* executeWorkflow returns whatever the sub-agents do, or its process has crashed.
Returns == phase = "running" ~> phase \in {"returned", "crashed"}

\* "if the graph is aborted mid-way, remaining nodes are simply absent and ok is
\* false": no ok for a run in which some target was never delegated.
AbortedIsNotOk ==
    phase = "returned" /\ ok => \A t \in Targets : agents[t].phase # "unclaimed"

\* "Node failures are recorded but do not abort the graph."
SurvivesFailures == phase # "crashed"

\* The shape of the state; no node has more processes than its concurrency; and
\* when the tool returns every process it spawned is gone.
DelegationSound == WorkflowTypeOK /\ PoolBounded /\ NoneLeftBehind

\* executeWorkflow runs a graph exactly if validateWorkflow finds no cycle in it,
\* and then never a node before the nodes it depends on have ended.
WavesSound == RejectsCycles /\ DependenciesSettled
=============================================================================
