--------------------------- MODULE PlanningProofs ---------------------------
(***************************************************************************)
(* Theorems about what is started in a planned order.                      *)
(*                                                                         *)
(* Workflow, for any definition, widths and concurrencies: pools are        *)
(* bounded, no process is left behind, no node starts before its            *)
(* dependencies have ended, the result tells the truth, and a definition is *)
(* rejected exactly if it has a cycle.                                      *)
(*                                                                         *)
(* Schedules, for any calendar, schedules and instants: the timer of a task *)
(* is for its next slot, no slot is run twice or out of order, and a start  *)
(* takes the latest slot it missed for missed.  Both rest on what a         *)
(* recursive function computes (Induction, Recursion).                      *)
(***************************************************************************)
EXTENDS Workflow, Schedules, FiniteSetTheorems, SequenceTheorems, TLAPS

-----------------------------------------------------------------------------
(* One delegation                                                          *)

\* What each phase of a delegation says of its process, pipes and history.
AgentSound(a) ==
    /\ a \in Delegation
    /\ a.phase = "unclaimed" => a.process = "none" /\ a.result = "none"
    /\ a.phase = "done" => a.process = "down"
    /\ a.phase \in {"unclaimed", "starting"} =>
          /\ a.asked = <<>> /\ a.pipe = <<>> /\ a.turns = 0
          /\ ~a.working /\ a.collector = "off" /\ a.result = "none"
    /\ a.working => a.turns < MaxTurns
    /\ \A i \in 1 .. Len(a.asked) : a.asked[i] = "prompt" => i = 1 /\ a.turns = 0 /\ ~a.working
    /\ \A i \in 1 .. Len(a.pipe) : a.pipe[i] = "turn" => a.turns >= 1
    /\ a.collector = "met" => a.turns >= 1
    /\ a.phase \in {"aborting", "asking"} => a.turns >= 1
    /\ a.result = "ok" => a.turns >= 1

\* delegateOne is under way.
Open(a) == a.phase \notin {"unclaimed", "done"}

LEMMA DelegationFields ==
    ASSUME NEW a \in Delegation
    PROVE  /\ a.phase \in Phases /\ a.process \in {"none", "up", "down"}
           /\ a.asked \in Seq(Requests) /\ a.pipe \in Seq(Lines)
           /\ a.working \in BOOLEAN /\ a.turns \in 0 .. MaxTurns
           /\ a.collector \in {"off", "armed", "met", "late"}
           /\ a.result \in {"none", "ok", "failed"}
BY DEF Delegation

\* What an assignment to one field leaves alone.
LEMMA SetPhase ==
    ASSUME NEW a \in Delegation, NEW x \in Phases
    PROVE  LET b == [a EXCEPT !.phase = x]
           IN  /\ b \in Delegation /\ b.phase = x /\ b.process = a.process /\ b.asked = a.asked
               /\ b.pipe = a.pipe /\ b.working = a.working /\ b.turns = a.turns
               /\ b.collector = a.collector /\ b.result = a.result
BY DEF Delegation

LEMMA SetProcess ==
    ASSUME NEW a \in Delegation, NEW x \in {"none", "up", "down"}
    PROVE  LET b == [a EXCEPT !.process = x]
           IN  /\ b \in Delegation /\ b.phase = a.phase /\ b.process = x /\ b.asked = a.asked
               /\ b.pipe = a.pipe /\ b.working = a.working /\ b.turns = a.turns
               /\ b.collector = a.collector /\ b.result = a.result
BY DEF Delegation

LEMMA SetAsked ==
    ASSUME NEW a \in Delegation, NEW x \in Seq(Requests)
    PROVE  LET b == [a EXCEPT !.asked = x]
           IN  /\ b \in Delegation /\ b.phase = a.phase /\ b.process = a.process /\ b.asked = x
               /\ b.pipe = a.pipe /\ b.working = a.working /\ b.turns = a.turns
               /\ b.collector = a.collector /\ b.result = a.result
BY DEF Delegation

LEMMA SetPipe ==
    ASSUME NEW a \in Delegation, NEW x \in Seq(Lines)
    PROVE  LET b == [a EXCEPT !.pipe = x]
           IN  /\ b \in Delegation /\ b.phase = a.phase /\ b.process = a.process /\ b.asked = a.asked
               /\ b.pipe = x /\ b.working = a.working /\ b.turns = a.turns
               /\ b.collector = a.collector /\ b.result = a.result
BY DEF Delegation

LEMMA SetWorking ==
    ASSUME NEW a \in Delegation, NEW x \in BOOLEAN
    PROVE  LET b == [a EXCEPT !.working = x]
           IN  /\ b \in Delegation /\ b.phase = a.phase /\ b.process = a.process /\ b.asked = a.asked
               /\ b.pipe = a.pipe /\ b.working = x /\ b.turns = a.turns
               /\ b.collector = a.collector /\ b.result = a.result
BY DEF Delegation

LEMMA SetTurns ==
    ASSUME NEW a \in Delegation, NEW x \in 0 .. MaxTurns
    PROVE  LET b == [a EXCEPT !.turns = x]
           IN  /\ b \in Delegation /\ b.phase = a.phase /\ b.process = a.process /\ b.asked = a.asked
               /\ b.pipe = a.pipe /\ b.working = a.working /\ b.turns = x
               /\ b.collector = a.collector /\ b.result = a.result
BY DEF Delegation

LEMMA SetCollector ==
    ASSUME NEW a \in Delegation, NEW x \in {"off", "armed", "met", "late"}
    PROVE  LET b == [a EXCEPT !.collector = x]
           IN  /\ b \in Delegation /\ b.phase = a.phase /\ b.process = a.process /\ b.asked = a.asked
               /\ b.pipe = a.pipe /\ b.working = a.working /\ b.turns = a.turns
               /\ b.collector = x /\ b.result = a.result
BY DEF Delegation

LEMMA SetResult ==
    ASSUME NEW a \in Delegation, NEW x \in {"none", "ok", "failed"}
    PROVE  LET b == [a EXCEPT !.result = x]
           IN  /\ b \in Delegation /\ b.phase = a.phase /\ b.process = a.process /\ b.asked = a.asked
               /\ b.pipe = a.pipe /\ b.working = a.working /\ b.turns = a.turns
               /\ b.collector = a.collector /\ b.result = x
BY DEF Delegation

LEMMA SpawnEffect ==
    ASSUME NEW a \in Delegation, a.phase = "unclaimed", AgentSound(a)
    PROVE  LET b == Spawn(a)
           IN  AgentSound(b) /\ b.phase = "starting" /\ b.process = "up" /\ b.result = a.result
<1> DEFINE p == [a EXCEPT !.phase = "starting"]
           b == [p EXCEPT !.process = "up"]
<1>1. /\ p \in Delegation /\ p.phase = "starting" /\ p.asked = a.asked
      /\ p.pipe = a.pipe /\ p.working = a.working /\ p.turns = a.turns
      /\ p.collector = a.collector /\ p.result = a.result
    <2>1. "starting" \in Phases
        BY DEF Phases
    <2> QED BY ONLY <2>1, SetPhase, a \in Delegation
<1> HIDE DEF p
<1>2. /\ b \in Delegation /\ b.phase = "starting" /\ b.process = "up" /\ b.asked = a.asked
      /\ b.pipe = a.pipe /\ b.working = a.working /\ b.turns = a.turns
      /\ b.collector = a.collector /\ b.result = a.result
    BY <1>1, SetProcess
<1>3. Spawn(a) = b
    BY DEF Spawn, p
<1> HIDE DEF b
<1> QED BY <1>2, <1>3 DEF AgentSound

LEMMA StoppedEffect ==
    ASSUME NEW a, AgentSound(a), Open(a)
    PROVE  LET b == Stopped(a)
           IN  AgentSound(b) /\ b.phase = "done" /\ b.process = "down" /\ b.result = a.result
<1> DEFINE p == [a EXCEPT !.phase = "done"]
           q == [p EXCEPT !.process = "down"]
           b == [q EXCEPT !.working = FALSE]
<1>0. a \in Delegation
    BY DEF AgentSound
<1>1. /\ p \in Delegation /\ p.phase = "done" /\ p.asked = a.asked
      /\ p.pipe = a.pipe /\ p.working = a.working /\ p.turns = a.turns
      /\ p.collector = a.collector /\ p.result = a.result
    BY <1>0, SetPhase DEF Phases
<1> HIDE DEF p
<1>2. /\ q \in Delegation /\ q.phase = "done" /\ q.process = "down" /\ q.asked = a.asked
      /\ q.pipe = a.pipe /\ q.turns = a.turns
      /\ q.collector = a.collector /\ q.result = a.result
    BY <1>1, SetProcess
<1> HIDE DEF q
<1>3. /\ b \in Delegation /\ b.phase = "done" /\ b.process = "down" /\ b.asked = a.asked
      /\ b.pipe = a.pipe /\ b.turns = a.turns /\ ~b.working
      /\ b.collector = a.collector /\ b.result = a.result
    BY <1>2, SetWorking
<1>4. Stopped(a) = b
    BY DEF Stopped, p, q
<1> HIDE DEF b
<1> QED BY <1>3, <1>4 DEF AgentSound, Open

LEMMA FinishEffect ==
    ASSUME NEW a \in Delegation, NEW r \in {"ok", "failed"}
    PROVE  LET b == Finish(a, r)
           IN  /\ b \in Delegation /\ b.phase = "stopping" /\ b.result = r
               /\ b.asked = <<>> /\ b.pipe = <<>> /\ b.process = a.process
               /\ b.working = a.working /\ b.turns = a.turns /\ b.collector = a.collector
<1> DEFINE p == [a EXCEPT !.phase = "stopping"]
           q == [p EXCEPT !.result = r]
           u == [q EXCEPT !.asked = <<>>]
           b == [u EXCEPT !.pipe = <<>>]
<1>1. /\ p \in Delegation /\ p.phase = "stopping" /\ p.process = a.process
      /\ p.working = a.working /\ p.turns = a.turns /\ p.collector = a.collector
    BY SetPhase DEF Phases
<1> HIDE DEF p
<1>2. /\ q \in Delegation /\ q.phase = "stopping" /\ q.process = a.process /\ q.result = r
      /\ q.working = a.working /\ q.turns = a.turns /\ q.collector = a.collector
    BY <1>1 DEF Delegation
<1> HIDE DEF q
<1>3. /\ u \in Delegation /\ u.phase = "stopping" /\ u.process = a.process /\ u.result = r
      /\ u.working = a.working /\ u.turns = a.turns /\ u.collector = a.collector
      /\ u.asked = <<>>
    BY <1>2, SetAsked, EmptySeq
<1> HIDE DEF u
<1>4. /\ b \in Delegation /\ b.phase = "stopping" /\ b.process = a.process /\ b.result = r
      /\ b.working = a.working /\ b.turns = a.turns /\ b.collector = a.collector
      /\ b.asked = <<>> /\ b.pipe = <<>>
    BY <1>3, SetPipe, EmptySeq
<1>5. Finish(a, r) = b
    BY DEF Finish, p, q, u
<1> HIDE DEF b
<1> QED BY <1>4, <1>5

LEMMA SendEffect ==
    ASSUME NEW a \in Delegation, NEW x \in Phases, NEW request \in Requests
    PROVE  LET b == Send(a, x, request)
           IN  /\ b \in Delegation /\ b.phase = x /\ b.asked = Append(a.asked, request)
               /\ b.process = a.process /\ b.pipe = a.pipe /\ b.working = a.working
               /\ b.turns = a.turns /\ b.collector = a.collector /\ b.result = a.result
<1> DEFINE p == [a EXCEPT !.phase = x]
           b == [p EXCEPT !.asked = Append(p.asked, request)]
<1>1. /\ p \in Delegation /\ p.phase = x /\ p.process = a.process /\ p.asked = a.asked
      /\ p.pipe = a.pipe /\ p.working = a.working /\ p.turns = a.turns
      /\ p.collector = a.collector /\ p.result = a.result
    BY SetPhase
<1> HIDE DEF p
<1>2. Append(p.asked, request) \in Seq(Requests)
    BY <1>1, DelegationFields, AppendProperties
<1>3. /\ b \in Delegation /\ b.phase = x /\ b.asked = Append(a.asked, request)
      /\ b.process = a.process /\ b.pipe = a.pipe /\ b.working = a.working
      /\ b.turns = a.turns /\ b.collector = a.collector /\ b.result = a.result
    BY <1>1, <1>2 DEF Delegation
<1>4. Send(a, x, request) = b
    BY DEF Send, p
<1> HIDE DEF b
<1> QED BY <1>3, <1>4

\* b may follow a: it is still under way, and no process has come up.
Follows(a, b) == AgentSound(b) /\ Open(b) /\ (b.process = "up" => a.process = "up")

LEMMA FinishFollows ==
    ASSUME NEW a, AgentSound(a), NEW r \in {"ok", "failed"}, r = "ok" => a.turns >= 1
    PROVE  Follows(a, Finish(a, r))
<1> DEFINE b == Finish(a, r)
<1>1. /\ b \in Delegation /\ b.phase = "stopping" /\ b.result = r
      /\ b.asked = <<>> /\ b.pipe = <<>> /\ b.process = a.process
      /\ b.working = a.working /\ b.turns = a.turns /\ b.collector = a.collector
    BY FinishEffect DEF AgentSound
<1> HIDE DEF b
<1>2. AgentSound(b) /\ Open(b)
    BY <1>1 DEF AgentSound, Open
<1> QED BY <1>1, <1>2 DEF Follows, b

\* A request other than the prompt, after a turn has been seen.
LEMMA SendFollows ==
    ASSUME NEW a, AgentSound(a), NEW x \in {"aborting", "asking"}, NEW request \in {"abort", "text"},
           a.turns >= 1
    PROVE  Follows(a, Send(a, x, request))
<1> DEFINE b == Send(a, x, request)
<1>0. a \in Delegation /\ x \in Phases /\ request \in Requests
    BY DEF AgentSound, Phases, Requests
<1>1. /\ b \in Delegation /\ b.phase = x /\ b.asked = Append(a.asked, request)
      /\ b.process = a.process /\ b.pipe = a.pipe /\ b.working = a.working
      /\ b.turns = a.turns /\ b.collector = a.collector /\ b.result = a.result
    BY <1>0, SendEffect
<1> HIDE DEF b
<1>2. /\ Len(b.asked) = Len(a.asked) + 1 /\ Len(a.asked) \in Nat
      /\ \A i \in 1 .. Len(a.asked) : b.asked[i] = a.asked[i]
      /\ b.asked[Len(a.asked) + 1] = request
    <2>1. a.asked \in Seq(Requests) /\ request \in Requests
        BY <1>0, DelegationFields DEF Requests
    <2> QED BY <1>1, <2>1, AppendProperties
<1>3. \A i \in 1 .. Len(b.asked) : b.asked[i] = "prompt" => i = 1 /\ b.turns = 0 /\ ~b.working
    <2> TAKE i \in 1 .. Len(b.asked)
    <2> HAVE b.asked[i] = "prompt"
    <2>1. i \in 1 .. Len(a.asked)
        BY <1>2
    <2> QED BY <1>1, <1>2, <2>1 DEF AgentSound
<1>4. AgentSound(b) /\ Open(b)
    BY <1>1, <1>3 DEF AgentSound, Open
<1> QED BY <1>1, <1>4 DEF Follows, b

LEMMA CollectedFollows ==
    ASSUME NEW a, AgentSound(a), a.turns >= 1
    PROVE  Follows(a, Collected(a))
BY SendFollows DEF Collected

\* After 100 ms the prompt is the first line that the process is sent.
LEMMA StartedFollows ==
    ASSUME NEW a, AgentSound(a), a.phase = "starting"
    PROVE  Follows(a, [Send(a, "prompting", "prompt") EXCEPT !.collector = "armed"])
<1> DEFINE s == Send(a, "prompting", "prompt")
           b == [s EXCEPT !.collector = "armed"]
<1>0. a \in Delegation /\ a.asked = <<>>
    BY DEF AgentSound
<1>1. /\ s \in Delegation /\ s.phase = "prompting" /\ s.asked = <<"prompt">>
      /\ s.process = a.process /\ s.pipe = a.pipe /\ s.working = a.working
      /\ s.turns = a.turns /\ s.collector = a.collector /\ s.result = a.result
    BY <1>0, SendEffect DEF Phases, Requests
<1> HIDE DEF s
<1>2. /\ b \in Delegation /\ b.phase = "prompting" /\ b.asked = <<"prompt">>
      /\ b.process = a.process /\ b.pipe = a.pipe /\ b.working = a.working
      /\ b.turns = a.turns /\ b.collector = "armed" /\ b.result = a.result
    BY <1>1, SetCollector
<1> HIDE DEF b
<1>3. \A i \in 1 .. Len(b.asked) : i = 1
    BY <1>2
<1>4. AgentSound(b) /\ Open(b)
    BY <1>2, <1>3 DEF AgentSound, Open
<1> QED BY <1>2, <1>4 DEF Follows, s, b

\* A line has been read.
LEMMA TailSound ==
    ASSUME NEW a, AgentSound(a), Open(a), a.pipe # <<>>
    PROVE  LET b == [a EXCEPT !.pipe = Tail(@)]
           IN  /\ Follows(a, b) /\ b.phase = a.phase /\ b.turns = a.turns
               /\ b.collector = a.collector
<1> DEFINE b == [a EXCEPT !.pipe = Tail(a.pipe)]
<1>0. a \in Delegation /\ a.pipe \in Seq(Lines)
    BY DelegationFields DEF AgentSound
<1>1. /\ Tail(a.pipe) \in Seq(Lines) /\ Len(a.pipe) \in Nat
      /\ Len(Tail(a.pipe)) = Len(a.pipe) - 1
      /\ \A i \in 1 .. Len(Tail(a.pipe)) : Tail(a.pipe)[i] = a.pipe[i + 1]
    BY <1>0, HeadTailProperties, LenProperties
<1>2. /\ b \in Delegation /\ b.phase = a.phase /\ b.process = a.process /\ b.asked = a.asked
      /\ b.pipe = Tail(a.pipe) /\ b.working = a.working /\ b.turns = a.turns
      /\ b.collector = a.collector /\ b.result = a.result
    BY <1>0, <1>1, SetPipe
<1> HIDE DEF b
<1>3. \A i \in 1 .. Len(b.pipe) : b.pipe[i] = "turn" => b.turns >= 1
    <2> TAKE i \in 1 .. Len(b.pipe)
    <2> HAVE b.pipe[i] = "turn"
    <2>1. i + 1 \in 1 .. Len(a.pipe) /\ a.pipe[i + 1] = "turn"
        BY <1>1, <1>2
    <2> QED BY <1>2, <2>1 DEF AgentSound
<1>4. AgentSound(b)
    BY <1>2, <1>3 DEF AgentSound, Open
<1> QED BY <1>2, <1>4 DEF Follows, Open, b

LEMMA FollowsTrans ==
    ASSUME NEW a, NEW b, NEW c, Follows(a, b), Follows(b, c)
    PROVE  Follows(a, c)
BY DEF Follows

LEMMA ReceiveFollows ==
    ASSUME NEW a, AgentSound(a), Open(a), NEW line \in Lines, line = "turn" => a.turns >= 1,
           NEW b \in Receive(a, line)
    PROVE  Follows(a, b)
<1>0. a \in Delegation /\ Follows(a, a)
    BY DEF AgentSound, Follows
<1>1. CASE line = "turn" /\ a.collector = "armed"
    <2> DEFINE met == [a EXCEPT !.collector = "met"]
    <2>1. /\ met \in Delegation /\ met.phase = a.phase /\ met.process = a.process
          /\ met.asked = a.asked /\ met.pipe = a.pipe /\ met.working = a.working
          /\ met.turns = a.turns /\ met.collector = "met" /\ met.result = a.result
        BY <1>0, SetCollector
    <2>2. b = IF a.phase = "collecting" THEN Collected(met) ELSE met
        BY <1>1 DEF Receive
    <2> HIDE DEF met
    <2>3. AgentSound(met) /\ Open(met)
        BY <1>1, <2>1 DEF AgentSound, Open
    <2>4. Follows(a, met)
        BY <2>1, <2>3 DEF Follows
    <2>5. Follows(met, Collected(met))
        BY <1>1, <2>1, <2>3, CollectedFollows
    <2> QED BY <2>2, <2>4, <2>5, FollowsTrans
<1>2. CASE line = "prompt" /\ a.phase = "prompting"
    <2>1. CASE a.collector = "met"
        <3>1. b = Collected(a)
            BY <1>2, <2>1 DEF Receive
        <3> QED BY <2>1, <3>1, CollectedFollows DEF AgentSound
    <2>2. CASE a.collector # "met"
        <3>1. b = [a EXCEPT !.phase = "collecting"]
            BY <1>2, <2>2 DEF Receive
        <3>2. /\ b \in Delegation /\ b.phase = "collecting" /\ b.process = a.process
              /\ b.asked = a.asked /\ b.pipe = a.pipe /\ b.working = a.working
              /\ b.turns = a.turns /\ b.collector = a.collector /\ b.result = a.result
            BY <1>0, <3>1, SetPhase DEF Phases
        <3>3. AgentSound(b) /\ Open(b)
            BY <3>2 DEF AgentSound, Open
        <3> QED BY <3>2, <3>3 DEF Follows
    <2> QED BY <2>1, <2>2
<1>3. CASE line = "abort" /\ a.phase = "aborting"
    <2>1. b = Send(a, "asking", "text")
        BY <1>3 DEF Receive
    <2> QED BY <1>3, <2>1, SendFollows DEF AgentSound
<1>4. CASE line = "text" /\ a.phase = "asking"
    <2>1. b = Finish(a, "ok") \/ b = Finish(a, "failed")
        BY <1>4 DEF Receive
    <2>2. a.turns >= 1
        BY <1>4 DEF AgentSound
    <2> QED BY <2>1, <2>2, FinishFollows
<1>5. CASE /\ ~(line = "turn" /\ a.collector = "armed")
           /\ ~(line = "prompt" /\ a.phase = "prompting")
           /\ ~(line = "abort" /\ a.phase = "aborting")
           /\ ~(line = "text" /\ a.phase = "asking")
    <2>1. b = a
        BY <1>5 DEF Receive
    <2> QED BY <1>0, <2>1
<1> QED BY <1>1, <1>2, <1>3, <1>4, <1>5

\* Every step of a delegation under way keeps it sound and under way.
LEMMA DelegationFollows ==
    ASSUME NEW t \in Targets, AgentSound(agents[t]), aborted \in BOOLEAN, DelegationStep(t)
    PROVE  /\ Open(agents[t]) /\ aborted' = aborted
           /\ \E b : Follows(agents[t], b) /\ agents' = [agents EXCEPT ![t] = b]
<1> PICK a : a = agents[t]
    OBVIOUS
<1> DEFINE Goal == /\ Open(a) /\ aborted' = aborted
                   /\ \E b : Follows(a, b) /\ agents' = [agents EXCEPT ![t] = b]
<1> SUFFICES Goal
    OBVIOUS
<1>a. AgentSound(a) /\ a \in Delegation
    BY DEF AgentSound
<1>b. ASSUME NEW b, Open(a), Follows(a, b), Becomes(t, b) PROVE Goal
    BY <1>b DEF Becomes
<1> HIDE DEF Goal
<1>1. CASE Started(t)
    <2>1. a.phase = "starting" /\ Open(a)
        BY <1>1 DEF Started, Open
    <2>2. CASE a.process = "down" \/ aborted
        <3>1. Becomes(t, Finish(a, "failed"))
            BY <1>1, <2>2 DEF Started
        <3>2. Follows(a, Finish(a, "failed"))
            BY <1>a, FinishFollows
        <3> QED BY <1>b, <2>1, <3>1, <3>2
    <2>3. CASE ~(a.process = "down" \/ aborted)
        <3>1. Becomes(t, [Send(a, "prompting", "prompt") EXCEPT !.collector = "armed"])
            BY <1>1, <2>3 DEF Started
        <3>2. Follows(a, [Send(a, "prompting", "prompt") EXCEPT !.collector = "armed"])
            BY <1>a, <2>1, StartedFollows
        <3> QED BY <1>b, <2>1, <3>1, <3>2
    <2> QED BY <2>2, <2>3
<1>2. CASE ReadLine(t)
    <2> DEFINE u == [a EXCEPT !.pipe = Tail(@)]
    <2>1. Reading(a) /\ a.pipe # <<>> /\ Open(a)
        BY <1>2 DEF ReadLine, Reading, Waiting, Open
    <2>2. PICK b \in Receive(u, Head(a.pipe)) : Becomes(t, b)
        BY <1>2 DEF ReadLine
    <2>3. Follows(a, u) /\ u.turns = a.turns
        BY <1>a, <2>1, TailSound
    <2>4. Head(a.pipe) = a.pipe[1] /\ 1 \in 1 .. Len(a.pipe) /\ a.pipe[1] \in Lines
        <3>1. a.pipe \in Seq(Lines)
            BY <1>a, DelegationFields
        <3> QED BY <2>1, <3>1, EmptySeq, HeadTailProperties, ElementOfSeq
    <2>5. Head(a.pipe) = "turn" => u.turns >= 1
        BY <1>a, <2>3, <2>4 DEF AgentSound
    <2> HIDE DEF u
    <2>6. Follows(u, b)
        BY <2>2, <2>3, <2>4, <2>5, ReceiveFollows DEF Follows
    <2> QED BY <1>b, <2>1, <2>2, <2>3, <2>6, FollowsTrans
<1>3. CASE ReplyTimeout(t)
    <2>1. Waiting(a) /\ Open(a)
        BY <1>3 DEF ReplyTimeout, Waiting, Open
    <2>2. CASE a.phase = "aborting"
        <3>1. Becomes(t, Send(a, "asking", "text"))
            BY <1>3, <2>2 DEF ReplyTimeout
        <3>2. Follows(a, Send(a, "asking", "text"))
            BY <1>a, <2>2, SendFollows DEF AgentSound
        <3> QED BY <1>b, <2>1, <3>1, <3>2
    <2>3. CASE a.phase # "aborting"
        <3>1. Becomes(t, Finish(a, "failed"))
            BY <1>3, <2>3 DEF ReplyTimeout
        <3>2. Follows(a, Finish(a, "failed"))
            BY <1>a, FinishFollows
        <3> QED BY <1>b, <2>1, <3>1, <3>2
    <2> QED BY <2>2, <2>3
<1>4. CASE CollectTimeout(t)
    <2> DEFINE f == Finish(a, "failed")
               b == [f EXCEPT !.collector = "late"]
    <2>1. Open(a) /\ Becomes(t, b)
        BY <1>4 DEF CollectTimeout, Open
    <2>2. Follows(a, f) /\ f \in Delegation
        BY <1>a, FinishFollows DEF Follows, AgentSound
    <2>3. f.asked = <<>> /\ f.pipe = <<>>
        BY <1>a, FinishEffect
    <2> HIDE DEF f
    <2>4. /\ b \in Delegation /\ b.phase = f.phase /\ b.process = f.process /\ b.asked = f.asked
          /\ b.pipe = f.pipe /\ b.working = f.working /\ b.turns = f.turns
          /\ b.collector = "late" /\ b.result = f.result
        BY <2>2 DEF Delegation
    <2> HIDE DEF b
    <2>5. AgentSound(b) /\ Open(b)
        <3>1. AgentSound(f) /\ Open(f)
            BY <2>2 DEF Follows
        <3>2. f.phase = "stopping"
            BY <1>a, FinishEffect DEF f
        <3>3. \A i \in 1 .. Len(b.asked) : FALSE
            BY <2>3, <2>4
        <3>4. \A i \in 1 .. Len(b.pipe) : FALSE
            BY <2>3, <2>4
        <3> QED BY <2>4, <3>1, <3>2, <3>3, <3>4 DEF AgentSound, Open
    <2>6. Follows(a, b)
        BY <2>2, <2>4, <2>5 DEF Follows
    <2> QED BY <1>b, <2>1, <2>6
<1>5. CASE Answer(t)
    <2>1. Open(a) /\ a.process = "up" /\ a.asked # <<>>
        BY <1>5 DEF Answer, Reading, Waiting, Open
    <2>2. PICK start \in {FALSE, Head(a.asked) = "prompt"} :
            Becomes(t, [a EXCEPT !.asked = Tail(@), !.pipe = Append(@, Head(a.asked)),
                                 !.working = @ \/ start])
        BY <1>5 DEF Answer
    <2>3. a.asked \in Seq(Requests) /\ a.pipe \in Seq(Lines) /\ a.working \in BOOLEAN
        BY <1>a, DelegationFields
    <2>4. /\ Tail(a.asked) \in Seq(Requests) /\ Len(a.asked) \in Nat \ {0}
          /\ Len(Tail(a.asked)) = Len(a.asked) - 1
          /\ \A i \in 1 .. Len(Tail(a.asked)) : Tail(a.asked)[i] = a.asked[i + 1]
          /\ Head(a.asked) = a.asked[1] /\ a.asked[1] \in Requests
        BY <2>1, <2>3, HeadTailProperties, EmptySeq, ElementOfSeq
    <2>5. /\ Append(a.pipe, Head(a.asked)) \in Seq(Lines) /\ Len(a.pipe) \in Nat
          /\ Len(Append(a.pipe, Head(a.asked))) = Len(a.pipe) + 1
          /\ \A i \in 1 .. Len(a.pipe) : Append(a.pipe, Head(a.asked))[i] = a.pipe[i]
          /\ Append(a.pipe, Head(a.asked))[Len(a.pipe) + 1] = Head(a.asked)
        <3>1. Head(a.asked) \in Lines
            BY <2>4 DEF Lines
        <3> QED BY <2>3, <3>1, AppendProperties, LenProperties
    <2> DEFINE p == [a EXCEPT !.asked = Tail(a.asked)]
               q == [p EXCEPT !.pipe = Append(a.pipe, Head(a.asked))]
               b == [q EXCEPT !.working = a.working \/ start]
    <2>6. /\ p \in Delegation /\ p.phase = a.phase /\ p.process = a.process
          /\ p.asked = Tail(a.asked) /\ p.pipe = a.pipe /\ p.working = a.working
          /\ p.turns = a.turns /\ p.collector = a.collector /\ p.result = a.result
        BY <1>a, <2>4 DEF Delegation
    <2>7. b = [a EXCEPT !.asked = Tail(@), !.pipe = Append(@, Head(a.asked)), !.working = @ \/ start]
        BY <2>6
    <2> HIDE DEF p
    <2>8. /\ q \in Delegation /\ q.phase = a.phase /\ q.process = a.process
          /\ q.asked = Tail(a.asked) /\ q.pipe = Append(a.pipe, Head(a.asked))
          /\ q.working = a.working
          /\ q.turns = a.turns /\ q.collector = a.collector /\ q.result = a.result
        BY <2>5, <2>6 DEF Delegation
    <2> HIDE DEF q
    <2>9. /\ b \in Delegation /\ b.phase = a.phase /\ b.process = a.process
          /\ b.asked = Tail(a.asked) /\ b.pipe = Append(a.pipe, Head(a.asked))
          /\ b.working = (a.working \/ start)
          /\ b.turns = a.turns /\ b.collector = a.collector /\ b.result = a.result
        <3>1. (a.working \/ start) \in BOOLEAN
            BY <2>2, <2>3
        <3> QED BY <2>8, <3>1 DEF Delegation
    <2>t. Becomes(t, b)
        BY <2>2, <2>7
    <2> HIDE DEF b
    \* The prompt is the first request, and is answered once.
    <2>10. \A i \in 1 .. Len(b.asked) : b.asked[i] # "prompt"
        <3> SUFFICES ASSUME NEW i \in 1 .. Len(b.asked), b.asked[i] = "prompt" PROVE FALSE
            OBVIOUS
        <3>1. i + 1 \in 1 .. Len(a.asked) /\ a.asked[i + 1] = "prompt" /\ i + 1 # 1
            BY <2>4, <2>9
        <3> QED BY <1>a, <3>1 DEF AgentSound
    <2>11. b.working => b.turns < MaxTurns
        <3>1. start => Head(a.asked) = "prompt"
            BY <2>2, Zenon
        <3>2. start => a.turns = 0 /\ a.turns < MaxTurns
            BY <1>a, <2>4, <3>1, SubAgentAssumption DEF AgentSound
        <3> QED BY <1>a, <2>9, <3>1, <3>2 DEF AgentSound
    <2>12. \A i \in 1 .. Len(b.pipe) : b.pipe[i] = "turn" => b.turns >= 1
        <3> TAKE i \in 1 .. Len(b.pipe)
        <3> HAVE b.pipe[i] = "turn"
        <3>1. Head(a.asked) # "turn"
            BY <2>4 DEF Requests
        <3>2. i \in 1 .. Len(a.pipe) /\ a.pipe[i] = "turn"
            BY <2>5, <2>9, <3>1
        <3> QED BY <1>a, <2>9, <3>2 DEF AgentSound
    <2>13. a.phase # "starting"
        BY <1>a, <2>1 DEF AgentSound
    <2>14. AgentSound(b) /\ Open(b)
        BY <1>a, <2>1, <2>9, <2>10, <2>11, <2>12, <2>13 DEF AgentSound, Open
    <2>15. Follows(a, b)
        BY <2>9, <2>14 DEF Follows
    <2> QED BY <1>b, <2>1, <2>15, <2>t
<1>6. CASE TurnEnds(t)
    <2>1. Open(a) /\ a.working
        BY <1>6 DEF TurnEnds, Reading, Waiting, Open
    <2>2. PICK more \in {FALSE, a.turns + 1 < MaxTurns} :
            Becomes(t, [a EXCEPT !.turns = @ + 1, !.pipe = Append(@, "turn"), !.working = more])
        BY <1>6 DEF TurnEnds
    <2>3. a.pipe \in Seq(Lines) /\ a.turns + 1 \in 0 .. MaxTurns /\ a.turns \in Nat
        BY <1>a, <2>1, SubAgentAssumption, DelegationFields DEF AgentSound
    <2> DEFINE p == [a EXCEPT !.turns = a.turns + 1]
               q == [p EXCEPT !.pipe = Append(a.pipe, "turn")]
               b == [q EXCEPT !.working = more]
    <2>4. Append(a.pipe, "turn") \in Seq(Lines)
        BY <2>3, AppendProperties DEF Lines
    <2>5. /\ p \in Delegation /\ p.phase = a.phase /\ p.process = a.process
          /\ p.asked = a.asked /\ p.pipe = a.pipe
          /\ p.turns = a.turns + 1 /\ p.collector = a.collector /\ p.result = a.result
        BY <1>a, <2>3 DEF Delegation
    <2>6. b = [a EXCEPT !.turns = @ + 1, !.pipe = Append(@, "turn"), !.working = more]
        BY <2>5
    <2> HIDE DEF p
    <2>7. /\ q \in Delegation /\ q.phase = a.phase /\ q.process = a.process
          /\ q.asked = a.asked /\ q.pipe = Append(a.pipe, "turn")
          /\ q.turns = a.turns + 1 /\ q.collector = a.collector /\ q.result = a.result
        BY <2>4, <2>5 DEF Delegation
    <2> HIDE DEF q
    <2>8. /\ b \in Delegation /\ b.phase = a.phase /\ b.process = a.process
          /\ b.asked = a.asked /\ b.pipe = Append(a.pipe, "turn") /\ b.working = more
          /\ b.turns = a.turns + 1 /\ b.collector = a.collector /\ b.result = a.result
        <3> DEFINE again == a.turns + 1 < MaxTurns
        <3>0. again = TRUE \/ again = FALSE
            OBVIOUS
        <3>1. more \in BOOLEAN
            BY <2>2, <3>0, Zenon
        <3> QED BY <2>7, <3>1 DEF Delegation
    <2>t. Becomes(t, b)
        BY <2>2, <2>6
    <2> HIDE DEF b
    <2>9. \A i \in 1 .. Len(b.asked) : b.asked[i] # "prompt"
        BY <1>a, <2>1, <2>8 DEF AgentSound
    <2>10. b.working => b.turns < MaxTurns
        BY <2>2, <2>8
    <2>11. a.phase # "starting" /\ b.turns >= 1
        BY <1>a, <2>1, <2>3, <2>8 DEF AgentSound
    <2>12. AgentSound(b) /\ Open(b)
        BY <2>1, <2>8, <2>9, <2>10, <2>11 DEF AgentSound, Open
    <2>13. Follows(a, b)
        BY <2>8, <2>12 DEF Follows
    <2> QED BY <1>b, <2>1, <2>13, <2>t
<1>7. CASE Die(t)
    <2> DEFINE p == [a EXCEPT !.process = "down"]
               b == [p EXCEPT !.working = FALSE]
    <2>1. Open(a) /\ Becomes(t, b)
        BY <1>7 DEF Die, Reading, Waiting, Open
    <2>2. /\ p \in Delegation /\ p.phase = a.phase /\ p.process = "down"
          /\ p.asked = a.asked /\ p.pipe = a.pipe
          /\ p.turns = a.turns /\ p.collector = a.collector /\ p.result = a.result
        BY <1>a DEF Delegation
    <2> HIDE DEF p
    <2>3. /\ b \in Delegation /\ b.phase = a.phase /\ b.process = "down"
          /\ b.asked = a.asked /\ b.pipe = a.pipe /\ ~b.working
          /\ b.turns = a.turns /\ b.collector = a.collector /\ b.result = a.result
        BY <2>2 DEF Delegation
    <2> HIDE DEF b
    <2>4. AgentSound(b) /\ Open(b)
        BY <1>a, <2>1, <2>3 DEF AgentSound, Open
    <2>5. Follows(a, b)
        BY <2>3, <2>4 DEF Follows
    <2> QED BY <1>b, <2>1, <2>5
<1> QED BY <1>1, <1>2, <1>3, <1>4, <1>5, <1>6, <1>7 DEF DelegationStep

-----------------------------------------------------------------------------
(* Pools                                                                   *)

LEMMA Target ==
    /\ \A n \in Nodes : \A i \in 1 .. Width[n] : <<n, i>> \in Targets
    /\ \A t \in Targets : t[1] \in Nodes /\ t[2] \in 1 .. Width[t[1]] /\ t = <<t[1], t[2]>>
    /\ \A n \in Nodes : Width[n] \in Nat \ {0} /\ Limit[n] \in Nat \ {0}
<1>1. \A t : t \in Targets <=> \E n \in Nodes : t \in {n} \X (1 .. Width[n])
    <2>1. Targets = UNION {{n} \X (1 .. Width[n]) : n \in Nodes}
        BY WorkflowAssumption
    <2> QED BY <2>1, Zenon
<1>2. \A n \in Nodes : Width[n] \in Nat \ {0} /\ Limit[n] \in Nat \ {0}
    <2>1. Width \in [Nodes -> Nat \ {0}] /\ Limit \in [Nodes -> 1 .. 16]
        BY WorkflowAssumption, Zenon
    <2> QED BY <2>1
<1> QED BY <1>1, <1>2

\* The pools of all nodes, with the nodes in `done' over and those in `w' under way.
PoolsSound(A, done, w) ==
    /\ A \in [Targets -> Delegation]
    /\ \A t \in Targets : AgentSound(A[t])
    /\ \A n \in Nodes :
        /\ \E k \in 0 .. Width[n] : Claimed(A, n) = 1 .. k
        /\ Cardinality(Busy(A, n)) <= Limit[n]
        /\ n \notin done \cup w => Claimed(A, n) = {}
        /\ n \in done => Busy(A, n) = {}
        /\ n \in done /\ ~aborted => Claimed(A, n) = 1 .. Width[n]
        /\ n \in w /\ ~aborted => Claimed(A, n) = 1 .. Width[n] \/ Busy(A, n) # {}
        /\ n \in done \cup w =>
              \A d \in deps[n] : \A i \in 1 .. Width[d] : A[<<d, i>>].phase = "done"

LEMMA BusyFinite ==
    ASSUME NEW A, NEW n \in Nodes
    PROVE  IsFiniteSet(Busy(A, n)) /\ Cardinality(Busy(A, n)) \in Nat
<1>1. IsFiniteSet(1 .. Width[n])
    BY Target, FS_Interval
<1>2. Busy(A, n) \in SUBSET (1 .. Width[n])
    BY DEF Busy, Claimed
<1> QED BY <1>1, <1>2, FS_Subset, FS_CardinalityType

\* A step of a delegation under way concerns no pool.
LEMMA OpenStepKeepsPools ==
    ASSUME NEW A, NEW done \in SUBSET Nodes, NEW w \in SUBSET Nodes, deps \in [Nodes -> SUBSET Nodes],
           PoolsSound(A, done, w), NEW t \in Targets, Open(A[t]), NEW b, AgentSound(b), Open(b)
    PROVE  PoolsSound([A EXCEPT ![t] = b], done, w)
<1> DEFINE B == [A EXCEPT ![t] = b]
<1>1. /\ B \in [Targets -> Delegation]
      /\ B[t] = b /\ \A u \in Targets \ {t} : B[u] = A[u]
    BY DEF PoolsSound, AgentSound
<1> HIDE DEF B
<1>2. \A u \in Targets : /\ B[u].phase = "unclaimed" <=> A[u].phase = "unclaimed"
                         /\ B[u].phase = "done" <=> A[u].phase = "done"
    BY <1>1 DEF Open
<1>3. \A n \in Nodes : Claimed(B, n) = Claimed(A, n) /\ Busy(B, n) = Busy(A, n)
    BY <1>2, Target DEF Claimed, Busy
<1>4. \A u \in Targets : AgentSound(B[u])
    BY <1>1 DEF PoolsSound
<1>5. \A d \in Nodes : \A i \in 1 .. Width[d] : B[<<d, i>>].phase = "done" <=> A[<<d, i>>].phase = "done"
    BY <1>2, Target
<1> QED BY <1>1, <1>3, <1>4, <1>5 DEF PoolsSound, B

\* A target of a node that has ended is done, or was never claimed.
LEMMA EndedTargets ==
    ASSUME NEW A, NEW n \in Nodes, Busy(A, n) = {}
    PROVE  \A i \in 1 .. Width[n] : A[<<n, i>>].phase \in {"unclaimed", "done"}
BY DEF Busy, Claimed

\* When every node of the wave has ended, the wave is over.
LEMMA WaveOver ==
    ASSUME NEW A, NEW done \in SUBSET Nodes, NEW w \in SUBSET Nodes, PoolsSound(A, done, w),
           \A m \in w : Busy(A, m) = {}
    PROVE  PoolsSound(A, done \cup w, {})
BY DEF PoolsSound

\* The loop of executeWorkflow: the next wave, or the result.
Result(A, done) == done = Nodes /\ \A n \in done : NodeOk(A, n)

LEMMA LoopSound ==
    ASSUME NEW A, NEW done \in SUBSET Nodes, PoolsSound(A, done, {}), Loop(A, done),
           UNCHANGED <<deps, aborted>>, deps \in [Nodes -> SUBSET Nodes]
    PROVE  /\ PoolsSound(agents, done, wave)'
           /\ wave' \subseteq Nodes \ done
           /\ \/ phase' = "running" /\ ok' = ok
              \/ phase' = "returned" /\ wave' = {} /\ agents' = A /\ ok' = Result(A, done)
<1> DEFINE R == Ready(done)
<1>1. CASE done # Nodes /\ ~aborted /\ R # {}
    <2>1. wave' = R /\ agents' = StartNodes(A, R) /\ phase' = "running" /\ ok' = ok
        BY <1>1 DEF Loop
    <2>2. R \subseteq Nodes \ done
        BY DEF Ready
    <2> DEFINE B == StartNodes(A, R)
    <2>3. \A n \in R : \A i \in 1 .. Width[n] : A[<<n, i>>].phase = "unclaimed"
        BY <2>2 DEF PoolsSound, Claimed
    <2>4. \A t \in Targets :
            IF t[1] \in R /\ t[2] <= Limit[t[1]]
            THEN AgentSound(B[t]) /\ B[t].phase = "starting"
            ELSE B[t] = A[t]
        <3> TAKE t \in Targets
        <3>1. CASE t[1] \in R /\ t[2] <= Limit[t[1]]
            <4>1. A[t].phase = "unclaimed" /\ AgentSound(A[t]) /\ A[t] \in Delegation
                BY <2>3, <3>1, Target DEF PoolsSound
            <4>2. B[t] = Spawn(A[t])
                BY <3>1 DEF StartNodes
            <4> QED BY <3>1, <4>1, <4>2, SpawnEffect
        <3>2. CASE ~(t[1] \in R /\ t[2] <= Limit[t[1]])
            BY <3>2 DEF StartNodes
        <3> QED BY <3>1, <3>2
    <2>5. DOMAIN B = Targets /\ B = [t \in Targets |-> B[t]]
        BY DEF StartNodes
    <2> HIDE DEF B
    <2>6. \A t \in Targets : AgentSound(B[t])
        BY <2>4 DEF PoolsSound
    <2>7. B \in [Targets -> Delegation]
        BY <2>5, <2>6 DEF AgentSound
    <2>8. \A n \in Nodes \ R : /\ Claimed(B, n) = Claimed(A, n) /\ Busy(B, n) = Busy(A, n)
                               /\ \A i \in 1 .. Width[n] : B[<<n, i>>] = A[<<n, i>>]
        <3>1. \A n \in Nodes \ R : \A i \in 1 .. Width[n] : B[<<n, i>>] = A[<<n, i>>]
            BY <2>4, Target
        <3> QED BY <3>1 DEF Claimed, Busy
    <2>9. \A n \in R : /\ \E k \in 0 .. Width[n] : Claimed(B, n) = 1 .. k
                      /\ Cardinality(Busy(B, n)) <= Limit[n] /\ Busy(B, n) # {}
        <3> TAKE n \in R
        <3>0. n \in Nodes /\ Width[n] \in Nat \ {0} /\ Limit[n] \in Nat \ {0}
            BY <2>2, Target
        <3>1. \A i \in 1 .. Width[n] :
                IF i <= Limit[n] THEN B[<<n, i>>].phase = "starting" ELSE B[<<n, i>>].phase = "unclaimed"
            BY <2>3, <2>4, <3>0, Target
        <3> DEFINE k == IF Limit[n] < Width[n] THEN Limit[n] ELSE Width[n]
        <3>2. k \in 1 .. Width[n] /\ k <= Limit[n]
            BY <3>0
        <3>3. Claimed(B, n) = 1 .. k /\ Busy(B, n) = 1 .. k
            BY <3>0, <3>1 DEF Claimed, Busy
        <3> HIDE DEF k
        <3>4. Cardinality(1 .. k) = k /\ 1 \in 1 .. k
            BY <3>0, <3>2, FS_Interval
        <3>5. k \in 0 .. Width[n] /\ Cardinality(Busy(B, n)) <= Limit[n] /\ Busy(B, n) # {}
            BY <3>0, <3>2, <3>3, <3>4
        <3> QED BY <3>3, <3>5
    <2>10. \A n \in done : n \notin R /\ n \in Nodes
        BY <2>2
    \* The dependencies of a ready node are done to their last target.
    <2>11. \A n \in R : \A d \in deps[n] : \A i \in 1 .. Width[d] : B[<<d, i>>].phase = "done"
        <3> TAKE n \in R
        <3> TAKE d \in deps[n]
        <3>1. d \in done
            BY DEF Ready
        <3>2. d \in Nodes \ R
            BY <2>10, <3>1
        <3>3. Claimed(A, d) = 1 .. Width[d] /\ Busy(A, d) = {}
            BY <1>1, <3>1, <3>2 DEF PoolsSound
        <3>4. \A i \in 1 .. Width[d] : A[<<d, i>>].phase = "done"
            BY <3>3 DEF Busy, Claimed
        <3> QED BY <2>8, <3>2, <3>4
    <2>12. \A n \in done : \A d \in deps[n] : \A i \in 1 .. Width[d] : B[<<d, i>>].phase = "done"
        <3> TAKE n \in done
        <3> TAKE d \in deps[n]
        <3>1. d \in Nodes /\ \A i \in 1 .. Width[d] : A[<<d, i>>].phase = "done"
            BY <2>10 DEF PoolsSound
        <3>2. d \notin R
            <4>1. 1 \in 1 .. Width[d]
                BY <3>1, Target
            <4>2. A[<<d, 1>>].phase = "done"
                BY <3>1, <4>1
            <4> QED BY <2>3, <4>1, <4>2
        <3> QED BY <2>8, <3>1, <3>2
    <2>13. PoolsSound(B, done, R)
        BY <2>2, <2>6, <2>7, <2>8, <2>9, <2>10, <2>11, <2>12 DEF PoolsSound
    <2>14. PoolsSound(agents, done, wave)'
        BY <2>1, <2>13 DEF PoolsSound, B
    <2> QED BY <2>1, <2>2, <2>14
<1>2. CASE ~(done # Nodes /\ ~aborted /\ R # {})
    <2>1. /\ wave' = {} /\ agents' = A /\ phase' = "returned"
          /\ ok' = (done = Nodes /\ \A n \in done : NodeOk(A, n))
        BY <1>2 DEF Loop
    <2>2. PoolsSound(agents, done, wave)'
        BY <2>1 DEF PoolsSound
    <2> QED BY <2>1, <2>2 DEF Result
<1> QED BY <1>1, <1>2

-----------------------------------------------------------------------------
(* The workflow                                                            *)

\* The result is told of what the targets have become.
ResultTrue == phase = "returned" /\ ~aborted => (ok <=> \A t \in Targets : agents[t].result = "ok")

WorkflowInv ==
    /\ deps \in [Nodes -> SUBSET Nodes]
    /\ phase \in {"called", "rejected", "running", "returned", "crashed"}
    /\ {aborted, ok} \subseteq BOOLEAN
    /\ ran \subseteq Nodes /\ wave \subseteq Nodes \ ran
    /\ PoolsSound(agents, ran, wave)
    /\ phase \in {"called", "rejected"} => ran = {} /\ wave = {}
    /\ phase = "returned" => wave = {}
    /\ ResultTrue

\* With all pools at rest, the loop's result is whether every target succeeded.
LEMMA ResultTells ==
    ASSUME NEW A, NEW done \in SUBSET Nodes, PoolsSound(A, done, {}), ~aborted
    PROVE  Result(A, done) <=> \A t \in Targets : A[t].result = "ok"
<1>1. CASE done = Nodes
    <2>1. \A n \in Nodes : Claimed(A, n) = 1 .. Width[n]
        BY <1>1 DEF PoolsSound
    <2>2. Result(A, done) <=> \A n \in Nodes : \A i \in 1 .. Width[n] : A[<<n, i>>].result = "ok"
        BY <1>1, <2>1 DEF Result, NodeOk
    <2> QED BY <2>2, Target
<1>2. CASE done # Nodes
    <2>1. PICK n \in Nodes : n \notin done
        BY <1>2
    <2>2. Claimed(A, n) = {} /\ 1 \in 1 .. Width[n] /\ <<n, 1>> \in Targets
        BY <2>1, Target DEF PoolsSound
    <2>3. A[<<n, 1>>].phase = "unclaimed"
        BY <2>2 DEF Claimed
    <2>4. A[<<n, 1>>].result = "none"
        BY <2>2, <2>3 DEF PoolsSound, AgentSound
    <2> QED BY <1>2, <2>2, <2>4 DEF Result
<1> QED BY <1>1, <1>2

\* Nothing is under way once the tool has returned.
LEMMA ReturnedAtRest ==
    ASSUME PoolsSound(agents, ran, {})
    PROVE  \A t \in Targets : ~Open(agents[t])
<1> TAKE t \in Targets
<1>1. t[1] \in Nodes /\ t[2] \in 1 .. Width[t[1]] /\ t = <<t[1], t[2]>>
    BY Target
<1>2. Busy(agents, t[1]) = {}
    BY <1>1 DEF PoolsSound, Busy
<1>3. agents[<<t[1], t[2]>>].phase \in {"unclaimed", "done"}
    BY <1>1, <1>2, EndedTargets
<1> QED BY <1>1, <1>3 DEF Open

LEMMA ResultIsBoolean ==
    ASSUME NEW A, NEW done PROVE Result(A, done) \in BOOLEAN
BY DEF Result

\* The worker of a delegation that has stopped takes another target, if there is one.
LEMMA ClaimSound ==
    ASSUME NEW done \in SUBSET Nodes, NEW w \in SUBSET (Nodes \ done), PoolsSound(agents, done, w),
           deps \in [Nodes -> SUBSET Nodes], aborted \in BOOLEAN,
           NEW t \in Targets, agents[t].phase = "stopping"
    PROVE  LET A == [agents EXCEPT ![t] = Stopped(@)]
               C == IF aborted THEN A ELSE Claim(A, t[1])
           IN  PoolsSound(C, done, w)
<1> DEFINE n == t[1]
           j == t[2]
           A == [agents EXCEPT ![t] = Stopped(agents[t])]
           C == IF aborted THEN A ELSE Claim(A, n)
<1>0. n \in Nodes /\ j \in 1 .. Width[n] /\ t = <<n, j>> /\ Width[n] \in Nat \ {0} /\ Limit[n] \in Nat \ {0}
    BY Target
<1>1. /\ AgentSound(A[t]) /\ A[t].phase = "done"
      /\ \A u \in Targets \ {t} : A[u] = agents[u]
      /\ A \in [Targets -> Delegation]
    <2>1. AgentSound(agents[t]) /\ Open(agents[t])
        BY DEF PoolsSound, Open
    <2>2. AgentSound(Stopped(agents[t])) /\ Stopped(agents[t]).phase = "done"
        BY <2>1, StoppedEffect
    <2>3. Stopped(agents[t]) \in Delegation
        BY <2>2 DEF AgentSound
    <2> QED BY <2>2, <2>3 DEF PoolsSound
<1> HIDE DEF A
<1>2. /\ Claimed(A, n) = Claimed(agents, n) /\ j \in Claimed(agents, n)
      /\ j \in Busy(agents, n) /\ Busy(A, n) = Busy(agents, n) \ {j}
    <2>1. \A i \in 1 .. Width[n] : i # j => A[<<n, i>>] = agents[<<n, i>>]
        BY <1>0, <1>1, Target
    <2> QED BY <1>0, <1>1, <2>1 DEF Claimed, Busy
<1>3. \A m \in Nodes \ {n} : /\ Claimed(A, m) = Claimed(agents, m) /\ Busy(A, m) = Busy(agents, m)
                             /\ \A i \in 1 .. Width[m] : A[<<m, i>>] = agents[<<m, i>>]
    <2>1. \A m \in Nodes \ {n} : \A i \in 1 .. Width[m] : A[<<m, i>>] = agents[<<m, i>>]
        BY <1>0, <1>1, Target
    <2> QED BY <2>1 DEF Claimed, Busy
\* The node is under way: an ended one has no target that is stopping.
<1>4. n \in w /\ n \notin done
    BY <1>0, <1>2 DEF PoolsSound
<1>5. Cardinality(Busy(A, n)) + 1 <= Limit[n] /\ Cardinality(Busy(A, n)) \in Nat
    <2>1. Cardinality(Busy(A, n)) = Cardinality(Busy(agents, n)) - 1
        <3>1. IsFiniteSet(Busy(agents, n))
            BY <1>0, BusyFinite
        <3>2. Cardinality(Busy(agents, n) \ {j}) = Cardinality(Busy(agents, n)) - 1
            <4>1. Cardinality(Busy(agents, n) \ {j}) =
                    IF j \in Busy(agents, n) THEN Cardinality(Busy(agents, n)) - 1
                    ELSE Cardinality(Busy(agents, n))
                BY <3>1, FS_RemoveElement
            <4>2. j \in Busy(agents, n)
                BY <1>2
            <4> QED BY <4>1, <4>2
        <3> QED BY <1>2, <3>2, Zenon
    <2>2. Cardinality(Busy(agents, n)) <= Limit[n] /\ Cardinality(Busy(agents, n)) \in Nat
          /\ Cardinality(Busy(A, n)) \in Nat
        BY <1>0, BusyFinite DEF PoolsSound
    <2> QED BY <1>0, <2>1, <2>2
<1>6. PICK k \in 0 .. Width[n] : Claimed(A, n) = 1 .. k
    BY <1>0, <1>2 DEF PoolsSound
<1>7. \A u \in Targets : AgentSound(A[u])
    BY <1>1 DEF PoolsSound
<1>8. \A d \in Nodes : \A i \in 1 .. Width[d] :
        agents[<<d, i>>].phase = "done" => A[<<d, i>>].phase = "done"
    BY <1>0, <1>1, Target
<1>9. \A m \in Nodes : m \in done \cup w =>
            \A d \in deps[m] : \A i \in 1 .. Width[d] : A[<<d, i>>].phase = "done"
    BY <1>8 DEF PoolsSound
\* No target is left, or none may be claimed any more.
<1>10. CASE C = A /\ (~aborted => k = Width[n])
    <2>1. \A m \in Nodes : \E l \in 0 .. Width[m] : Claimed(A, m) = 1 .. l
        BY <1>3, <1>6 DEF PoolsSound
    <2>2. Cardinality(Busy(A, n)) <= Limit[n] /\ (~aborted => Claimed(A, n) = 1 .. Width[n])
        BY <1>0, <1>5, <1>6, <1>10
    <2>3. PoolsSound(A, done, w)
        BY <1>1, <1>3, <1>4, <1>7, <1>9, <2>1, <2>2 DEF PoolsSound
    <2>4. PoolsSound(C, done, w)
        BY <1>10, <2>3, Zenon
    <2> QED BY <2>4 DEF A
<1>11. CASE ~aborted /\ k + 1 \in 1 .. Width[n] /\ C = [A EXCEPT ![<<n, k + 1>>] = Spawn(@)]
    <2> DEFINE c == <<n, k + 1>>
    <2>1. c \in Targets /\ c[1] = n
        BY <1>0, <1>11, Target
    <2>2. A[c].phase = "unclaimed"
        BY <1>6, <1>11 DEF Claimed
    <2>3. AgentSound(C[c]) /\ C[c].phase = "starting"
        <3>1. A[c] \in Delegation /\ AgentSound(A[c])
            BY <1>1, <1>7, <2>1
        <3>2. C[c] = Spawn(A[c])
            BY <1>1, <1>11, <2>1
        <3> QED BY <2>2, <3>1, <3>2, SpawnEffect
    <2>4. C \in [Targets -> Delegation] /\ \A u \in Targets \ {c} : C[u] = A[u]
        <3>1. C[c] \in Delegation
            BY <2>3 DEF AgentSound
        <3>2. C = [A EXCEPT ![c] = C[c]]
            BY <1>1, <1>11, <2>1
        <3>3. \A u \in Targets \ {c} : C[u] = A[u]
            BY <1>1, <1>11, <2>1
        <3>4. PICK x : x = C[c]
            OBVIOUS
        <3>5. C = [A EXCEPT ![c] = x] /\ x \in Delegation
            BY <3>1, <3>2, <3>4
        <3> QED BY <1>1, <3>3, <3>5
    <2> HIDE DEF C
    <2>5. /\ Claimed(C, n) = 1 .. (k + 1) /\ Busy(C, n) = Busy(A, n) \cup {k + 1}
        <3>1. \A i \in 1 .. Width[n] : i # k + 1 => C[<<n, i>>] = A[<<n, i>>]
            BY <1>0, <2>4, Target
        <3>2. Claimed(C, n) = Claimed(A, n) \cup {k + 1}
            BY <1>11, <2>3, <3>1 DEF Claimed
        <3>3. Busy(C, n) = Busy(A, n) \cup {k + 1}
            BY <1>11, <2>3, <3>1, <3>2 DEF Busy, Claimed
        <3>4. (1 .. k) \cup {k + 1} = 1 .. (k + 1)
            BY <1>0, <1>6
        <3> QED BY <1>6, <3>2, <3>3, <3>4
    <2>6. Cardinality(Busy(C, n)) <= Limit[n]
        <3>1. Cardinality(Busy(C, n)) <= Cardinality(Busy(A, n)) + 1
            <4>1. IsFiniteSet(Busy(A, n))
                BY <1>0, BusyFinite
            <4>2. Cardinality(Busy(A, n) \cup {k + 1}) =
                    IF k + 1 \in Busy(A, n) THEN Cardinality(Busy(A, n)) ELSE Cardinality(Busy(A, n)) + 1
                BY <4>1, FS_AddElement
            <4>3. Cardinality(Busy(C, n)) = Cardinality(Busy(A, n) \cup {k + 1})
                BY <2>5, Zenon
            <4> QED BY <1>5, <4>2, <4>3
        <3>2. Cardinality(Busy(C, n)) \in Nat
            BY <1>0, BusyFinite
        <3> QED BY <1>0, <1>5, <3>1, <3>2
    <2>7. \A m \in Nodes \ {n} : Claimed(C, m) = Claimed(A, m) /\ Busy(C, m) = Busy(A, m)
        <3>1. \A m \in Nodes \ {n} : \A i \in 1 .. Width[m] : C[<<m, i>>] = A[<<m, i>>]
            BY <2>1, <2>4, Target
        <3> QED BY <3>1 DEF Claimed, Busy
    <2>8. \A m \in Nodes : m \in done \cup w =>
            \A d \in deps[m] : \A i \in 1 .. Width[d] : C[<<d, i>>].phase = "done"
        <3>1. \A d \in Nodes : \A i \in 1 .. Width[d] :
                A[<<d, i>>].phase = "done" => C[<<d, i>>].phase = "done"
            BY <2>2, <2>4, Target
        <3> QED BY <1>9, <3>1
    <2>9. \A u \in Targets : AgentSound(C[u])
        BY <1>7, <2>3, <2>4
    <2>10. \A m \in Nodes : \E l \in 0 .. Width[m] : Claimed(C, m) = 1 .. l
        <3>1. k + 1 \in 0 .. Width[n]
            BY <1>0, <1>6, <1>11
        <3> QED BY <1>3, <2>5, <2>7, <3>1 DEF PoolsSound
    <2>11. Busy(C, n) # {}
        BY <2>5
    <2>12. PoolsSound(C, done, w)
        <3>1. ASSUME NEW m \in Nodes
              PROVE  /\ Cardinality(Busy(C, m)) <= Limit[m]
                     /\ m \notin done \cup w => Claimed(C, m) = {}
                     /\ m \in done => Busy(C, m) = {}
                     /\ m \in done /\ ~aborted => Claimed(C, m) = 1 .. Width[m]
                     /\ m \in w /\ ~aborted => Claimed(C, m) = 1 .. Width[m] \/ Busy(C, m) # {}
            <4>1. CASE m = n
                BY <1>4, <2>6, <2>11, <4>1
            <4>2. CASE m # n
                <5>1. Claimed(C, m) = Claimed(agents, m) /\ Busy(C, m) = Busy(agents, m)
                    BY <1>3, <2>7, <4>2
                <5> QED BY <5>1 DEF PoolsSound
            <4> QED BY <4>1, <4>2
        <3> QED BY <2>4, <2>8, <2>9, <2>10, <3>1 DEF PoolsSound
    <2> QED BY <2>12 DEF A, C
<1>12. \/ C = A /\ (~aborted => k = Width[n])
       \/ ~aborted /\ k + 1 \in 1 .. Width[n] /\ C = [A EXCEPT ![<<n, k + 1>>] = Spawn(@)]
    <2>1. Cardinality(Claimed(A, n)) = k
        <3>0. k \in Nat
            BY <1>0, <1>6
        <3>1. Cardinality(1 .. k) = k
            <4>1. Cardinality(1 .. k) = IF 1 > k THEN 0 ELSE k - 1 + 1
                BY <3>0, FS_Interval
            <4> QED BY <3>0, <4>1
        <3> QED BY <1>6, <3>1, Zenon
    <2>2. CASE aborted
        BY <2>2
    <2>3. CASE ~aborted
        <3>1. C = IF k + 1 > Width[n] THEN A ELSE [A EXCEPT ![<<n, k + 1>>] = Spawn(@)]
            BY <2>1, <2>3 DEF Claim
        <3> QED BY <1>0, <1>6, <2>3, <3>1
    <2> QED BY <2>2, <2>3
<1> QED BY <1>10, <1>11, <1>12

LEMMA WorkflowInitSound == WorkflowInit => WorkflowInv
<1> SUFFICES ASSUME WorkflowInit PROVE WorkflowInv
    OBVIOUS
<1>1. AgentSound(Unclaimed)
    <2>1. <<>> \in Seq(Requests) /\ <<>> \in Seq(Lines) /\ Len(<<>>) = 0 /\ MaxTurns \in Nat
        BY EmptySeq, SubAgentAssumption
    <2> QED BY <2>1 DEF AgentSound, Unclaimed, Delegation, Phases
<1>2. agents \in [Targets -> Delegation] /\ \A t \in Targets : agents[t] = Unclaimed
    BY <1>1 DEF WorkflowInit, AgentSound
<1>3. \A n \in Nodes : Claimed(agents, n) = {} /\ Busy(agents, n) = {}
    BY <1>2, Target DEF Claimed, Busy, Unclaimed
<1>4. \A n \in Nodes : Cardinality(Busy(agents, n)) <= Limit[n]
    <2>1. Cardinality({}) = 0
        BY FS_EmptySet
    <2> QED BY <1>3, <2>1, Target
<1>5. \A n \in Nodes : \E l \in 0 .. Width[n] : Claimed(agents, n) = 1 .. l
    <2>1. \A n \in Nodes : 0 \in 0 .. Width[n] /\ Claimed(agents, n) = 1 .. 0
        BY <1>3, Target
    <2> QED BY <2>1
<1>6. PoolsSound(agents, ran, wave)
    BY <1>1, <1>2, <1>3, <1>4, <1>5 DEF PoolsSound, WorkflowInit
<1> QED BY <1>6 DEF WorkflowInit, WorkflowInv, ResultTrue

LEMMA WorkflowStep == WorkflowInv /\ [WorkflowNext]_wvars => WorkflowInv'
<1> SUFFICES ASSUME WorkflowInv, [WorkflowNext]_wvars PROVE WorkflowInv'
    OBVIOUS
<1>0. /\ deps \in [Nodes -> SUBSET Nodes] /\ aborted \in BOOLEAN /\ ok \in BOOLEAN
      /\ ran \in SUBSET Nodes /\ wave \in SUBSET (Nodes \ ran) /\ PoolsSound(agents, ran, wave)
    BY DEF WorkflowInv
\* The loop begins its next turn, or returns.
<1>a. ASSUME NEW A, NEW done \in SUBSET Nodes, PoolsSound(A, done, {}), Loop(A, done),
             UNCHANGED <<deps, aborted>>, ran' = done
      PROVE  WorkflowInv'
    <2>1. /\ PoolsSound(agents, done, wave)' /\ wave' \subseteq Nodes \ done
          /\ \/ phase' = "running" /\ ok' = ok
             \/ phase' = "returned" /\ wave' = {} /\ agents' = A /\ ok' = Result(A, done)
        BY <1>0, <1>a, LoopSound
    <2>2. PoolsSound(agents, ran, wave)'
        BY <1>a, <2>1 DEF PoolsSound
    <2>3. CASE phase' = "running" /\ ok' = ok
        BY <1>0, <1>a, <2>1, <2>2, <2>3 DEF WorkflowInv, ResultTrue
    <2>4. CASE phase' = "returned" /\ wave' = {} /\ agents' = A /\ ok' = Result(A, done)
        <3>1. ok' \in BOOLEAN
            BY <2>4, ResultIsBoolean, Zenon
        <3>2. ~aborted => (ok' <=> \A t \in Targets : A[t].result = "ok")
            BY <1>a, <2>4, ResultTells
        <3>3. ResultTrue'
            BY <1>a, <2>4, <3>2 DEF ResultTrue
        <3> QED BY <1>0, <1>a, <2>1, <2>2, <2>4, <3>1, <3>3 DEF WorkflowInv
    <2> QED BY <2>1, <2>3, <2>4
<1>1. CASE UNCHANGED wvars
    BY <1>1 DEF wvars, WorkflowInv, PoolsSound, ResultTrue
<1>2. CASE Execute
    <2>1. phase = "called" /\ ran = {} /\ wave = {} /\ UNCHANGED <<deps, aborted>>
        BY <1>2 DEF Execute, WorkflowInv
    <2>2. CASE phase' = "rejected" /\ UNCHANGED <<ran, wave, agents, ok>>
        BY <1>0, <2>1, <2>2 DEF WorkflowInv, PoolsSound, ResultTrue
    <2>3. CASE Loop(agents, ran) /\ UNCHANGED ran
        <3> PICK done : done = ran
            OBVIOUS
        <3> PICK A : A = agents
            OBVIOUS
        <3>1. PoolsSound(A, done, {}) /\ Loop(A, done) /\ ran' = done /\ done \in SUBSET Nodes
            BY <1>0, <2>1, <2>3
        <3> QED BY <1>a, <2>1, <3>1
    <2> QED BY <1>2, <2>2, <2>3 DEF Execute
<1>3. CASE Abort
    BY <1>0, <1>3 DEF Abort, WorkflowInv, PoolsSound, ResultTrue
<1>4. ASSUME NEW t \in Targets, InDelegation(t) PROVE WorkflowInv'
    <2>1. /\ phase \in {"running", "returned"} /\ DelegationStep(t)
          /\ UNCHANGED <<deps, phase, ran, wave, ok>>
        BY <1>4 DEF InDelegation, Alive
    <2>2. AgentSound(agents[t])
        BY <1>0 DEF PoolsSound
    <2>3. PICK b : /\ Open(agents[t]) /\ aborted' = aborted
                   /\ Follows(agents[t], b) /\ agents' = [agents EXCEPT ![t] = b]
        BY <1>0, <2>1, <2>2, DelegationFollows
    <2>4. phase = "running"
        BY <1>0, <2>1, <2>3, ReturnedAtRest DEF WorkflowInv
    <2>5. PoolsSound([agents EXCEPT ![t] = b], ran, wave)
        BY <1>0, <2>3, OpenStepKeepsPools DEF Follows
    <2>6. PoolsSound(agents, ran, wave)'
        BY <2>1, <2>3, <2>5 DEF PoolsSound
    <2> QED BY <1>0, <2>1, <2>3, <2>4, <2>6 DEF WorkflowInv, ResultTrue
<1>5. ASSUME NEW t \in Targets, DelegationEnds(t) PROVE WorkflowInv'
    <2>1. /\ phase \in {"running", "returned"} /\ agents[t].phase = "stopping"
          /\ WorkerFree([agents EXCEPT ![t] = Stopped(@)], t[1])
          /\ UNCHANGED <<deps, aborted>>
        BY <1>5 DEF DelegationEnds, Alive
    <2>2. phase = "running"
        BY <1>0, <2>1, ReturnedAtRest DEF WorkflowInv, Open
    <2> DEFINE A == [agents EXCEPT ![t] = Stopped(@)]
    <2> PICK C : C = IF aborted THEN A ELSE Claim(A, t[1])
        OBVIOUS
    <2>3. PoolsSound(C, ran, wave)
        BY <1>0, <2>1, ClaimSound
    <2>4. IF \A m \in wave : Ended(C, m)
          THEN ran' = ran \cup wave /\ Loop(C, ran \cup wave)
          ELSE agents' = C /\ UNCHANGED <<phase, ran, wave, ok>>
        BY <2>1 DEF WorkerFree
    <2> HIDE DEF A
    <2>5. CASE \A m \in wave : Ended(C, m)
        <3> PICK done : done = ran \cup wave
            OBVIOUS
        <3>1. PoolsSound(C, done, {}) /\ done \in SUBSET Nodes
            BY <1>0, <2>3, <2>5, WaveOver DEF Ended
        <3>2. Loop(C, done) /\ ran' = done
            BY <2>4, <2>5
        <3> QED BY <1>a, <2>1, <3>1, <3>2
    <2>6. CASE ~(\A m \in wave : Ended(C, m))
        <3>1. agents' = C /\ UNCHANGED <<phase, ran, wave, ok>>
            BY <2>4, <2>6
        <3>2. PoolsSound(agents, ran, wave)'
            BY <2>1, <2>3, <3>1 DEF PoolsSound
        <3> QED BY <1>0, <2>1, <2>2, <3>1, <3>2 DEF WorkflowInv, ResultTrue
    <2> QED BY <2>5, <2>6
<1>6. ASSUME NEW t \in Targets, Crash(t) PROVE WorkflowInv'
    BY <1>0, <1>6 DEF Crash, WorkflowInv, PoolsSound, ResultTrue
<1> QED BY <1>1, <1>2, <1>3, <1>4, <1>5, <1>6 DEF WorkflowNext

LEMMA WorkflowInvariant == WorkflowSpec => []WorkflowInv
BY WorkflowInitSound, WorkflowStep, PTL DEF WorkflowSpec

-----------------------------------------------------------------------------
(* Theorems                                                                *)

\* Whatever the sub-agents and the timers do, the state keeps its shape, no node
\* has more processes than its concurrency, and none is left when the tool returns.
THEOREM DelegationAlwaysSound == WorkflowSpec => []DelegationSound
<1>1. WorkflowInv => DelegationSound
    <2> SUFFICES ASSUME WorkflowInv PROVE DelegationSound
        OBVIOUS
    <2>1. WorkflowTypeOK
        BY DEF WorkflowInv, PoolsSound, WorkflowTypeOK
    <2>2. PoolBounded
        <3> SUFFICES ASSUME NEW n \in Nodes
                     PROVE  Cardinality({i \in 1 .. Width[n] : agents[<<n, i>>].process = "up"}) <= Limit[n]
            BY DEF PoolBounded
        <3> DEFINE U == {i \in 1 .. Width[n] : agents[<<n, i>>].process = "up"}
        <3>1. U \in SUBSET Busy(agents, n)
            BY Target DEF WorkflowInv, PoolsSound, AgentSound, Busy, Claimed
        <3>2. Cardinality(U) <= Cardinality(Busy(agents, n)) /\ Cardinality(U) \in Nat
            BY <3>1, BusyFinite, FS_Subset, FS_CardinalityType
        <3>3. /\ Cardinality(Busy(agents, n)) <= Limit[n] /\ Cardinality(Busy(agents, n)) \in Nat
              /\ Limit[n] \in Nat
            BY BusyFinite, Target DEF WorkflowInv, PoolsSound
        <3> QED BY <3>2, <3>3
    <2>3. NoneLeftBehind
        <3> SUFFICES ASSUME phase = "returned", NEW t \in Targets PROVE agents[t].process # "up"
            BY DEF NoneLeftBehind
        <3>1. ~Open(agents[t]) /\ AgentSound(agents[t])
            BY ReturnedAtRest DEF WorkflowInv, PoolsSound
        <3> QED BY <3>1 DEF Open, AgentSound
    <2> QED BY <2>1, <2>2, <2>3 DEF DelegationSound
<1> QED BY <1>1, WorkflowInvariant, PTL

\* For every graph: when a node starts, every target of every node it depends on
\* has been delegated and has returned, with its process gone.
THEOREM DependenciesAlwaysSettled == WorkflowSpec => []DependenciesSettled
<1>1. WorkflowInv => DependenciesSettled
    <2> SUFFICES ASSUME WorkflowInv, NEW n \in Nodes, Claimed(agents, n) # {},
                        NEW d \in deps[n], NEW i \in 1 .. Width[d]
                 PROVE  agents[<<d, i>>].phase = "done" /\ agents[<<d, i>>].process = "down"
        BY DEF DependenciesSettled
    <2>1. agents[<<d, i>>].phase = "done"
        BY DEF WorkflowInv, PoolsSound
    <2>2. <<d, i>> \in Targets
        BY Target DEF WorkflowInv
    <2> QED BY <2>1, <2>2 DEF WorkflowInv, PoolsSound, AgentSound
<1> QED BY <1>1, WorkflowInvariant, PTL

\* Unless it was aborted, a run is ok exactly when every target of every node
\* succeeded; and whatever succeeded has seen a turn of its sub-agent end.
THEOREM ReportsAlwaysTruth == WorkflowSpec => []ReportsTruth
<1>1. WorkflowInv => ReportsTruth
    BY DEF WorkflowInv, PoolsSound, AgentSound, ResultTrue, ReportsTruth, OkHadTurn
<1> QED BY <1>1, WorkflowInvariant, PTL

-----------------------------------------------------------------------------
(* What a recursive function computes                                      *)

LEMMA Induction ==
    ASSUME NEW P \in SUBSET Nat, 0 \in P, \A k \in P : k + 1 \in P
    PROVE  P = Nat
<1> SUFFICES ASSUME Nat \ P # {} PROVE FALSE
  OBVIOUS
<1> DEFINE R == {q \in Nat \X Nat : q[1] < q[2]}
<1>1. IsWellFoundedOn(R, Nat)
  BY NatLessThanWellFounded DEF OpToRel
<1>2. PICK x \in Nat \ P : \A y \in Nat \ P : ~(<<y, x>> \in R)
  <2>1. Nat \ P \subseteq Nat
    OBVIOUS
  <2> HIDE DEF R
  <2> QED BY <1>1, <2>1, WFMin
<1>3. x # 0 /\ x - 1 \in Nat /\ x - 1 < x /\ (x - 1) + 1 = x
  OBVIOUS
<1>4. <<x - 1, x>> \in R
  BY <1>3
<1>5. x - 1 \in P
  BY <1>2, <1>3, <1>4
<1> QED BY <1>3, <1>5

\* A value and a step define a function.
LEMMA Recursion ==
    ASSUME NEW S, NEW a \in S, NEW n \in Nat, NEW g \in [1 .. n -> [S -> S]]
    PROVE  \E f \in [0 .. n -> S] : f[0] = a /\ \A k \in 1 .. n : f[k] = g[k][f[k - 1]]
<1> DEFINE Up(m, f) == f \in [0 .. m -> S] /\ f[0] = a /\ \A k \in 1 .. m : f[k] = g[k][f[k - 1]]
           P == {m \in Nat : m <= n => \E f : Up(m, f)}
<1>1. 0 \in P
  <2> DEFINE f == [k \in 0 .. 0 |-> a]
  <2>1. (\A k : k \in 0 .. 0 <=> k = 0) /\ ~(\E k : k \in 1 .. 0)
    OBVIOUS
  <2>2. f \in [0 .. 0 -> S] /\ f[0] = a /\ \A k \in 1 .. 0 : f[k] = g[k][f[k - 1]]
    BY <2>1
  <2> QED BY <2>2
<1>2. ASSUME NEW m \in P PROVE m + 1 \in P
  <2>0. m \in Nat /\ m + 1 \in Nat
    OBVIOUS
  <2> SUFFICES ASSUME m + 1 <= n PROVE \E f : Up(m + 1, f)
    <3> HIDE DEF Up
    <3> QED BY <2>0
  <2>00. m <= n
    BY <2>0
  <2>1. PICK f : Up(m, f)
    BY <2>0, <2>00
  <2> DEFINE h == [k \in 0 .. m + 1 |-> IF k = m + 1 THEN g[m + 1][f[m]] ELSE f[k]]
  <2>2. m \in Nat /\ m + 1 \in 1 .. n /\ f[m] \in S
    BY <2>1
  <2>3. g[m + 1][f[m]] \in S
    BY <2>2
  <2>4. h \in [0 .. m + 1 -> S] /\ h[0] = a
    BY <2>1, <2>2, <2>3
  <2>5. ASSUME NEW k \in 1 .. m + 1 PROVE h[k] = g[k][h[k - 1]]
    <3>1. k - 1 \in 0 .. m /\ h[k - 1] = f[k - 1] /\ k \in 0 .. m + 1
      BY <2>2
    <3>2. CASE k = m + 1
      BY <2>2, <3>1, <3>2
    <3>3. CASE k # m + 1
      <4>1. k \in 1 .. m /\ h[k] = f[k]
        BY <2>2, <3>3
      <4> QED BY <2>1, <3>1, <4>1
    <3> QED BY <3>2, <3>3
  <2> HIDE DEF h
  <2>6. Up(m + 1, h)
    BY <2>4, <2>5
  <2> QED BY <2>6
<1> HIDE DEF Up
<1>3. P = Nat
  <2>1. P \in SUBSET Nat
    OBVIOUS
  <2> HIDE DEF P
  <2> QED BY <1>1, <1>2, <2>1, Induction
<1>4. PICK f : Up(n, f)
  <2>1. n \in P
    BY <1>3
  <2> QED BY <2>1
<1> QED BY <1>4 DEF Up

LEMMA InOrderIs ==
    ASSUME NEW nodes
    PROVE  \E f \in [0 .. Len(Order) -> Seq(Nodes)] :
              /\ f[0] = <<>> /\ InOrder(nodes) = f[Len(Order)]
              /\ \A i \in 1 .. Len(Order) :
                    f[i] = IF Order[i] \in nodes THEN Append(f[i - 1], Order[i]) ELSE f[i - 1]
<1> DEFINE N == Len(Order)
           S == Seq(Nodes)
           Next(i, q) == IF Order[i] \in nodes THEN Append(q, Order[i]) ELSE q
           g == [i \in 1 .. N |-> [q \in S |-> Next(i, q)]]
           Eq(h) == h = [i \in 0 .. N |-> IF i = 0 THEN <<>> ELSE Next(i, h[i - 1])]
           listed == CHOOSE h : Eq(h)
<1>1. N \in Nat /\ DOMAIN Order = 1 .. N /\ \A i \in 1 .. N : Order[i] \in Nodes
  BY WorkflowAssumption
<1>2. \A i \in 1 .. N : \A q \in S : Next(i, q) \in S
  BY <1>1
<1>3. <<>> \in S
  OBVIOUS
<1>4. InOrder(nodes) = listed[N]
  BY DEF InOrder
<1> HIDE DEF S, N, Next
<1>5. g \in [1 .. N -> [S -> S]]
  BY <1>2
<1> PICK a \in S : a = <<>>
  BY <1>3
<1>6. PICK f \in [0 .. N -> S] : f[0] = a /\ \A k \in 1 .. N : f[k] = g[k][f[k - 1]]
  <2> HIDE DEF g
  <2>1. N \in Nat
    BY <1>1
  <2> QED BY ONLY <2>1, <1>5, a \in S, Recursion
<1>7. \A i \in 1 .. N : i \in 0 .. N /\ i - 1 \in 0 .. N /\ i # 0
  BY <1>1
<1>8. \A i \in 1 .. N : f[i] = Next(i, f[i - 1])
  <2> SUFFICES ASSUME NEW i \in 1 .. N PROVE f[i] = Next(i, f[i - 1])
    OBVIOUS
  <2>1. f[i - 1] \in S /\ f[i] = g[i][f[i - 1]]
    BY <1>6, <1>7
  <2> QED BY <2>1
<1>9. Eq(f)
  <2>1. \A i \in 0 .. N : i # 0 => i \in 1 .. N
    BY <1>1
  <2>2. \A i \in 0 .. N : f[i] = IF i = 0 THEN <<>> ELSE Next(i, f[i - 1])
    BY <1>6, <1>8, <2>1
  <2> QED BY <2>2
<1>10. Eq(listed)
  <2> HIDE DEF Eq
  <2> QED BY <1>9
<1> HIDE DEF listed
<1>11. listed[0] = <<>> /\ \A i \in 1 .. N : listed[i] = Next(i, listed[i - 1])
  BY <1>1, <1>7, <1>10
<1>12. listed = [i \in 0 .. N |-> listed[i]]
  BY <1>10
<1>13. \A i \in 0 .. N : listed[i] \in S
  <2> DEFINE P == {i \in Nat : i <= N => listed[i] \in S}
  <2>1. 0 \in P
    BY <1>3, <1>11
  <2>2. ASSUME NEW i \in P PROVE i + 1 \in P
    <3> SUFFICES ASSUME i + 1 <= N PROVE listed[i + 1] \in S
      OBVIOUS
    <3>1. i + 1 \in 1 .. N /\ (i + 1) - 1 = i /\ listed[i] \in S
      BY <1>1
    <3> QED BY <1>2, <1>11, <3>1
  <2>3. P \in SUBSET Nat
    OBVIOUS
  <2> HIDE DEF P
  <2>4. P = Nat
    BY <2>1, <2>2, <2>3, Induction
  <2> QED BY <1>1, <2>4 DEF P
<1>14. listed \in [0 .. N -> S]
  BY <1>12, <1>13
<1> QED
  BY <1>4, <1>11, <1>14 DEF N, S, Next

-----------------------------------------------------------------------------
(* Sequences of nodes                                                      *)

LEMMA IntervalCard ==
    \A m \in Nat : IsFiniteSet(1 .. m) /\ Cardinality(1 .. m) = m
<1> SUFFICES ASSUME NEW m \in Nat PROVE IsFiniteSet(1 .. m) /\ Cardinality(1 .. m) = m
  OBVIOUS
<1>1. Cardinality(1 .. m) = IF 1 > m THEN 0 ELSE m - 1 + 1
  BY FS_Interval
<1> QED BY <1>1, FS_Interval

LEMMA OrderDistinct ==
    /\ Len(Order) \in Nat /\ DOMAIN Order = 1 .. Len(Order) /\ Order \in [1 .. Len(Order) -> Nodes]
    /\ IsInjective(Order)
    /\ IsFiniteSet(Nodes) /\ Cardinality(Nodes) = Len(Order)
<1>1. /\ Len(Order) \in Nat /\ DOMAIN Order = 1 .. Len(Order) /\ Order \in [1 .. Len(Order) -> Nodes]
  BY WorkflowAssumption
<1>2. \A n \in Nodes : \E i \in 1 .. Len(Order) : Order[i] = n
  BY <1>1 DEF Nodes, Range
<1>3. Order \in Surjection(1 .. Len(Order), Nodes)
  BY <1>1, <1>2 DEF Surjection
<1>4. IsFiniteSet(1 .. Len(Order)) /\ Cardinality(1 .. Len(Order)) = Len(Order)
  BY <1>1, IntervalCard
<1>5. IsFiniteSet(Nodes)
  BY <1>3, <1>4, FS_Surjection
<1>6. Order \in Injection(1 .. Len(Order), Nodes)
  BY <1>3, <1>4, WorkflowAssumption, FS_SurjSameCardinalityImpliesInj
<1> QED BY <1>1, <1>5, <1>6, WorkflowAssumption DEF Injection

LEMMA RangeFacts ==
    ASSUME NEW s \in Seq(Nodes)
    PROVE  /\ Len(s) \in Nat /\ DOMAIN s = 1 .. Len(s) /\ Range(s) \subseteq Nodes
           /\ \A x : x \in Range(s) <=> \E i \in 1 .. Len(s) : s[i] = x
           /\ s = <<>> => Range(s) = {}
BY RangeEquality DEF Range

LEMMA AppendDistinct ==
    ASSUME NEW s \in Seq(Nodes), NEW e \in Nodes
    PROVE  /\ Append(s, e) \in Seq(Nodes) /\ Len(Append(s, e)) = Len(s) + 1
           /\ Range(Append(s, e)) = Range(s) \cup {e}
           /\ \A i \in 1 .. Len(s) : Append(s, e)[i] = s[i]
           /\ Append(s, e)[Len(s) + 1] = e
           /\ IsInjective(s) /\ e \notin Range(s) => IsInjective(Append(s, e))
<1> DEFINE t == Append(s, e)
<1>1. /\ t \in Seq(Nodes) /\ Len(t) = Len(s) + 1 /\ t[Len(s) + 1] = e
      /\ \A i \in 1 .. Len(s) : t[i] = s[i]
  BY AppendProperties
<1> HIDE DEF t
<1>2. /\ Len(s) \in Nat /\ DOMAIN s = 1 .. Len(s) /\ DOMAIN t = 1 .. Len(s) + 1
      /\ \A i \in 1 .. Len(s) + 1 : i \in 1 .. Len(s) \/ i = Len(s) + 1
  BY <1>1, RangeFacts
<1>3. Range(t) = Range(s) \cup {e}
  BY <1>1, <1>2 DEF Range
<1>4. ASSUME IsInjective(s), e \notin Range(s) PROVE IsInjective(t)
  <2>1. \A i \in 1 .. Len(s) : s[i] # e
    BY <1>2, <1>4 DEF Range
  <2>2. \A i, j \in 1 .. Len(s) : s[i] = s[j] => i = j
    BY <1>2, <1>4 DEF IsInjective
  <2>3. \A i, j \in 1 .. Len(s) + 1 : t[i] = t[j] => i = j
    BY <1>1, <1>2, <2>1, <2>2
  <2> QED BY <1>2, <2>3 DEF IsInjective
<1> QED BY <1>1, <1>3, <1>4 DEF t

LEMMA TailDistinct ==
    ASSUME NEW s \in Seq(Nodes), s # <<>>
    PROVE  /\ Head(s) \in Nodes /\ Tail(s) \in Seq(Nodes)
           /\ Range(s) = {Head(s)} \cup Range(Tail(s))
           /\ IsInjective(s) => IsInjective(Tail(s)) /\ Head(s) \notin Range(Tail(s))
<1> DEFINE t == Tail(s)
<1>1. /\ Head(s) \in Nodes /\ t \in Seq(Nodes) /\ Len(t) = Len(s) - 1
      /\ \A i \in 1 .. Len(t) : t[i] = s[i + 1]
  BY HeadTailProperties
<1>2. Head(s) = s[1]
  OBVIOUS
<1>3. Len(s) \in Nat /\ Len(s) # 0
  BY EmptySeq
<1> HIDE DEF t
<1>4. DOMAIN s = 1 .. Len(s) /\ DOMAIN t = 1 .. Len(t)
  BY <1>1, RangeFacts
<1>5. /\ 1 \in 1 .. Len(s) /\ \A i \in 1 .. Len(t) : i + 1 \in 1 .. Len(s) /\ i + 1 # 1
      /\ \A i \in 1 .. Len(s) : i = 1 \/ (i - 1 \in 1 .. Len(t) /\ (i - 1) + 1 = i)
  BY <1>1, <1>3
<1>6. Range(s) = {Head(s)} \cup Range(t)
  <2>1. ASSUME NEW x \in Range(s) PROVE x = Head(s) \/ x \in Range(t)
    <3>1. PICK i \in 1 .. Len(s) : s[i] = x
      BY <2>1, <1>4 DEF Range
    <3>2. i = 1 \/ (i - 1 \in 1 .. Len(t) /\ t[i - 1] = s[i])
      BY <1>1, <1>5
    <3> QED BY <1>2, <1>4, <3>1, <3>2 DEF Range
  <2>2. ASSUME NEW x \in Range(t) PROVE x \in Range(s)
    BY <2>2, <1>1, <1>4, <1>5 DEF Range
  <2>3. Head(s) \in Range(s)
    BY <1>2, <1>4, <1>5 DEF Range
  <2> QED BY <2>1, <2>2, <2>3
<1>7. ASSUME IsInjective(s) PROVE IsInjective(t) /\ Head(s) \notin Range(t)
  <2>1. \A i, j \in 1 .. Len(s) : s[i] = s[j] => i = j
    BY <1>4, <1>7 DEF IsInjective
  <2>2. \A i \in 1 .. Len(t) : t[i] # Head(s)
    BY <1>1, <1>2, <1>5, <2>1
  <2>3. \A i, j \in 1 .. Len(t) : t[i] = t[j] => i = j
    <3> SUFFICES ASSUME NEW i \in 1 .. Len(t), NEW j \in 1 .. Len(t), t[i] = t[j] PROVE i = j
      OBVIOUS
    <3>1. i + 1 = j + 1
      BY <1>1, <1>5, <2>1
    <3> QED BY <1>1, <1>3, <3>1
  <2> QED BY <1>4, <2>2, <2>3 DEF IsInjective, Range
<1> QED BY <1>1, <1>6, <1>7 DEF t

LEMMA ConcatDistinct ==
    ASSUME NEW s \in Seq(Nodes), NEW t \in Seq(Nodes)
    PROVE  /\ s \o t \in Seq(Nodes) /\ Range(s \o t) = Range(s) \cup Range(t)
           /\ IsInjective(s) /\ IsInjective(t) /\ Range(s) \cap Range(t) = {} => IsInjective(s \o t)
<1> DEFINE u == s \o t
<1>1. /\ u \in Seq(Nodes) /\ Len(u) = Len(s) + Len(t)
      /\ \A i \in 1 .. Len(s) + Len(t) : u[i] = IF i <= Len(s) THEN s[i] ELSE t[i - Len(s)]
  BY ConcatProperties
<1>2. Range(u) = Range(s) \cup Range(t)
  BY RangeConcatenation
<1> HIDE DEF u
<1>3. ASSUME IsInjective(s), IsInjective(t), Range(s) \cap Range(t) = {} PROVE IsInjective(u)
  <2>1. /\ Len(s) \in Nat /\ Len(t) \in Nat /\ DOMAIN s = 1 .. Len(s) /\ DOMAIN t = 1 .. Len(t)
        /\ DOMAIN u = 1 .. Len(s) + Len(t)
    BY <1>1, RangeFacts
  <2>2. \A i \in 1 .. Len(s), j \in 1 .. Len(t) : s[i] # t[j]
    BY <1>3, <2>1 DEF Range
  <2>3. ASSUME NEW i \in DOMAIN u
        PROVE  \/ i \in 1 .. Len(s) /\ u[i] = s[i]
               \/ ~(i <= Len(s)) /\ i - Len(s) \in 1 .. Len(t) /\ u[i] = t[i - Len(s)]
    BY <1>1, <2>1, <2>3
  <2>4. ASSUME NEW i \in DOMAIN u, NEW j \in DOMAIN u, u[i] = u[j] PROVE i = j
    <3>1. \A a, b \in 1 .. Len(s) : s[a] = s[b] => a = b
      BY <1>3, <2>1 DEF IsInjective
    <3>2. \A a, b \in 1 .. Len(t) : t[a] = t[b] => a = b
      BY <1>3, <2>1 DEF IsInjective
    <3>3. CASE i \in 1 .. Len(s) /\ u[i] = s[i]
      BY <2>2, <2>3, <2>4, <3>1, <3>3
    <3>4. CASE ~(i <= Len(s)) /\ i - Len(s) \in 1 .. Len(t) /\ u[i] = t[i - Len(s)]
      <4>1. ~(j \in 1 .. Len(s) /\ u[j] = s[j])
        BY <2>2, <2>4, <3>4
      <4>2. j - Len(s) \in 1 .. Len(t) /\ u[j] = t[j - Len(s)]
        BY <2>3, <4>1
      <4>3. i - Len(s) = j - Len(s)
        BY <2>4, <3>2, <3>4, <4>2
      <4>4. i \in Int /\ j \in Int
        BY <2>1
      <4> QED BY <2>1, <4>3, <4>4
    <3> QED BY <2>3, <3>3, <3>4
  <2> QED BY <2>4 DEF IsInjective
<1> QED BY <1>1, <1>2, <1>3 DEF u

\* The nodes of a set, listed.
LEMMA InOrderFacts ==
    ASSUME NEW nodes \in SUBSET Nodes
    PROVE  /\ InOrder(nodes) \in Seq(Nodes) /\ Range(InOrder(nodes)) = nodes
           /\ IsInjective(InOrder(nodes))
<1> DEFINE N == Len(Order)
           Before(i) == {Order[j] : j \in 1 .. i}
<1>1. PICK f \in [0 .. N -> Seq(Nodes)] :
          /\ f[0] = <<>> /\ InOrder(nodes) = f[N]
          /\ \A i \in 1 .. N :
                f[i] = IF Order[i] \in nodes THEN Append(f[i - 1], Order[i]) ELSE f[i - 1]
  BY InOrderIs
<1>2. N \in Nat /\ Order \in [1 .. N -> Nodes] /\ \A i, j \in 1 .. N : Order[i] = Order[j] => i = j
  BY OrderDistinct DEF IsInjective
<1> HIDE DEF N
<1> DEFINE Good(i) == Range(f[i]) = Before(i) \cap nodes /\ IsInjective(f[i])
           P == {i \in Nat : i <= N => Good(i)}
<1>3. 0 \in P
  <2>1. Range(f[0]) = {} /\ IsInjective(f[0])
    BY <1>1 DEF Range, IsInjective
  <2>2. Before(0) = {}
    OBVIOUS
  <2> QED BY <2>1, <2>2
<1>4. ASSUME NEW i \in P PROVE i + 1 \in P
  <2>0. i \in Nat /\ i + 1 \in Nat
    OBVIOUS
  <2> SUFFICES ASSUME i + 1 <= N PROVE Good(i + 1)
    <3> HIDE DEF Good
    <3> QED BY <2>0
  <2>1. i <= N /\ i \in 0 .. N /\ i + 1 \in 1 .. N /\ (i + 1) - 1 = i
    BY <1>2, <2>0
  <2>2. Good(i)
    <3> HIDE DEF Good
    <3> QED BY <2>1
  <2> DEFINE e == Order[i + 1]
  <2>3. e \in Nodes /\ f[i] \in Seq(Nodes)
    BY <1>2, <2>1
  <2>4. Before(i + 1) = Before(i) \cup {e}
    <3>1. \A j : j \in 1 .. i + 1 <=> j \in 1 .. i \/ j = i + 1
      BY <2>0
    <3> QED BY <3>1
  <2>5. e \notin Before(i)
    <3>1. \A j \in 1 .. i : j \in 1 .. N /\ j # i + 1
      BY <1>2, <2>1
    <3> QED BY <1>2, <2>1, <3>1
  <2>6. f[i + 1] = IF e \in nodes THEN Append(f[i], e) ELSE f[i]
    BY <1>1, <2>1
  <2> HIDE DEF e, Before
  <2>7. CASE e \in nodes
    <3>1. e \notin Range(f[i])
      BY <2>2, <2>5
    <3> QED BY <2>2, <2>3, <2>4, <2>6, <2>7, <3>1, AppendDistinct
  <2>8. CASE e \notin nodes
    BY <2>2, <2>4, <2>6, <2>8
  <2> QED BY <2>7, <2>8
<1>5. P = Nat
  <2>1. P \in SUBSET Nat
    OBVIOUS
  <2> HIDE DEF P
  <2> QED BY <1>3, <1>4, <2>1, Induction
<1>6. Good(N)
  <2>1. N \in P
    <3> HIDE DEF P
    <3> QED BY <1>2, <1>5
  <2>2. N <= N
    BY <1>2
  <2> HIDE DEF Good
  <2> QED BY <2>1, <2>2
<1>7. Before(N) = Nodes
  BY <1>2, OrderDistinct DEF N, Nodes, Range
<1>8. f[N] \in Seq(Nodes)
  BY <1>2
<1> QED BY <1>1, <1>6, <1>7, <1>8

-----------------------------------------------------------------------------
(* topoOrder                                                               *)

Orders == [order : Seq(Nodes), queue : Seq(Nodes)]

\* What is queued is what waits for ordered nodes alone, and each ordered node
\* comes after what it waits for.
Ordering(s) ==
    /\ s \in Orders
    /\ IsInjective(s.order) /\ IsInjective(s.queue)
    /\ Range(s.queue) = {n \in Nodes \ Range(s.order) : deps[n] \subseteq Range(s.order)}
    /\ \A i \in 1 .. Len(s.order) :
          \A d \in deps[s.order[i]] : \E j \in 1 .. i - 1 : s.order[j] = d

Deps == deps \in [Nodes -> SUBSET Nodes]

LEMMA IndegreeZero ==
    ASSUME Deps, NEW n \in Nodes, NEW taken
    PROVE  Indegree(n, taken) = 0 <=> deps[n] \subseteq Range(taken)
<1>1. IsFiniteSet(deps[n])
  BY OrderDistinct, FS_Subset DEF Deps
<1>2. IsFiniteSet(deps[n] \ Range(taken))
  BY <1>1, FS_Subset
<1> QED BY <1>2, FS_EmptySet DEF Indegree

LEMMA RootsOrdering ==
    ASSUME Deps, NEW s, s = [order |-> <<>>, queue |-> Roots]
    PROVE  Ordering(s)
<1> DEFINE F == {n \in Nodes : Indegree(n, <<>>) = 0}
<1>1. Roots \in Seq(Nodes) /\ Range(Roots) = F /\ IsInjective(Roots)
  <2>1. F \in SUBSET Nodes
    OBVIOUS
  <2> HIDE DEF F
  <2>2. InOrder(F) \in Seq(Nodes) /\ Range(InOrder(F)) = F /\ IsInjective(InOrder(F))
    BY <2>1, InOrderFacts
  <2> QED BY <2>2 DEF Roots, F
<1>2. <<>> \in Seq(Nodes) /\ Range(<<>>) = {} /\ Len(<<>>) = 0 /\ IsInjective(<<>>)
  BY DEF Range, IsInjective
<1>3. F = {n \in Nodes \ Range(<<>>) : deps[n] \subseteq Range(<<>>)}
  BY <1>2, IndegreeZero
<1> HIDE DEF F
<1>4. s \in Orders /\ s.order = <<>> /\ s.queue = Roots
  BY <1>1, <1>2 DEF Orders
<1>5. ~(\E i : i \in 1 .. Len(s.order))
  BY <1>2, <1>4
<1> QED BY <1>1, <1>2, <1>3, <1>4, <1>5 DEF Ordering

LEMMA OrderNextOrdering ==
    ASSUME Deps, NEW s, Ordering(s)
    PROVE  /\ Ordering(OrderNext(s))
           /\ IF s.queue = <<>> THEN OrderNext(s) = s
              ELSE Len(OrderNext(s).order) = Len(s.order) + 1
<1>1. CASE s.queue = <<>>
  BY <1>1 DEF OrderNext
<1>2. CASE s.queue # <<>>
  <2> DEFINE h == Head(s.queue)
             order == Append(s.order, h)
             freed == {n \in Nodes : h \in deps[n] /\ Indegree(n, order) = 0}
             rest == Tail(s.queue)
             queue == rest \o InOrder(freed)
             Free(o) == {n \in Nodes \ o : deps[n] \subseteq o}
  <2>1. /\ s.order \in Seq(Nodes) /\ s.queue \in Seq(Nodes)
        /\ IsInjective(s.order) /\ IsInjective(s.queue) /\ Range(s.queue) = Free(Range(s.order))
        /\ \A i \in 1 .. Len(s.order) :
              \A d \in deps[s.order[i]] : \E j \in 1 .. i - 1 : s.order[j] = d
    BY DEF Ordering, Orders
  <2>2. /\ h \in Nodes /\ rest \in Seq(Nodes) /\ Range(s.queue) = {h} \cup Range(rest)
        /\ IsInjective(rest) /\ h \notin Range(rest)
    BY <1>2, <2>1, TailDistinct
  <2>3. freed \in SUBSET Nodes
    OBVIOUS
  <2>4. OrderNext(s) = [order |-> order, queue |-> queue]
    BY <1>2 DEF OrderNext
  <2>5. freed = {n \in Nodes : h \in deps[n] /\ deps[n] \subseteq Range(order)}
    <3> HIDE DEF order, h
    <3> QED BY IndegreeZero
  <2> HIDE DEF h, freed, rest
  <2>6. h \notin Range(s.order) /\ deps[h] \subseteq Range(s.order)
    BY <2>1, <2>2
  <2>7. /\ order \in Seq(Nodes) /\ Len(order) = Len(s.order) + 1 /\ Range(order) = Range(s.order) \cup {h}
        /\ (\A i \in 1 .. Len(s.order) : order[i] = s.order[i]) /\ order[Len(s.order) + 1] = h
        /\ IsInjective(order)
    BY <2>1, <2>2, <2>6, AppendDistinct
  <2> HIDE DEF order
  <2>8. Len(s.order) \in Nat /\ \A x : x \in Range(s.order) <=> \E i \in 1 .. Len(s.order) : s.order[i] = x
    BY <2>1, RangeFacts
  <2>9. \A n \in Range(s.order) : deps[n] \subseteq Range(s.order)
    <3> SUFFICES ASSUME NEW n \in Range(s.order), NEW d \in deps[n] PROVE d \in Range(s.order)
      OBVIOUS
    <3>1. PICK i \in 1 .. Len(s.order) : s.order[i] = n
      BY <2>8
    <3>2. PICK j \in 1 .. i - 1 : s.order[j] = d
      BY <2>1, <3>1
    <3>3. j \in 1 .. Len(s.order)
      BY <2>8
    <3> QED BY <2>8, <3>2, <3>3
  <2>10. freed \cap (Range(rest) \cup Range(order)) = {}
    <3> SUFFICES ASSUME NEW n \in freed PROVE n \notin Range(rest) /\ n \notin Range(order)
      OBVIOUS
    <3>1. h \in deps[n]
      BY <2>5
    <3>2. ~(deps[n] \subseteq Range(s.order))
      BY <2>6, <3>1
    <3> QED BY <2>1, <2>2, <2>6, <2>7, <2>9, <3>2
  <2>11. Free(Range(order)) = Range(rest) \cup freed
    <3>1. ASSUME NEW n \in Free(Range(order)) PROVE n \in Range(rest) \/ n \in freed
      <4>1. n \in Nodes /\ n # h /\ n \notin Range(s.order) /\ deps[n] \subseteq Range(order)
        BY <2>7, <3>1
      <4>2. CASE h \in deps[n]
        BY <2>5, <4>1, <4>2
      <4>3. CASE h \notin deps[n]
        BY <2>1, <2>2, <2>7, <4>1, <4>3
      <4> QED BY <4>2, <4>3
    <3>2. ASSUME NEW n \in Range(rest) PROVE n \in Free(Range(order))
      <4>1. n # h /\ n \in Free(Range(s.order))
        BY <2>1, <2>2, <3>2
      <4> QED BY <2>7, <4>1
    <3>3. ASSUME NEW n \in freed PROVE n \in Free(Range(order))
      BY <2>5, <2>10, <3>3
    <3> QED BY <3>1, <3>2, <3>3
  <2>12. queue \in Seq(Nodes) /\ Range(queue) = Range(rest) \cup freed /\ IsInjective(queue)
    <3> PICK q : q = InOrder(freed)
      OBVIOUS
    <3>1. q \in Seq(Nodes) /\ Range(q) = freed /\ IsInjective(q)
      BY <2>3, InOrderFacts
    <3>2. Range(rest) \cap Range(q) = {}
      BY <2>10, <3>1
    <3> QED BY <2>2, <3>1, <3>2, ConcatDistinct
  <2> HIDE DEF queue
  <2> PICK t : t = OrderNext(s)
    OBVIOUS
  <2>13. t \in Orders /\ t.order = order /\ t.queue = queue
    BY <2>4, <2>7, <2>12 DEF Orders
  <2>14. ASSUME NEW i \in 1 .. Len(order), NEW d \in deps[order[i]]
         PROVE  \E j \in 1 .. i - 1 : order[j] = d
    <3>1. CASE i \in 1 .. Len(s.order)
      <4>1. PICK j \in 1 .. i - 1 : s.order[j] = d
        BY <2>1, <2>7, <2>14, <3>1
      <4>2. j \in 1 .. Len(s.order)
        BY <2>8, <3>1
      <4> QED BY <2>7, <4>1, <4>2
    <3>2. CASE i = Len(s.order) + 1
      <4>1. d \in deps[h]
        BY <2>7, <2>14, <3>2
      <4>2. PICK j \in 1 .. Len(s.order) : s.order[j] = d
        BY <2>6, <2>8, <4>1
      <4>3. j \in 1 .. i - 1
        BY <2>8, <3>2, <4>2
      <4> QED BY <2>7, <4>2, <4>3
    <3> QED BY <2>7, <2>8, <3>1, <3>2
  <2>15. Ordering(t)
    <3>1. Range(queue) = {n \in Nodes \ Range(order) : deps[n] \subseteq Range(order)}
      BY <2>11, <2>12
    <3> HIDE DEF Free
    <3>2. t \in Orders /\ IsInjective(t.order) /\ IsInjective(t.queue)
      BY <2>7, <2>12, <2>13
    <3>3. Range(t.queue) = {n \in Nodes \ Range(t.order) : deps[n] \subseteq Range(t.order)}
      BY ONLY <2>13, <3>1
    <3>4. \A i \in 1 .. Len(t.order) :
             \A d \in deps[t.order[i]] : \E j \in 1 .. i - 1 : t.order[j] = d
      BY ONLY <2>13, <2>14
    <3> QED BY <3>2, <3>3, <3>4 DEF Ordering
  <2> QED BY <1>2, <2>7, <2>13, <2>15
<1> QED BY <1>1, <1>2

\* After k turns of the loop k nodes are ordered, or none is queued.
LEMMA SortedIs ==
    ASSUME Deps
    PROVE  \E s : /\ Ordering(s) /\ Sorted = s.order
                  /\ Len(s.order) = Len(Order) \/ s.queue = <<>>
<1> DEFINE N == Len(Order)
           S == {s \in Orders : Ordering(s)}
           g == [k \in 1 .. N |-> [s \in S |-> OrderNext(s)]]
           Eq(h) == h = [k \in 0 .. N |-> IF k = 0 THEN [order |-> <<>>, queue |-> Roots]
                                         ELSE OrderNext(h[k - 1])]
           loop == CHOOSE h : Eq(h)
<1>1. N \in Nat
  BY OrderDistinct
<1>2. \A s \in S : OrderNext(s) \in S
  BY OrderNextOrdering DEF Ordering
<1> PICK a : a = [order |-> <<>>, queue |-> Roots]
  OBVIOUS
<1>3. a \in S
  BY RootsOrdering DEF Ordering
<1>4. Sorted = loop[N].order
  BY DEF Sorted
<1> HIDE DEF N
<1>i. \A s \in S : Ordering(s)
  OBVIOUS
<1> HIDE DEF S
<1>5. g \in [1 .. N -> [S -> S]]
  BY <1>2
<1>6. PICK f \in [0 .. N -> S] : f[0] = a /\ \A k \in 1 .. N : f[k] = g[k][f[k - 1]]
  <2> HIDE DEF g
  <2> QED BY ONLY <1>1, <1>3, <1>5, Recursion
<1>7. \A k \in 1 .. N : k \in 0 .. N /\ k - 1 \in 0 .. N /\ k # 0
  BY <1>1
<1>8. \A k \in 1 .. N : f[k] = OrderNext(f[k - 1])
  <2> SUFFICES ASSUME NEW k \in 1 .. N PROVE f[k] = OrderNext(f[k - 1])
    OBVIOUS
  <2>1. f[k - 1] \in S /\ f[k] = g[k][f[k - 1]]
    BY <1>6, <1>7
  <2> QED BY <2>1
<1>9. Eq(f)
  <2>1. \A k \in 0 .. N : k # 0 => k \in 1 .. N
    BY <1>1
  <2>2. \A k \in 0 .. N : f[k] = IF k = 0 THEN [order |-> <<>>, queue |-> Roots] ELSE OrderNext(f[k - 1])
    BY <1>6, <1>8, <2>1
  <2> QED BY <2>2
<1>10. Eq(loop)
  <2> HIDE DEF Eq
  <2> QED BY <1>9
<1> HIDE DEF loop
<1>11. loop[0] = a /\ \A k \in 1 .. N : loop[k] = OrderNext(loop[k - 1])
  BY <1>1, <1>7, <1>10
<1> DEFINE Good(k) == Ordering(loop[k]) /\ (Len(loop[k].order) = k \/ loop[k].queue = <<>>)
           P == {k \in Nat : k <= N => Good(k)}
<1>12. 0 \in P
  <2>1. Ordering(a) /\ a.order = <<>> /\ Len(<<>>) = 0
    BY <1>3, <1>i
  <2> QED BY <1>11, <2>1
<1>13. ASSUME NEW k \in P PROVE k + 1 \in P
  <2>0. k \in Nat /\ k + 1 \in Nat
    OBVIOUS
  <2> SUFFICES ASSUME k + 1 <= N PROVE Good(k + 1)
    <3> HIDE DEF Good
    <3> QED BY <2>0
  <2>1. k <= N /\ k + 1 \in 1 .. N /\ (k + 1) - 1 = k
    BY <1>1, <2>0
  <2>2. Good(k)
    <3> HIDE DEF Good
    <3> QED BY <2>1
  <2>3. loop[k + 1] = OrderNext(loop[k])
    BY <1>11, <2>1
  <2>4. /\ Ordering(OrderNext(loop[k]))
        /\ IF loop[k].queue = <<>> THEN OrderNext(loop[k]) = loop[k]
           ELSE Len(OrderNext(loop[k]).order) = Len(loop[k].order) + 1
    BY <2>2, OrderNextOrdering
  <2> QED BY <2>2, <2>3, <2>4
<1>14. P = Nat
  <2>1. P \in SUBSET Nat
    OBVIOUS
  <2> HIDE DEF P
  <2> QED BY <1>12, <1>13, <2>1, Induction
<1>15. Good(N)
  <2>1. N \in P
    <3> HIDE DEF P
    <3> QED BY <1>1, <1>14
  <2>2. N <= N
    BY <1>1
  <2> HIDE DEF Good
  <2> QED BY <2>1, <2>2
<1> QED BY <1>4, <1>15 DEF N

\* topoOrder finds an order exactly if there is no cycle.
LEMMA OrderIffNoCycle ==
    ASSUME Deps
    PROVE  HasOrder <=> ~Cyclic
<1>1. PICK s : /\ Ordering(s) /\ Sorted = s.order
               /\ Len(s.order) = Len(Order) \/ s.queue = <<>>
  BY SortedIs
<1>2. /\ s.order \in Seq(Nodes) /\ s.queue \in Seq(Nodes) /\ IsInjective(s.order)
      /\ Range(s.queue) = {n \in Nodes \ Range(s.order) : deps[n] \subseteq Range(s.order)}
      /\ \A i \in 1 .. Len(s.order) :
            \A d \in deps[s.order[i]] : \E j \in 1 .. i - 1 : s.order[j] = d
  BY <1>1 DEF Ordering, Orders
<1>3. /\ Len(s.order) \in Nat /\ DOMAIN s.order = 1 .. Len(s.order) /\ Range(s.order) \subseteq Nodes
      /\ \A x : x \in Range(s.order) <=> \E i \in 1 .. Len(s.order) : s.order[i] = x
  BY <1>2, RangeFacts
<1>4. /\ IsFiniteSet(Range(s.order)) /\ Cardinality(Range(s.order)) = Len(s.order)
  <2>1. s.order \in [1 .. Len(s.order) -> Range(s.order)]
    BY <1>2, <1>3
  <2>2. s.order \in Bijection(1 .. Len(s.order), Range(s.order))
    BY <1>2, <1>3, <2>1 DEF Bijection, Injection, Surjection
  <2>3. IsFiniteSet(1 .. Len(s.order)) /\ Cardinality(1 .. Len(s.order)) = Len(s.order)
    <3>1. Len(s.order) \in Nat
      BY <1>3
    <3> QED BY ONLY <3>1, IntervalCard
  <2>4. ExistsBijection(1 .. Len(s.order), Range(s.order))
    BY <2>2 DEF ExistsBijection
  <2> QED BY <2>3, <2>4, FS_Bijection
<1>5. CASE Len(s.order) = Len(Order)
  <2>1. HasOrder
    BY <1>1, <1>5 DEF HasOrder
  <2>2. Range(s.order) = Nodes
    BY <1>3, <1>4, <1>5, OrderDistinct, FS_Subset
  <2>3. ASSUME Cyclic PROVE FALSE
    <3>1. PICK C \in (SUBSET Nodes) \ {{}} : \A n \in C : deps[n] \cap C # {}
      BY <2>3 DEF Cyclic
    <3> DEFINE P == {i \in Nat : \A j \in 1 .. i : j <= Len(s.order) => s.order[j] \notin C}
    <3>2. 0 \in P
      OBVIOUS
    <3>3. ASSUME NEW i \in P PROVE i + 1 \in P
      <4>0. i \in Nat /\ \A j \in 1 .. i : j <= Len(s.order) => s.order[j] \notin C
        OBVIOUS
      <4>1. ASSUME i + 1 <= Len(s.order), s.order[i + 1] \in C PROVE FALSE
        <5>1. PICK d \in deps[s.order[i + 1]] : d \in C
          BY <3>1, <4>1
        <5>2. i + 1 \in 1 .. Len(s.order) /\ (i + 1) - 1 = i
          BY <1>3, <4>0, <4>1
        <5>3. PICK j \in 1 .. i : s.order[j] = d
          BY <1>2, <5>1, <5>2
        <5>4. j <= Len(s.order)
          BY <1>3, <4>0, <4>1, <5>3
        <5> QED BY <4>0, <5>1, <5>3, <5>4
      <4>2. \A j \in 1 .. i + 1 : j \in 1 .. i \/ j = i + 1
        BY <4>0
      <4> QED BY <4>0, <4>1, <4>2
    <3>4. P = Nat
      <4>1. P \in SUBSET Nat
        OBVIOUS
      <4> HIDE DEF P
      <4> QED BY <3>2, <3>3, <4>1, Induction
    <3>5. Len(s.order) \in P
      <4> HIDE DEF P
      <4> QED BY <1>3, <3>4
    <3>i. C \subseteq Nodes /\ C # {}
      OBVIOUS
    <3>6. PICK n \in C : n \in Nodes
      <4> HIDE DEF P
      <4> QED BY ONLY <3>i
    <3>7. PICK i \in 1 .. Len(s.order) : s.order[i] = n
      BY <1>3, <2>2, <3>6
    <3> QED BY <1>3, <3>5, <3>6, <3>7
  <2> QED BY <2>1, <2>3
<1>6. CASE Len(s.order) # Len(Order)
  <2>1. ~HasOrder
    BY <1>1, <1>6 DEF HasOrder
  <2> DEFINE C == Nodes \ Range(s.order)
  <2>2. C # {}
    <3>1. Range(s.order) # Nodes
      BY <1>4, <1>6, OrderDistinct
    <3> QED BY <1>3, <3>1
  <2>3. Range(s.queue) = {}
    BY <1>1, <1>2, <1>6, RangeFacts
  <2>4. ASSUME NEW n \in C PROVE deps[n] \cap C # {}
    <3>1. ~(deps[n] \subseteq Range(s.order)) /\ deps[n] \subseteq Nodes
      BY <1>2, <2>3, <2>4 DEF Deps
    <3> QED BY <3>1
  <2>i. C \subseteq Nodes
    OBVIOUS
  <2>5. C \in (SUBSET Nodes) \ {{}}
    <3> HIDE DEF C
    <3> QED BY ONLY <2>i, <2>2
  <2> HIDE DEF C
  <2>6. Cyclic
    BY <2>4, <2>5 DEF Cyclic
  <2> QED BY <2>1, <2>6
<1> QED BY <1>5, <1>6

-----------------------------------------------------------------------------
(* What validateWorkflow rejects                                           *)

LEMMA RejectsStep == WorkflowInv /\ RejectsCycles /\ [WorkflowNext]_wvars => RejectsCycles'
<1> SUFFICES ASSUME WorkflowInv, RejectsCycles, [WorkflowNext]_wvars PROVE RejectsCycles'
    OBVIOUS
<1>1. Deps
    BY DEF WorkflowInv, WorkflowTypeOK, Deps
<1>2. deps' = deps => (Cyclic' <=> Cyclic)
    BY DEF Cyclic
<1>3. CASE Execute
    <2>1. phase = "called" /\ deps' = deps
        BY <1>3 DEF Execute
    <2>2. CASE ~HasOrder /\ phase' = "rejected"
        BY <1>1, <1>2, <2>1, <2>2, OrderIffNoCycle DEF RejectsCycles
    <2>3. CASE HasOrder /\ Loop(agents, ran)
        <3>1. phase' \in {"running", "returned"}
            BY <2>3 DEF Loop
        <3> QED BY <1>1, <1>2, <2>1, <2>3, <3>1, OrderIffNoCycle DEF RejectsCycles
    <2> QED BY <1>3, <2>2, <2>3 DEF Execute
<1>4. CASE deps' = deps /\ phase' = phase
    BY <1>2, <1>4 DEF RejectsCycles
<1>5. CASE Alive /\ deps' = deps /\ phase' \in {"running", "returned", "crashed"}
    BY <1>2, <1>5 DEF RejectsCycles, Alive
<1>6. CASE Abort
    BY <1>4, <1>6 DEF Abort
<1>7. ASSUME NEW t \in Targets, InDelegation(t) PROVE RejectsCycles'
    BY <1>4, <1>7 DEF InDelegation
<1>8. ASSUME NEW t \in Targets, DelegationEnds(t) PROVE RejectsCycles'
    <2>1. PICK A, n : WorkerFree(A, n)
        BY <1>8 DEF DelegationEnds
    <2>2. phase' = phase \/ phase' \in {"running", "returned"}
        BY <2>1 DEF WorkerFree, Loop
    <2>3. Alive /\ deps' = deps
        BY <1>8 DEF DelegationEnds
    <2> QED BY <1>4, <1>5, <2>2, <2>3
<1>9. ASSUME NEW t \in Targets, Crash(t) PROVE RejectsCycles'
    BY <1>5, <1>9 DEF Crash
<1>10. CASE UNCHANGED wvars
    BY <1>4, <1>10 DEF wvars
<1> QED BY <1>3, <1>6, <1>7, <1>8, <1>9, <1>10 DEF WorkflowNext

\* For every graph: executeWorkflow rejects it exactly if some of its nodes wait
\* for one another in a cycle, so Kahn's algorithm neither loses a node it could
\* have ordered nor orders one of a cycle; and of a graph it runs no node starts
\* before every target of its dependencies has returned.
THEOREM WavesAlwaysSound == WorkflowSpec => []WavesSound
<1>1. WorkflowInit => RejectsCycles
    BY DEF WorkflowInit, RejectsCycles
<1>2. WorkflowSpec => []RejectsCycles
    BY <1>1, RejectsStep, WorkflowInvariant, PTL DEF WorkflowSpec
<1>3. RejectsCycles /\ DependenciesSettled => WavesSound
    BY DEF WavesSound
<1> QED BY <1>2, <1>3, DependenciesAlwaysSettled, PTL

-----------------------------------------------------------------------------
(* Numbers                                                                 *)

LEMMA Least ==
    ASSUME NEW S \in SUBSET Nat, S # {}
    PROVE  \E x \in S : \A y \in S : x <= y
<1> DEFINE R == {q \in Nat \X Nat : q[1] < q[2]}
<1>1. IsWellFoundedOn(R, Nat)
  BY NatLessThanWellFounded DEF OpToRel
<1>2. PICK x \in S : \A y \in S : ~(<<y, x>> \in R)
  <2> HIDE DEF R
  <2> QED BY <1>1, WFMin
<1>3. ASSUME NEW y \in S PROVE x <= y
  <2>1. y \in Nat /\ x \in Nat /\ ~(<<y, x>> \in R)
    BY <1>2
  <2>2. ~(y < x)
    BY <2>1
  <2> QED BY <2>1, <2>2
<1> QED BY <1>3

LEMMA DivMod ==
    ASSUME NEW a \in Int, NEW b \in Nat \ {0}
    PROVE  a \div b \in Int /\ a % b \in Nat /\ a % b < b /\ a = (a \div b) * b + (a % b)
<1>1. a \div b \in Int
  OBVIOUS
<1>2. a % b \in 0 .. b - 1
  OBVIOUS
<1>3. a % b = a - b * (a \div b)
  OBVIOUS
<1> PICK q \in Int : q = a \div b
  BY <1>1
<1> PICK r \in 0 .. b - 1 : r = a % b
  BY <1>2
<1>4. r = a - b * q
  BY <1>3
<1>5. b * q = q * b
  OBVIOUS
<1>6. a = q * b + r
  BY <1>4, <1>5
<1> QED BY <1>1, <1>2, <1>6

LEMMA DivIs ==
    ASSUME NEW b \in Nat \ {0}, NEW q \in Int, NEW r \in Nat, r < b
    PROVE  (q * b + r) \div b = q /\ (q * b + r) % b = r
<1>1. (q * b + r) \div b = q
  OBVIOUS
<1>2. (q * b + r) % b = r
  OBVIOUS
<1> QED BY <1>1, <1>2

LEMMA ProductMono ==
    ASSUME NEW b \in Nat \ {0}, NEW q \in Int, NEW r \in Int
    PROVE  /\ q * b \in Int
           /\ q <= r <=> q * b <= r * b
           /\ (q + 1) * b = q * b + b
<1>1. q <= r => q * b <= r * b
  OBVIOUS
<1>2. r < q => r * b < q * b
  OBVIOUS
<1> QED BY <1>1, <1>2

\* What lies in one period.
LEMMA DivBetween ==
    ASSUME NEW a \in Int, NEW b \in Nat \ {0}, NEW q \in Int
    PROVE  /\ q * b <= a <=> q <= a \div b
           /\ a < q * b <=> a \div b < q
           /\ a < (a \div b + 1) * b
<1> PICK d \in Int : d = a \div b
  BY DivMod
<1> PICK r \in Nat : r = a % b /\ r < b
  BY DivMod
<1>1. a = d * b + r
  BY DivMod
<1>2. (d + 1) * b = d * b + b /\ d * b \in Int /\ q * b \in Int
  BY ProductMono
<1>3. q <= d <=> q * b <= d * b
  BY ProductMono
<1>4. d + 1 <= q <=> (d + 1) * b <= q * b
  BY ProductMono
<1> QED BY <1>1, <1>2, <1>3, <1>4

\* Days as multiples of b minutes.
LEMMA Days ==
    ASSUME NEW b \in Nat \ {0}
    PROVE  /\ \A z \in Int : z * b \in Int /\ (z * b) \div b = z
           /\ \A z, k \in Int : k < z * b <=> k \div b < z
           /\ \A n, k \in Int : n <= k => n \div b <= k \div b
<1>1. ASSUME NEW z \in Int PROVE z * b \in Int /\ (z * b) \div b = z
  <2>1. z * b \in Int
    BY ProductMono
  <2>2. (z * b + 0) \div b = z
    BY DivIs
  <2>3. z * b + 0 = z * b
    BY <2>1
  <2> QED BY <2>1, <2>2, <2>3
<1>2. ASSUME NEW z \in Int, NEW k \in Int PROVE k < z * b <=> k \div b < z
  BY DivBetween
<1>3. ASSUME NEW n \in Int, NEW k \in Int, n <= k PROVE n \div b <= k \div b
  <2> PICK d \in Int : d = n \div b
    BY DivMod
  <2>1. d * b <= n
    BY DivBetween
  <2> PICK e \in Int : e = d * b
    BY ProductMono
  <2>2. e <= k
    BY <1>3, <2>1
  <2> QED BY <2>2, DivBetween
<1> QED BY <1>1, <1>2, <1>3

\* Days of a year of Y, counted on.
LEMMA Shift ==
    ASSUME NEW Y \in Nat \ {0}, NEW d \in Int, NEW e \in Int
    PROVE  /\ \A r \in Nat : r = (d % Y) + (e - d) /\ r < Y => e % Y = r
           /\ (d % Y) + (e - d) = Y => e % Y = 0
<1>1. PICK q \in Int : q = d \div Y
  BY DivMod
<1>2. PICK y \in Nat : y = d % Y
  BY DivMod
<1>3. PICK w \in Int : w = q * Y
  BY ProductMono
<1>4. d = w + y
  BY <1>1, <1>2, <1>3, DivMod
<1>5. ASSUME NEW r \in Nat, r = (d % Y) + (e - d), r < Y PROVE e % Y = r
  <2>1. e = w + r
    <3>1. r = y + (e - d)
      BY <1>2, <1>5
    <3> QED BY ONLY <1>4, <3>1, d \in Int, e \in Int, w \in Int, y \in Nat, r \in Nat
  <2>2. (q * Y + r) % Y = r
    BY <1>5, DivIs
  <2> QED BY <1>3, <2>1, <2>2
<1>6. ASSUME (d % Y) + (e - d) = Y PROVE e % Y = 0
  <2>1. e = w + Y
    <3>1. Y = y + (e - d)
      BY <1>2, <1>6
    <3> QED BY ONLY <1>4, <3>1, d \in Int, e \in Int, w \in Int, y \in Nat, Y \in Nat
  <2> PICK p \in Int : p = q + 1
    OBVIOUS
  <2>2. p * Y = w + Y
    BY <1>3, ProductMono
  <2>3. (p * Y + 0) % Y = 0
    BY DivIs
  <2>4. p * Y + 0 = e
    BY <2>1, <2>2
  <2> QED BY <2>3, <2>4
<1> QED BY <1>5, <1>6

-----------------------------------------------------------------------------
(* The calendar                                                            *)

LEMMA MonthsAre ==
    /\ Len(MonthDays) \in Nat /\ Len(MonthDays) > 1 /\ Months = 1 .. Len(MonthDays)
    /\ \A m \in Months : MonthDays[m] \in Nat \ {0}
BY SchedulesAssumption DEF Months

LEMMA DaysThroughIs ==
    /\ DaysThrough \in [0 .. Len(MonthDays) -> Nat] /\ DaysThrough[0] = 0
    /\ \A m \in Months : DaysThrough[m] = DaysThrough[m - 1] + MonthDays[m]
<1> DEFINE N == Len(MonthDays)
           S == Nat
           g == [m \in 1 .. N |-> [x \in S |-> x + MonthDays[m]]]
           Eq(h) == h = [m \in 0 .. N |-> IF m = 0 THEN 0 ELSE h[m - 1] + MonthDays[m]]
           days == CHOOSE h : Eq(h)
<1>1. N \in Nat /\ Months = 1 .. N /\ \A m \in 1 .. N : MonthDays[m] \in Nat
  BY MonthsAre
<1>2. DaysThrough = days
  BY DEF DaysThrough
<1> HIDE DEF N
<1>i. \A m \in 1 .. N : \A x \in S : x + MonthDays[m] \in S
  BY <1>1
<1> PICK a \in S : a = 0
  OBVIOUS
<1>j. S = Nat
  OBVIOUS
<1> HIDE DEF S
<1>3. g \in [1 .. N -> [S -> S]]
  BY <1>i
<1>4. PICK f \in [0 .. N -> S] : f[0] = a /\ \A m \in 1 .. N : f[m] = g[m][f[m - 1]]
  <2> HIDE DEF g
  <2>1. N \in Nat
    BY <1>1
  <2> QED BY ONLY <1>3, <2>1, a \in S, Recursion
<1>5. \A m \in 1 .. N : m \in 0 .. N /\ m - 1 \in 0 .. N /\ m # 0
  BY <1>1
<1>6. \A m \in 1 .. N : f[m] = f[m - 1] + MonthDays[m]
  <2> SUFFICES ASSUME NEW m \in 1 .. N PROVE f[m] = f[m - 1] + MonthDays[m]
    OBVIOUS
  <2>1. f[m - 1] \in S /\ f[m] = g[m][f[m - 1]]
    BY <1>4, <1>5
  <2> QED BY <2>1
<1>7. Eq(f)
  <2>1. \A m \in 0 .. N : m # 0 => m \in 1 .. N
    BY <1>1
  <2>2. \A m \in 0 .. N : f[m] = IF m = 0 THEN 0 ELSE f[m - 1] + MonthDays[m]
    BY <1>4, <1>6, <2>1
  <2> QED BY <2>2
<1>8. Eq(days)
  <2> HIDE DEF Eq
  <2> QED BY <1>7
<1> HIDE DEF days
<1>9. days[0] = 0 /\ \A m \in 1 .. N : days[m] = days[m - 1] + MonthDays[m]
  BY <1>1, <1>5, <1>8
<1>10. \A m \in 0 .. N : days[m] \in Nat
  <2> DEFINE P == {m \in Nat : m <= N => days[m] \in Nat}
  <2>1. 0 \in P
    BY <1>9
  <2>2. ASSUME NEW m \in P PROVE m + 1 \in P
    <3> SUFFICES ASSUME m + 1 <= N PROVE days[m + 1] \in Nat
      OBVIOUS
    <3>1. m + 1 \in 1 .. N /\ (m + 1) - 1 = m /\ days[m] \in Nat
      BY <1>1
    <3>2. days[m + 1] = days[m] + MonthDays[m + 1] /\ MonthDays[m + 1] \in Nat
      BY <1>1, <1>9, <3>1
    <3> QED BY <3>1, <3>2
  <2>3. P \in SUBSET Nat
    OBVIOUS
  <2> HIDE DEF P
  <2>4. P = Nat
    BY <2>1, <2>2, <2>3, Induction
  <2> QED BY <1>1, <2>4 DEF P
<1>11. days = [m \in 0 .. N |-> days[m]]
  BY <1>8
<1> QED BY <1>1, <1>2, <1>9, <1>10, <1>11 DEF N

LEMMA DaysThroughGrows ==
    \A i, j \in 0 .. Len(MonthDays) : i < j => DaysThrough[i] < DaysThrough[j]
<1> PICK N \in Nat : N = Len(MonthDays)
  BY MonthsAre
<1> PICK D : D = DaysThrough
  OBVIOUS
<1>1. \A i \in 0 .. N : D[i] \in Nat
  BY DaysThroughIs
<1>2. \A i \in 0 .. N : i + 1 <= N => D[i] < D[i + 1]
  <2> SUFFICES ASSUME NEW i \in 0 .. N, i + 1 <= N PROVE D[i] < D[i + 1]
    OBVIOUS
  <2>1. i + 1 \in Months /\ (i + 1) - 1 = i /\ i + 1 \in 0 .. N
    BY MonthsAre
  <2>2. D[i + 1] = D[i] + MonthDays[i + 1] /\ MonthDays[i + 1] \in Nat \ {0}
    BY <2>1, DaysThroughIs, MonthsAre
  <2> QED BY <1>1, <2>1, <2>2
<1> DEFINE P == {j \in Nat : j <= N => \A i \in 0 .. N : i < j => D[i] < D[j]}
<1>3. 0 \in P
  OBVIOUS
<1>4. ASSUME NEW j \in P PROVE j + 1 \in P
  <2>0. j \in Nat
    OBVIOUS
  <2> SUFFICES ASSUME j + 1 <= N, NEW i \in 0 .. N, i < j + 1 PROVE D[i] < D[j + 1]
    BY <2>0
  <2>1. j \in 0 .. N /\ j + 1 \in 0 .. N /\ \A k \in 0 .. N : k < j => D[k] < D[j]
    BY <2>0
  <2>2. D[j] < D[j + 1]
    BY <1>2, <2>1
  <2>3. i = j \/ i < j
    BY <2>0
  <2> QED BY <1>1, <2>1, <2>2, <2>3
<1>5. P = Nat
  <2>1. P \in SUBSET Nat
    OBVIOUS
  <2> HIDE DEF P
  <2> QED BY <1>3, <1>4, <2>1, Induction
<1>6. \A j \in 0 .. N : j \in Nat /\ j <= N
  OBVIOUS
<1>7. \A j \in 0 .. N : j \in P
  <2> HIDE DEF P
  <2> QED BY <1>5, <1>6
<1> QED BY <1>6, <1>7

LEMMA UnitsAre ==
    /\ TicksPerMinute \in Nat \ {0} /\ TicksPerMinute > 1
    /\ MinutesPerHour \in Nat \ {0} /\ HoursPerDay \in Nat \ {0} /\ DaysPerWeek \in Nat \ {0}
    /\ MinutesPerDay \in Nat \ {0} /\ YearDays \in Nat \ {0} /\ YearDays > 1
<1>1. MinutesPerDay \in Nat \ {0}
  <2>1. MinutesPerHour \in Nat \ {0} /\ HoursPerDay \in Nat \ {0}
    BY SchedulesAssumption
  <2>2. PICK h \in Nat \ {0} : h = MinutesPerHour
    BY <2>1
  <2>3. PICK k \in Nat \ {0} : k = HoursPerDay
    BY <2>1
  <2>4. h * k \in Nat \ {0}
    OBVIOUS
  <2> QED BY <2>2, <2>3, <2>4 DEF MinutesPerDay
<1>2. YearDays \in Nat /\ YearDays > 1
  <2>1. 0 \in 0 .. Len(MonthDays) /\ 1 \in 0 .. Len(MonthDays) /\ Len(MonthDays) \in 0 .. Len(MonthDays)
    BY MonthsAre
  <2>2. DaysThrough[0] < DaysThrough[1] /\ DaysThrough[1] < DaysThrough[Len(MonthDays)]
    BY <2>1, MonthsAre, DaysThroughGrows
  <2> QED BY <2>1, <2>2, DaysThroughIs DEF YearDays
<1> QED BY <1>1, <1>2, SchedulesAssumption

LEMMA MonthOfIs ==
    ASSUME NEW n \in Int
    PROVE  /\ DayNumber(n) \in Int /\ DayOfYear(n) \in Nat /\ DayOfYear(n) < YearDays
           /\ MonthOf(n) \in Months
           /\ DaysThrough[MonthOf(n) - 1] <= DayOfYear(n) /\ DayOfYear(n) < DaysThrough[MonthOf(n)]
           /\ \A m \in Months : DaysThrough[m - 1] <= DayOfYear(n) /\ DayOfYear(n) < DaysThrough[m] =>
                 m = MonthOf(n)
<1>1. DayNumber(n) \in Int
  BY UnitsAre, DivMod DEF DayNumber
<1>2. DayOfYear(n) \in Nat /\ DayOfYear(n) < YearDays
  BY <1>1, UnitsAre, DivMod DEF DayOfYear
<1> PICK y \in Nat : y = DayOfYear(n)
  BY <1>2
<1> PICK N \in Nat : N = Len(MonthDays) /\ N > 1
  BY MonthsAre
<1> PICK D : D = DaysThrough
  OBVIOUS
<1> DEFINE S == {m \in Nat : m \in 1 .. N /\ y < D[m]}
           F == {m \in Months : D[m - 1] <= y}
<1>3. /\ Months = 1 .. N /\ y < D[N] /\ D[0] = 0
      /\ \A i \in 0 .. N : D[i] \in Nat
      /\ \A i, j \in 0 .. N : i < j => D[i] < D[j]
  BY <1>2, MonthsAre, DaysThroughIs, DaysThroughGrows DEF YearDays
<1>4. S \in SUBSET Nat /\ N \in S
  BY <1>3
<1>5. PICK x \in S : \A k \in S : x <= k
  <2> HIDE DEF S
  <2> QED BY <1>4, Least
<1>6. x \in 1 .. N /\ y < D[x] /\ x - 1 \in 0 .. N /\ x \in 0 .. N
  OBVIOUS
<1>7. D[x - 1] <= y
  <2>1. CASE x = 1
    BY <1>3, <2>1
  <2>2. CASE x # 1
    <3>1. x - 1 \in Nat /\ x - 1 \in 1 .. N /\ ~(x <= x - 1)
      BY <1>6, <2>2
    <3>2. x - 1 \notin S
      BY <1>5, <3>1
    <3> QED BY <1>3, <1>6, <3>1, <3>2
  <2> QED BY <2>1, <2>2
<1>8. x \in F
  BY <1>3, <1>6, <1>7
<1>9. ASSUME NEW m \in F PROVE m <= x
  <2>1. m \in 1 .. N /\ m - 1 \in 0 .. N /\ D[m - 1] <= y
    BY <1>3, <1>9
  <2>2. ASSUME x < m PROVE FALSE
    <3>1. x = m - 1 \/ x < m - 1
      BY <1>6, <2>1, <2>2
    <3>2. D[x] \in Nat /\ D[m - 1] \in Nat
      BY <1>3, <1>6, <2>1
    <3>3. x < m - 1 => D[x] < D[m - 1]
      BY <1>3, <1>6, <2>1
    <3>4. D[x] <= D[m - 1]
      BY <3>1, <3>2, <3>3
    <3> QED BY <1>6, <2>1, <3>2, <3>4
  <2> QED BY <1>6, <2>1, <2>2
<1>10. MonthOf(n) = x
  <2>1. MonthOf(n) = CHOOSE m \in F : \A k \in F : m >= k
    BY DEF MonthOf, Max
  <2>2. \A k \in F : k \in Nat /\ x >= k
    BY <1>3, <1>6, <1>9
  <2> HIDE DEF F
  <2> PICK w : w = MonthOf(n)
    OBVIOUS
  <2>3. w \in F /\ \A k \in F : w >= k
    BY <1>8, <2>1, <2>2
  <2>4. w \in Nat /\ x >= w /\ w >= x
    BY <1>8, <2>2, <2>3
  <2> QED BY <1>6, <2>4
<1>11. ASSUME NEW m \in Months, D[m - 1] <= y, y < D[m] PROVE m = x
  <2>1. m \in 1 .. N /\ m \in S /\ m \in F
    BY <1>3, <1>11
  <2>2. x <= m
    <3> HIDE DEF S
    <3> QED BY <1>5, <2>1
  <2> QED BY <1>6, <1>9, <2>1, <2>2
<1> QED BY <1>1, <1>2, <1>3, <1>6, <1>7, <1>10, <1>11

\* What one day has in common.
LEMMA SameDay ==
    ASSUME NEW n \in Int, NEW k \in Int, DayNumber(n) = DayNumber(k)
    PROVE  /\ MonthOf(n) = MonthOf(k) /\ DayOf(n) = DayOf(k) /\ WeekdayOf(n) = WeekdayOf(k)
           /\ \A c : DayMatches(c, n) <=> DayMatches(c, k)
<1>1. DayOfYear(n) = DayOfYear(k) /\ WeekdayOf(n) = WeekdayOf(k)
  BY DEF DayOfYear, WeekdayOf
<1>2. MonthOf(n) = MonthOf(k) /\ DayOf(n) = DayOf(k)
  BY <1>1 DEF MonthOf, DayOf
<1> QED BY <1>1, <1>2 DEF DayMatches

LEMMA SameDayOfYear ==
    ASSUME NEW n \in Int, NEW k \in Int, DayOfYear(n) = DayOfYear(k)
    PROVE  MonthOf(n) = MonthOf(k)
BY DEF MonthOf

LEMMA NextMidnightIs ==
    ASSUME NEW n \in Int
    PROVE  /\ NextMidnight(n) \in Int /\ NextMidnight(n) > n
           /\ \A k \in Int : n <= k /\ k < NextMidnight(n) => DayNumber(k) = DayNumber(n)
           /\ DayOfYear(NextMidnight(n)) # DayOfYear(n)
<1> PICK b \in Nat \ {0} : b = MinutesPerDay
  BY UnitsAre
<1> PICK Y \in Nat \ {0} : Y = YearDays /\ Y > 1
  BY UnitsAre
<1> PICK d \in Int : d = DayNumber(n)
  BY MonthOfIs
<1> PICK z \in Int : z = d + 1
  OBVIOUS
<1>1. NextMidnight(n) = z * b
  BY DEF NextMidnight
<1>2. \A k \in Int : DayNumber(k) = k \div b /\ DayNumber(k) \in Int
  BY MonthOfIs DEF DayNumber
<1>3. \A k \in Int : DayOfYear(k) = DayNumber(k) % Y
  BY DEF DayOfYear
<1>4. /\ z * b \in Int /\ DayNumber(z * b) = z
      /\ \A k \in Int : k < z * b <=> DayNumber(k) < z
      /\ \A k \in Int : n <= k => d <= DayNumber(k)
  <2>1. z * b \in Int /\ (z * b) \div b = z
    BY Days
  <2>2. PICK f \in Int : f = z * b /\ f \div b = z
    BY <2>1
  <2>3. \A k \in Int : k < f <=> k \div b < z
    BY <2>2, Days
  <2>4. \A k \in Int : n <= k => n \div b <= k \div b
    BY Days
  <2>5. DayNumber(f) = z
    BY ONLY <1>2, <2>2
  <2>6. \A k \in Int : k < f <=> DayNumber(k) < z
    BY ONLY <1>2, <2>3
  <2>7. \A k \in Int : n <= k => d <= DayNumber(k)
    BY ONLY <1>2, <2>4, n \in Int, d = DayNumber(n)
  <2> QED BY ONLY <2>2, <2>5, <2>6, <2>7
<1>5. DayOfYear(z * b) # DayOfYear(n)
  <2>1. z % Y # d % Y
    <3>1. d % Y \in Nat /\ d % Y < Y
      BY DivMod
    <3>2. PICK u \in Nat : u = d % Y
      BY <3>1
    <3>3. u < Y
      BY <3>1, <3>2
    <3>4. z - d = 1
      OBVIOUS
    <3>5. PICK r \in Nat : r = u + 1
      OBVIOUS
    <3>i. r = (d % Y) + (z - d)
      BY ONLY <3>2, <3>4, <3>5
    <3>6. r < Y => z % Y = r
      BY ONLY <3>i, Shift, Y \in Nat \ {0}, d \in Int, z \in Int, r \in Nat
    <3>7. r = Y => z % Y = 0
      BY ONLY <3>i, Shift, Y \in Nat \ {0}, d \in Int, z \in Int
    <3>8. PICK v \in Nat : v = z % Y
      BY DivMod
    <3>9. u # v
      BY ONLY <3>3, <3>5, <3>6, <3>7, <3>8, Y > 1, Y \in Nat
    <3> QED BY <3>2, <3>8, <3>9
  <2> QED BY <1>3, <1>4, <2>1
<1>6. PICK x \in Int : x = z * b
  BY <1>4
<1>7. n < x
  BY <1>4, <1>6
<1>8. \A k \in Int : n <= k /\ k < x => DayNumber(k) = d
  BY <1>2, <1>4, <1>6
<1> QED BY <1>1, <1>5, <1>6, <1>7, <1>8

LEMMA FirstOfNextMonthIs ==
    ASSUME NEW n \in Int
    PROVE  /\ FirstOfNextMonth(n) \in Int /\ FirstOfNextMonth(n) > n
           /\ \A k \in Int : n <= k /\ k < FirstOfNextMonth(n) => MonthOf(k) = MonthOf(n)
           /\ DayOfYear(FirstOfNextMonth(n)) # DayOfYear(n)
<1> PICK b \in Nat \ {0} : b = MinutesPerDay
  BY UnitsAre
<1> PICK Y \in Nat \ {0} : Y = YearDays
  BY UnitsAre
<1> PICK d \in Int : d = DayNumber(n)
  BY MonthOfIs
<1> PICK y \in Nat : y = DayOfYear(n) /\ y < Y
  BY MonthOfIs
<1> PICK N \in Nat : N = Len(MonthDays) /\ N > 1
  BY MonthsAre
<1> PICK D : D = DaysThrough
  OBVIOUS
<1> PICK m \in 1 .. N : m = MonthOf(n)
  BY MonthOfIs, MonthsAre
<1>1. /\ m - 1 \in 0 .. N /\ m \in 0 .. N /\ N \in 0 .. N /\ 0 \in 0 .. N
      /\ D[N] = Y /\ D[0] = 0
      /\ \A i \in 0 .. N : D[i] \in Nat
  <2>1. m - 1 \in 0 .. N /\ m \in 0 .. N /\ N \in 0 .. N /\ 0 \in 0 .. N
    OBVIOUS
  <2>2. D[N] = Y
    BY DEF YearDays
  <2>3. D[0] = 0 /\ \A i \in 0 .. N : D[i] \in Nat
    BY DaysThroughIs
  <2> QED BY <2>1, <2>2, <2>3
<1>2. \A i, j \in 0 .. N : i < j => D[i] < D[j]
  BY DaysThroughGrows
<1>3. D[m - 1] <= y /\ y < D[m]
  BY MonthOfIs
<1>4. D[m] = D[m - 1] + MonthDays[m] /\ MonthDays[m] \in Nat
  BY MonthsAre, DaysThroughIs
<1> PICK x \in Nat : x = D[m] /\ y < x
  BY <1>1, <1>3
<1>5. x <= Y /\ (m # N => x < Y) /\ (m = N => x = Y /\ 0 < y)
  <2>1. m # N => D[m] < D[N]
    BY <1>1, <1>2
  <2>2. m = N => D[0] < D[m - 1]
    BY <1>1, <1>2
  <2> QED BY <1>1, <1>3, <2>1, <2>2
<1> PICK z \in Int : z = d + (x - y)
  OBVIOUS
<1>6. FirstOfNextMonth(n) = z * b
  <2>1. DayOf(n) = y - D[m - 1] + 1
    BY DEF DayOf
  <2>2. PICK u \in Nat : u = D[m - 1]
    BY <1>1
  <2>3. PICK v \in Nat : v = MonthDays[m]
    BY <1>4
  <2>4. x = u + v
    BY <1>4, <2>2, <2>3
  <2>5. d - DayOf(n) + 1 + v = z
    BY ONLY <2>1, <2>2, <2>4, z = d + (x - y), d \in Int, x \in Nat, y \in Nat, z \in Int
  <2> QED BY <2>3, <2>5 DEF FirstOfNextMonth
<1>7. \A k \in Int : DayNumber(k) = k \div b /\ DayNumber(k) \in Int
  BY MonthOfIs DEF DayNumber
<1>8. \A k \in Int : DayOfYear(k) = DayNumber(k) % Y
  BY DEF DayOfYear
<1>9. /\ z * b \in Int /\ DayNumber(z * b) = z
      /\ \A k \in Int : k < z * b <=> DayNumber(k) < z
      /\ \A k \in Int : n <= k => d <= DayNumber(k)
  <2>1. z * b \in Int /\ (z * b) \div b = z
    BY Days
  <2>2. PICK f \in Int : f = z * b /\ f \div b = z
    BY <2>1
  <2>3. \A k \in Int : k < f <=> k \div b < z
    BY <2>2, Days
  <2>4. \A k \in Int : n <= k => n \div b <= k \div b
    BY Days
  <2>5. DayNumber(f) = z
    BY ONLY <1>7, <2>2
  <2>6. \A k \in Int : k < f <=> DayNumber(k) < z
    BY ONLY <1>7, <2>3
  <2>7. \A k \in Int : n <= k => d <= DayNumber(k)
    BY ONLY <1>7, <2>4, n \in Int, d = DayNumber(n)
  <2> QED BY ONLY <2>2, <2>5, <2>6, <2>7
<1>10. y = d % Y
  BY <1>8
<1>11. PICK f \in Int : f = z * b
  BY <1>9
<1>12. n < f
  <2>1. d < z
    OBVIOUS
  <2>2. n < f <=> DayNumber(n) < z
    BY ONLY <1>9, <1>11, n \in Int
  <2> QED BY <2>1, <2>2
<1>13. ASSUME NEW k \in Int, n <= k, k < f PROVE MonthOf(k) = m
  <2>1. PICK e \in Int : e = DayNumber(k)
    BY <1>7
  <2>2. d <= e /\ e < z
    BY <1>9, <1>11, <1>13, <2>1
  <2>3. PICK r \in Nat : r = y + (e - d)
    BY <2>2
  <2>4. r < x /\ y <= r
    BY ONLY <2>2, <2>3, z = d + (x - y), d \in Int, x \in Nat, y \in Nat, z \in Int, e \in Int, r \in Nat
  <2>5. e % Y = r
    <3>1. r < Y
      BY <1>5, <2>4
    <3> QED BY <1>10, <2>3, <3>1, Shift
  <2>6. DayOfYear(k) = r
    BY <1>8, <2>1, <2>5
  <2>7. D[m - 1] <= r /\ r < D[m]
    <3>1. PICK u \in Nat : u = D[m - 1]
      BY <1>1
    <3> QED BY <1>3, <2>4, <3>1
  <2> QED BY <2>6, <2>7, MonthOfIs, MonthsAre
<1>14. DayOfYear(f) # y
  <2>1. z % Y # y
    <3>1. y + (z - d) = x
      BY ONLY z = d + (x - y), d \in Int, x \in Nat, y \in Nat, z \in Int
    <3>2. x < Y => z % Y = x
      BY ONLY <1>10, <3>1, Shift, Y \in Nat \ {0}, d \in Int, z \in Int, x \in Nat
    <3>3. x = Y => z % Y = 0
      BY ONLY <1>10, <3>1, Shift, Y \in Nat \ {0}, d \in Int, z \in Int
    <3>4. PICK v \in Nat : v = z % Y
      BY DivMod
    <3> QED BY ONLY <1>5, <3>2, <3>3, <3>4, y < x, x \in Nat, y \in Nat, Y \in Nat
  <2> QED BY <1>8, <1>9, <1>11, <2>1
<1> QED BY <1>6, <1>11, <1>12, <1>13, <1>14

-----------------------------------------------------------------------------
(* cronNextRun                                                             *)

CronShows(c, minute) ==
    MonthOf(Local(minute)) \in c.month.values /\ CronMatches(c, Local(minute))

Searches == [minute : Int, lastDay : Int, found : BOOLEAN]

\* The search has passed over no minute that matches, and the month of a day it
\* knows does match.
SearchSound(c, first, ceiling, s) ==
    /\ s \in Searches
    /\ first <= s.minute
    /\ \A k \in Int : first <= k /\ k < s.minute => ~CronShows(c, k)
    /\ s.found => s.minute <= ceiling /\ CronShows(c, s.minute)
    /\ DayOfYear(Local(s.minute)) = s.lastDay => MonthOf(Local(s.minute)) \in c.month.values

LEMMA LocalIs ==
    /\ Offset \in Int
    /\ \A k \in Int : Local(k) \in Int /\ Local(k) = k - Offset /\ Local(k + Offset) = k
<1>1. Offset \in Nat
  BY SchedulesAssumption
<1> QED BY <1>1 DEF Local

LEMMA JumpSound ==
    ASSUME NEW c, NEW first \in Int, NEW ceiling \in Int, NEW s, SearchSound(c, first, ceiling, s),
           NEW x \in Int, s.minute < x,
           \A k \in Int : s.minute <= k /\ k < x => ~CronShows(c, k),
           NEW today \in Int,
           DayOfYear(Local(x)) = today => MonthOf(Local(x)) \in c.month.values
    PROVE  SearchSound(c, first, ceiling, [minute |-> x, lastDay |-> today, found |-> FALSE])
<1> PICK t : t = [minute |-> x, lastDay |-> today, found |-> FALSE]
  OBVIOUS
<1>1. t \in Searches /\ t.minute = x /\ t.lastDay = today /\ ~t.found
  BY DEF Searches
<1>2. s.minute \in Int /\ first <= s.minute
  BY DEF SearchSound, Searches
<1>3. first <= x
  BY <1>2
<1>4. ASSUME NEW k \in Int, first <= k, k < x PROVE ~CronShows(c, k)
  <2>1. CASE k < s.minute
    BY <1>4, <2>1 DEF SearchSound
  <2>2. CASE s.minute <= k
    BY <1>4, <2>2
  <2> QED BY <1>2, <2>1, <2>2
<1> QED BY <1>1, <1>3, <1>4 DEF SearchSound

LEMMA CronTurnSound ==
    ASSUME NEW c, NEW first \in Int, NEW ceiling \in Int, NEW s, SearchSound(c, first, ceiling, s)
    PROVE  /\ SearchSound(c, first, ceiling, CronTurn(c, ceiling, s))
           /\ IF s.found \/ s.minute > ceiling THEN CronTurn(c, ceiling, s) = s
              ELSE CronTurn(c, ceiling, s).found \/ CronTurn(c, ceiling, s).minute > s.minute
<1>1. CASE s.found \/ s.minute > ceiling
  BY <1>1 DEF CronTurn
<1>2. CASE ~(s.found \/ s.minute > ceiling)
  <2>1. s \in Searches /\ s.minute \in Int /\ s.found = FALSE /\ s.minute <= ceiling
    BY <1>2 DEF SearchSound, Searches
  <2>2. PICK n \in Int : n = Local(s.minute)
    BY <2>1, LocalIs
  <2>3. PICK today \in Int : today = DayOfYear(n)
    BY MonthOfIs
  <2> DEFINE To(x) == [minute |-> x, lastDay |-> today, found |-> FALSE]
  <2>4. CronTurn(c, ceiling, s) =
            IF today # s.lastDay /\ MonthOf(n) \notin c.month.values
                 THEN To(FirstOfNextMonth(n) + Offset)
            ELSE IF today # s.lastDay /\ ~DayMatches(c, n) THEN To(NextMidnight(n) + Offset)
            ELSE IF CronMatches(c, n) THEN [s EXCEPT !.found = TRUE]
            ELSE To(s.minute + 1)
    BY <1>2, <2>2, <2>3 DEF CronTurn
  <2>5. ASSUME NEW x \in Int, s.minute < x,
               \A k \in Int : s.minute <= k /\ k < x => ~CronShows(c, k),
               DayOfYear(Local(x)) = today => MonthOf(Local(x)) \in c.month.values,
               CronTurn(c, ceiling, s) = To(x)
        PROVE  /\ SearchSound(c, first, ceiling, CronTurn(c, ceiling, s))
               /\ CronTurn(c, ceiling, s).minute > s.minute
    <3>1. SearchSound(c, first, ceiling, To(x))
      BY <2>5, JumpSound
    <3>2. To(x).minute > s.minute
      BY <2>1, <2>5
    <3> QED BY <2>5, <3>1, <3>2
  <2>6. ASSUME NEW y \in Int, y > n
        PROVE  /\ y + Offset \in Int /\ s.minute < y + Offset /\ Local(y + Offset) = y
               /\ \A k \in Int : s.minute <= k /\ k < y + Offset =>
                     Local(k) \in Int /\ n <= Local(k) /\ Local(k) < y
    BY <2>1, <2>2, <2>6, LocalIs
  <2> HIDE DEF To
  <2>7. CASE today # s.lastDay /\ MonthOf(n) \notin c.month.values
    <3>1. PICK y \in Int : y = FirstOfNextMonth(n) /\ y > n
      BY FirstOfNextMonthIs
    <3>2. /\ \A k \in Int : n <= k /\ k < y => MonthOf(k) = MonthOf(n)
          /\ DayOfYear(y) # today
      BY <2>3, <3>1, FirstOfNextMonthIs
    <3>3. PICK x \in Int : x = y + Offset
      BY LocalIs
    <3>4. s.minute < x /\ Local(x) = y
      BY <2>6, <3>1, <3>3
    <3>5. \A k \in Int : s.minute <= k /\ k < x => ~CronShows(c, k)
      BY <2>6, <2>7, <3>1, <3>2, <3>3 DEF CronShows
    <3>6. CronTurn(c, ceiling, s) = To(x)
      BY <2>4, <2>7, <3>1, <3>3
    <3> QED BY <1>2, <2>5, <3>2, <3>4, <3>5, <3>6
  <2>8. CASE ~(today # s.lastDay /\ MonthOf(n) \notin c.month.values) /\ today # s.lastDay /\ ~DayMatches(c, n)
    <3>1. PICK y \in Int : y = NextMidnight(n) /\ y > n
      BY NextMidnightIs
    <3>2. /\ \A k \in Int : n <= k /\ k < y => DayNumber(k) = DayNumber(n)
          /\ DayOfYear(y) # today
      BY <2>3, <3>1, NextMidnightIs
    <3>3. PICK x \in Int : x = y + Offset
      BY LocalIs
    <3>4. s.minute < x /\ Local(x) = y
      BY <2>6, <3>1, <3>3
    <3>5. \A k \in Int : s.minute <= k /\ k < x => ~CronShows(c, k)
      <4> SUFFICES ASSUME NEW k \in Int, s.minute <= k, k < x PROVE ~DayMatches(c, Local(k))
        BY DEF CronShows, CronMatches
      <4>1. Local(k) \in Int /\ DayNumber(Local(k)) = DayNumber(n)
        BY <2>6, <3>1, <3>2, <3>3
      <4> QED BY <2>8, <4>1, SameDay
    <3>6. CronTurn(c, ceiling, s) = To(x)
      BY <2>4, <2>8, <3>1, <3>3
    <3> QED BY <1>2, <2>5, <3>2, <3>4, <3>5, <3>6
  <2>9. CASE ~(today # s.lastDay /\ (MonthOf(n) \notin c.month.values \/ ~DayMatches(c, n)))
    <3>1. MonthOf(n) \in c.month.values
      BY <2>2, <2>3, <2>9 DEF SearchSound
    <3>2. CASE CronMatches(c, n)
      <4>1. PICK t : t = [s EXCEPT !.found = TRUE]
        OBVIOUS
      <4>2. CronTurn(c, ceiling, s) = t
        BY <2>4, <2>9, <3>2, <4>1
      <4>3. t \in Searches /\ t.minute = s.minute /\ t.lastDay = s.lastDay /\ t.found
        BY <2>1, <4>1 DEF Searches
      <4>4. CronShows(c, s.minute)
        BY <2>2, <3>1, <3>2 DEF CronShows
      <4>5. SearchSound(c, first, ceiling, t)
        BY <2>1, <4>3, <4>4 DEF SearchSound
      <4> QED BY <1>2, <4>2, <4>3, <4>5
    <3>3. CASE ~CronMatches(c, n)
      <4>1. PICK x \in Int : x = s.minute + 1
        BY <2>1
      <4>2. s.minute < x
        BY <2>1, <4>1
      <4>3. ASSUME NEW k \in Int, s.minute <= k, k < x PROVE ~CronShows(c, k)
        <5>1. k = s.minute
          BY <2>1, <4>1, <4>3
        <5> QED BY <2>2, <3>3, <5>1 DEF CronShows
      <4>4. DayOfYear(Local(x)) = today => MonthOf(Local(x)) \in c.month.values
        BY <2>3, <3>1, LocalIs, SameDayOfYear
      <4>5. CronTurn(c, ceiling, s) = To(x)
        BY <2>4, <2>9, <3>3, <4>1
      <4> QED BY <1>2, <2>5, <4>2, <4>3, <4>4, <4>5
    <3> QED BY <3>2, <3>3
  <2> QED BY <2>7, <2>8, <2>9
<1> QED BY <1>1, <1>2

\* The first minute that matches, as far as the search goes.
LEMMA CronNextRunIs ==
    ASSUME NEW c, NEW from \in Nat
    PROVE  LET first == Minute(from) + 1
               last == Minute(from) + MaxAhead
           IN  \/ /\ CronNextRun(c, from) = Never
                  /\ \A k \in Int : first <= k /\ k <= last => ~CronShows(c, k)
               \/ \E m \in Int :
                     /\ CronNextRun(c, from) = Instant(m) /\ first <= m /\ CronShows(c, m)
                     /\ \A k \in Int : first <= k /\ k < m => ~CronShows(c, k)
<1>1. MaxAhead \in Nat
  BY SchedulesAssumption
<1>2. Minute(from) \in Int
  BY UnitsAre, DivMod DEF Minute
<1>3. PICK N \in Nat : N = MaxAhead
  BY <1>1
<1>4. PICK ceiling \in Int : ceiling = Minute(from) + MaxAhead
  BY <1>1, <1>2
<1>5. PICK first \in Int : first = Minute(from) + 1 /\ first + N = ceiling + 1
  BY <1>2, <1>3, <1>4
<1> DEFINE S == {s \in Searches : SearchSound(c, first, ceiling, s)}
           g == [k \in 1 .. N |-> [s \in S |-> CronTurn(c, ceiling, s)]]
           Start == [minute |-> Minute(from) + 1, lastDay |-> -1, found |-> FALSE]
           Eq(h) == h = [k \in 0 .. N |->
                           IF k = 0 THEN Start ELSE CronTurn(c, ceiling, h[k - 1])]
           search == CHOOSE h : Eq(h)
<1>6. CronNextRun(c, from) = IF search[N].found THEN Instant(search[N].minute) ELSE Never
  BY <1>3, <1>4 DEF CronNextRun
<1>7. \A s \in S : CronTurn(c, ceiling, s) \in S
  BY CronTurnSound DEF SearchSound
<1>8. PICK a : a = Start
  OBVIOUS
<1>9. SearchSound(c, first, ceiling, a) /\ a.minute = first
  <2>1. a \in Searches /\ a.minute = first /\ a.lastDay = -1 /\ ~a.found
    BY <1>5, <1>8 DEF Searches
  <2>2. DayOfYear(Local(first)) # -1
    <3>1. DayOfYear(Local(first)) \in Nat
      BY LocalIs, MonthOfIs
    <3>2. PICK y \in Nat : y = DayOfYear(Local(first))
      BY <3>1
    <3>3. y # -1
      OBVIOUS
    <3> QED BY <3>2, <3>3
  <2> QED BY <2>1, <2>2 DEF SearchSound
<1>10. a \in S
  BY <1>9 DEF SearchSound
<1>11. \A s \in S : SearchSound(c, first, ceiling, s)
  OBVIOUS
<1> HIDE DEF S
<1>12. g \in [1 .. N -> [S -> S]]
  BY <1>7
<1>13. PICK f \in [0 .. N -> S] : f[0] = a /\ \A k \in 1 .. N : f[k] = g[k][f[k - 1]]
  <2> HIDE DEF g
  <2> QED BY ONLY <1>10, <1>12, N \in Nat, Recursion
<1>14. \A k \in 1 .. N : k \in 0 .. N /\ k - 1 \in 0 .. N /\ k # 0
  OBVIOUS
<1>15. \A k \in 1 .. N : f[k] = CronTurn(c, ceiling, f[k - 1])
  <2> SUFFICES ASSUME NEW k \in 1 .. N PROVE f[k] = CronTurn(c, ceiling, f[k - 1])
    OBVIOUS
  <2>1. f[k - 1] \in S /\ f[k] = g[k][f[k - 1]]
    BY <1>13, <1>14
  <2> QED BY <2>1
<1>16. Eq(f)
  <2>1. \A k \in 0 .. N : k # 0 => k \in 1 .. N
    OBVIOUS
  <2> HIDE DEF Start
  <2>2. \A k \in 0 .. N : f[k] = IF k = 0 THEN Start ELSE CronTurn(c, ceiling, f[k - 1])
    BY <1>8, <1>13, <1>15, <2>1
  <2> QED BY <2>2
<1>17. Eq(search)
  <2> HIDE DEF Eq
  <2> QED BY <1>16
<1> HIDE DEF search
<1>18. search[0] = a /\ \A k \in 1 .. N : search[k] = CronTurn(c, ceiling, search[k - 1])
  <2> HIDE DEF Start
  <2> QED BY <1>8, <1>14, <1>17
<1> DEFINE Good(k) == /\ SearchSound(c, first, ceiling, search[k])
                      /\ search[k].found \/ search[k].minute >= first + k
           P == {k \in Nat : k <= N => Good(k)}
<1>19. 0 \in P
  BY <1>9, <1>18
<1>20. ASSUME NEW k \in P PROVE k + 1 \in P
  <2>0. k \in Nat /\ k + 1 \in Nat
    OBVIOUS
  <2> SUFFICES ASSUME k + 1 <= N PROVE Good(k + 1)
    <3> HIDE DEF Good
    <3> QED BY <2>0
  <2>1. k <= N /\ k + 1 \in 1 .. N /\ (k + 1) - 1 = k
    BY <2>0
  <2>2. Good(k)
    <3> HIDE DEF Good
    <3> QED BY <2>1
  <2>3. PICK s : s = search[k]
    OBVIOUS
  <2>4. PICK t : t = search[k + 1]
    OBVIOUS
  <2>5. t = CronTurn(c, ceiling, s)
    BY <1>18, <2>1, <2>3, <2>4
  <2>6. SearchSound(c, first, ceiling, s) /\ (s.found \/ s.minute >= first + k)
    BY <2>2, <2>3
  <2>7. /\ SearchSound(c, first, ceiling, t)
        /\ IF s.found \/ s.minute > ceiling THEN t = s ELSE t.found \/ t.minute > s.minute
    BY <2>5, <2>6, CronTurnSound
  <2>8. s.minute \in Int /\ t.minute \in Int
    BY <2>6, <2>7 DEF SearchSound, Searches
  <2>9. ASSUME ~t.found PROVE t.minute >= first + (k + 1)
    <3>1. CASE s.found \/ s.minute > ceiling
      BY ONLY <1>5, <2>0, <2>1, <2>7, <2>8, <2>9, <3>1, ceiling \in Int, first \in Int, N \in Nat
    <3>2. CASE ~(s.found \/ s.minute > ceiling)
      BY ONLY <2>0, <2>6, <2>7, <2>8, <2>9, <3>2, first \in Int
    <3> QED BY <3>1, <3>2
  <2> QED BY <2>4, <2>7, <2>9
<1>21. P = Nat
  <2>1. P \in SUBSET Nat
    OBVIOUS
  <2> HIDE DEF P
  <2> QED BY <1>19, <1>20, <2>1, Induction
<1>22. Good(N)
  <2>1. N \in P
    <3> HIDE DEF P
    <3> QED BY <1>21
  <2>2. N <= N
    OBVIOUS
  <2> HIDE DEF Good
  <2> QED BY <2>1, <2>2
<1>23. PICK s : s = search[N]
  OBVIOUS
<1>24. SearchSound(c, first, ceiling, s) /\ (s.found \/ s.minute >= first + N)
  BY <1>22, <1>23
<1>25. /\ s.minute \in Int /\ first <= s.minute
       /\ \A k \in Int : first <= k /\ k < s.minute => ~CronShows(c, k)
       /\ s.found => CronShows(c, s.minute)
  BY <1>24 DEF SearchSound, Searches
<1>26. CASE s.found
  <2>1. CronNextRun(c, from) = Instant(s.minute)
    BY <1>6, <1>23, <1>26
  <2> QED BY <1>5, <1>25, <1>26, <2>1
<1>27. CASE ~s.found
  <2>1. CronNextRun(c, from) = Never
    BY <1>6, <1>23, <1>27
  <2>2. s.minute > ceiling
    BY <1>5, <1>24, <1>25, <1>27
  <2>3. \A k \in Int : first <= k /\ k <= ceiling => ~CronShows(c, k)
    BY <1>25, <2>2
  <2> QED BY <1>4, <1>5, <2>1, <2>3
<1> QED BY <1>26, <1>27

-----------------------------------------------------------------------------
(* nextRunAt                                                               *)

Shows(p, minute) ==
    IF p.mode = "cron" THEN CronShows(p.cron, minute)
    ELSE MatchesDateMode(p, Local(minute)) /\ AtATime(p, Local(minute))

LEMMA Ticks ==
    /\ \A m \in Int : Instant(m) \in Int /\ Minute(Instant(m)) = m /\ Instant(m) % TicksPerMinute = 0
    /\ \A m, t \in Int : t < Instant(m) <=> Minute(t) < m
    /\ \A t \in Int : Minute(t) \in Int /\ (t % TicksPerMinute = 0 => t = Instant(Minute(t)))
    /\ \A t \in Nat : Minute(t) \in Nat
    /\ \A m \in Nat : Instant(m) \in Nat
<1>1. PICK T \in Nat \ {0} : T = TicksPerMinute
  BY UnitsAre
<1>2. \A k : Minute(k) = k \div T /\ Instant(k) = k * T
  BY <1>1 DEF Minute, Instant
<1>3. ASSUME NEW m \in Int
      PROVE  Instant(m) \in Int /\ Minute(Instant(m)) = m /\ Instant(m) % T = 0
  <2>1. m * T \in Int /\ (m * T) \div T = m
    BY Days
  <2>2. (m * T + 0) % T = 0
    BY DivIs
  <2>3. m * T + 0 = m * T
    BY <2>1
  <2> QED BY <1>2, <2>1, <2>2, <2>3
<1>4. ASSUME NEW m \in Int, NEW t \in Int PROVE t < Instant(m) <=> Minute(t) < m
  BY <1>2, Days
<1>5. ASSUME NEW t \in Int PROVE Minute(t) \in Int /\ (t % T = 0 => t = Instant(Minute(t)))
  <2>1. t \div T \in Int /\ t % T \in Nat /\ t = (t \div T) * T + (t % T)
    BY DivMod
  <2>2. PICK e \in Int : e = (t \div T) * T
    BY <2>1, ProductMono
  <2>3. t % T = 0 => t = e
    BY <2>1, <2>2
  <2> QED BY <1>2, <2>1, <2>2, <2>3
<1>6. ASSUME NEW t \in Nat PROVE Minute(t) \in Nat
  <2>1. 0 * T <= t
    OBVIOUS
  <2>2. 0 <= t \div T /\ t \div T \in Int
    BY <2>1, DivBetween, DivMod
  <2> QED BY <1>2, <2>2
<1>7. ASSUME NEW m \in Nat PROVE Instant(m) \in Nat
  BY <1>2
<1> QED BY <1>1, <1>3, <1>4, <1>5, <1>6, <1>7

LEMMA AnchoredIs ==
    ASSUME NEW p, p.mode # "cron", NEW base \in Nat
    PROVE  LET first == Minute(base) + 1
               last == Minute(base) + MaxAhead
           IN  \/ /\ NextForDateAnchored(p, base) = Never
                  /\ \A k \in Int : first <= k /\ k <= last => ~Shows(p, k)
               \/ \E m \in Int :
                     /\ NextForDateAnchored(p, base) = Instant(m) /\ first <= m /\ Shows(p, m)
                     /\ \A k \in Int : first <= k /\ k < m => ~Shows(p, k)
<1>1. PICK first \in Nat : first = Minute(base) + 1
  BY Ticks
<1>i. MaxAhead \in Nat
  BY SchedulesAssumption
<1>2. PICK last \in Nat : last = Minute(base) + MaxAhead
  BY <1>i, Ticks
<1> DEFINE found == {minute \in first .. last : Shows(p, minute)}
<1>3. NextForDateAnchored(p, base) = IF found = {} THEN Never ELSE Instant(Min(found))
  BY <1>1, <1>2 DEF NextForDateAnchored, Shows
<1>4. CASE found = {}
  BY <1>1, <1>2, <1>3, <1>4
<1>5. CASE found # {}
  <2>1. found \in SUBSET Nat
    OBVIOUS
  <2>2. \E x \in found : \A y \in found : x <= y
    <3> HIDE DEF found
    <3> QED BY <1>5, <2>1, Least
  <2>3. PICK m : m = Min(found)
    OBVIOUS
  <2>4. m \in found /\ \A y \in found : m <= y
    <3> HIDE DEF found
    <3> QED BY <2>2, <2>3 DEF Min
  <2>5. m \in Int /\ first <= m /\ m <= last /\ Shows(p, m)
    BY <2>4
  <2>6. ASSUME NEW k \in Int, first <= k, k < m PROVE ~Shows(p, k)
    <3>1. k \in first .. last
      BY <2>5, <2>6
    <3>2. k \notin found
      <4> HIDE DEF found
      <4> QED BY <2>4, <2>5, <2>6
    <3> QED BY <3>1, <3>2
  <2>7. NextForDateAnchored(p, base) = Instant(m)
    BY <1>3, <1>5, <2>3
  <2> QED BY <1>1, <2>5, <2>6, <2>7
<1> QED BY <1>4, <1>5

\* The first multiple of an interval.
LEMMA BoundaryIs ==
    ASSUME NEW t \in Nat, NEW I \in Nat \ {0}
    PROVE  /\ Boundary(t, I) \in Nat /\ t <= Boundary(t, I) /\ Boundary(t, I) % I = 0
           /\ \A u \in Int : t <= u /\ u % I = 0 => Boundary(t, I) <= u
<1>1. PICK a \in Nat : a = t + I - 1
  OBVIOUS
<1>2. PICK q \in Int : q = a \div I
  BY DivMod
<1>3. PICK r \in Int : r = q * I
  BY ProductMono
<1>4. Boundary(t, I) = r
  BY <1>1, <1>2, <1>3 DEF Boundary
<1>5. t <= r
  <2>1. a < (q + 1) * I
    BY <1>2, DivBetween
  <2>2. (q + 1) * I = r + I
    BY <1>3, ProductMono
  <2>3. a < r + I
    BY <2>1, <2>2
  <2> QED BY ONLY <1>1, <2>3, t \in Nat, I \in Nat, r \in Int
<1>6. r % I = 0
  <2>1. (q * I + 0) % I = 0
    BY DivIs
  <2> QED BY <1>3, <2>1
<1>7. ASSUME NEW u \in Int, t <= u, u % I = 0 PROVE r <= u
  <2>1. PICK v \in Int : v = u \div I
    BY DivMod
  <2>2. u = v * I
    <3>1. u = (u \div I) * I + (u % I)
      BY DivMod
    <3>2. PICK w \in Int : w = v * I
      BY ProductMono
    <3> QED BY <1>7, <2>1, <3>1, <3>2
  <2>3. (v + 1) * I = u + I
    BY <2>2, ProductMono
  <2>4. a < u + I
    BY ONLY <1>1, <1>7, t \in Nat, I \in Nat, u \in Int
  <2>5. q < v + 1
    <3>1. PICK x \in Int : x = v + 1
      OBVIOUS
    <3>2. a < x * I
      BY <2>3, <2>4, <3>1
    <3>3. a \div I < x
      BY <3>2, DivBetween
    <3> QED BY <1>2, <3>1, <3>3
  <2>6. q <= v
    BY <2>5
  <2> QED BY <1>3, <2>2, <2>6, ProductMono
<1>8. r \in Nat
  BY ONLY <1>5, t \in Nat, r \in Int
<1> QED BY <1>4, <1>5, <1>6, <1>7, <1>8

LEMMA MaxOfTwo ==
    ASSUME NEW a \in Nat, NEW b \in Nat
    PROVE  /\ Max({a, b}) \in Nat /\ a <= Max({a, b}) /\ b <= Max({a, b})
           /\ Max({a, b}) = a \/ Max({a, b}) = b
<1> DEFINE S == {a, b}
<1>1. \E x \in S : \A y \in S : x >= y
  OBVIOUS
<1>2. PICK m : m = Max(S)
  OBVIOUS
<1>3. m \in S /\ \A y \in S : m >= y
  <2> HIDE DEF S
  <2> QED BY <1>1, <1>2 DEF Max
<1>4. (m = a \/ m = b) /\ m >= a /\ m >= b
  BY <1>3
<1>5. m \in Nat /\ a <= m /\ b <= m
  BY <1>4
<1> QED BY <1>2, <1>4, <1>5

LEMMA PlanIs ==
    ASSUME NEW p \in Plans
    PROVE  /\ p.startAt \in Nat /\ p.endAt \in Nat \cup {-1} /\ p.n \in Nat \ {0}
           /\ p.mode \in Intervals => p.mode # "cron"
           /\ Interval(p) \in Nat \ {0} /\ Interval(p) > 1
<1>1. p \in Schedule
  BY SchedulesAssumption
<1>2. p.startAt \in Nat /\ p.endAt \in Nat \cup {-1} /\ p.n \in Nat \ {0}
  BY <1>1 DEF Schedule, Never
<1>3. PICK h \in Nat \ {0} : h = IF p.mode = "every_n_hours" THEN MinutesPerHour ELSE 1
  BY UnitsAre
<1>4. PICK k \in Nat \ {0} : k = p.n * h
  <2>1. PICK n \in Nat \ {0} : n = p.n
    BY <1>2
  <2>2. n * h \in Nat \ {0}
    OBVIOUS
  <2> QED BY <2>1, <2>2
<1>5. PICK T \in Nat \ {0} : T = TicksPerMinute /\ T > 1
  BY UnitsAre
<1>6. Interval(p) = k * T
  BY <1>3, <1>4, <1>5 DEF Interval, Instant
<1>7. k * T \in Nat \ {0} /\ k * T > 1
  <2>1. 1 * T <= k * T
    BY ProductMono
  <2>2. 1 * T = T /\ k * T \in Int
    BY ProductMono
  <2> QED BY <1>5, <2>1, <2>2
<1> QED BY <1>2, <1>6, <1>7 DEF Intervals

-----------------------------------------------------------------------------
(* What nextRunAt answers                                                  *)

LEMMA SlotIs ==
    ASSUME NEW p, NEW t
    PROVE  IsSlot(p, t) <=>
              /\ t >= p.startAt
              /\ p.endAt # Never => t <= p.endAt
              /\ IF p.mode \in Intervals THEN t % Interval(p) = 0
                 ELSE t % TicksPerMinute = 0 /\ Shows(p, Minute(t))
<1> PICK i : i = Interval(p)
  OBVIOUS
<1>1. CASE p.mode \in Intervals
  BY <1>1 DEF IsSlot
<1>2. CASE p.mode \notin Intervals
  <2>1. CASE p.mode = "cron"
    BY <1>2, <2>1 DEF IsSlot, Shows, CronShows, CronMatches
  <2>2. CASE p.mode # "cron"
    BY <1>2, <2>2 DEF IsSlot, Shows
  <2> QED BY <2>1, <2>2
<1> QED BY <1>1, <1>2

\* nextRunAt answers with a slot, and passes over none that its search reaches.
LEMMA NextRunAtIs ==
    ASSUME NEW p \in Plans, NEW from \in Nat
    PROVE  /\ \/ NextRunAt(p, from) = Never
              \/ NextRunAt(p, from) \in Nat /\ Due(p, NextRunAt(p, from)) /\ from <= NextRunAt(p, from)
           /\ \A t \in Int :
                 /\ Due(p, t) /\ from < t
                 /\ p.mode \in Intervals \/ Minute(t) <= Minute(Max({from, p.startAt})) + MaxAhead
                 => NextRunAt(p, from) # Never /\ NextRunAt(p, from) <= t
<1>1. PICK start \in Nat : start = p.startAt
  BY PlanIs
<1>2. PICK end \in Int : end = p.endAt
  BY PlanIs
<1>3. PICK base \in Nat : base = Max({from, p.startAt})
  BY <1>1, MaxOfTwo
<1>4. from <= base /\ start <= base /\ (base = from \/ base = start)
  BY <1>1, <1>3, MaxOfTwo
<1>5. PICK next : next = CASE p.mode \in Intervals -> Boundary(base, Interval(p))
                           [] p.mode = "cron" -> CronNextRun(p.cron, base)
                           [] OTHER -> NextForDateAnchored(p, base)
  OBVIOUS
<1>6. PICK r : r = NextRunAt(p, from)
  OBVIOUS
<1>7. r = IF end # Never /\ (end <= from \/ next > end) THEN Never ELSE next
  BY <1>2, <1>3, <1>5, <1>6 DEF NextRunAt
<1> DEFINE After(t) == IF p.mode \in Intervals THEN base <= t ELSE base < t
           Regular(t) == IF p.mode \in Intervals THEN t % Interval(p) = 0
                         ELSE t % TicksPerMinute = 0 /\ Shows(p, Minute(t))
           InReach(t) == p.mode \in Intervals \/ Minute(t) <= Minute(base) + MaxAhead
\* without the end of the schedule
<1>8. /\ next = Never \/ (next \in Nat /\ After(next) /\ Regular(next))
      /\ \A t \in Int : After(t) /\ Regular(t) /\ InReach(t) => next # Never /\ next <= t
  <2>1. CASE p.mode \in Intervals
    <3>1. next = Boundary(base, Interval(p))
      BY <1>5, <2>1, PlanIs
    <3>2. next \in Nat /\ base <= next /\ next % Interval(p) = 0
      BY <3>1, PlanIs, BoundaryIs
    <3>3. \A u \in Int : base <= u /\ u % Interval(p) = 0 => next <= u
      BY <3>1, PlanIs, BoundaryIs
    <3>4. next # Never
      BY <3>2 DEF Never
    <3> QED BY <2>1, <3>2, <3>3, <3>4
  <2>2. CASE p.mode \notin Intervals
    <3>1. PICK first \in Int : first = Minute(base) + 1
      BY Ticks
    <3>i. MaxAhead \in Nat
      BY SchedulesAssumption
    <3>2. PICK last \in Int : last = Minute(base) + MaxAhead
      BY <3>i, Ticks
    <3>3. \/ next = Never /\ \A k \in Int : first <= k /\ k <= last => ~Shows(p, k)
          \/ \E m \in Int : /\ next = Instant(m) /\ first <= m /\ Shows(p, m)
                            /\ \A k \in Int : first <= k /\ k < m => ~Shows(p, k)
      <4>1. CASE p.mode = "cron"
        <5>1. next = CronNextRun(p.cron, base)
          BY <1>5, <2>2, <4>1
        <5>2. \A k : Shows(p, k) <=> CronShows(p.cron, k)
          BY <4>1 DEF Shows
        <5> QED BY <3>1, <3>2, <5>1, <5>2, CronNextRunIs
      <4>2. CASE p.mode # "cron"
        <5>1. next = NextForDateAnchored(p, base)
          BY <1>5, <2>2, <4>2
        <5> QED BY <3>1, <3>2, <4>2, <5>1, AnchoredIs
      <4> QED BY <4>1, <4>2
    <3>4. \A t \in Int : Minute(t) \in Int /\ (base < t /\ t % TicksPerMinute = 0 => first <= Minute(t))
      <4> SUFFICES ASSUME NEW t \in Int, base < t, t % TicksPerMinute = 0 PROVE first <= Minute(t)
        BY Ticks
      <4>1. PICK m \in Int : m = Minute(t) /\ t = Instant(m)
        BY Ticks
      <4>2. Minute(base) < m
        BY <4>1, Ticks
      <4>3. PICK b \in Int : b = Minute(base)
        BY Ticks
      <4> QED BY <3>1, <4>1, <4>2, <4>3
    <3>5. CASE next = Never /\ \A k \in Int : first <= k /\ k <= last => ~Shows(p, k)
      BY <2>2, <3>2, <3>4, <3>5
    <3>6. CASE \E m \in Int : /\ next = Instant(m) /\ first <= m /\ Shows(p, m)
                              /\ \A k \in Int : first <= k /\ k < m => ~Shows(p, k)
      <4>1. PICK m \in Int : /\ next = Instant(m) /\ first <= m /\ Shows(p, m)
                             /\ \A k \in Int : first <= k /\ k < m => ~Shows(p, k)
        BY <3>6
      <4>2. Minute(next) = m /\ next % TicksPerMinute = 0 /\ next \in Int
        BY <4>1, Ticks
      <4>3. base < next
        <5>1. PICK b \in Int : b = Minute(base)
          BY Ticks
        <5>2. b < m
          BY <3>1, <4>1, <5>1
        <5> QED BY <4>1, <5>1, <5>2, Ticks
      <4>4. next \in Nat /\ next # Never
        BY <4>2, <4>3 DEF Never
      <4>5. ASSUME NEW t \in Int, base < t, t % TicksPerMinute = 0, Shows(p, Minute(t)) PROVE next <= t
        <5>1. PICK k \in Int : k = Minute(t) /\ first <= k
          BY <3>4, <4>5
        <5>2. ~(k < m)
          BY <4>1, <4>5, <5>1
        <5>3. ~(t < next)
          BY <4>1, <5>1, <5>2, Ticks
        <5> QED BY <4>2, <5>3
      <4> QED BY <2>2, <4>1, <4>2, <4>3, <4>4, <4>5
    <3> QED BY <3>3, <3>5, <3>6
  <2> QED BY <2>1, <2>2
<1>9. ASSUME NEW t PROVE IsSlot(p, t) <=> t >= start /\ (end # Never => t <= end) /\ Regular(t)
  BY <1>1, <1>2, SlotIs
<1> HIDE DEF Regular
<1>10. r = Never \/ (r \in Nat /\ Due(p, r) /\ from <= r)
  <2>1. CASE r = Never
    BY <2>1
  <2>2. CASE r # Never
    <3>1. r = next /\ (end # Never => next <= end) /\ next \in Nat /\ After(next) /\ Regular(next)
      BY <1>2, <1>7, <1>8, <2>2
    <3>2. from <= next /\ start <= next /\ (p.mode \in Intervals \/ start < next)
      BY <1>4, <3>1
    <3> QED BY <1>1, <1>9, <3>1, <3>2 DEF Due
  <2> QED BY <2>1, <2>2
<1>11. ASSUME NEW t \in Int, Due(p, t), from < t, InReach(t) PROVE r # Never /\ r <= t
  <2>1. t >= start /\ (end # Never => t <= end) /\ Regular(t) /\ (t > start \/ p.mode \in Intervals)
    BY <1>1, <1>9, <1>11 DEF Due
  <2>2. After(t)
    BY <1>4, <1>11, <2>1
  <2>3. next # Never /\ next <= t /\ next \in Nat
    BY <1>8, <1>11, <2>1, <2>2
  <2>4. ~(end # Never /\ (end <= from \/ next > end))
    BY <1>2, <1>11, <2>1, <2>3
  <2> QED BY <1>7, <2>3, <2>4
<1> QED BY <1>3, <1>6, <1>10, <1>11

LEMMA NextIsFirst ==
    ASSUME SearchReaches, NEW p \in Plans, NEW from \in 0 .. LastInstant
    PROVE  \A t \in from + 1 .. LastInstant : Due(p, t) =>
              NextRunAt(p, from) # Never /\ NextRunAt(p, from) <= t
<1>0. LastInstant \in Nat
  BY SchedulesAssumption
<1> SUFFICES ASSUME NEW t \in from + 1 .. LastInstant, Due(p, t)
             PROVE  NextRunAt(p, from) # Never /\ NextRunAt(p, from) <= t
  OBVIOUS
<1>1. from \in Nat /\ t \in 0 .. LastInstant /\ from < t
  BY <1>0
<1>2. PICK u \in from + 1 .. t :
          /\ Due(p, u)
          /\ p.mode \in Intervals \/ Minute(u) <= Minute(Max({from, p.startAt})) + MaxAhead
  BY <1>1 DEF SearchReaches
<1>3. u \in Int /\ from < u /\ u <= t
  BY <1>0, <1>1
<1>4. PICK r : r = NextRunAt(p, from)
  OBVIOUS
<1>5. r = Never \/ r \in Nat
  BY <1>1, <1>4, NextRunAtIs
<1>6. r # Never /\ r <= u
  BY <1>1, <1>2, <1>3, <1>4, NextRunAtIs
<1> QED BY <1>1, <1>3, <1>4, <1>5, <1>6

\* A schedule has no two slots a tick apart.
LEMMA SlotsApart ==
    ASSUME NEW p \in Plans, NEW t \in Int, IsSlot(p, t)
    PROVE  ~IsSlot(p, t + 1)
<1>1. PICK I \in Nat \ {0} : I > 1 /\ I = IF p.mode \in Intervals THEN Interval(p) ELSE TicksPerMinute
  BY PlanIs, UnitsAre
<1>2. \A u : IsSlot(p, u) => u % I = 0
  BY <1>1, SlotIs
<1>3. t % I = 0
  BY <1>2
<1>4. PICK u \in Int : u = t + 1
  OBVIOUS
<1>5. 1 = (t % I) + (u - t)
  BY <1>3, <1>4
<1>6. u % I = 1
  BY <1>1, <1>5, Shift
<1> QED BY <1>2, <1>4, <1>6

-----------------------------------------------------------------------------
(* What lastMissedRunAt finds                                              *)

\* The slots an outage misses, and the last slot the walk over them has reached.
Passed(p, last, now) == {t \in last + 1 .. now - 1 : IsSlot(p, t)}
Reached(last, s) == IF s.found = Never THEN last ELSE s.found

Walks == [next : Int, found : Int]
WalkSound(p, last, now, s) ==
    /\ s \in Walks
    /\ s.found = Never \/ s.found \in Passed(p, last, now)
    /\ s.next = NextRunAt(p, Reached(last, s) + 1)
WalkOver(now, s) == s.next = Never \/ s.next >= now

Outage(p, last, now) ==
    /\ p \in Plans /\ last \in 0 .. LastInstant /\ now \in 0 .. LastInstant
    /\ last < now /\ Due(p, last)

\* What the walk has reached is a slot, and what comes next is later.
LEMMA ReachedIs ==
    ASSUME SearchReaches, NEW p, NEW last, NEW now, Outage(p, last, now),
           NEW s, WalkSound(p, last, now, s)
    PROVE  /\ Reached(last, s) \in Nat /\ last <= Reached(last, s) /\ Reached(last, s) < now
           /\ s.next = Never \/ (s.next \in Nat /\ Due(p, s.next) /\ Reached(last, s) < s.next)
           /\ \A t \in Passed(p, last, now) : Reached(last, s) < t => s.next # Never /\ s.next <= t
<1>1. p \in Plans /\ last \in Nat /\ now \in Nat /\ last < now /\ now <= LastInstant /\ LastInstant \in Nat
  BY SchedulesAssumption DEF Outage
<1>2. PICK r : r = Reached(last, s)
  OBVIOUS
<1>3. r \in Nat /\ last <= r /\ r < now /\ IsSlot(p, r)
  <2>1. CASE s.found = Never
    BY <1>1, <1>2, <2>1 DEF Reached, Outage, Due
  <2>2. CASE s.found # Never
    <3>1. r \in last + 1 .. now - 1 /\ IsSlot(p, r)
      BY <1>2, <2>2 DEF Reached, WalkSound, Passed
    <3> QED BY ONLY <1>1, <3>1
  <2> QED BY <2>1, <2>2
<1>4. PICK from \in Nat : from = r + 1 /\ from \in 0 .. LastInstant
  BY <1>1, <1>3
<1>5. PICK n : n = NextRunAt(p, from)
  OBVIOUS
<1>6. s.next = n
  BY <1>2, <1>4, <1>5 DEF WalkSound
<1>7. n = Never \/ (n \in Nat /\ Due(p, n) /\ from <= n)
  BY <1>1, <1>5, NextRunAtIs
<1>8. ASSUME NEW t \in Passed(p, last, now), r < t PROVE n # Never /\ n <= t
  <2>1. t \in last + 1 .. now - 1 /\ IsSlot(p, t)
    BY DEF Passed
  <2>2. t \in Int /\ last < t /\ t < now
    BY ONLY <1>1, <2>1
  <2>3. t # from
    BY <1>1, <1>3, <1>4, <2>1, SlotsApart
  <2>4. t \in from + 1 .. LastInstant
    BY ONLY <1>1, <1>3, <1>4, <1>8, <2>2, <2>3
  <2>5. t > p.startAt
    <3>1. PICK start \in Nat : start = p.startAt
      BY <1>1, PlanIs
    <3>2. start <= last
      BY <3>1 DEF Outage, Due, IsSlot
    <3> QED BY <1>1, <2>2, <3>1, <3>2
  <2>6. Due(p, t)
    BY <2>1, <2>5 DEF Due
  <2> QED BY <1>1, <1>4, <1>5, <2>4, <2>6, NextIsFirst
<1>9. n = Never \/ r < n
  BY ONLY <1>3, <1>4, <1>7
<1> QED BY <1>2, <1>3, <1>6, <1>7, <1>8, <1>9

\* A turn that does not stop goes one missed slot on.
LEMMA MissedTurnSound ==
    ASSUME SearchReaches, NEW p, NEW last, NEW now, Outage(p, last, now),
           NEW s, WalkSound(p, last, now, s)
    PROVE  /\ WalkSound(p, last, now, MissedTurn(p, now, s))
           /\ IF WalkOver(now, s) THEN MissedTurn(p, now, s) = s
              ELSE LET r == Reached(last, MissedTurn(p, now, s))
                   IN  r \in Passed(p, last, now) /\ Reached(last, s) < r
<1>1. p \in Plans /\ last \in Nat /\ now \in Nat /\ last < now
  BY SchedulesAssumption DEF Outage
<1>2. CASE WalkOver(now, s)
  BY <1>2 DEF MissedTurn, WalkOver
<1>3. CASE ~WalkOver(now, s)
  <2>1. PICK n : n = s.next
    OBVIOUS
  <2>2. PICK r \in Nat : r = Reached(last, s) /\ last <= r
    BY ReachedIs
  <2>3. n # Never /\ ~(n >= now)
    BY <1>3, <2>1 DEF WalkOver
  <2>4. n \in Nat /\ Due(p, n) /\ r < n
    BY <2>1, <2>2, <2>3, ReachedIs
  <2>5. n \in last + 1 .. now - 1
    BY ONLY <1>1, <2>2, <2>3, <2>4
  <2>6. n \in Passed(p, last, now)
    BY <2>4, <2>5 DEF Passed, Due
  <2>7. PICK t : t = MissedTurn(p, now, s)
    OBVIOUS
  <2>8. t = [next |-> NextRunAt(p, n + 1), found |-> n]
    BY <2>1, <2>3, <2>7 DEF MissedTurn
  <2>9. Reached(last, t) = n /\ t.found = n
    BY <2>3, <2>8 DEF Reached
  <2>10. NextRunAt(p, n + 1) \in Int
    <3>1. PICK from \in Nat : from = n + 1
      BY <2>4
    <3>2. NextRunAt(p, from) = Never \/ NextRunAt(p, from) \in Nat
      BY <1>1, NextRunAtIs
    <3> QED BY <3>1, <3>2 DEF Never
  <2>11. WalkSound(p, last, now, t)
    BY <2>4, <2>6, <2>8, <2>9, <2>10 DEF WalkSound, Walks
  <2> QED BY <1>3, <2>2, <2>4, <2>6, <2>7, <2>9, <2>11
<1> QED BY <1>2, <1>3

\* Where the walk stops, the last slot missed has been reached.
LEMMA StoppedAtLast ==
    ASSUME SearchReaches, NEW p, NEW last, NEW now, Outage(p, last, now),
           NEW s, WalkSound(p, last, now, s), WalkOver(now, s)
    PROVE  \A t \in Passed(p, last, now) : t <= Reached(last, s)
<1> SUFFICES ASSUME NEW t \in Passed(p, last, now), ~(t <= Reached(last, s)) PROVE FALSE
  OBVIOUS
<1>1. last \in Nat /\ now \in Nat
  BY SchedulesAssumption DEF Outage
<1>2. PICK r \in Nat : r = Reached(last, s)
  BY ReachedIs
<1>3. t \in last + 1 .. now - 1
  BY DEF Passed
<1>4. t \in Int /\ t < now
  BY ONLY <1>1, <1>3
<1>5. r < t
  BY <1>2, <1>4
<1>6. PICK n : n = s.next
  OBVIOUS
<1>7. n # Never /\ n <= t
  BY <1>2, <1>5, <1>6, ReachedIs
<1>8. n \in Nat
  BY <1>6, <1>7, ReachedIs
<1>9. n >= now
  BY <1>6, <1>7 DEF WalkOver
<1> QED BY ONLY <1>1, <1>4, <1>7, <1>8, <1>9

LEMMA PassedFinite ==
    ASSUME NEW p, NEW last, NEW now, Outage(p, last, now), NEW r \in Int
    PROVE  /\ IsFiniteSet(Passed(p, last, now))
           /\ IsFiniteSet({t \in Passed(p, last, now) : t <= r})
           /\ MissesFit => Cardinality(Passed(p, last, now)) <= MaxMissed
<1>1. p \in Plans /\ last \in 0 .. LastInstant /\ now \in 0 .. LastInstant
  BY DEF Outage
<1>2. last + 1 \in Int /\ now - 1 \in Int
  BY <1>1, SchedulesAssumption
<1>3. IsFiniteSet(last + 1 .. now - 1)
  <2>1. PICK a \in Int : a = last + 1
    BY <1>2
  <2>2. PICK b \in Int : b = now - 1
    BY <1>2
  <2>3. IsFiniteSet(a .. b)
    BY FS_Interval
  <2> QED BY <2>1, <2>2, <2>3
<1>4. Passed(p, last, now) \in SUBSET (last + 1 .. now - 1)
  BY DEF Passed
<1>5. IsFiniteSet(Passed(p, last, now))
  BY <1>3, <1>4, FS_Subset
<1>6. {t \in Passed(p, last, now) : t <= r} \in SUBSET Passed(p, last, now)
  OBVIOUS
<1> QED BY <1>1, <1>5, <1>6, FS_Subset DEF MissesFit, Passed

\* One slot further on, at least one more slot has been reached.
LEMMA OneMore ==
    ASSUME NEW p, NEW last, NEW now, Outage(p, last, now),
           NEW r \in Int, NEW u \in Passed(p, last, now), r < u
    PROVE  Cardinality({t \in Passed(p, last, now) : t <= u})
              >= Cardinality({t \in Passed(p, last, now) : t <= r}) + 1
<1>1. \A t \in Passed(p, last, now) : t \in Int
  BY SchedulesAssumption DEF Passed, Outage
<1>2. u \in Int
  BY <1>1
<1> DEFINE A == {t \in Passed(p, last, now) : t <= r}
           B == {t \in Passed(p, last, now) : t <= u}
<1>3. IsFiniteSet(A) /\ IsFiniteSet(B)
  BY <1>2, PassedFinite
<1>4. u \notin A /\ A \cup {u} \in SUBSET B
  <2>1. ~(u <= r) /\ u <= u
    BY <1>2
  <2>2. ASSUME NEW t \in A PROVE t \in B
    <3>1. t \in Passed(p, last, now) /\ t \in Int /\ t <= r
      BY <1>1
    <3>2. t <= u
      BY ONLY <1>2, <3>1, r \in Int, r < u
    <3> QED BY <3>1, <3>2
  <2> QED BY <2>1, <2>2
<1> HIDE DEF A, B
<1>5. IsFiniteSet(A \cup {u}) /\ Cardinality(A \cup {u}) = Cardinality(A) + 1
  BY <1>3, <1>4, FS_AddElement
<1>6. Cardinality(A \cup {u}) <= Cardinality(B)
  BY <1>3, <1>4, FS_Subset
<1>7. Cardinality(A) \in Nat /\ Cardinality(B) \in Nat
  BY <1>3, FS_CardinalityType
<1>8. Cardinality(B) >= Cardinality(A) + 1
  BY <1>5, <1>6, <1>7
<1> QED BY <1>8 DEF A, B

\* A walk that has reached every slot missed has found the last of them.
LEMMA FoundIsLast ==
    ASSUME SearchReaches, NEW p, NEW last, NEW now, Outage(p, last, now),
           NEW s, WalkSound(p, last, now, s),
           \A t \in Passed(p, last, now) : t <= Reached(last, s)
    PROVE  s.found = IF Passed(p, last, now) = {} THEN Never ELSE Max(Passed(p, last, now))
<1>1. last \in Nat
  BY SchedulesAssumption DEF Outage
<1>2. \A t \in Passed(p, last, now) : t \in Int /\ last < t
  BY <1>1, SchedulesAssumption DEF Passed, Outage
<1>3. CASE s.found = Never
  <2>1. Reached(last, s) = last
    BY <1>3 DEF Reached
  <2>2. Passed(p, last, now) = {}
    BY <1>1, <1>2, <2>1
  <2> QED BY <1>3, <2>2
<1>4. CASE s.found # Never
  <2>1. s.found \in Passed(p, last, now) /\ Reached(last, s) = s.found
    BY <1>4 DEF WalkSound, Reached
  <2>2. PICK S : S = Passed(p, last, now)
    OBVIOUS
  <2>3. PICK f : f = s.found
    OBVIOUS
  <2>4. f \in S /\ \A y \in S : y <= f /\ y \in Int
    BY <1>2, <2>1, <2>2, <2>3
  <2>5. f \in S /\ \A y \in S : f >= y
    BY <2>4
  <2>6. PICK m : m = Max(S)
    OBVIOUS
  <2>7. m \in S /\ \A y \in S : m >= y
    BY <2>5, <2>6 DEF Max
  <2>8. m = f
    BY <2>4, <2>5, <2>7
  <2> QED BY <2>1, <2>2, <2>3, <2>6, <2>8
<1> QED BY <1>3, <1>4

\* What a start takes for missed is the last slot since the last run.
LEMMA MissedIs ==
    ASSUME SearchReaches, MissesFit, NEW p, NEW last, NEW now, Outage(p, last, now)
    PROVE  /\ LastMissed(p, last, now) \in Passed(p, last, now) \cup {Never}
           /\ LastMissed(p, last, now)
                 = IF Passed(p, last, now) = {} THEN Never ELSE Max(Passed(p, last, now))
<1>1. p \in Plans /\ last \in Nat /\ now \in Nat /\ last < now
  BY SchedulesAssumption DEF Outage
<1>2. PICK N \in Nat : N = MaxMissed
  BY SchedulesAssumption
<1> DEFINE S == {s \in Walks : WalkSound(p, last, now, s)}
           g == [k \in 1 .. N |-> [s \in S |-> MissedTurn(p, now, s)]]
           Start == [next |-> NextRunAt(p, last + 1), found |-> Never]
           Eq(h) == h = [k \in 0 .. N |-> IF k = 0 THEN Start ELSE MissedTurn(p, now, h[k - 1])]
           walk == CHOOSE h : Eq(h)
<1>3. LastMissed(p, last, now) = walk[N].found
  BY <1>1, <1>2 DEF LastMissed, MissedSince, Never
<1>4. \A s \in S : MissedTurn(p, now, s) \in S
  BY MissedTurnSound DEF WalkSound
<1>5. PICK a : a = Start
  OBVIOUS
<1>6. WalkSound(p, last, now, a)
  <2>1. PICK from \in Nat : from = last + 1
    BY <1>1
  <2>2. NextRunAt(p, from) \in Int
    <3>1. NextRunAt(p, from) = Never \/ NextRunAt(p, from) \in Nat
      BY <1>1, NextRunAtIs
    <3> QED BY <3>1 DEF Never
  <2>3. Reached(last, a) = last
    BY <1>5 DEF Reached
  <2>4. Never \in Int
    BY DEF Never
  <2> QED BY <1>5, <2>1, <2>2, <2>3, <2>4 DEF WalkSound, Walks
<1>7. a \in S
  BY <1>6 DEF WalkSound
<1>8. \A s \in S : WalkSound(p, last, now, s)
  OBVIOUS
<1> HIDE DEF S
<1>9. g \in [1 .. N -> [S -> S]]
  BY <1>4
<1>10. PICK f \in [0 .. N -> S] : f[0] = a /\ \A k \in 1 .. N : f[k] = g[k][f[k - 1]]
  <2> HIDE DEF g
  <2> QED BY ONLY <1>7, <1>9, N \in Nat, Recursion
<1>11. \A k \in 1 .. N : k \in 0 .. N /\ k - 1 \in 0 .. N /\ k # 0
  OBVIOUS
<1>12. \A k \in 1 .. N : f[k] = MissedTurn(p, now, f[k - 1])
  <2> SUFFICES ASSUME NEW k \in 1 .. N PROVE f[k] = MissedTurn(p, now, f[k - 1])
    OBVIOUS
  <2>1. f[k - 1] \in S /\ f[k] = g[k][f[k - 1]]
    BY <1>10, <1>11
  <2> QED BY <2>1
<1>13. Eq(f)
  <2>1. \A k \in 0 .. N : k # 0 => k \in 1 .. N
    OBVIOUS
  <2> HIDE DEF Start
  <2>2. \A k \in 0 .. N : f[k] = IF k = 0 THEN Start ELSE MissedTurn(p, now, f[k - 1])
    BY <1>5, <1>10, <1>12, <2>1
  <2> QED BY <2>2
<1>14. Eq(walk)
  <2> HIDE DEF Eq
  <2> QED BY <1>13
<1> HIDE DEF walk
<1>15. walk[0] = a /\ \A k \in 1 .. N : walk[k] = MissedTurn(p, now, walk[k - 1])
  <2> HIDE DEF Start
  <2> QED BY <1>5, <1>11, <1>14
<1> DEFINE UpTo(r) == {t \in Passed(p, last, now) : t <= r}
           Good(k) == /\ WalkSound(p, last, now, walk[k])
                      /\ WalkOver(now, walk[k]) \/ Cardinality(UpTo(Reached(last, walk[k]))) >= k
           P == {k \in Nat : k <= N => Good(k)}
<1>16. \A r \in Int : Cardinality(UpTo(r)) \in Nat
  BY PassedFinite, FS_CardinalityType
<1>17. \A s : WalkSound(p, last, now, s) => Reached(last, s) \in Nat
  BY ReachedIs
<1>18. 0 \in P
  <2>1. WalkSound(p, last, now, walk[0])
    BY <1>6, <1>15
  <2>2. Reached(last, walk[0]) \in Int
    BY <1>17, <2>1
  <2>3. Cardinality(UpTo(Reached(last, walk[0]))) \in Nat
    BY <1>16, <2>2
  <2> HIDE DEF UpTo
  <2> QED BY <2>1, <2>3
<1>19. ASSUME NEW k \in P PROVE k + 1 \in P
  <2>0. k \in Nat /\ k + 1 \in Nat
    OBVIOUS
  <2> SUFFICES ASSUME k + 1 <= N PROVE Good(k + 1)
    <3> HIDE DEF Good
    <3> QED BY <2>0
  <2>1. k <= N /\ k + 1 \in 1 .. N /\ (k + 1) - 1 = k
    BY <2>0
  <2>2. Good(k)
    <3> HIDE DEF Good
    <3> QED BY <2>1
  <2>3. PICK s : s = walk[k]
    OBVIOUS
  <2>4. PICK t : t = walk[k + 1]
    OBVIOUS
  <2>5. t = MissedTurn(p, now, s)
    BY <1>15, <2>1, <2>3, <2>4
  <2>6. WalkSound(p, last, now, s) /\ (WalkOver(now, s) \/ Cardinality(UpTo(Reached(last, s))) >= k)
    BY <2>2, <2>3
  <2>7. WalkSound(p, last, now, t)
    BY <2>5, <2>6, MissedTurnSound
  <2>8. CASE WalkOver(now, s)
    <3>1. t = s
      BY <2>5, <2>6, <2>8, MissedTurnSound
    <3> QED BY <2>4, <2>7, <2>8, <3>1
  <2>9. CASE ~WalkOver(now, s)
    <3>1. PICK r \in Int : r = Reached(last, s)
      BY <1>17, <2>6
    <3>2. PICK u \in Int : u = Reached(last, t)
      BY <1>17, <2>7
    <3>3. u \in Passed(p, last, now) /\ r < u
      BY <2>5, <2>6, <2>9, <3>1, <3>2, MissedTurnSound
    <3>4. Cardinality(UpTo(u)) >= Cardinality(UpTo(r)) + 1
      BY <3>3, OneMore
    <3>5. Cardinality(UpTo(u)) \in Nat /\ Cardinality(UpTo(r)) \in Nat
      BY <1>16
    <3>6. Cardinality(UpTo(r)) >= k
      BY <2>6, <2>9, <3>1
    <3> HIDE DEF UpTo
    <3>7. Cardinality(UpTo(u)) >= k + 1
      BY ONLY <2>0, <3>4, <3>5, <3>6
    <3> QED BY <2>4, <2>7, <3>2, <3>7
  <2> QED BY <2>8, <2>9
<1>20. P = Nat
  <2>1. P \in SUBSET Nat
    OBVIOUS
  <2> HIDE DEF P
  <2> QED BY <1>18, <1>19, <2>1, Induction
<1>21. Good(N)
  <2>1. N \in P
    <3> HIDE DEF P
    <3> QED BY <1>20
  <2>2. N <= N
    OBVIOUS
  <2> HIDE DEF Good
  <2> QED BY <2>1, <2>2
<1>22. PICK s : s = walk[N]
  OBVIOUS
<1>23. WalkSound(p, last, now, s) /\ (WalkOver(now, s) \/ Cardinality(UpTo(Reached(last, s))) >= N)
  BY <1>21, <1>22
<1>24. \A t \in Passed(p, last, now) : t <= Reached(last, s)
  <2>1. CASE WalkOver(now, s)
    BY <1>23, <2>1, StoppedAtLast
  <2>2. CASE ~WalkOver(now, s)
    <3>1. PICK r \in Int : r = Reached(last, s)
      BY <1>17, <1>23
    <3> DEFINE A == Passed(p, last, now)
               B == UpTo(r)
    <3>2. Cardinality(B) >= N
      BY <1>23, <2>2, <3>1
    <3>3. IsFiniteSet(A) /\ B \in SUBSET A /\ IsFiniteSet(B) /\ Cardinality(A) <= N
      BY <1>2, PassedFinite
    <3>4. A = B
      <4> HIDE DEF A, B
      <4>1. Cardinality(A) \in Nat /\ Cardinality(B) \in Nat /\ Cardinality(B) <= Cardinality(A)
        BY <3>3, FS_CardinalityType, FS_Subset
      <4>2. Cardinality(A) = Cardinality(B)
        BY ONLY <3>2, <3>3, <4>1, N \in Nat
      <4> QED BY <3>3, <4>2, FS_Subset
    <3> QED BY <3>1, <3>4
  <2> QED BY <2>1, <2>2
<1>25. s.found \in Passed(p, last, now) \cup {Never}
  BY <1>23 DEF WalkSound
<1> QED BY <1>3, <1>22, <1>23, <1>24, <1>25, FoundIsLast

\* The timer set for the next run: for a slot, with none before it.
LEMMA TimerForIs ==
    ASSUME SearchReaches, NEW p \in Plans, NEW now \in 0 .. LastInstant
    PROVE  /\ TimerFor(p, now) # NoTimer =>
                 /\ TimerFor(p, now).slot \in Nat /\ now <= TimerFor(p, now).slot
                 /\ Due(p, TimerFor(p, now).slot)
                 /\ TimerFor(p, now).at \in 0 .. TimerFor(p, now).slot
                 /\ DelaysFit => TimerFor(p, now).at = TimerFor(p, now).slot
           /\ \A t \in now + 1 .. LastInstant : Due(p, t) =>
                 TimerFor(p, now) # NoTimer /\ TimerFor(p, now).slot <= t
<1>1. now \in Nat
  BY SchedulesAssumption
<1>2. PICK n : n = NextRunAt(p, now)
  OBVIOUS
<1>3. PICK m : m = TimerFor(p, now)
  OBVIOUS
<1>4. n = Never \/ (n \in Nat /\ Due(p, n) /\ now <= n)
  BY <1>1, <1>2, NextRunAtIs
<1>5. \A t \in now + 1 .. LastInstant : Due(p, t) => n # Never /\ n <= t
  BY <1>2, NextIsFirst
<1>6. CASE n = Never
  <2>1. m = NoTimer
    BY <1>2, <1>3, <1>6 DEF TimerFor
  <2> QED BY <1>3, <1>5, <1>6, <2>1
<1>7. CASE n # Never
  <2>1. PICK a : a = IF n - now > MaxDelay THEN now ELSE n
    OBVIOUS
  <2>2. m = [slot |-> n, at |-> a]
    BY <1>2, <1>3, <1>7, <2>1 DEF TimerFor
  <2>3. m # NoTimer /\ m.slot = n /\ m.at = a
    BY <1>7, <2>2 DEF NoTimer
  <2>4. n \in Nat /\ now <= n /\ Due(p, n)
    BY <1>4, <1>7
  <2>5. a \in 0 .. n
    BY ONLY <1>1, <2>1, <2>4
  <2>6. DelaysFit => a = n
    <3> SUFFICES ASSUME DelaysFit PROVE a = n
      OBVIOUS
    <3>1. n - now <= MaxDelay /\ MaxDelay \in Nat
      BY <1>2, SchedulesAssumption DEF DelaysFit
    <3> QED BY ONLY <1>1, <2>1, <2>4, <3>1
  <2> QED BY <1>3, <1>5, <2>3, <2>4, <2>5, <2>6
<1> QED BY <1>6, <1>7

-----------------------------------------------------------------------------
(* The next slot                                                           *)

WaitInv ==
    /\ plan \in Plans /\ clock \in 0 .. LastInstant
    /\ stage \in {"down", "waiting", "running"} /\ (stage = "running" => timer # NoTimer)
    /\ timer # NoTimer =>
          timer.slot \in Nat /\ timer.at \in 0 .. timer.slot /\ Due(plan, timer.slot)
    /\ stage = "waiting" =>
          \A t \in clock + 1 .. LastInstant : Due(plan, t) => timer # NoTimer /\ timer.slot <= t

LEMMA WaitInit ==
    ASSUME SchedulesInit PROVE WaitInv
<1>1. clock \in 0 .. LastInstant
  <2>1. PICK k \in Int : k = Offset * TicksPerMinute /\ k >= 0
    <3>1. Offset \in Nat /\ TicksPerMinute \in Nat
      BY SchedulesAssumption
    <3> QED BY <3>1
  <2>2. k <= LastInstant /\ LastInstant \in Nat
    BY <2>1, SchedulesAssumption
  <2> QED BY <2>1, <2>2 DEF SchedulesInit, Instant
<1> QED BY <1>1 DEF SchedulesInit, WaitInv

LEMMA WaitNext ==
    ASSUME SearchReaches, WaitInv, [SchedulesNext]_scheduleVars PROVE WaitInv'
<1>1. LastInstant \in Nat
  BY SchedulesAssumption
<1>2. plan \in Plans /\ clock \in 0 .. LastInstant
  BY DEF WaitInv
<1>3. CASE StartEngine \/ RunEnds
  <2>1. stage' = "waiting" /\ timer' = TimerFor(plan, clock) /\ plan' = plan /\ clock' = clock
    BY <1>3 DEF StartEngine, RunEnds
  <2> QED BY <1>2, <2>1, TimerForIs DEF WaitInv
<1>4. CASE Fire
  BY <1>4 DEF Fire, WaitInv
<1>5. CASE StopEngine
  BY <1>5 DEF StopEngine, WaitInv
<1>6. CASE Tick
  <2>1. clock' = clock + 1 /\ clock < LastInstant
        /\ plan' = plan /\ timer' = timer /\ stage' = stage
    BY <1>6 DEF Tick
  <2>2. clock' \in 0 .. LastInstant /\ \A t \in clock' + 1 .. LastInstant : t \in clock + 1 .. LastInstant
    BY ONLY <1>1, <1>2, <2>1
  <2> QED BY <2>1, <2>2 DEF WaitInv
<1>7. CASE UNCHANGED scheduleVars
  BY <1>7 DEF scheduleVars, WaitInv
<1> QED BY <1>3, <1>4, <1>5, <1>6, <1>7 DEF SchedulesNext

\* A waiting task waits for its next slot, whatever the calendar, the schedule and
\* the offset: cronNextRun jumps over none although it leaps over days and months
\* and looks at the month once a day, and the other modes find the first.
THEOREM TimerAlwaysForNextSlot ==
    ASSUME SearchReaches PROVE SchedulesSpec => []TimerIsForNextSlot
<1>1. SchedulesInit => WaitInv
  BY WaitInit
<1>2. WaitInv /\ [SchedulesNext]_scheduleVars => WaitInv'
  BY WaitNext
<1>3. WaitInv => TimerIsForNextSlot
  BY DEF WaitInv, TimerIsForNextSlot, Due
<1> QED BY <1>1, <1>2, <1>3, PTL DEF SchedulesSpec

-----------------------------------------------------------------------------
(* Slots run and slots missed                                              *)

KeptInv ==
    /\ WaitInv
    /\ timer # NoTimer => timer.at = timer.slot /\ lastRunAt < timer.slot
    /\ stage = "running" => fired \in 0 .. clock /\ timer.slot <= fired
    /\ lastRunAt # Never => lastRunAt \in 0 .. LastInstant /\ lastRunAt < clock /\ Due(plan, lastRunAt)
    /\ {lastRunAt, fired, missed} \subseteq (0 .. LastInstant) \cup {Never}

LEMMA KeptInit ==
    ASSUME SchedulesInit PROVE KeptInv
BY WaitInit DEF SchedulesInit, KeptInv

LEMMA StartMisses ==
    ASSUME SearchReaches, MissesFit, KeptInv
    PROVE  /\ LastMissed(plan, lastRunAt, clock) \in (0 .. LastInstant) \cup {Never}
           /\ lastRunAt # Never =>
                 LastMissed(plan, lastRunAt, clock)
                    = IF Passed(plan, lastRunAt, clock) = {} THEN Never
                      ELSE Max(Passed(plan, lastRunAt, clock))
<1>1. CASE lastRunAt = Never
  BY <1>1 DEF LastMissed
<1>2. CASE lastRunAt # Never
  <2>1. Outage(plan, lastRunAt, clock)
    BY <1>2 DEF KeptInv, WaitInv, Outage
  <2>2. PICK S : S = Passed(plan, lastRunAt, clock)
    OBVIOUS
  <2>3. /\ LastMissed(plan, lastRunAt, clock) \in S \cup {Never}
        /\ LastMissed(plan, lastRunAt, clock) = IF S = {} THEN Never ELSE Max(S)
    BY <2>1, <2>2, MissedIs
  <2>5. \A t \in S : t \in 0 .. LastInstant
    <3> SUFFICES ASSUME NEW t \in S PROVE t \in 0 .. LastInstant
      OBVIOUS
    <3>1. t \in lastRunAt + 1 .. clock - 1
      BY <2>2 DEF Passed
    <3>2. lastRunAt \in 0 .. LastInstant /\ clock \in 0 .. LastInstant /\ LastInstant \in Nat
      BY <2>1, SchedulesAssumption DEF Outage
    <3> QED BY ONLY <3>1, <3>2
  <2> QED BY <2>2, <2>3, <2>5
<1> QED BY <1>1, <1>2

LEMMA KeptNext ==
    ASSUME SearchReaches, DelaysFit, MissesFit, KeptInv, [SchedulesNext]_scheduleVars
    PROVE  KeptInv'
<1>0. LastInstant \in Nat
  BY SchedulesAssumption
<1>1. WaitInv /\ WaitInv'
  BY WaitNext DEF KeptInv
<1>2. plan \in Plans /\ clock \in 0 .. LastInstant
  BY <1>1 DEF WaitInv
<1>3. PICK m : m = TimerFor(plan, clock)
  OBVIOUS
<1>4. m # NoTimer => m.at = m.slot /\ m.slot \in Nat /\ clock <= m.slot
  BY <1>2, <1>3, TimerForIs
<1>5. CASE StartEngine
  <2>1. /\ stage' = "waiting" /\ timer' = m /\ missed' = LastMissed(plan, lastRunAt, clock)
        /\ plan' = plan /\ clock' = clock /\ lastRunAt' = lastRunAt /\ fired' = fired
    BY <1>3, <1>5 DEF StartEngine
  <2>2. missed' \in (0 .. LastInstant) \cup {Never}
    BY <2>1, StartMisses
  <2>3. m # NoTimer => lastRunAt < m.slot
    <3>1. lastRunAt = Never \/ (lastRunAt \in 0 .. LastInstant /\ lastRunAt < clock)
      BY DEF KeptInv
    <3> QED BY ONLY <1>0, <1>2, <1>4, <3>1 DEF Never
  <2> QED BY <1>1, <1>4, <2>1, <2>2, <2>3 DEF KeptInv
<1>6. CASE Fire
  <2>1. /\ timer # NoTimer /\ timer.at <= clock /\ stage' = "running" /\ fired' = clock
        /\ UNCHANGED <<plan, clock, timer, lastRunAt, missed>>
    BY <1>6 DEF Fire
  <2>2. timer.slot <= clock /\ clock \in 0 .. clock
    BY <1>0, <1>2, <2>1 DEF KeptInv
  <2> QED BY <1>1, <1>2, <2>1, <2>2 DEF KeptInv
<1>7. CASE RunEnds
  <2>1. /\ stage = "running" /\ clock > fired
        /\ stage' = "waiting" /\ timer' = m /\ lastRunAt' = timer.slot
        /\ UNCHANGED <<plan, clock, fired, missed>>
    BY <1>3, <1>7 DEF RunEnds
  <2>2. PICK s \in Nat : s = timer.slot /\ Due(plan, s)
    BY <1>1, <2>1 DEF WaitInv
  <2>3. fired \in 0 .. clock /\ s <= fired
    BY <2>1, <2>2 DEF KeptInv
  <2>4. s \in 0 .. LastInstant /\ s < clock
    BY ONLY <1>0, <1>2, <2>1, <2>3, s \in Nat
  <2>5. m # NoTimer => s < m.slot
    BY ONLY <1>0, <1>2, <1>4, <2>4
  <2> QED BY <1>1, <1>4, <2>1, <2>2, <2>4, <2>5 DEF KeptInv
<1>8. CASE StopEngine
  BY <1>1, <1>8 DEF StopEngine, KeptInv
<1>9. CASE Tick
  <2>1. clock' = clock + 1 /\ UNCHANGED <<plan, timer, stage, lastRunAt, fired, missed>>
    BY <1>9 DEF Tick
  <2>2. fired \in 0 .. clock => fired \in 0 .. clock'
    BY ONLY <1>0, <1>2, <2>1
  <2>3. lastRunAt \in 0 .. LastInstant /\ lastRunAt < clock => lastRunAt < clock'
    BY ONLY <1>0, <1>2, <2>1
  <2> QED BY <1>1, <2>1, <2>2, <2>3 DEF KeptInv
<1>10. CASE UNCHANGED scheduleVars
  BY <1>1, <1>10 DEF scheduleVars, KeptInv
<1> QED BY <1>5, <1>6, <1>7, <1>8, <1>9, <1>10 DEF SchedulesNext

\* The state of a task keeps its shape; a task is recorded as run at a slot only
\* once that slot has passed.
THEOREM SchedulesAlwaysTyped ==
    ASSUME SearchReaches, DelaysFit, MissesFit PROVE SchedulesSpec => []SchedulesTypeOK
<1>1. SchedulesInit => KeptInv
  BY KeptInit
<1>2. KeptInv /\ [SchedulesNext]_scheduleVars => KeptInv'
  BY KeptNext
<1>3. KeptInv => SchedulesTypeOK
  BY DEF KeptInv, WaitInv, SchedulesTypeOK
<1> QED BY <1>1, <1>2, <1>3, PTL DEF SchedulesSpec

\* If no delay is beyond what a timer honours, no run begins before startAt: the
\* early runs of ScheduleEarly have no other cause.
THEOREM NeverBeforeStart ==
    ASSUME SearchReaches, DelaysFit, MissesFit PROVE SchedulesSpec => []NotBeforeStart
<1>1. SchedulesInit => KeptInv
  BY KeptInit
<1>2. KeptInv /\ [SchedulesNext]_scheduleVars => KeptInv'
  BY KeptNext
<1>3. KeptInv => NotBeforeStart
  <2> SUFFICES ASSUME KeptInv, stage = "running" PROVE fired >= plan.startAt
    BY DEF NotBeforeStart
  <2>1. PICK start \in Nat : start = plan.startAt
    BY PlanIs DEF KeptInv, WaitInv
  <2>2. PICK s \in Nat : s = timer.slot /\ start <= s
    BY <2>1 DEF KeptInv, WaitInv, Due, IsSlot
  <2>3. fired \in Nat /\ s <= fired
    BY <2>2, SchedulesAssumption DEF KeptInv, WaitInv
  <2> QED BY <2>1, <2>2, <2>3
<1> QED BY <1>1, <1>2, <1>3, PTL DEF SchedulesSpec

\* Over runs that end late, outages and restarts the timer runs no slot twice and
\* none out of order, and what a start takes for missed is exactly the latest slot
\* since the last run (engine.test.ts:241).
THEOREM SlotsAlwaysKept ==
    ASSUME SearchReaches, DelaysFit, MissesFit PROVE SchedulesSpec => SlotsKept
<1>1. SchedulesInit => KeptInv
  BY KeptInit
<1>2. KeptInv /\ [SchedulesNext]_scheduleVars => KeptInv'
  BY KeptNext
<1>3. KeptInv /\ [SchedulesNext]_scheduleVars => [SlotsInOrder /\ MissedIsLatest]_scheduleVars
  <2> SUFFICES ASSUME KeptInv, SchedulesNext PROVE SlotsInOrder /\ MissedIsLatest
    OBVIOUS
  <2>1. SlotsInOrder
    <3>1. stage # "running" /\ stage' = "running" => timer # NoTimer
      BY DEF SchedulesNext, StartEngine, Fire, RunEnds, StopEngine, Tick
    <3>2. timer # NoTimer => timer.slot \in Nat /\ lastRunAt < timer.slot
      BY DEF KeptInv, WaitInv
    <3>3. lastRunAt \in Int
      BY SchedulesAssumption DEF KeptInv, Never
    <3> QED BY <3>1, <3>2, <3>3 DEF SlotsInOrder
  <2>2. MissedIsLatest
    <3>1. stage = "down" /\ stage' = "waiting" => missed' = LastMissed(plan, lastRunAt, clock)
      BY DEF SchedulesNext, StartEngine, Fire, RunEnds, StopEngine, Tick
    <3> QED BY <3>1, StartMisses DEF MissedIsLatest, Passed
  <2> QED BY <2>1, <2>2
<1> QED BY <1>1, <1>2, <1>3, PTL DEF SchedulesSpec, SlotsKept
=============================================================================
