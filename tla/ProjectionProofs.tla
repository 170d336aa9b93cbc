-------------------------- MODULE ProjectionProofs ---------------------------
(***************************************************************************)
(* Theorems about what is computed from a log: the context that a model is  *)
(* shown after compactions, for logs, sizes and budgets of any kind, and    *)
(* what the goal scheduler assigns, for any tasks and dependencies.         *)
(***************************************************************************)
EXTENDS Compaction, Goals, TLAPS, FiniteSetTheorems, WellFoundedInduction, SequenceTheorems

-----------------------------------------------------------------------------
(* Numbers                                                                 *)

LEMMA LeastOf ==
    ASSUME NEW S \in SUBSET Nat, S # {}
    PROVE  Min(S) \in S /\ \A y \in S : Min(S) <= y
<1> DEFINE R == {q \in Nat \X Nat : q[1] < q[2]}
<1>1. IsWellFoundedOn(R, Nat)
  BY NatLessThanWellFounded DEF OpToRel
<1>2. PICK x \in S : \A y \in S : ~(<<y, x>> \in R)
  BY <1>1, WFMin
<1>3. ASSUME NEW y \in S PROVE x <= y
  <2>1. <<y, x>> \in Nat \X Nat /\ <<y, x>>[1] = y /\ <<y, x>>[2] = x
    OBVIOUS
  <2>2. ~(y < x)
    BY <1>2, <2>1
  <2> QED BY <2>2
<1> QED BY <1>3 DEF Min

LEMMA GreatestOf ==
    ASSUME NEW b \in Nat, NEW S \in SUBSET (0 .. b), S # {}
    PROVE  Max(S) \in S /\ \A y \in S : Max(S) >= y
<1> DEFINE T == {b - x : x \in S}
<1>1. T \in SUBSET Nat /\ T # {}
  <2>1. ASSUME NEW x \in S PROVE b - x \in Nat
    <3>1. x \in 0 .. b
      OBVIOUS
    <3> QED BY <3>1
  <2> QED BY <2>1
<1> HIDE DEF T
<1>2. Min(T) \in T /\ \A y \in T : Min(T) <= y
  BY <1>1, LeastOf
<1>3. PICK x \in S : Min(T) = b - x
  BY <1>2 DEF T
<1>4. ASSUME NEW y \in S PROVE x >= y
  <2>1. b - x <= b - y
    BY <1>2, <1>3 DEF T
  <2> QED BY <2>1
<1> QED BY <1>4 DEF Max

LEMMA GreatestIs ==
    ASSUME NEW S \in SUBSET Nat, NEW x \in S, \A y \in S : x >= y
    PROVE  Max(S) = x
<1>1. Max(S) \in S /\ \A y \in S : Max(S) >= y
  BY DEF Max
<1>2. Max(S) >= x /\ x >= Max(S) /\ Max(S) \in Nat /\ x \in Nat
  BY <1>1
<1> QED BY <1>2

-----------------------------------------------------------------------------
(* Compaction: what a boundary says, in a log L with h inherited events     *)

OwnIn(L, h) == h + 1 .. Len(L)

\* A compaction after n failed, or its summary was cut short.
LostAt(L, h, n) ==
    \E f \in OwnIn(L, h) : L[f].kind = "end" /\ (L[f].failed \/ L[f].partial) /\ n < f

\* A boundary names a kept message where a cut may be made; its summary stands
\* for messages before it, and a whole one, of the session's own, for all of those
\* that no other compaction has lost.  That of a failed one names nothing.
Bounds(L, h, c, whole) ==
    IF c.failed THEN c.firstKept = 0 /\ c.covers = {}
    ELSE /\ c.firstKept \in 1 .. Len(L) /\ L[c.firstKept].kind \in {"user", "notice"}
         /\ \A n \in c.covers : n < c.firstKept
         /\ whole => \A n \in OwnIn(L, h) :
               n < c.firstKept /\ L[n].kind # "end" => n \in c.covers \/ LostAt(L, h, n)

\* A result follows its call, and no message of the user comes between them.
ResultFollows(L, h, n) ==
    L[n].kind = "result" =>
        /\ L[n].call \in OwnIn(L, h) /\ L[n].call < n /\ L[L[n].call].kind = "assistant"
        /\ \A m \in L[n].call .. n : L[m].kind # "user"

\* While tools run, the last message of the LLM is the last thing said.
Asked(L, h, a) ==
    /\ a \in OwnIn(L, h) /\ L[a].kind = "assistant"
    /\ \A m \in a + 1 .. Len(L) : L[m].kind \notin {"user", "assistant"}

CompactionInv ==
    /\ CompactionTypeOK
    /\ \A n \in 1 .. inherited : log[n].kind \notin {"result", "end"}
    /\ \A n \in OwnIn(log, inherited) : ResultFollows(log, inherited, n)
    /\ \A n \in OwnIn(log, inherited) : log[n].kind = "end" =>
          log[n].firstKept < n /\ Bounds(log, inherited, log[n], ~log[n].partial)
    /\ turn = "tools" => \E a \in OwnIn(log, inherited) : Asked(log, inherited, a)
    /\ \A i \in DOMAIN compacting : Bounds(log, inherited, compacting[i], TRUE)

-----------------------------------------------------------------------------
(* Compaction: the log grows                                               *)

Grows(L, M) == Len(L) <= Len(M) /\ \A n \in 1 .. Len(L) : M[n] = L[n]

LEMMA BoundsLater ==
    ASSUME NEW L \in Seq(LogEvent), NEW M \in Seq(LogEvent), Grows(L, M), NEW h \in 0 .. Len(L),
           NEW c, c.firstKept \in Nat, NEW w \in BOOLEAN, Bounds(L, h, c, w)
    PROVE  Bounds(M, h, c, w)
<1>1. Len(L) \in Nat /\ Len(M) \in Nat
  OBVIOUS
<1>2. CASE c.failed
  BY <1>2 DEF Bounds
<1>3. CASE ~c.failed
  <2>1. \A n \in OwnIn(L, h) : n \in OwnIn(M, h) /\ M[n] = L[n]
    BY <1>1 DEF Grows, OwnIn
  <2>2. c.firstKept \in 1 .. Len(M) /\ M[c.firstKept] = L[c.firstKept]
    BY <1>1, <1>3 DEF Bounds, Grows
  <2>3. \A n \in OwnIn(M, h) : n < c.firstKept => n \in OwnIn(L, h)
    BY <1>1, <1>3 DEF Bounds, OwnIn
  <2>4. ASSUME w, NEW n \in OwnIn(M, h), n < c.firstKept, M[n].kind # "end", n \notin c.covers
        PROVE  LostAt(M, h, n)
    <3>1. n \in OwnIn(L, h) /\ L[n].kind # "end"
      BY <2>1, <2>3, <2>4
    <3>2. PICK f \in OwnIn(L, h) : L[f].kind = "end" /\ (L[f].failed \/ L[f].partial) /\ n < f
      BY <1>3, <2>4, <3>1 DEF Bounds, LostAt
    <3> QED BY <2>1, <3>2 DEF LostAt
  <2> QED BY <1>3, <2>2, <2>4 DEF Bounds
<1> QED BY <1>2, <1>3

LEMMA FollowsLater ==
    ASSUME NEW L \in Seq(LogEvent), NEW M \in Seq(LogEvent), Grows(L, M), NEW h \in 0 .. Len(L),
           NEW n \in OwnIn(L, h), ResultFollows(L, h, n)
    PROVE  ResultFollows(M, h, n)
<1>1. Len(L) \in Nat /\ Len(M) \in Nat /\ h \in Nat
  OBVIOUS
<1>2. n \in 1 .. Len(L) /\ M[n] = L[n]
  BY <1>1 DEF Grows, OwnIn
<1> SUFFICES ASSUME L[n].kind = "result" PROVE ResultFollows(M, h, n)
  BY <1>2 DEF ResultFollows
<1>3. PICK a : a = L[n].call
  OBVIOUS
<1>4. a \in OwnIn(L, h) /\ a < n /\ L[a].kind = "assistant" /\ \A m \in a .. n : L[m].kind # "user"
  BY <1>3 DEF ResultFollows
<1>5. a \in OwnIn(M, h) /\ M[a] = L[a]
  BY <1>1, <1>4 DEF Grows, OwnIn
<1>6. \A m \in a .. n : M[m] = L[m]
  BY <1>1, <1>2, <1>4 DEF Grows, OwnIn
<1> QED BY <1>2, <1>3, <1>4, <1>5, <1>6 DEF ResultFollows

\* A step that appends to the log, and leaves the compactions under way, all or
\* some of them: the new events have to be sound, and the calls they answer.
LEMMA LogStep ==
    ASSUME CompactionInv, inherited' = inherited, log' \in Seq(LogEvent), Len(log') <= MaxLog, Grows(log, log'),
           turn' \in {"idle", "asking", "tools", "answered"}, calls' \in 0 .. MaxCalls,
           (turn' = "tools") = (calls' > 0),
           compacting' \in Seq(Compaction), Len(compacting') <= MaxRunning,
           \A i \in DOMAIN compacting' : Bounds(log, inherited, compacting'[i], TRUE),
           \A n \in Len(log) + 1 .. Len(log') :
              /\ ResultFollows(log', inherited, n)
              /\ log'[n].kind = "end" => Bounds(log, inherited, log'[n], ~log'[n].partial),
           turn' = "tools" => \E a \in OwnIn(log', inherited) : Asked(log', inherited, a)
    PROVE  CompactionInv'
<1> DEFINE L == log
           M == log'
           h == inherited
<1>1. /\ L \in Seq(LogEvent) /\ h \in 0 .. Len(L) /\ compacting \in Seq(Compaction) /\ M \in Seq(LogEvent)
      /\ Len(L) \in Nat /\ Len(M) \in Nat /\ Len(L) <= Len(M)
  BY DEF CompactionInv, CompactionTypeOK, Grows
<1>2. CompactionTypeOK'
  <2>1. h \in 0 .. Len(M)
    BY <1>1
  <2> QED BY <2>1 DEF CompactionTypeOK
<1>3. \A n \in 1 .. h : M[n] = L[n]
  BY <1>1 DEF Grows
<1>4. ASSUME NEW n \in OwnIn(M, h), n \notin OwnIn(L, h) PROVE n \in Len(L) + 1 .. Len(M)
  BY <1>1, <1>4 DEF OwnIn
<1>5. ASSUME NEW n \in OwnIn(M, h) PROVE ResultFollows(M, h, n)
  <2>1. CASE n \in OwnIn(L, h)
    BY <1>1, <2>1, FollowsLater DEF CompactionInv
  <2>2. CASE n \notin OwnIn(L, h)
    BY <1>4, <2>2
  <2> QED BY <2>1, <2>2
<1>6. ASSUME NEW n \in OwnIn(M, h), M[n].kind = "end"
      PROVE  M[n].firstKept < n /\ Bounds(M, h, M[n], ~M[n].partial)
  <2>1. M[n].firstKept \in Nat /\ M[n].partial \in BOOLEAN
    <3>1. M[n] \in LogEvent
      BY <1>1, <1>6 DEF OwnIn
    <3> QED BY <3>1 DEF LogEvent
  <2>2. Bounds(L, h, M[n], ~M[n].partial) /\ M[n].firstKept < n
    <3>1. CASE n \in OwnIn(L, h)
      <4>1. M[n] = L[n]
        BY <1>1, <3>1 DEF OwnIn, Grows
      <4> QED BY <1>6, <3>1, <4>1 DEF CompactionInv
    <3>2. CASE n \notin OwnIn(L, h)
      <4>1. n \in Len(L) + 1 .. Len(M) /\ Bounds(L, h, M[n], ~M[n].partial)
        BY <1>4, <1>6, <3>2
      <4>2. M[n].firstKept <= Len(L)
        BY <1>1, <4>1 DEF Bounds
      <4> QED BY <1>1, <2>1, <4>1, <4>2
    <3> QED BY <3>1, <3>2
  <2>3. Bounds(M, h, M[n], ~M[n].partial)
    <3>1. PICK w \in BOOLEAN : w = ~M[n].partial
      BY <2>1
    <3>2. Bounds(L, h, M[n], w)
      BY <2>2, <3>1
    <3>3. Bounds(M, h, M[n], w)
      BY <1>1, <2>1, <3>2, BoundsLater
    <3> QED BY <3>1, <3>3
  <2> QED BY <2>2, <2>3
<1>7. ASSUME NEW i \in DOMAIN compacting' PROVE Bounds(M, h, compacting'[i], TRUE)
  <2>1. compacting'[i].firstKept \in Nat
    <3>1. compacting'[i] \in Compaction
      OBVIOUS
    <3> QED BY <3>1 DEF Compaction
  <2>2. Bounds(L, h, compacting'[i], TRUE)
    BY <1>7 DEF CompactionInv
  <2> QED BY <1>1, <2>1, <2>2, BoundsLater
<1>8. \A n \in 1 .. h : M[n].kind \notin {"result", "end"}
  BY <1>3 DEF CompactionInv
<1> QED BY <1>2, <1>5, <1>6, <1>7, <1>8 DEF CompactionInv

-----------------------------------------------------------------------------
(* Compaction: the latest boundary, and the cut                            *)

LEMMA LatestEndIs ==
    ASSUME CompactionTypeOK
    PROVE  LatestEnd = 0 \/ LatestEnd \in Ends
<1>1. Len(log) \in Nat /\ inherited \in 0 .. Len(log)
  BY DEF CompactionTypeOK
<1>2. {0} \cup Ends \in SUBSET (0 .. Len(log)) /\ {0} \cup Ends # {}
  BY <1>1 DEF Ends, Own
<1>3. Max({0} \cup Ends) \in {0} \cup Ends
  BY <1>1, <1>2, GreatestOf
<1> QED BY <1>3 DEF LatestEnd

\* What the latest boundary says; without one, everything of the session is shown.
LEMMA BoundaryIs ==
    ASSUME CompactionInv
    PROVE  \/ LatestEnd = 0 /\ OwnShown = Messages \cap Own /\ Covered = {}
           \/ /\ LatestEnd \in OwnIn(log, inherited) /\ log[LatestEnd].kind = "end"
              /\ log[LatestEnd].failed /\ FirstKept = LatestEnd + 1 /\ Covered = {}
              /\ OwnShown = {n \in Messages \cap Own : n >= FirstKept} /\ LatestEnd # 0
           \/ /\ LatestEnd \in OwnIn(log, inherited) /\ log[LatestEnd].kind = "end"
              /\ ~log[LatestEnd].failed /\ FirstKept = log[LatestEnd].firstKept
              /\ Covered = log[LatestEnd].covers /\ Bounds(log, inherited, log[LatestEnd], ~log[LatestEnd].partial)
              /\ OwnShown = {n \in Messages \cap Own : n >= FirstKept} /\ LatestEnd # 0
<1>1. CompactionTypeOK /\ Len(log) \in Nat /\ inherited \in 0 .. Len(log)
  BY DEF CompactionInv, CompactionTypeOK
<1>2. CASE LatestEnd = 0
  BY <1>2 DEF OwnShown, Covered
<1>3. CASE LatestEnd # 0
  <2>1. LatestEnd \in OwnIn(log, inherited) /\ log[LatestEnd].kind = "end"
    BY <1>1, <1>3, LatestEndIs DEF Ends, Own, OwnIn
  <2>2. Bounds(log, inherited, log[LatestEnd], ~log[LatestEnd].partial)
    BY <2>1 DEF CompactionInv
  <2>3. Covered = log[LatestEnd].covers /\ OwnShown = {n \in Messages \cap Own : n >= FirstKept}
    BY <1>3 DEF Covered, OwnShown
  <2>4. CASE log[LatestEnd].failed
    <3>1. log[LatestEnd].firstKept = 0 /\ log[LatestEnd].covers = {}
      BY <2>2, <2>4 DEF Bounds
    <3> QED BY <1>3, <2>1, <2>3, <2>4, <3>1 DEF FirstKept
  <2>5. CASE ~log[LatestEnd].failed
    <3>1. log[LatestEnd].firstKept # 0
      BY <1>1, <2>2, <2>5 DEF Bounds
    <3> QED BY <1>3, <2>1, <2>2, <2>3, <2>5, <3>1 DEF FirstKept
  <2> QED BY <2>4, <2>5
<1> QED BY <1>2, <1>3

LEMMA CutIsValid ==
    ASSUME CompactionTypeOK, NEW S \in SUBSET (DOMAIN log), Before(S, Cut(S)) # {}
    PROVE  Cut(S) \in S /\ ValidCut(Cut(S))
<1> DEFINE cuts == {n \in S : ValidCut(n)}
           full == {n \in S : SizeFrom(S, n) >= KeepRecent}
           later == {n \in cuts : \A m \in full : n >= m}
<1>1. Cut(S) = IF cuts = {} THEN 0
               ELSE IF full = {} THEN Min(cuts)
               ELSE IF later = {} THEN Max(cuts) ELSE Min(later)
  BY DEF Cut
<1>2. cuts \subseteq S /\ later \subseteq cuts /\ \A n \in cuts : ValidCut(n)
  OBVIOUS
<1> HIDE DEF cuts, full, later
<1>3. DOMAIN log = 1 .. Len(log) /\ Len(log) \in Nat
  BY DEF CompactionTypeOK
<1>4. cuts \in SUBSET (0 .. Len(log)) /\ later \in SUBSET Nat /\ cuts \in SUBSET Nat
  BY <1>2, <1>3
<1>5. cuts # {}
  <2>1. ASSUME cuts = {} PROVE FALSE
    <3>1. Cut(S) = 0
      BY <1>1, <2>1
    <3>2. PICK n \in S : n < 0
      BY <3>1 DEF Before
    <3> QED BY <1>3, <3>2
  <2> QED BY <2>1
<1>6. Min(cuts) \in cuts
  BY <1>4, <1>5, LeastOf
<1>7. Max(cuts) \in cuts
  BY <1>3, <1>4, <1>5, GreatestOf
<1>8. later # {} => Min(later) \in later
  BY <1>4, LeastOf
<1>9. Cut(S) \in cuts
  BY <1>1, <1>2, <1>5, <1>6, <1>7, <1>8
<1> QED BY <1>2, <1>9

\* A message of the session that the context neither shows nor summarizes was
\* lost by a compaction that failed, or whose summary was cut short.
LEMMA HiddenIsLost ==
    ASSUME CompactionInv, NEW n \in Messages \cap Own, n \notin OwnShown, n \notin Covered
    PROVE  LostAt(log, inherited, n)
<1>1. Len(log) \in Nat /\ inherited \in 0 .. Len(log)
  BY DEF CompactionInv, CompactionTypeOK
<1>2. n \in OwnIn(log, inherited) /\ log[n].kind # "end" /\ n \in Nat
  BY <1>1 DEF Messages, Own, OwnIn
<1>3. LatestEnd # 0 /\ OwnShown = {m \in Messages \cap Own : m >= FirstKept}
      /\ LatestEnd \in OwnIn(log, inherited) /\ log[LatestEnd].kind = "end"
  BY BoundaryIs
<1>4. ~(n >= FirstKept)
  BY <1>3
<1>5. LatestEnd \in Nat
  BY <1>1, <1>3 DEF OwnIn
<1>6. CASE log[LatestEnd].failed
  <2>1. FirstKept = LatestEnd + 1
    BY <1>3, <1>6, BoundaryIs
  <2>2. n # LatestEnd
    BY <1>2, <1>3
  <2>3. n < LatestEnd
    BY <1>2, <1>4, <1>5, <2>1, <2>2
  <2> QED BY <1>3, <1>6, <2>3 DEF LostAt
<1>7. CASE ~log[LatestEnd].failed
  <2>1. FirstKept = log[LatestEnd].firstKept /\ Covered = log[LatestEnd].covers
        /\ Bounds(log, inherited, log[LatestEnd], ~log[LatestEnd].partial)
    BY <1>3, <1>7, BoundaryIs
  <2>2. FirstKept \in Nat
    BY <1>1, <1>7, <2>1 DEF Bounds
  <2>3. n < log[LatestEnd].firstKept
    BY <1>2, <1>4, <2>1, <2>2
  <2>4. n \notin log[LatestEnd].covers
    BY <2>1
  <2>5. CASE ~log[LatestEnd].partial
    BY <1>2, <1>7, <2>1, <2>3, <2>4, <2>5 DEF Bounds
  <2>6. CASE log[LatestEnd].partial
    <3>1. log[LatestEnd].firstKept < LatestEnd
      BY <1>3 DEF CompactionInv
    <3>2. n < LatestEnd
      BY <1>2, <1>5, <2>1, <2>2, <2>3, <3>1
    <3> QED BY <1>3, <2>6, <3>2 DEF LostAt
  <2> QED BY <2>5, <2>6
<1> QED BY <1>6, <1>7

-----------------------------------------------------------------------------
(* Compaction: the steps                                                   *)

LEMMA MessageIs ==
    ASSUME NEW k \in {"user", "assistant", "result", "notice", "end"},
           NEW size \in Sizes, NEW call \in 0 .. MaxLog
    PROVE  Message(k, size, call) \in LogEvent /\ Message(k, size, call).kind = k
           /\ Message(k, size, call).call = call
<1>1. 0 \in 0 .. MaxLog
  BY CompactionAssumption DEF CompactionAssumption
<1> QED BY <1>1 DEF Message, LogEvent

LEMMA LeastSize == Min(Sizes) \in Sizes
<1>1. Sizes \in SUBSET Nat /\ Sizes # {}
  BY CompactionAssumption DEF CompactionAssumption
<1> QED BY <1>1, LeastOf

LEMMA Appended ==
    ASSUME CompactionTypeOK, NEW events \in Seq(LogEvent),
           log' = log \o events, Len(log) + Len(events) <= MaxLog
    PROVE  /\ log' \in Seq(LogEvent) /\ Len(log') <= MaxLog /\ Grows(log, log')
           /\ Len(log') = Len(log) + Len(events) /\ Len(log) \in Nat /\ Len(events) \in Nat
           /\ \A k \in 1 .. Len(events) : log'[Len(log) + k] = events[k]
<1>1. log \in Seq(LogEvent) /\ log' = log \o events /\ Len(log) + Len(events) <= MaxLog
  BY DEF CompactionTypeOK
<1>2. log' \in Seq(LogEvent) /\ Len(log') = Len(log) + Len(events) /\ Len(log) \in Nat /\ Len(events) \in Nat
  BY <1>1
<1>3. \A n \in 1 .. Len(log) : log'[n] = log[n]
  BY <1>1
<1>4. \A k \in 1 .. Len(events) : log'[Len(log) + k] = events[k]
  BY <1>1
<1> QED BY <1>1, <1>2, <1>3, <1>4 DEF Grows

\* What is said meanwhile leaves the call where it is.
LEMMA AskedLater ==
    ASSUME NEW L \in Seq(LogEvent), NEW M \in Seq(LogEvent), Grows(L, M), NEW h \in 0 .. Len(L),
           NEW a, Asked(L, h, a),
           \A n \in Len(L) + 1 .. Len(M) : M[n].kind \notin {"user", "assistant"}
    PROVE  Asked(M, h, a)
<1>1. Len(L) \in Nat /\ Len(M) \in Nat /\ h \in Nat
  OBVIOUS
<1>2. a \in OwnIn(L, h) /\ L[a].kind = "assistant"
  BY DEF Asked
<1>3. a \in OwnIn(M, h) /\ M[a] = L[a] /\ a \in Nat
  BY <1>1, <1>2 DEF Grows, OwnIn
<1>4. ASSUME NEW m \in a + 1 .. Len(M) PROVE M[m].kind \notin {"user", "assistant"}
  <2>1. CASE m <= Len(L)
    <3>1. m \in a + 1 .. Len(L) /\ m \in 1 .. Len(L)
      BY <1>1, <1>3, <2>1
    <3> QED BY <3>1 DEF Asked, Grows
  <2>2. CASE ~(m <= Len(L))
    <3>1. m \in Len(L) + 1 .. Len(M)
      BY <1>1, <1>3, <2>2
    <3> QED BY <3>1
  <2> QED BY <2>1, <2>2
<1> QED BY <1>2, <1>3, <1>4 DEF Asked

LEMMA PlainMessages ==
    /\ Message("user", Min(Sizes), 0) \in LogEvent /\ Message("user", Min(Sizes), 0).kind = "user"
    /\ Message("notice", Min(Sizes), 0) \in LogEvent /\ Message("notice", Min(Sizes), 0).kind = "notice"
    /\ Message("assistant", Min(Sizes), 0) \in LogEvent
    /\ Message("assistant", Min(Sizes), 0).kind = "assistant"
<1>1. Min(Sizes) \in Sizes /\ 0 \in 0 .. MaxLog
  BY LeastSize, CompactionAssumption DEF CompactionAssumption
<1> QED BY <1>1, MessageIs

\* One event is appended.
LEMMA OneMore ==
    ASSUME CompactionTypeOK, NEW e \in LogEvent, Appends(<<e>>)
    PROVE  /\ log' \in Seq(LogEvent) /\ Len(log') <= MaxLog /\ Grows(log, log') /\ Len(log) \in Nat
           /\ Len(log') = Len(log) + 1 /\ log'[Len(log) + 1] = e
           /\ \A n \in Len(log) + 1 .. Len(log') : n = Len(log) + 1 /\ log'[n] = e
<1>1. PICK s : s = <<e>>
  OBVIOUS
<1>2. s \in Seq(LogEvent) /\ Len(s) = 1 /\ s[1] = e
  BY <1>1
<1>3. log' = log \o s /\ Len(log) + Len(s) <= MaxLog
  BY <1>1 DEF Appends
<1>4. /\ log' \in Seq(LogEvent) /\ Len(log') <= MaxLog /\ Grows(log, log')
      /\ Len(log') = Len(log) + Len(s) /\ Len(log) \in Nat
      /\ \A k \in 1 .. Len(s) : log'[Len(log) + k] = s[k]
  BY <1>2, <1>3, Appended
<1>5. log'[Len(log) + 1] = e /\ Len(log') = Len(log) + 1
  BY <1>2, <1>4
<1>6. \A n \in Len(log) + 1 .. Len(log') : n = Len(log) + 1
  BY <1>4, <1>5
<1> QED BY <1>4, <1>5, <1>6

\* An event is appended that is no result, no answer of the LLM and no boundary.
LEMMA SaidStep ==
    ASSUME CompactionInv, NEW e \in LogEvent, e.kind \in {"user", "notice"}, Appends(<<e>>),
           inherited' = inherited, calls' = calls,
           compacting' \in Seq(Compaction), Len(compacting') <= MaxRunning,
           \A i \in DOMAIN compacting' : Bounds(log, inherited, compacting'[i], TRUE),
           turn' \in {"idle", "asking", "tools", "answered"}, (turn' = "tools") = (calls > 0),
           turn' = "tools" => e.kind = "notice" /\ turn = "tools"
    PROVE  CompactionInv'
<1>1. CompactionTypeOK
  BY DEF CompactionInv
<1>2. /\ log' \in Seq(LogEvent) /\ Len(log') <= MaxLog /\ Grows(log, log') /\ Len(log) \in Nat
      /\ \A n \in Len(log) + 1 .. Len(log') : log'[n] = e
  BY <1>1, OneMore
<1>3. \A n \in Len(log) + 1 .. Len(log') : ResultFollows(log', inherited, n) /\ log'[n].kind # "end"
  BY <1>2 DEF ResultFollows
<1>4. ASSUME turn' = "tools" PROVE \E a \in OwnIn(log', inherited) : Asked(log', inherited, a)
  <2>1. PICK a \in OwnIn(log, inherited) : Asked(log, inherited, a)
    BY <1>4 DEF CompactionInv
  <2>2. log \in Seq(LogEvent) /\ inherited \in 0 .. Len(log)
    BY <1>1 DEF CompactionTypeOK
  <2>3. \A n \in Len(log) + 1 .. Len(log') : log'[n].kind \notin {"user", "assistant"}
    BY <1>2, <1>4
  <2>4. Asked(log', inherited, a)
    BY <1>2, <2>1, <2>2, <2>3, AskedLater
  <2> QED BY <2>4 DEF Asked
<1>5. calls' \in 0 .. MaxCalls /\ (turn' = "tools") = (calls' > 0)
  BY <1>1 DEF CompactionTypeOK
<1> QED BY <1>2, <1>3, <1>4, <1>5, LogStep

LEMMA SameCompactions ==
    ASSUME CompactionInv
    PROVE  /\ compacting \in Seq(Compaction) /\ Len(compacting) <= MaxRunning
           /\ \A i \in DOMAIN compacting : Bounds(log, inherited, compacting[i], TRUE)
           /\ turn \in {"idle", "asking", "tools", "answered"} /\ calls \in 0 .. MaxCalls
           /\ (turn = "tools") = (calls > 0)
           /\ MaxRunning \in Nat /\ Len(compacting) \in Nat
           /\ \A i \in DOMAIN compacting : compacting[i] \in Compaction
<1>1. /\ compacting \in Seq(Compaction) /\ Len(compacting) <= MaxRunning
      /\ turn \in {"idle", "asking", "tools", "answered"} /\ calls \in 0 .. MaxCalls
      /\ (turn = "tools") = (calls > 0)
  BY DEF CompactionInv, CompactionTypeOK
<1>2. \A i \in DOMAIN compacting : Bounds(log, inherited, compacting[i], TRUE)
  BY DEF CompactionInv
<1>3. MaxRunning \in Nat
  BY CompactionAssumption DEF CompactionAssumption
<1>4. Len(compacting) \in Nat /\ \A i \in DOMAIN compacting : compacting[i] \in Compaction
  BY <1>1
<1> QED BY <1>1, <1>2, <1>3, <1>4

\* The compactions under way are marked, and stay what they are.
LEMMA Marked ==
    ASSUME CompactionInv, NEW c, DOMAIN c = DOMAIN compacting,
           \A i \in DOMAIN compacting :
              /\ c[i] \in Compaction /\ c[i].firstKept = compacting[i].firstKept
              /\ c[i].covers = compacting[i].covers /\ c[i].failed = compacting[i].failed,
           c = [i \in DOMAIN compacting |-> c[i]]
    PROVE  /\ c \in Seq(Compaction) /\ Len(c) <= MaxRunning
           /\ \A i \in DOMAIN c : Bounds(log, inherited, c[i], TRUE)
<1>1. compacting \in Seq(Compaction) /\ Len(compacting) <= MaxRunning
      /\ \A i \in DOMAIN compacting : Bounds(log, inherited, compacting[i], TRUE)
  BY SameCompactions
<1>2. DOMAIN compacting = 1 .. Len(compacting) /\ Len(compacting) \in Nat
  BY <1>1
<1>3. c \in [1 .. Len(compacting) -> Compaction]
  BY <1>2
<1>4. c \in Seq(Compaction) /\ Len(c) = Len(compacting)
  BY <1>2, <1>3
<1>5. ASSUME NEW i \in DOMAIN compacting PROVE Bounds(log, inherited, c[i], TRUE)
  BY <1>1 DEF Bounds
<1> QED BY <1>1, <1>4, <1>5

LEMMA PromptStep ==
    ASSUME CompactionInv, Prompt
    PROVE  CompactionInv'
<1>1. compacting \in Seq(Compaction) /\ Len(compacting) <= MaxRunning /\ (turn = "tools") = (calls > 0)
      /\ \A i \in DOMAIN compacting : Bounds(log, inherited, compacting[i], TRUE)
  BY SameCompactions
<1>2. PICK c : c = [i \in DOMAIN compacting |-> [compacting[i] EXCEPT !.current = FALSE]]
  OBVIOUS
<1>3. ASSUME NEW i \in DOMAIN compacting
      PROVE  /\ c[i] \in Compaction /\ c[i].firstKept = compacting[i].firstKept
             /\ c[i].covers = compacting[i].covers /\ c[i].failed = compacting[i].failed
  <2>1. compacting[i] \in Compaction /\ c[i] = [compacting[i] EXCEPT !.current = FALSE]
    BY <1>1, <1>2
  <2> QED BY <2>1 DEF Compaction
<1>4. DOMAIN c = DOMAIN compacting /\ c = [i \in DOMAIN compacting |-> c[i]]
  BY <1>2
<1>6. c \in Seq(Compaction) /\ Len(c) <= MaxRunning /\ \A i \in DOMAIN c : Bounds(log, inherited, c[i], TRUE)
  BY <1>3, <1>4, Marked
<1>7. turn = "idle" /\ turn' = "asking" /\ Appends(<<Message("user", Min(Sizes), 0)>>)
      /\ compacting' = c /\ inherited' = inherited /\ calls' = calls
  BY <1>2 DEF Prompt
<1>10. PICK e : e = Message("user", Min(Sizes), 0)
  OBVIOUS
<1>11. e \in LogEvent /\ e.kind = "user" /\ Appends(<<e>>)
  BY <1>7, <1>10, PlainMessages
<1>8. (turn' = "tools") = (calls > 0)
  BY <1>1, <1>7
<1>9. compacting' \in Seq(Compaction) /\ Len(compacting') <= MaxRunning
      /\ \A i \in DOMAIN compacting' : Bounds(log, inherited, compacting'[i], TRUE)
  BY <1>6, <1>7
<1> QED BY <1>7, <1>8, <1>9, <1>11, SaidStep

LEMMA NoticeStep ==
    ASSUME CompactionInv, Notice
    PROVE  CompactionInv'
<1>1. Appends(<<Message("notice", Min(Sizes), 0)>>) /\ inherited' = inherited /\ turn' = turn
      /\ calls' = calls /\ compacting' = compacting
  BY DEF Notice
<1>2. PICK e : e = Message("notice", Min(Sizes), 0)
  OBVIOUS
<1>3. e \in LogEvent /\ e.kind = "notice" /\ Appends(<<e>>)
  BY <1>1, <1>2, PlainMessages
<1> QED BY <1>1, <1>3, SameCompactions, SaidStep

LEMMA FollowUpStep ==
    ASSUME CompactionInv, FollowUp
    PROVE  CompactionInv'
<1>1. turn = "answered" /\ turn' = "asking" /\ Appends(<<Message("user", Min(Sizes), 0)>>)
      /\ inherited' = inherited /\ calls' = calls /\ compacting' = compacting
  BY DEF FollowUp
<1>2. (turn' = "tools") = (calls > 0)
  BY <1>1, SameCompactions
<1>3. PICK e : e = Message("user", Min(Sizes), 0)
  OBVIOUS
<1>4. e \in LogEvent /\ e.kind = "user" /\ Appends(<<e>>)
  BY <1>1, <1>3, PlainMessages
<1> QED BY <1>1, <1>2, <1>4, SameCompactions, SaidStep

LEMMA AnswerStep ==
    ASSUME CompactionInv, NEW e \in LogEvent, e.kind = "assistant", Appends(<<e>>),
           inherited' = inherited, compacting' = compacting, calls' \in 0 .. MaxCalls,
           turn' \in {"idle", "asking", "tools", "answered"}, (turn' = "tools") = (calls' > 0)
    PROVE  CompactionInv'
<1>1. CompactionTypeOK
  BY DEF CompactionInv
<1>2. /\ log' \in Seq(LogEvent) /\ Len(log') <= MaxLog /\ Grows(log, log') /\ Len(log) \in Nat
      /\ Len(log') = Len(log) + 1 /\ log'[Len(log) + 1] = e
      /\ \A n \in Len(log) + 1 .. Len(log') : log'[n] = e
  BY <1>1, OneMore
<1>3. \A n \in Len(log) + 1 .. Len(log') : ResultFollows(log', inherited, n) /\ log'[n].kind # "end"
  BY <1>2 DEF ResultFollows
<1>4. inherited \in 0 .. Len(log)
  BY <1>1 DEF CompactionTypeOK
<1>5. Len(log') \in OwnIn(log', inherited)
  BY <1>2, <1>4 DEF OwnIn
<1>6. \A m \in Len(log') + 1 .. Len(log') : FALSE
  BY <1>2
<1>7. log'[Len(log')].kind = "assistant"
  BY <1>2
<1>8. Asked(log', inherited, Len(log'))
  BY <1>5, <1>6, <1>7 DEF Asked
<1> QED BY <1>2, <1>3, <1>5, <1>8, SameCompactions, LogStep

LEMMA AssistantStep ==
    ASSUME CompactionInv, NEW k \in 0 .. MaxCalls, Assistant(k)
    PROVE  CompactionInv'
<1>1. turn' = TurnAfter(k) /\ calls' = k /\ Appends(<<Message("assistant", Min(Sizes), 0)>>)
      /\ inherited' = inherited /\ compacting' = compacting
  BY DEF Assistant
<1>2. k \in Nat
  BY CompactionAssumption DEF CompactionAssumption
<1>3. turn' \in {"idle", "asking", "tools", "answered"} /\ (turn' = "tools") = (calls' > 0)
      /\ calls' \in 0 .. MaxCalls
  BY <1>1, <1>2 DEF TurnAfter
<1>4. PICK e : e = Message("assistant", Min(Sizes), 0)
  OBVIOUS
<1>5. e \in LogEvent /\ e.kind = "assistant" /\ Appends(<<e>>)
  BY <1>1, <1>4, PlainMessages
<1> QED BY <1>1, <1>3, <1>5, AnswerStep

\* While tools run, a result names the message that called.
LEMMA CallerIs ==
    ASSUME CompactionTypeOK, NEW a \in OwnIn(log, inherited), Asked(log, inherited, a)
    PROVE  LastAssistant = a
<1>1. Len(log) \in Nat /\ inherited \in 0 .. Len(log) /\ DOMAIN log = 1 .. Len(log)
  BY DEF CompactionTypeOK
<1>2. PICK S : S = {n \in DOMAIN log : log[n].kind = "assistant"}
  OBVIOUS
<1>3. a \in 1 .. Len(log) /\ log[a].kind = "assistant"
  BY <1>1 DEF Asked, OwnIn
<1>4. S \in SUBSET Nat /\ a \in S
  BY <1>1, <1>2, <1>3
<1>5. ASSUME NEW y \in S PROVE a >= y
  <2>1. y \in 1 .. Len(log) /\ log[y].kind = "assistant"
    BY <1>1, <1>2
  <2>2. ~(y \in a + 1 .. Len(log))
    BY <2>1 DEF Asked
  <2> QED BY <1>1, <1>3, <2>1, <2>2
<1>6. Max(S) = a
  BY <1>4, <1>5, GreatestIs
<1> QED BY <1>2, <1>6 DEF LastAssistant

\* A result is appended, and perhaps a notice.
LEMMA AnsweredStep ==
    ASSUME CompactionInv, turn = "tools", NEW a \in OwnIn(log, inherited), Asked(log, inherited, a),
           NEW e \in LogEvent, e.kind = "result", e.call = a, NEW f \in LogEvent, f.kind = "notice",
           Appends(<<e>>) \/ Appends(<<e, f>>),
           inherited' = inherited, compacting' = compacting, calls' \in 0 .. MaxCalls,
           turn' \in {"idle", "asking", "tools", "answered"}, (turn' = "tools") = (calls' > 0)
    PROVE  CompactionInv'
<1>1. CompactionTypeOK
  BY DEF CompactionInv
<1>2. log \in Seq(LogEvent) /\ Len(log) \in Nat /\ inherited \in 0 .. Len(log)
  BY <1>1 DEF CompactionTypeOK
<1>3. a \in 1 .. Len(log) /\ a \in Nat
  BY <1>2 DEF OwnIn
<1>4. /\ log' \in Seq(LogEvent) /\ Len(log') <= MaxLog /\ Grows(log, log') /\ Len(log') \in Nat
      /\ \A n \in Len(log) + 1 .. Len(log') : log'[n] = e \/ log'[n] = f
  <2>1. CASE Appends(<<e>>)
    BY <1>1, <2>1, OneMore
  <2>2. CASE Appends(<<e, f>>)
    <3>1. PICK s : s = <<e, f>>
      OBVIOUS
    <3>2. s \in Seq(LogEvent) /\ Len(s) = 2 /\ s[1] = e /\ s[2] = f
      BY <3>1
    <3>3. log' = log \o s /\ Len(log) + Len(s) <= MaxLog
      BY <2>2, <3>1 DEF Appends
    <3>4. /\ log' \in Seq(LogEvent) /\ Len(log') <= MaxLog /\ Grows(log, log')
          /\ Len(log') = Len(log) + Len(s)
          /\ \A k \in 1 .. Len(s) : log'[Len(log) + k] = s[k]
      BY <1>1, <3>2, <3>3, Appended
    <3>5. log'[Len(log) + 1] = e /\ log'[Len(log) + 2] = f /\ Len(log') = Len(log) + 2
      BY <3>2, <3>4
    <3>6. \A n \in Len(log) + 1 .. Len(log') : n = Len(log) + 1 \/ n = Len(log) + 2
      BY <1>2, <3>5
    <3> QED BY <1>2, <3>4, <3>5, <3>6
  <2> QED BY <2>1, <2>2
<1>5. \A n \in Len(log) + 1 .. Len(log') : log'[n].kind \in {"result", "notice"}
  BY <1>4
<1>6. Asked(log', inherited, a)
  <2>1. \A n \in Len(log) + 1 .. Len(log') : log'[n].kind \notin {"user", "assistant"}
    BY <1>5
  <2> QED BY <1>2, <1>4, <2>1, AskedLater
<1>7. a \in OwnIn(log', inherited) /\ log'[a].kind = "assistant"
      /\ \A m \in a + 1 .. Len(log') : log'[m].kind \notin {"user", "assistant"}
  BY <1>6 DEF Asked
<1>8. ASSUME NEW n \in Len(log) + 1 .. Len(log')
      PROVE  ResultFollows(log', inherited, n)
  <2>1. SUFFICES ASSUME log'[n].kind = "result" PROVE ResultFollows(log', inherited, n)
    BY DEF ResultFollows
  <2>2. log'[n].call = a
    BY <1>4, <2>1
  <2>3. n \in Nat /\ a < n /\ n <= Len(log')
    BY <1>2, <1>3, <1>4
  <2>4. ASSUME NEW m \in a .. n PROVE log'[m].kind # "user"
    <3>1. m = a \/ m \in a + 1 .. Len(log')
      BY <1>3, <1>4, <2>3
    <3> QED BY <1>7, <3>1
  <2> QED BY <1>7, <2>2, <2>3, <2>4 DEF ResultFollows
<1>9. \A n \in Len(log) + 1 .. Len(log') : log'[n].kind # "end"
  BY <1>5
<1> QED BY <1>4, <1>6, <1>7, <1>8, <1>9, SameCompactions, LogStep

LEMMA Joined ==
    ASSUME NEW T, NEW e \in T, NEW f \in T
    PROVE  <<e>> \o <<>> = <<e>> /\ <<e>> \o <<f>> = <<e, f>>
<1>1. <<e>> \in Seq(T) /\ <<f>> \in Seq(T) /\ <<>> \in Seq(T) /\ <<e, f>> \in Seq(T)
  OBVIOUS
<1>2. <<e>> \o <<>> = <<e>>
  BY <1>1
<1>3. <<e>> \o <<f>> = <<e, f>>
  <2>1. PICK s : s = <<e>> \o <<f>>
    OBVIOUS
  <2>2. s \in Seq(T) /\ Len(s) = 2 /\ s[1] = e /\ s[2] = f
    BY <1>1, <2>1
  <2>3. s = <<e, f>>
    BY <2>2
  <2> QED BY <2>1, <2>3
<1> QED BY <1>2, <1>3

LEMMA ResultStep ==
    ASSUME CompactionInv, NEW size \in Sizes, Result(size)
    PROVE  CompactionInv'
<1>1. CompactionTypeOK
  BY DEF CompactionInv
<1>2. /\ turn = "tools" /\ calls' = calls - 1 /\ turn' = IF calls = 1 THEN "asking" ELSE "tools"
      /\ inherited' = inherited /\ compacting' = compacting
  BY DEF Result
<1>3. PICK a \in OwnIn(log, inherited) : Asked(log, inherited, a)
  BY <1>2 DEF CompactionInv
<1>4. LastAssistant = a
  BY <1>1, <1>3, CallerIs
<1>5. calls \in 0 .. MaxCalls /\ calls > 0 /\ MaxCalls \in Nat
  BY <1>1, <1>2, CompactionAssumption DEF CompactionTypeOK, CompactionAssumption
<1>6. calls' \in 0 .. MaxCalls /\ (turn' = "tools") = (calls' > 0)
      /\ turn' \in {"idle", "asking", "tools", "answered"}
  BY <1>2, <1>5
<1>7. a \in 0 .. MaxLog
  BY <1>1, CompactionAssumption DEF OwnIn, CompactionTypeOK, CompactionAssumption
<1>8. PICK e : e = Message("result", size, a)
  OBVIOUS
<1>9. e \in LogEvent /\ e.kind = "result" /\ e.call = a
  BY <1>7, <1>8, MessageIs
<1>10. PICK f : f = Message("notice", Min(Sizes), 0)
  OBVIOUS
<1>11. f \in LogEvent /\ f.kind = "notice"
  BY <1>10, PlainMessages
<1>12. \E notices \in {<<>>, <<f>>} : Appends(<<e>> \o notices)
  BY <1>4, <1>8, <1>10 DEF Result
<1>13. Appends(<<e>>) \/ Appends(<<e, f>>)
  <2>1. <<e>> \o <<>> = <<e>> /\ <<e>> \o <<f>> = <<e, f>>
    BY <1>9, <1>11, Joined
  <2>2. Appends(<<e>> \o <<>>) \/ Appends(<<e>> \o <<f>>)
    BY <1>12 DEF Appends
  <2> QED BY <2>1, <2>2
<1> QED BY <1>2, <1>3, <1>6, <1>9, <1>11, <1>13, AnsweredStep

LEMMA Without ==
    ASSUME NEW T, NEW c \in Seq(T), NEW i \in DOMAIN c
    PROVE  /\ RemoveAt(c, i) \in Seq(T) /\ Len(RemoveAt(c, i)) <= Len(c)
           /\ \A j \in DOMAIN RemoveAt(c, i) : \E k \in DOMAIN c : RemoveAt(c, i)[j] = c[k]
<1>1. i \in 1 .. Len(c) /\ Len(c) \in Nat /\ DOMAIN c = 1 .. Len(c)
  OBVIOUS
<1>2. PICK p : p = SubSeq(c, 1, i - 1)
  OBVIOUS
<1>3. PICK q : q = SubSeq(c, i + 1, Len(c))
  OBVIOUS
<1>4. p \in Seq(T) /\ Len(p) = i - 1 /\ \A j \in 1 .. i - 1 : p[j] = c[j]
  BY <1>1, <1>2
<1>5. q \in Seq(T) /\ Len(q) = Len(c) - i /\ \A j \in 1 .. Len(c) - i : q[j] = c[i + j]
  BY <1>1, <1>3
<1>6. PICK r : r = RemoveAt(c, i)
  OBVIOUS
<1>7. r = p \o q
  BY <1>2, <1>3, <1>6 DEF RemoveAt
<1>11. r \in Seq(T) /\ Len(r) = Len(p) + Len(q)
  <2>1. p \in Seq(T) /\ q \in Seq(T)
    BY <1>4, <1>5
  <2> QED BY <1>7, <2>1
<1>8. r \in Seq(T) /\ Len(r) = Len(p) + Len(q) /\ Len(r) = Len(c) - 1
  <2>1. Len(p) = i - 1 /\ Len(q) = Len(c) - i
    BY <1>4, <1>5
  <2> QED BY <1>1, <1>11, <2>1
<1>9. ASSUME NEW j \in 1 .. Len(r) PROVE \E k \in 1 .. Len(c) : r[j] = c[k]
  <2>1. CASE j <= i - 1
    <3>1. r[j] = p[j] /\ j \in 1 .. i - 1
      BY <1>1, <1>4, <1>5, <1>7, <1>8, <2>1
    <3> QED BY <1>1, <1>4, <3>1
  <2>2. CASE ~(j <= i - 1)
    <3>1. j - (i - 1) \in 1 .. Len(c) - i
      BY <1>1, <1>8, <2>2
    <3>2. r[j] = q[j - (i - 1)]
      <4>1. PICK m : m = j - (i - 1)
        OBVIOUS
      <4>2. m \in 1 .. Len(q) /\ j = Len(p) + m /\ p \in Seq(T) /\ q \in Seq(T)
        BY <1>1, <1>4, <1>5, <3>1, <4>1
      <4>3. (p \o q)[Len(p) + m] = q[m]
        BY <4>2
      <4> QED BY <1>7, <4>1, <4>2, <4>3
    <3>3. r[j] = c[i + (j - (i - 1))] /\ i + (j - (i - 1)) \in 1 .. Len(c)
      BY <1>1, <1>5, <3>1, <3>2
    <3> QED BY <3>3
  <2> QED BY <2>1, <2>2
<1>10. DOMAIN r = 1 .. Len(r)
  BY <1>8
<1> QED BY <1>1, <1>6, <1>8, <1>9, <1>10

\* The log stays as it is.
LEMMA QuietStep ==
    ASSUME CompactionInv, log' = log, inherited' = inherited,
           turn' \in {"idle", "asking", "tools", "answered"}, calls' \in 0 .. MaxCalls,
           (turn' = "tools") = (calls' > 0), turn' = "tools" => turn = "tools",
           compacting' \in Seq(Compaction), Len(compacting') <= MaxRunning,
           \A i \in DOMAIN compacting' : Bounds(log, inherited, compacting'[i], TRUE)
    PROVE  CompactionInv'
<1>1. log \in Seq(LogEvent) /\ Len(log) <= MaxLog /\ Len(log) \in Nat
  BY DEF CompactionInv, CompactionTypeOK
<1>2. log' \in Seq(LogEvent) /\ Len(log') <= MaxLog /\ Grows(log, log')
  BY <1>1 DEF Grows
<1>3. \A n \in Len(log) + 1 .. Len(log') : FALSE
  BY <1>1
<1>4. turn' = "tools" => \E a \in OwnIn(log', inherited) : Asked(log', inherited, a)
  BY DEF CompactionInv
<1> QED BY <1>2, <1>3, <1>4, LogStep

LEMMA EndTurnStep ==
    ASSUME CompactionInv, EndTurn
    PROVE  CompactionInv'
<1>1. turn = "answered" /\ turn' = "idle" /\ log' = log /\ inherited' = inherited /\ calls' = calls
      /\ compacting' = compacting
  BY DEF EndTurn
<1>2. (turn' = "tools") = (calls' > 0)
  BY <1>1, SameCompactions
<1> QED BY <1>1, <1>2, SameCompactions, QuietStep

LEMMA AbortAllStep ==
    ASSUME CompactionInv, AbortAll
    PROVE  CompactionInv'
<1>1. PICK c : c = [i \in DOMAIN compacting |->
                       [compacting[i] EXCEPT !.aborted = @ \/ compacting[i].current]]
  OBVIOUS
<1>2. turn' = "idle" /\ calls' = 0 /\ log' = log /\ inherited' = inherited /\ compacting' = c
  BY <1>1 DEF AbortAll
<1>3. ASSUME NEW i \in DOMAIN compacting
      PROVE  /\ c[i] \in Compaction /\ c[i].firstKept = compacting[i].firstKept
             /\ c[i].covers = compacting[i].covers /\ c[i].failed = compacting[i].failed
  <2>1. PICK d : d = compacting[i]
    OBVIOUS
  <2>2. d \in Compaction
    BY <2>1, SameCompactions
  <2>3. c[i] = [d EXCEPT !.aborted = d.aborted \/ d.current]
    BY <1>1, <2>1
  <2>4. (d.aborted \/ d.current) \in BOOLEAN
    BY ZenonT(10)
  <2> QED BY <2>1, <2>2, <2>3, <2>4 DEF Compaction
<1>4. DOMAIN c = DOMAIN compacting /\ c = [i \in DOMAIN compacting |-> c[i]]
  BY <1>1
<1>5. c \in Seq(Compaction) /\ Len(c) <= MaxRunning /\ \A i \in DOMAIN c : Bounds(log, inherited, c[i], TRUE)
  BY <1>3, <1>4, Marked
<1>6. calls' \in 0 .. MaxCalls /\ (turn' = "tools") = (calls' > 0)
      /\ turn' \in {"idle", "asking", "tools", "answered"} /\ turn' # "tools"
  BY <1>2, CompactionAssumption DEF CompactionAssumption
<1> QED BY <1>2, <1>5, <1>6, QuietStep

\* The cut of what is shown makes a sound boundary.
LEMMA CutBounds ==
    ASSUME CompactionInv, NEW S, S = Compactable, ~NothingToCompact(S), NEW c,
           c.firstKept = Cut(S), c.covers = Summarized(S), ~c.failed
    PROVE  /\ Bounds(log, inherited, c, TRUE)
           /\ c.firstKept \in 0 .. MaxLog /\ c.covers \in SUBSET Seqs
<1>1. /\ CompactionTypeOK /\ log \in Seq(LogEvent) /\ Len(log) \in Nat /\ inherited \in 0 .. Len(log)
      /\ DOMAIN log = 1 .. Len(log) /\ Len(log) <= MaxLog /\ MaxLog \in Nat
  BY CompactionAssumption DEF CompactionInv, CompactionTypeOK, CompactionAssumption
<1>2. /\ Messages = {n \in 1 .. Len(log) : log[n].kind # "end"} /\ Own = OwnIn(log, inherited)
      /\ OwnIn(log, inherited) = inherited + 1 .. Len(log)
  BY <1>1 DEF Messages, Own, OwnIn
<1>3. OwnShown \in SUBSET (Messages \cap Own)
  BY DEF OwnShown
<1>4. S \in SUBSET (1 .. Len(log))
  <2>1. 1 .. inherited \subseteq 1 .. Len(log)
    BY <1>1
  <2>2. OwnShown \subseteq 1 .. Len(log)
    BY <1>2, <1>3
  <2> QED BY <2>1, <2>2 DEF Compactable, Shown
<1>5. Before(S, Cut(S)) # {}
  BY DEF NothingToCompact
<1>6. Cut(S) \in S /\ ValidCut(Cut(S))
  BY <1>1, <1>4, <1>5, CutIsValid
<1>7. Cut(S) \in 1 .. Len(log) /\ log[Cut(S)].kind \in {"user", "notice"}
  BY <1>4, <1>6 DEF ValidCut
<1>8. OwnShown \in SUBSET S
  BY DEF Compactable, Shown
<1>9. \A n \in Covered : n \in 1 .. Len(log) /\ n < Cut(S)
  <2>1. SUFFICES ASSUME NEW n \in Covered PROVE n \in 1 .. Len(log) /\ n < Cut(S)
    OBVIOUS
  <2>2. /\ LatestEnd \in OwnIn(log, inherited) /\ log[LatestEnd].kind = "end" /\ LatestEnd # 0
        /\ ~log[LatestEnd].failed /\ FirstKept = log[LatestEnd].firstKept
        /\ Covered = log[LatestEnd].covers /\ Bounds(log, inherited, log[LatestEnd], ~log[LatestEnd].partial)
        /\ OwnShown = {m \in Messages \cap Own : m >= FirstKept}
    BY <2>1, BoundaryIs
  <2>3. FirstKept \in 1 .. Len(log) /\ n < FirstKept
    BY <2>2 DEF Bounds
  <2>4. Cut(S) >= FirstKept
    <3>1. S = OwnShown
      BY <2>2 DEF Compactable
    <3> QED BY <1>6, <2>2, <3>1
  <2>5. n \in 1 .. MaxLog
    <3>1. log[LatestEnd] \in LogEvent
      BY <1>1, <1>2, <2>2
    <3> QED BY <2>2, <3>1 DEF LogEvent, Seqs
  <2> QED BY <1>1, <1>7, <2>3, <2>4, <2>5
<1>10. \A n \in Before(S, Cut(S)) : n \in 1 .. Len(log) /\ n < Cut(S)
  BY <1>4 DEF Before
<1>11. \A n \in c.covers : n \in 1 .. Len(log) /\ n < Cut(S)
  BY <1>9, <1>10 DEF Summarized
<1>12. c.covers \in SUBSET Seqs /\ c.firstKept \in 0 .. MaxLog
  BY <1>1, <1>7, <1>11 DEF Seqs
<1>13. ASSUME NEW n \in OwnIn(log, inherited), n < Cut(S), log[n].kind # "end", n \notin c.covers
       PROVE  LostAt(log, inherited, n)
  <2>1. n \notin Covered /\ n \notin Before(S, Cut(S))
    BY <1>13 DEF Summarized
  <2>2. n \notin OwnShown
    BY <1>8, <1>13, <2>1 DEF Before
  <2>3. n \in Messages \cap Own
    BY <1>1, <1>2, <1>13
  <2> QED BY <2>1, <2>2, <2>3, HiddenIsLost
<1> QED BY <1>7, <1>11, <1>12, <1>13 DEF Bounds

LEMMA BeginStep ==
    ASSUME CompactionInv, BeginCompaction
    PROVE  CompactionInv'
<1>1. /\ compacting \in Seq(Compaction) /\ Len(compacting) <= MaxRunning /\ MaxRunning \in Nat
      /\ Len(compacting) \in Nat /\ (turn = "tools") = (calls > 0)
      /\ \A i \in DOMAIN compacting : Bounds(log, inherited, compacting[i], TRUE)
      /\ turn \in {"idle", "asking", "tools", "answered"} /\ calls \in 0 .. MaxCalls
  BY SameCompactions
<1>2. PICK c : c = IF NothingToCompact(Compactable) THEN Failure
                   ELSE [firstKept |-> Cut(Compactable),
                         covers |-> Summarized(Compactable), failed |-> FALSE, current |-> TRUE,
                         aborted |-> FALSE]
  OBVIOUS
<1>3. /\ compacting' = Append(compacting, c) /\ Len(compacting) < MaxRunning
      /\ log' = log /\ inherited' = inherited /\ turn' = turn /\ calls' = calls
  BY <1>2 DEF BeginCompaction
<1>4. c \in Compaction /\ Bounds(log, inherited, c, TRUE)
  <2>1. CASE NothingToCompact(Compactable)
    <3>1. c = Failure
      BY <1>2, <2>1
    <3>2. 0 \in 0 .. MaxLog
      BY CompactionAssumption DEF CompactionAssumption
    <3>3. Failure \in Compaction /\ Failure.failed /\ Failure.firstKept = 0 /\ Failure.covers = {}
      BY <3>2 DEF Failure, Compaction
    <3> QED BY <3>1, <3>3 DEF Bounds
  <2>2. CASE ~NothingToCompact(Compactable)
    <3>1. PICK S : S = Compactable
      OBVIOUS
    <3>2. PICK k : k = Cut(S)
      OBVIOUS
    <3>3. PICK s : s = Summarized(S)
      OBVIOUS
    <3>4. c = [firstKept |-> k, covers |-> s, failed |-> FALSE, current |-> TRUE,
                         aborted |-> FALSE]
      BY <1>2, <2>2, <3>1, <3>2, <3>3
    <3>5. c.firstKept = Cut(S) /\ c.covers = Summarized(S) /\ ~c.failed
      BY <3>2, <3>3, <3>4
    <3>6. Bounds(log, inherited, c, TRUE) /\ c.firstKept \in 0 .. MaxLog /\ c.covers \in SUBSET Seqs
      BY <2>2, <3>1, <3>5, CutBounds
    <3>7. k \in 0 .. MaxLog /\ s \in SUBSET Seqs
      BY <3>4, <3>6
    <3>8. c \in Compaction
      BY <3>4, <3>7 DEF Compaction
    <3> QED BY <3>6, <3>8
  <2> QED BY <2>1, <2>2
<1>5. /\ compacting' \in Seq(Compaction) /\ Len(compacting') = Len(compacting) + 1
      /\ \A i \in 1 .. Len(compacting) : compacting'[i] = compacting[i]
      /\ compacting'[Len(compacting) + 1] = c
  BY <1>1, <1>3, <1>4
<1>6. Len(compacting') <= MaxRunning
  BY <1>1, <1>3, <1>5
<1>7. ASSUME NEW i \in DOMAIN compacting' PROVE Bounds(log, inherited, compacting'[i], TRUE)
  <2>1. i \in 1 .. Len(compacting) \/ i = Len(compacting) + 1
    BY <1>1, <1>5
  <2>2. DOMAIN compacting = 1 .. Len(compacting)
    BY <1>1
  <2> QED BY <1>1, <1>4, <1>5, <2>1, <2>2
<1>8. calls' \in 0 .. MaxCalls /\ (turn' = "tools") = (calls' > 0)
      /\ turn' \in {"idle", "asking", "tools", "answered"} /\ (turn' = "tools" => turn = "tools")
  BY <1>1, <1>3
<1> QED BY <1>3, <1>5, <1>6, <1>7, <1>8, QuietStep

\* A sound boundary is appended, and perhaps a compaction is over.
LEMMA BoundaryStep ==
    ASSUME CompactionInv, NEW e \in LogEvent, e.kind = "end", Bounds(log, inherited, e, ~e.partial), Appends(<<e>>),
           inherited' = inherited, turn' = turn, calls' = calls,
           NEW i \in DOMAIN compacting, compacting' = RemoveAt(compacting, i)
    PROVE  CompactionInv'
<1>1. CompactionTypeOK
  BY DEF CompactionInv
<1>2. /\ log' \in Seq(LogEvent) /\ Len(log') <= MaxLog /\ Grows(log, log') /\ Len(log) \in Nat
      /\ \A n \in Len(log) + 1 .. Len(log') : log'[n] = e
  BY <1>1, OneMore
<1>3. ASSUME NEW n \in Len(log) + 1 .. Len(log')
      PROVE  /\ ResultFollows(log', inherited, n) /\ Bounds(log, inherited, log'[n], ~log'[n].partial)
             /\ log'[n].kind \notin {"user", "assistant"}
  <2>1. log'[n] = e
    BY <1>2
  <2> QED BY <2>1 DEF ResultFollows
<1>4. /\ compacting \in Seq(Compaction) /\ Len(compacting) <= MaxRunning /\ MaxRunning \in Nat
      /\ Len(compacting) \in Nat /\ (turn = "tools") = (calls > 0)
      /\ \A j \in DOMAIN compacting : Bounds(log, inherited, compacting[j], TRUE)
      /\ turn \in {"idle", "asking", "tools", "answered"} /\ calls \in 0 .. MaxCalls
  BY SameCompactions
<1>5. /\ compacting' \in Seq(Compaction) /\ Len(compacting') <= Len(compacting)
      /\ \A j \in DOMAIN compacting' : \E k \in DOMAIN compacting : compacting'[j] = compacting[k]
  BY <1>4, Without
<1>6. Len(compacting') \in Nat
  BY <1>5
<1>7. Len(compacting') <= MaxRunning
  BY <1>4, <1>5, <1>6
<1>8. \A j \in DOMAIN compacting' : Bounds(log, inherited, compacting'[j], TRUE)
  BY <1>4, <1>5
<1>9. ASSUME turn' = "tools" PROVE \E a \in OwnIn(log', inherited) : Asked(log', inherited, a)
  <2>1. PICK a \in OwnIn(log, inherited) : Asked(log, inherited, a)
    BY <1>9 DEF CompactionInv
  <2>2. log \in Seq(LogEvent) /\ inherited \in 0 .. Len(log)
    BY <1>1 DEF CompactionTypeOK
  <2>3. Asked(log', inherited, a)
    BY <1>2, <1>3, <2>1, <2>2, AskedLater
  <2> QED BY <2>3 DEF Asked
<1>10. calls' \in 0 .. MaxCalls /\ (turn' = "tools") = (calls' > 0)
       /\ turn' \in {"idle", "asking", "tools", "answered"}
  BY <1>4
<1> QED BY <1>2, <1>3, <1>5, <1>7, <1>8, <1>9, <1>10, LogStep

\* The boundary of a compaction, with any part of what it was to stand for.
LEMMA BoundaryOf ==
    ASSUME CompactionInv, NEW c \in Compaction, Bounds(log, inherited, c, TRUE),
           NEW stands \in SUBSET c.covers
    PROVE  LET e == Boundary(c, stands)
           IN  e \in LogEvent /\ e.kind = "end" /\ Bounds(log, inherited, e, ~e.partial)
<1>1. PICK e : e = Boundary(c, stands)
  OBVIOUS
<1>2. PICK k, b, p : k = c.firstKept /\ b = c.failed /\ p = (stands # c.covers)
  OBVIOUS
<1>3. k \in 0 .. MaxLog /\ stands \in SUBSET Seqs /\ b \in BOOLEAN /\ p \in BOOLEAN /\ 0 \in 0 .. MaxLog
  BY <1>2, CompactionAssumption DEF Compaction, CompactionAssumption
<1>4. e = [kind |-> "end", size |-> 0, call |-> 0, firstKept |-> k, covers |-> stands,
           partial |-> p, failed |-> b]
  BY <1>1, <1>2 DEF Boundary, NoMessage, Message
<1>5. e \in LogEvent
  BY <1>3, <1>4 DEF LogEvent
<1>6. e.kind = "end" /\ e.firstKept = c.firstKept /\ e.covers = stands /\ e.failed = c.failed
      /\ (~e.partial => stands = c.covers)
  BY <1>2, <1>4
<1>7. Bounds(log, inherited, e, ~e.partial)
  <2>1. CASE c.failed
    BY <1>6, <2>1 DEF Bounds
  <2>2. CASE ~c.failed
    BY <1>6, <2>2 DEF Bounds
  <2> QED BY <2>1, <2>2
<1> QED BY <1>1, <1>5, <1>6, <1>7

LEMMA EndStep ==
    ASSUME CompactionInv, NEW i \in DOMAIN compacting, EndCompaction(i)
    PROVE  CompactionInv'
<1>1. compacting' = RemoveAt(compacting, i) /\ inherited' = inherited /\ turn' = turn /\ calls' = calls
  BY DEF EndCompaction
<1>2. Failure \in Compaction /\ Bounds(log, inherited, Failure, TRUE)
  <2>1. 0 \in 0 .. MaxLog
    BY CompactionAssumption DEF CompactionAssumption
  <2>2. Failure \in Compaction /\ Failure.failed /\ Failure.firstKept = 0 /\ Failure.covers = {}
    BY <2>1 DEF Failure, Compaction
  <2> QED BY <2>2 DEF Bounds
<1>3. compacting[i] \in Compaction /\ Bounds(log, inherited, compacting[i], TRUE)
  BY SameCompactions
<1>4. \/ log' = log
      \/ \E c \in {compacting[i], Failure} : \E stands \in SUBSET c.covers : Appends(<<Boundary(c, stands)>>)
  <2>1. CASE CutShort(compacting[i])
    BY <2>1 DEF CutShort
  <2>2. CASE Answered(compacting[i])
    BY <2>2 DEF Answered
  <2> QED BY <2>1, <2>2 DEF EndCompaction
<1>5. CASE log' = log
  <2>1. /\ compacting \in Seq(Compaction) /\ Len(compacting) <= MaxRunning /\ MaxRunning \in Nat
        /\ Len(compacting) \in Nat /\ \A j \in DOMAIN compacting : Bounds(log, inherited, compacting[j], TRUE)
    BY SameCompactions
  <2>2. /\ compacting' \in Seq(Compaction) /\ Len(compacting') <= Len(compacting)
        /\ \A j \in DOMAIN compacting' : \E k \in DOMAIN compacting : compacting'[j] = compacting[k]
    BY <1>1, <2>1, Without
  <2>3. Len(compacting') \in Nat
    BY <2>2
  <2>4. Len(compacting') <= MaxRunning
    BY <2>1, <2>2, <2>3
  <2>5. \A j \in DOMAIN compacting' : Bounds(log, inherited, compacting'[j], TRUE)
    BY <2>1, <2>2
  <2> QED BY <1>1, <1>5, <2>2, <2>4, <2>5, SameCompactions, QuietStep
<1>6. ASSUME NEW c \in {compacting[i], Failure}, NEW stands \in SUBSET c.covers, Appends(<<Boundary(c, stands)>>)
      PROVE  CompactionInv'
  <2>1. c \in Compaction /\ Bounds(log, inherited, c, TRUE)
    BY <1>2, <1>3
  <2>2. PICK e : e = Boundary(c, stands)
    OBVIOUS
  <2>3. e \in LogEvent /\ e.kind = "end" /\ Bounds(log, inherited, e, ~e.partial)
    BY <2>1, <2>2, BoundaryOf
  <2>4. Appends(<<e>>)
    BY <1>6, <2>2
  <2> QED BY <1>1, <2>3, <2>4, BoundaryStep
<1> QED BY <1>4, <1>5, <1>6

LEMMA CompactionInitial ==
    ASSUME CompactionInit
    PROVE  CompactionInv
<1>1. inherited = Len(log) /\ turn = "idle" /\ calls = 0 /\ compacting = <<>>
  BY DEF CompactionInit
<1>2. PICK size \in Sizes : log \in {<<>>, <<Message("user", Min(Sizes), 0), Message("assistant", size, 0)>>}
  BY DEF CompactionInit
<1>3. PICK e : e = Message("user", Min(Sizes), 0)
  OBVIOUS
<1>4. PICK f : f = Message("assistant", size, 0)
  OBVIOUS
<1>5. e \in LogEvent /\ e.kind = "user"
  BY <1>3, PlainMessages
<1>6. f \in LogEvent /\ f.kind = "assistant"
  <2>1. 0 \in 0 .. MaxLog
    BY CompactionAssumption DEF CompactionAssumption
  <2> QED BY <1>4, <2>1, MessageIs
<1>7. log = <<>> \/ log = <<e, f>>
  BY <1>2, <1>3, <1>4
<1> SUFFICES ASSUME NEW L, L = log, L = <<>> \/ L = <<e, f>> PROVE CompactionInv
  BY <1>7
<1>8. L \in Seq(LogEvent) /\ Len(L) \in 0 .. 2 /\ \A n \in 1 .. Len(L) : L[n].kind \in {"user", "assistant"}
  <2>1. CASE L = <<>>
    BY <2>1
  <2>2. CASE L = <<e, f>>
    <3>1. L \in Seq(LogEvent) /\ Len(L) = 2 /\ L[1] = e /\ L[2] = f
      BY <1>5, <1>6, <2>2
    <3>2. \A n \in 1 .. Len(L) : n = 1 \/ n = 2
      BY <3>1
    <3> QED BY <1>5, <1>6, <3>1, <3>2
  <2> QED BY <2>1, <2>2
<1>9. MaxLog \in Nat /\ MaxLog >= 2 /\ MaxCalls \in Nat /\ MaxRunning \in Nat
  BY CompactionAssumption DEF CompactionAssumption
<1>10. CompactionTypeOK
  <2>1. Len(L) <= MaxLog /\ Len(L) \in 0 .. Len(L) /\ 0 \in 0 .. MaxCalls
    BY <1>8, <1>9
  <2>2. compacting \in Seq(Compaction) /\ Len(compacting) = 0 /\ Len(compacting) <= MaxRunning
    BY <1>1, <1>9
  <2>3. (turn = "tools") = (calls > 0)
    BY <1>1
  <2> QED BY <1>1, <1>8, <2>1, <2>2, <2>3 DEF CompactionTypeOK
<1>11. \A n \in OwnIn(log, inherited) : FALSE
  BY <1>1, <1>8 DEF OwnIn
<1>12. \A n \in 1 .. inherited : log[n].kind \notin {"result", "end"}
  BY <1>1, <1>8
<1>13. \A i \in DOMAIN compacting : FALSE
  BY <1>1
<1> QED BY <1>1, <1>10, <1>11, <1>12, <1>13 DEF CompactionInv

LEMMA CompactionStep ==
    ASSUME CompactionInv, [CompactionNext]_compactionVars
    PROVE  CompactionInv'
<1>1. CASE UNCHANGED compactionVars
  <2>1. log' = log /\ inherited' = inherited /\ turn' = turn /\ calls' = calls /\ compacting' = compacting
    BY <1>1 DEF compactionVars
  <2> QED BY <2>1, SameCompactions, QuietStep
<1>2. CASE CompactionNext
  BY <1>2, PromptStep, NoticeStep, FollowUpStep, ResultStep, AssistantStep, BeginStep, EndTurnStep,
     AbortAllStep, EndStep DEF CompactionNext
<1> QED BY <1>1, <1>2

\* What the log says, at any moment, of its boundaries and results.
THEOREM CompactionInvariant == CompactionSpec => []CompactionInv
BY CompactionInitial, CompactionStep, PTL DEF CompactionSpec

LEMMA CompleteIs ==
    ASSUME CompactionInv
    PROVE  ContextComplete
<1>1. /\ CompactionTypeOK /\ log \in Seq(LogEvent) /\ Len(log) \in Nat /\ inherited \in 0 .. Len(log)
      /\ DOMAIN log = 1 .. Len(log)
  BY DEF CompactionInv, CompactionTypeOK
<1>2. /\ Messages = {n \in 1 .. Len(log) : log[n].kind # "end"} /\ Own = OwnIn(log, inherited)
      /\ OwnIn(log, inherited) = inherited + 1 .. Len(log)
  BY <1>1 DEF Messages, Own, OwnIn
<1>3. \A n \in Messages : n \in 1 .. inherited \/ n \in Own
  BY <1>1, <1>2
<1>4. OnlyFailureForgets
  <2>1. SUFFICES ASSUME NEW n \in Forgotten PROVE \E f \in Ends : (log[f].failed \/ log[f].partial) /\ n < f
    BY DEF OnlyFailureForgets
  <2>2. n \in Messages \cap Own /\ n \notin OwnShown /\ n \notin Covered
    BY <1>3 DEF Forgotten, Shown
  <2>3. PICK f \in OwnIn(log, inherited) : log[f].kind = "end" /\ (log[f].failed \/ log[f].partial) /\ n < f
    BY <2>2, HiddenIsLost DEF LostAt
  <2> QED BY <1>2, <2>3 DEF Ends
<1>5. ShownOrSummarized
  <2>1. SUFFICES ASSUME NEW n \in OwnShown, n \in Covered PROVE FALSE
    BY DEF ShownOrSummarized
  <2>2. /\ LatestEnd \in OwnIn(log, inherited) /\ ~log[LatestEnd].failed
        /\ FirstKept = log[LatestEnd].firstKept
        /\ Covered = log[LatestEnd].covers /\ Bounds(log, inherited, log[LatestEnd], ~log[LatestEnd].partial)
        /\ OwnShown = {m \in Messages \cap Own : m >= FirstKept}
    BY <2>1, BoundaryIs
  <2>3. FirstKept \in 1 .. Len(log) /\ n < FirstKept
    BY <2>1, <2>2 DEF Bounds
  <2>4. n >= FirstKept /\ n \in 1 .. Len(log)
    BY <1>2, <2>1, <2>2
  <2> QED BY <1>1, <2>3, <2>4
<1>6. ResultsStayWithCalls
  <2>1. SUFFICES ASSUME NEW n \in Shown, log[n].kind = "result", log[n].call \notin Shown,
                        ~log[LatestEnd].failed
                 PROVE  log[n].call < FirstKept /\ FirstKept < n /\ log[FirstKept].kind = "notice"
    BY DEF ResultsStayWithCalls
  <2>2. n \in OwnShown
    BY <2>1 DEF Shown, CompactionInv
  <2>3. n \in Own /\ n \in Messages
    BY <2>2 DEF OwnShown
  <2>4. ResultFollows(log, inherited, n)
    BY <1>2, <2>3 DEF CompactionInv
  <2>5. PICK a : a = log[n].call
    OBVIOUS
  <2>6. /\ a \in OwnIn(log, inherited) /\ a < n /\ log[a].kind = "assistant"
        /\ \A m \in a .. n : log[m].kind # "user"
    BY <2>1, <2>4, <2>5 DEF ResultFollows
  <2>7. a \in Messages \cap Own /\ a \notin OwnShown
    <3>1. a \in 1 .. Len(log) /\ log[a].kind # "end"
      BY <1>1, <1>2, <2>6
    <3> QED BY <1>2, <2>1, <2>5, <2>6, <3>1 DEF Shown
  <2>8. /\ FirstKept = log[LatestEnd].firstKept /\ Bounds(log, inherited, log[LatestEnd], ~log[LatestEnd].partial)
        /\ OwnShown = {m \in Messages \cap Own : m >= FirstKept}
    BY <2>1, <2>7, BoundaryIs
  <2>9. FirstKept \in 1 .. Len(log) /\ log[FirstKept].kind \in {"user", "notice"}
    BY <2>1, <2>8 DEF Bounds
  <2>10. a < FirstKept /\ FirstKept <= n
    <3>1. ~(a >= FirstKept) /\ n >= FirstKept
      BY <2>2, <2>7, <2>8
    <3>2. a \in 1 .. Len(log) /\ n \in 1 .. Len(log)
      BY <1>2, <2>3, <2>7
    <3> QED BY <1>1, <2>9, <3>1, <3>2
  <2>11. FirstKept # n
    BY <2>1, <2>9
  <2>12. n \in 1 .. Len(log) /\ a \in 1 .. Len(log)
    BY <1>2, <2>3, <2>7
  <2>13. FirstKept \in a .. n /\ FirstKept < n
    BY <1>1, <2>9, <2>10, <2>11, <2>12
  <2>14. log[FirstKept].kind = "notice"
    BY <2>6, <2>9, <2>13
  <2> QED BY <2>5, <2>10, <2>13, <2>14
<1> QED BY <1>4, <1>5, <1>6 DEF ContextComplete

THEOREM ContextAlwaysComplete == CompactionSpec => []ContextComplete
<1>1. CompactionInv => ContextComplete
  BY CompleteIs
<1> QED BY <1>1, CompactionInvariant, PTL

-----------------------------------------------------------------------------
(* Goals: what a choice makes of a view                                    *)

Open(v) == v.goal \in {"planned", "running", "paused"}

\* Nothing waits that could be assigned, and the goal is not yet done.
Rests(v) ==
    /\ Ready(v) = {} \/ Cardinality(Running(v)) >= MaxConcurrency
    /\ ~AllDone(v)

\* The view u is what _tryDispatch makes of w.
Chosen(w, u) ==
    \/ u = w /\ (w.goal \in {"completed", "cancelled"} \/ (Ready(w) = {} /\ ~AllDone(w)))
    \/ u = OnGoal(w, "GOAL_COMPLETED") /\ AllDone(w)
    \/ Ready(w) # {} /\ w.goal # "completed" /\ \E T \in Selected(w) : u = Assigned(w, T)

LEMMA ViewFacts ==
    ASSUME NEW w \in GoalView
    PROVE  /\ w.goal \in GoalStatus /\ w.task \in [GoalTasks -> TaskStatus]
           /\ w = [goal |-> w.goal, task |-> w.task]
           /\ IsFiniteSet(Ready(w)) /\ IsFiniteSet(Running(w))
           /\ Ready(w) \subseteq GoalTasks /\ Running(w) \subseteq GoalTasks
<1>1. w.goal \in GoalStatus /\ w.task \in [GoalTasks -> TaskStatus] /\ w = [goal |-> w.goal, task |-> w.task]
  BY DEF GoalView
<1>2. Ready(w) \subseteq GoalTasks /\ Running(w) \subseteq GoalTasks
  BY DEF Ready, Running
<1>3. IsFiniteSet(GoalTasks)
  BY GoalsAssumption DEF GoalsAssumption
<1>4. IsFiniteSet(Ready(w)) /\ IsFiniteSet(Running(w))
  BY <1>2, <1>3, FS_Subset
<1> QED BY <1>1, <1>2, <1>4

LEMMA SameTasks ==
    ASSUME NEW w, NEW u, u.task = w.task
    PROVE  /\ Ready(u) = Ready(w) /\ Running(u) = Running(w)
           /\ AllDone(u) = AllDone(w) /\ Rests(u) = Rests(w)
<1>1. Ready(u) = Ready(w) /\ Running(u) = Running(w) /\ Created(u) = Created(w)
  BY DEF Ready, Running, Created, Done
<1>2. AllDone(u) = AllDone(w)
  BY <1>1 DEF AllDone, Done
<1> QED BY <1>1, <1>2 DEF Rests

LEMMA OnGoalIs ==
    ASSUME NEW w \in GoalView, NEW type \in DOMAIN GoalAfter
    PROVE  /\ OnGoal(w, type) \in GoalView /\ OnGoal(w, type).task = w.task
           /\ OnGoal(w, type).goal = GoalAfter[type]
BY DEF OnGoal, GoalView, GoalAfter, GoalStatus

LEMMA OnTaskIs ==
    ASSUME NEW w \in GoalView, NEW type \in DOMAIN TaskAfter, NEW t \in GoalTasks,
           w.task[t] # "none" \/ type = "TASK_CREATED"
    PROVE  /\ OnTask(w, type, t) \in GoalView
           /\ OnTask(w, type, t).task = [w.task EXCEPT ![t] = TaskAfter[type]]
           /\ OnTask(w, type, t).goal \in {w.goal, "running"}
           /\ OnTask(w, type, t).goal # w.goal => w.goal = "planned"
<1>1. w.task \in [GoalTasks -> TaskStatus] /\ w.goal \in GoalStatus
  BY ViewFacts
<1>2. TaskAfter[type] \in TaskStatus
  BY DEF TaskAfter, TaskStatus
<1>3. [w.task EXCEPT ![t] = TaskAfter[type]] \in [GoalTasks -> TaskStatus]
  BY <1>1, <1>2
<1>4. PICK f : f = [w.task EXCEPT ![t] = TaskAfter[type]]
  OBVIOUS
<1>5. PICK g : g = IF type = "TASK_STARTED" /\ w.goal = "planned" THEN "running" ELSE w.goal
  OBVIOUS
<1>6. OnTask(w, type, t) = [task |-> f, goal |-> g]
  BY <1>4, <1>5 DEF OnTask
<1>7. g \in GoalStatus /\ g \in {w.goal, "running"} /\ (g # w.goal => w.goal = "planned")
  BY <1>1, <1>5 DEF GoalStatus
<1> QED BY <1>3, <1>4, <1>6, <1>7 DEF GoalView

LEMMA OnTaskView ==
    ASSUME NEW w \in GoalView, NEW type \in DOMAIN TaskAfter, NEW t \in GoalTasks
    PROVE  OnTask(w, type, t) \in GoalView
<1>1. CASE w.task[t] # "none" \/ type = "TASK_CREATED"
  BY <1>1, OnTaskIs
<1>2. CASE ~(w.task[t] # "none" \/ type = "TASK_CREATED")
  BY <1>2 DEF OnTask
<1> QED BY <1>1, <1>2

LEMMA AssignedIs ==
    ASSUME NEW w \in GoalView, NEW T \in SUBSET Ready(w)
    PROVE  LET u == Assigned(w, T)
           IN  /\ u \in GoalView /\ u.goal = w.goal
               /\ \A t \in GoalTasks : u.task[t] = IF t \in T THEN "assigned" ELSE w.task[t]
               /\ Ready(u) = Ready(w) \ T /\ Running(u) = Running(w) \cup T
               /\ Running(w) \cap T = {} /\ \A t \in GoalTasks : Done(u, t) = Done(w, t)
<1>1. w.task \in [GoalTasks -> TaskStatus] /\ w.goal \in GoalStatus
  BY ViewFacts
<1>2. PICK u : u = Assigned(w, T)
  OBVIOUS
<1>3. PICK f : f = [t \in GoalTasks |-> IF t \in T THEN "assigned" ELSE w.task[t]]
  OBVIOUS
<1>4. u = [w EXCEPT !.task = f]
  BY <1>2, <1>3 DEF Assigned
<1>5. f \in [GoalTasks -> TaskStatus]
  BY <1>1, <1>3 DEF TaskStatus
<1>6. u \in GoalView /\ u.goal = w.goal /\ u.task = f
  BY <1>4, <1>5 DEF GoalView
<1>7. \A t \in GoalTasks : u.task[t] = IF t \in T THEN "assigned" ELSE w.task[t]
  BY <1>3, <1>6
<1>8. \A t \in T : t \in GoalTasks /\ w.task[t] = "created"
  BY DEF Ready
<1>9. \A t \in GoalTasks : Done(u, t) = Done(w, t)
  BY <1>7, <1>8 DEF Done
<1>10. DependsOn \in [GoalTasks -> SUBSET GoalTasks]
  BY GoalsAssumption DEF GoalsAssumption
<1>11. Ready(u) = Ready(w) \ T
  <2>1. ASSUME NEW t \in GoalTasks PROVE (t \in Ready(u)) = (t \in Ready(w) /\ t \notin T)
    <3>1. (u.task[t] = "created") = (w.task[t] = "created" /\ t \notin T)
      BY <1>7
    <3>2. (\A d \in DependsOn[t] : Done(u, d)) = (\A d \in DependsOn[t] : Done(w, d))
      BY <1>9, <1>10
    <3> QED BY <3>1, <3>2 DEF Ready
  <2>2. Ready(u) \subseteq GoalTasks /\ Ready(w) \subseteq GoalTasks
    BY DEF Ready
  <2> QED BY <2>1, <2>2
<1>12. Running(u) = Running(w) \cup T /\ Running(w) \cap T = {}
  BY <1>7, <1>8 DEF Running
<1> QED BY <1>2, <1>6, <1>7, <1>9, <1>11, <1>12

\* How many are selected.
LEMMA SelectedIs ==
    ASSUME NEW w \in GoalView, NEW T \in Selected(w)
    PROVE  /\ T \in SUBSET Ready(w) /\ IsFiniteSet(T)
           /\ Cardinality(T) \in Nat /\ Cardinality(Running(w)) \in Nat /\ MaxConcurrency \in Nat
           /\ \/ Cardinality(T) = 0 /\ Cardinality(Running(w)) > MaxConcurrency
              \/ Cardinality(Running(w)) + Cardinality(T) = MaxConcurrency
              \/ T = Ready(w) /\ Cardinality(Running(w)) + Cardinality(T) <= MaxConcurrency
<1>1. IsFiniteSet(Ready(w)) /\ IsFiniteSet(Running(w)) /\ MaxConcurrency \in Nat
  BY ViewFacts, GoalsAssumption DEF GoalsAssumption
<1>2. T \in SUBSET Ready(w)
  BY DEF Selected
<1>3. IsFiniteSet(T)
  BY <1>1, <1>2, FS_Subset
<1>4. PICK r : r = Cardinality(Running(w))
  OBVIOUS
<1>5. PICK k : k = Cardinality(Ready(w))
  OBVIOUS
<1>6. PICK n : n = Cardinality(T)
  OBVIOUS
<1>7. r \in Nat /\ k \in Nat /\ n \in Nat
  BY <1>1, <1>3, <1>4, <1>5, <1>6, FS_CardinalityType
<1>8. n = LET slots == MaxConcurrency - r
          IN  IF slots < 0 THEN 0 ELSE IF slots < k THEN slots ELSE k
  BY <1>4, <1>5, <1>6 DEF Selected
<1>9. n = k => T = Ready(w)
  BY <1>1, <1>2, <1>5, <1>6, FS_Subset
<1>10. \/ n = 0 /\ r > MaxConcurrency
       \/ r + n = MaxConcurrency
       \/ n = k /\ r + n <= MaxConcurrency
  BY <1>1, <1>7, <1>8
<1> QED BY <1>1, <1>2, <1>3, <1>4, <1>6, <1>7, <1>9, <1>10

LEMMA ChosenRests ==
    ASSUME NEW w \in GoalView, NEW u, Chosen(w, u)
    PROVE  u \in GoalView /\ (Open(u) => Rests(u))
<1>1. CASE u = w /\ (w.goal \in {"completed", "cancelled"} \/ (Ready(w) = {} /\ ~AllDone(w)))
  BY <1>1 DEF Open, Rests
<1>2. CASE u = OnGoal(w, "GOAL_COMPLETED")
  <2>1. "GOAL_COMPLETED" \in DOMAIN GoalAfter /\ GoalAfter["GOAL_COMPLETED"] = "completed"
    BY DEF GoalAfter
  <2>2. u \in GoalView /\ u.goal = "completed"
    BY <1>2, <2>1, OnGoalIs
  <2> QED BY <2>2 DEF Open
<1>3. ASSUME NEW T \in Selected(w), u = Assigned(w, T), Ready(w) # {}
      PROVE  u \in GoalView /\ Rests(u)
  <2>1. /\ T \in SUBSET Ready(w) /\ IsFiniteSet(T)
        /\ Cardinality(T) \in Nat /\ Cardinality(Running(w)) \in Nat /\ MaxConcurrency \in Nat
        /\ \/ Cardinality(T) = 0 /\ Cardinality(Running(w)) > MaxConcurrency
           \/ Cardinality(Running(w)) + Cardinality(T) = MaxConcurrency
           \/ T = Ready(w) /\ Cardinality(Running(w)) + Cardinality(T) <= MaxConcurrency
    BY SelectedIs
  <2>2. /\ u \in GoalView
        /\ \A t \in GoalTasks : u.task[t] = IF t \in T THEN "assigned" ELSE w.task[t]
        /\ Ready(u) = Ready(w) \ T /\ Running(u) = Running(w) \cup T
        /\ Running(w) \cap T = {}
    BY <1>3, <2>1, AssignedIs
  <2>3. Cardinality(Running(u)) = Cardinality(Running(w)) + Cardinality(T)
    <3>1. IsFiniteSet(Running(w))
      BY ViewFacts
    <3>2. Cardinality(Running(w) \cup T)
             = Cardinality(Running(w)) + Cardinality(T) - Cardinality(Running(w) \cap T)
      BY <2>1, <3>1, FS_Union
    <3>3. Cardinality(Running(w) \cap T) = 0
      BY <2>2, FS_EmptySet
    <3> QED BY <2>1, <2>2, <3>2, <3>3
  <2>4. Ready(u) = {} \/ Cardinality(Running(u)) >= MaxConcurrency
    <3>1. CASE T = Ready(w)
      BY <2>2, <3>1
    <3>2. CASE ~(T = Ready(w))
      BY <2>1, <2>3, <3>2
    <3> QED BY <3>1, <3>2
  <2>5. ~AllDone(u)
    <3>1. PICK t \in Ready(w) : TRUE
      BY <1>3
    <3>2. t \in GoalTasks /\ w.task[t] = "created"
      BY <3>1 DEF Ready
    <3>3. u.task[t] \in {"created", "assigned"}
      BY <2>2, <3>2
    <3>4. t \in Created(u) /\ ~Done(u, t) /\ u.task[t] # "cancelled"
      BY <3>2, <3>3 DEF Created, Done
    <3> QED BY <3>4 DEF AllDone
  <2> QED BY <2>2, <2>4, <2>5 DEF Rests
<1> QED BY <1>1, <1>2, <1>3 DEF Chosen

LEMMA ChosenInTurn ==
    ASSUME NEW w \in GoalView, NEW u, Chosen(w, u)
    PROVE  /\ \A t \in GoalTasks : u.task[t] = "assigned" /\ w.task[t] # "assigned" =>
                 /\ w.task[t] = "created" /\ \A d \in DependsOn[t] : Done(u, d)
                 /\ Cardinality(Running(u)) <= MaxConcurrency
           /\ u.goal = "completed" /\ w.goal # "completed" => AllDone(u)
<1>1. CASE u = w
  BY <1>1
<1>2. CASE u = OnGoal(w, "GOAL_COMPLETED") /\ AllDone(w)
  <2>1. "GOAL_COMPLETED" \in DOMAIN GoalAfter
    BY DEF GoalAfter
  <2>2. u.task = w.task
    BY <1>2, <2>1, OnGoalIs
  <2>3. AllDone(u)
    BY <1>2, <2>2, SameTasks
  <2> QED BY <2>2, <2>3
<1>3. ASSUME NEW T \in Selected(w), u = Assigned(w, T), w.goal # "completed"
      PROVE  /\ \A t \in GoalTasks : u.task[t] = "assigned" /\ w.task[t] # "assigned" =>
                   /\ w.task[t] = "created" /\ \A d \in DependsOn[t] : Done(u, d)
                   /\ Cardinality(Running(u)) <= MaxConcurrency
             /\ u.goal # "completed"
  <2>1. /\ T \in SUBSET Ready(w) /\ IsFiniteSet(T)
        /\ Cardinality(T) \in Nat /\ Cardinality(Running(w)) \in Nat /\ MaxConcurrency \in Nat
        /\ \/ Cardinality(T) = 0 /\ Cardinality(Running(w)) > MaxConcurrency
           \/ Cardinality(Running(w)) + Cardinality(T) = MaxConcurrency
           \/ T = Ready(w) /\ Cardinality(Running(w)) + Cardinality(T) <= MaxConcurrency
    BY SelectedIs
  <2>2. /\ u.goal = w.goal
        /\ \A t \in GoalTasks : u.task[t] = IF t \in T THEN "assigned" ELSE w.task[t]
        /\ Running(u) = Running(w) \cup T /\ Running(w) \cap T = {}
        /\ \A t \in GoalTasks : Done(u, t) = Done(w, t)
    BY <1>3, <2>1, AssignedIs
  <2>3. Cardinality(Running(u)) = Cardinality(Running(w)) + Cardinality(T)
    <3>1. IsFiniteSet(Running(w))
      BY ViewFacts
    <3>2. Cardinality(Running(w) \cup T)
             = Cardinality(Running(w)) + Cardinality(T) - Cardinality(Running(w) \cap T)
      BY <2>1, <3>1, FS_Union
    <3>3. Cardinality(Running(w) \cap T) = 0
      BY <2>2, FS_EmptySet
    <3> QED BY <2>1, <2>2, <3>2, <3>3
  <2>4. ASSUME NEW t \in GoalTasks, u.task[t] = "assigned", w.task[t] # "assigned"
        PROVE  /\ w.task[t] = "created" /\ \A d \in DependsOn[t] : Done(u, d)
               /\ Cardinality(Running(u)) <= MaxConcurrency
    <3>1. t \in T
      BY <2>2, <2>4
    <3>2. w.task[t] = "created" /\ \A d \in DependsOn[t] : Done(w, d)
      BY <2>1, <3>1 DEF Ready
    <3>3. \A d \in DependsOn[t] : Done(u, d)
      BY <2>2, <3>2, GoalsAssumption DEF GoalsAssumption
    <3>4. Cardinality(T) # 0
      BY <2>1, <3>1, FS_EmptySet
    <3>5. Cardinality(Running(u)) <= MaxConcurrency
      BY <2>1, <2>3, <3>4
    <3> QED BY <3>2, <3>3, <3>5
  <2> QED BY <1>3, <2>2, <2>4
<1> QED BY <1>1, <1>2, <1>3 DEF Chosen

-----------------------------------------------------------------------------
(* Goals: the steps                                                        *)

\* A scheduler that has missed nothing sees what the log says; if it has heard
\* the last event, nothing waits, whether or not it is still subscribed.
GoalsInv ==
    /\ GoalsTypeOK
    /\ ~deaf => projected = inLog
    /\ ~deaf /\ ~unheard /\ Open(inLog) => Rests(inLog)

LEMMA DispatchChosen ==
    ASSUME NEW w \in GoalView, NEW v \in GoalView, watching \in BOOLEAN, Dispatch(w, v)
    PROVE  /\ inLog' \in GoalView /\ projected' \in GoalView
           /\ v = w => Chosen(w, inLog') /\ projected' = IF watching THEN inLog' ELSE v
<1>1. CASE /\ v.goal \in {"completed", "cancelled"} \/ (Ready(v) = {} /\ ~AllDone(v))
           /\ inLog' = w /\ projected' = v
  BY <1>1 DEF Chosen
<1>2. CASE /\ ~(v.goal \in {"completed", "cancelled"} \/ (Ready(v) = {} /\ ~AllDone(v))) /\ Ready(v) = {}
           /\ inLog' = OnGoal(w, "GOAL_COMPLETED")
           /\ projected' = IF watching THEN OnGoal(v, "GOAL_COMPLETED") ELSE v
  <2>1. "GOAL_COMPLETED" \in DOMAIN GoalAfter
    BY DEF GoalAfter
  <2>2. OnGoal(w, "GOAL_COMPLETED") \in GoalView /\ OnGoal(v, "GOAL_COMPLETED") \in GoalView
    BY <2>1, OnGoalIs
  <2>3. AllDone(v)
    BY <1>2
  <2> QED BY <1>2, <2>2, <2>3 DEF Chosen
<1>3. ASSUME NEW T \in Selected(v), inLog' = Assigned(w, T),
             projected' = IF watching THEN Assigned(v, T) ELSE v,
             ~(v.goal \in {"completed", "cancelled"} \/ (Ready(v) = {} /\ ~AllDone(v))), Ready(v) # {}
      PROVE  /\ inLog' \in GoalView /\ projected' \in GoalView
             /\ v = w => Chosen(w, inLog') /\ projected' = IF watching THEN inLog' ELSE v
  <2>1. ASSUME NEW x \in GoalView PROVE Assigned(x, T) \in GoalView
    <3>1. PICK f : f = [t \in GoalTasks |-> IF t \in T THEN "assigned" ELSE x.task[t]]
      OBVIOUS
    <3>2. f \in [GoalTasks -> TaskStatus]
      BY <3>1 DEF GoalView, TaskStatus
    <3>3. Assigned(x, T) = [x EXCEPT !.task = f]
      BY <3>1 DEF Assigned
    <3> QED BY <3>2, <3>3 DEF GoalView
  <2>2. Assigned(w, T) \in GoalView /\ Assigned(v, T) \in GoalView
    BY <2>1
  <2>3. v.goal # "completed"
    BY <1>3
  <2> QED BY <1>3, <2>2, <2>3 DEF Chosen
<1> QED BY <1>1, <1>2, <1>3 DEF Dispatch

\* An event from outside assigns nothing and completes no goal; one that the
\* scheduler answers creates no task either.
Plain(type, after) ==
    /\ \A t \in GoalTasks : after.task[t] = "assigned" => inLog.task[t] = "assigned"
    /\ type \in Listened => \A t \in GoalTasks : after.task[t] = "created" => inLog.task[t] = "created"
    /\ after.goal = "completed" => inLog.goal = "completed"

\* One that it does not answer leaves nothing waiting.
Unanswered(type, after, known) ==
    (type \in Listened => ~known) /\ type \notin Ignored /\ Open(after) /\ (Open(inLog) => Rests(inLog))
        => Rests(after)

LEMMA AssignedOnlyBy ==
    ASSUME NEW after \in GoalView, inLog' = after, NEW type, Plain(type, after)
    PROVE  AssignedInTurn
<1>1. {t \in GoalTasks : inLog.task[t] # "assigned" /\ inLog'.task[t] = "assigned"} = {}
  BY DEF Plain
<1>2. ~(inLog.goal # "completed" /\ inLog'.goal = "completed")
  BY DEF Plain
<1> QED BY <1>1, <1>2 DEF AssignedInTurn

LEMMA ChosenOnlyBy ==
    ASSUME NEW after \in GoalView, Chosen(after, inLog'), NEW type \in Listened, Plain(type, after)
    PROVE  AssignedInTurn
<1>1. PICK u : u = inLog'
  OBVIOUS
<1>2. /\ \A t \in GoalTasks : u.task[t] = "assigned" /\ after.task[t] # "assigned" =>
                 /\ after.task[t] = "created" /\ \A d \in DependsOn[t] : Done(u, d)
                 /\ Cardinality(Running(u)) <= MaxConcurrency
      /\ u.goal = "completed" /\ after.goal # "completed" => AllDone(u)
  BY <1>1, ChosenInTurn
<1>3. ASSUME NEW t \in GoalTasks, inLog.task[t] # "assigned", u.task[t] = "assigned"
      PROVE  /\ inLog.task[t] = "created" /\ \A d \in DependsOn[t] : Done(u, d)
             /\ Cardinality(Running(u)) <= MaxConcurrency
  BY <1>2, <1>3 DEF Plain
<1>4. inLog.goal # "completed" /\ u.goal = "completed" => AllDone(u)
  BY <1>2 DEF Plain
<1>5. PICK new : new = {t \in GoalTasks : inLog.task[t] # "assigned" /\ u.task[t] = "assigned"}
  OBVIOUS
<1>6. /\ \A t \in new : inLog.task[t] = "created" /\ \A d \in DependsOn[t] : Done(u, d)
      /\ new # {} => Cardinality(Running(u)) <= MaxConcurrency
  BY <1>3, <1>5
<1> QED BY <1>1, <1>4, <1>5, <1>6 DEF AssignedInTurn

LEMMA EventStep ==
    ASSUME GoalsInv, NEW type, NEW after \in GoalView, NEW v \in GoalView, NEW known \in BOOLEAN,
           projected = inLog => v = after, Plain(type, after), ~deaf => Unanswered(type, after, known),
           AppendEvent(type, after, v, known)
    PROVE  GoalsInv' /\ AssignedInTurn
<1>1. /\ goalEvents < MaxGoalEvents /\ goalEvents' = goalEvents + 1 /\ watching' = watching
      /\ goalEvents \in 0 .. MaxGoalEvents /\ MaxGoalEvents \in Nat
      /\ watching \in BOOLEAN /\ deaf \in BOOLEAN /\ unheard \in BOOLEAN
      /\ projected \in GoalView
  BY GoalsAssumption DEF GoalsInv, GoalsTypeOK, AppendEvent, GoalsAssumption
<1>2. goalEvents' \in 0 .. MaxGoalEvents
  BY <1>1
<1>3. CASE ~watching
  <2>1. inLog' = after /\ deaf' = TRUE /\ projected' = projected /\ unheard' = unheard
    BY <1>3 DEF AppendEvent
  <2>2. AssignedInTurn
    BY <2>1, AssignedOnlyBy
  <2> QED BY <1>1, <1>2, <2>1, <2>2 DEF GoalsInv, GoalsTypeOK
<1>4. CASE watching /\ type \in Listened /\ known
  <2>1. Dispatch(after, v) /\ unheard' = FALSE /\ deaf' = deaf
    BY <1>4 DEF AppendEvent
  <2>2. /\ inLog' \in GoalView /\ projected' \in GoalView
        /\ v = after => Chosen(after, inLog') /\ projected' = IF watching THEN inLog' ELSE v
    BY <1>1, <2>1, DispatchChosen
  <2>3. CASE deaf
    <3>1. AssignedInTurn
      BY <2>3 DEF AssignedInTurn
    <3> QED BY <1>1, <1>2, <2>1, <2>2, <2>3, <3>1 DEF GoalsInv, GoalsTypeOK
  <2>4. CASE ~deaf
    <3>1. v = after
      BY <2>4 DEF GoalsInv
    <3>2. Chosen(after, inLog') /\ projected' = inLog'
      BY <1>4, <2>2, <3>1
    <3>3. PICK u : u = inLog'
      OBVIOUS
    <3>4. Open(u) => Rests(u)
      BY <3>2, <3>3, ChosenRests
    <3>5. (Open(inLog) => Rests(inLog))'
      BY <3>3, <3>4 DEF Open, Rests, Ready, Running, AllDone, Created, Done
    <3>6. AssignedInTurn
      BY <1>4, <3>2, ChosenOnlyBy
    <3> QED BY <1>1, <1>2, <2>1, <2>2, <3>2, <3>5, <3>6 DEF GoalsInv, GoalsTypeOK
  <2> QED BY <2>3, <2>4
<1>5. CASE watching /\ ~(type \in Listened /\ known)
  <2>1. inLog' = after /\ projected' = v /\ deaf' = deaf /\ unheard' = (unheard \/ type \in Ignored)
    BY <1>5 DEF AppendEvent
  <2>2. AssignedInTurn
    BY <2>1, AssignedOnlyBy
  <2>3. ASSUME ~deaf', ~unheard', Open(after) PROVE Rests(after)
    <3>1. Open(inLog) => Rests(inLog)
      BY <2>1, <2>3 DEF GoalsInv
    <3> QED BY <1>5, <2>1, <2>3, <3>1 DEF Unanswered
  <2>4. (~deaf /\ ~unheard /\ Open(inLog) => Rests(inLog))'
    BY <2>1, <2>3 DEF Open, Rests, Ready, Running, AllDone, Created, Done
  <2>5. ~deaf' => projected' = inLog'
    BY <2>1 DEF GoalsInv
  <2>6. GoalsTypeOK'
    BY <1>1, <1>2, <2>1 DEF GoalsTypeOK
  <2> QED BY <2>2, <2>4, <2>5, <2>6 DEF GoalsInv
<1> QED BY <1>1, <1>3, <1>4, <1>5

LEMMA GoalEventStep ==
    ASSUME GoalsInv, NEW type \in {"GOAL_PLANNED", "GOAL_PAUSED", "GOAL_RESUMED", "GOAL_CANCELLED"},
           type \notin {"GOAL_PLANNED", "GOAL_CANCELLED"} => Open(inLog), GoalEventAppended(type)
    PROVE  GoalsInv' /\ AssignedInTurn
<1>1. type \in DOMAIN GoalAfter /\ GoalAfter[type] # "completed"
  BY DEF GoalAfter
<1>2. inLog \in GoalView /\ projected \in GoalView
  BY DEF GoalsInv, GoalsTypeOK
<1>3. PICK after : after = OnGoal(inLog, type)
  OBVIOUS
<1>4. PICK v : v = OnGoal(projected, type)
  OBVIOUS
<1>5. after \in GoalView /\ after.task = inLog.task /\ after.goal = GoalAfter[type] /\ v \in GoalView
  BY <1>1, <1>2, <1>3, <1>4, OnGoalIs
<1>6. Plain(type, after)
  BY <1>1, <1>5 DEF Plain
<1>7. type = "GOAL_PLANNED" => type \in Listened
  BY DEF Listened
<1>8. type = "GOAL_CANCELLED" => ~Open(after)
  BY <1>5 DEF Open, GoalAfter
<1>9. Rests(after) = Rests(inLog)
  BY <1>5, SameTasks
<1>10. Unanswered(type, after, TRUE)
  BY <1>7, <1>8, <1>9 DEF Unanswered
<1>11. AppendEvent(type, after, v, TRUE)
  BY <1>3, <1>4 DEF GoalEventAppended
<1> QED BY <1>3, <1>4, <1>5, <1>6, <1>10, <1>11, EventStep

\* An event that leaves a task at work, or to be worked on again.
LEMMA StaysBusy ==
    ASSUME NEW w \in GoalView, NEW t \in GoalTasks, w.task[t] \notin {"none", "created"}, NEW u \in GoalView,
           NEW type \in {"TASK_STARTED", "TASK_PROGRESS", "TASK_REWORK_REQUESTED"},
           u.task = [w.task EXCEPT ![t] = TaskAfter[type]],
           type = "TASK_REWORK_REQUESTED" => w.task[t] = "completed", Rests(w)
    PROVE  Rests(u)
<1>1. w.task \in [GoalTasks -> TaskStatus]
  BY ViewFacts
<1>2. TaskAfter[type] \in {"started", "in_progress", "rework"}
      /\ (type # "TASK_REWORK_REQUESTED" => TaskAfter[type] \in {"started", "in_progress"})
  BY DEF TaskAfter
<1>3. u.task[t] = TaskAfter[type] /\ \A s \in GoalTasks : s # t => u.task[s] = w.task[s]
  BY <1>1
<1>4. ~AllDone(u)
  <2>1. t \in Created(u) /\ ~Done(u, t) /\ u.task[t] # "cancelled"
    BY <1>2, <1>3 DEF Created, Done
  <2> QED BY <2>1 DEF AllDone
<1>5. Ready(u) \subseteq Ready(w)
  <2>1. SUFFICES ASSUME NEW s \in Ready(u) PROVE s \in Ready(w)
    OBVIOUS
  <2>2. s \in GoalTasks /\ u.task[s] = "created" /\ \A d \in DependsOn[s] : Done(u, d)
    BY <2>1 DEF Ready
  <2>3. s # t
    BY <1>2, <1>3, <2>2
  <2>4. \A d \in GoalTasks : Done(u, d) => Done(w, d)
    BY <1>2, <1>3 DEF Done
  <2>5. \A d \in DependsOn[s] : d \in GoalTasks
    BY <2>2, GoalsAssumption DEF GoalsAssumption
  <2> QED BY <1>3, <2>2, <2>3, <2>4, <2>5 DEF Ready
<1>6. Running(w) \subseteq Running(u)
  <2>1. SUFFICES ASSUME NEW s \in Running(w) PROVE s \in Running(u)
    OBVIOUS
  <2>2. s \in GoalTasks /\ w.task[s] \in {"assigned", "started", "in_progress"}
    BY <2>1 DEF Running
  <2>3. CASE s # t
    BY <1>3, <2>2, <2>3 DEF Running
  <2>4. CASE s = t
    BY <1>2, <1>3, <2>2, <2>4 DEF Running
  <2> QED BY <2>3, <2>4
<1>7. Cardinality(Running(w)) <= Cardinality(Running(u))
  <2>1. IsFiniteSet(Running(u))
    BY ViewFacts
  <2> QED BY <1>6, <2>1, FS_Subset
<1>8. Cardinality(Running(w)) \in Nat /\ Cardinality(Running(u)) \in Nat /\ MaxConcurrency \in Nat
  BY ViewFacts, FS_CardinalityType, GoalsAssumption DEF GoalsAssumption
<1> QED BY <1>4, <1>5, <1>7, <1>8 DEF Rests

LEMMA TaskEventStep ==
    ASSUME GoalsInv, NEW t \in GoalTasks,
           NEW type \in {"TASK_CREATED", "TASK_STARTED", "TASK_PROGRESS", "TASK_COMPLETED", "TASK_FAILED",
                         "TASK_ACCEPTED", "TASK_REWORK_REQUESTED", "TASK_CANCELLED"},
           type \notin {"TASK_CREATED", "TASK_CANCELLED"} => inLog.task[t] \notin {"none", "created"},
           type = "TASK_CANCELLED" => inLog.task[t] # "none",
           type = "TASK_REWORK_REQUESTED" => inLog.task[t] = "completed",
           TaskEventAppended(type, t)
    PROVE  GoalsInv' /\ AssignedInTurn
<1>1. type \in DOMAIN TaskAfter /\ TaskAfter[type] # "assigned"
      /\ (type # "TASK_CREATED" => TaskAfter[type] # "created")
  BY DEF TaskAfter
<1>2. inLog \in GoalView /\ projected \in GoalView
  BY DEF GoalsInv, GoalsTypeOK
<1>3. PICK after : after = OnTask(inLog, type, t)
  OBVIOUS
<1>4. PICK v : v = OnTask(projected, type, t)
  OBVIOUS
<1>5. PICK known : known = (projected.task[t] # "none")
  OBVIOUS
<1>6. /\ after \in GoalView /\ after.task = [inLog.task EXCEPT ![t] = TaskAfter[type]]
      /\ after.goal \in {inLog.goal, "running"} /\ (after.goal # inLog.goal => inLog.goal = "planned")
  BY <1>1, <1>2, <1>3, OnTaskIs
<1>7. v \in GoalView
  BY <1>1, <1>2, <1>4, OnTaskView
<1>8. inLog.task \in [GoalTasks -> TaskStatus]
  BY <1>2, ViewFacts
<1>9. after.task[t] = TaskAfter[type] /\ \A s \in GoalTasks : s # t => after.task[s] = inLog.task[s]
  BY <1>6, <1>8
<1>10. "TASK_CREATED" \notin Listened
  BY DEF Listened
<1>11. Plain(type, after)
  BY <1>1, <1>6, <1>9, <1>10 DEF Plain
<1>12. Open(after) => Open(inLog)
  BY <1>6 DEF Open
<1>13. ASSUME ~deaf PROVE Unanswered(type, after, known)
  <2>1. projected = inLog
    BY <1>13 DEF GoalsInv
  <2>2. SUFFICES ASSUME type \in Listened => ~known, type \notin Ignored, Open(after), Rests(inLog)
                 PROVE  Rests(after)
    BY <1>12 DEF Unanswered
  <2>3. type # "TASK_CREATED" /\ type # "TASK_CANCELLED"
    BY <2>2 DEF Ignored
  <2>4. known
    BY <1>5, <2>1, <2>3
  <2>5. type \in {"TASK_STARTED", "TASK_PROGRESS", "TASK_REWORK_REQUESTED"}
    BY <2>2, <2>3, <2>4 DEF Listened
  <2> QED BY <1>2, <1>6, <2>2, <2>3, <2>5, StaysBusy
<1>14. AppendEvent(type, after, v, known)
  BY <1>3, <1>4, <1>5 DEF TaskEventAppended
<1>15. projected = inLog => v = after
  BY <1>3, <1>4
<1>16. known \in BOOLEAN
  BY <1>5
<1> QED BY <1>6, <1>7, <1>11, <1>13, <1>14, <1>15, <1>16, EventStep

LEMMA OutsideStep ==
    ASSUME GoalsInv, Planner \/ \E t \in GoalTasks : Worker(t) \/ Reviewer(t)
    PROVE  GoalsInv' /\ AssignedInTurn
<1>1. CASE Planner
  <2>1. CASE GoalEventAppended("GOAL_PLANNED") \/ GoalEventAppended("GOAL_CANCELLED")
    BY <2>1, GoalEventStep
  <2>2. CASE Open(inLog) /\ (GoalEventAppended("GOAL_PAUSED") \/ GoalEventAppended("GOAL_RESUMED"))
    BY <2>2, GoalEventStep
  <2>3. CASE \E t \in GoalTasks : TaskEventAppended("TASK_CREATED", t)
    BY <2>3, TaskEventStep
  <2> QED BY <1>1, <2>1, <2>2, <2>3 DEF Planner, Open
<1>2. ASSUME NEW t \in GoalTasks, Worker(t) PROVE GoalsInv' /\ AssignedInTurn
  <2>1. PICK type \in {"TASK_STARTED", "TASK_PROGRESS", "TASK_COMPLETED", "TASK_FAILED"} :
           TaskEventAppended(type, t) /\ inLog.task[t] \notin {"none", "created"}
    BY <1>2 DEF Worker
  <2> QED BY <2>1, TaskEventStep
<1>3. ASSUME NEW t \in GoalTasks, Reviewer(t) PROVE GoalsInv' /\ AssignedInTurn
  <2>1. CASE inLog.task[t] = "completed" /\ TaskEventAppended("TASK_ACCEPTED", t)
    BY <2>1, TaskEventStep
  <2>2. CASE inLog.task[t] = "completed" /\ TaskEventAppended("TASK_REWORK_REQUESTED", t)
    BY <2>2, TaskEventStep
  <2>3. CASE inLog.task[t] # "none" /\ TaskEventAppended("TASK_CANCELLED", t)
    BY <2>3, TaskEventStep
  <2> QED BY <1>3, <2>1, <2>2, <2>3 DEF Reviewer
<1> QED BY <1>1, <1>2, <1>3

LEMMA ScheduleStep ==
    ASSUME GoalsInv, ScheduleGoal
    PROVE  GoalsInv' /\ AssignedInTurn
<1>1. /\ goalEvents' = goalEvents /\ watching' = watching
      /\ goalEvents \in 0 .. MaxGoalEvents
      /\ watching \in BOOLEAN /\ deaf \in BOOLEAN /\ unheard \in BOOLEAN
      /\ inLog \in GoalView /\ projected \in GoalView /\ (~deaf => projected = inLog)
  BY DEF GoalsInv, GoalsTypeOK, ScheduleGoal
<1>2. Dispatch(inLog, projected) /\ unheard' = FALSE /\ deaf' = (deaf \/ (~watching /\ inLog' # inLog))
  BY DEF ScheduleGoal
<1>3. /\ inLog' \in GoalView /\ projected' \in GoalView
      /\ projected = inLog => Chosen(inLog, inLog') /\ projected' = IF watching THEN inLog' ELSE projected
  BY <1>1, <1>2, DispatchChosen
<1>4. GoalsTypeOK'
  BY <1>1, <1>2, <1>3 DEF GoalsTypeOK
<1>5. CASE deaf
  BY <1>2, <1>4, <1>5 DEF GoalsInv, AssignedInTurn
<1>6. CASE ~deaf
  <2>1. Chosen(inLog, inLog') /\ projected' = IF watching THEN inLog' ELSE inLog
    BY <1>1, <1>3, <1>6
  <2>2. PICK u : u = inLog'
    OBVIOUS
  <2>3. Open(u) => Rests(u)
    BY <1>1, <2>1, <2>2, ChosenRests
  <2>4. (Open(inLog) => Rests(inLog))'
    BY <2>2, <2>3 DEF Open, Rests, Ready, Running, AllDone, Created, Done
  <2>5. ~deaf' => projected' = inLog'
    BY <1>2, <2>1
  <2>6. "GOAL_PLANNED" \in Listened /\ Plain("GOAL_PLANNED", inLog)
    BY DEF Listened, Plain
  <2>7. AssignedInTurn
    BY <1>1, <2>1, <2>6, ChosenOnlyBy
  <2> QED BY <1>4, <2>4, <2>5, <2>7 DEF GoalsInv
<1> QED BY <1>5, <1>6

LEMMA UnseenStep ==
    ASSUME GoalsInv, inLog' = inLog, goalEvents' = goalEvents, watching' \in BOOLEAN,
           \/ projected' = projected /\ deaf' = deaf /\ unheard' = unheard
           \/ projected' = inLog /\ deaf' = FALSE /\ unheard' = TRUE
    PROVE  GoalsInv' /\ AssignedInTurn
<1>1. AssignedInTurn
  <2>1. {t \in GoalTasks : inLog.task[t] # "assigned" /\ inLog'.task[t] = "assigned"} = {}
    OBVIOUS
  <2> QED BY <2>1 DEF AssignedInTurn
<1>2. GoalsTypeOK'
  BY DEF GoalsInv, GoalsTypeOK
<1>3. (Open(inLog) => Rests(inLog))' = (Open(inLog) => Rests(inLog))
  BY DEF Open, Rests, Ready, Running, AllDone, Created, Done
<1> QED BY <1>1, <1>2, <1>3 DEF GoalsInv

LEMMA GoalsStep ==
    ASSUME GoalsInv, [GoalsNext]_goalVars
    PROVE  GoalsInv' /\ (AssignedInTurn \/ UNCHANGED goalVars)
<1>1. CASE UNCHANGED goalVars
  <2>1. inLog' = inLog /\ goalEvents' = goalEvents /\ watching' \in BOOLEAN /\ projected' = projected
        /\ deaf' = deaf /\ unheard' = unheard
    BY <1>1 DEF goalVars, GoalsInv, GoalsTypeOK
  <2> QED BY <2>1, UnseenStep
<1>2. CASE StopWatching \/ StartWatching \/ NewScheduler
  <2>1. /\ inLog' = inLog /\ goalEvents' = goalEvents /\ watching' \in BOOLEAN
        /\ \/ projected' = projected /\ deaf' = deaf /\ unheard' = unheard
           \/ projected' = inLog /\ deaf' = FALSE /\ unheard' = TRUE
    BY <1>2 DEF StopWatching, StartWatching, NewScheduler
  <2> QED BY <2>1, UnseenStep
<1>3. CASE Planner \/ \E t \in GoalTasks : Worker(t) \/ Reviewer(t)
  BY <1>3, OutsideStep
<1>4. CASE ScheduleGoal
  BY <1>4, ScheduleStep
<1> QED BY <1>1, <1>2, <1>3, <1>4 DEF GoalsNext

LEMMA GoalsInitial ==
    ASSUME GoalsInit
    PROVE  GoalsInv
<1>1. inLog \in GoalView /\ projected \in GoalView /\ inLog.goal = "created" /\ projected = inLog
  <2>1. PICK f : f = [t \in GoalTasks |-> "none"]
    OBVIOUS
  <2>2. f \in [GoalTasks -> TaskStatus]
    BY <2>1 DEF TaskStatus
  <2>3. inLog = [goal |-> "created", task |-> f] /\ projected = inLog
    BY <2>1 DEF GoalsInit
  <2> QED BY <2>2, <2>3 DEF GoalView, GoalStatus
<1>2. goalEvents \in 0 .. MaxGoalEvents
  BY GoalsAssumption DEF GoalsInit, GoalsAssumption
<1> QED BY <1>1, <1>2 DEF GoalsInit, GoalsInv, GoalsTypeOK, Open

\* What the scheduler sees and has left to do, at any moment.
THEOREM GoalsInvariant == GoalsSpec => []GoalsInv
BY GoalsInitial, GoalsStep, PTL DEF GoalsSpec

THEOREM GoalsAlwaysKept == GoalsSpec => GoalsKept
<1>1. GoalsInv => NothingWaits
  BY DEF GoalsInv, NothingWaits, Open, Rests
<1>2. GoalsInv /\ GoalsInv' /\ [GoalsNext]_goalVars => [NothingWaits' /\ AssignedInTurn]_goalVars
  <2>1. GoalsInv' => NothingWaits'
    BY <1>1, PTL
  <2> QED BY <2>1, GoalsStep
<1> QED BY <1>2, GoalsInvariant, PTL DEF GoalsSpec, GoalsKept
=============================================================================
