--------------------------- MODULE InterfaceProofs --------------------------
(***************************************************************************)
(* What the interfaces keep of the programs behind them: the desktop of its *)
(* sidecars, for any number of windows, working directories and processes,  *)
(* and the terminal of its runtime, for any messages, tool calls and        *)
(* limits.                                                                  *)
(***************************************************************************)
EXTENDS Sidecars, Clients, ReactorProofs, SequenceTheorems, TLAPS


-----------------------------------------------------------------------------
(* The desktop: the invariant                                              *)

Request == [step : {"idle", "reaps", "checks", "joins", "asks", "inserts", "activates"},
            cwd : Cwds \cup {NoCwd}, proc : Nat, restart : BOOLEAN]
Closing == [step : {"open", "checks", "kills", "closed"}, cwd : Cwds \cup {NoCwd}]

\* The steps of a request that has started a process, and is still to put it into
\* the map, or has just done so.
StartSteps == {"asks", "inserts"}
CarrySteps == {"asks", "inserts", "activates"}

RequestShape ==
    /\ request \in [Windows -> Request]
    /\ \A w \in Windows : /\ request[w].step # "idle" => request[w].cwd \in Cwds
                          /\ request[w].proc \in {0} \cup Procs

ClosingShape ==
    /\ closing \in [Windows -> Closing]
    /\ \A w \in Windows : closing[w].step \in {"checks", "kills"} => closing[w].cwd \in Cwds

ProcShape ==
    /\ procs \in Seq(Proc) /\ Len(procs) <= MaxSpawns
    /\ sidecars \in [Cwds -> {0} \cup Procs] /\ guard \in {0} \cup Procs

WindowShape == active \in [Windows -> Cwds \cup {NoCwd}] /\ gui \in [Windows -> Window]

RestShape == restarting \subseteq Cwds /\ scheduled \subseteq Cwds /\ happened \in 0 .. MaxEvents

Carries(w, p) == request[w].proc = p /\ request[w].step \in CarrySteps
Activates(w, p) == request[w].proc = p /\ request[w].step = "activates"
Coming(p) == guard = p \/ \E w \in Windows : request[w].proc = p /\ request[w].step \in StartSteps
InMap(p) == sidecars[procs[p].cwd] = p

\* A process in the hands of a request is in no other's, nor the guard's, and has no
\* reader yet.
Carried ==
    /\ \A w \in Windows :
          IF request[w].step \in CarrySteps
          THEN /\ request[w].proc \in Procs /\ request[w].proc # guard
               /\ procs[request[w].proc].cwd = request[w].cwd
               /\ procs[request[w].proc].reader = "none"
          ELSE request[w].proc = 0
    /\ \A v, w \in Windows : request[v].proc = request[w].proc /\ request[v].proc # 0 => v = w
    /\ guard # 0 => procs[guard].reader = "none"

\* What is in the map is read, or about to be; what is not, and is not to come, is
\* dead or has lost its input.
MapSound ==
    /\ \A c \in Cwds : sidecars[c] # 0 => procs[sidecars[c]].cwd = c
    /\ \A p \in Procs : InMap(p) =>
          /\ ~Coming(p)
          /\ procs[p].reader = "reading" \/ \E w \in Windows : Activates(w, p)
    /\ \A p \in Procs : ~Dead(p) /\ procs[p].stdin => InMap(p) \/ Coming(p)

\* A window that believes in its sidecar will hear of the end of one; also while it
\* calls, and before it has subscribed.
ToldAt(w) ==
    gui[w].ready /\ ~gui[w].unaware => \E p \in Procs : procs[p].cwd = gui[w].shows /\ Watched(p)
Told == \A w \in Windows : ToldAt(w)

\* While a window joins a sidecar the bridge is ahead of it.
RoutedAt(w) ==
    /\ request[w].restart => request[w].cwd = gui[w].shows
    /\ closing[w].step = "open" =>
          IF request[w].step = "joins" THEN active[w] = request[w].cwd
          ELSE gui[w].ready /\ ~gui[w].strayed => active[w] = gui[w].shows
Routed == \A w \in Windows : RoutedAt(w)

SidecarsShape == RequestShape /\ ClosingShape /\ ProcShape /\ WindowShape /\ RestShape

SidecarsInv == SidecarsShape /\ Carried /\ MapSound /\ Told /\ Routed

-----------------------------------------------------------------------------
(* Facts of a state                                                        *)

LEMMA ProcFacts ==
    ASSUME SidecarsInv
    PROVE  /\ procs \in Seq(Proc) /\ Len(procs) \in Nat /\ Procs = 1 .. Len(procs)
           /\ \A p \in Procs : procs[p] \in Proc /\ p # 0 /\ p \in Nat
           /\ \A c \in Cwds : sidecars[c] \in {0} \cup Procs
           /\ sidecars \in [Cwds -> {0} \cup Procs]
           /\ guard \in {0} \cup Procs
<1>1. procs \in Seq(Proc) /\ sidecars \in [Cwds -> {0} \cup Procs] /\ guard \in {0} \cup Procs
  BY DEF SidecarsInv, SidecarsShape, ProcShape
<1>2. Len(procs) \in Nat /\ Procs = 1 .. Len(procs)
  BY <1>1, LenProperties DEF Procs
<1>3. \A p \in Procs : procs[p] \in Proc
  BY <1>1, <1>2, ElementOfSeq
<1> QED BY <1>1, <1>2, <1>3

LEMMA RequestFacts ==
    ASSUME SidecarsInv, NEW w \in Windows
    PROVE  /\ request \in [Windows -> Request] /\ request[w] \in Request
           /\ request[w].step # "idle" => request[w].cwd \in Cwds
           /\ closing \in [Windows -> Closing] /\ closing[w] \in Closing
           /\ gui \in [Windows -> Window] /\ gui[w] \in Window
           /\ active \in [Windows -> Cwds \cup {NoCwd}]
BY DEF SidecarsInv, SidecarsShape, RequestShape, ClosingShape, WindowShape

\* Whatever is in the map has, or is about to have, a reader.
LEMMA MapIsWatched ==
    ASSUME SidecarsInv, NEW c \in Cwds, sidecars[c] # 0
    PROVE  /\ sidecars[c] \in Procs /\ procs[sidecars[c]].cwd = c
           /\ InMap(sidecars[c]) /\ Watched(sidecars[c])
<1>1. sidecars[c] \in Procs /\ procs[sidecars[c]].cwd = c
  BY ProcFacts DEF SidecarsInv, MapSound
<1>2. InMap(sidecars[c])
  BY <1>1 DEF InMap
<1>3. procs[sidecars[c]].reader = "reading" \/ \E w \in Windows : Activates(w, sidecars[c])
  BY <1>1, <1>2 DEF SidecarsInv, MapSound
<1> QED BY <1>1, <1>2, <1>3 DEF Watched, Activates

-----------------------------------------------------------------------------
(* What a step has to leave for each part of the invariant                 *)

\* The processes of P go on in Q: none changes its directory, comes back, or gets its
\* input back.
GoOn(P, Q) ==
    /\ Q \in Seq(Proc) /\ Len(Q) = Len(P)
    /\ \A p \in DOMAIN P : /\ Q[p].cwd = P[p].cwd
                           /\ P[p].run = "dead" => Q[p].run = "dead"
                           /\ Q[p].stdin => P[p].stdin

SameReader(P, Q, p) == Q[p].reader = P[p].reader

LEMMA GoOnFacts ==
    ASSUME SidecarsInv, GoOn(procs, procs')
    PROVE  /\ Procs' = Procs /\ Len(procs') <= MaxSpawns /\ procs' \in Seq(Proc)
           /\ \A p \in Procs : procs'[p].cwd = procs[p].cwd /\ (Dead(p) => Dead(p)')
                               /\ (procs'[p].stdin => procs[p].stdin)
<1>1. procs' \in Seq(Proc) /\ Len(procs') = Len(procs)
  BY DEF GoOn
<1>2. Procs' = 1 .. Len(procs')
  BY <1>1, LenProperties DEF Procs
<1>3. Procs' = Procs /\ Len(procs') <= MaxSpawns
  BY <1>1, <1>2, ProcFacts DEF SidecarsInv, SidecarsShape, ProcShape
<1> QED BY <1>1, <1>3 DEF GoOn, Procs, Dead

LEMMA Unmoved ==
    ASSUME SidecarsInv, procs' = procs
    PROVE  GoOn(procs, procs') /\ \A p \in Procs : SameReader(procs, procs', p)
BY ProcFacts DEF GoOn, SameReader

\* One process of a list becomes another of the same directory.
LEMMA OneChanges ==
    ASSUME NEW P \in Seq(Proc), NEW p \in DOMAIN P, NEW r \in Proc
    PROVE  /\ [P EXCEPT ![p] = r] \in Seq(Proc) /\ Len([P EXCEPT ![p] = r]) = Len(P)
           /\ DOMAIN [P EXCEPT ![p] = r] = DOMAIN P
           /\ \A i \in DOMAIN P : [P EXCEPT ![p] = r][i] = IF i = p THEN r ELSE P[i]
<1>1. DOMAIN P = 1 .. Len(P)
  BY LenProperties
<1> QED BY <1>1, ExceptSeq

LEMMA CarriedStays ==
    ASSUME SidecarsInv, GoOn(procs, procs'),
           guard' \in {guard, 0},
           \A v \in Windows :
               IF request'[v].step \in CarrySteps
               THEN /\ request[v].step \in CarrySteps /\ request'[v].proc = request[v].proc
                    /\ request'[v].cwd = request[v].cwd
               ELSE request'[v].proc = 0,
           \A p \in Procs : \/ procs'[p].reader = procs[p].reader
                            \/ p # guard' /\ \A v \in Windows : request'[v].proc # p
    PROVE  Carried'
<1>1. Carried
  BY DEF SidecarsInv
<1>2. ASSUME NEW v \in Windows, request'[v].step \in CarrySteps
      PROVE  /\ request'[v].proc \in Procs' /\ request'[v].proc # guard'
             /\ procs'[request'[v].proc].cwd = request'[v].cwd
             /\ procs'[request'[v].proc].reader = "none"
  <2>1. PICK p : p = request[v].proc
    OBVIOUS
  <2>2. p \in Procs /\ p # guard /\ procs[p].cwd = request[v].cwd /\ procs[p].reader = "none"
    BY <1>1, <1>2, <2>1 DEF Carried
  <2>3. p # 0 /\ request'[v].proc = p /\ request'[v].cwd = request[v].cwd
    BY <1>2, <2>1, <2>2, ProcFacts
  <2>4. procs'[p].reader = "none" /\ procs'[p].cwd = request[v].cwd /\ p \in Procs'
    BY <2>2, <2>3, GoOnFacts
  <2> QED BY <2>2, <2>3, <2>4
<1>3. ASSUME NEW v \in Windows, NEW w \in Windows, request'[v].proc = request'[w].proc, request'[v].proc # 0
      PROVE  v = w
  <2>1. request'[v].proc = request[v].proc /\ request'[w].proc = request[w].proc
    BY <1>3
  <2> QED BY <1>1, <1>3, <2>1 DEF Carried
<1>4. guard' # 0 => procs'[guard'].reader = "none"
  <2> SUFFICES ASSUME guard' # 0 PROVE procs'[guard'].reader = "none"
    OBVIOUS
  <2>1. guard' = guard /\ guard \in Procs
    BY ProcFacts
  <2> QED BY <1>1, <2>1 DEF Carried
<1> QED BY <1>2, <1>3, <1>4 DEF Carried

LEMMA MapStays ==
    ASSUME SidecarsInv, GoOn(procs, procs'),
           \A c \in Cwds : \/ sidecars'[c] = sidecars[c]
                           \/ sidecars'[c] = 0 /\ ~procs'[sidecars[c]].stdin
                           \/ sidecars'[c] = 0 /\ sidecars[c] = 0,
           \A p \in Procs : /\ Coming(p)' => Coming(p)
                            /\ Coming(p) => Coming(p)' \/ Dead(p)'
                            /\ InMap(p)' /\ procs[p].reader = "reading" => procs'[p].reader = "reading"
                            /\ \A v \in Windows : Activates(v, p) => Activates(v, p)' \/ procs'[p].reader = "reading"
    PROVE  MapSound'
<1>1. MapSound
  BY DEF SidecarsInv
<1>2. /\ Procs' = Procs
      /\ \A p \in Procs : /\ procs'[p].cwd = procs[p].cwd /\ procs[p].cwd \in Cwds /\ p # 0
                          /\ Dead(p) => Dead(p)'
                          /\ procs'[p].stdin => procs[p].stdin
  BY GoOnFacts, ProcFacts DEF Proc
<1>3. \A p \in Procs : InMap(p)' => InMap(p)
  BY <1>2 DEF InMap
<1>4. ASSUME NEW c \in Cwds, sidecars'[c] # 0 PROVE procs'[sidecars'[c]].cwd = c
  BY <1>1, <1>2, <1>4, ProcFacts DEF MapSound
<1>5. ASSUME NEW p \in Procs, InMap(p)'
      PROVE  /\ ~Coming(p)'
             /\ procs'[p].reader = "reading" \/ \E w \in Windows : Activates(w, p)'
  <2>1. ~Coming(p) /\ (procs[p].reader = "reading" \/ \E w \in Windows : Activates(w, p))
    BY <1>1, <1>3, <1>5 DEF MapSound
  <2> QED BY <1>5, <2>1
<1>6. ASSUME NEW p \in Procs, ~Dead(p)', procs'[p].stdin PROVE InMap(p)' \/ Coming(p)'
  <2>1. InMap(p) \/ Coming(p)
    BY <1>1, <1>2, <1>6 DEF MapSound
  <2>2. ASSUME InMap(p) PROVE InMap(p)'
    BY <1>2, <1>6, <2>2 DEF InMap
  <2> QED BY <1>6, <2>1, <2>2
<1> QED BY <1>2, <1>4, <1>5, <1>6 DEF MapSound

\* Of a window whose belief is not new: the process it will hear of is still watched.
LEMMA ToldStays ==
    ASSUME SidecarsInv, GoOn(procs, procs'), NEW w \in Windows,
           gui'[w].ready /\ ~gui'[w].unaware =>
               gui[w].ready /\ ~gui[w].unaware /\ gui'[w].shows = gui[w].shows,
           \A p \in Procs : procs[p].cwd = gui[w].shows /\ Watched(p) => Watched(p)'
    PROVE  ToldAt(w)'
<1> SUFFICES ASSUME gui'[w].ready, ~gui'[w].unaware
             PROVE  \E p \in Procs' : procs'[p].cwd = gui'[w].shows /\ Watched(p)'
  BY DEF ToldAt
<1>1. PICK p \in Procs : procs[p].cwd = gui[w].shows /\ Watched(p)
  BY DEF SidecarsInv, Told, ToldAt
<1>2. p \in Procs' /\ procs'[p].cwd = gui'[w].shows /\ Watched(p)'
  BY <1>1, GoOnFacts
<1> QED BY <1>2

LEMMA RoutedStays ==
    ASSUME SidecarsInv, NEW w \in Windows,
           active'[w] = active[w], gui'[w].shows = gui[w].shows,
           gui'[w].ready /\ ~gui'[w].strayed => gui[w].ready /\ ~gui[w].strayed,
           request'[w].step = "joins" <=> request[w].step = "joins",
           request'[w].cwd = request[w].cwd, request'[w].restart = request[w].restart,
           closing'[w].step = "open" => closing[w].step = "open"
    PROVE  RoutedAt(w)'
BY DEF SidecarsInv, Routed, RoutedAt

-----------------------------------------------------------------------------
(* A call of a window, while the map and the processes stay as they are     *)

LEMMA RequestMoves ==
    ASSUME SidecarsInv, NEW w \in Windows, NEW r \in Request,
           r.step # "idle" => r.cwd \in Cwds, r.proc \in {0} \cup Procs', Procs \subseteq Procs',
           request' = [request EXCEPT ![w] = r]
    PROVE  /\ RequestShape' /\ request'[w] = r
           /\ \A v \in Windows \ {w} : request'[v] = request[v]
<1>1. /\ request \in [Windows -> Request]
      /\ \A v \in Windows : /\ request[v].step # "idle" => request[v].cwd \in Cwds
                            /\ request[v].proc \in {0} \cup Procs
  BY DEF SidecarsInv, SidecarsShape, RequestShape
<1>2. request' \in [Windows -> Request] /\ request'[w] = r /\ \A v \in Windows \ {w} : request'[v] = request[v]
  BY <1>1
<1> QED BY <1>1, <1>2 DEF RequestShape

LEMMA WatchStays ==
    ASSUME NEW p, Watched(p),
           procs[p].reader \in {"reading", "telling"} => procs'[p].reader \in {"reading", "telling"},
           \A v \in Windows : Activates(v, p) =>
               Activates(v, p)' \/ procs'[p].reader \in {"reading", "telling"}
    PROVE  Watched(p)'
BY DEF Watched, Activates

LEMMA OnlyAsks ==
    ASSUME SidecarsInv, procs' = procs, sidecars' = sidecars, guard' = guard, NEW w \in Windows,
           \A v \in Windows \ {w} : request'[v] = request[v],
           IF request'[w].step \in CarrySteps
           THEN /\ request[w].step \in CarrySteps /\ request'[w].proc = request[w].proc
                /\ request'[w].cwd = request[w].cwd
           ELSE request'[w].proc = 0,
           request[w].step = "activates" => request'[w].step = "activates",
           request[w].step \in StartSteps => request'[w].step \in StartSteps \/ Dead(request[w].proc),
           request'[w].step \in StartSteps => request[w].step \in StartSteps
    PROVE  /\ Carried' /\ MapSound' /\ ProcShape' /\ Procs' = Procs /\ GoOn(procs, procs')
           /\ \A p \in Procs : Watched(p) => Watched(p)'
<1>1. GoOn(procs, procs') /\ Procs' = Procs
  BY Unmoved, GoOnFacts
<1>2. \A v \in Windows : IF request[v].step \in CarrySteps THEN request[v].proc \in Procs ELSE request[v].proc = 0
  BY DEF SidecarsInv, Carried
<1>3. \A v \in Windows :
          IF request'[v].step \in CarrySteps
          THEN /\ request[v].step \in CarrySteps /\ request'[v].proc = request[v].proc
               /\ request'[v].cwd = request[v].cwd
          ELSE request'[v].proc = 0
  BY <1>2
<1>4. Carried'
  BY <1>1, <1>3, CarriedStays
<1>5. ASSUME NEW p \in Procs, NEW v \in Windows, Activates(v, p) PROVE Activates(v, p)'
  BY <1>5 DEF Activates, CarrySteps
<1>6. ASSUME NEW p \in Procs, Coming(p)' PROVE Coming(p)
  <2>1. CASE guard' = p
    BY <2>1 DEF Coming
  <2>2. CASE \E v \in Windows : request'[v].proc = p /\ request'[v].step \in StartSteps
    <3>1. PICK v \in Windows : request'[v].proc = p /\ request'[v].step \in StartSteps
      BY <2>2
    <3>2. request[v].proc = p /\ request[v].step \in StartSteps
      BY <3>1 DEF StartSteps, CarrySteps
    <3> QED BY <3>2 DEF Coming
  <2> QED BY <1>6, <2>1, <2>2 DEF Coming
<1>7. ASSUME NEW p \in Procs, Coming(p) PROVE Coming(p)' \/ Dead(p)'
  <2>1. CASE guard = p
    BY <2>1 DEF Coming
  <2>2. CASE \E v \in Windows : request[v].proc = p /\ request[v].step \in StartSteps
    <3>1. PICK v \in Windows : request[v].proc = p /\ request[v].step \in StartSteps
      BY <2>2
    <3>2. CASE Dead(p)
      BY <3>2 DEF Dead
    <3>3. CASE ~Dead(p)
      <4>1. request'[v].proc = p /\ request'[v].step \in StartSteps
        BY <3>1, <3>3 DEF StartSteps, CarrySteps
      <4> QED BY <4>1 DEF Coming
    <3> QED BY <3>2, <3>3
  <2> QED BY <1>7, <2>1, <2>2 DEF Coming
<1>8. MapSound'
  <2>1. \A c \in Cwds : sidecars'[c] = sidecars[c]
    OBVIOUS
  <2>2. \A p \in Procs : InMap(p)' /\ procs[p].reader = "reading" => procs'[p].reader = "reading"
    OBVIOUS
  <2> QED BY <1>1, <1>5, <1>6, <1>7, <2>1, <2>2, MapStays
<1>9. \A p \in Procs : Watched(p) => Watched(p)'
  BY <1>5, WatchStays
<1>10. ProcShape'
  BY <1>1 DEF SidecarsInv, SidecarsShape, ProcShape
<1> QED BY <1>1, <1>4, <1>8, <1>9, <1>10

\* Succeeds: the window shows what it has asked for.
LEMMA SucceedsFacts ==
    ASSUME SidecarsInv, NEW w \in Windows, request[w].step # "idle", Succeeds(w)
    PROVE  /\ request' = [request EXCEPT ![w] = NoRequest]
           /\ restarting' \subseteq Cwds /\ gui' \in [Windows -> Window]
           /\ gui'[w].shows = request[w].cwd
           /\ \A v \in Windows \ {w} : gui'[v] = gui[v]
<1>1. gui \in [Windows -> Window] /\ gui[w] \in Window /\ request[w].cwd \in Cwds
  BY RequestFacts
<1>2. request[w].restart => request[w].cwd = gui[w].shows
  BY DEF SidecarsInv, Routed, RoutedAt
<1>3. request' = [request EXCEPT ![w] = NoRequest] /\ restarting' \subseteq Cwds
  BY DEF Succeeds, SidecarsInv, SidecarsShape, RestShape
<1>4. CASE request[w].restart
  <2> DEFINE g == [gui[w] EXCEPT !.unaware = FALSE, !.strayed = FALSE]
  <2>1. gui' = [gui EXCEPT ![w] = g]
    BY <1>1, <1>4 DEF Succeeds
  <2>2. g \in Window /\ g.shows = gui[w].shows
    BY <1>1 DEF Window
  <2> HIDE DEF g
  <2>3. gui' \in [Windows -> Window] /\ gui'[w] = g /\ \A v \in Windows \ {w} : gui'[v] = gui[v]
    BY <1>1, <2>1, <2>2
  <2> QED BY <1>2, <1>3, <1>4, <2>2, <2>3
<1>5. CASE ~request[w].restart
  <2> DEFINE g == Started(gui[w], request[w].cwd)
  <2>1. gui' = [gui EXCEPT ![w] = g]
    BY <1>1, <1>5 DEF Succeeds
  <2>2. g \in Window /\ g.shows = request[w].cwd
    BY <1>1 DEF Window, Started
  <2> HIDE DEF g
  <2>3. gui' \in [Windows -> Window] /\ gui'[w] = g /\ \A v \in Windows \ {w} : gui'[v] = gui[v]
    BY <1>1, <2>1, <2>2
  <2> QED BY <1>3, <2>2, <2>3
<1> QED BY <1>4, <1>5

LEMMA FailsFacts ==
    ASSUME SidecarsInv, NEW w \in Windows, Fails(w)
    PROVE  /\ request' = [request EXCEPT ![w] = NoRequest]
           /\ restarting' \subseteq Cwds /\ gui' \in [Windows -> Window]
           /\ gui'[w].shows = gui[w].shows /\ gui'[w].ready = gui[w].ready
           /\ ~gui'[w].unaware => ~gui[w].unaware
           /\ ~gui'[w].strayed => ~gui[w].strayed /\ (request[w].step = "joins" => active[w] = gui[w].shows)
           /\ \A v \in Windows \ {w} : gui'[v] = gui[v]
<1>1. gui \in [Windows -> Window] /\ gui[w] \in Window /\ request[w] \in Request
  BY RequestFacts
<1>2. request' = [request EXCEPT ![w] = NoRequest] /\ restarting' \subseteq Cwds
  BY DEF Fails, SidecarsInv, SidecarsShape, RestShape
<1> DEFINE un == gui[w].unaware \/ request[w].restart
           st == gui[w].strayed \/ (request[w].step = "joins" /\ active[w] # gui[w].shows)
           g == [gui[w] EXCEPT !.unaware = un, !.strayed = st]
<1>3. gui' = [gui EXCEPT ![w] = g]
  BY <1>1 DEF Fails
<1>4. un \in BOOLEAN /\ st \in BOOLEAN
  BY <1>1 DEF Window, Request
<1>5. g \in Window /\ g.shows = gui[w].shows /\ g.ready = gui[w].ready /\ g.unaware = un /\ g.strayed = st
  <2> HIDE DEF un, st
  <2> QED BY <1>1, <1>4 DEF Window
<1>6. gui' \in [Windows -> Window] /\ gui'[w] = g /\ \A v \in Windows \ {w} : gui'[v] = gui[v]
  <2> HIDE DEF g
  <2> QED BY <1>1, <1>3, <1>5
<1> QED BY <1>2, <1>5, <1>6

-----------------------------------------------------------------------------
(* The calls                                                               *)

LEMMA NoRequestIs == NoRequest \in Request /\ NoRequest.step = "idle" /\ NoRequest.proc = 0
                     /\ ~NoRequest.restart
BY DEF NoRequest, Request

LEMMA CallInitSound ==
    ASSUME SidecarsInv, NEW w \in Windows, NEW c \in Cwds, CallInit(w, c)
    PROVE  SidecarsInv'
<1> DEFINE r == [NoRequest EXCEPT !.step = "checks", !.cwd = c]
<1>1. r \in Request /\ r.step = "checks" /\ r.cwd = c /\ r.proc = 0 /\ ~r.restart
  BY DEF NoRequest, Request
<1>2. request[w].step = "idle" /\ request' = [request EXCEPT ![w] = r]
  BY DEF CallInit, MayCall
<1> HIDE DEF r
<1>3. /\ sidecars' = sidecars /\ active' = active /\ restarting' = restarting /\ procs' = procs
      /\ closing' = closing /\ guard' = guard /\ scheduled' = scheduled /\ gui' = gui
      /\ happened' \in 0 .. MaxEvents
  BY SidecarsAssumption DEF CallInit, Happens, SidecarsInv, SidecarsShape, RestShape, SidecarsAssumption
<1>4. RequestShape' /\ request'[w] = r /\ \A v \in Windows \ {w} : request'[v] = request[v]
  BY <1>1, <1>2, <1>3, RequestMoves DEF Procs
<1>5. /\ Carried' /\ MapSound' /\ ProcShape' /\ GoOn(procs, procs')
      /\ \A p \in Procs : Watched(p) => Watched(p)'
  BY <1>1, <1>2, <1>3, <1>4, OnlyAsks DEF CarrySteps, StartSteps
<1>6. Told'
  BY <1>3, <1>5, ToldStays DEF Told
<1>7. ASSUME NEW v \in Windows PROVE RoutedAt(v)'
  <2>1. CASE v = w
    BY <1>1, <1>2, <1>3, <1>4, <2>1 DEF SidecarsInv, Routed, RoutedAt
  <2>2. CASE v # w
    BY <1>3, <1>4, <2>2, RoutedStays
  <2> QED BY <2>1, <2>2
<1> QED BY <1>3, <1>4, <1>5, <1>6, <1>7
        DEF SidecarsInv, SidecarsShape, ClosingShape, WindowShape, RestShape, Routed

LEMMA CallRestartSound ==
    ASSUME SidecarsInv, NEW w \in Windows, CallRestart(w)
    PROVE  SidecarsInv'
<1> DEFINE r == [step |-> "reaps", cwd |-> gui[w].shows, proc |-> 0, restart |-> TRUE]
<1>1. gui[w].shows \in Cwds
  BY RequestFacts DEF CallRestart, Window
<1>2. r \in Request /\ r.step = "reaps" /\ r.cwd = gui[w].shows /\ r.proc = 0
  BY <1>1 DEF Request
<1>3. request[w].step = "idle" /\ request' = [request EXCEPT ![w] = r]
  BY DEF CallRestart, MayCall
<1> HIDE DEF r
<1>4. /\ sidecars' = sidecars /\ active' = active /\ restarting' \subseteq Cwds /\ procs' = procs
      /\ closing' = closing /\ guard' = guard /\ scheduled' = scheduled /\ gui' = gui
      /\ happened' \in 0 .. MaxEvents
  BY <1>1, SidecarsAssumption DEF CallRestart, Happens, SidecarsInv, SidecarsShape, RestShape, SidecarsAssumption
<1>5. RequestShape' /\ request'[w] = r /\ \A v \in Windows \ {w} : request'[v] = request[v]
  BY <1>1, <1>2, <1>3, <1>4, RequestMoves DEF Procs
<1>6. /\ Carried' /\ MapSound' /\ ProcShape' /\ GoOn(procs, procs')
      /\ \A p \in Procs : Watched(p) => Watched(p)'
  BY <1>2, <1>3, <1>4, <1>5, OnlyAsks DEF CarrySteps, StartSteps
<1>7. Told'
  BY <1>4, <1>6, ToldStays DEF Told
<1>8. ASSUME NEW v \in Windows PROVE RoutedAt(v)'
  <2>1. CASE v = w
    BY <1>2, <1>3, <1>4, <1>5, <2>1 DEF SidecarsInv, Routed, RoutedAt
  <2>2. CASE v # w
    BY <1>4, <1>5, <2>2, RoutedStays
  <2> QED BY <2>1, <2>2
<1> QED BY <1>4, <1>5, <1>6, <1>7, <1>8
        DEF SidecarsInv, SidecarsShape, ClosingShape, WindowShape, RestShape, Routed

LEMMA ListensSound ==
    ASSUME SidecarsInv, NEW w \in Windows, Listens(w)
    PROVE  SidecarsInv'
<1> DEFINE g == [gui[w] EXCEPT !.hears = TRUE]
<1>1. gui \in [Windows -> Window] /\ gui[w] \in Window
  BY RequestFacts
<1>2. /\ g \in Window /\ g.shows = gui[w].shows /\ g.ready = gui[w].ready
      /\ g.unaware = gui[w].unaware /\ g.strayed = gui[w].strayed
  BY <1>1 DEF Window
<1>3. gui' = [gui EXCEPT ![w] = g]
  BY DEF Listens
<1> HIDE DEF g
<1>4. /\ gui' \in [Windows -> Window]
      /\ \A v \in Windows : /\ gui'[v].shows = gui[v].shows /\ gui'[v].ready = gui[v].ready
                            /\ gui'[v].unaware = gui[v].unaware /\ gui'[v].strayed = gui[v].strayed
  BY <1>1, <1>2, <1>3
<1>5. /\ sidecars' = sidecars /\ active' = active /\ restarting' = restarting /\ procs' = procs
      /\ request' = request /\ closing' = closing /\ guard' = guard /\ scheduled' = scheduled
      /\ happened' = happened
  BY DEF Listens
<1>6. /\ Carried' /\ MapSound' /\ ProcShape' /\ GoOn(procs, procs') /\ Procs' = Procs
      /\ \A p \in Procs : Watched(p) => Watched(p)'
  <2>1. IF request[w].step \in CarrySteps THEN TRUE ELSE request[w].proc = 0
    BY DEF SidecarsInv, Carried
  <2> QED BY <1>5, <2>1, OnlyAsks
<1>7. Told'
  BY <1>4, <1>6, ToldStays DEF Told
<1>8. Routed'
  BY <1>4, <1>5, RoutedStays DEF Routed
<1>9. RequestShape'
  BY <1>5, <1>6 DEF SidecarsInv, SidecarsShape, RequestShape
<1> QED BY <1>4, <1>5, <1>6, <1>7, <1>8, <1>9
        DEF SidecarsInv, SidecarsShape, ClosingShape, WindowShape, RestShape

\* A step that moves the request of w on, and asks nothing of the processes.
LEMMA AdvanceFacts ==
    ASSUME SidecarsInv, NEW w \in Windows, NEW step \in {"checks", "joins", "asks", "inserts", "activates"},
           request[w].step # "idle", Advances(w, step), Procs \subseteq Procs'
    PROVE  /\ RequestShape' /\ request' = [request EXCEPT ![w] = [request[w] EXCEPT !.step = step]]
           /\ request'[w].step = step /\ request'[w].cwd = request[w].cwd
           /\ request'[w].proc = request[w].proc /\ request'[w].restart = request[w].restart
           /\ \A v \in Windows \ {w} : request'[v] = request[v]
<1> DEFINE r == [request[w] EXCEPT !.step = step]
<1>1. /\ request[w] \in Request /\ request[w].cwd \in Cwds /\ request[w].proc \in {0} \cup Procs
      /\ request' = [request EXCEPT ![w] = r]
  BY RequestFacts DEF Advances, SidecarsInv, SidecarsShape, RequestShape
<1>2. /\ r \in Request /\ r.step = step /\ r.cwd = request[w].cwd /\ r.proc = request[w].proc
      /\ r.restart = request[w].restart
  BY <1>1 DEF Request
<1> HIDE DEF r
<1>3. RequestShape' /\ request'[w] = r /\ \A v \in Windows \ {w} : request'[v] = request[v]
  BY <1>1, <1>2, RequestMoves
<1> QED BY <1>1, <1>2, <1>3 DEF r

\* The sidecar is there: the window's commands go to it from now on.
LEMMA JoinStarts ==
    ASSUME SidecarsInv, NEW w \in Windows, request[w].step = "checks",
           active' = [active EXCEPT ![w] = request[w].cwd], Advances(w, "joins"),
           UNCHANGED <<procs, sidecars, restarting, closing, guard, scheduled, gui, happened>>
    PROVE  SidecarsInv'
<1>1. Procs' = Procs
  BY DEF Procs
<1>2. /\ RequestShape' /\ request'[w].step = "joins" /\ request'[w].cwd = request[w].cwd
      /\ request'[w].proc = request[w].proc /\ request'[w].restart = request[w].restart
      /\ \A v \in Windows \ {w} : request'[v] = request[v]
  BY <1>1, AdvanceFacts
<1>3. request[w].proc = 0 /\ request[w].cwd \in Cwds
  BY RequestFacts DEF SidecarsInv, Carried, CarrySteps
<1>4. /\ active' \in [Windows -> Cwds \cup {NoCwd}] /\ active'[w] = request[w].cwd
      /\ \A v \in Windows \ {w} : active'[v] = active[v]
  BY <1>3, RequestFacts
<1>5. /\ Carried' /\ MapSound' /\ ProcShape' /\ GoOn(procs, procs')
      /\ \A p \in Procs : Watched(p) => Watched(p)'
  BY <1>2, <1>3, OnlyAsks DEF CarrySteps, StartSteps
<1>6. Told'
  BY <1>5, ToldStays DEF Told
<1>7. ASSUME NEW v \in Windows PROVE RoutedAt(v)'
  <2>1. CASE v = w
    BY <1>2, <1>4, <2>1 DEF SidecarsInv, Routed, RoutedAt
  <2>2. CASE v # w
    BY <1>2, <1>4, <2>2, RoutedStays
  <2> QED BY <2>1, <2>2
<1> QED BY <1>2, <1>4, <1>5, <1>6, <1>7
        DEF SidecarsInv, SidecarsShape, ClosingShape, WindowShape, RestShape, Routed

\* The call is answered with an error.
LEMMA FailureSound ==
    ASSUME SidecarsInv, NEW w \in Windows, Fails(w), request[w].step \in {"joins", "asks"},
           request[w].step = "asks" => Dead(request[w].proc),
           UNCHANGED <<sidecars, active, procs, closing, guard, scheduled, happened>>
    PROVE  SidecarsInv'
<1>1. Procs' = Procs
  BY DEF Procs
<1>2. /\ request' = [request EXCEPT ![w] = NoRequest]
      /\ restarting' \subseteq Cwds /\ gui' \in [Windows -> Window]
      /\ gui'[w].shows = gui[w].shows /\ gui'[w].ready = gui[w].ready
      /\ ~gui'[w].unaware => ~gui[w].unaware
      /\ ~gui'[w].strayed => ~gui[w].strayed /\ (request[w].step = "joins" => active[w] = gui[w].shows)
      /\ \A v \in Windows \ {w} : gui'[v] = gui[v]
  BY FailsFacts
<1>3. /\ RequestShape' /\ request'[w] = NoRequest
      /\ \A v \in Windows \ {w} : request'[v] = request[v]
  BY <1>1, <1>2, NoRequestIs, RequestMoves
<1>4. /\ Carried' /\ MapSound' /\ ProcShape' /\ GoOn(procs, procs')
      /\ \A p \in Procs : Watched(p) => Watched(p)'
  BY <1>3, NoRequestIs, OnlyAsks DEF CarrySteps, StartSteps
<1>5. ASSUME NEW v \in Windows PROVE ToldAt(v)'
  <2>1. gui'[v].ready /\ ~gui'[v].unaware =>
            gui[v].ready /\ ~gui[v].unaware /\ gui'[v].shows = gui[v].shows
    BY <1>2
  <2> QED BY <1>4, <2>1, ToldStays
<1>6. ASSUME NEW v \in Windows PROVE RoutedAt(v)'
  <2>1. CASE v = w
    BY <1>2, <1>3, <2>1, NoRequestIs DEF SidecarsInv, Routed, RoutedAt
  <2>2. CASE v # w
    BY <1>2, <1>3, <2>2, RoutedStays
  <2> QED BY <2>1, <2>2
<1> QED BY <1>2, <1>3, <1>4, <1>5, <1>6
        DEF SidecarsInv, SidecarsShape, ClosingShape, WindowShape, RestShape, Told, Routed

\* It is answered by the sidecar it has found.
LEMMA JoinSucceeds ==
    ASSUME SidecarsInv, NEW w \in Windows, Succeeds(w), request[w].step = "joins",
           sidecars[request[w].cwd] # 0,
           UNCHANGED <<sidecars, active, procs, closing, guard, scheduled, happened>>
    PROVE  SidecarsInv'
<1>1. Procs' = Procs
  BY DEF Procs
<1>2. /\ request' = [request EXCEPT ![w] = NoRequest]
      /\ restarting' \subseteq Cwds /\ gui' \in [Windows -> Window]
      /\ gui'[w].shows = request[w].cwd
      /\ \A v \in Windows \ {w} : gui'[v] = gui[v]
  BY SucceedsFacts
<1>3. /\ RequestShape' /\ request'[w] = NoRequest
      /\ \A v \in Windows \ {w} : request'[v] = request[v]
  BY <1>1, <1>2, NoRequestIs, RequestMoves
<1>4. /\ Carried' /\ MapSound' /\ ProcShape' /\ GoOn(procs, procs')
      /\ \A p \in Procs : Watched(p) => Watched(p)'
  BY <1>3, NoRequestIs, OnlyAsks DEF CarrySteps, StartSteps
<1>5. ASSUME NEW v \in Windows PROVE ToldAt(v)'
  <2>1. CASE v = w
    <3>1. request[w].cwd \in Cwds
      BY RequestFacts
    <3>2. PICK p \in Procs : procs[p].cwd = request[w].cwd /\ Watched(p)
      BY <3>1, MapIsWatched
    <3>3. p \in Procs' /\ procs'[p].cwd = gui'[v].shows /\ Watched(p)'
      BY <1>1, <1>2, <1>4, <2>1, <3>2
    <3> QED BY <3>3 DEF ToldAt
  <2>2. CASE v # w
    BY <1>2, <1>4, <2>2, ToldStays
  <2> QED BY <2>1, <2>2
<1>6. ASSUME NEW v \in Windows PROVE RoutedAt(v)'
  <2>1. CASE v = w
    BY <1>2, <1>3, <2>1, NoRequestIs DEF SidecarsInv, Routed, RoutedAt
  <2>2. CASE v # w
    BY <1>2, <1>3, <2>2, RoutedStays
  <2> QED BY <2>1, <2>2
<1> QED BY <1>2, <1>3, <1>4, <1>5, <1>6
        DEF SidecarsInv, SidecarsShape, ClosingShape, WindowShape, RestShape, Told, Routed

LEMMA InitJoinsSound ==
    ASSUME SidecarsInv, NEW w \in Windows, InitJoins(w)
    PROVE  SidecarsInv'
<1>1. CASE sidecars[request[w].cwd] # 0 /\ Succeeds(w)
  BY <1>1, JoinSucceeds DEF InitJoins
<1>2. CASE Fails(w)
  BY <1>2, FailureSound DEF InitJoins
<1> QED BY <1>1, <1>2 DEF InitJoins

LEMMA InitAsksSound ==
    ASSUME SidecarsInv, NEW w \in Windows, InitAsks(w)
    PROVE  SidecarsInv'
<1>1. CASE Dead(request[w].proc) /\ Fails(w)
  BY <1>1, FailureSound DEF InitAsks
<1>2. CASE Advances(w, "inserts") /\ UNCHANGED <<restarting, gui>>
  <2>1. Procs' = Procs
    BY DEF Procs, InitAsks
  <2>2. /\ RequestShape' /\ request'[w].step = "inserts" /\ request'[w].cwd = request[w].cwd
        /\ request'[w].proc = request[w].proc /\ request'[w].restart = request[w].restart
        /\ \A v \in Windows \ {w} : request'[v] = request[v]
    BY <1>2, <2>1, AdvanceFacts DEF InitAsks
  <2>3. /\ sidecars' = sidecars /\ active' = active /\ procs' = procs /\ closing' = closing
        /\ guard' = guard /\ scheduled' = scheduled /\ happened' = happened /\ gui' = gui
        /\ restarting' = restarting /\ request[w].step = "asks"
    BY <1>2 DEF InitAsks
  <2>4. /\ Carried' /\ MapSound' /\ ProcShape' /\ GoOn(procs, procs')
        /\ \A p \in Procs : Watched(p) => Watched(p)'
    BY <2>2, <2>3, OnlyAsks DEF CarrySteps, StartSteps
  <2>5. Told'
    BY <2>3, <2>4, ToldStays DEF Told
  <2>6. Routed'
    BY <2>2, <2>3, RoutedStays DEF Routed
  <2> QED BY <2>2, <2>3, <2>4, <2>5, <2>6
          DEF SidecarsInv, SidecarsShape, ClosingShape, WindowShape, RestShape
<1> QED BY <1>1, <1>2 DEF InitAsks

-----------------------------------------------------------------------------
(* Processes that lose their input, and are killed                         *)

\* Q is P but that p has lost its input.
Loses(P, p, Q) ==
    /\ Q \in Seq(Proc) /\ Len(Q) = Len(P) /\ DOMAIN Q = DOMAIN P
    /\ \A i \in DOMAIN P : Q[i] = IF i = p THEN [P[i] EXCEPT !.stdin = FALSE] ELSE P[i]

LEMMA DroppedLoses ==
    ASSUME NEW P \in Seq(Proc), NEW p \in {0} \cup DOMAIN P
    PROVE  Loses(P, p, Dropped(P, p))
<1>1. DOMAIN P = 1 .. Len(P) /\ Len(P) \in Nat
  BY LenProperties
<1>2. CASE p = 0
  BY <1>1, <1>2 DEF Loses, Dropped
<1>3. CASE p # 0
  <2> DEFINE r == [P[p] EXCEPT !.stdin = FALSE]
  <2>1. p \in DOMAIN P /\ P[p] \in Proc
    BY <1>1, <1>3, ElementOfSeq
  <2>2. r \in Proc
    BY <2>1 DEF Proc
  <2>3. Dropped(P, p) = [P EXCEPT ![p] = r]
    BY <1>3, <2>1 DEF Dropped
  <2> HIDE DEF r
  <2>4. Loses(P, p, [P EXCEPT ![p] = r]) <=>
            \A i \in DOMAIN P : [P EXCEPT ![p] = r][i] = IF i = p THEN [P[i] EXCEPT !.stdin = FALSE] ELSE P[i]
    BY <2>1, <2>2, OneChanges DEF Loses
  <2>5. \A i \in DOMAIN P : [P EXCEPT ![p] = r][i] = IF i = p THEN [P[i] EXCEPT !.stdin = FALSE] ELSE P[i]
    BY <2>1, <2>2, OneChanges DEF r
  <2> QED BY <2>3, <2>4, <2>5
<1> QED BY <1>2, <1>3

LEMMA LosesGoesOn ==
    ASSUME NEW P \in Seq(Proc), NEW p, NEW Q, Loses(P, p, Q)
    PROVE  /\ GoOn(P, Q)
           /\ \A i \in DOMAIN P : Q[i].reader = P[i].reader
           /\ p \in DOMAIN P => ~Q[p].stdin
<1>1. \A i \in DOMAIN P : P[i] \in Proc
  BY LenProperties, ElementOfSeq
<1>2. ASSUME NEW i \in DOMAIN P
      PROVE  /\ Q[i].cwd = P[i].cwd /\ Q[i].run = P[i].run /\ Q[i].reader = P[i].reader
             /\ (Q[i].stdin => P[i].stdin) /\ (i = p => ~Q[i].stdin)
  BY <1>1 DEF Loses, Proc
<1> QED BY <1>2 DEF GoOn, Loses

LEMMA KilledFacts ==
    ASSUME SidecarsInv, NEW p \in {0} \cup Procs
    PROVE  /\ GoOn(procs, Killed(procs, p))
           /\ \A i \in Procs : Killed(procs, p)[i].reader = procs[i].reader
           /\ p # 0 => ~Killed(procs, p)[p].stdin
<1>1. procs \in Seq(Proc) /\ Procs = DOMAIN procs /\ \A i \in Procs : procs[i] \in Proc
  BY ProcFacts DEF Procs
<1>2. CASE p = 0
  BY <1>1, <1>2 DEF Killed, GoOn
<1>3. CASE p # 0
  <2> DEFINE r == [procs[p] EXCEPT !.stdin = FALSE, !.run = "dead"]
  <2>1. p \in Procs /\ procs[p] \in Proc
    BY <1>1, <1>3
  <2>2. /\ r \in Proc /\ r.cwd = procs[p].cwd /\ r.run = "dead" /\ ~r.stdin
        /\ r.reader = procs[p].reader
    BY <2>1 DEF Proc
  <2>3. Killed(procs, p) = [procs EXCEPT ![p] = r]
    BY <1>1, <1>3, <2>1 DEF Killed
  <2> HIDE DEF r
  <2>4. PICK Q : Q = [procs EXCEPT ![p] = r]
    OBVIOUS
  <2>5. /\ Q \in Seq(Proc) /\ Len(Q) = Len(procs)
        /\ \A i \in Procs : Q[i] = IF i = p THEN r ELSE procs[i]
    BY <1>1, <2>1, <2>2, <2>4, OneChanges
  <2>6. GoOn(procs, Q) /\ (\A i \in Procs : Q[i].reader = procs[i].reader) /\ ~Q[p].stdin
    BY <1>1, <2>1, <2>2, <2>5 DEF GoOn
  <2> QED BY <2>3, <2>4, <2>6
<1> QED BY <1>2, <1>3

\* The process in the map under c is killed and removed.
LEMMA KillsFacts ==
    ASSUME SidecarsInv, NEW c \in Cwds, procs' = Killed(procs, sidecars[c]),
           sidecars' = [sidecars EXCEPT ![c] = 0], guard' = guard
    PROVE  /\ GoOn(procs, procs') /\ ProcShape'
           /\ \A i \in Procs : procs'[i].reader = procs[i].reader
           /\ \A d \in Cwds : \/ sidecars'[d] = sidecars[d]
                              \/ sidecars'[d] = 0 /\ ~procs'[sidecars[d]].stdin
                              \/ sidecars'[d] = 0 /\ sidecars[d] = 0
<1>1. sidecars \in [Cwds -> {0} \cup Procs] /\ sidecars[c] \in {0} \cup Procs
  BY ProcFacts
<1>2. /\ GoOn(procs, procs') /\ \A i \in Procs : procs'[i].reader = procs[i].reader
      /\ sidecars[c] # 0 => ~procs'[sidecars[c]].stdin
  BY <1>1, KilledFacts
<1>3. Procs' = Procs /\ Len(procs') <= MaxSpawns /\ procs' \in Seq(Proc)
  BY <1>2, GoOnFacts
<1>4. sidecars' \in [Cwds -> {0} \cup Procs]
  BY <1>1
<1>5. \A d \in Cwds : \/ sidecars'[d] = sidecars[d]
                      \/ sidecars'[d] = 0 /\ ~procs'[sidecars[d]].stdin
                      \/ sidecars'[d] = 0 /\ sidecars[d] = 0
  BY <1>1, <1>2
<1>6. ProcShape'
  BY <1>3, <1>4, ProcFacts DEF ProcShape
<1> QED BY <1>2, <1>5, <1>6

-----------------------------------------------------------------------------
(* Closed windows, deleted workspaces, restarts                            *)

\* Nothing comes or goes but entries of the map, with the input of their processes.
LEMMA Removal ==
    ASSUME SidecarsInv, GoOn(procs, procs'), guard' = guard,
           \A p \in Procs : procs'[p].reader = procs[p].reader,
           \A c \in Cwds : \/ sidecars'[c] = sidecars[c]
                           \/ sidecars'[c] = 0 /\ ~procs'[sidecars[c]].stdin
                           \/ sidecars'[c] = 0 /\ sidecars[c] = 0,
           \A v \in Windows :
               /\ request'[v].proc = request[v].proc /\ request'[v].cwd = request[v].cwd
               /\ request'[v].step = request[v].step \/ {request'[v].step, request[v].step} \cap CarrySteps = {}
    PROVE  Carried' /\ MapSound' /\ \A p \in Procs : Watched(p) => Watched(p)'
<1>1. \A v \in Windows : IF request[v].step \in CarrySteps THEN TRUE ELSE request[v].proc = 0
  BY DEF SidecarsInv, Carried
<1>2. \A v \in Windows :
          IF request'[v].step \in CarrySteps
          THEN /\ request[v].step \in CarrySteps /\ request'[v].proc = request[v].proc
               /\ request'[v].cwd = request[v].cwd
          ELSE request'[v].proc = 0
  BY <1>1
<1>3. Carried'
  BY <1>2, CarriedStays
<1>4. \A v \in Windows, p \in Procs : Activates(v, p)' <=> Activates(v, p)
  BY DEF Activates, CarrySteps
<1>5. \A p \in Procs : Coming(p)' <=> Coming(p)
  BY DEF Coming, StartSteps, CarrySteps
<1>6. MapSound'
  BY <1>4, <1>5, MapStays
<1>7. \A p \in Procs : Watched(p) => Watched(p)'
  BY <1>4, WatchStays
<1> QED BY <1>3, <1>6, <1>7

LEMMA RestartReapsSound ==
    ASSUME SidecarsInv, NEW w \in Windows, RestartReaps(w)
    PROVE  SidecarsInv'
<1>1. /\ request[w].step = "reaps" /\ procs' = Killed(procs, sidecars[request[w].cwd])
      /\ sidecars' = [sidecars EXCEPT ![request[w].cwd] = 0] /\ Advances(w, "checks")
      /\ active' = active /\ restarting' = restarting /\ closing' = closing /\ guard' = guard
      /\ scheduled' = scheduled /\ gui' = gui /\ happened' = happened
  BY DEF RestartReaps
<1>2. request[w].cwd \in Cwds
  BY <1>1, RequestFacts
<1>3. /\ GoOn(procs, procs') /\ ProcShape'
      /\ \A p \in Procs : procs'[p].reader = procs[p].reader
      /\ \A d \in Cwds : \/ sidecars'[d] = sidecars[d]
                         \/ sidecars'[d] = 0 /\ ~procs'[sidecars[d]].stdin
                         \/ sidecars'[d] = 0 /\ sidecars[d] = 0
  BY <1>1, <1>2, KillsFacts
<1>4. Procs' = Procs
  BY <1>3, GoOnFacts
<1>5. /\ RequestShape' /\ request'[w].step = "checks" /\ request'[w].cwd = request[w].cwd
      /\ request'[w].proc = request[w].proc /\ request'[w].restart = request[w].restart
      /\ \A v \in Windows \ {w} : request'[v] = request[v]
  BY <1>1, <1>4, AdvanceFacts
<1>6. Carried' /\ MapSound' /\ \A p \in Procs : Watched(p) => Watched(p)'
  <2>1. \A v \in Windows :
            /\ request'[v].proc = request[v].proc /\ request'[v].cwd = request[v].cwd
            /\ request'[v].step = request[v].step \/ {request'[v].step, request[v].step} \cap CarrySteps = {}
    BY <1>1, <1>5 DEF CarrySteps
  <2> QED BY <1>1, <1>3, <2>1, Removal
<1>7. Told'
  BY <1>1, <1>3, <1>6, ToldStays DEF Told
<1>8. Routed'
  BY <1>1, <1>5, RoutedStays DEF Routed
<1> QED BY <1>1, <1>3, <1>5, <1>6, <1>7, <1>8
        DEF SidecarsInv, SidecarsShape, ClosingShape, WindowShape, RestShape

\* A step that kills and removes a sidecar without a request.
LEMMA KillsSound ==
    ASSUME SidecarsInv, NEW c \in Cwds, Kills(c), ClosingShape', RestShape',
           \A v \in Windows : closing'[v].step = "open" => closing[v].step = "open",
           UNCHANGED <<active, request, guard, gui>>
    PROVE  SidecarsInv'
<1>1. /\ GoOn(procs, procs') /\ ProcShape'
      /\ \A p \in Procs : procs'[p].reader = procs[p].reader
      /\ \A d \in Cwds : \/ sidecars'[d] = sidecars[d]
                         \/ sidecars'[d] = 0 /\ ~procs'[sidecars[d]].stdin
                         \/ sidecars'[d] = 0 /\ sidecars[d] = 0
  BY KillsFacts DEF Kills
<1>2. Procs' = Procs
  BY <1>1, GoOnFacts
<1>3. Carried' /\ MapSound' /\ \A p \in Procs : Watched(p) => Watched(p)'
  BY <1>1, Removal
<1>4. Told'
  BY <1>1, <1>3, ToldStays DEF Told
<1>5. Routed'
  BY RoutedStays DEF Routed
<1>6. RequestShape' /\ WindowShape'
  BY <1>2 DEF SidecarsInv, SidecarsShape, RequestShape, WindowShape
<1> QED BY <1>1, <1>3, <1>4, <1>5, <1>6 DEF SidecarsInv, SidecarsShape

LEMMA ClosingMoves ==
    ASSUME SidecarsInv, NEW w \in Windows, NEW r \in Closing,
           r.step \in {"checks", "kills"} => r.cwd \in Cwds, r.step # "open",
           closing' = [closing EXCEPT ![w] = r]
    PROVE  /\ ClosingShape' /\ closing'[w] = r
           /\ \A v \in Windows : closing'[v].step = "open" => closing[v].step = "open" /\ v # w
<1>1. closing \in [Windows -> Closing]
      /\ \A v \in Windows : closing[v].step \in {"checks", "kills"} => closing[v].cwd \in Cwds
  BY DEF SidecarsInv, SidecarsShape, ClosingShape
<1>2. closing' \in [Windows -> Closing] /\ closing'[w] = r /\ \A v \in Windows \ {w} : closing'[v] = closing[v]
  BY <1>1
<1> QED BY <1>1, <1>2 DEF ClosingShape

LEMMA CloseKillsSound ==
    ASSUME SidecarsInv, NEW w \in Windows, CloseKills(w)
    PROVE  SidecarsInv'
<1> DEFINE r == [closing[w] EXCEPT !.step = "closed"]
<1>1. closing[w] \in Closing /\ closing[w].step = "kills" /\ closing[w].cwd \in Cwds
  BY DEF SidecarsInv, SidecarsShape, ClosingShape, CloseKills
<1>2. r \in Closing /\ r.step = "closed"
  BY <1>1 DEF Closing
<1>3. closing' = [closing EXCEPT ![w] = r]
  BY DEF CloseKills, Closes
<1> HIDE DEF r
<1>4. ClosingShape' /\ \A v \in Windows : closing'[v].step = "open" => closing[v].step = "open"
  BY <1>2, <1>3, ClosingMoves
<1>5. RestShape' /\ Kills(closing[w].cwd) /\ UNCHANGED <<active, request, guard, gui>>
  BY DEF CloseKills, SidecarsInv, SidecarsShape, RestShape
<1> QED BY <1>1, <1>4, <1>5, KillsSound

LEMMA DeleteWorkspaceSound ==
    ASSUME SidecarsInv, NEW c \in Cwds, DeleteWorkspace(c)
    PROVE  SidecarsInv'
<1>1. RestShape'
  BY SidecarsAssumption DEF DeleteWorkspace, Happens, SidecarsInv, SidecarsShape, RestShape, SidecarsAssumption
<1>2. ClosingShape' /\ closing' = closing /\ Kills(c) /\ UNCHANGED <<active, request, guard, gui>>
  BY DEF DeleteWorkspace, SidecarsInv, SidecarsShape, ClosingShape
<1> QED BY <1>1, <1>2, KillsSound

\* Nothing but what is known of w's closing, and of the directory its commands go to.
LEMMA ClosingSound ==
    ASSUME SidecarsInv, NEW w \in Windows, ClosingShape', WindowShape', RestShape',
           \A v \in Windows : closing'[v].step = "open" => closing[v].step = "open" /\ active'[v] = active[v],
           UNCHANGED <<sidecars, procs, request, guard, gui>>
    PROVE  SidecarsInv'
<1>1. IF request[w].step \in CarrySteps THEN TRUE ELSE request[w].proc = 0
  BY DEF SidecarsInv, Carried
<1>2. /\ Carried' /\ MapSound' /\ ProcShape' /\ GoOn(procs, procs') /\ Procs' = Procs
      /\ \A p \in Procs : Watched(p) => Watched(p)'
  BY <1>1, OnlyAsks
<1>3. Told'
  BY <1>2, ToldStays DEF Told
<1>4. Routed'
  BY DEF SidecarsInv, Routed, RoutedAt
<1>5. RequestShape'
  BY <1>2 DEF SidecarsInv, SidecarsShape, RequestShape
<1> QED BY <1>2, <1>3, <1>4, <1>5 DEF SidecarsInv, SidecarsShape

LEMMA CloseSound ==
    ASSUME SidecarsInv, NEW w \in Windows, Close(w)
    PROVE  SidecarsInv'
<1> DEFINE r == [step |-> IF active[w] = NoCwd THEN "closed" ELSE "checks", cwd |-> active[w]]
<1>1. active \in [Windows -> Cwds \cup {NoCwd}] /\ active[w] \in Cwds \cup {NoCwd}
  BY RequestFacts
<1>2. r \in Closing /\ (r.step \in {"checks", "kills"} => r.cwd \in Cwds) /\ r.step # "open"
  BY <1>1 DEF Closing
<1>3. closing' = [closing EXCEPT ![w] = r]
  BY DEF Close
<1> HIDE DEF r
<1>4. ClosingShape' /\ \A v \in Windows : closing'[v].step = "open" => closing[v].step = "open" /\ v # w
  BY <1>2, <1>3, ClosingMoves
<1>5. active' \in [Windows -> Cwds \cup {NoCwd}] /\ \A v \in Windows \ {w} : active'[v] = active[v]
  BY <1>1 DEF Close
<1>6. WindowShape' /\ RestShape' /\ UNCHANGED <<sidecars, procs, request, guard, gui>>
  BY <1>5, SidecarsAssumption DEF Close, Happens, SidecarsInv, SidecarsShape, WindowShape, RestShape, SidecarsAssumption
<1> QED BY <1>4, <1>5, <1>6, ClosingSound

LEMMA CloseChecksSound ==
    ASSUME SidecarsInv, NEW w \in Windows, CloseChecks(w)
    PROVE  SidecarsInv'
<1>1. closing[w] \in Closing /\ closing[w].step = "checks" /\ closing[w].cwd \in Cwds
  BY DEF SidecarsInv, SidecarsShape, ClosingShape, CloseChecks
<1>2. PICK step \in {"closed", "kills"} : closing' = [closing EXCEPT ![w] = [closing[w] EXCEPT !.step = step]]
  BY DEF CloseChecks, Closes
<1> DEFINE r == [closing[w] EXCEPT !.step = step]
<1>3. r \in Closing /\ r.cwd = closing[w].cwd /\ r.step # "open"
  BY <1>1 DEF Closing
<1> HIDE DEF r
<1>4. ClosingShape' /\ \A v \in Windows : closing'[v].step = "open" => closing[v].step = "open"
  BY <1>1, <1>2, <1>3, ClosingMoves DEF r
<1>5. WindowShape' /\ RestShape' /\ UNCHANGED <<sidecars, procs, request, guard, gui, active>>
  BY DEF CloseChecks, SidecarsInv, SidecarsShape, WindowShape, RestShape
<1> QED BY <1>4, <1>5, ClosingSound

-----------------------------------------------------------------------------
(* New processes                                                           *)

LEMMA SpawnFacts ==
    ASSUME SidecarsInv, NEW c \in Cwds, NEW guarded \in BOOLEAN, Len(procs) < MaxSpawns,
           procs' = Append(procs, NewProc(c, guarded)), NEW n, n = Len(procs) + 1
    PROVE  /\ procs' \in Seq(Proc) /\ Len(procs') <= MaxSpawns
           /\ Procs' = Procs \cup {n} /\ n \notin Procs /\ n # 0 /\ n \in Nat
           /\ procs'[n].cwd = c /\ procs'[n].reader = "none"
           /\ \A p \in Procs : procs'[p] = procs[p]
<1> DEFINE new == NewProc(c, guarded)
<1>1. procs \in Seq(Proc) /\ Len(procs) \in Nat /\ Procs = 1 .. Len(procs) /\ MaxSpawns \in Nat
  BY ProcFacts, SidecarsAssumption DEF SidecarsAssumption
<1>2. new \in Proc /\ new.cwd = c /\ new.reader = "none"
  BY <1>1 DEF NewProc, Proc
<1> HIDE DEF new
<1>3. /\ procs' \in Seq(Proc) /\ Len(procs') = Len(procs) + 1 /\ procs'[Len(procs) + 1] = new
      /\ \A i \in 1 .. Len(procs) : procs'[i] = procs[i]
  BY <1>1, <1>2, AppendProperties DEF new
<1>4. Procs' = 1 .. Len(procs) + 1
  BY <1>3, LenProperties DEF Procs
<1>5. Len(procs') <= MaxSpawns
  BY <1>1, <1>3
<1>6. n \notin Procs /\ n # 0 /\ n \in Nat /\ 1 .. Len(procs) + 1 = (1 .. Len(procs)) \cup {n}
  BY <1>1
<1>7. procs'[n].cwd = c /\ procs'[n].reader = "none"
  BY <1>2, <1>3
<1> QED BY <1>1, <1>3, <1>4, <1>5, <1>6, <1>7

\* A process n has been started under c, which had none, and is still to come.
LEMMA SpawnSound ==
    ASSUME SidecarsInv, NEW n, n \notin Procs, n # 0, Procs' = Procs \cup {n},
           \A p \in Procs : procs'[p] = procs[p],
           procs'[n].cwd \in Cwds, procs'[n].reader = "none",
           sidecars' = sidecars, Coming(n)',
           \A p \in Procs : Coming(p)' <=> Coming(p),
           \A v \in Windows : \A p \in Procs : Activates(v, p)' <=> Activates(v, p)
    PROVE  MapSound' /\ \A p \in Procs : Watched(p) => Watched(p)'
<1>1. MapSound
  BY DEF SidecarsInv
<1>2. \A c \in Cwds : sidecars[c] \in {0} \cup Procs
  BY ProcFacts
<1>3. \A p \in Procs : procs[p].cwd \in Cwds
  BY ProcFacts DEF Proc
<1>4. ASSUME NEW c \in Cwds, sidecars'[c] # 0 PROVE procs'[sidecars'[c]].cwd = c
  BY <1>1, <1>2, <1>4 DEF MapSound
<1>5. ~InMap(n)'
  BY <1>2 DEF InMap
<1>6. \A p \in Procs : (InMap(p)' <=> InMap(p)) /\ (Dead(p)' <=> Dead(p))
  BY DEF InMap, Dead
<1>7. ASSUME NEW p \in Procs', InMap(p)'
      PROVE  /\ ~Coming(p)'
             /\ procs'[p].reader = "reading" \/ \E w \in Windows : Activates(w, p)'
  <2>1. p \in Procs /\ InMap(p)
    BY <1>5, <1>6, <1>7
  <2>2. ~Coming(p) /\ (procs[p].reader = "reading" \/ \E w \in Windows : Activates(w, p))
    BY <1>1, <2>1 DEF MapSound
  <2> QED BY <2>1, <2>2
<1>8. ASSUME NEW p \in Procs', ~Dead(p)', procs'[p].stdin PROVE InMap(p)' \/ Coming(p)'
  <2>1. CASE p = n
    BY <2>1
  <2>2. CASE p # n
    <3>1. p \in Procs /\ ~Dead(p) /\ procs[p].stdin
      BY <1>6, <1>8, <2>2
    <3>2. InMap(p) \/ Coming(p)
      BY <1>1, <3>1 DEF MapSound
    <3> QED BY <1>6, <3>1, <3>2
  <2> QED BY <2>1, <2>2
<1>9. MapSound'
  BY <1>4, <1>7, <1>8 DEF MapSound
<1>10. \A p \in Procs : Watched(p) => Watched(p)'
  BY WatchStays
<1> QED BY <1>9, <1>10

\* The processes that were there still are; nobody believes anything new.
LEMMA ToldStaysMore ==
    ASSUME SidecarsInv, NEW n, Procs' = Procs \cup {n}, \A p \in Procs : procs'[p] = procs[p],
           gui' = gui, \A p \in Procs : Watched(p) => Watched(p)'
    PROVE  Told'
<1> SUFFICES ASSUME NEW w \in Windows, gui[w].ready, ~gui[w].unaware
             PROVE  \E p \in Procs' : procs'[p].cwd = gui[w].shows /\ Watched(p)'
  BY DEF Told, ToldAt
<1>1. PICK p \in Procs : procs[p].cwd = gui[w].shows /\ Watched(p)
  BY DEF SidecarsInv, Told, ToldAt
<1>2. p \in Procs' /\ procs'[p].cwd = gui[w].shows /\ Watched(p)'
  BY <1>1
<1> QED BY <1>2

LEMMA InitSpawns ==
    ASSUME SidecarsInv, NEW w \in Windows, request[w].step = "checks",
           sidecars[request[w].cwd] = 0, Len(procs) < MaxSpawns,
           procs' = Append(procs, NewProc(request[w].cwd, FALSE)),
           request' = [request EXCEPT ![w].step = "asks", ![w].proc = Len(procs) + 1],
           UNCHANGED <<active, sidecars, restarting, closing, guard, scheduled, gui, happened>>
    PROVE  SidecarsInv'
<1>0. PICK c, n, r : /\ c = request[w].cwd /\ n = Len(procs) + 1
                     /\ r = [request[w] EXCEPT !.step = "asks", !.proc = n]
  OBVIOUS
<1>1. request \in [Windows -> Request] /\ request[w] \in Request /\ c \in Cwds
  BY <1>0, RequestFacts
<1>2. /\ procs' \in Seq(Proc) /\ Len(procs') <= MaxSpawns
      /\ Procs' = Procs \cup {n} /\ n \notin Procs /\ n # 0 /\ n \in Nat
      /\ procs'[n].cwd = c /\ procs'[n].reader = "none"
      /\ \A p \in Procs : procs'[p] = procs[p]
  <2>1. procs' = Append(procs, NewProc(c, FALSE)) /\ n = Len(procs) + 1 /\ FALSE \in BOOLEAN
    BY <1>0
  <2> QED BY <1>1, <2>1, SpawnFacts
<1>3. /\ r \in Request /\ r.step = "asks" /\ r.proc = n /\ r.cwd = c /\ r.restart = request[w].restart
  BY <1>0, <1>1, <1>2 DEF Request
<1>4. request' = [request EXCEPT ![w] = r]
  BY <1>0, <1>1
<1>5. procs'[n].cwd = c /\ procs'[n].reader = "none"
  BY <1>2
<1>6. RequestShape' /\ request'[w] = r /\ \A v \in Windows \ {w} : request'[v] = request[v]
  <2>1. r.cwd \in Cwds /\ r.proc \in {0} \cup Procs' /\ Procs \subseteq Procs'
    BY <1>1, <1>2, <1>3
  <2> QED BY <1>3, <1>4, <2>1, RequestMoves
<1>7. \A v \in Windows : request[v].proc \in {0} \cup Procs
  BY DEF SidecarsInv, SidecarsShape, RequestShape
<1>8. request[w].proc = 0 /\ guard \in {0} \cup Procs
  BY ProcFacts DEF SidecarsInv, Carried, CarrySteps
<1>9. Carried'
  <2>1. Carried
    BY DEF SidecarsInv
  <2>2. ASSUME NEW v \in Windows
        PROVE  IF request'[v].step \in CarrySteps
               THEN /\ request'[v].proc \in Procs' /\ request'[v].proc # guard'
                    /\ procs'[request'[v].proc].cwd = request'[v].cwd
                    /\ procs'[request'[v].proc].reader = "none"
               ELSE request'[v].proc = 0
    <3>1. CASE v = w
      <4>1. request'[v].proc = n /\ request'[v].cwd = c /\ request'[v].step = "asks"
        BY <1>3, <1>6, <3>1
      <4>2. n # guard' /\ n \in Procs'
        BY <1>2, <1>8
      <4> QED BY <1>5, <4>1, <4>2 DEF CarrySteps
    <3>2. CASE v # w
      <4>1. request'[v] = request[v] /\ guard' = guard
        BY <1>6, <3>2
      <4>2. CASE request[v].step \in CarrySteps
        <5>1. PICK q : q = request[v].proc
          OBVIOUS
        <5>2. q \in Procs /\ q # guard /\ procs[q].cwd = request[v].cwd /\ procs[q].reader = "none"
          BY <2>1, <4>2, <5>1 DEF Carried
        <5>3. q \in Procs' /\ procs'[q] = procs[q]
          BY <1>2, <5>2
        <5> QED BY <4>1, <4>2, <5>1, <5>2, <5>3
      <4>3. CASE request[v].step \notin CarrySteps
        BY <2>1, <4>1, <4>3 DEF Carried
      <4> QED BY <4>2, <4>3
    <3> QED BY <3>1, <3>2
  <2>3. ASSUME NEW v \in Windows, NEW u \in Windows, request'[v].proc = request'[u].proc, request'[v].proc # 0
        PROVE  v = u
    <3>1. request'[w].proc = n /\ \A x \in Windows \ {w} : request'[x].proc = request[x].proc
      BY <1>3, <1>6
    <3>2. \A x \in Windows \ {w} : request'[x].proc # n
      BY <1>2, <1>7, <3>1
    <3>3. (v = w) = (u = w)
      BY <2>3, <3>1, <3>2
    <3>4. CASE v # w /\ u # w
      <4>1. request[v].proc = request[u].proc /\ request[v].proc # 0
        BY <2>3, <3>1, <3>4
      <4> QED BY <2>1, <4>1 DEF Carried
    <3> QED BY <3>3, <3>4
  <2>4. guard' # 0 => procs'[guard'].reader = "none"
    BY <1>2, <1>8, <2>1 DEF Carried
  <2> QED BY <2>2, <2>3, <2>4 DEF Carried
<1>10. MapSound' /\ \A p \in Procs : Watched(p) => Watched(p)'
  <2>1. Coming(n)'
    BY <1>3, <1>6 DEF Coming, StartSteps
  <2>2. ASSUME NEW p \in Procs PROVE Coming(p)' <=> Coming(p)
    <3>1. p # n /\ p # 0
      BY <1>2, ProcFacts
    <3>2. \A v \in Windows : (request'[v].proc = p /\ request'[v].step \in StartSteps)
                              <=> (request[v].proc = p /\ request[v].step \in StartSteps)
      BY <1>3, <1>6, <1>8, <3>1
    <3> QED BY <3>2 DEF Coming
  <2>3. ASSUME NEW v \in Windows, NEW p \in Procs PROVE Activates(v, p)' <=> Activates(v, p)
    <3>1. p # n /\ p # 0
      BY <1>2, ProcFacts
    <3> QED BY <1>3, <1>6, <1>8, <3>1 DEF Activates
  <2>4. procs'[n].cwd \in Cwds /\ procs'[n].reader = "none" /\ sidecars' = sidecars
    BY <1>1, <1>5
  <2> QED BY <1>2, <2>1, <2>2, <2>3, <2>4, SpawnSound
<1>11. Told'
  BY <1>2, <1>10, ToldStaysMore
<1>12. ASSUME NEW v \in Windows PROVE RoutedAt(v)'
  <2>1. request'[v].cwd = request[v].cwd /\ request'[v].restart = request[v].restart
        /\ (request'[v].step = "joins" <=> request[v].step = "joins")
    BY <1>0, <1>3, <1>6
  <2> QED BY <2>1, RoutedStays
<1>13. ProcShape'
  BY <1>2, <1>8 DEF SidecarsInv, SidecarsShape, ProcShape
<1> QED BY <1>6, <1>9, <1>10, <1>11, <1>12, <1>13
        DEF SidecarsInv, SidecarsShape, ClosingShape, WindowShape, RestShape, Routed

LEMMA InitChecksSound ==
    ASSUME SidecarsInv, NEW w \in Windows, InitChecks(w)
    PROVE  SidecarsInv'
<1>1. CASE active' = [active EXCEPT ![w] = request[w].cwd] /\ Advances(w, "joins") /\ UNCHANGED procs
  <2>1. /\ request[w].step = "checks"
        /\ UNCHANGED <<procs, sidecars, restarting, closing, guard, scheduled, gui, happened>>
    BY <1>1 DEF InitChecks
  <2> QED BY <1>1, <2>1, JoinStarts
<1>2. CASE /\ sidecars[request[w].cwd] = 0 /\ Len(procs) < MaxSpawns
           /\ procs' = Append(procs, NewProc(request[w].cwd, FALSE))
           /\ request' = [request EXCEPT ![w].step = "asks", ![w].proc = Len(procs) + 1]
           /\ UNCHANGED active
  <2>1. /\ request[w].step = "checks"
        /\ UNCHANGED <<active, sidecars, restarting, closing, guard, scheduled, gui, happened>>
    BY <1>2 DEF InitChecks
  <2> QED BY <1>2, <2>1, InitSpawns
<1> QED BY <1>1, <1>2 DEF InitChecks

LEMMA GuardSpawnsSound ==
    ASSUME SidecarsInv, NEW c \in Cwds, GuardSpawns(c)
    PROVE  SidecarsInv'
<1>0. PICK n : n = Len(procs) + 1
  OBVIOUS
<1>1. /\ guard = 0 /\ Len(procs) < MaxSpawns /\ procs' = Append(procs, NewProc(c, TRUE)) /\ guard' = n
      /\ sidecars' = sidecars /\ active' = active /\ restarting' = restarting /\ request' = request
      /\ closing' = closing /\ scheduled' = scheduled /\ gui' = gui /\ happened' = happened
  BY <1>0 DEF GuardSpawns
<1>2. /\ procs' \in Seq(Proc) /\ Len(procs') <= MaxSpawns
      /\ Procs' = Procs \cup {n} /\ n \notin Procs /\ n # 0 /\ n \in Nat
      /\ procs'[n].cwd = c /\ procs'[n].reader = "none"
      /\ \A p \in Procs : procs'[p] = procs[p]
  <2>1. n = Len(procs) + 1 /\ TRUE \in BOOLEAN
    BY <1>0
  <2> QED BY <1>1, <2>1, SpawnFacts
<1>3. procs'[n].cwd = c /\ procs'[n].reader = "none"
  BY <1>2
<1>4. \A v \in Windows : request[v].proc \in {0} \cup Procs
  BY DEF SidecarsInv, SidecarsShape, RequestShape
<1>5. Carried'
  <2>1. Carried
    BY DEF SidecarsInv
  <2>2. ASSUME NEW v \in Windows, request'[v].step \in CarrySteps
        PROVE  /\ request'[v].proc \in Procs' /\ request'[v].proc # guard'
               /\ procs'[request'[v].proc].cwd = request'[v].cwd
               /\ procs'[request'[v].proc].reader = "none"
    <3>1. /\ request[v].proc \in Procs /\ procs[request[v].proc].cwd = request[v].cwd
          /\ procs[request[v].proc].reader = "none"
      BY <1>1, <2>1, <2>2 DEF Carried
    <3> QED BY <1>1, <1>2, <3>1
  <2>3. \A v \in Windows : IF request'[v].step \in CarrySteps THEN TRUE ELSE request'[v].proc = 0
    BY <1>1, <2>1 DEF Carried
  <2>4. \A v, u \in Windows : request'[v].proc = request'[u].proc /\ request'[v].proc # 0 => v = u
    BY <1>1, <2>1 DEF Carried
  <2> QED BY <1>1, <1>3, <2>2, <2>3, <2>4 DEF Carried
<1>6. MapSound' /\ \A p \in Procs : Watched(p) => Watched(p)'
  <2>1. Coming(n)' /\ procs'[n].cwd \in Cwds
    BY <1>1, <1>3 DEF Coming
  <2>2. ASSUME NEW p \in Procs PROVE Coming(p)' <=> Coming(p)
    <3>1. p # n /\ p # 0
      BY <1>2, ProcFacts
    <3> QED BY <1>1, <3>1 DEF Coming
  <2>3. \A v \in Windows : \A p \in Procs : Activates(v, p)' <=> Activates(v, p)
    BY <1>1 DEF Activates
  <2> QED BY <1>1, <1>2, <1>3, <2>1, <2>2, <2>3, SpawnSound
<1>7. Told'
  BY <1>1, <1>2, <1>6, ToldStaysMore
<1>8. Routed'
  BY <1>1, RoutedStays DEF Routed
<1>9. ProcShape' /\ RequestShape'
  BY <1>1, <1>2 DEF SidecarsInv, SidecarsShape, ProcShape, RequestShape
<1> QED BY <1>1, <1>5, <1>6, <1>7, <1>8, <1>9
        DEF SidecarsInv, SidecarsShape, ClosingShape, WindowShape, RestShape

-----------------------------------------------------------------------------
(* Processes put into the map                                              *)

\* p is put into the map under its directory; what was there has lost its input.
LEMMA InsertSound ==
    ASSUME SidecarsInv, NEW p \in Procs, GoOn(procs, procs'), NEW c, c = procs[p].cwd,
           sidecars' = [sidecars EXCEPT ![c] = p],
           sidecars[c] # 0 => ~procs'[sidecars[c]].stdin,
           ~Coming(p)',
           procs'[p].reader = "reading" \/ \E v \in Windows : Activates(v, p)',
           \A q \in Procs \ {p} : /\ Coming(q)' <=> Coming(q)
                                  /\ procs'[q].reader = procs[q].reader
                                  /\ \A v \in Windows : Activates(v, q)' <=> Activates(v, q)
    PROVE  MapSound'
<1>1. MapSound /\ sidecars \in [Cwds -> {0} \cup Procs] /\ c \in Cwds /\ procs[p] \in Proc /\ p # 0
  BY ProcFacts DEF SidecarsInv, Proc
<1>2. /\ Procs' = Procs
      /\ \A q \in Procs : /\ procs'[q].cwd = procs[q].cwd /\ (Dead(q) => Dead(q)')
                          /\ procs'[q].stdin => procs[q].stdin
  BY GoOnFacts
<1>3. sidecars'[c] = p /\ \A d \in Cwds \ {c} : sidecars'[d] = sidecars[d]
  BY <1>1
<1>4. \A q \in Procs : procs[q].cwd \in Cwds
  BY ProcFacts DEF Proc
<1>5. ASSUME NEW d \in Cwds, sidecars'[d] # 0 PROVE procs'[sidecars'[d]].cwd = d
  <2>1. CASE d = c
    BY <1>2, <1>3, <2>1
  <2>2. CASE d # c
    <3>1. sidecars'[d] = sidecars[d] /\ sidecars[d] \in Procs
      BY <1>1, <1>3, <1>5, <2>2
    <3> QED BY <1>1, <1>2, <1>5, <3>1 DEF MapSound
  <2> QED BY <2>1, <2>2
<1>6. ASSUME NEW q \in Procs, q # p, InMap(q)' PROVE InMap(q)
  <2>1. sidecars'[procs[q].cwd] = q
    BY <1>2, <1>6 DEF InMap
  <2>2. procs[q].cwd # c
    BY <1>3, <1>6, <2>1
  <2> QED BY <1>3, <1>4, <2>1, <2>2 DEF InMap
<1>7. ASSUME NEW q \in Procs, InMap(q)'
      PROVE  /\ ~Coming(q)'
             /\ procs'[q].reader = "reading" \/ \E w \in Windows : Activates(w, q)'
  <2>1. CASE q = p
    BY <2>1
  <2>2. CASE q # p
    <3>1. ~Coming(q) /\ (procs[q].reader = "reading" \/ \E w \in Windows : Activates(w, q))
      BY <1>1, <1>6, <1>7, <2>2 DEF MapSound
    <3> QED BY <2>2, <3>1
  <2> QED BY <2>1, <2>2
<1>8. ASSUME NEW q \in Procs, ~Dead(q)', procs'[q].stdin PROVE InMap(q)' \/ Coming(q)'
  <2>1. CASE q = p
    BY <1>2, <1>3, <2>1 DEF InMap
  <2>2. CASE q # p
    <3>1. InMap(q) \/ Coming(q)
      BY <1>1, <1>2, <1>8 DEF MapSound
    <3>2. ASSUME InMap(q) PROVE InMap(q)'
      <4>1. sidecars[procs[q].cwd] = q /\ q # 0
        BY <3>2, ProcFacts DEF InMap
      <4>2. procs[q].cwd # c
        BY <1>8, <4>1
      <4> QED BY <1>2, <1>3, <1>4, <4>1, <4>2 DEF InMap
    <3> QED BY <2>2, <3>1, <3>2
  <2> QED BY <2>1, <2>2
<1> QED BY <1>2, <1>5, <1>7, <1>8 DEF MapSound

LEMMA EnteredFacts ==
    ASSUME SidecarsInv, NEW p \in Procs, NEW c, c = procs[p].cwd
    PROVE  /\ GoOn(procs, Entered(p)) /\ c \in Cwds
           /\ \A i \in Procs : Entered(p)[i].reader = procs[i].reader
           /\ sidecars[c] # 0 => ~Entered(p)[sidecars[c]].stdin
<1>1. c \in Cwds /\ procs \in Seq(Proc) /\ sidecars[c] \in {0} \cup Procs
  <2>1. procs[p] \in Proc
    BY ProcFacts
  <2>2. c \in Cwds
    BY <2>1 DEF Proc
  <2> QED BY <2>2, ProcFacts
<1>2. Loses(procs, sidecars[c], Entered(p))
  BY <1>1, DroppedLoses DEF Entered, Procs
<1> QED BY <1>1, <1>2, LosesGoesOn DEF Procs

LEMMA InitInsertsSound ==
    ASSUME SidecarsInv, NEW w \in Windows, InitInserts(w)
    PROVE  SidecarsInv'
<1>0. PICK p, c : p = request[w].proc /\ c = request[w].cwd
  OBVIOUS
<1>1. /\ request[w].step = "inserts" /\ procs' = Entered(p) /\ sidecars' = [sidecars EXCEPT ![c] = p]
      /\ Advances(w, "activates")
      /\ active' = active /\ restarting' = restarting /\ closing' = closing /\ guard' = guard
      /\ scheduled' = scheduled /\ gui' = gui /\ happened' = happened
  BY <1>0 DEF InitInserts
<1>2. p \in Procs /\ p # guard /\ procs[p].cwd = c /\ p # 0
  BY <1>0, <1>1, ProcFacts DEF SidecarsInv, Carried, CarrySteps
<1>3. /\ GoOn(procs, procs') /\ c \in Cwds
      /\ \A i \in Procs : procs'[i].reader = procs[i].reader
      /\ sidecars[c] # 0 => ~procs'[sidecars[c]].stdin
  BY <1>1, <1>2, EnteredFacts
<1>4. Procs' = Procs
  BY <1>3, GoOnFacts
<1>5. /\ RequestShape' /\ request'[w].step = "activates" /\ request'[w].cwd = c
      /\ request'[w].proc = p /\ request'[w].restart = request[w].restart
      /\ \A v \in Windows \ {w} : request'[v] = request[v]
  BY <1>1, <1>4, <1>0, AdvanceFacts
<1>6. \A v \in Windows \ {w} : request[v].proc # p
  BY <1>0, <1>2 DEF SidecarsInv, Carried
<1>7. \A v \in Windows : request'[v].proc = request[v].proc
  BY <1>0, <1>5
<1>8. Carried'
  <2>1. \A v \in Windows : IF request[v].step \in CarrySteps THEN TRUE ELSE request[v].proc = 0
    BY DEF SidecarsInv, Carried
  <2>2. \A v \in Windows :
            IF request'[v].step \in CarrySteps
            THEN /\ request[v].step \in CarrySteps /\ request'[v].proc = request[v].proc
                 /\ request'[v].cwd = request[v].cwd
            ELSE request'[v].proc = 0
    BY <1>0, <1>1, <1>5, <1>7, <2>1 DEF CarrySteps
  <2> QED BY <1>1, <1>3, <2>2, CarriedStays
<1>9. ASSUME NEW q \in Procs \ {p}
      PROVE  /\ Coming(q)' <=> Coming(q)
             /\ \A v \in Windows : Activates(v, q)' <=> Activates(v, q)
  <2>1. \A v \in Windows : request[v].proc = q => v # w
    BY <1>5, <1>7, <1>9
  <2>2. \A v \in Windows : request[v].proc = q => request'[v].step = request[v].step
    BY <1>5, <2>1
  <2> QED BY <1>1, <1>7, <2>2 DEF Coming, Activates
<1>10. Activates(w, p)'
  BY <1>5 DEF Activates
<1>11. ~Coming(p)'
  <2>1. ASSUME NEW v \in Windows, request'[v].proc = p PROVE request'[v].step \notin StartSteps
    <3>1. v = w
      BY <1>6, <1>7, <2>1
    <3> QED BY <1>5, <3>1 DEF StartSteps
  <2> QED BY <1>1, <1>2, <2>1 DEF Coming
<1>12. MapSound'
  BY <1>1, <1>2, <1>3, <1>9, <1>10, <1>11, InsertSound
<1>13. \A q \in Procs : Watched(q) => Watched(q)'
  <2>1. \A q \in Procs, v \in Windows : Activates(v, q) => Activates(v, q)'
    BY <1>1, <1>5, <1>7 DEF Activates
  <2> QED BY <1>3, <2>1, WatchStays
<1>14. Told'
  BY <1>1, <1>3, <1>13, ToldStays DEF Told
<1>15. Routed'
  <2>1. \A v \in Windows : /\ request'[v].cwd = request[v].cwd /\ request'[v].restart = request[v].restart
                           /\ (request'[v].step = "joins" <=> request[v].step = "joins")
    BY <1>0, <1>1, <1>5
  <2> QED BY <1>1, <2>1, RoutedStays DEF Routed
<1>16. ProcShape'
  <2>1. sidecars' \in [Cwds -> {0} \cup Procs]
    BY <1>1, <1>2, ProcFacts
  <2> QED BY <1>1, <1>3, <1>4, <2>1, GoOnFacts, ProcFacts DEF ProcShape
<1> QED BY <1>1, <1>5, <1>8, <1>12, <1>14, <1>15, <1>16
        DEF SidecarsInv, SidecarsShape, ClosingShape, WindowShape, RestShape

\* One process gets a reader.
LEMMA ReadingFacts ==
    ASSUME NEW P \in Seq(Proc), NEW p \in DOMAIN P
    PROVE  /\ GoOn(P, Reading(P, p)) /\ Reading(P, p)[p].reader = "reading"
           /\ \A i \in DOMAIN P : Reading(P, p)[i].stdin = P[i].stdin
           /\ \A i \in DOMAIN P \ {p} : Reading(P, p)[i].reader = P[i].reader
<1> DEFINE r == [P[p] EXCEPT !.reader = "reading"]
<1>1. DOMAIN P = 1 .. Len(P) /\ P[p] \in Proc
  BY LenProperties, ElementOfSeq
<1>2. /\ r \in Proc /\ r.reader = "reading" /\ r.cwd = P[p].cwd /\ r.run = P[p].run
      /\ r.stdin = P[p].stdin
  BY <1>1 DEF Proc
<1>3. Reading(P, p) = [P EXCEPT ![p] = r]
  BY DEF Reading
<1> HIDE DEF r
<1>4. PICK Q : Q = [P EXCEPT ![p] = r]
  OBVIOUS
<1>5. Q \in Seq(Proc) /\ Len(Q) = Len(P) /\ \A i \in DOMAIN P : Q[i] = IF i = p THEN r ELSE P[i]
  BY <1>2, <1>4, OneChanges
<1>6. /\ GoOn(P, Q) /\ Q[p].reader = "reading"
      /\ \A i \in DOMAIN P : Q[i].stdin = P[i].stdin
      /\ \A i \in DOMAIN P \ {p} : Q[i].reader = P[i].reader
  BY <1>2, <1>5 DEF GoOn
<1> QED BY <1>3, <1>4, <1>6

LEMMA InitActivatesSound ==
    ASSUME SidecarsInv, NEW w \in Windows, InitActivates(w)
    PROVE  SidecarsInv'
<1>0. PICK p : p = request[w].proc
  OBVIOUS
<1>1. /\ request[w].step = "activates" /\ active' = [active EXCEPT ![w] = request[w].cwd]
      /\ procs' = Reading(procs, p) /\ Succeeds(w)
      /\ sidecars' = sidecars /\ closing' = closing /\ guard' = guard
      /\ scheduled' = scheduled /\ happened' = happened
  BY <1>0 DEF InitActivates
<1>2. p \in Procs /\ p # guard /\ procs[p].cwd = request[w].cwd /\ p # 0 /\ request[w].cwd \in Cwds
  BY <1>0, <1>1, ProcFacts, RequestFacts DEF SidecarsInv, Carried, CarrySteps
<1>3. /\ GoOn(procs, procs') /\ procs'[p].reader = "reading"
      /\ \A i \in Procs \ {p} : procs'[i].reader = procs[i].reader
  BY <1>1, <1>2, ProcFacts, ReadingFacts DEF Procs
<1>4. Procs' = Procs /\ Len(procs') <= MaxSpawns /\ procs' \in Seq(Proc) /\ procs'[p].cwd = procs[p].cwd
  BY <1>2, <1>3, GoOnFacts
<1>5. /\ request' = [request EXCEPT ![w] = NoRequest]
      /\ restarting' \subseteq Cwds /\ gui' \in [Windows -> Window]
      /\ gui'[w].shows = request[w].cwd
      /\ \A v \in Windows \ {w} : gui'[v] = gui[v]
  BY <1>1, SucceedsFacts
<1>6. /\ RequestShape' /\ request'[w] = NoRequest
      /\ \A v \in Windows \ {w} : request'[v] = request[v]
  BY <1>4, <1>5, NoRequestIs, RequestMoves
<1>7. \A v \in Windows \ {w} : request[v].proc # p
  BY <1>0, <1>2 DEF SidecarsInv, Carried
<1>8. Carried'
  <2>1. \A v \in Windows : IF request[v].step \in CarrySteps THEN TRUE ELSE request[v].proc = 0
    BY DEF SidecarsInv, Carried
  <2>2. \A v \in Windows :
            IF request'[v].step \in CarrySteps
            THEN /\ request[v].step \in CarrySteps /\ request'[v].proc = request[v].proc
                 /\ request'[v].cwd = request[v].cwd
            ELSE request'[v].proc = 0
    BY <1>6, <2>1, NoRequestIs DEF CarrySteps
  <2>3. \A v \in Windows : request'[v].proc # p
    BY <1>2, <1>6, <1>7, NoRequestIs
  <2> QED BY <1>1, <1>2, <1>3, <2>2, <2>3, CarriedStays
<1>9. ASSUME NEW q \in Procs, NEW v \in Windows, Activates(v, q)
      PROVE  Activates(v, q)' \/ procs'[q].reader = "reading"
  <2>1. CASE v = w
    BY <1>0, <1>3, <1>9, <2>1 DEF Activates
  <2>2. CASE v # w
    BY <1>6, <1>9, <2>2 DEF Activates
  <2> QED BY <2>1, <2>2
<1>10. \A q : Coming(q)' <=> Coming(q)
  <2>1. \A v \in Windows : request'[v].step \in StartSteps <=> request[v].step \in StartSteps
    BY <1>1, <1>6, NoRequestIs DEF StartSteps
  <2>2. \A v \in Windows : request[v].step \in StartSteps => request'[v].proc = request[v].proc
    BY <1>1, <1>6 DEF StartSteps
  <2> QED BY <1>1, <2>1, <2>2 DEF Coming
<1>11. MapSound'
  BY <1>1, <1>3, <1>9, <1>10, MapStays
<1>12. ASSUME NEW q \in Procs, Watched(q) PROVE Watched(q)'
  <2>1. procs[q].reader \in {"reading", "telling"} => procs'[q].reader \in {"reading", "telling"}
    BY <1>3
  <2> QED BY <1>9, <1>12, <2>1, WatchStays
<1>13. ASSUME NEW v \in Windows PROVE ToldAt(v)'
  <2>1. CASE v = w
    <3>1. p \in Procs' /\ procs'[p].cwd = gui'[v].shows /\ Watched(p)'
      BY <1>2, <1>3, <1>4, <1>5, <2>1 DEF Watched
    <3> QED BY <3>1 DEF ToldAt
  <2>2. CASE v # w
    BY <1>3, <1>5, <1>12, <2>2, ToldStays
  <2> QED BY <2>1, <2>2
<1>14. /\ active' \in [Windows -> Cwds \cup {NoCwd}] /\ active'[w] = request[w].cwd
       /\ \A v \in Windows \ {w} : active'[v] = active[v]
  BY <1>1, <1>2, RequestFacts
<1>15. ASSUME NEW v \in Windows PROVE RoutedAt(v)'
  <2>1. CASE v = w
    BY <1>5, <1>6, <1>14, <2>1, NoRequestIs DEF RoutedAt
  <2>2. CASE v # w
    BY <1>1, <1>5, <1>6, <1>14, <2>2, RoutedStays
  <2> QED BY <2>1, <2>2
<1>16. ProcShape'
  BY <1>1, <1>4, ProcFacts DEF ProcShape
<1> QED BY <1>1, <1>5, <1>6, <1>8, <1>11, <1>13, <1>14, <1>15, <1>16
        DEF SidecarsInv, SidecarsShape, ClosingShape, WindowShape, RestShape, Told, Routed

LEMMA GuardInsertsSound ==
    ASSUME SidecarsInv, GuardInserts
    PROVE  SidecarsInv'
<1>0. PICK p, c, Q : p = guard /\ c = procs[guard].cwd /\ Q = Entered(guard)
  OBVIOUS
<1>1. /\ p # 0 /\ procs' = Reading(Q, p) /\ sidecars' = [sidecars EXCEPT ![c] = p] /\ guard' = 0
      /\ active' = active /\ restarting' = restarting /\ request' = request /\ closing' = closing
      /\ scheduled' = scheduled /\ gui' = gui /\ happened' = happened
  BY <1>0 DEF GuardInserts
<1>2. p \in Procs
  BY <1>0, <1>1, ProcFacts
<1>3. /\ GoOn(procs, Q) /\ c \in Cwds
      /\ \A i \in Procs : Q[i].reader = procs[i].reader
      /\ sidecars[c] # 0 => ~Q[sidecars[c]].stdin
  BY <1>0, <1>2, EnteredFacts
<1>4. Q \in Seq(Proc) /\ DOMAIN Q = Procs /\ Len(Q) = Len(procs)
  <2>1. Q \in Seq(Proc) /\ Len(Q) = Len(procs)
    BY <1>3 DEF GoOn
  <2> QED BY <2>1, LenProperties, ProcFacts
<1>5. /\ GoOn(Q, procs') /\ procs'[p].reader = "reading"
      /\ \A i \in Procs : procs'[i].stdin = Q[i].stdin
      /\ \A i \in Procs \ {p} : procs'[i].reader = Q[i].reader
  BY <1>1, <1>2, <1>4, ReadingFacts
<1>6. GoOn(procs, procs')
  BY <1>3, <1>4, <1>5 DEF GoOn, Procs
<1>7. Procs' = Procs /\ Len(procs') <= MaxSpawns /\ procs' \in Seq(Proc)
  BY <1>6, GoOnFacts
<1>8. \A i \in Procs \ {p} : procs'[i].reader = procs[i].reader
  BY <1>3, <1>5
<1>9. sidecars[c] # 0 => ~procs'[sidecars[c]].stdin
  BY <1>3, <1>5, ProcFacts
<1>10. \A v \in Windows : request[v].proc # p
  BY <1>0, <1>1, RequestFacts DEF SidecarsInv, Carried
<1>11. Carried'
  <2>1. \A v \in Windows : IF request'[v].step \in CarrySteps THEN TRUE ELSE request'[v].proc = 0
    BY <1>1 DEF SidecarsInv, Carried
  <2>2. guard' \in {guard, 0} /\ \A v \in Windows : request'[v] = request[v]
    BY <1>1
  <2>3. \A i \in Procs : \/ procs'[i].reader = procs[i].reader
                         \/ i # guard' /\ \A v \in Windows : request'[v].proc # i
    BY <1>1, <1>8, <1>10
  <2> QED BY <1>6, <2>1, <2>2, <2>3, CarriedStays
<1>12. \A q \in Procs \ {p} : /\ Coming(q)' <=> Coming(q)
                              /\ \A v \in Windows : Activates(v, q)' <=> Activates(v, q)
  <2> SUFFICES ASSUME NEW q \in Procs, q # p
               PROVE  /\ Coming(q)' <=> Coming(q)
                      /\ \A v \in Windows : Activates(v, q)' <=> Activates(v, q)
    OBVIOUS
  <2>1. q # 0
    BY ProcFacts
  <2>2. guard' # q /\ guard # q /\ request' = request
    BY <1>0, <1>1, <2>1
  <2> QED BY <2>2 DEF Coming, Activates
<1>13. ~Coming(p)'
  BY <1>1, <1>10 DEF Coming
<1>14. MapSound'
  BY <1>0, <1>1, <1>2, <1>5, <1>6, <1>8, <1>9, <1>12, <1>13, InsertSound
<1>15. ASSUME NEW q \in Procs, Watched(q) PROVE Watched(q)'
  <2>1. procs[q].reader \in {"reading", "telling"} => procs'[q].reader \in {"reading", "telling"}
    BY <1>5, <1>8
  <2>2. \A v \in Windows : Activates(v, q) => Activates(v, q)'
    BY <1>1 DEF Activates
  <2> QED BY <1>15, <2>1, <2>2, WatchStays
<1>16. Told'
  BY <1>1, <1>6, <1>15, ToldStays DEF Told
<1>17. Routed'
  BY <1>1, RoutedStays DEF Routed
<1>18. sidecars' \in [Cwds -> {0} \cup Procs]
  BY <1>1, <1>2, ProcFacts
<1>19. ProcShape' /\ RequestShape'
  BY <1>1, <1>7, <1>18 DEF SidecarsInv, SidecarsShape, ProcShape, RequestShape
<1> QED BY <1>1, <1>11, <1>14, <1>16, <1>17, <1>19
        DEF SidecarsInv, SidecarsShape, ClosingShape, WindowShape, RestShape

-----------------------------------------------------------------------------
(* Processes and their readers                                             *)

\* Only p changes, and maybe the map loses entries.
LEMMA ReaderStep ==
    ASSUME SidecarsInv, GoOn(procs, procs'), sidecars' \in [Cwds -> {0} \cup Procs],
           \A c \in Cwds : \/ sidecars'[c] = sidecars[c]
                           \/ sidecars'[c] = 0 /\ ~procs'[sidecars[c]].stdin
                           \/ sidecars'[c] = 0 /\ sidecars[c] = 0,
           NEW p \in Procs, \A q \in Procs \ {p} : procs'[q].reader = procs[q].reader,
           procs'[p].reader = procs[p].reader \/ procs[p].reader # "none",
           InMap(p)' /\ procs[p].reader = "reading" => procs'[p].reader = "reading",
           UNCHANGED <<request, guard>>
    PROVE  /\ Carried' /\ MapSound' /\ ProcShape' /\ RequestShape'
           /\ \A q \in Procs \ {p} : Watched(q) => Watched(q)'
<1>1. Procs' = Procs /\ Len(procs') <= MaxSpawns /\ procs' \in Seq(Proc)
  BY GoOnFacts
<1>2. \A v \in Windows : IF request[v].step \in CarrySteps THEN TRUE ELSE request[v].proc = 0
  BY DEF SidecarsInv, Carried
<1>3. ASSUME procs[p].reader # "none" PROVE p # guard /\ \A v \in Windows : request[v].proc # p
  <2>1. p # 0
    BY ProcFacts
  <2> QED BY <1>3, <2>1 DEF SidecarsInv, Carried
<1>4. \A q \in Procs : \/ procs'[q].reader = procs[q].reader
                       \/ q # guard' /\ \A v \in Windows : request'[v].proc # q
  BY <1>3
<1>5. Carried'
  BY <1>2, <1>4, CarriedStays
<1>6. \A q \in Procs : /\ Coming(q)' <=> Coming(q)
                       /\ \A v \in Windows : Activates(v, q)' <=> Activates(v, q)
  BY DEF Coming, Activates
<1>7. MapSound'
  BY <1>6, MapStays
<1>8. \A q \in Procs \ {p} : Watched(q) => Watched(q)'
  BY <1>6, WatchStays
<1>9. ProcShape' /\ RequestShape'
  BY <1>1, ProcFacts DEF ProcShape, RequestShape, SidecarsInv, SidecarsShape
<1> QED BY <1>5, <1>7, <1>8, <1>9

LEMMA OneGoesOn ==
    ASSUME SidecarsInv, NEW p \in Procs, NEW r \in Proc, r.cwd = procs[p].cwd,
           procs[p].run = "dead" => r.run = "dead", r.stdin => procs[p].stdin,
           procs' = [procs EXCEPT ![p] = r]
    PROVE  /\ GoOn(procs, procs') /\ procs'[p] = r
           /\ \A q \in Procs \ {p} : procs'[q] = procs[q]
<1>1. procs \in Seq(Proc) /\ Procs = DOMAIN procs
  BY ProcFacts DEF Procs
<1>2. /\ procs' \in Seq(Proc) /\ Len(procs') = Len(procs)
      /\ \A q \in Procs : procs'[q] = IF q = p THEN r ELSE procs[q]
  BY <1>1, OneChanges
<1> QED BY <1>1, <1>2 DEF GoOn

\* A step of p that neither a window nor the map notices.
LEMMA OneStepSound ==
    ASSUME SidecarsInv, NEW p \in Procs, NEW r \in Proc, r.cwd = procs[p].cwd,
           procs[p].run = "dead" => r.run = "dead", r.stdin => procs[p].stdin,
           r.reader = procs[p].reader, procs' = [procs EXCEPT ![p] = r], RestShape',
           UNCHANGED <<sidecars, active, request, closing, guard, gui>>
    PROVE  SidecarsInv'
<1>1. /\ GoOn(procs, procs') /\ procs'[p] = r
      /\ \A q \in Procs \ {p} : procs'[q] = procs[q]
  BY OneGoesOn
<1>2. \A q \in Procs : procs'[q].reader = procs[q].reader
  BY <1>1
<1>3. sidecars' \in [Cwds -> {0} \cup Procs] /\ \A c \in Cwds : sidecars'[c] = sidecars[c]
  BY ProcFacts
<1>4. /\ Carried' /\ MapSound' /\ ProcShape' /\ RequestShape'
      /\ \A q \in Procs \ {p} : Watched(q) => Watched(q)'
  BY <1>1, <1>2, <1>3, ReaderStep
<1>5. Watched(p) => Watched(p)'
  BY <1>2 DEF Watched
<1>6. Told'
  BY <1>1, <1>4, <1>5, ToldStays DEF Told
<1>7. Routed'
  BY RoutedStays DEF Routed
<1> QED BY <1>4, <1>6, <1>7 DEF SidecarsInv, SidecarsShape, ClosingShape, WindowShape

LEMMA ExitsSound ==
    ASSUME SidecarsInv, NEW p \in Procs, Exits(p)
    PROVE  SidecarsInv'
<1>1. PICK r : r = [procs[p] EXCEPT !.run = "dead"]
  OBVIOUS
<1>2. r \in Proc /\ r.cwd = procs[p].cwd /\ r.run = "dead" /\ r.stdin = procs[p].stdin /\ r.reader = procs[p].reader
  BY <1>1, ProcFacts DEF Proc
<1>3. procs' = [procs EXCEPT ![p] = r] /\ UNCHANGED <<sidecars, active, request, closing, guard, gui>>
  BY <1>1 DEF Exits
<1>4. RestShape'
  BY SidecarsAssumption DEF Exits, Happens, SidecarsInv, SidecarsShape, RestShape, SidecarsAssumption
<1> QED BY <1>2, <1>3, <1>4, OneStepSound

LEMMA ReaderReapedSound ==
    ASSUME SidecarsInv, NEW p \in Procs, ReaderReaped(p)
    PROVE  SidecarsInv'
<1>1. PICK r : r = [procs[p] EXCEPT !.reaps = 0]
  OBVIOUS
<1>2. /\ r \in Proc /\ r.cwd = procs[p].cwd /\ r.run = procs[p].run /\ r.stdin = procs[p].stdin
      /\ r.reader = procs[p].reader
  <2>1. 0 \in 0 .. MaxSpawns
    BY SidecarsAssumption DEF SidecarsAssumption
  <2>2. procs[p] \in Proc
    BY ProcFacts
  <2> QED BY <1>1, <2>1, <2>2 DEF Proc
<1>3. procs' = [procs EXCEPT ![p] = r] /\ UNCHANGED <<sidecars, active, request, closing, guard, gui>>
  BY <1>1 DEF ReaderReaped
<1>4. RestShape'
  BY DEF ReaderReaped, SidecarsInv, SidecarsShape, RestShape
<1> QED BY <1>2, <1>3, <1>4, OneStepSound

LEMMA ReaderRemovesSound ==
    ASSUME SidecarsInv, NEW p \in Procs, ReaderRemoves(p)
    PROVE  SidecarsInv'
<1>1. PICK c, k, Q, reaped : /\ c = procs[p].cwd /\ k = sidecars[c] /\ Q = Dropped(procs, k)
                             /\ reaped = IF k = 0 \/ Dead(k) THEN 0 ELSE k
  OBVIOUS
<1>2. procs[p] \in Proc /\ c \in Cwds /\ k \in {0} \cup Procs /\ procs \in Seq(Proc) /\ Procs = DOMAIN procs
  <2>1. procs[p] \in Proc
    BY ProcFacts
  <2>2. c \in Cwds
    BY <1>1, <2>1 DEF Proc
  <2> QED BY <1>1, <2>1, <2>2, ProcFacts DEF Procs
<1>3. Loses(procs, k, Q)
  BY <1>1, <1>2, DroppedLoses
<1>4. /\ GoOn(procs, Q) /\ (\A i \in Procs : Q[i].reader = procs[i].reader) /\ (k # 0 => ~Q[k].stdin)
      /\ Q \in Seq(Proc) /\ Len(Q) = Len(procs) /\ DOMAIN Q = Procs
  <2>1. Q \in Seq(Proc) /\ Len(Q) = Len(procs) /\ DOMAIN Q = Procs
    BY <1>2, <1>3 DEF Loses
  <2>2. /\ GoOn(procs, Q) /\ (\A i \in DOMAIN procs : Q[i].reader = procs[i].reader)
        /\ (k \in DOMAIN procs => ~Q[k].stdin)
    BY <1>2, <1>3, LosesGoesOn
  <2> QED BY <1>2, <2>1, <2>2
<1>5. reaped \in 0 .. MaxSpawns
  <2>1. Procs \subseteq 1 .. MaxSpawns
    BY ProcFacts, SidecarsAssumption DEF SidecarsInv, SidecarsShape, ProcShape, SidecarsAssumption
  <2>2. {0} \cup (1 .. MaxSpawns) = 0 .. MaxSpawns
    BY SidecarsAssumption DEF SidecarsAssumption
  <2>3. reaped \in {0} \cup Procs
    BY <1>1, <1>2
  <2> QED BY <2>1, <2>2, <2>3
<1>6. PICK r : r = [Q[p] EXCEPT !.reader = "telling", !.reaps = reaped]
  OBVIOUS
<1>7. Q[p] \in Proc
  BY <1>4, LenProperties, ElementOfSeq
<1>8. /\ r \in Proc /\ r.cwd = Q[p].cwd /\ r.run = Q[p].run /\ r.stdin = Q[p].stdin /\ r.reader = "telling"
  BY <1>5, <1>6, <1>7 DEF Proc
<1>9. /\ procs' = [Q EXCEPT ![p] = r] /\ sidecars' = [sidecars EXCEPT ![c] = 0]
      /\ procs[p].reader = "reading"
      /\ active' = active /\ restarting' = restarting /\ request' = request /\ closing' = closing
      /\ guard' = guard /\ scheduled' = scheduled /\ gui' = gui /\ happened' = happened
  <2>1. procs' = [Q EXCEPT ![p].reader = "telling", ![p].reaps = reaped]
    BY <1>1 DEF ReaderRemoves
  <2>2. [Q EXCEPT ![p].reader = "telling", ![p].reaps = reaped] = [Q EXCEPT ![p] = r]
    BY <1>4, <1>6, <1>7
  <2> QED BY <1>1, <2>1, <2>2 DEF ReaderRemoves
<1>10. /\ procs' \in Seq(Proc) /\ Len(procs') = Len(Q)
       /\ \A i \in Procs : procs'[i] = IF i = p THEN r ELSE Q[i]
  BY <1>4, <1>8, <1>9, OneChanges
<1>11. GoOn(procs, procs')
  BY <1>2, <1>4, <1>8, <1>10 DEF GoOn
<1>12. \A q \in Procs \ {p} : procs'[q].reader = procs[q].reader
  BY <1>4, <1>10
<1>13. k # 0 => ~procs'[k].stdin
  BY <1>2, <1>4, <1>8, <1>10
<1>14. sidecars \in [Cwds -> {0} \cup Procs] /\ p # 0 /\ Procs' = Procs
  BY <1>11, ProcFacts, GoOnFacts
<1>15. /\ sidecars' \in [Cwds -> {0} \cup Procs] /\ sidecars'[c] = 0
       /\ \A d \in Cwds \ {c} : sidecars'[d] = sidecars[d]
  BY <1>2, <1>9, <1>14
<1>16. \A d \in Cwds : \/ sidecars'[d] = sidecars[d]
                       \/ sidecars'[d] = 0 /\ ~procs'[sidecars[d]].stdin
                       \/ sidecars'[d] = 0 /\ sidecars[d] = 0
  BY <1>1, <1>13, <1>15
<1>17. ~InMap(p)'
  <2>1. procs'[p].cwd = c
    BY <1>1, <1>11 DEF GoOn, Procs
  <2> QED BY <1>14, <1>15, <2>1 DEF InMap
<1>18. /\ Carried' /\ MapSound' /\ ProcShape' /\ RequestShape'
       /\ \A q \in Procs \ {p} : Watched(q) => Watched(q)'
  BY <1>9, <1>11, <1>12, <1>15, <1>16, <1>17, ReaderStep
<1>19. Watched(p)'
  BY <1>8, <1>10 DEF Watched
<1>20. Told'
  BY <1>9, <1>11, <1>18, <1>19, ToldStays DEF Told
<1>21. Routed'
  BY <1>9, RoutedStays DEF Routed
<1> QED BY <1>9, <1>18, <1>20, <1>21
        DEF SidecarsInv, SidecarsShape, ClosingShape, WindowShape, RestShape

LEMMA ReaderTellsSound ==
    ASSUME SidecarsInv, NEW p \in Procs, ReaderTells(p)
    PROVE  SidecarsInv'
<1>1. PICK c : c = procs[p].cwd
  OBVIOUS
<1>2. PICK r : r = [procs[p] EXCEPT !.reader = "over"]
  OBVIOUS
<1>3. r \in Proc /\ r.cwd = procs[p].cwd /\ r.run = procs[p].run /\ r.stdin = procs[p].stdin
  BY <1>2, ProcFacts DEF Proc
<1>4. /\ procs' = [procs EXCEPT ![p] = r] /\ procs[p].reader = "telling"
      /\ sidecars' = sidecars /\ active' = active /\ restarting' = restarting /\ request' = request
      /\ closing' = closing /\ guard' = guard /\ scheduled' = scheduled /\ happened' = happened
  BY <1>2 DEF ReaderTells
<1>5. PICK silent \in BOOLEAN : gui' = [w \in Windows |-> IF silent THEN ExitMissed(w, c) ELSE ExitHeard(w, c)]
  BY <1>1 DEF ReaderTells
<1>6. ASSUME NEW g \in Window, NEW w \in Windows, gui[w] = g
      PROVE  \A h \in {ExitMissed(w, c), ExitHeard(w, c)} :
                 /\ h \in Window /\ h.shows = g.shows /\ (h.ready => g.ready)
                 /\ h.strayed = g.strayed
                 /\ ~h.unaware => ~g.unaware
                 /\ h.ready /\ ~h.unaware => g.shows # c
  <2>1. ASSUME NEW h, h = ExitMissed(w, c)
        PROVE  /\ h \in Window /\ h.shows = g.shows /\ (h.ready => g.ready)
               /\ h.strayed = g.strayed
               /\ ~h.unaware => ~g.unaware
               /\ h.ready /\ ~h.unaware => g.shows # c
    <3>1. PICK b \in BOOLEAN : b = (g.unaware \/ (g.shows = c /\ g.ready))
      BY DEF Window
    <3>2. h = [g EXCEPT !.unaware = b]
      BY <1>6, <2>1, <3>1 DEF ExitMissed
    <3>3. /\ h \in Window /\ h.shows = g.shows /\ h.ready = g.ready /\ h.strayed = g.strayed
          /\ h.unaware = b
      BY <3>1, <3>2 DEF Window
    <3> QED BY <3>1, <3>3
  <2>2. ASSUME NEW h, h = ExitHeard(w, c)
        PROVE  /\ h \in Window /\ h.shows = g.shows /\ (h.ready => g.ready)
               /\ h.strayed = g.strayed
               /\ ~h.unaware => ~g.unaware
               /\ h.ready /\ ~h.unaware => g.shows # c
    <3>1. CASE g.shows # c \/ ~g.ready
      BY <1>6, <2>2, <3>1 DEF ExitHeard
    <3>2. CASE ~(g.shows # c \/ ~g.ready) /\ g.hears /\ active[w] # NoCwd
      <4>1. h = [g EXCEPT !.ready = FALSE, !.hears = FALSE]
        BY <1>6, <2>2, <3>2 DEF ExitHeard
      <4> QED BY <4>1 DEF Window
    <3>3. CASE ~(g.shows # c \/ ~g.ready) /\ ~(g.hears /\ active[w] # NoCwd)
      <4>1. h = [g EXCEPT !.unaware = TRUE]
        BY <1>6, <2>2, <3>3 DEF ExitHeard
      <4> QED BY <4>1 DEF Window
    <3> QED BY <3>1, <3>2, <3>3
  <2> QED BY <2>1, <2>2
<1>7. ASSUME NEW w \in Windows
      PROVE  /\ gui'[w] \in Window /\ gui'[w].shows = gui[w].shows /\ (gui'[w].ready => gui[w].ready)
             /\ gui'[w].strayed = gui[w].strayed
             /\ ~gui'[w].unaware => ~gui[w].unaware
             /\ gui'[w].ready /\ ~gui'[w].unaware => gui[w].shows # c
  <2>1. gui'[w] \in {ExitMissed(w, c), ExitHeard(w, c)} /\ gui[w] \in Window
    BY <1>5, RequestFacts
  <2> QED BY <1>6, <2>1
<1>8. gui' \in [Windows -> Window]
  BY <1>5, <1>7
<1>9. /\ GoOn(procs, procs') /\ procs'[p] = r
      /\ \A q \in Procs \ {p} : procs'[q] = procs[q]
  BY <1>3, <1>4, OneGoesOn
<1>10. sidecars' \in [Cwds -> {0} \cup Procs] /\ \A d \in Cwds : sidecars'[d] = sidecars[d]
  BY <1>4, ProcFacts
<1>11. /\ Carried' /\ MapSound' /\ ProcShape' /\ RequestShape'
       /\ \A q \in Procs \ {p} : Watched(q) => Watched(q)'
  BY <1>4, <1>9, <1>10, ReaderStep
<1>12. ASSUME NEW w \in Windows PROVE ToldAt(w)'
  <2> SUFFICES ASSUME gui'[w].ready, ~gui'[w].unaware
               PROVE  \E q \in Procs' : procs'[q].cwd = gui'[w].shows /\ Watched(q)'
    BY DEF ToldAt
  <2>1. gui[w].ready /\ ~gui[w].unaware /\ gui'[w].shows = gui[w].shows /\ gui[w].shows # c
    BY <1>7
  <2>2. PICK q \in Procs : procs[q].cwd = gui[w].shows /\ Watched(q)
    BY <2>1 DEF SidecarsInv, Told, ToldAt
  <2>3. q # p
    BY <1>1, <2>1, <2>2
  <2>4. q \in Procs' /\ procs'[q].cwd = gui'[w].shows /\ Watched(q)'
    BY <1>9, <1>11, <2>1, <2>2, <2>3, GoOnFacts
  <2> QED BY <2>4
<1>13. Routed'
  BY <1>4, <1>7, RoutedStays DEF Routed
<1> QED BY <1>4, <1>8, <1>11, <1>12, <1>13
        DEF SidecarsInv, SidecarsShape, ClosingShape, WindowShape, RestShape, Told

-----------------------------------------------------------------------------
(* The theorems                                                            *)

LEMMA SidecarsInitSound == SidecarsInit => SidecarsInv
<1> SUFFICES ASSUME SidecarsInit PROVE SidecarsInv
  OBVIOUS
<1>1. procs = <<>> /\ Procs = {} /\ procs \in Seq(Proc) /\ Len(procs) <= MaxSpawns
  BY EmptySeq, SidecarsAssumption DEF SidecarsInit, Procs, SidecarsAssumption
<1>2. RequestShape /\ ClosingShape
  BY <1>1, NoRequestIs DEF SidecarsInit, RequestShape, ClosingShape, Closing, NotClosing
<1>3. ProcShape /\ RestShape
  BY <1>1, SidecarsAssumption DEF SidecarsInit, ProcShape, RestShape, SidecarsAssumption
<1>4. WindowShape
  BY DEF SidecarsInit, WindowShape, Window
<1>5. Carried
  BY NoRequestIs DEF SidecarsInit, Carried, CarrySteps
<1>6. MapSound
  BY <1>1 DEF SidecarsInit, MapSound
<1>7. Told
  BY DEF SidecarsInit, Told, ToldAt
<1>8. Routed
  BY NoRequestIs DEF SidecarsInit, Routed, RoutedAt
<1> QED BY <1>2, <1>3, <1>4, <1>5, <1>6, <1>7, <1>8 DEF SidecarsInv, SidecarsShape

LEMMA SidecarsStep == SidecarsInv /\ [SidecarsNext]_sidecarVars => SidecarsInv'
<1> SUFFICES ASSUME SidecarsInv, [SidecarsNext]_sidecarVars PROVE SidecarsInv'
  OBVIOUS
<1>1. CASE UNCHANGED sidecarVars
  BY <1>1 DEF sidecarVars, SidecarsInv, SidecarsShape, RequestShape, ClosingShape, ProcShape,
      WindowShape, RestShape, Carried, MapSound, Told, ToldAt, Routed, RoutedAt, Procs, InMap,
      Coming, Activates, Dead, Watched
<1>2. ASSUME NEW w \in Windows,
             \/ \E c \in Cwds : CallInit(w, c)
             \/ CallRestart(w) \/ RestartReaps(w)
             \/ InitChecks(w) \/ InitJoins(w) \/ InitAsks(w) \/ InitInserts(w) \/ InitActivates(w)
             \/ Close(w) \/ CloseChecks(w) \/ CloseKills(w)
             \/ Listens(w)
      PROVE  SidecarsInv'
  BY <1>2, CallInitSound, CallRestartSound, RestartReapsSound, InitChecksSound, InitJoinsSound,
     InitAsksSound, InitInsertsSound, InitActivatesSound, CloseSound, CloseChecksSound,
     CloseKillsSound, ListensSound
<1>3. ASSUME NEW c \in Cwds, DeleteWorkspace(c) \/ GuardSpawns(c) PROVE SidecarsInv'
  BY <1>3, DeleteWorkspaceSound, GuardSpawnsSound
<1>4. CASE GuardInserts
  BY <1>4, GuardInsertsSound
<1>5. ASSUME NEW p \in Procs, Exits(p) \/ ReaderRemoves(p) \/ ReaderReaped(p) \/ ReaderTells(p)
      PROVE  SidecarsInv'
  BY <1>5, ExitsSound, ReaderRemovesSound, ReaderReapedSound, ReaderTellsSound
<1> QED BY <1>1, <1>2, <1>3, <1>4, <1>5 DEF SidecarsNext

\* Every step of the windows, their requests, the readers and the processes keeps it.
THEOREM SidecarsInvariant == SidecarsSpec => []SidecarsInv
BY SidecarsInitSound, SidecarsStep, PTL DEF SidecarsSpec

\* The shape of the desktop's state: every process of the map, of the guard and of a
\* request is one that has been started.
THEOREM SidecarsTypeCorrect == SidecarsSpec => []SidecarsTypeOK
<1>1. SidecarsInv => SidecarsTypeOK
  BY DEF SidecarsInv, SidecarsShape, RequestShape, ClosingShape, ProcShape, WindowShape,
         RestShape, SidecarsTypeOK, Request, Closing
<1> QED BY <1>1, SidecarsInvariant, PTL

\* Whatever windows, the guard and dying processes do at the same time: no process
\* keeps running behind the map, no dead one stays in it, a window hears of the end
\* of the sidecar it believes in, and its commands go where it shows; for any number
\* of windows, directories and processes.
THEOREM SidecarsAlwaysKept == SidecarsSpec => []SidecarsKept
<1>1. SidecarsInv => SidecarsKept
  <2> SUFFICES ASSUME SidecarsInv PROVE SidecarsKept
    OBVIOUS
  <2>1. NoneForgotten
    BY DEF SidecarsInv, MapSound, NoneForgotten, InMap, Coming, InHand
  <2>2. DeadIsRemoved
    BY DEF SidecarsInv, MapSound, DeadIsRemoved, InMap, Activates, InHand
  <2>3. ExitIsTold
    BY DEF SidecarsInv, Told, ToldAt, ExitIsTold
  <2>4. RoutedWhereShown
    BY DEF SidecarsInv, Routed, RoutedAt, RoutedWhereShown, MayCall
  <2> QED BY <2>1, <2>2, <2>3, <2>4 DEF SidecarsKept
<1> QED BY <1>1, SidecarsInvariant, PTL

-----------------------------------------------------------------------------
(* The terminal interface: the invariant                                   *)

QText == [text : Msgs, mode : {"steer", "followUp"}]
Shown == [streaming : BOOLEAN, compacting : BOOLEAN, working : BOOLEAN, escape : Handlers,
          retrySaved : Handlers \cup {"none"}, compactionSaved : Handlers \cup {"none"},
          queue : Seq(QText)]

\* What the runtime is doing, and how many compactions go on.
Doing ==
    CASE phase # "running"                                   -> "idle"
      [] phase = "running" /\ TurnUnderWay                    -> "turn"
      [] phase = "running" /\ ~TurnUnderWay /\ reactor.retry > 0 -> "retries"
      [] OTHER                                               -> "waits"
Going == IF reactor.compaction = "none" THEN orphans ELSE orphans + 1

\* The handler of Escape and the one that is saved, while they are saved in order.
EscapeSound(u, does, going) ==
    /\ \/ u.escape = "normal" /\ u.retrySaved = "none" /\ u.compactionSaved = "none"
       \/ u.escape = "retry" /\ u.retrySaved = "normal" /\ u.compactionSaved = "none"
       \/ u.escape = "compaction" /\ u.retrySaved = "none" /\ u.compactionSaved = "normal"
    /\ u.compacting <=> u.escape = "compaction"
    /\ going = IF u.compacting THEN 1 ELSE 0
    /\ does = "retries" => u.escape = "retry"
    /\ u.escape = "retry" => does \in {"retries", "waits"}

Tangles(u) == u.retrySaved \in {"retry", "compaction"} \/ u.compactionSaved \in {"retry", "compaction"}

\* A turn is shown, and by a loader unless a command has removed it.
TurnShown(u, does) ==
    /\ does = "turn" => u.streaming /\ (u.working \/ mute)
    /\ u.streaming => does # "idle"

UiInv ==
    /\ ui \in Shown /\ {mute, tangled} \subseteq BOOLEAN
    /\ TurnShown(ui, Doing)
    /\ ~tangled => EscapeSound(ui, Doing, Going)

TextsInv ==
    /\ sending = <<>> <=> stage = "none"
    /\ stage = "prompt" => ui.queue = <<>>
    /\ TextsKept

RestInv ==
    /\ loop \in {"asks", "prompts"} /\ initial \in 0 .. InitialPrompts
    /\ sending \in Seq(QText) /\ stage \in {"none", "prompt", "tick", "past"}
    /\ {typed, prompted, editor, abandoned, untold} \subseteq SUBSET Msgs

IdleClear == phase = "idle" => reactor.compaction = "none"

TerminalInv == UiInv /\ TextsInv /\ RestInv /\ IdleClear

-----------------------------------------------------------------------------
(* What a handler of the interface does to its fields                      *)

LEMMA StartedFields ==
    ASSUME NEW u \in Shown, NEW x, x = TurnStarted(u)
    PROVE  /\ x \in Shown /\ x.streaming = TRUE /\ x.working = TRUE /\ x.retrySaved = "none"
           /\ x.escape = IF u.retrySaved = "none" THEN u.escape ELSE u.retrySaved
           /\ x.compacting = u.compacting /\ x.compactionSaved = u.compactionSaved /\ x.queue = u.queue
BY DEF TurnStarted, Shown, Handlers

LEMMA EndedFields ==
    ASSUME NEW u \in Shown, NEW x, x = TurnEnded(u)
    PROVE  /\ x \in Shown /\ x.streaming = FALSE /\ x.working = FALSE /\ x.retrySaved = u.retrySaved
           /\ x.escape = u.escape
           /\ x.compacting = u.compacting /\ x.compactionSaved = u.compactionSaved /\ x.queue = u.queue
BY DEF TurnEnded, Shown, Handlers

LEMMA CompactionStartedFields ==
    ASSUME NEW u \in Shown, NEW x, x = CompactionStarted(u)
    PROVE  /\ x \in Shown /\ x.streaming = u.streaming /\ x.working = u.working
           /\ x.retrySaved = u.retrySaved /\ x.escape = "compaction"
           /\ x.compacting = TRUE /\ x.compactionSaved = u.escape /\ x.queue = u.queue
BY DEF CompactionStarted, Shown, Handlers

LEMMA CompactionOverFields ==
    ASSUME NEW u \in Shown, NEW x, x = CompactionOver(u)
    PROVE  /\ x \in Shown /\ x.streaming = u.streaming /\ x.working = u.working
           /\ x.retrySaved = u.retrySaved
           /\ x.escape = IF u.compactionSaved = "none" THEN u.escape ELSE u.compactionSaved
           /\ x.compacting = FALSE /\ x.compactionSaved = "none" /\ x.queue = u.queue
BY DEF CompactionOver, Shown, Handlers

LEMMA RetryFields ==
    ASSUME NEW u \in Shown, NEW x, x = RetryScheduled(u)
    PROVE  /\ x \in Shown /\ x.streaming = u.streaming /\ x.working = u.working
           /\ x.retrySaved = u.escape /\ x.escape = "retry"
           /\ x.compacting = u.compacting /\ x.compactionSaved = u.compactionSaved /\ x.queue = u.queue
BY DEF RetryScheduled, Shown, Handlers

LEMMA RetryAbortedFields ==
    ASSUME NEW u \in Shown, NEW x, x = RetryAborted(u)
    PROVE  /\ x \in Shown /\ x.streaming = u.streaming /\ x.working = u.working
           /\ x.retrySaved = "none"
           /\ x.escape = IF u.retrySaved = "none" THEN u.escape ELSE u.retrySaved
           /\ x.compacting = u.compacting /\ x.compactionSaved = u.compactionSaved /\ x.queue = u.queue
BY DEF RetryAborted, Shown, Handlers

\* The queue, and the loader.
LEMMA QueueFields ==
    ASSUME NEW u \in Shown, NEW q \in Seq(QText), NEW x, x = [u EXCEPT !.queue = q]
    PROVE  /\ x \in Shown /\ x.streaming = u.streaming /\ x.working = u.working
           /\ x.retrySaved = u.retrySaved /\ x.escape = u.escape
           /\ x.compacting = u.compacting /\ x.compactionSaved = u.compactionSaved /\ x.queue = q
BY DEF Shown, Handlers

LEMMA EmptiedFields ==
    ASSUME NEW u \in Shown, NEW x, x = [u EXCEPT !.queue = <<>>]
    PROVE  /\ x \in Shown /\ x.streaming = u.streaming /\ x.working = u.working
           /\ x.retrySaved = u.retrySaved /\ x.escape = u.escape
           /\ x.compacting = u.compacting /\ x.compactionSaved = u.compactionSaved /\ x.queue = <<>>
<1>1. x = [streaming |-> u.streaming, compacting |-> u.compacting, working |-> u.working,
           escape |-> u.escape, retrySaved |-> u.retrySaved,
           compactionSaved |-> u.compactionSaved, queue |-> <<>>]
  BY DEF Shown
<1>2. <<>> \in Seq(QText)
  OBVIOUS
<1> QED BY <1>1, <1>2 DEF Shown

LEMMA WorkingFields ==
    ASSUME NEW u \in Shown, NEW b \in BOOLEAN, NEW x, x = [u EXCEPT !.working = b]
    PROVE  /\ x \in Shown /\ x.streaming = u.streaming /\ x.working = b
           /\ x.retrySaved = u.retrySaved /\ x.escape = u.escape
           /\ x.compacting = u.compacting /\ x.compactionSaved = u.compactionSaved /\ x.queue = u.queue
BY DEF Shown, Handlers

-----------------------------------------------------------------------------
(* What they do to the handler of Escape                                   *)

LEMMA StartedEscape ==
    ASSUME NEW u \in Shown, NEW x, x = TurnStarted(u), NEW d, NEW n,
           EscapeSound(u, d, n), ~Tangles(x)
    PROVE  EscapeSound(x, "turn", n)
BY StartedFields DEF EscapeSound

LEMMA RetryEscape ==
    ASSUME NEW u \in Shown, NEW x, x = RetryScheduled(u), NEW d, NEW n,
           EscapeSound(u, d, n), ~Tangles(x)
    PROVE  EscapeSound(x, "retries", n)
BY RetryFields DEF EscapeSound, Tangles

\* Once a turn has ended its handler is the editor's or a compaction's.
LEMMA EndedEscape ==
    ASSUME NEW u \in Shown, NEW x, x = TurnEnded(u), NEW n,
           EscapeSound(u, "turn", n)
    PROVE  EscapeSound(x, "idle", n) /\ EscapeSound(x, "turn", n)
BY EndedFields DEF EscapeSound

LEMMA CompactionEscape ==
    ASSUME NEW u \in Shown, NEW x, x = CompactionStarted(u), NEW d, NEW n,
           EscapeSound(u, d, n), ~Tangles(x)
    PROVE  EscapeSound(x, d, n + 1)
<1>1. u.escape = "normal" /\ u.retrySaved = "none" /\ ~u.compacting /\ d # "retries"
  BY CompactionStartedFields DEF EscapeSound, Tangles
<1>2. n = 0
  BY <1>1 DEF EscapeSound
<1>3. n + 1 = 1
  BY <1>2
<1> QED BY <1>1, <1>3, CompactionStartedFields DEF EscapeSound

LEMMA CompactionOverEscape ==
    ASSUME NEW u \in Shown, NEW x, x = CompactionOver(u), NEW d, NEW n \in Nat \ {0},
           EscapeSound(u, d, n)
    PROVE  EscapeSound(x, d, n - 1)
<1>1. u.compacting /\ u.escape = "compaction" /\ n = 1
  BY DEF EscapeSound
<1>2. u.compactionSaved = "normal" /\ u.retrySaved = "none" /\ d # "retries"
  BY <1>1 DEF EscapeSound
<1>3. n - 1 = 0
  BY <1>1
<1> QED BY <1>1, <1>2, <1>3, CompactionOverFields DEF EscapeSound

LEMMA RetryAbortedEscape ==
    ASSUME NEW u \in Shown, NEW x, x = RetryAborted(u), NEW d, NEW n,
           EscapeSound(u, d, n)
    PROVE  EscapeSound(x, "turn", n)
BY RetryAbortedFields DEF EscapeSound

-----------------------------------------------------------------------------
(* What the interface shows after a step                                   *)

\* The fields x, shown after a step, agree with what the runtime then does.
Follows(x) ==
    /\ x \in Shown
    /\ Doing' = "turn" => x.streaming /\ (x.working \/ mute)
    /\ x.streaming => Doing' # "idle"
    /\ EscapeSound(ui, Doing, Going) /\ ~Tangles(x) => EscapeSound(x, Doing', Going')

LEMMA FollowedInv ==
    ASSUME UiInv, NEW x, Follows(x), Shows(x),
           mute' \in BOOLEAN, mute /\ x.streaming /\ ~x.working => mute'
    PROVE  UiInv'
<1>1. ui' = x /\ tangled' \in BOOLEAN /\ (~tangled' => ~tangled /\ ~Tangles(x))
  BY DEF Shows, Tangles, UiInv
<1>2. EscapeSound(ui, Doing, Going) /\ ~tangled' => EscapeSound(ui', Doing', Going')
  BY <1>1 DEF Follows
<1>3. ~tangled' => EscapeSound(ui', Doing', Going')
  BY <1>1, <1>2 DEF UiInv
<1>4. TurnShown(ui, Doing)'
  BY <1>1 DEF Follows, TurnShown
<1>5. (ui \in Shown)' /\ mute' \in BOOLEAN /\ tangled' \in BOOLEAN
  BY <1>1 DEF Follows
<1>6. (~tangled => EscapeSound(ui, Doing, Going))'
  BY <1>3 DEF EscapeSound
<1> QED BY <1>4, <1>5, <1>6 DEF UiInv

LEMMA HeardInv ==
    ASSUME UiInv, NEW x, Follows(x), Hears(x)
    PROVE  UiInv'
<1>1. Shows(x) /\ mute' \in BOOLEAN /\ (mute /\ x.streaming /\ ~x.working => mute')
  BY DEF Hears
<1> QED BY <1>1, FollowedInv

LEMMA StartFollows ==
    ASSUME UiInv, NEW u \in Shown, NEW d, NEW x, x = TurnStarted(u),
           EscapeSound(ui, Doing, Going) => EscapeSound(u, d, Going),
           Doing' = "turn", Going' = Going
    PROVE  Follows(x)
<1>1. x \in Shown /\ x.streaming = TRUE /\ x.working = TRUE
  BY StartedFields
<1>2. EscapeSound(ui, Doing, Going) /\ ~Tangles(x) => EscapeSound(x, "turn", Going)
  BY StartedEscape
<1> QED BY <1>1, <1>2 DEF Follows

LEMMA RetryFollows ==
    ASSUME UiInv, NEW u \in Shown, NEW d, NEW x, x = RetryScheduled(u),
           EscapeSound(ui, Doing, Going) => EscapeSound(u, d, Going),
           Doing' = "retries", Going' = Going
    PROVE  Follows(x)
<1>1. x \in Shown
  BY RetryFields
<1>2. EscapeSound(ui, Doing, Going) /\ ~Tangles(x) => EscapeSound(x, "retries", Going)
  BY RetryEscape
<1> QED BY <1>1, <1>2 DEF Follows

\* A handler that ends the turn: the next begins, a retry is due, or the prompt has
\* settled, and a compaction may have begun.
NextTurn == Doing' = "turn" /\ reactor'.llm > 0 /\ reactor'.retry = 0 /\ Going' = Going
RetryDue == Doing' = "retries" /\ reactor'.retry > 0 /\ Going' = Going
Settled ==
    /\ phase' = "idle" /\ Doing' = "idle"
    /\ reactor'.llm = 0 /\ reactor'.retry = 0 /\ reactor'.compaction = "none"
    /\ Going' = IF StartsCompaction THEN Going + 1 ELSE Going
Completes ==
    /\ reactor'.llm \in Nat /\ reactor'.retry \in Nat /\ reactor'.tools = NoTools
    /\ NextTurn \/ RetryDue \/ Settled

LEMMA CompletionFollows ==
    ASSUME UiInv, NEW u \in Shown, Completes,
           EscapeSound(ui, Doing, Going) => EscapeSound(u, "turn", Going)
    PROVE  Follows(HeardCompletion(u)) /\ HeardCompletion(u).queue = u.queue
<1> PICK e : e = TurnEnded(u)
  OBVIOUS
<1> PICK x : x = HeardCompletion(u)
  OBVIOUS
<1>1. e \in Shown /\ e.streaming = FALSE /\ e.queue = u.queue
  BY EndedFields
<1>2. EscapeSound(ui, Doing, Going) => EscapeSound(e, "idle", Going) /\ EscapeSound(e, "turn", Going)
  BY EndedEscape
<1>3. CASE NextTurn
  <2>1. x = TurnStarted(e)
    BY <1>3 DEF NextTurn, HeardCompletion, Completes
  <2>2. Follows(x)
    BY <1>1, <1>2, <1>3, <2>1, StartFollows DEF NextTurn
  <2>3. x.queue = u.queue
    BY <1>1, <2>1, StartedFields
  <2> QED BY <2>2, <2>3
<1>4. CASE RetryDue
  <2>1. x = RetryScheduled(e)
    BY <1>4 DEF RetryDue, HeardCompletion, Completes
  <2>2. Follows(x)
    BY <1>1, <1>2, <1>4, <2>1, RetryFollows DEF RetryDue
  <2> QED BY <1>1, <2>1, <2>2, RetryFields
<1>5. CASE Settled /\ StartsCompaction
  <2>1. x = CompactionStarted(e)
    BY <1>5 DEF Settled, HeardCompletion
  <2>2. x \in Shown /\ x.streaming = FALSE /\ x.queue = u.queue
    BY <1>1, <2>1, CompactionStartedFields
  <2>3. EscapeSound(ui, Doing, Going) /\ ~Tangles(x) => EscapeSound(x, "idle", Going + 1)
    BY <1>1, <1>2, <2>1, CompactionEscape
  <2> QED BY <1>5, <2>2, <2>3 DEF Settled, Follows
<1>6. CASE Settled /\ ~StartsCompaction
  <2>1. x = e
    BY <1>6 DEF Settled, HeardCompletion
  <2> QED BY <1>1, <1>2, <1>6, <2>1 DEF Settled, Follows
<1> QED BY <1>3, <1>4, <1>5, <1>6 DEF Completes

-----------------------------------------------------------------------------
(* What the runtime does in a step                                         *)

\* s has a compaction exactly when the reactor does.
SameCompaction(s) == s.compaction = "none" <=> reactor.compaction = "none"

LEMMA DoingNext ==
    /\ phase' # "running" => Doing' = "idle"
    /\ phase' = "running" /\ (reactor'.llm > 0 \/ ToolsPending(reactor')) => Doing' = "turn"
    /\ phase' = "running" /\ ~(reactor'.llm > 0 \/ ToolsPending(reactor')) /\ reactor'.retry > 0
          => Doing' = "retries"
    /\ phase' = "running" /\ ~(reactor'.llm > 0 \/ ToolsPending(reactor')) /\ ~(reactor'.retry > 0)
          => Doing' = "waits"
BY DEF Doing, TurnUnderWay, ToolsPending

LEMMA DoingNow ==
    /\ phase # "running" => Doing = "idle"
    /\ phase = "running" /\ (reactor.llm > 0 \/ ToolsPending(reactor)) => Doing = "turn"
    /\ phase = "running" /\ ~(reactor.llm > 0 \/ ToolsPending(reactor)) /\ reactor.retry > 0
          => Doing = "retries"
    /\ phase = "running" /\ ~(reactor.llm > 0 \/ ToolsPending(reactor)) /\ ~(reactor.retry > 0)
          => Doing = "waits"
BY DEF Doing, TurnUnderWay, ToolsPending

LEMMA SettleDoes ==
    ASSUME TypeOK, NEW x \in ReactorType, x.llm = 0, x.retry = 0, x.tools = NoTools, x.queue = <<>>,
           reactor.compaction # "none" => x.compaction # "none", Settle(x)
    PROVE  Settled /\ reactor'.llm \in Nat /\ reactor'.retry \in Nat /\ reactor'.tools = NoTools
<1>1. EndCycle(x)
  BY DEF Settle
<1> PICK r : r = NewReactor(<<>>)
  OBVIOUS
<1>2. r \in ReactorType /\ r.retry = 0 /\ r.compaction = "none"
  <2>1. <<>> \in Seq(Msgs)
    OBVIOUS
  <2> QED BY <2>1, NewReactorType DEF Calm, NewReactor
<1>3. reactor' = [r EXCEPT !.llm = 0, !.tools = NoTools]
  BY <1>1 DEF EndCycle
<1>4. reactor'.llm = 0 /\ reactor'.retry = 0 /\ reactor'.compaction = "none" /\ reactor'.tools = NoTools
  BY <1>2, <1>3 DEF ReactorType
<1>5. phase' = "idle" /\ orphans' = IF x.compaction = "none" THEN orphans ELSE orphans + 1
  BY <1>1 DEF EndCycle
<1>6. orphans \in Nat /\ Going' = orphans'
  BY <1>4 DEF TypeOK, Going
<1>7. Going' = IF StartsCompaction THEN Going + 1 ELSE Going
  BY <1>4, <1>5, <1>6 DEF StartsCompaction, Going
<1> QED BY <1>4, <1>5, <1>7, DoingNext DEF Settled

LEMMA UserMessageCompaction ==
    ASSUME NEW s \in ReactorType
    PROVE  UserMessage(s).compaction = s.compaction
<1> DEFINE v == [s EXCEPT !.attempt = 0]
           w == [v EXCEPT !.sig = NoSig]
           x == [w EXCEPT !.rounds = 0]
<1>1. v \in ReactorType /\ v.compaction = s.compaction /\ v.interrupted = s.interrupted
  BY ConstantsAssumption DEF ReactorType
<1>2. w \in ReactorType /\ w.compaction = s.compaction /\ w.interrupted = s.interrupted
  <2> HIDE DEF v
  <2> QED BY <1>1 DEF ReactorType
<1>3. x \in ReactorType /\ x.compaction = s.compaction /\ x.interrupted = s.interrupted
  <2>1. 0 \in 0 .. LoopLimit
    BY ConstantsAssumption
  <2> HIDE DEF w
  <2> QED BY <1>2, <2>1 DEF ReactorType
<1>4. UserMessage(s) = IF s.interrupted THEN v ELSE RequestTurn(x)
  BY DEF UserMessage
<1> HIDE DEF v, x
<1>5. RequestTurn(x).compaction = x.compaction
  BY <1>3 DEF RequestTurn, ReactorType
<1> QED BY <1>1, <1>3, <1>4, <1>5

LEMMA RetryDoes ==
    ASSUME TypeOK, phase = "running", NEW s, Calm(s), SameCompaction(s), ScheduleRetry(s)
    PROVE  Completes
<1> DEFINE x == [s EXCEPT !.retry = @ + 1]
<1>1. x \in ReactorType /\ x.llm = 0 /\ x.retry = 1 /\ x.tools = NoTools /\ x.compaction = s.compaction
  BY DEF Calm, ReactorType
<1>2. reactor' = x /\ phase' = phase /\ orphans' = orphans
  BY DEF ScheduleRetry, Continue
<1> HIDE DEF x
<1>3. ~ToolsPending(reactor') /\ Going' = Going
  BY <1>1, <1>2, NoToolsQuiet DEF Going, SameCompaction
<1>4. Doing' = "retries"
  BY <1>1, <1>2, <1>3, DoingNext
<1> QED BY <1>1, <1>2, <1>3, <1>4 DEF Completes, RetryDue

LEMMA TurnCompletedDoes ==
    ASSUME TypeOK, phase = "running", NEW s, Calm(s), SameCompaction(s), NEW reason, NEW retryable,
           TurnCompleted(s, reason, retryable)
    PROVE  Completes
<1>0. /\ s \in ReactorType /\ s.queue \in Seq(Msgs) /\ s.llm = 0 /\ s.retry = 0 /\ s.tools = NoTools
      /\ orphans \in Nat
  BY DEF ReactorType, Calm, TypeOK
<1>2. CASE DiscardFollowUps(s)
  <2> DEFINE w == [s EXCEPT !.queue = <<>>]
             x == [w EXCEPT !.abortedByUser = FALSE]
  <2>1. <<>> \in Seq(Msgs)
    OBVIOUS
  <2>2. Calm(w) /\ w.queue = <<>> /\ w.compaction = s.compaction
    BY <1>0, <2>1, SetQueue DEF Calm
  <2>3. x \in ReactorType /\ x.llm = 0 /\ x.retry = 0 /\ x.tools = NoTools /\ x.queue = <<>>
        /\ x.compaction = s.compaction
    <3> HIDE DEF w
    <3> QED BY <2>2 DEF ReactorType, Calm
  <2>4. Settle(x)
    BY <1>2 DEF DiscardFollowUps
  <2> HIDE DEF x
  <2> QED BY <2>3, <2>4, SettleDoes DEF SameCompaction, Completes
<1>3. CASE CanRetry(s, retryable) /\ ScheduleRetry(s)
  BY <1>3, RetryDoes
<1>4. CASE DrainFollowUp(s)
  <2> DEFINE w == [s EXCEPT !.queue = Tail(@)]
             x == [w EXCEPT !.interrupted = FALSE]
             y == UserMessage(x)
  <2>1. Tail(s.queue) \in Seq(Msgs)
    BY <1>0, <1>4 DEF DrainFollowUp
  <2>2. Calm(w) /\ w.compaction = s.compaction
    BY <1>0, <2>1, SetQueue DEF Calm
  <2>3. Calm(x) /\ ~x.interrupted /\ x.compaction = s.compaction
    <3> HIDE DEF w
    <3> QED BY <2>2 DEF ReactorType, Calm
  <2>4. y.llm = 1 /\ y.retry = 0 /\ y.tools = NoTools /\ y.compaction = s.compaction
    <3> HIDE DEF x
    <3> QED BY <2>3, UserMessageStarts, UserMessageCompaction DEF Calm
  <2>5. reactor' = y /\ phase' = phase /\ orphans' = orphans
    BY <1>4 DEF DrainFollowUp, Continue
  <2> HIDE DEF y
  <2>6. Going' = Going
    BY <2>4, <2>5 DEF Going, SameCompaction
  <2>7. Doing' = "turn"
    BY <2>4, <2>5, DoingNext
  <2> QED BY <2>4, <2>5, <2>6, <2>7 DEF Completes, NextTurn
<1>5. CASE GoIdle(s, reason)
  <2>1. PICK x \in {s, RequestCompaction(s)} : Settle(x)
    BY <1>5 DEF GoIdle
  <2>2. x \in ReactorType /\ x.llm = 0 /\ x.retry = 0 /\ x.tools = NoTools /\ x.queue = <<>>
        /\ (s.compaction # "none" => x.compaction # "none")
    BY <1>0, <1>5, <2>1 DEF GoIdle, RequestCompaction, ReactorType
  <2> QED BY <2>1, <2>2, SettleDoes DEF SameCompaction, Completes
<1> QED
  BY <1>2, <1>3, <1>4, <1>5 DEF TurnCompleted

\* A round of tools goes on, or ends in the next call of the model or the turn's end.
ToolsDo ==
    \/ reactor'.tools # NoTools /\ Doing' = "turn" /\ Going' = Going
    \/ Completes

LEMMA AggregatedDoes ==
    ASSUME TypeOK, phase = "running", NEW s \in ReactorType, s.llm = 0, s.retry = 0,
           SameCompaction(s), Aggregated(s)
    PROVE  Completes
<1> DEFINE x == [s EXCEPT !.tools = NoTools]
<1>1. Calm(x) /\ x.interrupted = s.interrupted /\ x.compaction = s.compaction
  BY DEF Calm, ReactorType, NoTools
<1>2. \/ TurnCompleted(x, "aborted", FALSE)
      \/ TurnCompleted(x, "loop_detected", FALSE)
      \/ ~x.interrupted /\ Proceed(RequestTurn(x))
  BY DEF Aggregated
<1> HIDE DEF x
<1>3. CASE ~x.interrupted /\ Proceed(RequestTurn(x))
  <2> DEFINE y == [x EXCEPT !.llm = @ + 1]
  <2>1. y.llm = 1 /\ y.retry = 0 /\ y.tools = NoTools /\ y.compaction = x.compaction
    BY <1>1 DEF Calm, ReactorType
  <2>2. reactor' = y /\ phase' = phase /\ orphans' = orphans
    BY <1>3 DEF Proceed, Continue, RequestTurn
  <2> HIDE DEF y
  <2>3. Going' = Going
    BY <1>1, <2>1, <2>2 DEF Going, SameCompaction
  <2>4. Doing' = "turn"
    BY <2>1, <2>2, DoingNext
  <2> QED BY <2>1, <2>2, <2>3, <2>4 DEF Completes, NextTurn
<1>4. SameCompaction(x)
  BY <1>1 DEF SameCompaction
<1> QED
  BY <1>1, <1>2, <1>3, <1>4, TurnCompletedDoes

LEMMA ToolsReportedDo ==
    ASSUME TypeOK, phase = "running", NEW s \in ReactorType, s.llm = 0, s.retry = 0,
           SameCompaction(s), ToolsReported(s)
    PROVE  ToolsDo
<1>1. CASE Aggregated(s)
  <2>1. Completes
    BY <1>1, AggregatedDoes
  <2> QED BY <2>1 DEF ToolsDo, Completes
<1>2. CASE /\ ~ \A t \in ToolIds : s.tools[t] \in {"none", "done"}
           /\ Proceed(s)
  <2>1. ToolsPending(s)
    BY <1>2 DEF ToolsPending, ReactorType
  <2>2. reactor' = s /\ phase' = phase /\ orphans' = orphans
    BY <1>2 DEF Proceed, Continue
  <2>3. reactor'.tools # NoTools
    BY <2>1, <2>2, NoToolsQuiet
  <2>4. Doing' = "turn"
    BY <2>1, <2>2, DoingNext
  <2>5. Going' = Going
    BY <2>2 DEF Going, SameCompaction
  <2> QED BY <2>3, <2>4, <2>5 DEF ToolsDo
<1> QED
  BY <1>1, <1>2 DEF ToolsReported

\* The calls a message asks for are tracked, or have all been answered at once.
LEMMA ToolRoundDoes ==
    ASSUME TypeOK, phase = "running", NEW s, Calm(s), SameCompaction(s),
           NEW calls \in SUBSET ToolIds, NEW sig \in Sigs, ToolRound(s, calls, sig)
    PROVE  ToolsDo
<1> DEFINE tools == [t \in ToolIds |-> IF t \in calls THEN IntentToolCall(t) ELSE "none"]
           u == [s EXCEPT !.tools = tools]
           v == [u EXCEPT !.sig = sig]
           w == [v EXCEPT !.rounds = RoundsOf(s, sig)]
<1>1. tools \in [ToolIds -> {"none", "approval", "running", "done"}]
  BY DEF IntentToolCall
<1>2. RoundsOf(s, sig) \in 0..LoopLimit
  BY ConstantsAssumption DEF Calm, ReactorType, RoundsOf
<1>3. u \in ReactorType /\ u.llm = 0 /\ u.retry = 0 /\ u.compaction = s.compaction
  <2> HIDE DEF tools
  <2> QED BY <1>1 DEF Calm, ReactorType
<1>4. v \in ReactorType /\ v.llm = 0 /\ v.retry = 0 /\ v.compaction = s.compaction
  <2> HIDE DEF u
  <2> QED BY <1>3 DEF ReactorType
<1>5. w \in ReactorType /\ w.llm = 0 /\ w.retry = 0 /\ w.compaction = s.compaction
  <2> HIDE DEF v
  <2> QED BY <1>2, <1>4 DEF ReactorType
<1>6. ToolsReported(w)
  BY DEF ToolRound
<1> HIDE DEF w
<1> QED
  BY <1>5, <1>6, ToolsReportedDo DEF SameCompaction

LEMMA LlmDoneCalm ==
    ASSUME Inv, phase = "running", reactor.llm > 0
    PROVE  Calm(LlmDone) /\ SameCompaction(LlmDone) /\ Doing = "turn"
<1>1. Calm(LlmDone)
  BY LlmAlone
<1>2. LlmDone.compaction = reactor.compaction
  BY DEF LlmDone, Inv, TypeOK, ReactorType
<1> QED BY <1>1, <1>2, DoingNow DEF SameCompaction

LEMMA ToolOutstanding ==
    ASSUME Inv, phase = "running", NEW t \in ToolIds, reactor.tools[t] \in {"approval", "running"}
    PROVE  Doing = "turn"
BY DoingNow DEF ToolsPending

LEMMA ToolReportDoes ==
    ASSUME Inv, phase = "running", NEW t \in ToolIds, reactor.tools[t] \in {"approval", "running"},
           ToolsReported([reactor EXCEPT !.tools[t] = "done"])
    PROVE  ToolsDo
<1> DEFINE x == [reactor EXCEPT !.tools[t] = "done"]
<1>1. reactor \in ReactorType /\ reactor.llm = 0 /\ reactor.retry = 0
  BY ToolsAlone
<1>2. x \in ReactorType /\ x.llm = 0 /\ x.retry = 0 /\ x.compaction = reactor.compaction
  BY <1>1 DEF ReactorType
<1>3. TypeOK /\ ToolsReported(x)
  BY DEF Inv
<1> HIDE DEF x
<1> QED
  BY <1>2, <1>3, ToolsReportedDo DEF SameCompaction

\* USER_INTERRUPT ends a retry wait, or leaves what the runtime does alone.
LEMMA InterruptDoes ==
    ASSUME Inv, Interruptible, NEW s, Alike(s), SameCompaction(s), Interrupt(s)
    PROVE  \/ reactor.retry > 0 /\ Doing = "retries" /\ Completes
           \/ ~(reactor.retry > 0) /\ Doing' = Doing /\ Going' = Going /\ phase' = phase
<1> DEFINE w == [s EXCEPT !.interrupted = TRUE]
           i == [s EXCEPT !.interrupted = TRUE,
                          !.compaction = IF @ = "none" THEN "none" ELSE "cancelled"]
           x == [i EXCEPT !.retry = 0]
<1>1. Alike(i) /\ SameCompaction(i)
  <2>1. Alike(i)
    BY InterruptedType DEF Alike
  <2>2. i.compaction = IF s.compaction = "none" THEN "none" ELSE "cancelled"
    BY DEF Alike, ReactorType
  <2> HIDE DEF i
  <2> QED BY <2>1, <2>2 DEF SameCompaction
<1>2. IF s.retry > 0 THEN TurnCompleted(x, "aborted", FALSE) ELSE Proceed(i)
  BY DEF Interrupt
<1>t. TypeOK /\ s.retry = reactor.retry
  BY DEF Inv, Alike
<1> HIDE DEF i
<1>3. CASE ~(reactor.retry > 0)
  <2>1. reactor' = i /\ phase' = phase /\ orphans' = orphans
    BY <1>2, <1>3, <1>t DEF Proceed, Continue
  <2>2. ToolsPending(reactor') <=> ToolsPending(reactor)
    BY <1>1, <2>1 DEF ToolsPending, Alike
  <2>3. Doing' = Doing
    BY <1>1, <2>1, <2>2, DoingNow, DoingNext DEF Alike
  <2>4. Going' = Going
    BY <1>1, <2>1 DEF Going, SameCompaction
  <2> QED BY <1>3, <2>1, <2>3, <2>4
<1>4. CASE reactor.retry > 0
  <2>1. phase = "running"
    <3>1. reactor.llm \in Nat /\ reactor.retry \in Nat
      BY <1>t DEF TypeOK, ReactorType
    <3> QED BY <1>4, <3>1, <1>t DEF Inv, OneActivity, Waits, TypeOK
  <2>2. reactor.llm = 0 /\ reactor.tools = NoTools
    BY <1>4, <2>1, RetryAlone
  <2>3. Calm(x) /\ SameCompaction(x)
    <3>1. i \in ReactorType /\ i.llm = 0 /\ i.tools = NoTools /\ 0 \in Nat
      BY <1>1, <2>2 DEF Alike
    <3>2. x.compaction = i.compaction
      BY <3>1 DEF ReactorType
    <3> QED BY <1>1, <3>1, <3>2, SetCounters DEF Calm, SameCompaction
  <2>4. TurnCompleted(x, "aborted", FALSE)
    BY <1>2, <1>4, <1>t
  <2> HIDE DEF x
  <2>5. Completes
    BY <1>t, <2>1, <2>3, <2>4, TurnCompletedDoes
  <2>6. Doing = "retries"
    BY <1>4, <2>1, <2>2, NoToolsQuiet, DoingNow
  <2> QED BY <1>4, <2>5, <2>6
<1> QED BY <1>3, <1>4

-----------------------------------------------------------------------------
(* What the interface then shows                                           *)

\* The fields agree with the runtime, and the queue is that of u.
Agrees(u) == UiInv' /\ ui'.queue = u.queue /\ IdleClear'

\* u differs from ui in the queue alone.
SameButQueue(u) ==
    /\ u \in Shown /\ u.streaming = ui.streaming /\ u.working = ui.working
    /\ u.retrySaved = ui.retrySaved /\ u.escape = ui.escape
    /\ u.compacting = ui.compacting /\ u.compactionSaved = ui.compactionSaved

LEMMA CompletesIdle == Completes => IdleClear'
<1> SUFFICES ASSUME Completes, phase' = "idle" PROVE reactor'.compaction = "none"
  BY DEF IdleClear
<1>1. Doing' = "idle"
  BY DoingNext
<1> QED BY <1>1 DEF Completes, NextTurn, RetryDue, Settled

LEMMA HearsCompletion ==
    ASSUME UiInv, NEW u \in Shown, Completes,
           EscapeSound(ui, Doing, Going) => EscapeSound(u, "turn", Going),
           Hears(HeardCompletion(u))
    PROVE  Agrees(u)
<1>1. Follows(HeardCompletion(u)) /\ HeardCompletion(u).queue = u.queue
  BY CompletionFollows
<1>2. UiInv'
  BY <1>1, HeardInv
<1>3. ui' = HeardCompletion(u)
  BY DEF Hears, Shows
<1> QED BY <1>1, <1>2, <1>3, CompletesIdle DEF Agrees

LEMMA HearsSame ==
    ASSUME UiInv, NEW u, SameButQueue(u), Doing' \in {Doing, "waits"}, Going' = Going, IdleClear', Hears(u)
    PROVE  Agrees(u)
<1>1. Follows(u)
  BY DEF SameButQueue, UiInv, TurnShown, Follows, EscapeSound
<1>2. UiInv'
  BY <1>1, HeardInv
<1> QED BY <1>2 DEF Agrees, Hears, Shows

LEMMA HearsNothing ==
    ASSUME UiInv, Doing' \in {Doing, "waits"}, Going' = Going, IdleClear', Hears(ui)
    PROVE  Agrees(ui)
<1>1. SameButQueue(ui)
  BY DEF SameButQueue, UiInv
<1> QED BY <1>1, HearsSame

LEMMA HearsStart ==
    ASSUME UiInv, Doing' = "turn", Going' = Going, Hears(TurnStarted(ui))
    PROVE  Agrees(ui)
<1>1. ui \in Shown
  BY DEF UiInv
<1> PICK x : x = TurnStarted(ui)
  OBVIOUS
<1>2. Follows(x) /\ x.queue = ui.queue
  BY <1>1, StartFollows, StartedFields
<1>3. Hears(x)
  OBVIOUS
<1>4. UiInv' /\ ui' = x
  BY <1>2, <1>3, HeardInv DEF Hears, Shows
<1>5. IdleClear'
  BY DoingNext DEF IdleClear
<1> QED BY <1>2, <1>4, <1>5 DEF Agrees

LEMMA HearsTools ==
    ASSUME UiInv, Doing = "turn", ToolsDo, Hears(HeardTools(ui))
    PROVE  Agrees(ui)
<1>1. ui \in Shown
  BY DEF UiInv
<1>2. CASE reactor'.tools # NoTools /\ Doing' = "turn" /\ Going' = Going
  <2>1. Hears(ui)
    BY <1>2 DEF HeardTools
  <2>2. IdleClear'
    BY <1>2, DoingNext DEF IdleClear
  <2> QED BY <1>2, <2>1, <2>2, HearsNothing
<1>3. CASE Completes
  <2>1. \/ Hears(HeardCompletion(ui))
        \/ reactor'.llm > 0 /\ Hears(TurnStarted(ui))
    BY <1>3 DEF HeardTools, Completes
  <2>2. ASSUME reactor'.llm > 0 PROVE Doing' = "turn" /\ Going' = Going
    <3>1. ~Settled
      BY <2>2 DEF Settled
    <3>2. CASE RetryDue
      <4>1. phase' = "running"
        BY <3>2, DoingNext DEF RetryDue
      <4> QED BY <2>2, <4>1, <3>2, DoingNext DEF RetryDue
    <3> QED BY <1>3, <3>1, <3>2 DEF Completes, NextTurn
  <2> QED BY <1>1, <1>3, <2>1, <2>2, HearsCompletion, HearsStart
<1> QED BY <1>2, <1>3 DEF ToolsDo

LEMMA HearsInterrupt ==
    ASSUME Inv, UiInv, Interruptible, NEW s, Alike(s), SameCompaction(s), Interrupt(s),
           NEW u, SameButQueue(u), Hears(HeardInterrupt(u))
    PROVE  Agrees(u)
<1>1. u \in Shown /\ (EscapeSound(ui, Doing, Going) => EscapeSound(u, Doing, Going))
  BY DEF SameButQueue, EscapeSound
<1>2. CASE reactor.retry > 0 /\ Doing = "retries" /\ Completes
  <2> PICK x : x = RetryAborted(u)
    OBVIOUS
  <2>1. Hears(HeardCompletion(x))
    BY <1>2 DEF HeardInterrupt
  <2>2. x \in Shown /\ x.queue = u.queue
    BY <1>1, RetryAbortedFields
  <2>3. EscapeSound(ui, Doing, Going) => EscapeSound(x, "turn", Going)
    BY <1>1, RetryAbortedEscape
  <2>4. Agrees(x)
    BY <1>2, <2>1, <2>2, <2>3, HearsCompletion
  <2> QED BY <2>2, <2>4 DEF Agrees
<1>3. CASE ~(reactor.retry > 0) /\ Doing' = Doing /\ Going' = Going /\ phase' = phase
  <2>1. Hears(u)
    BY <1>3 DEF HeardInterrupt
  <2>2. IdleClear'
    BY <1>3 DEF IdleClear, Interruptible
  <2> QED BY <1>3, <2>1, <2>2, HearsSame
<1> QED BY <1>2, <1>3, InterruptDoes

-----------------------------------------------------------------------------
(* Steps of the runtime that the interface only hears                      *)

LEMMA SendPromptAgrees ==
    ASSUME Inv, UiInv, SendPrompt, Hears(IF reactor'.llm > 0 THEN TurnStarted(ui) ELSE ui)
    PROVE  Agrees(ui)
<1>1. Calm(reactor) /\ phase = "starting" /\ phase' = "running"
  <2>1. reactor.llm \in Nat /\ reactor.retry \in Nat /\ reactor \in ReactorType
    BY DEF Inv, TypeOK, ReactorType
  <2> QED BY <2>1 DEF SendPrompt, Inv, OneActivity, Waits, Calm
<1>2. /\ reactor' \in ReactorType /\ reactor'.retry = 0 /\ reactor'.tools = NoTools
      /\ reactor'.compaction = reactor.compaction
  BY <1>1, UserMessageStarts, UserMessageCompaction DEF SendPrompt, Calm
<1>3. Going' = Going
  BY <1>2 DEF SendPrompt, Going
<1>4. ~ToolsPending(reactor')
  BY <1>2, NoToolsQuiet
<1>5. CASE reactor'.llm > 0
  BY <1>1, <1>3, <1>5, DoingNext, HearsStart
<1>6. CASE ~(reactor'.llm > 0)
  <2>1. Doing' = "waits"
    BY <1>1, <1>2, <1>4, <1>6, DoingNext
  <2>2. IdleClear'
    BY <1>1 DEF IdleClear
  <2> QED BY <1>3, <1>6, <2>1, <2>2, HearsNothing
<1> QED BY <1>5, <1>6

LEMMA LlmAgrees ==
    ASSUME Inv, UiInv,
           \/ LlmAnswers /\ Hears(HeardCompletion(ui))
           \/ LlmCallsTools /\ Hears(HeardTools(ui))
           \/ LlmThrows /\ Hears(IF reactor'.retry > 0 THEN RetryScheduled(ui) ELSE HeardCompletion(ui))
    PROVE  Agrees(ui)
<1>1. phase = "running" /\ reactor.llm > 0 /\ TypeOK
  BY DEF LlmAnswers, LlmCallsTools, LlmThrows, Inv
<1>2. Calm(LlmDone) /\ SameCompaction(LlmDone) /\ Doing = "turn"
  BY <1>1, LlmDoneCalm
<1>3. ui \in Shown
  BY DEF UiInv
<1>4. CASE LlmAnswers /\ Hears(HeardCompletion(ui))
  <2>1. PICK reason \in {"stop", "error", "aborted"} : \E retryable \in BOOLEAN :
           TurnCompleted(LlmDone, reason, retryable)
    BY <1>4 DEF LlmAnswers
  <2>2. PICK retryable \in BOOLEAN : TurnCompleted(LlmDone, reason, retryable)
    BY <2>1
  <2>3. Completes
    BY <1>1, <1>2, <2>2, TurnCompletedDoes
  <2> QED BY <1>2, <1>3, <1>4, <2>3, HearsCompletion
<1>5. CASE LlmCallsTools /\ Hears(HeardTools(ui))
  <2>1. PICK calls \in (SUBSET ToolIds) \ {{}}, sig \in Sigs : ToolRound(LlmDone, calls, sig)
    BY <1>5 DEF LlmCallsTools
  <2>2. ToolsDo
    BY <1>1, <1>2, <2>1, ToolRoundDoes
  <2> QED BY <1>2, <1>5, <2>2, HearsTools
<1>6. CASE LlmThrows /\ Hears(IF reactor'.retry > 0 THEN RetryScheduled(ui) ELSE HeardCompletion(ui))
  <2>1. PICK retryable \in BOOLEAN :
          \/ CanRetry(LlmDone, retryable) /\ ScheduleRetry(LlmDone) /\ UNCHANGED lastReason
          \/ TurnCompleted(LlmDone, "error", FALSE)
    BY <1>6 DEF LlmThrows
  <2>2. Completes
    <3>1. CASE TurnCompleted(LlmDone, "error", FALSE)
      BY <1>1, <1>2, <3>1, TurnCompletedDoes
    <3>2. CASE CanRetry(LlmDone, retryable) /\ ScheduleRetry(LlmDone)
      BY <1>1, <1>2, <3>2, RetryDoes
    <3> QED BY <2>1, <3>1, <3>2
  <2>3. CASE reactor'.retry > 0
    <3> PICK x : x = RetryScheduled(ui)
      OBVIOUS
    <3>1. Hears(x)
      BY <1>6, <2>3
    <3>2. RetryDue
      <4>1. ~NextTurn /\ ~Settled
        BY <2>3 DEF NextTurn, Settled
      <4> QED BY <2>2, <4>1 DEF Completes
    <3>3. Follows(x) /\ x.queue = ui.queue
      BY <1>3, <3>2, RetryFollows, RetryFields DEF RetryDue
    <3>4. UiInv' /\ ui' = x
      BY <3>1, <3>3, HeardInv DEF Hears, Shows
    <3> QED BY <2>2, <3>3, <3>4, CompletesIdle DEF Agrees
  <2>4. CASE ~(reactor'.retry > 0)
    BY <1>2, <1>3, <1>6, <2>2, <2>4, HearsCompletion
  <2> QED BY <2>3, <2>4
<1> QED BY <1>4, <1>5, <1>6

LEMMA TimerAgrees ==
    ASSUME Inv, UiInv, RetryTimer, Hears(IF reactor'.llm > 0 THEN TurnStarted(ui) ELSE ui)
    PROVE  Agrees(ui)
<1>1. /\ phase = "running" /\ reactor \in ReactorType /\ reactor.llm = 0 /\ reactor.retry = 1
      /\ reactor.tools = NoTools /\ reactor.attempt < MaxAttempts
  BY RetryAlone DEF RetryTimer
<1> DEFINE s == [reactor EXCEPT !.retry = @ - 1]
           u == [s EXCEPT !.attempt = @ + 1]
<1>2. Calm(s) /\ s.compaction = reactor.compaction /\ s.attempt = reactor.attempt
  <2>1. reactor.retry - 1 = 0 /\ 0 \in Nat
    BY <1>1
  <2> QED BY <1>1, <2>1 DEF ReactorType, Calm
<1>3. Calm(u) /\ u.compaction = reactor.compaction
  <2>1. s.attempt + 1 \in 0 .. MaxAttempts
    BY <1>1, <1>2, ConstantsAssumption DEF ReactorType
  <2> HIDE DEF s
  <2> QED BY <1>2, <2>1 DEF ReactorType, Calm
<1>4. Proceed(IF s.interrupted THEN s ELSE RequestTurn(u))
  BY DEF RetryTimer
<1> HIDE DEF s, u
<1>5. /\ RequestTurn(u).retry = 0 /\ RequestTurn(u).tools = NoTools
      /\ RequestTurn(u).compaction = reactor.compaction
  BY <1>3 DEF RequestTurn, Calm, ReactorType
<1>6. /\ reactor'.retry = 0 /\ reactor'.tools = NoTools /\ reactor'.compaction = reactor.compaction
      /\ phase' = "running" /\ orphans' = orphans
  BY <1>1, <1>2, <1>4, <1>5 DEF Proceed, Continue, Calm
<1>7. Going' = Going /\ ~ToolsPending(reactor') /\ IdleClear'
  BY <1>6, NoToolsQuiet DEF Going, IdleClear
<1>8. CASE reactor'.llm > 0
  BY <1>6, <1>7, <1>8, DoingNext, HearsStart
<1>9. CASE ~(reactor'.llm > 0)
  BY <1>6, <1>7, <1>9, DoingNext, HearsNothing
<1> QED BY <1>8, <1>9

LEMMA ToolAgrees ==
    ASSUME Inv, UiInv, NEW t \in ToolIds, Tool(t), Hears(HeardTools(ui))
    PROVE  Agrees(ui)
<1>1. phase = "running" /\ reactor.tools[t] \in {"approval", "running"} /\ TypeOK
  BY DEF Tool, ToolEnds, Approve, Reject, Inv
<1>2. Doing = "turn"
  BY <1>1, ToolOutstanding
<1>3. ToolsDo
  <2>1. CASE ToolEnds(t) \/ Reject(t)
    <3>1. ToolsReported([reactor EXCEPT !.tools[t] = "done"])
      BY <2>1 DEF ToolEnds, Reject
    <3> QED BY <1>1, <3>1, ToolReportDoes
  <2>2. CASE Approve(t)
    <3> DEFINE x == [reactor EXCEPT !.tools[t] = "running"]
    <3>1. reactor \in ReactorType
      BY <1>1 DEF TypeOK
    <3>2. x.tools[t] = "running" /\ x.compaction = reactor.compaction
      BY <3>1 DEF ReactorType
    <3>3. reactor' = x /\ phase' = phase /\ orphans' = orphans
      BY <2>2 DEF Approve, Proceed, Continue
    <3> HIDE DEF x
    <3>4. ToolsPending(reactor') /\ Going' = Going
      BY <3>2, <3>3 DEF ToolsPending, Going
    <3> QED BY <1>1, <3>3, <3>4, NoToolsQuiet, DoingNext DEF ToolsDo
  <2> QED BY <2>1, <2>2 DEF Tool
<1> QED BY <1>2, <1>3, HearsTools

-----------------------------------------------------------------------------
(* Texts                                                                   *)

LEMMA TextsEmpty == Texts(<<>>) = {}
BY DEF Texts

LEMMA TextsAppend ==
    ASSUME NEW q \in Seq(QText), NEW e \in QText
    PROVE  Append(q, e) \in Seq(QText) /\ Texts(Append(q, e)) = Texts(q) \cup {e.text}
<1> DEFINE t == Append(q, e)
<1>1. /\ DOMAIN q = 1..Len(q) /\ Len(q) \in Nat
      /\ DOMAIN t = 1..(Len(q) + 1) /\ t \in Seq(QText)
      /\ t[Len(q) + 1] = e
      /\ \A i \in 1..Len(q) : t[i] = q[i]
  OBVIOUS
<1> HIDE DEF t
<1>2. \A i \in DOMAIN t : t[i].text \in Texts(q) \cup {e.text}
  BY <1>1 DEF Texts
<1>3. \A i \in DOMAIN q : q[i].text \in Texts(t)
  BY <1>1 DEF Texts
<1>4. e.text \in Texts(t)
  <2>1. Len(q) + 1 \in DOMAIN t
    BY <1>1
  <2> QED BY <1>1, <2>1 DEF Texts
<1>5. Texts(t) = Texts(q) \cup {e.text}
  BY <1>2, <1>3, <1>4 DEF Texts
<1> QED BY <1>1, <1>5 DEF t

LEMMA TextsSplit ==
    ASSUME NEW q \in Seq(QText), q # <<>>
    PROVE  /\ Tail(q) \in Seq(QText) /\ Head(q) \in QText /\ Head(q).text \in Msgs
           /\ Texts(q) = {Head(q).text} \cup Texts(Tail(q))
<1> DEFINE t == Tail(q)
<1>1. /\ t \in Seq(QText) /\ Head(q) = q[1] /\ q[1] \in QText
      /\ Len(q) \in Nat \ {0} /\ DOMAIN q = 1..Len(q) /\ DOMAIN t = 1..(Len(q) - 1)
      /\ \A i \in 1..(Len(q) - 1) : t[i] = q[i + 1]
  BY EmptySeq
<1> HIDE DEF t
<1>2. \A i \in DOMAIN q : q[i].text \in {q[1].text} \cup Texts(t)
  <2> SUFFICES ASSUME NEW i \in DOMAIN q PROVE q[i].text \in {q[1].text} \cup Texts(t)
    OBVIOUS
  <2>1. CASE i = 1
    BY <2>1
  <2>2. CASE i # 1
    <3>1. i - 1 \in 1..(Len(q) - 1) /\ (i - 1) + 1 = i
      BY <1>1, <2>2
    <3>2. t[i - 1] = q[i] /\ i - 1 \in DOMAIN t
      BY <1>1, <3>1
    <3> QED BY <3>2 DEF Texts
  <2> QED BY <2>1, <2>2
<1>3. \A i \in DOMAIN t : t[i].text \in Texts(q)
  <2> SUFFICES ASSUME NEW i \in DOMAIN t PROVE t[i].text \in Texts(q)
    OBVIOUS
  <2>1. i + 1 \in DOMAIN q /\ t[i] = q[i + 1]
    BY <1>1
  <2> QED BY <2>1 DEF Texts
<1>4. q[1].text \in Texts(q)
  <2>1. 1 \in DOMAIN q
    BY <1>1
  <2> QED BY <2>1 DEF Texts
<1>5. Texts(q) = {q[1].text} \cup Texts(t)
  BY <1>2, <1>3, <1>4 DEF Texts
<1>6. q[1].text \in Msgs
  BY <1>1 DEF QText
<1> QED BY <1>1, <1>5, <1>6 DEF t

-----------------------------------------------------------------------------
(* Steps of the interface                                                  *)

\* A step that tells the interface nothing, whatever it does to queue and loader.
LEMMA UiKept ==
    ASSUME UiInv, NEW x \in Shown, ui' = x, x.streaming = ui.streaming, x.escape = ui.escape,
           x.retrySaved = ui.retrySaved, x.compacting = ui.compacting,
           x.compactionSaved = ui.compactionSaved,
           tangled' \in BOOLEAN, tangled => tangled', mute' \in BOOLEAN,
           ui.working \/ mute => x.working \/ mute',
           Doing' \in {Doing, "waits"}, Going' = Going
    PROVE  UiInv'
<1>1. TurnShown(ui, Doing)'
  BY DEF UiInv, TurnShown
<1>2. ~tangled' => EscapeSound(ui', Doing', Going')
  BY DEF UiInv, EscapeSound
<1>3. (~tangled => EscapeSound(ui, Doing, Going))'
  BY <1>2 DEF EscapeSound
<1> QED BY <1>1, <1>3 DEF UiInv

Sound == Inv /\ TerminalInv

LEMMA RuntimeStepsSound ==
    ASSUME Sound, RuntimeSteps
    PROVE  TerminalInv'
<1>1. Inv /\ UiInv /\ TextsInv /\ RestInv
  BY DEF Sound, TerminalInv
<1>2. Agrees(ui) /\ UNCHANGED mail /\ LoopGoesOn
  BY <1>1, SendPromptAgrees, LlmAgrees, TimerAgrees, ToolAgrees
     DEF RuntimeSteps, Hears, SendPrompt, LlmAnswers, LlmCallsTools, LlmThrows, RetryTimer, Tool,
         ToolEnds, Approve, Reject
<1>3. UNCHANGED <<initial, sending, stage, typed, prompted, editor, abandoned, untold>>
  BY DEF RuntimeSteps
<1>4. TextsInv'
  BY <1>1, <1>2, <1>3 DEF TextsInv, TextsKept, Agrees, mail
<1>5. RestInv'
  BY <1>1, <1>2, <1>3 DEF RestInv, LoopGoesOn
<1> QED BY <1>2, <1>4, <1>5 DEF TerminalInv, Agrees

\* prompt(): a reactor without a compaction.
LEMMA PromptDoes ==
    ASSUME IdleClear, Prompt
    PROVE  Doing' = Doing /\ Going' = Going /\ IdleClear' /\ UNCHANGED mail
<1>1. reactor.compaction = "none" /\ phase = "idle" /\ phase' = "starting"
  BY DEF IdleClear, Prompt
<1>2. reactor'.compaction = "none" /\ orphans' = orphans /\ UNCHANGED mail
  BY DEF Prompt, NewReactor
<1> QED BY <1>1, <1>2, DoingNow, DoingNext DEF Going, IdleClear

LEMMA PromptInitialSound ==
    ASSUME Sound, PromptInitial
    PROVE  TerminalInv'
<1>1. UiInv /\ TextsInv /\ RestInv /\ IdleClear
  BY DEF Sound, TerminalInv
<1>2. Doing' = Doing /\ Going' = Going /\ IdleClear' /\ UNCHANGED mail
  BY <1>1, PromptDoes DEF PromptInitial
<1>3. UNCHANGED <<ui, loop, sending, stage, typed, prompted, editor, abandoned, untold, mute, tangled>>
  BY DEF PromptInitial, history
<1>4. UiInv'
  BY <1>1, <1>2, <1>3, UiKept DEF UiInv
<1>5. TextsInv'
  BY <1>1, <1>2, <1>3 DEF TextsInv, TextsKept, mail
<1>6. initial' \in 0 .. InitialPrompts
  BY <1>1, InterfaceAssumption DEF RestInv, PromptInitial
<1>7. RestInv'
  BY <1>1, <1>3, <1>6 DEF RestInv
<1> QED BY <1>2, <1>4, <1>5, <1>7 DEF TerminalInv

LEMMA EndCompactionSound ==
    ASSUME Sound, EndCompaction
    PROVE  TerminalInv'
<1>1. Inv /\ UiInv /\ TextsInv /\ RestInv /\ IdleClear /\ ui \in Shown /\ orphans \in Nat
  BY DEF Sound, TerminalInv, UiInv, Inv, TypeOK
<1>2. UNCHANGED <<loop, initial, typed, prompted, editor, abandoned, untold, mute, tangled>>
  BY DEF EndCompaction, history
<1>3. /\ Going \in Nat \ {0} /\ Going' = Going - 1 /\ IdleClear' /\ UNCHANGED mail
      /\ phase' = phase /\ reactor'.llm = reactor.llm /\ reactor'.retry = reactor.retry
      /\ reactor'.tools = reactor.tools
  <2>1. CASE CompactionEnds
    <3>1. reactor' = [reactor EXCEPT !.compaction = "none"] /\ reactor \in ReactorType
      BY <1>1, <2>1 DEF CompactionEnds, Proceed, Continue, Inv, TypeOK
    <3>2. /\ reactor'.compaction = "none" /\ reactor'.llm = reactor.llm
          /\ reactor'.retry = reactor.retry /\ reactor'.tools = reactor.tools
      BY <3>1 DEF ReactorType
    <3> QED BY <1>1, <2>1, <3>2 DEF CompactionEnds, Proceed, Continue, Going, IdleClear
  <2>2. CASE OrphanEnds
    BY <1>1, <2>2 DEF OrphanEnds, Going, IdleClear
  <2> QED BY <2>1, <2>2 DEF EndCompaction
<1>4. Doing' = Doing
  BY <1>3, DoingNow, DoingNext DEF ToolsPending
<1> PICK x : x = CompactionOver(ui)
  OBVIOUS
<1>5. x \in Shown /\ x.streaming = ui.streaming /\ x.working = ui.working
  BY <1>1, CompactionOverFields
<1>6. <<>> \in Seq(QText)
  OBVIOUS
<1>7. ui' = [x EXCEPT !.queue = <<>>]
  BY DEF EndCompaction
<1>8. /\ ui' \in Shown /\ ui'.streaming = x.streaming /\ ui'.working = x.working
      /\ ui'.retrySaved = x.retrySaved /\ ui'.escape = x.escape
      /\ ui'.compacting = x.compacting /\ ui'.compactionSaved = x.compactionSaved /\ ui'.queue = <<>>
  BY <1>5, <1>7, EmptiedFields
<1>9. EscapeSound(ui, Doing, Going) => EscapeSound(ui', Doing', Going')
  <2>1. EscapeSound(ui, Doing, Going) => EscapeSound(x, Doing, Going - 1)
    BY <1>1, <1>3, CompactionOverEscape
  <2> QED BY <1>3, <1>4, <1>8, <2>1 DEF EscapeSound
<1>10. UiInv'
  <2>1. TurnShown(ui, Doing)'
    BY <1>1, <1>2, <1>4, <1>5, <1>8 DEF UiInv, TurnShown
  <2>2. (~tangled => EscapeSound(ui, Doing, Going))'
    BY <1>1, <1>2, <1>9 DEF UiInv, EscapeSound
  <2> QED BY <1>1, <1>2, <1>8, <2>1, <2>2 DEF UiInv
<1>11. /\ sending = <<>> /\ sending' = ui.queue /\ ui.queue \in Seq(QText)
       /\ stage' = IF ui.queue = <<>> THEN "none" ELSE "prompt"
  BY <1>1 DEF EndCompaction, Quiet, Shown
<1>12. TextsInv'
  BY <1>1, <1>2, <1>3, <1>8, <1>11, TextsEmpty DEF TextsInv, TextsKept, mail
<1>13. RestInv'
  BY <1>1, <1>2, <1>11 DEF RestInv
<1> QED BY <1>3, <1>10, <1>12, <1>13 DEF TerminalInv

LEMMA Requeued ==
    ASSUME ui \in Shown, NEW q \in Seq(QText), NEW x, x = [ui EXCEPT !.queue = q]
    PROVE  SameButQueue(x) /\ x.queue = q
BY QueueFields DEF SameButQueue

\* A text that is steered or queued during a turn is logged.
LEMMA SteerDoes ==
    ASSUME Inv, NEW m \in Msgs, Steer(m)
    PROVE  /\ Interruptible /\ Elems(inbox') = Elems(inbox) \cup {m} /\ stray' = stray
           /\ \E s : Alike(s) /\ SameCompaction(s) /\ Interrupt(s)
<1>1. reactor \in ReactorType /\ inbox \in Seq(Msgs)
  BY DEF Inv, TypeOK
<1> DEFINE x == [reactor EXCEPT !.queue = Append(@, m)]
<1>2. Append(reactor.queue, m) \in Seq(Msgs)
  BY <1>1 DEF ReactorType
<1>3. Alike(x) /\ SameCompaction(x)
  BY <1>1, <1>2, SetQueue DEF Alike, SameCompaction
<1>4. Interrupt(x) /\ Interruptible /\ inbox' = Append(inbox, m) /\ stray' = stray
  BY DEF Steer
<1> HIDE DEF x
<1> QED BY <1>1, <1>3, <1>4, ElemsAppend

LEMMA FollowUpDoes ==
    ASSUME Inv, IdleClear, NEW m \in Msgs, FollowUp(m)
    PROVE  /\ Elems(inbox') = Elems(inbox) \cup {m} /\ stray' = stray
           /\ Doing' = Doing /\ Going' = Going /\ IdleClear'
<1>1. reactor \in ReactorType /\ inbox \in Seq(Msgs)
  BY DEF Inv, TypeOK
<1> DEFINE x == [reactor EXCEPT !.queue = Append(@, m)]
<1>2. Append(reactor.queue, m) \in Seq(Msgs)
  BY <1>1 DEF ReactorType
<1>3. /\ x.llm = reactor.llm /\ x.retry = reactor.retry /\ x.tools = reactor.tools
      /\ x.compaction = reactor.compaction
  BY <1>1, <1>2, SetQueue
<1>4. reactor' \in {reactor, x} /\ inbox' = Append(inbox, m) /\ UNCHANGED <<phase, orphans, stray>>
  BY DEF FollowUp
<1> HIDE DEF x
<1>5. /\ reactor'.llm = reactor.llm /\ reactor'.retry = reactor.retry /\ reactor'.tools = reactor.tools
      /\ reactor'.compaction = reactor.compaction
  BY <1>3, <1>4
<1>6. Doing' = Doing
  BY <1>4, <1>5, DoingNow, DoingNext DEF ToolsPending
<1> QED BY <1>1, <1>4, <1>5, <1>6, ElemsAppend DEF Going, IdleClear

LEMMA FlushPromptSound ==
    ASSUME Sound, FlushPrompt
    PROVE  TerminalInv'
<1>1. Inv /\ UiInv /\ TextsInv /\ RestInv /\ IdleClear /\ ui \in Shown
  BY DEF Sound, TerminalInv, UiInv
<1>2. UNCHANGED <<loop, initial, typed, editor, abandoned, untold, mute, tangled>>
  BY DEF FlushPrompt
<1>3. /\ stage = "prompt" /\ sending # <<>> /\ sending \in Seq(QText) /\ ui.queue = <<>>
      /\ sending' = Tail(sending) /\ stage' = StageAfter(Tail(sending), "tick")
  BY <1>1 DEF FlushPrompt, TextsInv, RestInv
<1>4. /\ Tail(sending) \in Seq(QText) /\ Head(sending).text \in Msgs
      /\ Texts(sending) = {Head(sending).text} \cup Texts(Tail(sending))
  BY <1>3, TextsSplit
<1>5. CASE phase = "idle"
  <2>1. Prompt /\ prompted' = prompted \cup {Head(sending).text} /\ UNCHANGED ui
    BY <1>5 DEF FlushPrompt
  <2>2. Doing' = Doing /\ Going' = Going /\ IdleClear' /\ UNCHANGED mail
    BY <1>1, <2>1, PromptDoes
  <2>3. UiInv'
    BY <1>1, <1>2, <2>1, <2>2, UiKept DEF UiInv
  <2>4. TextsInv'
    BY <1>1, <1>2, <1>3, <1>4, <2>1, <2>2 DEF TextsInv, TextsKept, StageAfter, mail
  <2>5. RestInv'
    BY <1>1, <1>2, <1>3, <1>4, <2>1 DEF RestInv, StageAfter
  <2> QED BY <2>2, <2>3, <2>4, <2>5 DEF TerminalInv
<1>6. CASE phase # "idle"
  <2> PICK x : x = [ui EXCEPT !.queue = sending]
    OBVIOUS
  <2>1. ui' = x /\ UNCHANGED <<vars, prompted>>
    BY <1>6 DEF FlushPrompt
  <2>2. SameButQueue(x) /\ x.queue = sending
    BY <1>1, <1>3, QueueFields DEF SameButQueue
  <2>3. UNCHANGED <<phase, reactor, orphans, inbox, stray>>
    BY <2>1 DEF vars, mail
  <2>4. Doing' = Doing /\ Going' = Going /\ IdleClear'
    BY <1>1, <2>3 DEF Doing, TurnUnderWay, ToolsPending, Going, IdleClear
  <2>5. UiInv'
    BY <1>1, <1>2, <2>1, <2>2, <2>4, UiKept DEF UiInv, SameButQueue
  <2>6. TextsInv'
    BY <1>1, <1>2, <1>3, <1>4, <2>1, <2>2, <2>3, TextsEmpty DEF TextsInv, TextsKept, StageAfter
  <2>7. RestInv'
    BY <1>1, <1>2, <1>3, <1>4, <2>1 DEF RestInv, StageAfter
  <2> QED BY <2>4, <2>5, <2>6, <2>7 DEF TerminalInv
<1> QED BY <1>5, <1>6

LEMMA FlushNextSound ==
    ASSUME Sound, FlushNext
    PROVE  TerminalInv'
<1>1. Inv /\ UiInv /\ TextsInv /\ RestInv /\ IdleClear /\ ui \in Shown
  BY DEF Sound, TerminalInv, UiInv
<1> PICK m : m = Head(sending).text
  OBVIOUS
<1>2. UNCHANGED <<initial, typed, prompted, editor, abandoned>>
  BY DEF FlushNext
<1>3. /\ stage \in {"tick", "past"} /\ sending # <<>> /\ sending \in Seq(QText)
      /\ sending' = Tail(sending) /\ stage' = StageAfter(Tail(sending), "past")
  BY <1>1 DEF FlushNext, TextsInv, RestInv
<1>4. /\ Tail(sending) \in Seq(QText) /\ m \in Msgs
      /\ Texts(sending) = {m} \cup Texts(Tail(sending))
  BY <1>3, TextsSplit
<1>5. ASSUME UiInv', IdleClear', ui'.queue = ui.queue, stray' = stray, loop' \in {"asks", "prompts"},
             \/ Elems(inbox') = Elems(inbox) \cup {m} /\ untold' = untold
             \/ inbox' = inbox /\ untold' = untold \cup {m}
      PROVE  TerminalInv'
  <2>1. TextsInv'
    BY <1>1, <1>2, <1>3, <1>4, <1>5 DEF TextsInv, TextsKept, StageAfter
  <2>2. RestInv'
    BY <1>1, <1>2, <1>3, <1>4, <1>5 DEF RestInv, StageAfter
  <2> QED BY <1>5, <2>1, <2>2 DEF TerminalInv
<1>6. CASE Steer(m) /\ Hears(HeardInterrupt(ui)) /\ UNCHANGED untold
  <2>1. SameButQueue(ui)
    BY <1>1 DEF SameButQueue
  <2>2. Elems(inbox') = Elems(inbox) \cup {m} /\ stray' = stray
    BY <1>1, <1>4, <1>6, SteerDoes
  <2>3. Agrees(ui)
    BY <1>1, <1>4, <1>6, <2>1, SteerDoes, HearsInterrupt
  <2>4. loop' \in {"asks", "prompts"}
    BY <1>1, <1>6 DEF Hears, LoopGoesOn, RestInv
  <2> QED BY <1>5, <1>6, <2>2, <2>3, <2>4 DEF Agrees
<1>7. CASE untold' = untold \cup {m} /\ UNCHANGED <<vars, ui, loop, mute, tangled>>
  <2>1. UNCHANGED <<phase, reactor, orphans, inbox, stray>>
    BY <1>7 DEF vars, mail
  <2>2. Doing' = Doing /\ Going' = Going /\ IdleClear'
    BY <1>1, <2>1 DEF Doing, TurnUnderWay, ToolsPending, Going, IdleClear
  <2>3. UiInv'
    BY <1>1, <1>7, <2>2, UiKept DEF UiInv
  <2> QED BY <1>1, <1>5, <1>7, <2>1, <2>2, <2>3 DEF RestInv
<1>8. CASE FollowUp(m) /\ UNCHANGED <<ui, loop, mute, tangled, untold>>
  <2>1. /\ Elems(inbox') = Elems(inbox) \cup {m} /\ stray' = stray
        /\ Doing' = Doing /\ Going' = Going /\ IdleClear'
    BY <1>1, <1>4, <1>8, FollowUpDoes
  <2>2. UiInv'
    BY <1>1, <1>8, <2>1, UiKept DEF UiInv
  <2> QED BY <1>1, <1>5, <1>8, <2>1, <2>2 DEF RestInv
<1> QED BY <1>6, <1>7, <1>8 DEF FlushNext

\* A text the user types goes to the queue, the runtime or the loop.
LEMMA SubmitSound ==
    ASSUME Sound, NEW m \in Msgs, Submit(m) \/ SubmitFollowUp(m)
    PROVE  TerminalInv'
<1>1. Inv /\ UiInv /\ TextsInv /\ RestInv /\ IdleClear /\ ui \in Shown
  BY DEF Sound, TerminalInv, UiInv
<1>2. typed' = typed \cup {m} /\ Quiet
  BY DEF Submit, SubmitFollowUp, Key
<1>3. ASSUME UiInv', IdleClear', stray' = stray, loop' \in {"asks", "prompts"},
             UNCHANGED <<initial, sending, stage, editor, abandoned>>,
             \/ ui'.queue = ui.queue
             \/ Texts(ui'.queue) = Texts(ui.queue) \cup {m} /\ UNCHANGED <<inbox, prompted, untold>>,
             Elems(inbox) \subseteq Elems(inbox'),
             prompted' \in {prompted, prompted \cup {m}}, untold' \in {untold, untold \cup {m}},
             m \in prompted' \cup Elems(inbox') \cup Texts(ui'.queue) \cup untold'
      PROVE  TerminalInv'
  <2>1. stage = "none"
    BY <1>1, <1>2 DEF TextsInv, Quiet
  <2>2. TextsInv'
    BY <1>1, <1>2, <1>3, <2>1 DEF TextsInv, TextsKept
  <2>3. RestInv'
    BY <1>1, <1>2, <1>3 DEF RestInv
  <2> QED BY <1>3, <2>2, <2>3 DEF TerminalInv
<1>4. ASSUME NEW mode \in {"steer", "followUp"}, QueueText(m, mode)
      PROVE  TerminalInv'
  <2>0. Queued(m, mode) \in QText /\ Queued(m, mode).text = m
    BY <1>4 DEF Queued, QText
  <2> PICK e \in QText : e = Queued(m, mode) /\ e.text = m
    BY <2>0
  <2> PICK q : q = Append(ui.queue, e)
    OBVIOUS
  <2>1. q \in Seq(QText) /\ Texts(q) = Texts(ui.queue) \cup {m}
    BY <1>1, TextsAppend DEF Shown
  <2> PICK x : x = [ui EXCEPT !.queue = q]
    OBVIOUS
  <2>2. SameButQueue(x) /\ x.queue = q
    BY <1>1, <2>1, Requeued
  <2>3. ui' = x
    BY <1>4 DEF QueueText
  <2>4. /\ UNCHANGED <<loop, initial, sending, stage, prompted, editor, abandoned, untold, mute, tangled>>
        /\ UNCHANGED <<phase, reactor, orphans, inbox, stray>>
    BY <1>4 DEF QueueText, vars, mail
  <2>5. Doing' = Doing /\ Going' = Going /\ IdleClear'
    BY <1>1, <2>4 DEF Doing, TurnUnderWay, ToolsPending, Going, IdleClear
  <2>6. UiInv'
    BY <1>1, <2>2, <2>3, <2>4, <2>5, UiKept DEF UiInv, SameButQueue
  <2> QED BY <1>1, <1>3, <2>1, <2>2, <2>3, <2>4, <2>5, <2>6 DEF RestInv
<1>5. CASE ~ui.compacting /\ ui.streaming /\ SteerText(m)
  <2>1. phase # "idle"
    BY <1>1, <1>5, DoingNow DEF UiInv, TurnShown
  <2>2. Steer(m) /\ Hears(HeardInterrupt(ui))
    BY <1>5, <2>1 DEF SteerText
  <2>3. SameButQueue(ui)
    BY <1>1 DEF SameButQueue
  <2>4. Elems(inbox') = Elems(inbox) \cup {m} /\ stray' = stray
    BY <1>1, <2>2, SteerDoes
  <2>5. Agrees(ui)
    BY <1>1, <2>2, <2>3, SteerDoes, HearsInterrupt
  <2>6. loop' \in {"asks", "prompts"}
    BY <1>1, <2>2 DEF Hears, LoopGoesOn, RestInv
  <2>7. UNCHANGED <<initial, sending, stage, prompted, editor, abandoned, untold>>
    BY <1>5 DEF SteerText
  <2> QED BY <1>3, <2>4, <2>5, <2>6, <2>7 DEF Agrees
<1>6. CASE ~ui.compacting /\ ~ui.streaming /\ GiveToLoop(m)
  <2>1. UNCHANGED <<ui, initial, sending, stage, editor, abandoned, mute, tangled>>
    BY <1>6 DEF GiveToLoop
  <2>2. CASE loop = "asks" /\ phase = "idle"
    <3>1. Prompt /\ loop' = "prompts" /\ prompted' = prompted \cup {m} /\ UNCHANGED untold
      BY <1>6, <2>2 DEF GiveToLoop
    <3>2. Doing' = Doing /\ Going' = Going /\ IdleClear' /\ UNCHANGED mail
      BY <1>1, <3>1, PromptDoes
    <3>3. UiInv'
      BY <1>1, <2>1, <3>2, UiKept DEF UiInv
    <3> QED BY <1>3, <2>1, <3>1, <3>2, <3>3 DEF mail
  <2>3. CASE ~(loop = "asks" /\ phase = "idle")
    <3>1. /\ untold' = IF Stalled THEN untold \cup {m} ELSE untold
          /\ UNCHANGED <<loop, prompted, phase, reactor, orphans, inbox, stray>>
      BY <1>6, <2>3 DEF GiveToLoop, vars, mail
    <3>2. phase # "idle"
      BY <1>1, <1>2, <2>3 DEF Quiet, RestInv
    <3>3. ~TurnUnderWay
      <4>1. Doing # "turn"
        BY <1>1, <1>6 DEF UiInv, TurnShown
      <4> QED BY <4>1, DoingNow DEF TurnUnderWay
    <3>4. untold' = untold \cup {m}
      BY <3>1, <3>2, <3>3 DEF Stalled
    <3>5. Doing' = Doing /\ Going' = Going /\ IdleClear'
      BY <1>1, <3>1 DEF Doing, TurnUnderWay, ToolsPending, Going, IdleClear
    <3>6. UiInv'
      BY <1>1, <2>1, <3>5, UiKept DEF UiInv
    <3> QED BY <1>1, <1>3, <2>1, <3>1, <3>4, <3>5, <3>6 DEF RestInv
  <2> QED BY <2>2, <2>3
<1>7. CASE ~ui.compacting /\ ui.streaming /\ FollowUpText(m)
  <2>1. /\ FollowUp(m)
        /\ UNCHANGED <<ui, loop, initial, sending, stage, prompted, editor, abandoned, untold, mute, tangled>>
    BY <1>7 DEF FollowUpText
  <2>2. /\ Elems(inbox') = Elems(inbox) \cup {m} /\ stray' = stray
        /\ Doing' = Doing /\ Going' = Going /\ IdleClear'
    BY <1>1, <2>1, FollowUpDoes
  <2>3. UiInv'
    BY <1>1, <2>1, <2>2, UiKept DEF UiInv
  <2> QED BY <1>1, <1>3, <2>1, <2>2, <2>3 DEF RestInv
<1> QED BY <1>4, <1>5, <1>6, <1>7 DEF Submit, SubmitFollowUp

-----------------------------------------------------------------------------
(* Keys and commands                                                       *)

\* A step that leaves the runtime alone.
LEMMA StillDoes ==
    ASSUME UNCHANGED vars, IdleClear
    PROVE  /\ Doing' = Doing /\ Going' = Going /\ IdleClear'
           /\ UNCHANGED <<phase, reactor, orphans, inbox, stray>>
<1>1. UNCHANGED <<phase, reactor, orphans, inbox, stray>>
  BY DEF vars, mail
<1> QED BY <1>1 DEF Doing, TurnUnderWay, ToolsPending, Going, IdleClear

LEMMA TextsType ==
    ASSUME NEW q \in Seq(QText)
    PROVE  Texts(q) \subseteq Msgs
<1>1. \A i \in DOMAIN q : q[i] \in QText
  OBVIOUS
<1>2. \A i \in DOMAIN q : q[i].text \in Msgs
  BY <1>1 DEF QText
<1> QED BY <1>2 DEF Texts

\* Texts that leave the queue go to the editor or stay behind.
LEMMA KeyTexts ==
    ASSUME TextsInv, RestInv, Quiet, ui.queue \in Seq(QText), loop' \in {"asks", "prompts"},
           UNCHANGED <<initial, sending, stage, typed, prompted, untold, inbox, stray>>,
           editor' \in {editor, editor \cup Texts(ui.queue)},
           abandoned' \in {abandoned, abandoned \cup Texts(ui.queue)},
           \/ ui'.queue = ui.queue
           \/ Texts(ui.queue) \subseteq editor' \cup abandoned'
    PROVE  TextsInv' /\ RestInv'
<1>1. stage = "none"
  BY DEF TextsInv, Quiet
<1>2. TextsInv'
  BY <1>1 DEF TextsInv, TextsKept
<1>3. Texts(ui.queue) \subseteq Msgs
  BY TextsType
<1>4. RestInv'
  BY <1>3 DEF RestInv
<1> QED BY <1>2, <1>4

LEMMA Emptied ==
    ASSUME ui \in Shown, NEW x, x = [ui EXCEPT !.queue = <<>>]
    PROVE  SameButQueue(x) /\ x.queue = <<>>
BY EmptiedFields DEF SameButQueue

LEMMA DequeueSound ==
    ASSUME Sound, Dequeue
    PROVE  TerminalInv'
<1>1. UiInv /\ TextsInv /\ RestInv /\ IdleClear /\ ui \in Shown /\ ui.queue \in Seq(QText)
  BY DEF Sound, TerminalInv, UiInv, Shown
<1>2. /\ Quiet /\ editor' = editor \cup Texts(ui.queue)
      /\ UNCHANGED <<vars, loop, initial, sending, stage, typed, prompted, abandoned, untold, mute, tangled>>
  BY DEF Dequeue, RestoreQueue, Key
<1> PICK x : x = [ui EXCEPT !.queue = <<>>]
  OBVIOUS
<1>3. ui' = x /\ SameButQueue(x)
  BY <1>1, Emptied DEF Dequeue
<1>4. /\ Doing' = Doing /\ Going' = Going /\ IdleClear'
      /\ UNCHANGED <<phase, reactor, orphans, inbox, stray>>
  BY <1>1, <1>2, StillDoes
<1>5. UiInv'
  BY <1>1, <1>2, <1>3, <1>4, UiKept DEF UiInv, SameButQueue
<1>6. TextsInv' /\ RestInv'
  BY <1>1, <1>2, <1>4, KeyTexts DEF RestInv
<1> QED BY <1>4, <1>5, <1>6 DEF TerminalInv

LEMMA EscapeKeySound ==
    ASSUME Sound, Escape
    PROVE  TerminalInv'
<1>1. /\ Inv /\ UiInv /\ TextsInv /\ RestInv /\ IdleClear /\ ui \in Shown
      /\ ui.queue \in Seq(QText) /\ reactor \in ReactorType
  BY DEF Sound, TerminalInv, UiInv, Shown, Inv, TypeOK
<1> PICK u : u = IF ui.escape = "normal" THEN [ui EXCEPT !.queue = <<>>] ELSE ui
  OBVIOUS
<1>2. /\ Quiet /\ editor' = IF ui.escape = "normal" THEN editor \cup Texts(ui.queue) ELSE editor
      /\ UNCHANGED <<initial, sending, stage, typed, prompted, abandoned, untold>>
  BY DEF Escape, RestoreQueue, Key
<1>3. SameButQueue(u) /\ (ui.escape = "normal" \/ u.queue = ui.queue)
  <2>1. CASE ui.escape = "normal"
    BY <1>1, <2>1, Emptied
  <2>2. CASE ui.escape # "normal"
    BY <1>1, <2>2 DEF SameButQueue
  <2> QED BY <2>1, <2>2
<1>4. \/ phase = "idle" /\ UNCHANGED vars /\ Hears(u)
      \/ Abort /\ Hears(HeardInterrupt(u))
  BY DEF Escape
<1>5. Agrees(u) /\ UNCHANGED <<inbox, stray>> /\ loop' \in {"asks", "prompts"}
  <2>1. CASE UNCHANGED vars /\ Hears(u)
    <3>1. /\ Doing' = Doing /\ Going' = Going /\ IdleClear'
          /\ UNCHANGED <<phase, reactor, orphans, inbox, stray>>
      BY <1>1, <2>1, StillDoes
    <3>2. Agrees(u)
      BY <1>1, <1>3, <2>1, <3>1, HearsSame
    <3> QED BY <1>1, <2>1, <3>1, <3>2 DEF Hears, LoopGoesOn, RestInv
  <2>2. CASE Abort /\ Hears(HeardInterrupt(u))
    <3> DEFINE x == [reactor EXCEPT !.abortedByUser = TRUE]
    <3>1. Alike(x) /\ SameCompaction(x)
      BY <1>1 DEF Alike, SameCompaction, ReactorType
    <3>2. Interruptible /\ Interrupt(x) /\ UNCHANGED mail
      BY <2>2 DEF Abort
    <3> HIDE DEF x
    <3>3. Agrees(u)
      BY <1>1, <1>3, <2>2, <3>1, <3>2, HearsInterrupt
    <3> QED BY <1>1, <2>2, <3>2, <3>3 DEF Hears, LoopGoesOn, RestInv, mail
  <2> QED BY <1>4, <2>1, <2>2
<1>6. TextsInv' /\ RestInv'
  BY <1>1, <1>2, <1>3, <1>5, KeyTexts DEF Agrees
<1> QED BY <1>5, <1>6 DEF Agrees, TerminalInv

LEMMA CompactCommandSound ==
    ASSUME Sound, CompactCommand
    PROVE  TerminalInv'
<1>1. /\ Inv /\ UiInv /\ TextsInv /\ RestInv /\ IdleClear /\ ui \in Shown
      /\ ui.queue \in Seq(QText) /\ reactor \in ReactorType
      /\ mute \in BOOLEAN /\ tangled \in BOOLEAN /\ ui.working \in BOOLEAN
  BY DEF Sound, TerminalInv, UiInv, Shown, Inv, TypeOK
<1> PICK u : u = [ui EXCEPT !.working = FALSE]
  OBVIOUS
<1>2. /\ Quiet /\ mute' = (mute \/ ui.working)
      /\ UNCHANGED <<loop, initial, sending, stage, typed, prompted, editor, abandoned, untold>>
  BY DEF CompactCommand, Key
<1>3. /\ u \in Shown /\ u.streaming = ui.streaming /\ u.working = FALSE
      /\ u.retrySaved = ui.retrySaved /\ u.escape = ui.escape /\ u.compacting = ui.compacting
      /\ u.compactionSaved = ui.compactionSaved /\ u.queue = ui.queue
  BY <1>1, WorkingFields
<1>4. (Compact /\ Shows(CompactionStarted(u))) \/ (UNCHANGED vars /\ Shows(u))
  BY DEF CompactCommand
<1>5. UiInv' /\ IdleClear' /\ ui'.queue = ui.queue /\ UNCHANGED <<inbox, stray>>
  <2>1. CASE UNCHANGED vars /\ Shows(u)
    <3>1. /\ Doing' = Doing /\ Going' = Going /\ IdleClear'
          /\ UNCHANGED <<phase, reactor, orphans, inbox, stray>>
      BY <1>1, <2>1, StillDoes
    <3>2. ui' = u /\ tangled' \in BOOLEAN /\ (tangled => tangled')
      BY <1>1, <2>1 DEF Shows
    <3>3. mute' \in BOOLEAN /\ (ui.working \/ mute => u.working \/ mute')
      BY <1>1, <1>2
    <3>4. UiInv'
      BY <1>1, <1>3, <3>1, <3>2, <3>3, UiKept
    <3> QED BY <1>3, <3>1, <3>2, <3>4
  <2>2. CASE Compact /\ Shows(CompactionStarted(u))
    <3> PICK x : x = CompactionStarted(u)
      OBVIOUS
    <3> DEFINE r == [reactor EXCEPT !.compaction = "running"]
    <3>1. /\ phase # "idle" /\ phase' = phase /\ reactor.compaction = "none"
          /\ reactor' = r /\ orphans' = orphans /\ UNCHANGED <<inbox, stray>>
      BY <2>2 DEF Compact, Proceed, Continue, RequestCompaction, mail
    <3>2. /\ r.compaction = "running" /\ r.llm = reactor.llm
          /\ r.retry = reactor.retry /\ r.tools = reactor.tools
      BY <1>1 DEF ReactorType
    <3> HIDE DEF r
    <3>3. Going' = Going + 1
      BY <3>1, <3>2 DEF Going
    <3>4. Doing' = Doing
      BY <3>1, <3>2, DoingNow, DoingNext DEF ToolsPending
    <3>5. /\ x \in Shown /\ x.streaming = ui.streaming /\ x.queue = ui.queue
      BY <1>3, CompactionStartedFields
    <3>6. ui' = x /\ tangled' \in BOOLEAN /\ (~tangled' => ~tangled /\ ~Tangles(x))
      BY <1>1, <2>2 DEF Shows, Tangles
    <3>7. EscapeSound(ui, Doing, Going) => EscapeSound(u, Doing, Going)
      BY <1>3 DEF EscapeSound
    <3>8. EscapeSound(u, Doing, Going) /\ ~Tangles(x) => EscapeSound(x, Doing, Going + 1)
      BY <1>3, CompactionEscape
    <3>9. ~tangled' => EscapeSound(ui', Doing', Going')
      BY <1>1, <3>3, <3>4, <3>6, <3>7, <3>8 DEF UiInv
    <3>10. (~tangled => EscapeSound(ui, Doing, Going))'
      BY <3>9 DEF EscapeSound
    <3>11. TurnShown(ui, Doing)'
      BY <1>1, <1>2, <3>4, <3>5, <3>6 DEF UiInv, TurnShown
    <3>12. UiInv'
      BY <1>1, <1>2, <3>5, <3>6, <3>10, <3>11 DEF UiInv
    <3>13. IdleClear'
      BY <3>1 DEF IdleClear
    <3> QED BY <3>1, <3>5, <3>6, <3>12, <3>13
  <2> QED BY <1>4, <2>1, <2>2
<1>6. TextsInv' /\ RestInv'
  BY <1>1, <1>2, <1>5, KeyTexts DEF RestInv
<1> QED BY <1>5, <1>6 DEF TerminalInv

LEMMA ChangeSessionSound ==
    ASSUME Sound, ChangeSession
    PROVE  TerminalInv'
<1>1. /\ UiInv /\ TextsInv /\ RestInv /\ IdleClear /\ ui \in Shown /\ ui.queue \in Seq(QText)
      /\ mute \in BOOLEAN /\ tangled \in BOOLEAN /\ ui.working \in BOOLEAN
  BY DEF Sound, TerminalInv, UiInv, Shown
<1>2. /\ Quiet /\ abandoned' = abandoned \cup Texts(ui.queue)
      /\ UNCHANGED <<vars, loop, initial, sending, stage, typed, prompted, editor, untold, tangled>>
  BY DEF ChangeSession, Key
<1>3. PICK resumed \in BOOLEAN :
          /\ ui' = [ui EXCEPT !.queue = <<>>, !.working = @ /\ ~resumed]
          /\ mute' = (mute \/ (ui.working /\ resumed))
  BY DEF ChangeSession
<1> PICK e : e = [ui EXCEPT !.queue = <<>>]
  OBVIOUS
<1> PICK b \in BOOLEAN : b <=> ui.working /\ ~resumed
  OBVIOUS
<1> PICK x : x = [e EXCEPT !.working = b]
  OBVIOUS
<1>4. SameButQueue(e)
  BY <1>1, Emptied
<1>5. /\ x \in Shown /\ x.streaming = e.streaming /\ x.working = b
      /\ x.retrySaved = e.retrySaved /\ x.escape = e.escape /\ x.compacting = e.compacting
      /\ x.compactionSaved = e.compactionSaved
  <2>1. e \in Shown
    BY <1>4 DEF SameButQueue
  <2>2. b \in BOOLEAN /\ x = [e EXCEPT !.working = b]
    OBVIOUS
  <2> QED BY ONLY <2>1, <2>2, WorkingFields
<1>6. ui' = x
  <2>1. b = (ui.working /\ ~resumed)
    BY <1>1
  <2> QED BY <1>1, <1>3, <2>1 DEF Shown
<1>7. /\ Doing' = Doing /\ Going' = Going /\ IdleClear'
      /\ UNCHANGED <<phase, reactor, orphans, inbox, stray>>
  BY <1>1, <1>2, StillDoes
<1>8. mute' \in BOOLEAN /\ (ui.working \/ mute => x.working \/ mute')
  BY <1>1, <1>3, <1>5
<1>9. UiInv'
  BY <1>1, <1>2, <1>4, <1>5, <1>6, <1>7, <1>8, UiKept DEF SameButQueue
<1>10. TextsInv' /\ RestInv'
  BY <1>1, <1>2, <1>7, KeyTexts DEF RestInv
<1> QED BY <1>7, <1>9, <1>10 DEF TerminalInv

-----------------------------------------------------------------------------
(* The terminal interface as the client of the runtime                     *)

LEMMA TerminalStep ==
    ASSUME Sound, InterfaceNext
    PROVE  TerminalInv'
BY RuntimeStepsSound, PromptInitialSound, EndCompactionSound, FlushPromptSound, FlushNextSound,
   SubmitSound, DequeueSound, EscapeKeySound, CompactCommandSound, ChangeSessionSound
   DEF InterfaceNext

\* The interface does what any client may do.
LEMMA InterfaceCalls ==
    ASSUME Sound, InterfaceNext
    PROVE  [Next]_vars
<1>1. CASE RuntimeSteps
  BY <1>1 DEF RuntimeSteps, Next
<1>2. CASE PromptInitial \/ EndCompaction \/ FlushPrompt
  BY <1>2 DEF PromptInitial, EndCompaction, FlushPrompt, Next
<1>3. CASE FlushNext
  <2>1. Head(sending).text \in Msgs
    <3>1. sending \in Seq(QText) /\ sending # <<>>
      BY <1>3 DEF FlushNext, Sound, TerminalInv, TextsInv, RestInv
    <3> QED BY <3>1, TextsSplit
  <2>2. \/ Steer(Head(sending).text) \/ FollowUp(Head(sending).text) \/ UNCHANGED vars
    BY <1>3 DEF FlushNext
  <2> QED BY <2>1, <2>2 DEF Next, Input
<1>4. ASSUME NEW m \in Msgs, Submit(m) \/ SubmitFollowUp(m) PROVE [Next]_vars
  BY <1>4 DEF Submit, SubmitFollowUp, QueueText, SteerText, FollowUpText, GiveToLoop, Next, Input
<1>5. CASE Dequeue \/ Escape \/ CompactCommand \/ ChangeSession
  BY <1>5 DEF Dequeue, Escape, CompactCommand, ChangeSession, Next
<1> QED BY <1>1, <1>2, <1>3, <1>4, <1>5 DEF InterfaceNext

LEMMA RuntimeStep == Inv /\ [Next]_vars => Inv'
<1> SUFFICES ASSUME Inv, [Next]_vars PROVE Inv'
  OBVIOUS
<1>1. CASE Next
  BY <1>1, CallsInv, AwaitsInv DEF Next
<1>2. CASE UNCHANGED vars
  BY <1>2 DEF vars, mail, Inv, TypeOK, OneActivity, RetryRoom, Tracked, Waits, ToolsPending
<1> QED BY <1>1, <1>2

\* What the interface tells follows from the invariant.
LEMMA TerminalTells ==
    ASSUME Sound
    PROVE  InterfaceSound
<1>1. /\ Inv /\ UiInv /\ TextsInv /\ RestInv /\ ui \in Shown /\ reactor \in ReactorType
      /\ orphans \in Nat
  BY DEF Sound, TerminalInv, UiInv, Inv, TypeOK
<1>2. InterfaceTypeOK
  BY <1>1 DEF RestInv, InterfaceTypeOK, Shown, QText
<1>3. TextsKept
  BY <1>1 DEF TextsInv
<1>4. /\ TurnUnderWay => Doing = "turn"
      /\ Doing = "idle" <=> phase # "running"
  BY DoingNow DEF TurnUnderWay
<1>5. Compacting <=> Going > 0
  BY <1>1 DEF Compacting, Going
<1>6. /\ TurnUnderWay => ui.streaming /\ (ui.working \/ mute)
      /\ ui.streaming => phase = "running"
  BY <1>1, <1>4 DEF UiInv, TurnShown
<1>7. ASSUME ~tangled
      PROVE  /\ ui.compacting <=> Compacting
             /\ Compacting => ui.escape = "compaction"
             /\ Doing = "retries" => ui.escape = "retry"
             /\ Doing = "idle" /\ ~Compacting => ui.escape = "normal"
  <2>1. EscapeSound(ui, Doing, Going)
    BY <1>1, <1>7 DEF UiInv
  <2>2. ui.compacting <=> Going > 0
    BY <2>1 DEF EscapeSound
  <2> QED BY <1>5, <2>1, <2>2 DEF EscapeSound
<1>8. FlagsTell
  BY <1>6, <1>7 DEF FlagsTell
<1>9. reactor.retry > 0 => Doing = "retries"
  <2>1. /\ reactor.llm \in Nat /\ reactor.retry \in Nat
        /\ reactor.retry > 0 => phase = "running"
    BY <1>1 DEF ReactorType, Inv, OneActivity, Waits, TypeOK
  <2>2. reactor.retry > 0 => reactor.llm = 0 /\ reactor.tools = NoTools
    BY <1>1, <2>1, RetryAlone
  <2> QED BY <2>1, <2>2, NoToolsQuiet, DoingNow
<1>10. EscapeInterrupts
  BY <1>4, <1>6, <1>7, <1>9 DEF EscapeInterrupts
<1> QED BY <1>2, <1>3, <1>8, <1>10 DEF InterfaceSound

LEMMA TerminalInit ==
    ASSUME InterfaceInit
    PROVE  Sound
<1>1. Inv /\ phase = "idle" /\ reactor.compaction = "none" /\ orphans = 0 /\ stray = {}
  <2>1. Init
    BY DEF InterfaceInit
  <2>2. <<>> \in Seq(Msgs)
    OBVIOUS
  <2>3. Calm(reactor) /\ reactor.attempt = 0
    BY <2>1, <2>2, NewReactorType DEF Init
  <2>4. Waits(reactor) = 0 /\ ~ToolsPending(reactor)
    BY <2>3, NoToolsQuiet DEF Calm, Waits
  <2>5. reactor.compaction = "none"
    BY <2>1 DEF Init, NewReactor
  <2>6. Inv
    BY <2>1, <2>2, <2>3, <2>4 DEF Init, Inv, TypeOK, OneActivity, RetryRoom, Tracked, Calm, Reasons
  <2> QED BY <2>1, <2>5, <2>6 DEF Init
<1>2. <<>> \in Seq(QText)
  OBVIOUS
<1>3. /\ ui = [streaming |-> FALSE, compacting |-> FALSE, working |-> FALSE, escape |-> "normal",
               retrySaved |-> "none", compactionSaved |-> "none", queue |-> <<>>]
      /\ sending = <<>> /\ stage = "none" /\ mute = FALSE /\ tangled = FALSE
      /\ typed = {} /\ prompted = {} /\ editor = {} /\ abandoned = {} /\ untold = {}
      /\ initial = InitialPrompts /\ loop \in {"asks", "prompts"}
  BY DEF InterfaceInit
<1>4. ui \in Shown
  BY <1>2, <1>3 DEF Shown, Handlers
<1>5. Doing = "idle" /\ Going = 0
  BY <1>1 DEF Doing, Going
<1>6. UiInv
  BY <1>3, <1>4, <1>5 DEF UiInv, TurnShown, EscapeSound
<1>7. TextsInv
  BY <1>1, <1>3 DEF TextsInv, TextsKept
<1>8. RestInv
  BY <1>2, <1>3, InterfaceAssumption DEF RestInv
<1> QED BY <1>1, <1>6, <1>7, <1>8 DEF Sound, TerminalInv, IdleClear

\* Nothing of what the interface keeps has changed.
LEMMA TerminalStill ==
    ASSUME Sound, UNCHANGED vars, UNCHANGED uiVars
    PROVE  TerminalInv'
<1>1. UiInv /\ TextsInv /\ RestInv /\ IdleClear
  BY DEF Sound, TerminalInv
<1>2. UNCHANGED <<ui, loop, initial, sending, stage, typed, prompted, editor, abandoned, untold, mute, tangled>>
  BY DEF uiVars, history
<1>3. /\ Doing' = Doing /\ Going' = Going /\ IdleClear'
      /\ UNCHANGED <<phase, reactor, orphans, inbox, stray>>
  BY <1>1, StillDoes
<1>4. UiInv'
  BY <1>1, <1>2, <1>3 DEF UiInv, TurnShown, EscapeSound
<1>5. TextsInv' /\ RestInv'
  BY <1>1, <1>2, <1>3 DEF TextsInv, TextsKept, RestInv
<1> QED BY <1>3, <1>4, <1>5 DEF TerminalInv

ClientsInv ==
    /\ Inv /\ client \in {"any", "terminal"}
    /\ client = "terminal" => TerminalInv

\* However the runtime is used from the terminal, the flags tell what it does, no
\* text is lost but while a prompt is stalled, and Escape interrupts what goes on.
THEOREM TerminalAlwaysSound == ClientsSpec => []TerminalSound
<1>1. ClientsInit => ClientsInv
  <2> SUFFICES ASSUME ClientsInit PROVE ClientsInv
    OBVIOUS
  <2>1. Sound
    BY TerminalInit DEF ClientsInit
  <2> QED BY <2>1 DEF Sound, ClientsInit, ClientsInv
<1>2. ClientsInv /\ [ClientsNext]_<<client, vars, uiVars>> => ClientsInv'
  <2> SUFFICES ASSUME ClientsInv, [ClientsNext]_<<client, vars, uiVars>> PROVE ClientsInv'
    OBVIOUS
  <2>1. client' = client /\ client \in {"any", "terminal"}
    BY DEF ClientsNext, ClientsInv
  <2>2. CASE client = "any"
    <3>1. [Next]_vars
      BY <2>2 DEF ClientsNext
    <3> QED BY <2>1, <2>2, <3>1, RuntimeStep DEF ClientsInv
  <2>3. CASE client = "terminal"
    <3>1. Sound
      BY <2>3 DEF Sound, ClientsInv
    <3>2. CASE InterfaceNext
      BY <2>1, <3>1, <3>2, InterfaceCalls, RuntimeStep, TerminalStep DEF Sound, ClientsInv
    <3>3. CASE UNCHANGED <<client, vars, uiVars>>
      BY <2>1, <3>1, <3>3, RuntimeStep, TerminalStill DEF Sound, ClientsInv
    <3> QED BY <2>3, <3>2, <3>3 DEF ClientsNext
  <2> QED BY <2>1, <2>2, <2>3
<1>3. ClientsInv => TerminalSound
  BY TerminalTells DEF ClientsInv, Sound, TerminalSound
<1> QED
  BY <1>1, <1>2, <1>3, PTL DEF ClientsSpec
=============================================================================
