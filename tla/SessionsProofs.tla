--------------------------- MODULE SessionsProofs ---------------------------
(***************************************************************************)
(* The index of the sessions stays sound, in memory and as a restart would *)
(* find it, whatever commands, prompts and scheduled dispatches do and     *)
(* wherever the process dies; what a session shows is never taken back; a  *)
(* prompt keeps the history of its session; and a turn that nobody disturbs*)
(* is answered where it was asked.  For logs of any length and any number of*)
(* sessions.                                                               *)
(*                                                                         *)
(* A step is a chain of methods on a record S of the log and the manager's *)
(* maps; each method maps a sound record to a sound one that has grown out of*)
(* it, and a context grows with its log and its sessions.                  *)
(***************************************************************************)
EXTENDS Sessions, TLAPS, SequenceTheorems, WellFoundedInduction

SStates == [log : Seq(EventAt), threads : Nat, sessions : Seq(SessionAt),
            thread : Nat, session : Nat]

\* The index is sound for a log of n events.
Sound(n, threads, sessions) ==
    \A i \in DOMAIN sessions :
        /\ sessions[i].thread \in 1 .. threads
        /\ sessions[i].start \in 0 .. n /\ sessions[i].end \in 0 .. n
        /\ ~Open(sessions[i]) => sessions[i].start < sessions[i].end
        /\ sessions[i].ctx # None =>
              sessions[i].ctx \in 1 .. (i - 1) /\ ~Open(sessions[sessions[i].ctx])

Kept(S) ==
    /\ S \in SStates
    /\ Sound(Len(S.log), S.threads, S.sessions)
    /\ S.thread \in 0 .. S.threads /\ S.session \in 0 .. Len(S.sessions)

\* The active session is in the active thread.
Placed(S) == S.session # None => S.sessions[S.session].thread = S.thread

\* From the log L and the sessions S to M and T: no event or session is taken back
\* or changed, except that open sessions may end, beyond what was logged.
Grows(L, S, M, T) ==
    /\ Len(L) <= Len(M) /\ \A e \in 1 .. Len(L) : M[e] = L[e]
    /\ Len(S) <= Len(T)
    /\ \A i \in 1 .. Len(S) :
          /\ T[i].thread = S[i].thread /\ T[i].start = S[i].start /\ T[i].ctx = S[i].ctx
          /\ Open(S[i]) => Open(T[i]) \/ Len(L) < T[i].end
          /\ ~Open(S[i]) => T[i].end = S[i].end

\* T has grown out of S.
Follows(S, T) == Grows(S.log, S.sessions, T.log, T.sessions)

\* T is sound, has an active session, and has grown out of S.
Reached(S, T) == Kept(T) /\ Placed(T) /\ T.session # None /\ Follows(S, T)

-----------------------------------------------------------------------------
(* The greatest of finitely many numbers.                                  *)

LEMMA GreatestOf ==
    ASSUME NEW b \in Nat, NEW S \in SUBSET (0 .. b), S # {}
    PROVE  Max(S) \in S
<1> DEFINE R == {q \in Nat \X Nat : q[1] < q[2]}
           T == {b - x : x \in S}
<1>1. IsWellFoundedOn(R, Nat)
  BY NatLessThanWellFounded DEF OpToRel
<1>2. T \in SUBSET Nat /\ T # {}
  <2>1. ASSUME NEW x \in S PROVE b - x \in Nat
    <3>1. x \in 0 .. b
      OBVIOUS
    <3> QED BY <3>1
  <2> QED BY <2>1
<1> HIDE DEF T
<1>3. PICK m \in T : \A y \in T : ~(<<y, m>> \in R)
  BY <1>1, <1>2, WFMin
<1>4. PICK x \in S : m = b - x
  BY <1>3 DEF T
<1>5. ASSUME NEW y \in S PROVE x >= y
  <2>1. b - y \in T /\ b - y \in Nat /\ m \in Nat
    BY <1>2, <1>3 DEF T
  <2>2. <<b - y, m>> \in Nat \X Nat /\ <<b - y, m>>[1] = b - y /\ <<b - y, m>>[2] = m
    BY <2>1
  <2>3. ~(b - y < m)
    BY <1>3, <2>1, <2>2
  <2>4. x \in 0 .. b /\ y \in 0 .. b
    OBVIOUS
  <2> QED BY <1>4, <2>3, <2>4
<1> QED BY <1>5 DEF Max

-----------------------------------------------------------------------------
(* Induction and recursion.                                                *)

LEMMA Induction ==
    ASSUME NEW P \in SUBSET Nat, 0 \in P, \A k \in P : k + 1 \in P
    PROVE  P = Nat
<1> SUFFICES ASSUME Nat \ P # {} PROVE FALSE
  OBVIOUS
<1> DEFINE R == {q \in Nat \X Nat : q[1] < q[2]}
<1>1. IsWellFoundedOn(R, Nat)
  BY NatLessThanWellFounded DEF OpToRel
<1>2. PICK x \in Nat \ P : \A y \in Nat \ P : ~(<<y, x>> \in R)
  <2>1. Nat \ P \subseteq Nat
    OBVIOUS
  <2> HIDE DEF R
  <2> QED BY <1>1, <2>1, WFMin
<1>3. x # 0 /\ x - 1 \in Nat /\ x - 1 < x /\ (x - 1) + 1 = x
  OBVIOUS
<1>4. <<x - 1, x>> \in R
  BY <1>3
<1>5. x - 1 \in P
  BY <1>2, <1>3, <1>4
<1> QED BY <1>3, <1>5

\* A value and a step define a function.
LEMMA Recursion ==
    ASSUME NEW S, NEW a \in S, NEW n \in Nat, NEW g \in [1 .. n -> [S -> S]]
    PROVE  \E f \in [0 .. n -> S] : f[0] = a /\ \A k \in 1 .. n : f[k] = g[k][f[k - 1]]
<1> DEFINE Runs(m, f) == f \in [0 .. m -> S] /\ f[0] = a /\ \A k \in 1 .. m : f[k] = g[k][f[k - 1]]
           P == {m \in Nat : m <= n => \E f : Runs(m, f)}
<1>1. 0 \in P
  <2> DEFINE f == [k \in 0 .. 0 |-> a]
  <2>1. (\A k : k \in 0 .. 0 <=> k = 0) /\ ~(\E k : k \in 1 .. 0)
    OBVIOUS
  <2>2. f \in [0 .. 0 -> S] /\ f[0] = a /\ \A k \in 1 .. 0 : f[k] = g[k][f[k - 1]]
    BY <2>1
  <2> QED BY <2>2
<1>2. ASSUME NEW m \in P PROVE m + 1 \in P
  <2>0. m \in Nat /\ m + 1 \in Nat
    OBVIOUS
  <2> SUFFICES ASSUME m + 1 <= n PROVE \E f : Runs(m + 1, f)
    <3> HIDE DEF Runs
    <3> QED BY <2>0
  <2>00. m <= n
    BY <2>0
  <2>1. PICK f : Runs(m, f)
    BY <2>0, <2>00
  <2> DEFINE h == [k \in 0 .. m + 1 |-> IF k = m + 1 THEN g[m + 1][f[m]] ELSE f[k]]
  <2>2. m \in Nat /\ m + 1 \in 1 .. n /\ f[m] \in S
    BY <2>1
  <2>3. g[m + 1][f[m]] \in S
    BY <2>2
  <2>4. h \in [0 .. m + 1 -> S] /\ h[0] = a
    BY <2>1, <2>2, <2>3
  <2>5. ASSUME NEW k \in 1 .. m + 1 PROVE h[k] = g[k][h[k - 1]]
    <3>1. k - 1 \in 0 .. m /\ h[k - 1] = f[k - 1] /\ k \in 0 .. m + 1
      BY <2>2
    <3>2. CASE k = m + 1
      BY <2>2, <3>1, <3>2
    <3>3. CASE k # m + 1
      <4>1. k \in 1 .. m /\ h[k] = f[k]
        BY <2>2, <3>3
      <4> QED BY <2>1, <3>1, <4>1
    <3> QED BY <3>2, <3>3
  <2> HIDE DEF h
  <2>6. Runs(m + 1, h)
    BY <2>4, <2>5
  <2> QED BY <2>6
<1> HIDE DEF Runs
<1>3. P = Nat
  <2>1. P \in SUBSET Nat
    OBVIOUS
  <2> HIDE DEF P
  <2> QED BY <1>1, <1>2, <2>1, Induction
<1>4. PICK f : Runs(n, f)
  <2>1. n \in P
    BY <1>3
  <2> QED BY <2>1
<1> QED BY <1>4 DEF Runs

-----------------------------------------------------------------------------
(* Numbers in their order.                                                 *)

\* The events f[k] of E up to k, for every k up to n.
Lists(f, E, n) ==
    /\ f \in [0 .. n -> Seq(Nat)] /\ f[0] = <<>>
    /\ \A k \in 1 .. n : f[k] = IF k \in E THEN Append(f[k - 1], k) ELSE f[k - 1]

LEMMA ListedIs ==
    ASSUME NEW E, NEW n \in Nat
    PROVE  \E f : Lists(f, E, n) /\ Listed(E, n) = f[n]
<1> DEFINE S == Seq(Nat)
           Turn1(k, q) == IF k \in E THEN Append(q, k) ELSE q
           g == [k \in 1 .. n |-> [q \in S |-> Turn1(k, q)]]
           Eq(h) == h = [k \in 0 .. n |-> IF k = 0 THEN <<>> ELSE Turn1(k, h[k - 1])]
           listed == CHOOSE h : Eq(h)
<1>1. Listed(E, n) = listed[n]
  BY DEF Listed
<1>2. \A k \in 1 .. n : \A q \in S : Turn1(k, q) \in S
  OBVIOUS
<1>3. <<>> \in S
  OBVIOUS
<1> HIDE DEF S, Turn1
<1>4. g \in [1 .. n -> [S -> S]]
  BY <1>2
<1>5. \A k \in 1 .. n : \A q \in S : g[k][q] = Turn1(k, q)
  OBVIOUS
<1> HIDE DEF g
<1>6. PICK f \in [0 .. n -> S] : f[0] = <<>> /\ \A k \in 1 .. n : f[k] = g[k][f[k - 1]]
  BY ONLY <1>3, <1>4, n \in Nat, Recursion
<1>7. \A k \in 1 .. n : k - 1 \in 0 .. n /\ k \in 0 .. n /\ k # 0
  OBVIOUS
<1>8. \A k \in 1 .. n : f[k] = Turn1(k, f[k - 1])
  BY <1>5, <1>6, <1>7
<1>9. Eq(f)
  <2>1. \A k \in 0 .. n : k # 0 => k \in 1 .. n
    OBVIOUS
  <2> QED BY <1>6, <1>8, <2>1
<1>10. Eq(listed)
  <2> HIDE DEF Eq
  <2> QED BY <1>9
<1> HIDE DEF listed
<1>11. \A k \in 0 .. n : listed[k] = IF k = 0 THEN <<>> ELSE Turn1(k, listed[k - 1])
  BY <1>10
<1>12. listed[0] = <<>> /\ \A k \in 1 .. n : listed[k] = Turn1(k, listed[k - 1])
  <2>1. 0 \in 0 .. n
    OBVIOUS
  <2> QED BY <1>7, <1>11, <2>1
<1>13. DOMAIN listed = 0 .. n /\ listed = [k \in 0 .. n |-> listed[k]]
  BY <1>10
<1> DEFINE P == {k \in Nat : k <= n => listed[k] \in S}
<1>14. P = Nat
  <2>1. P \in SUBSET Nat /\ 0 \in P
    BY <1>3, <1>12
  <2>2. ASSUME NEW k \in P PROVE k + 1 \in P
    <3> SUFFICES ASSUME k + 1 <= n PROVE listed[k + 1] \in S
      OBVIOUS
    <3>1. k \in Nat /\ k <= n /\ k + 1 \in 1 .. n /\ (k + 1) - 1 = k
      OBVIOUS
    <3>2. listed[k] \in S
      BY <3>1
    <3> QED BY <1>2, <1>12, <3>1, <3>2
  <2> HIDE DEF P
  <2> QED BY <2>1, <2>2, Induction
<1>15. \A k \in 0 .. n : listed[k] \in S
  <2> SUFFICES ASSUME NEW k \in 0 .. n PROVE listed[k] \in S
    OBVIOUS
  <2>1. k \in P /\ k <= n
    BY <1>14
  <2> QED BY <2>1
<1>16. listed \in [0 .. n -> S]
  BY <1>13, <1>15
<1>17. Lists(listed, E, n)
  BY <1>12, <1>16 DEF Lists, Turn1, S
<1> QED BY <1>1, <1>17

LEMMA ListsAlike ==
    ASSUME NEW E, NEW F, NEW n \in Nat, NEW m \in Nat, n <= m, NEW f, NEW h,
           Lists(f, E, n), Lists(h, F, m), \A k \in 1 .. n : k \in E <=> k \in F
    PROVE  \A k \in 0 .. n : f[k] = h[k]
<1> DEFINE P == {k \in Nat : k <= n => f[k] = h[k]}
<1>1. P \in SUBSET Nat /\ 0 \in P
  BY DEF Lists
<1>2. ASSUME NEW k \in P PROVE k + 1 \in P
  <2> SUFFICES ASSUME k + 1 <= n PROVE f[k + 1] = h[k + 1]
    OBVIOUS
  <2>1. k \in Nat /\ k <= n /\ k + 1 \in 1 .. n /\ k + 1 \in 1 .. m /\ (k + 1) - 1 = k
    OBVIOUS
  <2>2. f[k] = h[k]
    BY <2>1
  <2> QED BY <2>1, <2>2 DEF Lists
<1>3. P = Nat
  <2> HIDE DEF P
  <2> QED BY <1>1, <1>2, Induction
<1> QED
  <2> SUFFICES ASSUME NEW k \in 0 .. n PROVE f[k] = h[k]
    OBVIOUS
  <2>1. k \in P /\ k <= n
    BY <1>3
  <2> QED BY <2>1

LEMMA ListedSame ==
    ASSUME NEW E, NEW F, NEW n \in Nat, \A k \in 1 .. n : k \in E <=> k \in F
    PROVE  Listed(E, n) = Listed(F, n)
<1>1. PICK f : Lists(f, E, n) /\ Listed(E, n) = f[n]
  BY ListedIs
<1>2. PICK h : Lists(h, F, n) /\ Listed(F, n) = h[n]
  BY ListedIs
<1>3. n \in 0 .. n /\ n <= n
  OBVIOUS
<1> QED BY <1>1, <1>2, <1>3, ListsAlike

LEMMA ListedNext ==
    ASSUME NEW E, NEW n \in Nat
    PROVE  /\ Listed(E, n) \in Seq(Nat) /\ Listed(E, 0) = <<>>
           /\ Listed(E, n + 1) =
                 IF n + 1 \in E THEN Append(Listed(E, n), n + 1) ELSE Listed(E, n)
<1>1. PICK f : Lists(f, E, n) /\ Listed(E, n) = f[n]
  BY ListedIs
<1>2. PICK h : Lists(h, E, n + 1) /\ Listed(E, n + 1) = h[n + 1]
  BY ListedIs
<1>3. PICK z : Lists(z, E, 0) /\ Listed(E, 0) = z[0]
  BY ListedIs
<1>4. n \in 0 .. n /\ n <= n + 1 /\ n + 1 \in 1 .. n + 1 /\ (n + 1) - 1 = n /\ n + 1 \in Nat
  OBVIOUS
<1>5. f[n] = h[n]
  BY <1>1, <1>2, <1>4, ListsAlike
<1>6. f[n] \in Seq(Nat)
  BY <1>1, <1>4 DEF Lists
<1>7. z[0] = <<>>
  BY <1>3 DEF Lists
<1>8. h[n + 1] = IF n + 1 \in E THEN Append(h[n], n + 1) ELSE h[n]
  BY <1>2, <1>4 DEF Lists
<1> QED BY <1>1, <1>2, <1>3, <1>5, <1>6, <1>7, <1>8

\* The sequence t begins with s.
Begun(s, t) == Len(s) <= Len(t) /\ \A i \in 1 .. Len(s) : t[i] = s[i]

LEMMA BegunIsPrefix ==
    ASSUME NEW s \in Seq(Nat), NEW t \in Seq(Nat), Begun(s, t)
    PROVE  IsPrefix(s, t)
<1>1. Len(s) \in Nat /\ Len(t) \in Nat /\ Len(s) <= Len(t)
  BY DEF Begun
<1>2. SubSeq(s, 1, Len(s)) = SubSeq(t, 1, Len(s))
  BY <1>1 DEF Begun
<1> QED BY <1>1, <1>2 DEF IsPrefix

LEMMA BegunAfter ==
    ASSUME NEW r \in Seq(Nat), NEW s \in Seq(Nat), NEW t \in Seq(Nat), Begun(s, t)
    PROVE  Begun(r \o s, r \o t) /\ Begun(r, r \o s)
<1>1. Len(r) \in Nat /\ Len(s) \in Nat /\ Len(t) \in Nat /\ Len(s) <= Len(t)
  BY DEF Begun
<1>2. Len(r \o s) = Len(r) + Len(s) /\ Len(r \o t) = Len(r) + Len(t)
  OBVIOUS
<1>3. ASSUME NEW i \in 1 .. Len(r) + Len(s) PROVE (r \o t)[i] = (r \o s)[i]
  <2>1. CASE i <= Len(r)
    BY <1>1, <2>1
  <2>2. CASE i > Len(r)
    <3>1. i - Len(r) \in 1 .. Len(s)
      BY <1>1, <2>2
    <3>2. t[i - Len(r)] = s[i - Len(r)]
      BY <3>1 DEF Begun
    <3> QED BY <1>1, <2>2, <3>1, <3>2
  <2> QED BY <1>1, <2>1, <2>2
<1>4. ASSUME NEW i \in 1 .. Len(r) PROVE (r \o s)[i] = r[i]
  BY <1>1
<1> QED BY <1>1, <1>2, <1>3, <1>4 DEF Begun

\* The list up to m begins with the list up to n, and is that when no number between
\* is in the set.
LEMMA ListedGrows ==
    ASSUME NEW E, NEW n \in Nat, NEW m \in Nat, n <= m
    PROVE  /\ Begun(Listed(E, n), Listed(E, m))
           /\ (\A k \in (n + 1) .. m : k \notin E) => Listed(E, m) = Listed(E, n)
<1> DEFINE Fine(q) == /\ Begun(Listed(E, n), Listed(E, q))
                      /\ (\A k \in (n + 1) .. q : k \notin E) => Listed(E, q) = Listed(E, n)
           P == {d \in Nat : Fine(n + d)}
<1>1. 0 \in P
  <2>1. n + 0 = n /\ Listed(E, n) \in Seq(Nat)
    BY ListedNext
  <2>2. Len(Listed(E, n)) <= Len(Listed(E, n))
    BY <2>1
  <2>3. Fine(n)
    BY <2>2 DEF Begun
  <2> HIDE DEF Fine
  <2> QED BY <2>1, <2>3
<1>2. ASSUME NEW d \in P PROVE d + 1 \in P
  <2>1. d \in Nat /\ Fine(n + d)
    OBVIOUS
  <2>2. PICK q \in Nat : q = n + d
    BY <2>1
  <2>3. n + (d + 1) = q + 1 /\ Fine(q) /\ n <= q /\ q + 1 \in (n + 1) .. (q + 1)
    BY <2>1, <2>2
  <2>4. /\ Listed(E, q) \in Seq(Nat) /\ Listed(E, n) \in Seq(Nat)
        /\ Listed(E, q + 1) = IF q + 1 \in E THEN Append(Listed(E, q), q + 1) ELSE Listed(E, q)
    BY ListedNext
  <2>5. Begun(Listed(E, n), Listed(E, q + 1))
    <3>1. CASE q + 1 \notin E
      BY <2>3, <2>4, <3>1
    <3>2. CASE q + 1 \in E
      <4>1. PICK s \in Seq(Nat) : s = Listed(E, q)
        BY <2>4
      <4>2. PICK r \in Seq(Nat) : r = Listed(E, n)
        BY <2>4
      <4>3. Begun(r, s) /\ Listed(E, q + 1) = Append(s, q + 1)
        BY <2>3, <2>4, <3>2, <4>1, <4>2
      <4>4. Len(r) \in Nat /\ Len(s) \in Nat /\ Len(Append(s, q + 1)) = Len(s) + 1
            /\ \A i \in 1 .. Len(s) : Append(s, q + 1)[i] = s[i]
        OBVIOUS
      <4>5. Begun(r, Append(s, q + 1))
        BY ONLY <4>3, <4>4 DEF Begun
      <4> QED BY <4>2, <4>3, <4>5
    <3> QED BY <3>1, <3>2
  <2>6. ASSUME \A k \in (n + 1) .. (q + 1) : k \notin E PROVE Listed(E, q + 1) = Listed(E, n)
    <3>1. \A k \in (n + 1) .. q : k \in (n + 1) .. (q + 1)
      OBVIOUS
    <3> QED BY <2>3, <2>4, <2>6, <3>1
  <2>7. Fine(q + 1)
    BY <2>5, <2>6
  <2> HIDE DEF Fine
  <2> QED BY <2>1, <2>3, <2>7
<1>3. P = Nat
  <2>1. P \in SUBSET Nat
    OBVIOUS
  <2> HIDE DEF P
  <2> QED BY <1>1, <1>2, <2>1, Induction
<1>4. m - n \in P /\ n + (m - n) = m
  <2>1. m - n \in Nat /\ n + (m - n) = m
    OBVIOUS
  <2> HIDE DEF P
  <2> QED BY <1>3, <2>1
<1>5. Fine(m)
  <2> HIDE DEF Fine
  <2> QED BY <1>4
<1> QED BY <1>5

\* The greatest of them is the last.
LEMMA ListedLast ==
    ASSUME NEW E, NEW n \in Nat, NEW e \in 1 .. n, e \in E,
           \A k \in (e + 1) .. n : k \notin E
    PROVE  \E s \in Seq(Nat) : Listed(E, n) = Append(s, e)
<1>1. e \in Nat /\ e - 1 \in Nat /\ (e - 1) + 1 = e /\ e <= n
  OBVIOUS
<1>2. Listed(E, n) = Listed(E, e)
  BY <1>1, ListedGrows
<1>3. PICK d \in Nat : d = e - 1
  BY <1>1
<1>4. d + 1 = e
  BY <1>1, <1>3
<1>5. Listed(E, d) \in Seq(Nat) /\ Listed(E, d + 1) = Append(Listed(E, d), d + 1)
  BY <1>4, ListedNext
<1> QED BY <1>2, <1>4, <1>5

-----------------------------------------------------------------------------
(* What a session shows.                                                   *)

\* Parents come before their continuations.
Rooted(sessions) ==
    \A i \in DOMAIN sessions : sessions[i].ctx # None => sessions[i].ctx \in 1 .. (i - 1)

LEMMA OwnType ==
    ASSUME NEW L \in Seq(EventAt), NEW s
    PROVE  Own(L, s) \in Seq(Nat)
BY ListedNext DEF Own

LEMMA ContextIs ==
    ASSUME NEW L, L \in Seq(EventAt), NEW sessions, sessions \in Seq(SessionAt),
           Rooted(sessions), NEW id, id \in DOMAIN sessions
    PROVE  /\ Context(L, sessions, id) \in Seq(Nat)
           /\ Context(L, sessions, id) =
                 IF sessions[id].ctx = None THEN Own(L, sessions[id])
                 ELSE Context(L, sessions, sessions[id].ctx) \o Own(L, sessions[id])
<1>0. PICK N \in Nat : N = Len(sessions)
  OBVIOUS
<1> DEFINE Body(i, x) == IF sessions[i].ctx = None THEN Own(L, sessions[i])
                         ELSE x[sessions[i].ctx] \o Own(L, sessions[i])
           X == [1 .. N -> Seq(Nat)]
           a == [i \in 1 .. N |-> <<>>]
           g == [i \in 1 .. N |-> [x \in X |-> [x EXCEPT ![i] = Body(i, x)]]]
           Eq(h) == h = [i \in DOMAIN sessions |-> Body(i, h)]
           context == CHOOSE h : Eq(h)
<1>1. \A i : Context(L, sessions, i) = context[i]
  BY DEF Context
<1>2. N \in Nat /\ DOMAIN sessions = 1 .. N
  BY <1>0
<1>3. \A i \in 1 .. N : sessions[i].ctx # None =>
         sessions[i].ctx \in 1 .. (i - 1) /\ sessions[i].ctx \in 1 .. N
  BY <1>2 DEF Rooted
<1>4. \A i : Own(L, sessions[i]) \in Seq(Nat)
  BY OwnType
<1>5. ASSUME NEW i \in 1 .. N, NEW x \in X PROVE Body(i, x) \in Seq(Nat)
  <2>1. CASE sessions[i].ctx = None
    BY <1>4, <2>1
  <2>2. CASE sessions[i].ctx # None
    <3>1. x[sessions[i].ctx] \in Seq(Nat)
      BY <1>3, <2>2
    <3>2. PICK p \in Seq(Nat) : p = x[sessions[i].ctx]
      BY <3>1
    <3>3. PICK q \in Seq(Nat) : q = Own(L, sessions[i])
      BY <1>4
    <3>4. p \o q \in Seq(Nat)
      OBVIOUS
    <3> QED BY <2>2, <3>2, <3>3, <3>4
  <2> QED BY <2>1, <2>2
<1>6. ASSUME NEW i \in 1 .. N, NEW x, NEW y,
             sessions[i].ctx # None => x[sessions[i].ctx] = y[sessions[i].ctx]
      PROVE  Body(i, x) = Body(i, y)
  BY <1>6
<1> HIDE DEF Body
<1>7. a \in X
  <2>1. <<>> \in Seq(Nat)
    OBVIOUS
  <2> QED BY <2>1
<1>8. ASSUME NEW i \in 1 .. N, NEW x \in X
      PROVE  /\ g[i][x] \in X /\ g[i][x][i] = Body(i, x)
             /\ \A j \in 1 .. N : j # i => g[i][x][j] = x[j]
  BY <1>5
<1>9. g \in [1 .. N -> [X -> X]]
  BY <1>8
<1> HIDE DEF g, X, a, Eq, context
<1>10. PICK f \in [0 .. N -> X] : f[0] = a /\ \A i \in 1 .. N : f[i] = g[i][f[i - 1]]
  BY ONLY N \in Nat, <1>7, <1>9, Recursion
<1>11. ASSUME NEW i \in 1 .. N
       PROVE  /\ f[i][i] = Body(i, f[i - 1])
              /\ \A j \in 1 .. N : j # i => f[i][j] = f[i - 1][j]
  <2>1. i - 1 \in 0 .. N
    BY <1>2
  <2>2. f[i - 1] \in X /\ f[i] = g[i][f[i - 1]]
    BY <1>10, <2>1
  <2> QED BY <1>8, <2>2
<1> DEFINE P == {k \in Nat : k <= N => \A j \in 1 .. N : j <= k => f[k][j] = f[j][j]}
<1>12. P = Nat
  <2>1. P \in SUBSET Nat /\ 0 \in P
    BY <1>2
  <2>2. ASSUME NEW k \in P PROVE k + 1 \in P
    <3> SUFFICES ASSUME k + 1 <= N, NEW j \in 1 .. N, j <= k + 1 PROVE f[k + 1][j] = f[j][j]
      OBVIOUS
    <3>1. k \in Nat /\ k <= N /\ k + 1 \in 1 .. N /\ (k + 1) - 1 = k
      BY <1>2
    <3>2. CASE j = k + 1
      BY <3>2
    <3>3. CASE j # k + 1
      <4>1. j <= k
        BY <1>2, <3>1, <3>3
      <4> QED BY <1>11, <3>1, <3>3, <4>1
    <3> QED BY <3>2, <3>3
  <2> HIDE DEF P
  <2> QED BY <2>1, <2>2, Induction
<1>13. ASSUME NEW i \in 1 .. N PROVE f[N][i] = Body(i, f[N])
  <2>0. i - 1 \in Nat /\ i \in Nat /\ i <= N /\ i - 1 <= N /\ N <= N
    BY <1>2
  <2>1. /\ \A j \in 1 .. N : j <= i - 1 => f[i - 1][j] = f[j][j]
        /\ \A j \in 1 .. N : j <= N => f[N][j] = f[j][j]
    <3>1. i - 1 \in P /\ N \in P
      <4> HIDE DEF P
      <4> QED BY <1>12, <2>0
    <3> QED BY <2>0, <3>1
  <2>2. f[N][i] = Body(i, f[i - 1])
    BY <1>11, <2>0, <2>1
  <2>3. ASSUME sessions[i].ctx # None PROVE f[i - 1][sessions[i].ctx] = f[N][sessions[i].ctx]
    <3>1. PICK c : c = sessions[i].ctx
      OBVIOUS
    <3>2. c \in 1 .. N /\ c \in 1 .. (i - 1) /\ c <= i - 1 /\ c <= N
      BY <1>2, <1>3, <2>3, <3>1
    <3>3. f[i - 1][c] = f[c][c] /\ f[N][c] = f[c][c]
      BY <2>1, <3>2
    <3> QED BY <3>1, <3>3
  <2> QED BY <1>6, <2>2, <2>3
<1>14. f[N] \in [1 .. N -> Seq(Nat)]
  <2>1. N \in 0 .. N
    BY <1>2
  <2> QED BY <1>10, <2>1 DEF X
<1>15. Eq(f[N])
  BY <1>2, <1>13, <1>14 DEF Eq
<1>16. Eq(context)
  BY <1>15 DEF context
<1>17. DOMAIN context = 1 .. N /\ \A i \in 1 .. N : context[i] = Body(i, context)
  BY <1>2, <1>16 DEF Eq
<1> DEFINE Q == {k \in Nat : \A i \in 1 .. N : i <= k => context[i] = f[N][i]}
<1>18. Q = Nat
  <2>1. Q \in SUBSET Nat /\ 0 \in Q
    BY <1>2
  <2>2. ASSUME NEW k \in Q PROVE k + 1 \in Q
    <3> SUFFICES ASSUME NEW i \in 1 .. N, i <= k + 1 PROVE context[i] = f[N][i]
      OBVIOUS
    <3>1. k \in Nat /\ i \in Nat
      OBVIOUS
    <3>2. ASSUME sessions[i].ctx # None PROVE context[sessions[i].ctx] = f[N][sessions[i].ctx]
      <4>1. PICK c : c = sessions[i].ctx
        OBVIOUS
      <4>2. c \in 1 .. N /\ c \in 1 .. (i - 1) /\ c <= k
        BY <1>2, <1>3, <3>1, <3>2, <4>1
      <4> QED BY <4>1, <4>2
    <3> QED BY <1>6, <1>13, <1>17, <3>2
  <2> HIDE DEF Q
  <2> QED BY <2>1, <2>2, Induction
<1>19. context[id] \in Seq(Nat)
  <2>1. N \in Q /\ id \in 1 .. N /\ id <= N
    BY <1>2, <1>18
  <2> QED BY <1>14, <2>1
<1>20. context[id] = Body(id, context)
  BY <1>2, <1>17
<1> QED BY <1>1, <1>19, <1>20 DEF Body

LEMMA OwnGrows ==
    ASSUME NEW L, L \in Seq(EventAt), NEW M, M \in Seq(EventAt), Len(L) <= Len(M),
           \A e \in 1 .. Len(L) : M[e] = L[e],
           NEW s, s \in SessionAt, NEW t, t \in SessionAt, s.end <= Len(L),
           t.thread = s.thread, t.start = s.start,
           Open(s) => Open(t) \/ Len(L) < t.end, ~Open(s) => t.end = s.end
    PROVE  Begun(Own(L, s), Own(M, t)) /\ (~Open(s) => Own(M, t) = Own(L, s))
<1>1. PICK n \in Nat : n = Len(L)
  OBVIOUS
<1>2. PICK m \in Nat : m = Len(M)
  OBVIOUS
<1>3. n <= m
  BY <1>1, <1>2
<1> DEFINE E == {e \in 1 .. Len(L) : Shows(L, s, e)}
           F == {e \in 1 .. Len(M) : Shows(M, t, e)}
<1>4. Own(L, s) = Listed(E, n) /\ Own(M, t) = Listed(F, m)
  BY <1>1, <1>2 DEF Own
<1>5. ASSUME NEW k \in 1 .. n PROVE InRange(s, k) <=> InRange(t, k)
  <2>1. s.end \in Nat /\ t.end \in Nat /\ s.start \in Nat /\ k \in Nat
    BY DEF SessionAt
  <2>2. CASE Open(s)
    BY <1>1, <2>1, <2>2 DEF InRange, Open, HEAD
  <2>3. CASE ~Open(s)
    BY <2>1, <2>3 DEF InRange
  <2> QED BY <2>2, <2>3
<1>6. ASSUME NEW k \in 1 .. n PROVE k \in E <=> k \in F
  <2>1. k \in 1 .. Len(L) /\ k \in 1 .. Len(M) /\ M[k] = L[k]
    BY <1>1, <1>2, <1>3
  <2>2. Shows(L, s, k) <=> Shows(M, t, k)
    BY <1>5, <2>1 DEF Shows
  <2> QED BY <2>1, <2>2
<1>7. ASSUME ~Open(s), NEW k \in (n + 1) .. m PROVE k \notin F
  <2>1. t.end = s.end /\ s.end # HEAD /\ s.end \in Nat
    BY <1>7 DEF Open, SessionAt
  <2>2. ~(k < t.end)
    BY <1>1, <2>1
  <2>3. ~Shows(M, t, k)
    BY <2>1, <2>2 DEF Shows, InRange
  <2> QED BY <2>3
<1> HIDE DEF E, F
<1>8. Listed(E, n) = Listed(F, n)
  BY <1>6, ListedSame
<1>9. /\ Begun(Listed(F, n), Listed(F, m))
      /\ (\A k \in (n + 1) .. m : k \notin F) => Listed(F, m) = Listed(F, n)
  BY <1>3, ListedGrows
<1> QED BY <1>4, <1>7, <1>8, <1>9

LEMMA SoundRooted ==
    ASSUME NEW n, NEW k, NEW sessions, Sound(n, k, sessions)
    PROVE  Rooted(sessions)
BY DEF Sound, Rooted

\* A session keeps what it shows, and all of it when it has ended.
LEMMA ContextGrows ==
    ASSUME NEW L, L \in Seq(EventAt), NEW M, M \in Seq(EventAt),
           NEW S, S \in Seq(SessionAt), NEW T, T \in Seq(SessionAt),
           NEW j, NEW k, Sound(Len(L), j, S), Sound(Len(M), k, T), Grows(L, S, M, T),
           NEW id, id \in DOMAIN S
    PROVE  /\ Begun(Context(L, S, id), Context(M, T, id))
           /\ ~Open(S[id]) => Context(M, T, id) = Context(L, S, id)
<1>1. PICK n \in Nat : n = Len(S)
  OBVIOUS
<1>2. DOMAIN S = 1 .. n /\ \A i \in 1 .. n : i \in DOMAIN S /\ i \in DOMAIN T
  BY <1>1 DEF Grows
<1>3. Rooted(S) /\ Rooted(T)
  BY SoundRooted
<1>4. ASSUME NEW i \in 1 .. n
      PROVE  /\ T[i].ctx = S[i].ctx
             /\ S[i].ctx # None => S[i].ctx \in 1 .. (i - 1) /\ ~Open(S[S[i].ctx])
  BY <1>1, <1>2 DEF Grows, Sound
<1>5. ASSUME NEW i \in 1 .. n
      PROVE  /\ Begun(Own(L, S[i]), Own(M, T[i]))
             /\ ~Open(S[i]) => Own(M, T[i]) = Own(L, S[i])
  <2>1. PICK s \in SessionAt : s = S[i]
    BY <1>2
  <2>2. PICK t \in SessionAt : t = T[i]
    BY <1>2
  <2>3. /\ t.thread = s.thread /\ t.start = s.start
        /\ Open(s) => Open(t) \/ Len(L) < t.end
        /\ ~Open(s) => t.end = s.end
    BY <1>1, <2>1, <2>2 DEF Grows
  <2>4. s.end <= Len(L)
    BY <1>2, <2>1 DEF Sound
  <2>5. Len(L) <= Len(M) /\ \A e \in 1 .. Len(L) : M[e] = L[e]
    BY DEF Grows
  <2>6. L \in Seq(EventAt) /\ M \in Seq(EventAt) /\ s \in SessionAt /\ t \in SessionAt
    OBVIOUS
  <2>7. Begun(Own(L, s), Own(M, t)) /\ (~Open(s) => Own(M, t) = Own(L, s))
    BY ONLY <2>3, <2>4, <2>5, <2>6, OwnGrows
  <2> QED BY <2>1, <2>2, <2>7
<1>6. ASSUME NEW i \in 1 .. n
      PROVE  /\ Context(L, S, i) \in Seq(Nat) /\ Context(M, T, i) \in Seq(Nat)
             /\ Context(L, S, i) = IF S[i].ctx = None THEN Own(L, S[i])
                                   ELSE Context(L, S, S[i].ctx) \o Own(L, S[i])
             /\ Context(M, T, i) = IF S[i].ctx = None THEN Own(M, T[i])
                                   ELSE Context(M, T, S[i].ctx) \o Own(M, T[i])
  <2>1. i \in DOMAIN S /\ i \in DOMAIN T /\ T[i].ctx = S[i].ctx
    BY <1>2, <1>4
  <2> QED BY <1>3, <2>1, ContextIs
<1> DEFINE Fine(i) == /\ Begun(Context(L, S, i), Context(M, T, i))
                      /\ ~Open(S[i]) => Context(M, T, i) = Context(L, S, i)
           P == {q \in Nat : \A i \in 1 .. n : i <= q => Fine(i)}
<1>7. ASSUME NEW i \in 1 .. n, S[i].ctx # None => Fine(S[i].ctx) PROVE Fine(i)
  <2>1. PICK a \in Seq(Nat) : a = Own(L, S[i])
    BY OwnType
  <2>2. PICK b \in Seq(Nat) : b = Own(M, T[i])
    BY OwnType
  <2>3. Begun(a, b) /\ (~Open(S[i]) => b = a)
    BY <1>5, <2>1, <2>2
  <2>4. CASE S[i].ctx = None
    BY <1>6, <2>1, <2>2, <2>3, <2>4
  <2>5. CASE S[i].ctx # None
    <3>1. PICK c : c = S[i].ctx
      OBVIOUS
    <3>2. c \in 1 .. (i - 1) /\ c \in 1 .. n /\ ~Open(S[c])
      BY <1>4, <2>5, <3>1
    <3>3. Context(M, T, c) = Context(L, S, c)
      BY <1>7, <2>5, <3>1, <3>2
    <3>4. PICK r \in Seq(Nat) : r = Context(L, S, c)
      BY <1>6, <3>2
    <3>5. Context(L, S, i) = r \o a /\ Context(M, T, i) = r \o b
      BY <1>6, <2>1, <2>2, <2>5, <3>1, <3>3, <3>4
    <3>6. Begun(r \o a, r \o b)
      BY <2>3, BegunAfter
    <3> QED BY <2>3, <3>5, <3>6
  <2> QED BY <2>4, <2>5
<1> HIDE DEF Fine
<1>8. P = Nat
  <2>1. P \in SUBSET Nat /\ 0 \in P
    OBVIOUS
  <2>2. ASSUME NEW q \in P PROVE q + 1 \in P
    <3> SUFFICES ASSUME NEW i \in 1 .. n, i <= q + 1 PROVE Fine(i)
      OBVIOUS
    <3>1. q \in Nat /\ i \in Nat /\ n \in Nat
      OBVIOUS
    <3>2. ASSUME S[i].ctx # None PROVE Fine(S[i].ctx)
      <4>1. PICK c : c = S[i].ctx
        OBVIOUS
      <4>2. c \in 1 .. (i - 1)
        BY <1>4, <3>2, <4>1
      <4>3. c \in 1 .. n /\ c <= q
        BY <3>1, <4>2
      <4> QED BY <4>1, <4>3
    <3> QED BY <1>7, <3>2
  <2> HIDE DEF P
  <2> QED BY <2>1, <2>2, Induction
<1>9. id \in 1 .. n
  BY <1>2
<1>10. Fine(id)
  <2>1. id \in P /\ id <= id
    BY <1>8, <1>9
  <2> QED BY <1>9, <2>1
<1> QED BY <1>10 DEF Fine

-----------------------------------------------------------------------------
(* Facts about records.                                                    *)

LEMMA StateFacts ==
    ASSUME NEW S, Kept(S)
    PROVE  /\ S \in SStates /\ S.log \in Seq(EventAt) /\ Len(S.log) \in Nat
           /\ S.sessions \in Seq(SessionAt) /\ Len(S.sessions) \in Nat
           /\ DOMAIN S.sessions = 1 .. Len(S.sessions)
           /\ \A i \in 1 .. Len(S.sessions) : S.sessions[i] \in SessionAt
           /\ S.threads \in Nat /\ S.thread \in Nat /\ S.session \in Nat
           /\ S.thread <= S.threads /\ S.session <= Len(S.sessions)
BY DEF Kept, SStates

LEMMA SessionsReplaced ==
    ASSUME NEW S \in SStates, NEW Q \in Seq(SessionAt)
    PROVE  LET T == [S EXCEPT !.sessions = Q]
           IN  /\ T \in SStates /\ T.log = S.log /\ T.sessions = Q /\ T.session = S.session
               /\ T.threads = S.threads /\ T.thread = S.thread
BY DEF SStates

\* The same log and sessions.
LEMMA FollowsSame ==
    ASSUME NEW S, Kept(S), NEW T, T.log = S.log, T.sessions = S.sessions
    PROVE  Follows(S, T)
<1>1. Len(S.log) \in Nat /\ Len(S.sessions) \in Nat
  BY StateFacts
<1>2. Len(S.log) <= Len(S.log) /\ Len(S.sessions) <= Len(S.sessions)
  BY <1>1
<1> QED BY <1>2 DEF Follows, Grows

LEMMA FollowsItself ==
    ASSUME NEW S, Kept(S)
    PROVE  Follows(S, S)
BY FollowsSame

LEMMA FollowsFacts ==
    ASSUME NEW S, NEW T, Kept(S), Kept(T), Follows(S, T)
    PROVE  /\ Len(S.log) <= Len(T.log) /\ Len(S.sessions) <= Len(T.sessions)
           /\ \A e \in 1 .. Len(S.log) : e \in 1 .. Len(T.log) /\ T.log[e] = S.log[e]
           /\ \A i \in DOMAIN S.sessions :
                 /\ i \in DOMAIN T.sessions
                 /\ T.sessions[i].thread = S.sessions[i].thread
                 /\ T.sessions[i].start = S.sessions[i].start
                 /\ T.sessions[i].ctx = S.sessions[i].ctx
                 /\ Open(S.sessions[i]) =>
                       Open(T.sessions[i]) \/ Len(S.log) < T.sessions[i].end
                 /\ ~Open(S.sessions[i]) => T.sessions[i].end = S.sessions[i].end
<1>1. /\ Len(S.log) \in Nat /\ Len(T.log) \in Nat
      /\ Len(S.sessions) \in Nat /\ Len(T.sessions) \in Nat
      /\ DOMAIN S.sessions = 1 .. Len(S.sessions) /\ DOMAIN T.sessions = 1 .. Len(T.sessions)
  BY StateFacts
<1>2. Len(S.log) <= Len(T.log) /\ Len(S.sessions) <= Len(T.sessions)
  BY DEF Follows, Grows
<1>3. (\A e \in 1 .. Len(S.log) : e \in 1 .. Len(T.log))
      /\ \A i \in 1 .. Len(S.sessions) : i \in 1 .. Len(T.sessions)
  BY <1>1, <1>2
<1> QED BY <1>1, <1>2, <1>3 DEF Follows, Grows

LEMMA FollowsOn ==
    ASSUME NEW S, NEW T, NEW U, Kept(S), Kept(T), Kept(U), Follows(S, T), Follows(T, U)
    PROVE  Follows(S, U)
<1>1. /\ Len(S.log) \in Nat /\ Len(T.log) \in Nat /\ Len(U.log) \in Nat
      /\ Len(S.sessions) \in Nat /\ Len(T.sessions) \in Nat /\ Len(U.sessions) \in Nat
      /\ DOMAIN S.sessions = 1 .. Len(S.sessions)
  BY StateFacts
<1>2. Len(S.log) <= Len(U.log) /\ Len(S.sessions) <= Len(U.sessions)
  BY <1>1, FollowsFacts
<1>3. \A e \in 1 .. Len(S.log) : U.log[e] = S.log[e]
  BY FollowsFacts
<1>4. ASSUME NEW i \in 1 .. Len(S.sessions)
      PROVE  /\ U.sessions[i].thread = S.sessions[i].thread
             /\ U.sessions[i].start = S.sessions[i].start
             /\ U.sessions[i].ctx = S.sessions[i].ctx
             /\ Open(S.sessions[i]) => Open(U.sessions[i]) \/ Len(S.log) < U.sessions[i].end
             /\ ~Open(S.sessions[i]) => U.sessions[i].end = S.sessions[i].end
  <2>1. i \in DOMAIN S.sessions /\ i \in DOMAIN T.sessions /\ i \in DOMAIN U.sessions
    BY <1>1, FollowsFacts
  <2>2. /\ U.sessions[i].thread = S.sessions[i].thread
        /\ U.sessions[i].start = S.sessions[i].start
        /\ U.sessions[i].ctx = S.sessions[i].ctx
    BY <2>1, FollowsFacts
  <2>3. ASSUME ~Open(S.sessions[i]) PROVE U.sessions[i].end = S.sessions[i].end
    <3>1. T.sessions[i].end = S.sessions[i].end
      BY <2>1, <2>3, FollowsFacts
    <3>2. ~Open(T.sessions[i])
      BY <2>3, <3>1 DEF Open
    <3> QED BY <2>1, <3>1, <3>2, FollowsFacts
  <2>4. ASSUME Open(S.sessions[i])
        PROVE  Open(U.sessions[i]) \/ Len(S.log) < U.sessions[i].end
    <3>1. CASE Open(T.sessions[i])
      <4>1. Open(U.sessions[i]) \/ Len(T.log) < U.sessions[i].end
        BY <2>1, <3>1, FollowsFacts
      <4>2. Len(S.log) <= Len(T.log) /\ U.sessions[i].end \in Nat
        BY <2>1, FollowsFacts, StateFacts DEF SessionAt
      <4>3. Len(T.log) < U.sessions[i].end => Len(S.log) < U.sessions[i].end
        <5>1. PICK l \in Nat, m \in Nat, e \in Nat :
                 l = Len(S.log) /\ m = Len(T.log) /\ e = U.sessions[i].end /\ l <= m
          BY <1>1, <4>2
        <5> QED BY <5>1
      <4> QED BY <4>1, <4>3
    <3>2. CASE ~Open(T.sessions[i])
      BY <2>1, <2>4, <3>2, FollowsFacts
    <3> QED BY <3>1, <3>2
  <2> QED BY <2>2, <2>3, <2>4
<1> QED BY <1>2, <1>3, <1>4 DEF Follows, Grows

\* A longer log and more threads leave an index sound.
LEMMA SoundLater ==
    ASSUME NEW n \in Nat, NEW m \in Nat, n <= m, NEW k \in Nat, NEW j \in Nat, k <= j,
           NEW sessions, Sound(n, k, sessions)
    PROVE  Sound(m, j, sessions)
BY DEF Sound

-----------------------------------------------------------------------------
(* The methods, from the bottom.                                           *)

LEMMA LoggedKept ==
    ASSUME NEW S, Kept(S), NEW type \in Types, NEW thread \in Nat
    PROVE  LET T == Logged(S, type, thread)
           IN  /\ Kept(T) /\ Follows(S, T) /\ (Placed(S) => Placed(T))
               /\ Len(T.log) = Len(S.log) + 1
               /\ T.log[Len(T.log)].type = type /\ T.log[Len(T.log)].thread = thread
               /\ T.threads = S.threads /\ T.sessions = S.sessions
               /\ T.thread = S.thread /\ T.session = S.session
<1> DEFINE e == [type |-> type, thread |-> thread]
           L == Append(S.log, e)
           T == [S EXCEPT !.log = L]
<1>1. e \in EventAt /\ e.type = type /\ e.thread = thread
  BY StateFacts DEF EventAt
<1>2. Logged(S, type, thread) = T
  BY DEF Logged
<1> HIDE DEF e
<1>3. L \in Seq(EventAt) /\ Len(L) = Len(S.log) + 1 /\ L[Len(L)] = e
  BY <1>1, StateFacts, AppendProperties
<1> HIDE DEF L
<1>4. /\ T \in SStates /\ T.log = L /\ T.threads = S.threads /\ T.sessions = S.sessions
      /\ T.thread = S.thread /\ T.session = S.session
  BY <1>3, StateFacts DEF SStates
<1> HIDE DEF T
<1>5. Len(S.log) <= Len(L)
  BY <1>3, StateFacts
<1>6. Sound(Len(L), S.threads, S.sessions)
  BY <1>3, <1>5, StateFacts, SoundLater DEF Kept
<1>7. Kept(T)
  BY <1>4, <1>6 DEF Kept
<1>8. Follows(S, T)
  <2>1. \A i \in 1 .. Len(S.log) : L[i] = S.log[i]
    BY <1>1, StateFacts, AppendProperties DEF L
  <2>2. Len(S.sessions) <= Len(S.sessions)
    BY StateFacts
  <2> QED BY <1>4, <1>5, <2>1, <2>2 DEF Follows, Grows
<1>9. Placed(S) => Placed(T)
  BY <1>4 DEF Placed
<1> QED BY <1>1, <1>2, <1>3, <1>4, <1>7, <1>8, <1>9

\* One field at a time.
LEMMA SetThreads ==
    ASSUME NEW S \in SStates, NEW x \in Nat
    PROVE  LET T == [S EXCEPT !.threads = x]
           IN  /\ T \in SStates /\ T.threads = x /\ T.log = S.log /\ T.sessions = S.sessions
               /\ T.thread = S.thread /\ T.session = S.session
BY DEF SStates

LEMMA SetThread ==
    ASSUME NEW S \in SStates, NEW x \in Nat
    PROVE  LET T == [S EXCEPT !.thread = x]
           IN  /\ T \in SStates /\ T.thread = x /\ T.log = S.log /\ T.sessions = S.sessions
               /\ T.threads = S.threads /\ T.session = S.session
BY DEF SStates

LEMMA SetSession ==
    ASSUME NEW S \in SStates, NEW x \in Nat
    PROVE  LET T == [S EXCEPT !.session = x]
           IN  /\ T \in SStates /\ T.session = x /\ T.log = S.log /\ T.sessions = S.sessions
               /\ T.threads = S.threads /\ T.thread = S.thread
BY DEF SStates

LEMMA ThreadKept ==
    ASSUME NEW S, Kept(S)
    PROVE  LET T == CreateThreadRecord(S)
           IN  /\ Kept(T) /\ Follows(S, T)
               /\ T.log = S.log /\ T.sessions = S.sessions /\ T.session = S.session
               /\ T.threads = S.threads + 1 /\ T.thread = S.threads + 1
<1> DEFINE A == [S EXCEPT !.threads = S.threads + 1]
           T == [A EXCEPT !.thread = S.threads + 1]
<1>1. CreateThreadRecord(S) = T
  BY StateFacts DEF CreateThreadRecord, SStates
<1>a. S.threads + 1 \in Nat
  BY StateFacts
<1>b. /\ A \in SStates /\ A.log = S.log /\ A.sessions = S.sessions /\ A.session = S.session
      /\ A.threads = S.threads + 1
  BY <1>a, StateFacts, SetThreads
<1> HIDE DEF A
<1>2. /\ T \in SStates /\ T.log = S.log /\ T.sessions = S.sessions /\ T.session = S.session
      /\ T.threads = S.threads + 1 /\ T.thread = S.threads + 1
  BY <1>a, <1>b, SetThread
<1> HIDE DEF T
<1>3. Sound(Len(S.log), S.threads + 1, S.sessions)
  BY StateFacts, SoundLater DEF Kept
<1>4. Kept(T)
  BY <1>2, <1>3, StateFacts DEF Kept
<1>5. Follows(S, T)
  BY <1>2, FollowsSame
<1> QED BY <1>1, <1>2, <1>4, <1>5

LEMMA ActivateKept ==
    ASSUME NEW S, Kept(S), NEW id \in DOMAIN S.sessions
    PROVE  LET T == Activate(S, id)
           IN  /\ Reached(S, T) /\ T.session = id
               /\ T.log = S.log /\ T.sessions = S.sessions /\ T.threads = S.threads
<1> DEFINE A == [S EXCEPT !.session = id]
           T == [A EXCEPT !.thread = S.sessions[id].thread]
<1>1. Activate(S, id) = T
  BY StateFacts DEF Activate, SStates
<1>2. id \in 1 .. Len(S.sessions) /\ S.sessions[id].thread \in 1 .. S.threads
  BY StateFacts DEF Kept, Sound
<1>3. S.sessions[id].thread \in Nat /\ id \in Nat
  BY <1>2, StateFacts
<1>a. /\ A \in SStates /\ A.log = S.log /\ A.sessions = S.sessions /\ A.session = id
      /\ A.threads = S.threads
  BY <1>3, StateFacts, SetSession
<1> HIDE DEF A
<1>4. /\ T \in SStates /\ T.log = S.log /\ T.sessions = S.sessions /\ T.session = id
      /\ T.threads = S.threads /\ T.thread = S.sessions[id].thread
  BY <1>3, <1>a, SetThread
<1> HIDE DEF T
<1>5. Kept(T)
  BY <1>2, <1>4, StateFacts DEF Kept
<1>6. Follows(S, T)
  BY <1>4, FollowsSame
<1>7. Placed(T) /\ T.session # None
  BY <1>2, <1>4, StateFacts DEF Placed, None
<1> QED BY <1>1, <1>4, <1>5, <1>6, <1>7 DEF Reached

\* A session may be closed when its start is not the last event.
LEMMA CloseKept ==
    ASSUME NEW S, Kept(S), NEW id \in 0 .. Len(S.sessions),
           id # None => S.sessions[id].start < Len(S.log)
    PROVE  LET T == Close(S, id)
           IN  /\ Kept(T) /\ (Placed(S) => Placed(T))
               /\ T.log = S.log /\ T.threads = S.threads
               /\ T.thread = S.thread /\ T.session = S.session
               /\ Len(T.sessions) = Len(S.sessions)
               /\ \A i \in DOMAIN S.sessions :
                     /\ T.sessions[i].thread = S.sessions[i].thread
                     /\ T.sessions[i].start = S.sessions[i].start
                     /\ T.sessions[i].ctx = S.sessions[i].ctx
                     /\ T.sessions[i].end = IF i = id /\ Open(S.sessions[i]) THEN Len(S.log)
                                            ELSE S.sessions[i].end
<1>1. CASE ~IsOpen(S, id)
  <2>1. ASSUME NEW i \in DOMAIN S.sessions PROVE ~(i = id /\ Open(S.sessions[i]))
    BY <1>1, StateFacts DEF IsOpen, None
  <2> QED BY <1>1, <2>1 DEF Close
<1>2. CASE IsOpen(S, id)
  <2> DEFINE n == Len(S.log)
             s == [S.sessions[id] EXCEPT !.end = n]
             Q == [S.sessions EXCEPT ![id] = s]
             T == [S EXCEPT !.sessions = Q]
  <2>1. id \in 1 .. Len(S.sessions) /\ n \in Nat /\ S.sessions[id] \in SessionAt
    BY <1>2, StateFacts DEF IsOpen, None
  <2>2. Close(S, id) = T
    BY <1>2, <2>1, StateFacts DEF Close, Head1, SStates
  <2>3. /\ s \in SessionAt /\ s.thread = S.sessions[id].thread /\ s.start = S.sessions[id].start
        /\ s.ctx = S.sessions[id].ctx /\ s.end = n
    BY <2>1 DEF SessionAt
  <2>4. S.sessions[id].start < n
    BY <2>1 DEF None
  <2> HIDE DEF s, n
  <2>5. /\ Q \in Seq(SessionAt) /\ Len(Q) = Len(S.sessions) /\ DOMAIN Q = 1 .. Len(S.sessions)
        /\ Q[id] = s /\ \A i \in 1 .. Len(S.sessions) : i # id => Q[i] = S.sessions[i]
    BY <2>1, <2>3, StateFacts, ExceptSeq
  <2> HIDE DEF Q
  <2>6. /\ T \in SStates /\ T.log = S.log /\ T.sessions = Q /\ T.session = S.session
        /\ T.threads = S.threads /\ T.thread = S.thread
    BY <2>5, StateFacts, SessionsReplaced
  <2> HIDE DEF T
  <2>7. \A i \in 1 .. Len(S.sessions) :
           /\ Q[i].thread = S.sessions[i].thread /\ Q[i].start = S.sessions[i].start
           /\ Q[i].ctx = S.sessions[i].ctx
           /\ Q[i].end = IF i = id THEN n ELSE S.sessions[i].end
    BY <2>3, <2>5
  <2>8. \A i \in 1 .. Len(S.sessions) : ~Open(S.sessions[i]) => ~Open(Q[i])
    <3>1. s.start \in Nat /\ n # 0
      BY <2>1, <2>3, <2>4 DEF SessionAt
    <3> QED BY <2>7, <3>1 DEF Open, HEAD
  <2>9. Sound(n, S.threads, Q)
    <3> SUFFICES ASSUME NEW i \in 1 .. Len(S.sessions)
                 PROVE  /\ Q[i].thread \in 1 .. S.threads
                        /\ Q[i].start \in 0 .. n /\ Q[i].end \in 0 .. n
                        /\ ~Open(Q[i]) => Q[i].start < Q[i].end
                        /\ Q[i].ctx # None => Q[i].ctx \in 1 .. (i - 1) /\ ~Open(Q[Q[i].ctx])
      BY <2>5 DEF Sound
    <3>1. /\ S.sessions[i].thread \in 1 .. S.threads
          /\ S.sessions[i].start \in 0 .. n /\ S.sessions[i].end \in 0 .. n
          /\ ~Open(S.sessions[i]) => S.sessions[i].start < S.sessions[i].end
          /\ S.sessions[i].ctx # None =>
                S.sessions[i].ctx \in 1 .. (i - 1) /\ ~Open(S.sessions[S.sessions[i].ctx])
      BY StateFacts DEF Kept, Sound, n
    <3>2. Q[i].start \in 0 .. n /\ Q[i].end \in 0 .. n
      <4>1. Q[i].start = S.sessions[i].start /\ (Q[i].end = n \/ Q[i].end = S.sessions[i].end)
        BY <2>7
      <4>2. n \in 0 .. n
        BY <2>1
      <4> QED BY <3>1, <4>1, <4>2
    <3>3. ~Open(Q[i]) => Q[i].start < Q[i].end
      BY <2>4, <2>7, <3>1 DEF Open
    <3>4. Q[i].ctx # None => Q[i].ctx \in 1 .. (i - 1) /\ ~Open(Q[Q[i].ctx])
      <4> SUFFICES ASSUME Q[i].ctx # None
                   PROVE  Q[i].ctx \in 1 .. (i - 1) /\ ~Open(Q[Q[i].ctx])
        OBVIOUS
      <4>1. PICK c : c = Q[i].ctx
        OBVIOUS
      <4>2. c \in 1 .. (i - 1) /\ ~Open(S.sessions[c])
        BY <2>7, <3>1, <4>1
      <4>3. c \in 1 .. Len(S.sessions)
        BY <4>2, StateFacts
      <4> QED BY <2>8, <4>1, <4>2, <4>3
    <3> QED BY <2>7, <3>1, <3>2, <3>3, <3>4
  <2>10. Kept(T)
    BY <2>5, <2>6, <2>9, StateFacts DEF Kept, n
  <2>11. ASSUME NEW i \in DOMAIN S.sessions
         PROVE  /\ T.sessions[i].thread = S.sessions[i].thread
                /\ T.sessions[i].start = S.sessions[i].start
                /\ T.sessions[i].ctx = S.sessions[i].ctx
                /\ T.sessions[i].end = IF i = id /\ Open(S.sessions[i]) THEN n
                                       ELSE S.sessions[i].end
    <3>1. i \in 1 .. Len(S.sessions)
      BY StateFacts
    <3>2. Open(S.sessions[id])
      BY <1>2 DEF IsOpen
    <3> QED BY <2>6, <2>7, <3>1, <3>2
  <2>12. Placed(S) => Placed(T)
    <3>1. S.session # None => S.session \in 1 .. Len(S.sessions)
      BY StateFacts DEF None
    <3> QED BY <2>6, <2>7, <3>1 DEF Placed
  <2> QED BY <2>2, <2>5, <2>6, <2>10, <2>11, <2>12 DEF n
<1> QED BY <1>1, <1>2

LEMMA AppendKept ==
    ASSUME NEW S, Kept(S), NEW new \in SessionAt,
           new.thread \in 1 .. S.threads, new.start \in 0 .. Len(S.log), new.end = HEAD,
           new.ctx # None => new.ctx \in 1 .. Len(S.sessions) /\ ~Open(S.sessions[new.ctx])
    PROVE  LET T == [S EXCEPT !.sessions = Append(@, new)]
           IN  /\ Kept(T) /\ Follows(S, T)
               /\ T.log = S.log /\ T.threads = S.threads
               /\ Len(T.sessions) = Len(S.sessions) + 1
               /\ T.sessions[Len(S.sessions) + 1] = new
               /\ \A i \in DOMAIN S.sessions : T.sessions[i] = S.sessions[i]
<1> DEFINE Q == Append(S.sessions, new)
           T == [S EXCEPT !.sessions = Q]
           k == Len(S.sessions)
<1>1. [S EXCEPT !.sessions = Append(@, new)] = T
  BY StateFacts DEF SStates
<1>2. /\ Q \in Seq(SessionAt) /\ Len(Q) = k + 1 /\ DOMAIN Q = 1 .. (k + 1)
      /\ Q[k + 1] = new /\ \A i \in 1 .. k : Q[i] = S.sessions[i]
  BY StateFacts, AppendProperties
<1>3. k \in Nat /\ Len(S.log) \in Nat
  BY StateFacts
<1> HIDE DEF Q
<1>4. /\ T \in SStates /\ T.log = S.log /\ T.sessions = Q /\ T.session = S.session
      /\ T.threads = S.threads /\ T.thread = S.thread
  BY <1>2, StateFacts, SessionsReplaced
<1> HIDE DEF T
<1>5. Sound(Len(S.log), S.threads, Q)
  <2> SUFFICES ASSUME NEW i \in 1 .. (k + 1)
               PROVE  /\ Q[i].thread \in 1 .. S.threads
                      /\ Q[i].start \in 0 .. Len(S.log) /\ Q[i].end \in 0 .. Len(S.log)
                      /\ ~Open(Q[i]) => Q[i].start < Q[i].end
                      /\ Q[i].ctx # None => Q[i].ctx \in 1 .. (i - 1) /\ ~Open(Q[Q[i].ctx])
    BY <1>2 DEF Sound
  <2>1. CASE i = k + 1
    <3>1. Q[i].end \in 0 .. Len(S.log) /\ Open(Q[i])
      BY <1>2, <1>3, <2>1 DEF Open, HEAD
    <3>2. PICK c : c = Q[i].ctx
      OBVIOUS
    <3>3. ASSUME c # None PROVE c \in 1 .. (i - 1) /\ ~Open(Q[c])
      <4>1. c \in 1 .. k /\ ~Open(S.sessions[c])
        BY <1>2, <2>1, <3>2, <3>3
      <4>2. i - 1 = k
        BY <1>3, <2>1
      <4> QED BY <1>2, <4>1, <4>2
    <3> QED BY <1>2, <2>1, <3>1, <3>2, <3>3
  <2>2. CASE i # k + 1
    <3>1. i \in 1 .. k
      BY <1>3, <2>2
    <3>2. /\ S.sessions[i].thread \in 1 .. S.threads
          /\ S.sessions[i].start \in 0 .. Len(S.log) /\ S.sessions[i].end \in 0 .. Len(S.log)
          /\ ~Open(S.sessions[i]) => S.sessions[i].start < S.sessions[i].end
          /\ S.sessions[i].ctx # None =>
                S.sessions[i].ctx \in 1 .. (i - 1) /\ ~Open(S.sessions[S.sessions[i].ctx])
      BY <3>1, StateFacts DEF Kept, Sound
    <3>3. \A c \in 1 .. (i - 1) : c \in 1 .. k
      BY <1>3, <3>1
    <3> QED BY <1>2, <3>1, <3>2, <3>3
  <2> QED BY <2>1, <2>2
<1>6. Kept(T)
  BY <1>2, <1>3, <1>4, <1>5, StateFacts DEF Kept
<1>7. Follows(S, T)
  <2>1. Len(S.log) <= Len(S.log) /\ k <= Len(Q)
    BY <1>2, <1>3
  <2> QED BY <1>2, <1>4, <2>1 DEF Follows, Grows
<1>8. DOMAIN S.sessions = 1 .. k
  BY StateFacts
<1> QED BY <1>1, <1>2, <1>4, <1>6, <1>7, <1>8

\* R differs from C in the end of the session id, which it sets to the end of the log.
EndsOnly(C, id, R) ==
    \A i \in DOMAIN C.sessions :
        /\ R.sessions[i].start = C.sessions[i].start
        /\ R.sessions[i].ctx = C.sessions[i].ctx
        /\ i # id => R.sessions[i].end = C.sessions[i].end
        /\ Open(C.sessions[i]) => R.sessions[i].end \in {HEAD, Len(C.log)}

\* A session of S may be closed when an event has been appended since.
LEMMA CloseLater ==
    ASSUME NEW S, Kept(S), NEW C, Reached(S, C), Len(S.log) < Len(C.log),
           NEW id \in 0 .. Len(S.sessions)
    PROVE  LET R == Close(C, id)
           IN  /\ Reached(S, R) /\ R.log = C.log /\ R.session = C.session
               /\ Len(R.sessions) = Len(C.sessions) /\ EndsOnly(C, id, R)
<1> DEFINE R == Close(C, id)
<1>1. Kept(C) /\ Placed(C) /\ C.session # None /\ Follows(S, C)
  BY DEF Reached
<1>2. Len(S.log) \in Nat /\ Len(C.log) \in Nat /\ DOMAIN S.sessions = 1 .. Len(S.sessions)
  BY <1>1, StateFacts
<1>3. id # None => C.sessions[id].start < Len(C.log)
  <2> SUFFICES ASSUME id # None PROVE C.sessions[id].start < Len(C.log)
    OBVIOUS
  <2>1. id \in DOMAIN S.sessions
    BY StateFacts DEF None
  <2>2. S.sessions[id].start <= Len(S.log) /\ S.sessions[id].start \in Nat
    BY <2>1, <1>2, StateFacts DEF Kept, Sound
  <2>3. C.sessions[id].start = S.sessions[id].start
    BY <1>1, <2>1, FollowsFacts
  <2> QED BY <1>2, <2>2, <2>3
<1>4. id \in 0 .. Len(C.sessions)
  BY <1>1, StateFacts, FollowsFacts
<1>5. /\ Kept(R) /\ Placed(R) /\ R.log = C.log /\ R.session = C.session
      /\ Len(R.sessions) = Len(C.sessions)
      /\ \A i \in DOMAIN C.sessions :
            /\ R.sessions[i].thread = C.sessions[i].thread
            /\ R.sessions[i].start = C.sessions[i].start
            /\ R.sessions[i].ctx = C.sessions[i].ctx
            /\ R.sessions[i].end = IF i = id /\ Open(C.sessions[i]) THEN Len(C.log)
                                   ELSE C.sessions[i].end
  BY <1>1, <1>3, <1>4, CloseKept
<1> HIDE DEF R
<1>6. Follows(S, R)
  <2>1. /\ Len(S.log) <= Len(R.log) /\ Len(S.sessions) <= Len(R.sessions)
        /\ \A e \in 1 .. Len(S.log) : R.log[e] = S.log[e]
    BY <1>1, <1>5, FollowsFacts
  <2>2. ASSUME NEW i \in 1 .. Len(S.sessions)
        PROVE  /\ R.sessions[i].thread = S.sessions[i].thread
               /\ R.sessions[i].start = S.sessions[i].start
               /\ R.sessions[i].ctx = S.sessions[i].ctx
               /\ Open(S.sessions[i]) => Open(R.sessions[i]) \/ Len(S.log) < R.sessions[i].end
               /\ ~Open(S.sessions[i]) => R.sessions[i].end = S.sessions[i].end
    <3>1. i \in DOMAIN S.sessions /\ i \in DOMAIN C.sessions
      BY <1>1, <1>2, FollowsFacts
    <3>2. /\ R.sessions[i].thread = S.sessions[i].thread
          /\ R.sessions[i].start = S.sessions[i].start
          /\ R.sessions[i].ctx = S.sessions[i].ctx
      BY <1>1, <1>5, <3>1, FollowsFacts
    <3>3. ASSUME ~Open(S.sessions[i]) PROVE R.sessions[i].end = S.sessions[i].end
      <4>1. C.sessions[i].end = S.sessions[i].end
        BY <1>1, <3>1, <3>3, FollowsFacts
      <4>2. ~Open(C.sessions[i])
        BY <3>3, <4>1 DEF Open
      <4> QED BY <1>5, <3>1, <4>1, <4>2
    <3>4. ASSUME Open(S.sessions[i])
          PROVE  Open(R.sessions[i]) \/ Len(S.log) < R.sessions[i].end
      <4>1. Open(C.sessions[i]) \/ Len(S.log) < C.sessions[i].end
        BY <1>1, <3>1, <3>4, FollowsFacts
      <4>2. R.sessions[i].end = Len(C.log) \/ R.sessions[i].end = C.sessions[i].end
        BY <1>5, <3>1
      <4> QED BY <4>1, <4>2 DEF Open
    <3> QED BY <3>2, <3>3, <3>4
  <2> QED BY <2>1, <2>2 DEF Follows, Grows
<1>7. ASSUME NEW i \in DOMAIN C.sessions, Open(C.sessions[i])
      PROVE  R.sessions[i].end \in {HEAD, Len(C.log)}
  BY <1>5, <1>7 DEF Open
<1>8. EndsOnly(C, id, R)
  BY <1>5, <1>7 DEF EndsOnly
<1> QED BY <1>1, <1>5, <1>6, <1>8 DEF Reached, R

\* R has a new session, in the thread that was asked for, and ended none of another.
Made(S, thread, R) ==
    /\ thread # None => R.sessions[R.session].thread = thread
    /\ \A i \in DOMAIN S.sessions :
          S.sessions[i].thread # R.sessions[R.session].thread =>
             R.sessions[i].end = S.sessions[i].end

\* createSession.
LEMMA CreateKept ==
    ASSUME NEW S, Kept(S), NEW thread \in 0 .. S.threads, NEW start \in 0 .. Len(S.log),
           NEW ctx \in 0 .. Len(S.sessions), ctx # None => ~Open(S.sessions[ctx]),
           NEW closeActive \in BOOLEAN
    PROVE  LET R == CreateSession(S, thread, start, ctx, closeActive)
           IN  /\ Reached(S, R)
               /\ Len(R.log) = Len(S.log) + 1
               /\ R.session = Len(S.sessions) + 1 /\ Len(R.sessions) = Len(S.sessions) + 1
               /\ R.sessions[R.session].start = start
               /\ R.sessions[R.session].ctx = ctx
               /\ Open(R.sessions[R.session])
               /\ Made(S, thread, R)
<1> DEFINE T == IF thread # None THEN [S EXCEPT !.thread = thread]
                ELSE IF S.thread # None THEN S ELSE CreateThreadRecord(S)
           new == [thread |-> T.thread, start |-> start, end |-> HEAD, ctx |-> ctx]
           k == Len(S.sessions) + 1
           U == [T EXCEPT !.sessions = Append(@, new)]
           A == Activate(U, k)
           C == Logged(A, "boundary", new.thread)
           R == IF closeActive /\ S.session # None /\ S.sessions[S.session].thread = new.thread
                THEN Close(C, S.session) ELSE C
<1>1. CreateSession(S, thread, start, ctx, closeActive) = R
  BY DEF CreateSession
<1>2. /\ Kept(T) /\ Follows(S, T) /\ T.log = S.log /\ T.sessions = S.sessions
      /\ T.thread \in 1 .. T.threads /\ (thread # None => T.thread = thread)
  <2>1. CASE thread # None
    <3> DEFINE V == [S EXCEPT !.thread = thread]
    <3>1. thread \in Nat /\ thread \in 1 .. S.threads
      BY <2>1, StateFacts DEF None
    <3>2. /\ V \in SStates /\ V.thread = thread /\ V.log = S.log /\ V.sessions = S.sessions
          /\ V.threads = S.threads /\ V.session = S.session
      BY <3>1, StateFacts, SetThread
    <3>3. T = V
      BY <2>1
    <3> HIDE DEF V, T
    <3>4. Kept(V)
      BY <3>2, StateFacts DEF Kept
    <3>5. Follows(S, V)
      BY <3>2, FollowsSame
    <3> QED BY <3>1, <3>2, <3>3, <3>4, <3>5
  <2>2. CASE thread = None /\ S.thread # None
    <3>1. S.thread \in 1 .. S.threads
      BY <2>2, StateFacts DEF None
    <3> QED BY <2>2, <3>1, FollowsItself
  <2>3. CASE thread = None /\ S.thread = None
    <3>1. T = CreateThreadRecord(S)
      BY <2>3
    <3>2. S.threads + 1 \in 1 .. (S.threads + 1)
      BY StateFacts
    <3> HIDE DEF T
    <3> QED BY <2>3, <3>1, <3>2, ThreadKept
  <2> QED BY <2>1, <2>2, <2>3
<1> HIDE DEF T
<1>3. /\ new \in SessionAt /\ new.thread = T.thread /\ new.start = start /\ new.end = HEAD
      /\ new.ctx = ctx
  <2>1. T.thread \in Nat /\ start \in Nat /\ ctx \in Nat /\ HEAD \in Nat
    BY <1>2, StateFacts DEF HEAD
  <2> QED BY <2>1 DEF SessionAt
<1> HIDE DEF new
<1>4. new.ctx # None => new.ctx \in 1 .. Len(T.sessions) /\ ~Open(T.sessions[new.ctx])
  BY <1>2, <1>3, StateFacts DEF None
<1>a. new.thread \in 1 .. T.threads /\ new.start \in 0 .. Len(T.log)
  BY <1>2, <1>3
<1>5. /\ Kept(U) /\ Follows(T, U) /\ U.log = T.log /\ U.threads = T.threads
      /\ Len(U.sessions) = k /\ U.sessions[k] = new
      /\ \A i \in DOMAIN S.sessions : U.sessions[i] = S.sessions[i]
  <2>1. /\ Kept(U) /\ Follows(T, U) /\ U.log = T.log /\ U.threads = T.threads
        /\ Len(U.sessions) = Len(T.sessions) + 1 /\ U.sessions[Len(T.sessions) + 1] = new
        /\ \A i \in DOMAIN T.sessions : U.sessions[i] = T.sessions[i]
    BY <1>2, <1>3, <1>4, <1>a, AppendKept
  <2> HIDE DEF U
  <2> QED BY <1>2, <2>1
<1> HIDE DEF U
<1>6. k \in DOMAIN U.sessions /\ k # 0
  BY <1>5, StateFacts
<1>7. Reached(U, A) /\ A.session = k /\ A.log = U.log /\ A.sessions = U.sessions
  BY <1>5, <1>6, ActivateKept
<1> HIDE DEF A
<1>8. "boundary" \in Types /\ new.thread \in Nat
  BY <1>3 DEF Types, SessionAt
<1>9. /\ Kept(C) /\ Follows(A, C) /\ Placed(C)
      /\ Len(C.log) = Len(A.log) + 1 /\ C.sessions = A.sessions /\ C.session = A.session
  BY <1>7, <1>8, LoggedKept DEF Reached
<1> HIDE DEF C
<1>10. Follows(S, C)
  BY <1>2, <1>5, <1>7, <1>9, FollowsOn DEF Reached
<1>11. /\ Reached(S, C) /\ Len(C.log) = Len(S.log) + 1 /\ C.session = k
       /\ C.sessions[k] = new /\ Len(C.sessions) = k
       /\ \A i \in DOMAIN S.sessions : C.sessions[i] = S.sessions[i]
  BY <1>2, <1>3, <1>5, <1>6, <1>7, <1>9, <1>10 DEF Reached, None
<1>b. Open(new)
  BY <1>3 DEF Open
<1>c. thread # None => new.thread = thread
  BY <1>2, <1>3
<1>12. CASE R = C
  <2>1. Made(S, thread, C)
    BY <1>11, <1>c DEF Made
  <2>2. /\ C.sessions[C.session].start = start /\ C.sessions[C.session].ctx = ctx
        /\ Open(C.sessions[C.session])
    BY <1>3, <1>11, <1>b
  <2> QED BY <1>1, <1>11, <1>12, <2>1, <2>2
<1>13. CASE R # C
  <2>0. R = Close(C, S.session) /\ S.session # None
        /\ S.sessions[S.session].thread = new.thread
    BY <1>13
  <2>1. Len(S.log) < Len(C.log) /\ S.session \in 0 .. Len(S.sessions)
        /\ S.session # k /\ k \in DOMAIN C.sessions
        /\ \A i \in DOMAIN S.sessions : i \in DOMAIN C.sessions
    <3>1. S.session \in 0 .. Len(S.sessions) /\ Len(S.log) \in Nat /\ Len(S.sessions) \in Nat
          /\ DOMAIN S.sessions = 1 .. Len(S.sessions)
      BY StateFacts
    <3>2. Len(S.log) < Len(C.log) /\ S.session # k
      BY <1>11, <3>1
    <3>3. DOMAIN C.sessions = 1 .. k
      BY <1>11, StateFacts DEF Reached
    <3> QED BY <3>1, <3>2, <3>3
  <2>2. /\ Reached(S, R) /\ R.log = C.log /\ R.session = C.session
        /\ Len(R.sessions) = Len(C.sessions)
        /\ \A i \in DOMAIN C.sessions :
              /\ R.sessions[i].start = C.sessions[i].start
              /\ R.sessions[i].ctx = C.sessions[i].ctx
              /\ i # S.session => R.sessions[i].end = C.sessions[i].end
    <3>1. PICK K : K = Close(C, S.session)
      OBVIOUS
    <3>2. /\ Reached(S, K) /\ K.log = C.log /\ K.session = C.session
          /\ Len(K.sessions) = Len(C.sessions)
      BY <1>11, <2>1, <3>1, CloseLater
    <3>3. EndsOnly(C, S.session, K)
      BY <1>11, <2>1, <3>1, CloseLater
    <3> QED BY <2>0, <3>1, <3>2, <3>3 DEF EndsOnly
  <2> HIDE DEF R
  <2>3. /\ R.session = k /\ R.sessions[k].start = start /\ R.sessions[k].ctx = ctx
        /\ Open(R.sessions[k])
    BY <1>3, <1>11, <1>b, <2>1, <2>2 DEF Open
  <2>4. R.sessions[k].thread = new.thread
    <3>1. R.thread = C.thread
      BY <2>0 DEF Close
    <3>2. C.sessions[k].thread = C.thread /\ R.sessions[k].thread = R.thread
      BY <1>6, <1>11, <2>2, <2>3 DEF Reached, Placed, None
    <3> QED BY <1>11, <3>1, <3>2
  <2>5. ASSUME NEW i \in DOMAIN S.sessions,
               S.sessions[i].thread # R.sessions[R.session].thread
        PROVE  R.sessions[i].end = S.sessions[i].end
    BY <1>11, <2>0, <2>1, <2>2, <2>3, <2>4, <2>5
  <2>6. Made(S, thread, R)
    BY <1>c, <2>3, <2>4, <2>5 DEF Made
  <2> QED BY <1>1, <1>11, <2>2, <2>3, <2>6
<1> QED BY <1>12, <1>13

LEMMA Boundary == "boundary" \in Types /\ "split" \in Types /\ "message" \in Types /\ "reply" \in Types
BY DEF Types

\* An event more does not matter.
LEMMA LoggedReached ==
    ASSUME NEW S, Kept(S), NEW C, Reached(S, C), NEW type \in Types, NEW thread \in Nat
    PROVE  LET R == Logged(C, type, thread)
           IN  /\ Reached(S, R) /\ Len(R.log) = Len(C.log) + 1 /\ Len(S.log) < Len(R.log)
               /\ R.log[Len(R.log)].type = type /\ R.log[Len(R.log)].thread = thread
               /\ R.threads = C.threads /\ R.sessions = C.sessions
               /\ R.thread = C.thread /\ R.session = C.session
<1> DEFINE R == Logged(C, type, thread)
<1>1. Kept(C) /\ Placed(C) /\ C.session # None /\ Follows(S, C)
  BY DEF Reached
<1>2. /\ Kept(R) /\ Follows(C, R) /\ Placed(R) /\ Len(R.log) = Len(C.log) + 1
      /\ R.log[Len(R.log)].type = type /\ R.log[Len(R.log)].thread = thread
      /\ R.threads = C.threads /\ R.sessions = C.sessions
      /\ R.thread = C.thread /\ R.session = C.session
  BY <1>1, LoggedKept
<1> HIDE DEF R
<1>3. Follows(S, R)
  BY <1>1, <1>2, FollowsOn
<1>4. Len(S.log) < Len(R.log)
  <2>1. Len(S.log) <= Len(C.log) /\ Len(S.log) \in Nat /\ Len(C.log) \in Nat
    BY <1>1, StateFacts, FollowsFacts
  <2> QED BY <1>2, <2>1
<1> QED BY <1>1, <1>2, <1>3, <1>4 DEF Reached, R

LEMMA ReachedOn ==
    ASSUME NEW S, Kept(S), NEW T, Kept(T), Follows(S, T), NEW U, Reached(T, U)
    PROVE  Reached(S, U)
<1>1. Follows(S, U)
  BY FollowsOn DEF Reached
<1> QED BY <1>1 DEF Reached

LEMMA ReachedItself ==
    ASSUME NEW S, Kept(S), Placed(S), S.session # None
    PROVE  Reached(S, S)
BY FollowsItself DEF Reached

\* switchToExistingSession.
LEMMA SwitchKept ==
    ASSUME NEW S, Kept(S), Placed(S), NEW id \in DOMAIN S.sessions, NEW closePrevious
    PROVE  LET R == SwitchToExisting(S, id, closePrevious)
           IN  /\ Reached(S, R) /\ R.session = id
               /\ closePrevious = "never" => R.sessions = S.sessions
               /\ \A i \in DOMAIN S.sessions :
                     i # S.session \/ i = id => R.sessions[i].end = S.sessions[i].end
               /\ \A i \in DOMAIN S.sessions :
                     Open(S.sessions[i]) => R.sessions[i].end \in {HEAD, Len(S.log) + 1}
               /\ \/ R.log = S.log
                  \/ Len(R.log) = Len(S.log) + 1 /\ R.log[Len(R.log)].type = "boundary"
<1> DEFINE A == Activate(S, id)
           J == Logged(A, "boundary", S.sessions[id].thread)
           R == SwitchToExisting(S, id, closePrevious)
<1>1. id \in 1 .. Len(S.sessions) /\ S.sessions[id].thread \in Nat /\ S.session \in 0 .. Len(S.sessions)
  <2>1. id \in 1 .. Len(S.sessions) /\ S.session \in 0 .. Len(S.sessions)
    BY StateFacts
  <2>2. S.sessions[id] \in SessionAt
    BY <2>1, StateFacts
  <2> QED BY <2>1, <2>2 DEF SessionAt
<1>2. \/ R = S /\ id = S.session
      \/ R = J
      \/ R = Close(J, S.session) /\ S.session # id /\ closePrevious # "never"
  BY DEF SwitchToExisting
<1>3. Reached(S, A) /\ A.session = id /\ A.log = S.log /\ A.sessions = S.sessions
  BY ActivateKept
<1> HIDE DEF A
<1>4. /\ Reached(S, J) /\ Len(S.log) < Len(J.log) /\ Len(J.log) = Len(S.log) + 1
      /\ J.session = id /\ J.sessions = S.sessions
  BY <1>1, <1>3, Boundary, LoggedReached
<1>5. J.log[Len(J.log)].type = "boundary"
  BY <1>1, <1>3, Boundary, LoggedReached
<1> HIDE DEF J
<1>6. /\ Reached(S, Close(J, S.session)) /\ Close(J, S.session).session = id
      /\ Close(J, S.session).log = J.log
      /\ \A i \in DOMAIN S.sessions :
            /\ i # S.session => Close(J, S.session).sessions[i].end = S.sessions[i].end
            /\ Open(S.sessions[i]) =>
                  Close(J, S.session).sessions[i].end \in {HEAD, Len(J.log)}
  <2>1. PICK K : K = Close(J, S.session)
    OBVIOUS
  <2>a. Kept(S) /\ Reached(S, J) /\ Len(S.log) < Len(J.log) /\ S.session \in 0 .. Len(S.sessions)
    BY <1>1, <1>4
  <2>2. Reached(S, K) /\ K.log = J.log /\ K.session = J.session
    BY <2>a, <2>1, CloseLater
  <2>3. EndsOnly(J, S.session, K)
    BY <2>a, <2>1, CloseLater
  <2> QED BY <1>4, <2>1, <2>2, <2>3 DEF EndsOnly
<1>7. id = S.session => Reached(S, S)
  BY <1>1, ReachedItself DEF None
<1>8. CASE R = S /\ id = S.session
  BY <1>7, <1>8 DEF Open
<1>9. CASE R = J
  BY <1>4, <1>5, <1>9 DEF Open
<1>10. CASE R = Close(J, S.session) /\ S.session # id /\ closePrevious # "never"
  <2> HIDE DEF R
  <2> QED BY <1>4, <1>5, <1>6, <1>10 DEF R
<1> HIDE DEF R
<1> QED BY <1>2, <1>8, <1>9, <1>10 DEF R

\* The session that is active has a thread.
LEMMA ActiveHasThread ==
    ASSUME NEW S, Kept(S), Placed(S), S.session # None
    PROVE  /\ S.session \in 1 .. Len(S.sessions) /\ S.session \in DOMAIN S.sessions
           /\ S.thread \in 1 .. S.threads /\ S.thread # None
           /\ S.sessions[S.session].thread = S.thread
<1>1. S.session \in 1 .. Len(S.sessions) /\ DOMAIN S.sessions = 1 .. Len(S.sessions)
  BY StateFacts DEF None
<1>2. S.sessions[S.session].thread \in 1 .. S.threads /\ S.sessions[S.session].thread = S.thread
  BY <1>1 DEF Kept, Sound, Placed
<1> QED BY <1>1, <1>2, StateFacts DEF None

\* A forked session, at an event of the log.
LEMMA ForkAtKept ==
    ASSUME NEW S, Kept(S), Placed(S), S.session # None, NEW event \in DOMAIN S.log
    PROVE  Reached(S, ForkAt(S, event))
<1> DEFINE new == [thread |-> S.sessions[S.session].thread, start |-> event, end |-> HEAD,
                   ctx |-> None]
           U == [S EXCEPT !.sessions = Append(@, new)]
           F == Activate(U, Len(S.sessions) + 1)
           L == Logged(F, "boundary", new.thread)
<1>1. GetActive(S) = S
  BY ActiveHasThread DEF GetActive
<1>2. ForkAt(S, event) = Close(L, S.session)
  BY <1>1 DEF ForkAt
<1>3. event \in 1 .. Len(S.log)
  BY StateFacts
<1>4. /\ new \in SessionAt /\ new.thread \in 1 .. S.threads /\ new.start \in 0 .. Len(S.log)
      /\ new.end = HEAD /\ new.ctx = None /\ new.thread \in Nat
  <2>1. S.sessions[S.session].thread \in 1 .. S.threads /\ S.sessions[S.session].thread \in Nat
    BY ActiveHasThread, StateFacts
  <2>2. event \in Nat /\ event \in 0 .. Len(S.log) /\ HEAD \in Nat /\ None \in Nat
    BY <1>3, StateFacts DEF HEAD, None
  <2> QED BY <2>1, <2>2 DEF SessionAt
<1> HIDE DEF new
<1>5. Kept(U) /\ Follows(S, U) /\ Len(U.sessions) = Len(S.sessions) + 1
  BY <1>4, AppendKept
<1> HIDE DEF U
<1>6. Len(S.sessions) + 1 \in DOMAIN U.sessions
  BY <1>5, StateFacts
<1>7. Reached(U, F)
  BY <1>5, <1>6, ActivateKept
<1> HIDE DEF F
<1>8. Reached(S, F)
  BY <1>5, <1>7, ReachedOn
<1>9. Reached(S, L) /\ Len(S.log) < Len(L.log)
  BY <1>4, <1>8, Boundary, LoggedReached
<1> HIDE DEF L
<1>10. S.session \in 0 .. Len(S.sessions)
  BY StateFacts
<1>11. Reached(S, Close(L, S.session))
  BY <1>9, <1>10, CloseLater
<1> QED BY <1>2, <1>11

\* A session in a given thread ends no session of another one.
LEMMA CreatedThere ==
    ASSUME NEW S, Kept(S), NEW thread \in 0 .. S.threads, thread # None,
           NEW start \in 0 .. Len(S.log)
    PROVE  LET R == CreateSession(S, thread, start, None, TRUE)
           IN  /\ Reached(S, R)
               /\ \A i \in DOMAIN S.sessions :
                     S.sessions[i].thread # thread => R.sessions[i].end = S.sessions[i].end
<1>1. None \in 0 .. Len(S.sessions) /\ TRUE \in BOOLEAN
  BY StateFacts DEF None
<1>2. PICK R : R = CreateSession(S, thread, start, None, TRUE)
  OBVIOUS
<1>3. Reached(S, R)
  BY <1>1, <1>2, CreateKept
<1>4. Made(S, thread, R)
  BY <1>1, <1>2, CreateKept
<1> QED BY <1>2, <1>3, <1>4 DEF Made

\* createThread and its session.
LEMMA CreateThreadKept ==
    ASSUME NEW S, Kept(S)
    PROVE  LET R == CreateThread(S)
           IN  /\ Reached(S, R)
               /\ \A i \in DOMAIN S.sessions : R.sessions[i].end = S.sessions[i].end
<1> DEFINE T == CreateThreadRecord(S)
<1>1. /\ Kept(T) /\ Follows(S, T) /\ T.log = S.log /\ T.sessions = S.sessions
      /\ T.threads = S.threads + 1 /\ T.thread = S.threads + 1
  BY ThreadKept
<1>2. CreateThread(S) = CreateSession(T, T.thread, Len(S.log), None, TRUE)
  BY DEF CreateThread, Head1
<1> HIDE DEF T
<1>3. /\ T.thread \in 0 .. T.threads /\ Len(S.log) \in 0 .. Len(T.log)
      /\ None \in 0 .. Len(T.sessions) /\ T.thread # None
  BY <1>1, StateFacts DEF None
<1>4. PICK R : R = CreateSession(T, T.thread, Len(S.log), None, TRUE)
  OBVIOUS
<1>5. /\ Reached(T, R)
      /\ \A i \in DOMAIN T.sessions :
            T.sessions[i].thread # T.thread => R.sessions[i].end = T.sessions[i].end
  BY <1>1, <1>3, <1>4, CreatedThere
<1>6. ASSUME NEW i \in DOMAIN S.sessions PROVE R.sessions[i].end = S.sessions[i].end
  <2>1. S.sessions[i].thread \in 1 .. S.threads
    BY DEF Kept, Sound
  <2>2. S.sessions[i].thread # T.thread
    BY <1>1, <2>1, StateFacts
  <2> QED BY <1>1, <1>5, <2>2
<1>7. Reached(S, R)
  BY <1>1, <1>5, ReachedOn
<1> QED BY <1>2, <1>4, <1>6, <1>7

\* getActiveSession, which creates what is missing.
LEMMA GetActiveKept ==
    ASSUME NEW S, Kept(S), Placed(S)
    PROVE  Reached(S, GetActive(S))
<1>1. CASE S.session # None
  <2>1. GetActive(S) = S
    BY <1>1, ActiveHasThread DEF GetActive
  <2> QED BY <1>1, <2>1, ReachedItself
<1>2. CASE S.session = None /\ S.thread = None
  <2>1. Reached(S, CreateThread(S))
    BY CreateThreadKept
  <2>2. GetActive(S) = CreateThread(S)
    BY <1>2, <2>1 DEF GetActive, Reached
  <2> QED BY <2>1, <2>2
<1>3. CASE S.session = None /\ S.thread # None
  <2>1. GetActive(S) = CreateSession(S, S.thread, Len(S.log), None, TRUE)
    BY <1>3 DEF GetActive, Head1
  <2>2. /\ S.thread \in 0 .. S.threads /\ Len(S.log) \in 0 .. Len(S.log)
        /\ None \in 0 .. Len(S.sessions)
    BY StateFacts DEF None
  <2>3. Reached(S, CreateSession(S, S.thread, Len(S.log), None, TRUE))
    BY <2>2, CreateKept
  <2> QED BY <2>1, <2>3
<1> QED BY <1>1, <1>2, <1>3

\* forkFromSession, as far as its first save.
LEMMA ForkBegunKept ==
    ASSUME NEW S, Kept(S), NEW id \in DOMAIN S.sessions, NEW preserveHistory \in BOOLEAN
    PROVE  Reached(S, ForkBegun(S, id, preserveHistory))
<1> DEFINE s == S.sessions[id]
           F == IF Open(s) THEN Activate(S, id) ELSE S
           forkAt == IF Open(s) THEN Head1(S) ELSE s.end
           start == IF preserveHistory THEN s.start ELSE forkAt
<1>1. ForkBegun(S, id, preserveHistory) = CreateSession(F, s.thread, start, None, TRUE)
  BY DEF ForkBegun
<1>2. Kept(F) /\ Follows(S, F) /\ F.log = S.log /\ F.threads = S.threads
  BY ActivateKept, FollowsItself DEF Reached
<1>3. s.thread \in 1 .. S.threads /\ s.start \in 0 .. Len(S.log) /\ s.end \in 0 .. Len(S.log)
  BY DEF Kept, Sound
<1>4. Head1(S) \in 0 .. Len(S.log)
  BY StateFacts DEF Head1
<1>5. start \in 0 .. Len(S.log)
  BY <1>3, <1>4
<1> HIDE DEF F, start
<1>6. s.thread \in 0 .. F.threads /\ start \in 0 .. Len(F.log) /\ None \in 0 .. Len(F.sessions)
  BY <1>2, <1>3, <1>5, StateFacts DEF None
<1>7. Reached(F, CreateSession(F, s.thread, start, None, TRUE))
  <2>1. PICK th, n : th = s.thread /\ n = start
    OBVIOUS
  <2>2. th \in 0 .. F.threads /\ n \in 0 .. Len(F.log) /\ th # None
    BY <1>3, <1>6, <2>1 DEF None
  <2>3. Reached(F, CreateSession(F, th, n, None, TRUE))
    BY <1>2, <2>2, CreatedThere
  <2> QED BY <2>1, <2>3
<1>8. Reached(F, ForkBegun(S, id, preserveHistory))
  BY <1>1, <1>7
<1> QED BY <1>2, <1>8, ReachedOn

LEMMA ForkFromKept ==
    ASSUME NEW S, Kept(S), NEW id \in DOMAIN S.sessions, NEW preserveHistory \in BOOLEAN
    PROVE  LET B == ForkBegun(S, id, preserveHistory)
               R == ForkFrom(S, id, preserveHistory)
           IN  Reached(S, R) /\ Len(B.log) <= Len(R.log)
<1> DEFINE B == ForkBegun(S, id, preserveHistory)
           F == Logged(B, "boundary", S.sessions[id].thread)
           R == ForkFrom(S, id, preserveHistory)
<1>1. R = IF S.session # id THEN Close(F, S.session) ELSE F
  BY DEF ForkFrom
<1>2. Reached(S, B)
  BY ForkBegunKept
<1>3. S.sessions[id].thread \in Nat /\ S.session \in 0 .. Len(S.sessions)
  <2>1. S.sessions[id] \in SessionAt
    BY StateFacts
  <2> QED BY <2>1, StateFacts DEF SessionAt
<1> HIDE DEF B
<1>4. Reached(S, F) /\ Len(F.log) = Len(B.log) + 1 /\ Len(S.log) < Len(F.log)
  BY <1>2, <1>3, Boundary, LoggedReached
<1> HIDE DEF F
<1>5. Reached(S, Close(F, S.session)) /\ Close(F, S.session).log = F.log
  BY <1>3, <1>4, CloseLater
<1> HIDE DEF R
<1>6. Reached(S, R) /\ R.log = F.log
  BY <1>1, <1>4, <1>5
<1>7. Len(B.log) <= Len(R.log)
  BY <1>2, <1>4, <1>6, StateFacts DEF Reached
<1> QED BY <1>6, <1>7 DEF R, B

LEMMA ContinuationType ==
    ASSUME NEW S, Kept(S), NEW id
    PROVE  /\ Continuation(S, id) \in 0 .. Len(S.sessions)
           /\ Continuation(S, id) # None =>
                 /\ Continuation(S, id) \in DOMAIN S.sessions
                 /\ S.sessions[Continuation(S, id)].ctx = id
                 /\ IsOpen(S, Continuation(S, id))
<1> DEFINE X == {i \in DOMAIN S.sessions : S.sessions[i].ctx = id /\ Open(S.sessions[i])}
<1>1. Len(S.sessions) \in Nat /\ DOMAIN S.sessions = 1 .. Len(S.sessions)
  BY StateFacts
<1>2. /\ X \subseteq DOMAIN S.sessions
      /\ \A c \in X : S.sessions[c].ctx = id /\ Open(S.sessions[c])
  OBVIOUS
<1>3. Continuation(S, id) = Max({None} \cup X)
  BY DEF Continuation
<1> HIDE DEF X
<1>4. {None} \cup X \in SUBSET (0 .. Len(S.sessions)) /\ {None} \cup X # {}
  BY <1>1, <1>2 DEF None
<1>5. Max({None} \cup X) \in {None} \cup X
  BY <1>1, <1>4, GreatestOf
<1> QED BY <1>2, <1>3, <1>4, <1>5 DEF IsOpen

\* ensureActiveSessionWritable.
LEMMA WritableKept ==
    ASSUME NEW S, Kept(S), Placed(S), S.session # None
    PROVE  LET W == Writable(S)
           IN  /\ Reached(S, W) /\ IsOpen(W, W.session)
               /\ Reached(S, WritableBegun(S)) /\ Len(WritableBegun(S).log) <= Len(W.log)
               /\ \/ W.session = S.session
                  \/ W.sessions[W.session].ctx = S.session /\ ~Open(S.sessions[S.session])
<1>0. ~IsOpen(S, S.session) => ~Open(S.sessions[S.session])
  BY DEF IsOpen
<1>1. CASE IsOpen(S, S.session)
  <2>1. WritableBegun(S) = S /\ Writable(S) = S
    BY <1>1 DEF Writable, WritableBegun, Ended
  <2>2. Len(S.log) <= Len(S.log)
    BY StateFacts
  <2> QED BY <1>1, <2>1, <2>2, ReachedItself
<1>2. CASE ~IsOpen(S, S.session) /\ Continuation(S, S.session) # None
  <2>1. PICK c : c = Continuation(S, S.session)
    OBVIOUS
  <2>2. PICK W : W = SwitchToExisting(S, c, "never")
    OBVIOUS
  <2>3. WritableBegun(S) = W /\ Writable(S) = W
    BY <1>2, <2>1, <2>2 DEF Writable, WritableBegun, Ended
  <2>4. c \in DOMAIN S.sessions /\ S.sessions[c].ctx = S.session /\ IsOpen(S, c)
    BY <1>2, <2>1, ContinuationType
  <2>5. Reached(S, W) /\ W.session = c /\ W.sessions = S.sessions
    BY <2>2, <2>4, SwitchKept
  <2>6. IsOpen(W, W.session) /\ Len(W.log) <= Len(W.log)
    BY <2>4, <2>5, StateFacts DEF IsOpen, Reached
  <2> QED BY <1>0, <1>2, <2>3, <2>4, <2>5, <2>6
<1>3. CASE ~IsOpen(S, S.session) /\ Continuation(S, S.session) = None
  <2> DEFINE T == CreateThreadRecord(S)
             C == CreateSession(T, T.thread, Len(S.log), S.session, FALSE)
             W == Logged(C, "boundary", C.thread)
  <2>1. WritableBegun(S) = C
    <3>1. Head1(T) = Len(S.log)
      BY DEF Head1, CreateThreadRecord
    <3> QED BY <1>3, <3>1 DEF WritableBegun, Ended
  <2>2. /\ Kept(T) /\ Follows(S, T) /\ T.log = S.log /\ T.sessions = S.sessions
        /\ T.threads = S.threads + 1 /\ T.thread = S.threads + 1
    BY ThreadKept
  <2>3. Writable(S) = W
    BY <1>3, <2>1 DEF Writable, Ended
  <2> HIDE DEF T
  <2>4. /\ T.thread \in 0 .. T.threads /\ Len(S.log) \in 0 .. Len(T.log)
        /\ S.session \in 0 .. Len(T.sessions) /\ T.thread \in Nat
    BY <2>2, StateFacts
  <2>5. ~Open(T.sessions[S.session])
    BY <1>3, <2>2 DEF IsOpen
  <2>6. /\ Reached(T, C) /\ C.sessions[C.session].ctx = S.session
        /\ Open(C.sessions[C.session])
    BY <2>2, <2>4, <2>5, CreateKept
  <2> HIDE DEF C
  <2>7. Reached(S, C)
    BY <2>2, <2>6, ReachedOn
  <2>8. C.thread \in Nat /\ Len(C.log) \in Nat
    BY <2>7, StateFacts DEF Reached
  <2>9. /\ Reached(S, W) /\ W.sessions = C.sessions /\ W.session = C.session
        /\ Len(W.log) = Len(C.log) + 1
    BY <2>7, <2>8, Boundary, LoggedReached
  <2> HIDE DEF W
  <2>10. IsOpen(W, W.session) /\ Len(C.log) <= Len(W.log)
    BY <2>6, <2>8, <2>9 DEF IsOpen, Reached
  <2> QED BY <1>0, <1>3, <2>1, <2>3, <2>6, <2>7, <2>9, <2>10
<1> QED BY <1>1, <1>2, <1>3

\* jumpToSession.
LEMMA JumpKept ==
    ASSUME NEW S, Kept(S), Placed(S), NEW id \in DOMAIN S.sessions
    PROVE  /\ Reached(S, Jump(S, id))
           /\ ~IsOpen(S, id) =>
                 LET F == ForkFrom(S, id, TRUE)
                 IN  /\ Len(F.log) <= Len(Jump(S, id).log)
                     /\ IndexOf(Jump(S, id)) = IndexOf(F)
<1>1. CASE IsOpen(S, id)
  BY <1>1, SwitchKept DEF Jump
<1>2. CASE ~IsOpen(S, id)
  <2> DEFINE F == ForkFrom(S, id, TRUE)
             J == Logged(F, "boundary", F.thread)
  <2>1. Jump(S, id) = J
    BY <1>2 DEF Jump
  <2>2. Reached(S, F)
    BY ForkFromKept
  <2> HIDE DEF F
  <2>3. F.thread \in Nat /\ Len(F.log) \in Nat
    BY <2>2, StateFacts DEF Reached
  <2>4. /\ Reached(S, J) /\ Len(J.log) = Len(F.log) + 1
        /\ J.threads = F.threads /\ J.sessions = F.sessions
    BY <2>2, <2>3, Boundary, LoggedReached
  <2> HIDE DEF J
  <2>5. Len(F.log) <= Len(J.log) /\ IndexOf(J) = IndexOf(F)
    BY <2>3, <2>4 DEF IndexOf
  <2> QED BY <2>1, <2>4, <2>5 DEF F
<1> QED BY <1>1, <1>2

\* splitSession; the index is saved before the last event is appended.
LEMMA SplitKept ==
    ASSUME NEW S, Kept(S), NEW R, R = Split(S)
    PROVE  LET C == CreateSession(S, None, R.sessions[R.session].start, None, TRUE)
           IN  /\ Reached(S, R) /\ Reached(S, C)
               /\ Len(C.log) <= Len(R.log) /\ IndexOf(R) = IndexOf(C)
<1> DEFINE X == {e \in DOMAIN S.log : S.log[e].type = "message"}
           start == IF X = {} THEN Head1(S) ELSE Max(X) - 1
           C == CreateSession(S, None, start, None, TRUE)
<1>1. R = Logged(C, "split", C.thread)
  BY DEF Split
<1>2. Len(S.log) \in Nat /\ DOMAIN S.log = 1 .. Len(S.log)
  BY StateFacts
<1>3. X \subseteq 1 .. Len(S.log)
  BY <1>2
<1> HIDE DEF X
<1>4. X # {} => Max(X) \in 1 .. Len(S.log)
  <2>1. X \in SUBSET (0 .. Len(S.log))
    BY <1>2, <1>3
  <2> QED BY <1>2, <1>3, <2>1, GreatestOf
<1>5. start \in 0 .. Len(S.log)
  <2>1. CASE X = {}
    BY <1>2, <2>1 DEF Head1
  <2>2. CASE X # {}
    <3>1. PICK m : m = Max(X)
      OBVIOUS
    <3>2. m - 1 \in 0 .. Len(S.log)
      BY <1>2, <1>4, <2>2, <3>1
    <3> QED BY <2>2, <3>1, <3>2
  <2> QED BY <2>1, <2>2
<1> HIDE DEF start
<1>6. None \in 0 .. S.threads /\ None \in 0 .. Len(S.sessions)
  BY StateFacts DEF None
<1>7. Reached(S, C) /\ C.sessions[C.session].start = start
  <2>1. PICK n : n = start
    OBVIOUS
  <2>2. C = CreateSession(S, None, n, None, TRUE) /\ n \in 0 .. Len(S.log)
    BY <1>5, <2>1
  <2> HIDE DEF C
  <2>3. Reached(S, C)
    BY <1>6, <2>2, CreateKept
  <2>4. C.sessions[C.session].start = n
    BY <1>6, <2>2, CreateKept
  <2> QED BY <2>1, <2>3, <2>4
<1> DEFINE D == C
<1> HIDE DEF C
<1>8. C.thread \in Nat /\ Len(C.log) \in Nat
  BY <1>7, StateFacts DEF Reached
<1>9. /\ Reached(S, R) /\ Len(R.log) = Len(C.log) + 1
      /\ R.threads = C.threads /\ R.sessions = C.sessions /\ R.session = C.session
  BY <1>1, <1>7, <1>8, Boundary, LoggedReached
<1>10. R.sessions[R.session].start = start
  BY <1>7, <1>9
<1>11. CreateSession(S, None, R.sessions[R.session].start, None, TRUE) = C
  BY <1>10 DEF C
<1>12. Len(C.log) <= Len(R.log) /\ IndexOf(R) = IndexOf(C)
  BY <1>8, <1>9 DEF IndexOf
<1> QED BY <1>7, <1>9, <1>11, <1>12

-----------------------------------------------------------------------------
(* The invariant.                                                          *)

\* Where a turn returns to is a session of the manager.
SessionsInv ==
    /\ SessionsTypeOK
    /\ Sound(Len(log), saved.threads, saved.sessions)
    /\ Up => Kept(Now) /\ Placed(Now) /\ Now.session # None
    /\ turn.previous \in 0 .. Len(mem.sessions)
    /\ IndexCurrent

Turns == [kind : {"none", "user", "new", "pinned"}, session : Nat,
          previous : Nat, moved : BOOLEAN, asked : BOOLEAN]

\* What a step from P to S saves on its way is sound and has grown out of P, and the
\* last of it is the index in the end.
SavesSound(P, saves, S) ==
    /\ \A k \in DOMAIN saves :
          Kept(saves[k]) /\ Follows(P, saves[k]) /\ Len(saves[k].log) <= Len(S.log)
    /\ IndexSaved(saves) = IndexOf(S)

\* A record of the state in which a step begins.
Before(P) == Kept(P) /\ P.log = log /\ P.sessions = saved.sessions

\* A step keeps the invariant, and what is in the database has grown.
Onward == SessionsInv' /\ Grows(log, saved.sessions, log', saved'.sessions)

LEMMA DownState == Down \in Manager /\ Len(Down.sessions) = 0 /\ Quiet \in Turns /\ Quiet.previous = 0
<1>1. <<>> \in Seq(SessionAt) /\ Len(<<>>) = 0 /\ 0 \in Nat
  BY EmptySeq
<1> QED BY <1>1 DEF Down, Manager, Quiet, Turns, None

LEMMA DiesSound ==
    ASSUME SessionsInv, NEW P, Before(P), NEW S, Kept(S), Follows(P, S),
           NEW saves \in Seq(SStates), SavesSound(P, saves, S), Dies(saves, S)
    PROVE  Onward
<1>1. PICK k \in 0 .. Len(saves) :
         \E n \in (IF k = 0 THEN Len(log) ELSE Len(saves[k].log)) ..
                  (IF k = Len(saves) THEN Len(S.log) ELSE Len(saves[k + 1].log)) :
            /\ log' = SubSeq(S.log, 1, n)
            /\ saved' = IF k = 0 THEN saved ELSE IndexOf(saves[k])
            /\ mem' = Down
            /\ turn' = Quiet
  BY DEF Dies
<1> DEFINE lo == IF k = 0 THEN Len(log) ELSE Len(saves[k].log)
           hi == IF k = Len(saves) THEN Len(S.log) ELSE Len(saves[k + 1].log)
<1>2. PICK n \in lo .. hi : log' = SubSeq(S.log, 1, n)
  BY <1>1
<1>3. PICK m \in Nat : m = Len(saves)
  OBVIOUS
<1>a. DOMAIN saves = 1 .. m /\ k \in 0 .. m
  BY <1>3
<1>b. (k # 0 => k \in 1 .. m) /\ (k # m => k + 1 \in 1 .. m)
  BY <1>a
<1>4. log \in Seq(EventAt) /\ Len(log) \in Nat /\ S.log \in Seq(EventAt) /\ Len(S.log) \in Nat
  BY StateFacts DEF SessionsInv, SessionsTypeOK
<1>5. k # 0 => /\ Kept(saves[k]) /\ Len(saves[k].log) \in Nat
  <2>1. k # 0 => k \in DOMAIN saves
    BY <1>a, <1>b
  <2> QED BY <2>1, StateFacts DEF SavesSound
<1>6. hi <= Len(S.log) /\ hi \in Nat
  <2>1. k # Len(saves) => k + 1 \in DOMAIN saves
    BY <1>3, <1>a, <1>b
  <2>2. k # Len(saves) => Len(saves[k + 1].log) <= Len(S.log) /\ Len(saves[k + 1].log) \in Nat
    BY <2>1, StateFacts DEF SavesSound
  <2> QED BY <1>4, <2>2
<1>7. lo \in Nat
  BY <1>4, <1>5
<1>8. Sound(lo, saved'.threads, saved'.sessions) /\ saved' \in Index
  <2>1. CASE k = 0
    BY <1>1, <2>1 DEF SessionsInv, SessionsTypeOK
  <2>2. CASE k # 0
    <3>1. saved' = IndexOf(saves[k])
      BY <1>1, <2>2
    <3>2. saved'.threads = saves[k].threads /\ saved'.sessions = saves[k].sessions
      BY <3>1 DEF IndexOf
    <3>3. saved' \in Index
      BY <1>5, <2>2, <3>1, StateFacts DEF IndexOf, Index
    <3> QED BY <1>5, <2>2, <3>2, <3>3 DEF Kept
  <2> QED BY <2>1, <2>2
<1> HIDE DEF lo, hi
<1>9. n \in 0 .. Len(S.log) /\ lo <= n /\ n \in Nat
  BY <1>2, <1>4, <1>6, <1>7
<1>10. log' \in Seq(EventAt) /\ Len(log') = n
  BY <1>2, <1>4, <1>9, SubSeqProperties
<1>11. saved'.threads \in Nat
  BY <1>8 DEF Index
<1>12. Sound(Len(log'), saved'.threads, saved'.sessions)
  BY <1>7, <1>8, <1>9, <1>10, <1>11, SoundLater
<1>13. mem' = Down /\ turn' = Quiet
  BY <1>1
<1>14. SessionsTypeOK'
  BY <1>8, <1>10, <1>13, DownState DEF SessionsTypeOK, Turns
<1>15. turn'.previous \in 0 .. Len(mem'.sessions)
  BY <1>13, DownState
<1>16. SessionsInv'
  BY <1>12, <1>13, <1>14, <1>15 DEF SessionsInv, Up, IndexCurrent
<1>17. Kept(P) /\ P.log = log /\ P.sessions = saved.sessions
  BY DEF Before
<1>18. Len(log) <= n
  <2>1. k # 0 => k \in DOMAIN saves
    BY <1>a, <1>b
  <2>2. k # 0 => Len(log) <= Len(saves[k].log)
    BY <1>17, <2>1, FollowsFacts DEF SavesSound
  <2>3. Len(log) <= lo
    BY <1>4, <2>2 DEF lo
  <2> QED BY <1>4, <1>7, <1>9, <2>3
<1>19. ASSUME NEW e \in 1 .. Len(log) PROVE log'[e] = log[e]
  <2>1. S.log[e] = log[e]
    BY <1>17, FollowsFacts
  <2>2. e \in 1 .. n
    BY <1>4, <1>9, <1>18
  <2> QED BY <1>2, <1>4, <1>9, <2>1, <2>2, SubSeqProperties
<1>20. Grows(log, saved.sessions, log', saved'.sessions)
  <2>1. CASE k = 0
    <3>1. saved' = saved
      BY <1>1, <2>1
    <3>2. Len(saved.sessions) \in Nat
      BY <1>17, StateFacts
    <3> QED BY <1>10, <1>18, <1>19, <3>1, <3>2 DEF Grows
  <2>2. CASE k # 0
    <3>1. k \in DOMAIN saves
      BY <1>a, <1>b, <2>2
    <3>2. saved'.sessions = saves[k].sessions
      BY <1>1, <2>2 DEF IndexOf
    <3>3. Grows(log, saved.sessions, saves[k].log, saves[k].sessions)
      BY <1>17, <3>1 DEF SavesSound, Follows
    <3> QED BY <1>10, <1>18, <1>19, <3>2, <3>3 DEF Grows
  <2> QED BY <2>1, <2>2
<1> QED BY <1>16, <1>20 DEF Onward

LEMMA DoesSound ==
    ASSUME SessionsInv, NEW P, Before(P), NEW S, Reached(P, S),
           NEW saves \in Seq(SStates), SavesSound(P, saves, S),
           NEW T \in Turns, T.previous \in 0 .. Len(S.sessions), Does(saves, S, T)
    PROVE  Onward
<1>0. Kept(S) /\ Placed(S) /\ S.session # None /\ Follows(P, S)
  BY DEF Reached
<1>1. CASE Dies(saves, S)
  BY <1>0, <1>1, DiesSound
<1>2. CASE /\ log' = S.log /\ mem' = ManagerOf(S)
           /\ saved' = IndexSaved(saves)
           /\ turn' = T
  <2>1. saved' = IndexOf(S)
    BY <1>2 DEF SavesSound
  <2>2. S \in SStates /\ S.log \in Seq(EventAt)
    BY <1>0, StateFacts
  <2>3. Now' = S
    BY <1>2, <2>2 DEF Now, ManagerOf, SStates
  <2>4. mem' \in Manager /\ saved' \in Index
    BY <1>2, <2>1, <2>2 DEF ManagerOf, Manager, IndexOf, Index, SStates
  <2>5. mem'.sessions = S.sessions /\ IndexOf(mem') = IndexOf(S)
    BY <1>2 DEF ManagerOf, IndexOf
  <2>6. Sound(Len(log'), saved'.threads, saved'.sessions)
    BY <1>0, <1>2, <2>1 DEF IndexOf, Kept
  <2>7. SessionsTypeOK'
    BY <1>2, <2>2, <2>4 DEF SessionsTypeOK, Turns
  <2>8. IndexCurrent'
    BY <2>1, <2>5 DEF IndexCurrent
  <2>9. Kept(Now') /\ Placed(Now') /\ (Now').session # None
    BY <1>0, <2>3
  <2>10. (Up => Kept(Now) /\ Placed(Now) /\ Now.session # None)'
    BY <2>9 DEF Kept, Placed, Now
  <2>11. turn'.previous \in 0 .. Len(mem'.sessions)
    BY <1>2, <2>5
  <2>12. SessionsInv'
    BY <2>6, <2>7, <2>8, <2>10, <2>11 DEF SessionsInv
  <2>13. Grows(log, saved.sessions, log', saved'.sessions)
    BY <1>0, <1>2, <2>1 DEF Before, Follows, IndexOf
  <2> QED BY <2>12, <2>13 DEF Onward
<1> QED BY <1>1, <1>2 DEF Does

LEMMA NoSave ==
    ASSUME NEW P, NEW S, IndexOf(S) = saved
    PROVE  <<>> \in Seq(SStates) /\ SavesSound(P, <<>>, S)
BY EmptySeq DEF SavesSound, IndexSaved

LEMMA OneSave ==
    ASSUME NEW P, NEW S, NEW A, Reached(P, A), Len(A.log) <= Len(S.log), IndexOf(S) = IndexOf(A)
    PROVE  <<A>> \in Seq(SStates) /\ SavesSound(P, <<A>>, S)
<1>1. A \in SStates /\ Kept(A) /\ Follows(P, A)
  BY StateFacts DEF Reached
<1>2. PICK saves : saves = <<A>>
  OBVIOUS
<1>3. saves \in Seq(SStates) /\ saves # <<>> /\ Len(saves) = 1 /\ DOMAIN saves = {1} /\ saves[1] = A
  BY <1>1, <1>2
<1>4. IndexSaved(saves) = IndexOf(A)
  BY <1>3 DEF IndexSaved, Last
<1> QED BY <1>1, <1>2, <1>3, <1>4 DEF SavesSound

LEMMA TwoSaves ==
    ASSUME NEW P, NEW S, NEW A, NEW B, Reached(P, A), Reached(P, B),
           Len(A.log) <= Len(S.log), Len(B.log) <= Len(S.log), IndexOf(S) = IndexOf(B)
    PROVE  <<A, B>> \in Seq(SStates) /\ SavesSound(P, <<A, B>>, S)
<1>1. A \in SStates /\ B \in SStates /\ Kept(A) /\ Kept(B) /\ Follows(P, A) /\ Follows(P, B)
  BY StateFacts DEF Reached
<1>2. PICK saves : saves = <<A, B>>
  OBVIOUS
<1>3. /\ saves \in Seq(SStates) /\ saves # <<>> /\ Len(saves) = 2 /\ DOMAIN saves = {1, 2}
      /\ saves[1] = A /\ saves[2] = B
  BY <1>1, <1>2
<1>4. IndexSaved(saves) = IndexOf(B)
  BY <1>3 DEF IndexSaved, Last
<1> QED BY <1>1, <1>2, <1>3, <1>4 DEF SavesSound

LEMMA ThreeSaves ==
    ASSUME NEW P, NEW S, NEW A, NEW B, NEW C, Reached(P, A), Reached(P, B), Reached(P, C),
           Len(A.log) <= Len(S.log), Len(B.log) <= Len(S.log), Len(C.log) <= Len(S.log),
           IndexOf(S) = IndexOf(C)
    PROVE  <<A, B, C>> \in Seq(SStates) /\ SavesSound(P, <<A, B, C>>, S)
<1>1. /\ A \in SStates /\ B \in SStates /\ C \in SStates /\ Kept(A) /\ Kept(B) /\ Kept(C)
      /\ Follows(P, A) /\ Follows(P, B) /\ Follows(P, C)
  BY StateFacts DEF Reached
<1>2. PICK saves : saves = <<A, B, C>>
  OBVIOUS
<1>3. /\ saves \in Seq(SStates) /\ saves # <<>> /\ Len(saves) = 3 /\ DOMAIN saves = {1, 2, 3}
      /\ saves[1] = A /\ saves[2] = B /\ saves[3] = C
  BY <1>1, <1>2
<1>4. IndexSaved(saves) = IndexOf(C)
  BY <1>3 DEF IndexSaved, Last
<1> QED BY <1>1, <1>2, <1>3, <1>4 DEF SavesSound

LEMMA NowFacts ==
    ASSUME SessionsInv, Up
    PROVE  /\ Kept(Now) /\ Placed(Now) /\ Now.session # None /\ Reached(Now, Now)
           /\ Now.log = log /\ Now.sessions = mem.sessions /\ Now.session = mem.session
           /\ Now.thread = mem.thread /\ Now.threads = mem.threads
           /\ IndexOf(Now) = saved /\ turn \in Turns
           /\ turn.previous \in 0 .. Len(Now.sessions)
           /\ \A id \in Ids : id \in DOMAIN Now.sessions
           /\ Before(Now)
<1>1. Kept(Now) /\ Placed(Now) /\ Now.session # None
  BY DEF SessionsInv
<1>2. /\ Now.log = log /\ Now.sessions = mem.sessions /\ Now.session = mem.session
      /\ Now.thread = mem.thread /\ Now.threads = mem.threads
  BY DEF Now
<1>3. IndexOf(Now) = saved
  BY <1>2 DEF SessionsInv, IndexCurrent, IndexOf
<1>4. turn \in Turns
  BY DEF SessionsInv, SessionsTypeOK, Turns
<1>5. turn.previous \in 0 .. Len(Now.sessions)
  BY <1>2 DEF SessionsInv
<1>6. \A id \in Ids : id \in DOMAIN Now.sessions
  BY <1>2 DEF Ids
<1>7. Before(Now)
  BY <1>1, <1>2, <1>3 DEF Before, IndexOf
<1> QED BY <1>1, <1>2, <1>3, <1>4, <1>5, <1>6, <1>7, ReachedItself

LEMMA ReachedFacts ==
    ASSUME NEW S, Kept(S), NEW T, Reached(S, T)
    PROVE  /\ Kept(T) /\ Placed(T) /\ T.session # None /\ T.session \in DOMAIN T.sessions
           /\ Len(T.log) \in Nat /\ Len(T.log) <= Len(T.log) /\ T.thread \in Nat /\ T.session \in Nat
           /\ \A n \in 0 .. Len(S.sessions) : n \in 0 .. Len(T.sessions)
           /\ \A id \in DOMAIN S.sessions : id \in DOMAIN T.sessions
<1>1. Kept(T) /\ Placed(T) /\ T.session # None
  BY DEF Reached
<1>2. T.session \in DOMAIN T.sessions
  BY <1>1, ActiveHasThread
<1>3. Len(T.log) \in Nat /\ T.thread \in Nat /\ T.session \in Nat
  BY <1>1, StateFacts
<1>4. \A n \in 0 .. Len(S.sessions) : n \in 0 .. Len(T.sessions)
  BY <1>1, StateFacts, FollowsFacts DEF Reached
<1>5. \A id \in DOMAIN S.sessions : id \in DOMAIN T.sessions
  BY <1>1, StateFacts, FollowsFacts DEF Reached
<1>6. Len(T.log) <= Len(T.log)
  BY <1>3
<1> QED BY <1>1, <1>2, <1>3, <1>4, <1>5, <1>6

LEMMA MovesSound ==
    ASSUME SessionsInv, Up, NEW S, Reached(Now, S),
           NEW saves \in Seq(SStates), SavesSound(Now, saves, S), Moves(saves, S)
    PROVE  Onward
<1> DEFINE T == IF turn = Quiet \/ ~Moved(S) THEN turn
                ELSE [turn EXCEPT !.moved = TRUE, !.session = None]
<1>1. Does(saves, S, T)
  BY DEF Moves
<1>2. T \in Turns /\ T.previous = turn.previous
  BY NowFacts DEF Turns, None
<1> HIDE DEF T
<1>3. Before(Now) /\ T.previous \in 0 .. Len(S.sessions)
  BY <1>2, NowFacts, ReachedFacts
<1> QED BY <1>1, <1>2, <1>3, DoesSound

-----------------------------------------------------------------------------
(* Commands.                                                               *)

\* A command leads to a sound record, and saves sound ones on its way.
Commanded ==
    \E S : \E saves \in Seq(SStates) :
        Reached(Now, S) /\ SavesSound(Now, saves, S) /\ Moves(saves, S)

\* A command that saves once, at its end.
LEMMA MovesOnce ==
    ASSUME SessionsInv, Up, NEW S, Reached(Now, S), Moves(<<S>>, S)
    PROVE  Commanded
<1>1. Len(S.log) <= Len(S.log)
  BY NowFacts, ReachedFacts
<1>2. <<S>> \in Seq(SStates) /\ SavesSound(Now, <<S>>, S)
  BY <1>1, OneSave
<1>3. PICK saves : saves = <<S>>
  OBVIOUS
<1> QED BY <1>2, <1>3 DEF Commanded

LEMMA SwitchesSound ==
    ASSUME SessionsInv, Up, NEW id \in Ids,
           SwitchSession(id) \/ HistorySwitch(id) \/ SwitchTo(id)
    PROVE  Commanded
<1>1. id \in DOMAIN Now.sessions /\ Kept(Now) /\ Placed(Now)
  BY NowFacts
<1>2. CASE SwitchSession(id)
  <2>1. PICK S : S = SwitchToExisting(Now, id, "same-thread")
    OBVIOUS
  <2>2. Reached(Now, S)
    BY <1>1, <2>1, SwitchKept
  <2>3. Moves(<<S>>, S)
    BY <1>2, <2>1 DEF SwitchSession
  <2> QED BY <2>2, <2>3, MovesOnce
<1>3. CASE HistorySwitch(id)
  <2>1. PICK c : c = SwitchTarget(Now, id)
    OBVIOUS
  <2>2. PICK S : S = SwitchToExisting(Now, c, "same-thread")
    OBVIOUS
  <2>3. c \in DOMAIN Now.sessions
    BY <1>1, <2>1, ContinuationType DEF SwitchTarget
  <2>4. Reached(Now, S)
    BY <1>1, <2>2, <2>3, SwitchKept
  <2>5. Moves(<<S>>, S)
    BY <1>3, <2>1, <2>2 DEF HistorySwitch
  <2> QED BY <2>4, <2>5, MovesOnce
<1>4. CASE SwitchTo(id)
  <2>1. PICK S : S = Activate(Now, id)
    OBVIOUS
  <2>2. Reached(Now, S)
    BY <1>1, <2>1, ActivateKept
  <2>3. Moves(<<S>>, S)
    BY <1>4, <2>1 DEF SwitchTo
  <2> QED BY <2>2, <2>3, MovesOnce
<1> QED BY <1>2, <1>3, <1>4

LEMMA ForksSound ==
    ASSUME SessionsInv, Up, NEW id \in Ids, HistoryJump(id) \/ HistoryFork(id)
    PROVE  Commanded
<1>1. id \in DOMAIN Now.sessions /\ Kept(Now) /\ Placed(Now)
  BY NowFacts
<1>2. CASE HistoryJump(id) /\ IsOpen(Now, id)
  <2>1. PICK S : S = Jump(Now, id)
    OBVIOUS
  <2>2. Reached(Now, S)
    BY <1>1, <2>1, JumpKept
  <2>3. Moves(<<S>>, S)
    BY <1>2, <2>1 DEF HistoryJump
  <2> QED BY <2>2, <2>3, MovesOnce
<1>3. CASE HistoryJump(id) /\ ~IsOpen(Now, id)
  <2>1. PICK S : S = Jump(Now, id)
    OBVIOUS
  <2>2. PICK B : B = ForkBegun(Now, id, TRUE)
    OBVIOUS
  <2>3. PICK F : F = ForkFrom(Now, id, TRUE)
    OBVIOUS
  <2>4. Reached(Now, S) /\ Len(F.log) <= Len(S.log) /\ IndexOf(S) = IndexOf(F)
    BY <1>1, <1>3, <2>1, <2>3, JumpKept
  <2>5. Reached(Now, F) /\ Len(B.log) <= Len(F.log)
    BY <1>1, <2>2, <2>3, ForkFromKept
  <2>6. Reached(Now, B)
    BY <1>1, <2>2, ForkBegunKept
  <2>7. Len(B.log) <= Len(S.log)
    BY <1>1, <2>4, <2>5, <2>6, ReachedFacts
  <2>8. PICK saves : saves = <<B, F>>
    OBVIOUS
  <2>9. saves \in Seq(SStates) /\ SavesSound(Now, saves, S)
    BY <2>4, <2>5, <2>6, <2>7, <2>8, TwoSaves
  <2>10. Moves(saves, S)
    BY <1>3, <2>1, <2>2, <2>3, <2>8 DEF HistoryJump
  <2> QED BY <2>4, <2>9, <2>10 DEF Commanded
<1>4. CASE HistoryFork(id)
  <2>2. PICK B : B = ForkBegun(Now, id, FALSE)
    OBVIOUS
  <2>3. PICK F : F = ForkFrom(Now, id, FALSE)
    OBVIOUS
  <2>5. Reached(Now, F) /\ Len(B.log) <= Len(F.log)
    BY <1>1, <2>2, <2>3, ForkFromKept
  <2>6. Reached(Now, B)
    BY <1>1, <2>2, ForkBegunKept
  <2>7. Len(F.log) <= Len(F.log)
    BY <1>1, <2>5, ReachedFacts
  <2>8. PICK saves : saves = <<B, F>>
    OBVIOUS
  <2>9. saves \in Seq(SStates) /\ SavesSound(Now, saves, F)
    BY <2>5, <2>6, <2>7, <2>8, TwoSaves
  <2>10. Moves(saves, F)
    BY <1>4, <2>2, <2>3, <2>8 DEF HistoryFork
  <2> QED BY <2>5, <2>9, <2>10 DEF Commanded
<1> QED BY <1>2, <1>3, <1>4

LEMMA NewOnesSound ==
    ASSUME SessionsInv, Up, (\E event \in DOMAIN log : Rewind(event)) \/ NewSession \/ SplitSession
    PROVE  Commanded
<1>1. Kept(Now) /\ Placed(Now) /\ Now.session # None /\ Now.log = log
  BY NowFacts
<1>2. ASSUME NEW event \in DOMAIN log, Rewind(event) PROVE Commanded
  <2>1. PICK S : S = ForkAt(Now, event)
    OBVIOUS
  <2>2. Reached(Now, S)
    BY <1>1, <2>1, ForkAtKept
  <2>3. Moves(<<S>>, S)
    BY <1>2, <2>1 DEF Rewind
  <2> QED BY <2>2, <2>3, MovesOnce
<1>3. CASE NewSession
  <2>1. PICK S : S = CreateSession(Now, None, Head1(Now), None, TRUE)
    OBVIOUS
  <2>2. None \in 0 .. Now.threads /\ Head1(Now) \in 0 .. Len(Now.log) /\ None \in 0 .. Len(Now.sessions)
    BY <1>1, StateFacts DEF None, Head1
  <2>3. Reached(Now, S)
    BY <1>1, <2>1, <2>2, CreateKept
  <2>4. Moves(<<S>>, S)
    BY <1>3, <2>1 DEF NewSession
  <2> QED BY <2>3, <2>4, MovesOnce
<1>4. CASE SplitSession
  <2>1. PICK S : S = Split(Now)
    OBVIOUS
  <2>2. PICK C : C = CreateSession(Now, None, S.sessions[S.session].start, None, TRUE)
    OBVIOUS
  <2>3. Reached(Now, S) /\ Reached(Now, C) /\ Len(C.log) <= Len(S.log) /\ IndexOf(S) = IndexOf(C)
    BY <1>1, <2>1, <2>2, SplitKept
  <2>4. PICK saves : saves = <<C>>
    OBVIOUS
  <2>5. saves \in Seq(SStates) /\ SavesSound(Now, saves, S)
    BY <2>3, <2>4, OneSave
  <2>6. Moves(saves, S)
    BY <1>4, <2>1, <2>2, <2>4 DEF SplitSession
  <2> QED BY <2>3, <2>5, <2>6 DEF Commanded
<1> QED BY <1>2, <1>3, <1>4

LEMMA CommandsSound == ASSUME SessionsInv, Up, Commands PROVE Commanded
BY SwitchesSound, ForksSound, NewOnesSound DEF Commands

-----------------------------------------------------------------------------
(* Prompts and dispatches.                                                 *)

LEMMA AskedKept ==
    ASSUME NEW S, Kept(S), NEW T, Reached(S, T)
    PROVE  Reached(S, Asked(T)) /\ Len(T.log) <= Len(Asked(T).log) /\ IndexOf(Asked(T)) = IndexOf(T)
<1>1. T.thread \in Nat /\ Len(T.log) \in Nat
  BY ReachedFacts
<1> DEFINE R == Logged(T, "message", T.thread)
<1>2. /\ Reached(S, R) /\ Len(R.log) = Len(T.log) + 1
      /\ R.threads = T.threads /\ R.sessions = T.sessions
  BY <1>1, Boundary, LoggedReached
<1> HIDE DEF R
<1>3. Len(T.log) <= Len(R.log) /\ IndexOf(R) = IndexOf(T)
  BY <1>1, <1>2 DEF IndexOf
<1> QED BY <1>2, <1>3 DEF Asked, R

LEMMA TurnType ==
    ASSUME NEW kind \in {"user", "new", "pinned"}, NEW S, S.session \in Nat,
           NEW previous \in Nat
    PROVE  Turn(kind, S, previous) \in Turns /\ Turn(kind, S, previous).previous = previous
BY DEF Turn, Turns

LEMMA PromptSound == ASSUME SessionsInv, Up, Prompt PROVE Onward
<1>1. Kept(Now) /\ Placed(Now) /\ Now.session # None
  BY NowFacts
<1>2. PICK W, B : W = Writable(Now) /\ B = WritableBegun(Now)
  OBVIOUS
<1>3. Reached(Now, W) /\ Reached(Now, B) /\ Len(B.log) <= Len(W.log) /\ Len(W.log) <= Len(W.log)
  BY <1>1, <1>2, WritableKept, ReachedFacts
<1>4. PICK saves : saves = <<B, W>>
  OBVIOUS
<1>5. saves \in Seq(SStates) /\ SavesSound(Now, saves, W)
  BY <1>3, <1>4, TwoSaves
<1>6. PICK T : T = Turn("user", W, None)
  OBVIOUS
<1>7. T \in Turns /\ T.previous = 0
  BY <1>1, <1>3, <1>6, ReachedFacts, TurnType DEF None
<1>8. Does(saves, W, T)
  BY <1>2, <1>4, <1>6 DEF Prompt
<1>9. Before(Now) /\ T.previous \in 0 .. Len(W.sessions)
  BY <1>1, <1>3, <1>7, NowFacts, ReachedFacts, StateFacts
<1> QED BY <1>3, <1>5, <1>7, <1>8, <1>9, DoesSound

LEMMA AskSound == ASSUME SessionsInv, Up, Ask PROVE Onward
<1>1. PICK S : S = Asked(Now)
  OBVIOUS
<1>2. Reached(Now, S) /\ IndexOf(S) = saved
  BY <1>1, NowFacts, AskedKept
<1>3. PICK saves : saves = <<>>
  OBVIOUS
<1>4. saves \in Seq(SStates) /\ SavesSound(Now, saves, S)
  BY <1>2, <1>3, NoSave
<1>5. PICK T : T = [turn EXCEPT !.asked = TRUE]
  OBVIOUS
<1>6. Does(saves, S, T)
  BY <1>1, <1>3, <1>5 DEF Ask
<1>7. Before(Now) /\ T \in Turns /\ T.previous = turn.previous
  BY <1>5, NowFacts DEF Turns
<1>8. T.previous \in 0 .. Len(S.sessions)
  BY <1>2, <1>7, NowFacts, ReachedFacts
<1> QED BY <1>2, <1>4, <1>6, <1>7, <1>8, DoesSound

\* A death between two steps.
LEMMA KilledSound == ASSUME SessionsInv, Killed PROVE Onward
<1>1. mem' = Down /\ turn' = Quiet /\ log' = log /\ saved' = saved
  BY DEF Killed
<1>2. SessionsTypeOK'
  BY <1>1, DownState DEF SessionsInv, SessionsTypeOK, Turns
<1>3. SessionsInv'
  BY <1>1, <1>2, DownState DEF SessionsInv, Up, IndexCurrent
<1>4. Len(log) \in Nat /\ Len(saved.sessions) \in Nat
  BY DEF SessionsInv, SessionsTypeOK, Index
<1> QED BY <1>1, <1>3, <1>4 DEF Onward, Grows

LEMMA MessageSound == ASSUME SessionsInv, Up, Message PROVE Onward
<1>1. PICK S : S = Asked(Now)
  OBVIOUS
<1>2. Reached(Now, S) /\ IndexOf(S) = saved
  BY <1>1, NowFacts, AskedKept
<1>3. PICK saves : saves = <<>>
  OBVIOUS
<1>4. saves \in Seq(SStates) /\ SavesSound(Now, saves, S)
  BY <1>2, <1>3, NoSave
<1>5. Does(saves, S, turn)
  BY <1>1, <1>3 DEF Message
<1>6. Before(Now) /\ turn \in Turns /\ turn.previous \in 0 .. Len(S.sessions)
  BY <1>2, NowFacts, ReachedFacts
<1> QED BY <1>2, <1>4, <1>5, <1>6, DoesSound

\* Two methods in a row.
LEMMA ReachedTwice ==
    ASSUME NEW S, Kept(S), NEW T, Reached(S, T), NEW U, Reached(T, U)
    PROVE  Reached(S, U) /\ Len(T.log) <= Len(U.log)
BY ReachedOn, FollowsFacts DEF Reached

LEMMA RestoredKept ==
    ASSUME NEW S, Kept(S), Placed(S), S.session # None, NEW kind,
           NEW previous \in 0 .. Len(S.sessions)
    PROVE  LET R == Restored(S, kind, previous)
           IN  /\ Reached(S, R)
               /\ IF kind \in {"new", "pinned"} /\ previous # None THEN R.session = previous
                  ELSE R = S
               /\ \A i \in DOMAIN S.sessions :
                     /\ i = previous => R.sessions[i].end = S.sessions[i].end
                     /\ Open(S.sessions[i]) => R.sessions[i].end \in {HEAD, Len(S.log) + 1}
               /\ \/ R.log = S.log
                  \/ Len(R.log) = Len(S.log) + 1 /\ R.log[Len(R.log)].type = "boundary"
<1>1. previous # None => previous \in DOMAIN S.sessions
  BY StateFacts DEF None
<1>2. PICK how : how = (IF kind = "new" THEN "always" ELSE "never")
  OBVIOUS
<1>3. PICK R : R = Restored(S, kind, previous)
  OBVIOUS
<1>4. CASE kind \in {"new", "pinned"} /\ previous # None
  <2>1. R = SwitchToExisting(S, previous, how)
    BY <1>2, <1>3, <1>4 DEF Restored
  <2>2. /\ Reached(S, R) /\ R.session = previous
        /\ \A i \in DOMAIN S.sessions :
              i # S.session \/ i = previous => R.sessions[i].end = S.sessions[i].end
        /\ \A i \in DOMAIN S.sessions :
              Open(S.sessions[i]) => R.sessions[i].end \in {HEAD, Len(S.log) + 1}
        /\ \/ R.log = S.log
           \/ Len(R.log) = Len(S.log) + 1 /\ R.log[Len(R.log)].type = "boundary"
    BY <1>1, <1>4, <2>1, SwitchKept
  <2> QED BY <1>3, <1>4, <2>2
<1>5. CASE ~(kind \in {"new", "pinned"} /\ previous # None)
  <2>1. R = S
    BY <1>3, <1>5 DEF Restored
  <2> QED BY <1>3, <1>5, <2>1, ReachedItself DEF Open
<1> QED BY <1>4, <1>5

LEMMA DispatchSound ==
    ASSUME SessionsInv, Up, NEW kind \in {"new", "pinned"}, NEW id,
           kind = "pinned" => id \in Ids, Dispatch(kind, id)
    PROVE  Onward
<1>1. Kept(Now) /\ Placed(Now) /\ Now.session # None /\ Now.session = mem.session
  BY NowFacts
<1>2. PICK S : S = Target(kind, id)
  OBVIOUS
<1>3. Reached(Now, S)
  <2>1. CASE kind = "new"
    BY <1>1, <1>2, <2>1, CreateThreadKept DEF Target
  <2>2. CASE kind = "pinned"
    <3>1. id \in DOMAIN Now.sessions
      BY <2>2, NowFacts
    <3>2. S = SwitchToExisting(Now, id, "never")
      BY <1>2, <2>2 DEF Target
    <3> QED BY <1>1, <3>1, <3>2, SwitchKept
  <2> QED BY <2>1, <2>2
<1>4. PICK previous : previous = mem.session
  OBVIOUS
<1>5. previous \in Nat /\ previous \in 0 .. Len(Now.sessions) /\ previous \in 0 .. Len(S.sessions)
  <2>1. previous \in 0 .. Len(Now.sessions)
    BY <1>1, <1>4, StateFacts
  <2>2. Len(Now.sessions) \in Nat
    BY <1>1, StateFacts
  <2> QED BY <1>1, <1>3, <2>1, <2>2, ReachedFacts
<1>6. Kept(S) /\ Placed(S) /\ S.session # None
  BY <1>3 DEF Reached
<1>7. PICK W, B : W = Writable(S) /\ B = WritableBegun(S)
  OBVIOUS
<1>8. PICK R : R = Restored(S, kind, previous)
  OBVIOUS
<1>9. CASE turn = Quiet
  <2>1. Reached(S, W) /\ Reached(S, B) /\ Len(B.log) <= Len(W.log)
    BY <1>6, <1>7, WritableKept
  <2>2. Reached(Now, W) /\ Len(S.log) <= Len(W.log) /\ Reached(Now, B)
    BY <1>1, <1>3, <2>1, ReachedTwice
  <2>3. Len(W.log) <= Len(W.log)
    BY <1>1, <2>2, ReachedFacts
  <2>4. PICK saves : saves = <<S, B, W>>
    OBVIOUS
  <2>5. saves \in Seq(SStates) /\ SavesSound(Now, saves, W)
    BY <1>3, <2>1, <2>2, <2>3, <2>4, ThreeSaves
  <2>6. PICK T : T = Turn(kind, W, previous)
    OBVIOUS
  <2>7. T \in Turns /\ T.previous = previous
    BY <1>1, <1>5, <2>2, <2>6, ReachedFacts, TurnType
  <2>8. Does(saves, W, T)
    BY <1>2, <1>4, <1>7, <1>9, <2>4, <2>6 DEF Dispatch
  <2>9. Before(Now) /\ T.previous \in 0 .. Len(W.sessions)
    BY <1>1, <1>5, <2>2, <2>7, NowFacts, ReachedFacts
  <2> QED BY <2>2, <2>5, <2>7, <2>8, <2>9, DoesSound
<1>10. CASE turn # Quiet
  <2>1. Reached(S, R)
    BY <1>5, <1>6, <1>8, RestoredKept
  <2>2. Reached(Now, R) /\ Len(S.log) <= Len(R.log)
    BY <1>1, <1>3, <2>1, ReachedTwice
  <2>3. Len(R.log) <= Len(R.log)
    BY <1>1, <2>2, ReachedFacts
  <2>4. PICK saves : saves = <<S, R>>
    OBVIOUS
  <2>5. saves \in Seq(SStates) /\ SavesSound(Now, saves, R)
    BY <1>3, <2>2, <2>3, <2>4, TwoSaves
  <2>6. Does(saves, R, turn)
    BY <1>2, <1>4, <1>8, <1>10, <2>4 DEF Dispatch
  <2>7. /\ Before(Now) /\ turn \in Turns
        /\ turn.previous \in 0 .. Len(R.sessions)
    BY <1>1, <2>2, NowFacts, ReachedFacts
  <2> QED BY <2>2, <2>5, <2>6, <2>7, DoesSound
<1> QED BY <1>9, <1>10

LEMMA TurnEndsSound == ASSUME SessionsInv, Up, TurnEnds PROVE Onward
<1>1. Kept(Now) /\ Placed(Now) /\ Now.session # None /\ Reached(Now, Now) /\ mem.thread \in Nat
  BY NowFacts, StateFacts
<1>2. PICK answered \in {FALSE, turn.asked} :
         LET S == IF answered THEN Logged(Now, "reply", mem.thread) ELSE Now
             R == Restored(S, turn.kind, turn.previous)
         IN  Does(<<R>>, R, Quiet)
  BY DEF TurnEnds
<1>3. PICK S : S = IF answered THEN Logged(Now, "reply", mem.thread) ELSE Now
  OBVIOUS
<1>4. Reached(Now, S)
  BY <1>1, <1>3, Boundary, LoggedReached
<1>5. PICK R : R = Restored(S, turn.kind, turn.previous)
  OBVIOUS
<1>6. turn.previous \in 0 .. Len(S.sessions) /\ Kept(S) /\ Placed(S) /\ S.session # None
  BY <1>1, <1>4, NowFacts, ReachedFacts
<1>7. Reached(S, R)
  BY <1>5, <1>6, RestoredKept
<1>8. /\ Reached(Now, R) /\ Before(Now) /\ Len(R.log) <= Len(R.log)
      /\ 0 \in 0 .. Len(R.sessions)
  BY <1>1, <1>4, <1>6, <1>7, NowFacts, ReachedFacts, ReachedTwice, StateFacts
<1>9. PICK saves : saves = <<R>>
  OBVIOUS
<1>10. saves \in Seq(SStates) /\ SavesSound(Now, saves, R)
  BY <1>8, <1>9, OneSave
<1>11. Does(saves, R, Quiet)
  BY <1>2, <1>3, <1>5, <1>9
<1> QED BY <1>8, <1>10, <1>11, DownState, DoesSound

-----------------------------------------------------------------------------
(* Starts.                                                                 *)

LEMMA LoadedKept ==
    ASSUME SessionsInv
    PROVE  Kept(Loaded) /\ Placed(Loaded)
<1> DEFINE open == {i \in DOMAIN saved.sessions :
                       saved.sessions[i].thread = saved.threads /\ Open(saved.sessions[i])}
           b == Len(saved.sessions)
           m == Max({None} \cup open)
<1>1. /\ saved.sessions \in Seq(SessionAt) /\ saved.threads \in Nat /\ log \in Seq(EventAt)
      /\ Sound(Len(log), saved.threads, saved.sessions)
  BY DEF SessionsInv, SessionsTypeOK, Index
<1>2. b \in Nat /\ DOMAIN saved.sessions = 1 .. b
  BY <1>1
<1>3. Loaded = [log |-> log, threads |-> saved.threads, sessions |-> saved.sessions,
                thread |-> saved.threads, session |-> m]
  BY DEF Loaded
<1>4. \A i \in open : i \in 1 .. b /\ saved.sessions[i].thread = saved.threads
  BY <1>2
<1> HIDE DEF open, b
<1>5. {None} \cup open \in SUBSET (0 .. b) /\ {None} \cup open # {}
  BY <1>2, <1>4 DEF None
<1>6. m \in {None} \cup open
  BY <1>2, <1>5, GreatestOf
<1> HIDE DEF m
<1>7. m \in 0 .. b /\ m \in Nat
  BY <1>2, <1>5, <1>6
<1>8. Loaded \in SStates
  BY <1>1, <1>3, <1>7 DEF SStates
<1>9. Kept(Loaded)
  BY <1>1, <1>3, <1>7, <1>8 DEF Kept, b
<1>10. Placed(Loaded)
  BY <1>3, <1>4, <1>6 DEF Placed
<1> QED BY <1>9, <1>10

LEMMA BeginsSound ==
    ASSUME SessionsInv, NEW P, Before(P), NEW S, Kept(S), Placed(S), Follows(P, S),
           NEW saves \in Seq(SStates),
           \A k \in DOMAIN saves :
              Kept(saves[k]) /\ Follows(P, saves[k]) /\ Len(saves[k].log) <= Len(S.log),
           Begins(saves, S)
    PROVE  Onward
<1>1. PICK A : A = GetActive(S)
  OBVIOUS
<1>0. Kept(P)
  BY DEF Before
<1>2. Reached(S, A) /\ Reached(P, A)
  BY <1>0, <1>1, GetActiveKept, ReachedOn
<1>3. /\ Kept(A) /\ Placed(A) /\ A.session # None /\ Len(A.log) \in Nat /\ Len(A.log) <= Len(A.log)
      /\ 0 \in 0 .. Len(A.sessions) /\ A \in SStates
  BY <1>2, ReachedFacts, StateFacts
<1>4. Len(S.log) <= Len(A.log) /\ Len(S.log) \in Nat
  BY <1>2, StateFacts, FollowsFacts DEF Reached
<1>5. PICK more : more = Append(saves, A)
  OBVIOUS
<1>6. PICK n \in Nat : n = Len(saves)
  OBVIOUS
<1>7. /\ more \in Seq(SStates) /\ DOMAIN more = 1 .. (n + 1) /\ Len(more) = n + 1
      /\ more[n + 1] = A /\ \A k \in 1 .. n : more[k] = saves[k]
  BY <1>3, <1>5, <1>6, AppendProperties
<1>8. ASSUME NEW k \in DOMAIN more
      PROVE  Kept(more[k]) /\ Follows(P, more[k]) /\ Len(more[k].log) <= Len(A.log)
  <2>1. CASE k = n + 1
    BY <1>2, <1>3, <1>7, <2>1 DEF Reached
  <2>2. CASE k # n + 1
    <3>1. k \in 1 .. n
      BY <1>7, <2>2
    <3>2. Kept(saves[k]) /\ Follows(P, saves[k]) /\ Len(saves[k].log) <= Len(S.log)
      BY <1>6, <3>1
    <3>3. Len(saves[k].log) \in Nat
      BY <3>2, StateFacts
    <3>4. Len(saves[k].log) <= Len(A.log)
      BY <1>3, <1>4, <3>2, <3>3
    <3> QED BY <1>7, <3>1, <3>2, <3>4
  <2> QED BY <2>1, <2>2
<1>9. IndexSaved(more) = IndexOf(A)
  <2>1. more # <<>>
    BY <1>6, <1>7
  <2> QED BY <1>7, <2>1 DEF IndexSaved, Last
<1>10. SavesSound(P, more, A)
  BY <1>8, <1>9 DEF SavesSound
<1>11. Does(more, A, Quiet)
  BY <1>1, <1>5 DEF Begins
<1> QED BY <1>2, <1>3, <1>7, <1>10, <1>11, DownState, DoesSound

LEMMA StartsSound == ASSUME SessionsInv, Starts PROVE Onward
<1>1. PICK L : L = Loaded
  OBVIOUS
<1>2. Kept(L) /\ Placed(L) /\ L.sessions = saved.sessions /\ Before(L) /\ Follows(L, L)
  BY <1>1, LoadedKept, FollowsItself DEF Loaded, Before
<1>3. CASE StartPlain
  <2>1. PICK saves : saves = <<>>
    OBVIOUS
  <2>2. saves \in Seq(SStates) /\ \A k \in DOMAIN saves : Kept(saves[k]) /\ Follows(L, saves[k]) /\ Len(saves[k].log) <= Len(L.log)
    BY <2>1
  <2>3. Begins(saves, L)
    BY <1>1, <1>3, <2>1 DEF StartPlain
  <2> QED BY <1>2, <2>2, <2>3, BeginsSound
<1>4. CASE StartClone
  <2>1. PICK C : C = CreateSession(L, None, Head1(L), None, TRUE)
    OBVIOUS
  <2>2. None \in 0 .. L.threads /\ Head1(L) \in 0 .. Len(L.log) /\ None \in 0 .. Len(L.sessions)
    BY <1>2, StateFacts DEF None, Head1
  <2>3. Reached(L, C)
    BY <1>2, <2>1, <2>2, CreateKept
  <2>4. PICK D : D = Logged(C, "boundary", C.thread)
    OBVIOUS
  <2>5. PICK E : E = Logged(D, "message", None)
    OBVIOUS
  <2>6. PICK S : S = Logged(E, "reply", None)
    OBVIOUS
  <2>7. Reached(L, D) /\ Len(D.log) = Len(C.log) + 1
    BY <1>2, <2>3, <2>4, Boundary, LoggedReached, ReachedFacts
  <2>8. None \in Nat
    BY DEF None
  <2>9. Reached(L, E) /\ Len(E.log) = Len(D.log) + 1
    <3>1. Kept(L) /\ Reached(L, D) /\ "message" \in Types
      BY <1>2, <2>7, Boundary
    <3> QED BY <3>1, <2>5, <2>8, LoggedReached
  <2>10. Reached(L, S) /\ Len(S.log) = Len(E.log) + 1
    BY <1>2, <2>6, <2>8, <2>9, Boundary, LoggedReached
  <2>11. Len(C.log) <= Len(S.log)
    BY <1>2, <2>3, <2>7, <2>9, <2>10, ReachedFacts
  <2>12. PICK saves : saves = <<C>>
    OBVIOUS
  <2>13. saves \in Seq(SStates) /\ \A k \in DOMAIN saves : Kept(saves[k]) /\ Follows(L, saves[k]) /\ Len(saves[k].log) <= Len(S.log)
    <3>1. Kept(C) /\ C \in SStates /\ Follows(L, C)
      BY <2>3, StateFacts DEF Reached
    <3> QED BY <2>11, <2>12, <3>1
  <2>14. Begins(saves, S)
    BY <1>1, <1>4, <2>1, <2>4, <2>5, <2>6, <2>12 DEF StartClone
  <2> QED BY <1>2, <2>10, <2>13, <2>14, BeginsSound DEF Reached
<1>5. ASSUME NEW id \in DOMAIN saved.sessions, StartIn(id) PROVE Onward
  <2>1. PICK S : S = Activate(L, id)
    OBVIOUS
  <2>2. Reached(L, S)
    BY <1>2, <2>1, ActivateKept
  <2>3. PICK saves : saves = <<S>>
    OBVIOUS
  <2>4. Kept(S) /\ S \in SStates /\ Follows(L, S) /\ Len(S.log) <= Len(S.log)
    BY <1>2, <2>2, StateFacts, ReachedFacts DEF Reached
  <2>5. saves \in Seq(SStates) /\ \A k \in DOMAIN saves : Kept(saves[k]) /\ Follows(L, saves[k]) /\ Len(saves[k].log) <= Len(S.log)
    BY <2>3, <2>4
  <2>6. Begins(saves, S)
    BY <1>1, <1>5, <2>1, <2>3 DEF StartIn
  <2> QED BY <1>2, <2>2, <2>5, <2>6, BeginsSound DEF Reached
<1>6. ASSUME NEW id \in DOMAIN saved.sessions, StartFork(id) PROVE Onward
  <2>1. PICK B : B = ForkBegun(L, id, TRUE)
    OBVIOUS
  <2>2. PICK F : F = ForkFrom(L, id, TRUE)
    OBVIOUS
  <2>3. Reached(L, B) /\ Reached(L, F) /\ Len(B.log) <= Len(F.log)
    BY <1>2, <2>1, <2>2, ForkBegunKept, ForkFromKept
  <2>4. PICK saves : saves = <<B, F>>
    OBVIOUS
  <2>5. /\ Kept(B) /\ B \in SStates /\ Follows(L, B)
        /\ Kept(F) /\ F \in SStates /\ Follows(L, F) /\ Len(F.log) <= Len(F.log)
    BY <1>2, <2>3, StateFacts, ReachedFacts DEF Reached
  <2>6. saves \in Seq(SStates) /\ \A k \in DOMAIN saves : Kept(saves[k]) /\ Follows(L, saves[k]) /\ Len(saves[k].log) <= Len(F.log)
    BY <2>3, <2>4, <2>5
  <2>7. Begins(saves, F)
    BY <1>1, <1>6, <2>1, <2>2, <2>4 DEF StartFork
  <2> QED BY <1>2, <2>3, <2>6, <2>7, BeginsSound DEF Reached
<1> QED BY <1>3, <1>4, <1>5, <1>6 DEF Starts

-----------------------------------------------------------------------------
(* The theorems.                                                           *)

LEMMA SessionsInitSound == SessionsInit => SessionsInv
<1> SUFFICES ASSUME SessionsInit PROVE SessionsInv
  OBVIOUS
<1>1. <<>> \in Seq(EventAt) /\ <<>> \in Seq(SessionAt) /\ DOMAIN <<>> = {}
  BY EmptySeq
<1>2. SessionsTypeOK
  BY <1>1, DownState DEF SessionsInit, SessionsTypeOK, Index, Turns
<1>3. Sound(Len(log), saved.threads, saved.sessions)
  BY <1>1 DEF SessionsInit, Sound
<1>4. ~Up
  BY DEF SessionsInit, Up
<1>5. turn.previous \in 0 .. Len(mem.sessions)
  BY DownState DEF SessionsInit
<1> QED BY <1>2, <1>3, <1>4, <1>5 DEF SessionsInv, IndexCurrent

LEMMA SessionsStep == SessionsInv /\ [SessionsNext]_svars => Onward
<1> SUFFICES ASSUME SessionsInv, [SessionsNext]_svars PROVE Onward
  OBVIOUS
<1>1. CASE UNCHANGED svars
  <2>1. log' = log /\ mem' = mem /\ saved' = saved /\ turn' = turn
    BY <1>1 DEF svars
  <2>2. Now' = Now
    BY <2>1 DEF Now
  <2>3. SessionsInv'
    BY <2>1, <2>2 DEF SessionsInv, SessionsTypeOK, Up, IndexCurrent, IndexOf, Kept, Placed, Now
  <2>4. Len(log) \in Nat /\ Len(saved.sessions) \in Nat
    BY DEF SessionsInv, SessionsTypeOK, Index
  <2> QED BY <2>1, <2>3, <2>4 DEF Onward, Grows
<1>2. CASE Starts
  BY <1>2, StartsSound
<1>3. CASE Up /\ Commands
  <2>1. PICK S : \E saves \in Seq(SStates) :
           Reached(Now, S) /\ SavesSound(Now, saves, S) /\ Moves(saves, S)
    BY <1>3, CommandsSound DEF Commanded
  <2> QED BY <1>3, <2>1, MovesSound
<1>4. CASE Up /\ Prompt
  BY <1>4, PromptSound
<1>5. CASE Up /\ Message
  BY <1>5, MessageSound
<1>6. CASE Up /\ Dispatches
  <2>1. ASSUME Dispatch("new", None) PROVE Onward
    BY <1>6, <2>1, DispatchSound
  <2>2. ASSUME NEW id \in Ids, Dispatch("pinned", id) PROVE Onward
    BY <1>6, <2>2, DispatchSound
  <2> QED BY <1>6, <2>1, <2>2 DEF Dispatches
<1>7. CASE Up /\ TurnEnds
  BY <1>7, TurnEndsSound
<1>8. CASE Up /\ Ask
  BY <1>8, AskSound
<1>9. CASE Killed
  BY <1>9, KilledSound
<1> QED BY <1>1, <1>2, <1>3, <1>4, <1>5, <1>6, <1>7, <1>8, <1>9 DEF SessionsNext

\* Every operation, and a death after any of its writes, keeps the invariant.
THEOREM SessionsInvariant == SessionsSpec => []SessionsInv
<1>1. SessionsInv /\ [SessionsNext]_svars => SessionsInv'
  BY SessionsStep DEF Onward
<1> QED BY <1>1, SessionsInitSound, PTL DEF SessionsSpec

\* Whatever commands, prompts and scheduled dispatches follow each other, and at
\* whichever write the process dies: the index in memory, and the one a restart
\* loads, name boundaries in the log in their order, each continuation belongs to
\* an earlier session that has ended, and the active session is in the active thread;
\* and after every operation the two are the same: none relies on a later one to save
\* what it has changed.
THEOREM SessionsAlwaysSound == SessionsSpec => []SessionsSound
<1>1. SessionsInv => SessionsSound
  <2> SUFFICES ASSUME SessionsInv PROVE SessionsSound
    OBVIOUS
  <2>1. ASSUME NEW n \in Nat, NEW k, NEW sessions \in Seq(SessionAt),
               Sound(n, k, sessions), n = Len(log)
        PROVE  SoundIndex(k, sessions)
    <3> SUFFICES ASSUME NEW i \in DOMAIN sessions
                 PROVE  /\ sessions[i].thread \in 1 .. k
                        /\ {sessions[i].start, sessions[i].end} \subseteq 0 .. Len(log)
                        /\ ~Open(sessions[i]) => sessions[i].start < sessions[i].end
                        /\ sessions[i].ctx # None =>
                              sessions[i].ctx < i /\ ~Open(sessions[sessions[i].ctx])
      BY DEF SoundIndex
    <3>1. i \in Nat
      BY ElementOfSeq, LenProperties
    <3>2. /\ sessions[i].thread \in 1 .. k
          /\ sessions[i].start \in 0 .. n /\ sessions[i].end \in 0 .. n
          /\ ~Open(sessions[i]) => sessions[i].start < sessions[i].end
      BY <2>1 DEF Sound
    <3>3. sessions[i].ctx # None =>
              sessions[i].ctx \in 1 .. (i - 1) /\ ~Open(sessions[sessions[i].ctx])
      BY <2>1 DEF Sound
    <3>4. ASSUME NEW c \in 1 .. (i - 1) PROVE c < i
      BY <3>1
    <3>5. {sessions[i].start, sessions[i].end} \subseteq 0 .. Len(log)
      BY <2>1, <3>2
    <3> QED BY <3>2, <3>3, <3>4, <3>5
  <2>2. Len(log) \in Nat /\ saved.sessions \in Seq(SessionAt)
    BY LenProperties DEF SessionsInv, SessionsTypeOK, Index
  <2>3. SoundIndex(saved.threads, saved.sessions)
    BY <2>1, <2>2 DEF SessionsInv
  <2>4. ASSUME Up PROVE /\ SoundIndex(mem.threads, mem.sessions)
                        /\ mem.sessions[mem.session].thread = mem.thread
    <3>1. /\ Kept(Now) /\ Placed(Now) /\ Now.session # None /\ Now.log = log
          /\ Now.sessions = mem.sessions /\ Now.session = mem.session
          /\ Now.thread = mem.thread /\ Now.threads = mem.threads
      BY <2>4, NowFacts
    <3>2. Sound(Len(log), mem.threads, mem.sessions) /\ mem.sessions \in Seq(SessionAt)
      BY <3>1, StateFacts DEF Kept
    <3> QED BY <2>1, <2>2, <3>1, <3>2 DEF Placed
  <2> QED BY <2>3, <2>4 DEF SessionsInv, SessionsSound, BoundariesSound
<1> QED BY <1>1, SessionsInvariant, PTL

\* No message a session shows is ever lost, changed or reordered, and a session that
\* has ended shows nothing new: whatever commands, prompts and scheduled dispatches
\* follow each other, over a death at any write and the restart after it.
THEOREM ContextsNeverShrink == SessionsSpec => ContextsOnlyGrow
<1>1. SessionsInv /\ [SessionsNext]_svars => ContextGrown
  <2> SUFFICES ASSUME SessionsInv, [SessionsNext]_svars, NEW id \in DOMAIN saved.sessions
               PROVE  LET before == Context(log, saved.sessions, id)
                          after == Context(log', saved'.sessions, id)
                      IN  /\ IsPrefix(before, after)
                          /\ ~Open(saved.sessions[id]) => after = before
    BY DEF ContextGrown
  <2>1. SessionsInv' /\ Grows(log, saved.sessions, log', saved'.sessions)
    BY SessionsStep DEF Onward
  <2>2. /\ log \in Seq(EventAt) /\ saved.sessions \in Seq(SessionAt)
        /\ Sound(Len(log), saved.threads, saved.sessions)
    BY DEF SessionsInv, SessionsTypeOK, Index
  <2>3. /\ log' \in Seq(EventAt) /\ saved'.sessions \in Seq(SessionAt)
        /\ Sound(Len(log'), saved'.threads, saved'.sessions)
    BY <2>1 DEF SessionsInv, SessionsTypeOK, Index
  <2>4. PICK L, M, S, T, j, k :
           /\ L = log /\ M = log' /\ S = saved.sessions /\ T = saved'.sessions
           /\ j = saved.threads /\ k = saved'.threads
    OBVIOUS
  <2>5. /\ Begun(Context(L, S, id), Context(M, T, id))
        /\ ~Open(S[id]) => Context(M, T, id) = Context(L, S, id)
    BY <2>1, <2>2, <2>3, <2>4, ContextGrows
  <2>6. id \in DOMAIN S /\ id \in DOMAIN T
    BY <2>1, <2>2, <2>3, <2>4 DEF Grows
  <2>7. Context(L, S, id) \in Seq(Nat) /\ Context(M, T, id) \in Seq(Nat)
    BY <2>2, <2>3, <2>4, <2>6, SoundRooted, ContextIs
  <2>8. IsPrefix(Context(L, S, id), Context(M, T, id))
    BY <2>5, <2>7, BegunIsPrefix
  <2> QED BY <2>4, <2>5, <2>8
<1> QED BY <1>1, SessionsInvariant, PTL DEF SessionsSpec, ContextsOnlyGrow

-----------------------------------------------------------------------------
(* Prompts keep the history.                                               *)

LEMMA LastOf ==
    ASSUME NEW r \in Seq(Nat), NEW s \in Seq(Nat), NEW e \in Nat
    PROVE  Last(Append(s, e)) = e /\ Last(r \o Append(s, e)) = e
<1>0. Append(s, e) \in Seq(Nat)
  BY AppendProperties
<1>1. PICK t \in Seq(Nat) : t = Append(s, e)
  BY <1>0
<1>2. Len(t) = Len(s) + 1 /\ t[Len(t)] = e /\ Len(s) \in Nat /\ Len(r) \in Nat
  BY <1>1, AppendProperties
<1>3. PICK j \in Nat, k \in Nat : j = Len(r) /\ k = Len(t) /\ k > 0
  BY <1>2
<1>4. Len(r \o t) = j + k /\ (r \o t)[j + k] = t[k]
  <2>1. j + k \in 1 .. (j + k) /\ ~(j + k <= j) /\ (j + k) - j = k
    BY <1>3
  <2> QED BY <1>3, <2>1, ConcatProperties
<1>5. Last(t) = t[k] /\ Last(r \o t) = (r \o t)[j + k]
  BY <1>3, <1>4 DEF Last
<1> QED BY <1>1, <1>2, <1>3, <1>4, <1>5

\* The last event a session shows is the last of its context.
LEMMA ContextLast ==
    ASSUME NEW L, L \in Seq(EventAt), NEW T, T \in Seq(SessionAt), Rooted(T),
           NEW id, id \in DOMAIN T, NEW e, e \in 1 .. Len(L), Shows(L, T[id], e),
           \A k \in (e + 1) .. Len(L) : ~Shows(L, T[id], k)
    PROVE  Last(Context(L, T, id)) = e
<1> DEFINE E == {k \in 1 .. Len(L) : Shows(L, T[id], k)}
<1>1. PICK n \in Nat : n = Len(L)
  OBVIOUS
<1>2. e \in 1 .. n /\ e \in Nat /\ e \in E
  BY <1>1
<1>3. \A k \in (e + 1) .. n : k \notin E
  BY <1>1
<1>4. Own(L, T[id]) = Listed(E, n)
  BY <1>1 DEF Own
<1> HIDE DEF E
<1>5. PICK s \in Seq(Nat) : Listed(E, n) = Append(s, e)
  BY <1>2, <1>3, ListedLast
<1>6. CASE T[id].ctx = None
  <2>1. Context(L, T, id) = Append(s, e)
    BY <1>4, <1>5, <1>6, ContextIs
  <2> QED BY <1>2, <2>1, LastOf
<1>7. CASE T[id].ctx # None
  <2>1. T[id].ctx \in DOMAIN T
    <3>1. DOMAIN T = 1 .. Len(T) /\ Len(T) \in Nat
      OBVIOUS
    <3>2. T[id].ctx \in 1 .. (id - 1)
      BY <1>7 DEF Rooted
    <3> QED BY <3>1, <3>2
  <2>2. PICK r \in Seq(Nat) : r = Context(L, T, T[id].ctx)
    BY <2>1, ContextIs
  <2>3. Context(L, T, id) = r \o Append(s, e)
    BY <1>4, <1>5, <1>7, <2>2, ContextIs
  <2> QED BY <1>2, <2>3, LastOf
<1> QED BY <1>6, <1>7

\* What a step makes of the turn, unless the process dies in it.
LEMMA DoesOnly ==
    ASSUME NEW saves, NEW S, NEW T, Does(saves, S, T)
    PROVE  turn' = T \/ turn' = Quiet
BY DEF Does, Dies

\* A step that is no dispatch, prompt or message of a turn leaves the turn, marks it
\* as moved, or ends it.
LEMMA OtherSteps ==
    ASSUME SessionsInv, [SessionsNext]_svars,
           ~Prompt, ~Ask, \A kind, id : ~Dispatch(kind, id)
    PROVE  turn' = Quiet \/ (turn'.asked = turn.asked /\ turn'.kind = turn.kind)
<1> DEFINE Same == turn' = Quiet \/ (turn'.asked = turn.asked /\ turn'.kind = turn.kind)
<1>1. turn \in Turns
  BY DEF SessionsInv, SessionsTypeOK, Turns
<1>2. ASSUME Starts PROVE Same
  <2>1. ASSUME NEW saves, NEW S, Begins(saves, S) PROVE turn' = Quiet
    BY <2>1, DoesOnly DEF Begins
  <2> QED BY <1>2, <2>1 DEF Starts, StartPlain, StartClone, StartIn, StartFork
<1>3. ASSUME Commands PROVE Same
  <2>1. ASSUME NEW saves, NEW S, Moves(saves, S) PROVE Same
    <3>1. PICK T : T = IF turn = Quiet \/ ~Moved(S) THEN turn
                      ELSE [turn EXCEPT !.moved = TRUE, !.session = None]
      OBVIOUS
    <3>2. Does(saves, S, T)
      BY <2>1, <3>1 DEF Moves
    <3>3. turn' = T \/ turn' = Quiet
      BY <3>2, DoesOnly
    <3>4. T.asked = turn.asked /\ T.kind = turn.kind
      BY <1>1, <3>1 DEF Turns
    <3> QED BY <3>3, <3>4
  <2> QED BY <1>3, <2>1 DEF Commands, SwitchSession, HistorySwitch, SwitchTo, HistoryJump,
               HistoryFork, Rewind, NewSession, SplitSession
<1>4. ASSUME Message PROVE Same
  BY <1>4, DoesOnly DEF Message
<1>5. ASSUME TurnEnds PROVE Same
  BY <1>5, DoesOnly DEF TurnEnds
<1>6. ASSUME Killed PROVE Same
  BY <1>6 DEF Killed
<1>7. ASSUME UNCHANGED svars PROVE Same
  BY <1>7 DEF svars
<1>8. ~Dispatches
  BY DEF Dispatches
<1> QED BY <1>2, <1>3, <1>4, <1>5, <1>6, <1>7, <1>8 DEF SessionsNext

\* A dispatch begins a turn of its own, which has asked nothing yet.
LEMMA DispatchOnly ==
    ASSUME NEW kind, NEW id, Dispatch(kind, id)
    PROVE  turn' = turn \/ turn' = Quiet \/ (turn'.kind = kind /\ turn'.asked = FALSE)
<1>1. PICK W, previous : turn' = Turn(kind, W, previous) \/ turn' = Quiet \/ turn' = turn
  BY DoesOnly DEF Dispatch
<1> QED BY <1>1 DEF Turn

\* Only a prompt begins a turn of the user.
LEMMA UserTurns ==
    ASSUME SessionsInv, [SessionsNext]_svars, turn = Quiet, turn'.kind = "user"
    PROVE  Up /\ Prompt
<1>1. turn' # Quiet /\ turn' # turn /\ turn.kind # "user"
  BY DEF Quiet
<1>2. ~Ask
  BY DEF Ask
<1>3. ~Starts /\ ~Killed /\ ~UNCHANGED svars
  <2>1. \A saves, S : ~Begins(saves, S)
    BY <1>1, DoesOnly DEF Begins
  <2>2. ~Starts
    BY <2>1 DEF Starts, StartPlain, StartClone, StartIn, StartFork
  <2> QED BY <1>1, <2>2 DEF Killed, svars
<1>4. ASSUME NEW kind, NEW id, Dispatch(kind, id) PROVE kind = "user"
  BY <1>1, <1>4, DispatchOnly
<1>5. ~Dispatches
  BY <1>4 DEF Dispatches
<1>6. (\A kind, id : ~Dispatch(kind, id)) \/ \E id : Dispatch("user", id)
  BY <1>4
<1>7. Up
  BY <1>3 DEF SessionsNext
<1>8. ~Commands /\ ~Message /\ ~TurnEnds
  <2>1. turn \in Turns
    BY DEF SessionsInv, SessionsTypeOK, Turns
  <2>2. ASSUME NEW saves, NEW S, Moves(saves, S) PROVE FALSE
    BY <1>1, <2>2, DoesOnly DEF Moves
  <2>3. ~Commands
    BY <2>2 DEF Commands, SwitchSession, HistorySwitch, SwitchTo, HistoryJump,
             HistoryFork, Rewind, NewSession, SplitSession
  <2>4. ~Message
    BY <1>1, DoesOnly DEF Message
  <2> QED BY <1>1, <2>3, <2>4 DEF TurnEnds
<1> QED BY <1>2, <1>3, <1>5, <1>7, <1>8 DEF SessionsNext

\* Only a turn's own message makes it one that has asked.
LEMMA AskTurns ==
    ASSUME SessionsInv, [SessionsNext]_svars, ~turn.asked, turn'.asked
    PROVE  Up /\ Ask
<1>1. Quiet.asked = FALSE
  BY DEF Quiet
<1>2. turn \in Turns
  BY DEF SessionsInv, SessionsTypeOK, Turns
<1>3. turn' # Quiet /\ turn' # turn /\ turn'.asked # turn.asked
  BY <1>1, <1>2
<1>4. ~Prompt
  <2>1. ASSUME NEW W, turn' = Turn("user", W, None) PROVE FALSE
    BY <2>1 DEF Turn
  <2> QED BY <1>3, <2>1, DoesOnly DEF Prompt
<1>5. ASSUME NEW kind, NEW id, Dispatch(kind, id) PROVE FALSE
  BY <1>3, <1>5, DispatchOnly
<1>6. Ask
  BY <1>3, <1>4, <1>5, OtherSteps
<1>7. Up
  <2>1. turn # Quiet
    BY <1>6 DEF Ask
  <2>2. ASSUME Starts PROVE FALSE
    <3>1. \A saves, S : ~Begins(saves, S)
      BY <1>3, DoesOnly DEF Begins
    <3> QED BY <2>2, <3>1 DEF Starts, StartPlain, StartClone, StartIn, StartFork
  <2> QED BY <1>3, <2>2 DEF SessionsNext, svars
<1> QED BY <1>6, <1>7

LEMMA AskedIs ==
    ASSUME NEW T, Kept(T), Placed(T), T.session # None, IsOpen(T, T.session)
    PROVE  LET A == Asked(T)
           IN  /\ Kept(A) /\ Follows(T, A) /\ A.sessions = T.sessions /\ A.session = T.session
               /\ Last(Context(A.log, A.sessions, A.session)) = Len(A.log)
<1>1. PICK A : A = Logged(T, "message", T.thread)
  OBVIOUS
<1>2. Asked(T) = A
  BY <1>1 DEF Asked
<1>3. /\ Kept(A) /\ Follows(T, A) /\ Len(A.log) = Len(T.log) + 1
      /\ A.log[Len(A.log)].type = "message" /\ A.log[Len(A.log)].thread = T.thread
      /\ A.sessions = T.sessions /\ A.session = T.session
  BY <1>1, Boundary, StateFacts, LoggedKept
<1>4. T.session \in DOMAIN T.sessions /\ T.sessions[T.session].thread = T.thread
  BY ActiveHasThread
<1>5. Len(T.log) \in Nat /\ Len(A.log) \in Nat /\ Len(A.log) \in 1 .. Len(A.log)
  BY <1>3, StateFacts
<1>6. T.sessions[T.session].start \in 0 .. Len(T.log)
  BY <1>4 DEF Kept, Sound
<1>7. InRange(T.sessions[T.session], Len(A.log))
  <2>1. T.sessions[T.session].end = HEAD
    BY DEF IsOpen, Open
  <2>2. T.sessions[T.session].start < Len(A.log)
    BY <1>3, <1>5, <1>6
  <2> QED BY <2>1, <2>2 DEF InRange
<1>8. Shows(A.log, T.sessions[T.session], Len(A.log))
  BY <1>3, <1>4, <1>7 DEF Shows
<1>9. /\ A.log \in Seq(EventAt) /\ A.sessions \in Seq(SessionAt) /\ Rooted(A.sessions)
      /\ A.session \in DOMAIN A.sessions
  BY <1>3, <1>4, StateFacts, SoundRooted DEF Kept
<1>10. \A k \in (Len(A.log) + 1) .. Len(A.log) : FALSE
  BY <1>5
<1>11. Last(Context(A.log, A.sessions, A.session)) = Len(A.log)
  <2>1. PICK L, Q, w, e : L = A.log /\ Q = A.sessions /\ w = A.session /\ e = Len(A.log)
    OBVIOUS
  <2>2. /\ L \in Seq(EventAt) /\ Q \in Seq(SessionAt) /\ Rooted(Q) /\ w \in DOMAIN Q
        /\ e \in 1 .. Len(L) /\ Shows(L, Q[w], e)
        /\ \A k \in (e + 1) .. Len(L) : ~Shows(L, Q[w], k)
    BY <1>3, <1>5, <1>8, <1>9, <1>10, <2>1
  <2>3. Last(Context(L, Q, w)) = e
    BY ONLY <2>2, ContextLast
  <2> QED BY <2>1, <2>3
<1> QED BY <1>2, <1>3, <1>11

\* One record grown out of another shows what that did.
LEMMA FollowsShows ==
    ASSUME NEW S, Kept(S), NEW T, Kept(T), Follows(S, T), NEW id, id \in DOMAIN S.sessions
    PROVE  /\ Begun(Context(S.log, S.sessions, id), Context(T.log, T.sessions, id))
           /\ ~Open(S.sessions[id]) =>
                 Context(T.log, T.sessions, id) = Context(S.log, S.sessions, id)
           /\ Context(S.log, S.sessions, id) \in Seq(Nat)
<1>1. PICK L, M, P, Q : L = S.log /\ M = T.log /\ P = S.sessions /\ Q = T.sessions
  OBVIOUS
<1>2. PICK j, k : j = S.threads /\ k = T.threads
  OBVIOUS
<1>3. /\ L \in Seq(EventAt) /\ M \in Seq(EventAt) /\ P \in Seq(SessionAt) /\ Q \in Seq(SessionAt)
      /\ Sound(Len(L), j, P) /\ Sound(Len(M), k, Q) /\ Grows(L, P, M, Q) /\ id \in DOMAIN P
  BY <1>1, <1>2, StateFacts DEF Kept, Follows
<1>4. /\ Begun(Context(L, P, id), Context(M, Q, id))
      /\ ~Open(P[id]) => Context(M, Q, id) = Context(L, P, id)
  BY ONLY <1>3, ContextGrows
<1>5. Context(L, P, id) \in Seq(Nat)
  BY ONLY <1>3, SoundRooted, ContextIs
<1> QED BY <1>1, <1>4, <1>5

\* What the process survives of a prompt.
LEMMA PromptKept == ASSUME SessionsInv, Up, Prompt, turn'.kind = "user" PROVE ChoiceKeepsHistory
<1>1. Kept(Now) /\ Placed(Now) /\ Now.session # None /\ Now.log = log
      /\ Now.sessions = mem.sessions /\ Now.session = mem.session
  BY NowFacts
<1>2. PICK N : N = Now
  OBVIOUS
<1>3. PICK W : W = Writable(N)
  OBVIOUS
<1>4. /\ Reached(N, W) /\ IsOpen(W, W.session)
      /\ \/ W.session = N.session
         \/ W.sessions[W.session].ctx = N.session /\ ~Open(N.sessions[N.session])
  BY <1>1, <1>2, <1>3, WritableKept
<1>5. Kept(W) /\ Placed(W) /\ W.session # None /\ W.session \in DOMAIN W.sessions /\ Follows(N, W)
  BY <1>1, <1>2, <1>4, ReachedFacts DEF Reached
<1>6. log' = W.log /\ mem' = ManagerOf(W) /\ turn' = Turn("user", W, None)
  <2>1. Does(<<WritableBegun(N), W>>, W, Turn("user", W, None))
    BY <1>2, <1>3 DEF Prompt
  <2>2. ASSUME NEW saves, Dies(saves, W) PROVE FALSE
    BY <2>2 DEF Dies, Quiet
  <2> QED BY <2>1, <2>2 DEF Does
<1>7. mem'.sessions = W.sessions /\ mem'.session = W.session /\ turn'.session = W.session
  BY <1>6 DEF ManagerOf, Turn
<1>8. N.session \in DOMAIN N.sessions
  BY <1>1, <1>2, ActiveHasThread
<1>9. PICK r : r = Context(N.log, N.sessions, N.session)
  OBVIOUS
<1>10. PICK t : t = Context(W.log, W.sessions, W.session)
  OBVIOUS
<1>11. W.log \in Seq(EventAt) /\ W.sessions \in Seq(SessionAt) /\ Rooted(W.sessions)
  BY <1>5, StateFacts, SoundRooted DEF Kept
<1>12. r \in Seq(Nat) /\ t \in Seq(Nat)
  BY <1>1, <1>2, <1>5, <1>8, <1>9, <1>10, <1>11, FollowsShows, ContextIs
<1>13. Begun(r, t)
  <2>1. CASE W.session = N.session
    BY <1>1, <1>2, <1>5, <1>8, <1>9, <1>10, <2>1, FollowsShows
  <2>2. CASE W.sessions[W.session].ctx = N.session /\ ~Open(N.sessions[N.session])
    <3>1. PICK o \in Seq(Nat) : o = Own(W.log, W.sessions[W.session])
      BY <1>5, <1>11, OwnType
    <3>2. Context(W.log, W.sessions, N.session) = r
      BY <1>1, <1>2, <1>5, <1>8, <1>9, <2>2, FollowsShows
    <3>3. t = r \o o
      <4>1. PICK L, Q, w : L = W.log /\ Q = W.sessions /\ w = W.session
        OBVIOUS
      <4>2. /\ L \in Seq(EventAt) /\ Q \in Seq(SessionAt) /\ Rooted(Q) /\ w \in DOMAIN Q
            /\ Q[w].ctx = N.session /\ Q[w].ctx # None
        BY <1>1, <1>2, <1>5, <1>11, <2>2, <4>1
      <4>3. Context(L, Q, w) = Context(L, Q, Q[w].ctx) \o Own(L, Q[w])
        BY ONLY <4>2, ContextIs
      <4> QED BY <1>10, <3>1, <3>2, <4>1, <4>2, <4>3
    <3>4. Begun(o, o)
      BY DEF Begun
    <3>5. Begun(r, r \o o)
      BY <1>12, <3>4, BegunAfter
    <3> QED BY <3>3, <3>5
  <2> QED BY <1>4, <2>1, <2>2
<1>14. IsPrefix(r, t)
  BY <1>12, <1>13, BegunIsPrefix
<1>15. Open(W.sessions[W.session])
  BY <1>4 DEF IsOpen
<1> QED BY <1>1, <1>2, <1>6, <1>7, <1>9, <1>10, <1>14, <1>15 DEF ChoiceKeepsHistory

\* The message of a turn: the active session, if it is open, shows it last.
LEMMA AskShown ==
    ASSUME SessionsInv, Up, Ask, turn'.asked, Open(mem.sessions[mem.session])
    PROVE  LET after == Context(log', mem'.sessions, mem'.session)
           IN  /\ IsPrefix(Context(log, mem.sessions, mem.session), after)
               /\ Last(after) = Len(log')
<1>1. Kept(Now) /\ Placed(Now) /\ Now.session # None /\ Now.log = log
      /\ Now.sessions = mem.sessions /\ Now.session = mem.session
  BY NowFacts
<1>2. PICK N : N = Now
  OBVIOUS
<1>3. IsOpen(N, N.session) /\ N.session \in DOMAIN N.sessions
  BY <1>1, <1>2, ActiveHasThread DEF IsOpen
<1>4. PICK A : A = Asked(N)
  OBVIOUS
<1>5. /\ Kept(A) /\ Follows(N, A) /\ A.sessions = N.sessions /\ A.session = N.session
      /\ Last(Context(A.log, A.sessions, A.session)) = Len(A.log)
  BY <1>1, <1>2, <1>3, <1>4, AskedIs
<1>6. log' = A.log /\ mem'.sessions = A.sessions /\ mem'.session = A.session
  <2>1. Does(<<>>, A, [turn EXCEPT !.asked = TRUE])
    BY <1>2, <1>4 DEF Ask
  <2>2. ASSUME NEW saves, Dies(saves, A) PROVE FALSE
    BY <2>2 DEF Dies, Quiet
  <2> QED BY <2>1, <2>2 DEF Does, ManagerOf
<1>7. PICK r : r = Context(N.log, N.sessions, N.session)
  OBVIOUS
<1>8. PICK t : t = Context(A.log, A.sessions, A.session)
  OBVIOUS
<1>9. A.log \in Seq(EventAt) /\ A.sessions \in Seq(SessionAt) /\ Rooted(A.sessions)
  BY <1>5, StateFacts, SoundRooted DEF Kept
<1>10. Begun(r, t) /\ r \in Seq(Nat)
  BY <1>1, <1>2, <1>3, <1>5, <1>7, <1>8, FollowsShows
<1>11. t \in Seq(Nat)
  BY <1>3, <1>5, <1>8, <1>9, ContextIs
<1>12. IsPrefix(r, t)
  BY <1>10, <1>11, BegunIsPrefix
<1> QED BY <1>1, <1>2, <1>5, <1>6, <1>7, <1>8, <1>12

-----------------------------------------------------------------------------
(* Turns.                                                                  *)

\* While nobody moves the active session it is the one the turn began in, and open;
\* only a dispatch that moved it has a session to return to.
TurnKept ==
    /\ turn # Quiet => Up
    /\ turn.previous # None => turn.kind \in {"new", "pinned"}
    /\ turn # Quiet /\ ~turn.moved => mem.session = turn.session /\ Open(mem.sessions[mem.session])

TurnStep == TurnKept' /\ UndisturbedTurn /\ DispatchKeepsTurn

\* What a step leaves that the process survives.
Survives(S, T) ==
    /\ log' = S.log /\ mem' # Down /\ mem'.sessions = S.sessions /\ mem'.session = S.session
    /\ turn' = T

LEMMA QuietIs ==
    Quiet.previous = None /\ Quiet.moved = FALSE /\ Quiet.kind = "none" /\ Quiet.asked = FALSE
BY DEF Quiet

\* A step the process dies in ends the turn with it.
LEMMA DoesTurn ==
    ASSUME NEW saves, NEW S, NEW T, Does(saves, S, T), S.session # None
    PROVE  Survives(S, T) \/ TurnStep
<1>1. CASE Dies(saves, S)
  <2>1. mem' = Down /\ turn' = Quiet
    BY <1>1 DEF Dies
  <2>2. UndisturbedTurn /\ DispatchKeepsTurn
    BY <2>1 DEF UndisturbedTurn, DispatchKeepsTurn
  <2>3. TurnKept'
    BY <2>1, QuietIs DEF TurnKept
  <2> QED BY <2>2, <2>3 DEF TurnStep
<1>2. CASE log' = S.log /\ mem' = ManagerOf(S) /\ turn' = T
  <2>1. mem'.sessions = S.sessions /\ mem'.session = S.session
    BY <1>2 DEF ManagerOf
  <2>2. mem' # Down
    BY <2>1 DEF Down
  <2> QED BY <1>2, <2>1, <2>2 DEF Survives
<1> QED BY <1>1, <1>2 DEF Does

\* A step that leaves the turn and the active session as they are.
LEMMA StaysTurn ==
    ASSUME TurnKept, NEW S, Survives(S, turn),
           turn # Quiet /\ ~turn.moved =>
              S.session = mem.session /\ Open(S.sessions[S.session])
    PROVE  TurnStep
<1>1. UndisturbedTurn /\ DispatchKeepsTurn
  BY DEF Survives, UndisturbedTurn, DispatchKeepsTurn
<1>2. TurnKept'
  BY DEF Survives, TurnKept, Up
<1> QED BY <1>1, <1>2 DEF TurnStep

\* A turn begins where its prompt was asked.
LEMMA BeginsTurn ==
    ASSUME turn = Quiet, NEW S, NEW T, Survives(S, T),
           T.session = S.session, Open(S.sessions[S.session]),
           T.previous # None => T.kind \in {"new", "pinned"}
    PROVE  TurnStep
<1>1. UndisturbedTurn /\ DispatchKeepsTurn
  BY DEF UndisturbedTurn, DispatchKeepsTurn
<1>2. TurnKept'
  BY DEF Survives, TurnKept, Up
<1> QED BY <1>1, <1>2 DEF TurnStep

LEMMA MovesTurn ==
    ASSUME SessionsInv, TurnKept, Up, NEW S, NEW saves, Moves(saves, S), S.session # None
    PROVE  TurnStep
<1>1. turn \in Turns
  BY NowFacts
<1>2. CASE turn = Quiet \/ ~Moved(S)
  <2>1. Does(saves, S, turn)
    BY <1>2 DEF Moves
  <2>2. Survives(S, turn) \/ TurnStep
    BY <2>1, DoesTurn
  <2>3. turn # Quiet => S.sessions = mem.sessions /\ S.session = mem.session
    BY <1>2 DEF Moved
  <2> QED BY <2>2, <2>3, StaysTurn DEF TurnKept
<1>3. CASE turn # Quiet /\ Moved(S)
  <2>1. PICK T : T = [turn EXCEPT !.moved = TRUE, !.session = None]
    OBVIOUS
  <2>2. Does(saves, S, T)
    BY <1>3, <2>1 DEF Moves
  <2>3. Survives(S, T) \/ TurnStep
    BY <2>2, DoesTurn
  <2>4. T.moved = TRUE /\ T.previous = turn.previous /\ T.kind = turn.kind /\ T # Quiet
    BY <1>1, <2>1, QuietIs DEF Turns
  <2>5. ASSUME Survives(S, T) PROVE TurnStep
    <3>1. UndisturbedTurn
      BY <2>4, <2>5 DEF UndisturbedTurn, Survives
    <3>2. DispatchKeepsTurn
      BY <2>4, <2>5 DEF DispatchKeepsTurn, Survives
    <3>3. TurnKept'
      BY <2>4, <2>5 DEF TurnKept, Survives, Up
    <3> QED BY <3>1, <3>2, <3>3 DEF TurnStep
  <2> QED BY <2>3, <2>5
<1> QED BY <1>2, <1>3

LEMMA CommandsTurn == ASSUME SessionsInv, TurnKept, Up, Commands PROVE TurnStep
<1>1. PICK S : \E saves \in Seq(SStates) :
         Reached(Now, S) /\ SavesSound(Now, saves, S) /\ Moves(saves, S)
  BY CommandsSound DEF Commanded
<1>2. S.session # None
  BY <1>1 DEF Reached
<1> QED BY <1>1, <1>2, MovesTurn

LEMMA StartsTurn == ASSUME SessionsInv, TurnKept, Starts PROVE TurnStep
<1>1. turn = Quiet
  BY DEF Starts, TurnKept
<1>2. ASSUME NEW saves, NEW S, Begins(saves, S) PROVE turn' = Quiet
  BY <1>2 DEF Begins, Does, Dies
<1>3. turn' = Quiet
  BY <1>2 DEF Starts, StartPlain, StartClone, StartIn, StartFork
<1>4. TurnKept'
  BY <1>3, QuietIs DEF TurnKept
<1> QED BY <1>1, <1>4 DEF TurnStep, UndisturbedTurn, DispatchKeepsTurn

LEMMA MessageTurn == ASSUME SessionsInv, TurnKept, Up, Message PROVE TurnStep
<1>1. /\ Kept(Now) /\ Now.session # None /\ Now.sessions = mem.sessions
      /\ Now.session = mem.session
  BY NowFacts
<1>2. PICK S : S = Asked(Now)
  OBVIOUS
<1>3. S.sessions = mem.sessions /\ S.session = mem.session
  BY <1>1, <1>2 DEF Asked, Logged, Now
<1>4. Survives(S, turn) \/ TurnStep
  BY <1>1, <1>2, <1>3, DoesTurn DEF Message
<1> QED BY <1>1, <1>3, <1>4, StaysTurn DEF TurnKept

\* A turn begins in the session that a sound record makes writable.
LEMMA BegunTurn ==
    ASSUME turn = Quiet, NEW S, Kept(S), Placed(S), S.session # None,
           NEW kind, NEW previous, previous # None => kind \in {"new", "pinned"},
           NEW saves, LET W == Writable(S) IN Does(saves, W, Turn(kind, W, previous))
    PROVE  TurnStep
<1>1. PICK W : W = Writable(S)
  OBVIOUS
<1>2. Reached(S, W) /\ IsOpen(W, W.session)
  BY <1>1, WritableKept
<1>3. W.session # None /\ Open(W.sessions[W.session])
  BY <1>2 DEF Reached, IsOpen
<1>4. PICK T : T = Turn(kind, W, previous)
  OBVIOUS
<1>5. T.session = W.session /\ T.previous = previous /\ T.kind = kind
  BY <1>4 DEF Turn
<1>6. Does(saves, W, T)
  BY <1>1, <1>4
<1>7. Survives(W, T) \/ TurnStep
  BY <1>3, <1>6, DoesTurn
<1> QED BY <1>3, <1>5, <1>7, BeginsTurn

LEMMA PromptTurn == ASSUME SessionsInv, TurnKept, Up, Prompt PROVE TurnStep
<1>1. Kept(Now) /\ Placed(Now) /\ Now.session # None
  BY NowFacts
<1>2. PICK S : S = Now
  OBVIOUS
<1>3. PICK saves : saves = <<WritableBegun(S), Writable(S)>>
  OBVIOUS
<1>4. turn = Quiet /\ LET W == Writable(S) IN Does(saves, W, Turn("user", W, None))
  BY <1>2, <1>3 DEF Prompt
<1> QED BY <1>1, <1>2, <1>4, BegunTurn

LEMMA AskTurn == ASSUME SessionsInv, TurnKept, Up, Ask PROVE TurnStep
<1>1. /\ Kept(Now) /\ Now.session # None /\ Now.sessions = mem.sessions
      /\ Now.session = mem.session
  BY NowFacts
<1>2. PICK S : S = Asked(Now)
  OBVIOUS
<1>3. S.sessions = mem.sessions /\ S.session = mem.session
  BY <1>1, <1>2 DEF Asked, Logged, Now
<1>4. PICK T : T = [turn EXCEPT !.asked = TRUE]
  OBVIOUS
<1>5. Survives(S, T) \/ TurnStep
  BY <1>1, <1>2, <1>3, <1>4, DoesTurn DEF Ask
<1>6. turn \in Turns
  BY NowFacts
<1>7. /\ T.session = turn.session /\ T.previous = turn.previous /\ T.kind = turn.kind
      /\ T.moved = turn.moved /\ T # Quiet /\ turn # Quiet
  BY <1>4, <1>6, QuietIs DEF Turns, Ask
<1>8. ASSUME Survives(S, T) PROVE TurnStep
  <2>1. UndisturbedTurn
    BY <1>7, <1>8 DEF UndisturbedTurn, Survives
  <2>2. DispatchKeepsTurn
    BY <1>3, <1>8 DEF DispatchKeepsTurn, Survives
  <2>3. TurnKept'
    BY <1>3, <1>7, <1>8 DEF TurnKept, Survives, Up
  <2> QED BY <2>1, <2>2, <2>3 DEF TurnStep
<1> QED BY <1>5, <1>8

LEMMA KilledTurn == ASSUME Killed PROVE TurnStep
<1>1. mem' = Down /\ turn' = Quiet
  BY DEF Killed
<1>2. TurnKept'
  BY <1>1, QuietIs DEF TurnKept
<1> QED BY <1>1, <1>2 DEF TurnStep, UndisturbedTurn, DispatchKeepsTurn

LEMMA DispatchTurn ==
    ASSUME SessionsInv, TurnKept, Up, NEW kind \in {"new", "pinned"}, NEW id,
           kind = "pinned" => id \in Ids, Dispatch(kind, id)
    PROVE  TurnStep
<1>1. Kept(Now) /\ Placed(Now) /\ Now.session # None /\ Now.session = mem.session
      /\ Now.sessions = mem.sessions
  BY NowFacts
<1>2. PICK S : S = Target(kind, id)
  OBVIOUS
<1>3. PICK previous : previous = mem.session
  OBVIOUS
<1>4. /\ Reached(Now, S)
      /\ \A i \in DOMAIN mem.sessions : S.sessions[i].end = mem.sessions[i].end
  <2>1. CASE kind = "new"
    <3>1. S = CreateThread(Now)
      BY <1>2, <2>1 DEF Target
    <3> QED BY <1>1, <2>1, <3>1, CreateThreadKept
  <2>2. CASE kind = "pinned"
    <3>1. id \in DOMAIN Now.sessions
      BY <2>2, NowFacts
    <3>2. S = SwitchToExisting(Now, id, "never")
      BY <1>2, <2>2 DEF Target
    <3>3. Reached(Now, S) /\ S.sessions = Now.sessions
      BY <1>1, <3>1, <3>2, SwitchKept
    <3> QED BY <1>1, <2>2, <3>3
  <2> QED BY <2>1, <2>2
<1>5. Kept(S) /\ Placed(S) /\ S.session # None
  BY <1>4 DEF Reached
<1>6. CASE turn = Quiet
  <2>1. PICK W : W = Writable(S)
    OBVIOUS
  <2>2. Does(<<S, WritableBegun(S), W>>, W, Turn(kind, W, previous))
    BY <1>2, <1>3, <1>6, <2>1 DEF Dispatch
  <2>3. PICK saves : saves = <<S, WritableBegun(S), W>>
    OBVIOUS
  <2>4. LET V == Writable(S) IN Does(saves, V, Turn(kind, V, previous))
    BY <2>1, <2>2, <2>3
  <2> QED BY <1>5, <1>6, <2>4, BegunTurn
<1>7. CASE turn # Quiet
  <2>1. PICK R : R = Restored(S, kind, previous)
    OBVIOUS
  <2>2. Does(<<S, R>>, R, turn)
    BY <1>2, <1>3, <1>7, <2>1 DEF Dispatch
  <2>3. mem.session \in DOMAIN mem.sessions /\ mem.session # None
    BY <1>1, ActiveHasThread
  <2>4. previous \in 0 .. Len(S.sessions) /\ mem.session \in DOMAIN S.sessions
    <3>1. previous \in 0 .. Len(Now.sessions) /\ mem.session \in DOMAIN Now.sessions
      BY <1>1, <1>3, <2>3, StateFacts DEF None
    <3> QED BY <1>1, <1>4, <3>1, ReachedFacts
  <2>5. /\ Reached(S, R)
        /\ IF kind \in {"new", "pinned"} /\ previous # None THEN R.session = previous
           ELSE R = S
        /\ \A i \in DOMAIN S.sessions : i = previous => R.sessions[i].end = S.sessions[i].end
    BY <1>5, <2>1, <2>4, RestoredKept
  <2>6. R.session = mem.session /\ R.sessions[mem.session].end = mem.sessions[mem.session].end
    BY <1>3, <1>4, <2>3, <2>4, <2>5
  <2>7. turn # Quiet /\ ~turn.moved => Open(R.sessions[R.session])
    BY <2>6 DEF TurnKept, Open
  <2>8. R.session # None
    BY <2>5 DEF Reached
  <2>9. Survives(R, turn) \/ TurnStep
    BY <2>2, <2>8, DoesTurn
  <2> QED BY <2>6, <2>7, <2>9, StaysTurn
<1> QED BY <1>6, <1>7

\* The reply is the last event of an open session, though it ends right after.
LEMMA ReplyLast ==
    ASSUME NEW S, Kept(S), NEW R, Kept(R), Follows(S, R), NEW id, id \in DOMAIN S.sessions,
           Open(S.sessions[id]), S.sessions[id].start < Len(S.log),
           S.log[Len(S.log)].type = "reply",
           S.log[Len(S.log)].thread = S.sessions[id].thread,
           R.sessions[id].end \in {HEAD, Len(S.log) + 1},
           \/ R.log = S.log
           \/ Len(R.log) = Len(S.log) + 1 /\ R.log[Len(R.log)].type = "boundary"
    PROVE  Last(Context(R.log, R.sessions, id)) = Len(S.log)
<1>1. PICK n \in Nat : n = Len(S.log)
  BY StateFacts
<1>2. Len(S.log) \in 1 .. n /\ n \in 1 .. n
  <2>1. S.sessions[id].start \in 0 .. n
    BY <1>1 DEF Kept, Sound
  <2> QED BY <1>1, <2>1
<1>3. /\ id \in DOMAIN R.sessions /\ R.sessions[id].start = S.sessions[id].start
      /\ R.sessions[id].thread = S.sessions[id].thread
      /\ R.log[n] = S.log[n] /\ n \in 1 .. Len(R.log)
  BY <1>1, <1>2, FollowsFacts
<1>4. InRange(R.sessions[id], n)
  <2>1. R.sessions[id].start < n
    BY <1>1, <1>3
  <2>2. R.sessions[id].end # HEAD => n < R.sessions[id].end
    BY <1>1
  <2> QED BY <2>1, <2>2 DEF InRange
<1>5. Shows(R.log, R.sessions[id], n)
  BY <1>1, <1>3, <1>4 DEF Shows
<1>6. ASSUME NEW k \in (n + 1) .. Len(R.log) PROVE ~Shows(R.log, R.sessions[id], k)
  <2>1. Len(R.log) = n + 1 /\ R.log[Len(R.log)].type = "boundary"
    BY <1>1
  <2>2. R.log[k].type = "boundary"
    BY <2>1
  <2> QED BY <2>2 DEF Shows
<1>7. PICK L, Q : L = R.log /\ Q = R.sessions
  OBVIOUS
<1>8. /\ L \in Seq(EventAt) /\ Q \in Seq(SessionAt) /\ Rooted(Q) /\ id \in DOMAIN Q
      /\ n \in 1 .. Len(L) /\ Shows(L, Q[id], n)
      /\ \A k \in (n + 1) .. Len(L) : ~Shows(L, Q[id], k)
  <2>1. L \in Seq(EventAt) /\ Q \in Seq(SessionAt)
    BY <1>7, StateFacts
  <2>2. Rooted(Q)
    BY <1>7, SoundRooted DEF Kept
  <2> QED BY <1>3, <1>5, <1>6, <1>7, <2>1, <2>2
<1>9. Last(Context(L, Q, id)) = n
  BY ONLY <1>8, ContextLast
<1> QED BY <1>1, <1>7, <1>9

LEMMA TurnEndsTurn == ASSUME SessionsInv, TurnKept, Up, TurnEnds PROVE TurnStep
<1>1. /\ Kept(Now) /\ Placed(Now) /\ Now.session # None /\ Reached(Now, Now)
      /\ Now.thread \in Nat /\ Now.log = log /\ Now.sessions = mem.sessions
      /\ Now.session = mem.session /\ Now.thread = mem.thread
  BY NowFacts, StateFacts
<1>2. PICK answered \in {FALSE, turn.asked} :
         LET S == IF answered THEN Logged(Now, "reply", mem.thread) ELSE Now
             R == Restored(S, turn.kind, turn.previous)
         IN  Does(<<R>>, R, Quiet)
  BY DEF TurnEnds
<1>3. PICK S : S = IF answered THEN Logged(Now, "reply", mem.thread) ELSE Now
  OBVIOUS
<1>4. PICK R : R = Restored(S, turn.kind, turn.previous)
  OBVIOUS
<1>5. Does(<<R>>, R, Quiet)
  BY <1>2, <1>3, <1>4
<1>6. /\ Reached(Now, S) /\ S.sessions = mem.sessions
      /\ answered => /\ Len(S.log) = Len(log) + 1
                     /\ S.log[Len(S.log)].type = "reply"
                     /\ S.log[Len(S.log)].thread = mem.thread
      /\ ~answered => S.log = log
  <2>1. CASE answered
    BY <1>1, <1>3, <2>1, Boundary, LoggedReached
  <2>2. CASE ~answered
    BY <1>1, <1>3, <2>2
  <2> QED BY <2>1, <2>2
<1>7. turn.previous \in 0 .. Len(S.sessions) /\ Kept(S) /\ Placed(S) /\ S.session # None
  BY <1>1, <1>6, NowFacts, ReachedFacts
<1>8. /\ Reached(S, R)
      /\ IF turn.kind \in {"new", "pinned"} /\ turn.previous # None
         THEN R.session = turn.previous ELSE R = S
      /\ \A i \in DOMAIN S.sessions :
            Open(S.sessions[i]) => R.sessions[i].end \in {HEAD, Len(S.log) + 1}
      /\ \/ R.log = S.log
         \/ Len(R.log) = Len(S.log) + 1 /\ R.log[Len(R.log)].type = "boundary"
  BY <1>4, <1>7, RestoredKept
<1>9. Survives(R, Quiet) \/ TurnStep
  <2>1. R.session # None
    BY <1>8 DEF Reached
  <2> QED BY <1>5, <2>1, DoesTurn
<1>10. SUFFICES ASSUME Survives(R, Quiet) PROVE TurnStep
  BY <1>9
<1>11. TurnKept' /\ DispatchKeepsTurn
  <2>1. turn' = Quiet
    BY <1>10 DEF Survives
  <2>2. TurnKept'
    BY <2>1, QuietIs DEF TurnKept
  <2> QED BY <2>1, <2>2 DEF DispatchKeepsTurn
<1>12. turn.previous # None => mem'.session = turn.previous
  BY <1>8, <1>10 DEF TurnKept, Survives
<1>13. ASSUME turn # Quiet, ~turn.moved, NEW e \in (Len(log) + 1) .. Len(log'), log'[e].type = "reply"
       PROVE  Last(Context(log', mem'.sessions, turn.session)) = e
  <2>1. turn.session = mem.session /\ Open(mem.sessions[mem.session])
    BY <1>13 DEF TurnKept
  <2>2. log' = R.log /\ mem'.sessions = R.sessions /\ Len(log) \in Nat
    BY <1>1, <1>10, StateFacts DEF Survives
  <2>3. answered /\ e = Len(S.log)
    <3>1. Len(S.log) \in Nat
      BY <1>7, StateFacts
    <3>2. e # Len(R.log) \/ R.log = S.log
      BY <1>8, <1>13, <2>2
    <3>3. CASE answered
      <4>1. Len(S.log) = Len(log) + 1
        BY <1>6, <3>3
      <4> QED BY <1>8, <2>2, <3>1, <3>2, <3>3, <4>1
    <3>4. CASE ~answered
      <4>1. S.log = log
        BY <1>6, <3>4
      <4> QED BY <1>8, <2>2, <3>1, <3>2, <4>1
    <3> QED BY <3>3, <3>4
  <2>4. PICK id : id = mem.session
    OBVIOUS
  <2>5. /\ id \in DOMAIN S.sessions /\ Open(S.sessions[id])
        /\ S.sessions[id].thread = mem.thread
    <3>1. Now.session \in DOMAIN Now.sessions /\ Now.sessions[Now.session].thread = Now.thread
      BY <1>1, ActiveHasThread
    <3> QED BY <1>1, <1>6, <2>1, <2>4, <3>1
  <2>6. S.sessions[id].start < Len(S.log)
    <3>1. Now.sessions[id].start \in 0 .. Len(log)
      BY <1>1, <1>6, <2>5 DEF Kept, Sound
    <3> QED BY <1>1, <1>6, <2>2, <2>3, <3>1
  <2>7. /\ Kept(R) /\ Follows(S, R) /\ R.sessions[id].end \in {HEAD, Len(S.log) + 1}
        /\ S.log[Len(S.log)].type = "reply"
        /\ S.log[Len(S.log)].thread = S.sessions[id].thread
        /\ \/ R.log = S.log
           \/ Len(R.log) = Len(S.log) + 1 /\ R.log[Len(R.log)].type = "boundary"
    BY <1>6, <1>8, <2>3, <2>5 DEF Reached
  <2>8. Last(Context(R.log, R.sessions, id)) = Len(S.log)
    BY <1>7, <2>5, <2>6, <2>7, ReplyLast
  <2> QED BY <2>1, <2>2, <2>3, <2>4, <2>8
<1>14. UndisturbedTurn
  BY <1>12, <1>13 DEF UndisturbedTurn
<1> QED BY <1>11, <1>14 DEF TurnStep

LEMMA TurnsStep == SessionsInv /\ TurnKept /\ [SessionsNext]_svars => TurnStep
<1> SUFFICES ASSUME SessionsInv, TurnKept, [SessionsNext]_svars PROVE TurnStep
  OBVIOUS
<1>1. CASE UNCHANGED svars
  <2>1. log' = log /\ mem' = mem /\ saved' = saved /\ turn' = turn
    BY <1>1 DEF svars
  <2>2. TurnKept'
    BY <2>1 DEF TurnKept, Up
  <2> QED BY <2>1, <2>2 DEF TurnStep, UndisturbedTurn, DispatchKeepsTurn
<1>2. CASE Starts
  BY <1>2, StartsTurn
<1>3. CASE Up /\ Commands
  BY <1>3, CommandsTurn
<1>4. CASE Up /\ Prompt
  BY <1>4, PromptTurn
<1>5. CASE Up /\ Message
  BY <1>5, MessageTurn
<1>6. CASE Up /\ Dispatches
  <2>1. ASSUME Dispatch("new", None) PROVE TurnStep
    BY <1>6, <2>1, DispatchTurn
  <2>2. ASSUME NEW id \in Ids, Dispatch("pinned", id) PROVE TurnStep
    BY <1>6, <2>2, DispatchTurn
  <2> QED BY <1>6, <2>1, <2>2 DEF Dispatches
<1>7. CASE Up /\ TurnEnds
  BY <1>7, TurnEndsTurn
<1>8. CASE Up /\ Ask
  BY <1>8, AskTurn
<1>9. CASE Killed
  BY <1>9, KilledTurn
<1> QED BY <1>1, <1>2, <1>3, <1>4, <1>5, <1>6, <1>7, <1>8, <1>9 DEF SessionsNext

\* A turn during which nobody moves the active session is answered in the session it
\* was asked in, as the last of its context, though that session may end at once; a
\* scheduled turn leaves active the session it found; and a dispatch that finds a turn
\* in progress leaves the active session as it is.
THEOREM TurnsAlwaysUndisturbed == SessionsSpec => TurnsUndisturbed
<1>1. SessionsInit => TurnKept
  BY QuietIs DEF SessionsInit, TurnKept
<1>2. SessionsInv /\ TurnKept /\ [SessionsNext]_svars =>
         TurnKept' /\ (UndisturbedTurn /\ DispatchKeepsTurn)
  BY TurnsStep DEF TurnStep
<1> QED BY <1>1, <1>2, SessionsInvariant, PTL DEF SessionsSpec, TurnsUndisturbed

\* The session a prompt chooses is open and shows what the active one showed, though
\* that had ended; and the message is appended there, unless somebody moved to another
\* between, and is the last of what the active session shows, after all it showed
\* before, unless that one had ended: the answer is computed from the history the user
\* saw (runtime.ts, ensureActiveSessionWritable).
THEOREM PromptAlwaysKeepsHistory == SessionsSpec => PromptKeepsHistory
<1>1. SessionsInit => TurnKept
  BY QuietIs DEF SessionsInit, TurnKept
<1>2. SessionsInv /\ TurnKept /\ [SessionsNext]_svars => TurnKept'
  BY TurnsStep DEF TurnStep
<1>3. SessionsInv /\ [SessionsNext]_svars => ChoiceKeepsHistory
  <2> SUFFICES ASSUME SessionsInv, [SessionsNext]_svars, turn = Quiet, turn'.kind = "user"
               PROVE  ChoiceKeepsHistory
    BY DEF ChoiceKeepsHistory
  <2> QED BY UserTurns, PromptKept
<1>4. SessionsInv /\ TurnKept /\ [SessionsNext]_svars => MessageKeepsHistory
  <2> SUFFICES ASSUME SessionsInv, TurnKept, [SessionsNext]_svars, ~turn.asked, turn'.asked
               PROVE  MessageKeepsHistory
    BY DEF MessageKeepsHistory
  <2>1. Up /\ Ask /\ turn # Quiet
    BY AskTurns DEF Ask
  <2>2. ~turn.moved => mem.session = turn.session /\ Open(mem.sessions[mem.session])
    BY <2>1 DEF TurnKept
  <2> QED BY <2>1, <2>2, AskShown DEF MessageKeepsHistory
<1> QED BY <1>1, <1>2, <1>3, <1>4, SessionsInvariant, PTL DEF SessionsSpec, PromptKeepsHistory

=============================================================================
