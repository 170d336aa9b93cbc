-------------------------- MODULE SharedFilesProofs --------------------------
(***************************************************************************)
(* Theorems about the files that several processes of the program share,    *)
(* for any number of processes and any interleaving of what they do: the    *)
(* main agent's lock, the credentials, the settings, the event log and the  *)
(* directories of packages; and of the files that the tool calls of one     *)
(* process share.                                                           *)
(***************************************************************************)
EXTENDS MainLock, AuthStorage, SettingsManager, EventStore, MutationQueue,
        Packages, TLAPS, FiniteSetTheorems, WellFoundedInduction, SequenceTheorems

-----------------------------------------------------------------------------
(* The main agent's lock: types                                            *)

\* The stages, the file and the history keep their types; only a process that
\* is about to write can have lost its file.
LEMMA MainLockInitType == MainLockInit => MainLockTypeOK
BY DEF MainLockInit, MainLockTypeOK, Stages

LEMMA MainLockStepType == MainLockTypeOK /\ [MainLockNext]_mainLockVars => MainLockTypeOK'
<1> SUFFICES ASSUME MainLockTypeOK, [MainLockNext]_mainLockVars
             PROVE  MainLockTypeOK'
    OBVIOUS
<1> USE MainLockAssumption DEF MainLockTypeOK, Stages, Goes, Disturbed
<1>1. CASE UNCHANGED mainLockVars
    BY <1>1 DEF mainLockVars
<1>2. ASSUME NEW p \in Agents,
             \/ Come(p) \/ CreateLock(p) \/ WritePid(p) \/ LockExists(p) \/ ReadOwner(p)
             \/ TruncateLock(p) \/ ReleaseLock(p) \/ ReadOwn(p) \/ RemoveLock(p) \/ Crash(p)
      PROVE  MainLockTypeOK'
    <2>1. CASE Come(p)        BY <2>1 DEF Come, Owners
    <2>2. CASE CreateLock(p)  BY <2>2 DEF CreateLock
    <2>3. CASE WritePid(p)    BY <2>3 DEF WritePid
    <2>4. CASE LockExists(p)  BY <2>4 DEF LockExists
    <2>5. CASE ReadOwner(p)   BY <2>5 DEF ReadOwner
    <2>6. CASE TruncateLock(p) BY <2>6 DEF TruncateLock
    <2>7. CASE ReleaseLock(p) BY <2>7 DEF ReleaseLock
    <2>8. CASE ReadOwn(p)     BY <2>8 DEF ReadOwn
    <2>9. CASE RemoveLock(p)  BY <2>9 DEF RemoveLock, Writers
    <2>10. CASE Crash(p)      BY <2>10 DEF Crash, AgentAlive
    <2> QED BY <1>2, <2>1, <2>2, <2>3, <2>4, <2>5, <2>6, <2>7, <2>8, <2>9, <2>10
<1> QED BY <1>1, <1>2 DEF MainLockNext

\* lockFile, agent, unlinked and settled are well typed in every reachable state.
THEOREM MainLockTypeCorrect == MainLockSpec => []MainLockTypeOK
BY MainLockInitType, MainLockStepType, PTL DEF MainLockSpec

-----------------------------------------------------------------------------
(* The main agent's lock: the settled owner                                *)

\* An owner found by an agent is named by the file and lives, until it removes
\* the file itself; the agent has not passed the test of the owner.
SettledStands ==
    \A p \in Agents :
        settled[p] # NoAgent =>
            /\ settled[p] \in Agents /\ lockFile = settled[p]
            /\ agent[settled[p]] \in {"owner", "release", "remove"}
            /\ agent[p] \in {"create", "exists", "read", "refused"}

LEMMA SettledStep ==
    MainLockTypeOK /\ SettledStands /\ [MainLockNext]_mainLockVars => SettledStands'
<1> SUFFICES ASSUME MainLockTypeOK, SettledStands, [MainLockNext]_mainLockVars
             PROVE  SettledStands'
    OBVIOUS
<1> USE MainLockAssumption DEF MainLockTypeOK, SettledStands, Goes
<1>1. CASE UNCHANGED mainLockVars
    BY <1>1 DEF mainLockVars
<1>2. ASSUME NEW p \in Agents,
             \/ Come(p) \/ CreateLock(p) \/ WritePid(p) \/ LockExists(p) \/ ReadOwner(p)
             \/ TruncateLock(p) \/ ReleaseLock(p) \/ ReadOwn(p) \/ RemoveLock(p) \/ Crash(p)
      PROVE  SettledStands'
    \* A changed file settles nobody.
    <2>0. ASSUME Disturbed PROVE SettledStands'
        BY <2>0 DEF Disturbed
    <2>1. CASE Come(p)        BY <2>1 DEF Come, Owners
    <2>2. CASE CreateLock(p)  BY <2>0, <2>2 DEF CreateLock
    <2>3. CASE WritePid(p)    BY <2>0, <2>3 DEF WritePid
    <2>4. CASE LockExists(p)  BY <2>4 DEF LockExists
    <2>5. CASE ReadOwner(p)
        \* The owner found is another process, and lives: p is refused.
        <3>1. settled[p] # NoAgent => TakenByOther(p)
            BY <2>5 DEF ReadOwner, TakenByOther, AgentAlive
        <3> QED BY <2>5, <3>1 DEF ReadOwner
    <2>6. CASE TruncateLock(p) BY <2>0, <2>6 DEF TruncateLock
    <2>7. CASE ReleaseLock(p) BY <2>7 DEF ReleaseLock
    <2>8. CASE ReadOwn(p)     BY <2>8 DEF ReadOwn
    <2>9. CASE RemoveLock(p)  BY <2>0, <2>9 DEF RemoveLock
    <2>10. CASE Crash(p)      BY <2>10 DEF Crash
    <2> QED BY <1>2, <2>1, <2>2, <2>3, <2>4, <2>5, <2>6, <2>7, <2>8, <2>9, <2>10
<1> QED BY <1>1, <1>2 DEF MainLockNext

\* An agent that finds the pid of an owner in the lock file neither becomes an
\* owner nor overwrites the file while that pid stands there, however the system
\* calls of any number of agents interleave and whichever of them die.
THEOREM SettledOwnerAlwaysAlone == MainLockSpec => []SettledOwnerIsAlone
<1>1. MainLockInit => SettledStands
    BY DEF MainLockInit, SettledStands
<1>2. SettledStands => SettledOwnerIsAlone
    BY DEF SettledStands, SettledOwnerIsAlone
<1> QED BY <1>1, <1>2, MainLockTypeCorrect, SettledStep, PTL DEF MainLockSpec

-----------------------------------------------------------------------------
(* Credentials                                                             *)

\* Every credential of the file, or of a copy of it, was issued, for one provider.
IssuedOnce(file, n) ==
    /\ \A o \in Providers : file[o] <= n
    /\ \A o, u \in Providers : file[o] = file[u] /\ file[o] # 0 => o = u

Refreshes(I) == I.job \in {"fetching", "answered"}

\* What instance i, in state I, may be doing, given the file, its lock, the number of
\* credentials issued (n), the expired ones (e) and the lost ones (L): one that
\* refreshes has read an expired credential, and its answer is newer than all it
\* has read; it holds the lock and has read what the file holds, or it was robbed
\* and the credential counts as lost.
Job(i, I, file, lock, n, e, L) ==
    /\ I.job # "none" => I.up /\ I.provider \in Providers
    /\ I.job # "answered" => I.fresh = 0
    /\ ~Refreshes(I) => ~I.robbed
    /\ Refreshes(I) =>
          /\ I.current[I.provider] \in e /\ IssuedOnce(I.current, n)
          /\ I.fresh <= n /\ (I.fresh # 0 => \A o \in Providers : I.current[o] < I.fresh)
          /\ I.robbed => I.current[I.provider] \in L
          /\ ~I.robbed => lock = i /\ I.current = file

\* An answer that is not stored yet is a credential nobody else knows of.
Unknown(i, f) ==
    /\ spent[f] = 0 /\ \A o \in Providers : authFile[o] # f
    /\ \A j \in Instances \ {i} :
          inst[j].fresh # f /\ (Refreshes(inst[j]) => \A o \in Providers : inst[j].current[o] # f)
AnswersUnknown == \A i \in Instances, f \in Credentials : inst[i].fresh = f /\ f # 0 => Unknown(i, f)

\* A credential that was sent is gone from the file, unless it counts as lost, or
\* the answer is about to be stored.
InFlight(v) == \E i \in Instances : inst[i].fresh # 0 /\ Sent(i) = v
SentIsGone ==
    \A v \in Credentials :
        spent[v] >= 1 =>
            /\ v \in 1 .. issued
            /\ v \in lost \/ InFlight(v) \/ \A o \in Providers : authFile[o] # v

AuthInv ==
    /\ AuthTypeOK
    /\ \A i \in Instances : Job(i, inst[i], authFile, authLock, issued, expired, lost)
    /\ IssuedOnce(authFile, issued) /\ AnswersUnknown /\ SentIsGone /\ RefreshedOnce

LEMMA AuthTypes ==
    ASSUME AuthTypeOK
    PROVE  /\ inst \in [Instances -> Instance]
           /\ authFile \in [Providers -> Credentials] /\ authLock \in Instances \cup {Nobody}
           /\ issued \in Credentials /\ issued \in Nat /\ expired \subseteq 1 .. issued
           /\ lost \subseteq 1 .. issued /\ spent \in [Credentials -> 0 .. 2]
           /\ mishaps \in 0 .. MaxMishaps /\ MaxMishaps \in Nat /\ MaxIssued \in Nat
           /\ Nobody \notin Instances /\ Credentials = 0 .. MaxIssued
BY AuthAssumption DEF AuthTypeOK, Credentials

LEMMA InstanceFacts ==
    ASSUME AuthInv, NEW i \in Instances
    PROVE  /\ inst[i] \in Instance
           /\ Job(i, inst[i], authFile, authLock, issued, expired, lost)
           /\ inst[i].current \in [Providers -> Credentials] /\ inst[i].fresh \in Credentials
           /\ inst[i].job \in {"none", "waiting", "fetching", "answered"}
<1>1. inst[i] \in Instance
  BY AuthTypes DEF AuthInv
<1>2. /\ inst[i].current \in [Providers -> Credentials] /\ inst[i].fresh \in Credentials
      /\ inst[i].job \in {"none", "waiting", "fetching", "answered"}
  BY <1>1 DEF Instance
<1> QED BY <1>1, <1>2 DEF AuthInv

LEMMA MishapType ==
    ASSUME AuthTypeOK, mishaps' = mishaps \/ Mishap
    PROVE  mishaps' \in 0 .. MaxMishaps
BY AuthTypes DEF Mishap

\* What an instance that refreshes knows of the credential it sends.
LEMMA SentFacts ==
    ASSUME AuthInv, NEW i \in Instances, Refreshes(inst[i])
    PROVE  /\ inst[i].provider \in Providers /\ inst[i].up /\ Sent(i) = inst[i].current[inst[i].provider]
           /\ Sent(i) \in expired /\ Sent(i) \in 1 .. issued /\ Sent(i) \in Credentials
           /\ \A j \in Instances : inst[j].fresh # 0 => inst[j].fresh # Sent(i)
<1>1. Job(i, inst[i], authFile, authLock, issued, expired, lost) /\ AuthTypeOK
  BY InstanceFacts DEF AuthInv
<1>2. inst[i].provider \in Providers /\ inst[i].up /\ inst[i].current[inst[i].provider] \in expired
  BY <1>1 DEF Job, Refreshes
<1>3. Sent(i) = inst[i].current[inst[i].provider] /\ Sent(i) \in expired /\ Sent(i) \in 1 .. issued
  BY <1>1, <1>2, AuthTypes DEF Sent
<1>4. Sent(i) \in Credentials
  BY <1>1, <1>3, AuthTypes
<1>5. ASSUME NEW j \in Instances, inst[j].fresh # 0 PROVE inst[j].fresh # Sent(i)
  <2>1. CASE j = i
    <3>1. Sent(i) < inst[i].fresh
      BY <1>1, <1>2, <1>3, <1>5, <2>1 DEF Job
    <3> QED BY <1>3, <1>4, <2>1, <3>1, AuthTypes, <1>1
  <2>2. CASE j # i
    <3>1. Unknown(j, inst[j].fresh)
      BY <1>5, InstanceFacts DEF AuthInv, AnswersUnknown
    <3> QED BY <1>2, <1>3, <2>2, <3>1 DEF Unknown
  <2> QED BY <2>1, <2>2
<1> QED BY <1>2, <1>3, <1>4, <1>5

\* A job goes on while more credentials are issued, expire and are lost.
Alike(J, I) ==
    /\ J.up = I.up /\ J.job = I.job /\ J.provider = I.provider /\ J.current = I.current
    /\ J.fresh = I.fresh

LEMMA LaterJob ==
    ASSUME AuthInv, NEW j \in Instances, NEW J, Alike(J, inst[j]),
           NEW f, NEW l, NEW n \in Nat, issued <= n, NEW e, expired \subseteq e, NEW L, lost \subseteq L,
           ~Refreshes(inst[j]) => ~J.robbed,
           Refreshes(inst[j]) /\ J.robbed => inst[j].robbed \/ Sent(j) \in L,
           Refreshes(inst[j]) /\ ~J.robbed => ~inst[j].robbed /\ l = authLock /\ f = authFile
    PROVE  Job(j, J, f, l, n, e, L)
<1> PICK I : I = inst[j]
  OBVIOUS
<1>1. /\ Job(j, I, authFile, authLock, issued, expired, lost) /\ I.fresh \in Nat /\ issued \in Nat
      /\ \A o \in Providers : I.current[o] \in Nat
  BY InstanceFacts, AuthTypes DEF AuthInv
<1>2. /\ J.up = I.up /\ J.job = I.job /\ J.provider = I.provider /\ J.current = I.current
      /\ J.fresh = I.fresh /\ (Refreshes(J) <=> Refreshes(I))
  BY DEF Alike, Refreshes
<1>3. CASE ~Refreshes(I)
  BY <1>1, <1>2, <1>3 DEF Job
<1>4. CASE Refreshes(I)
  <2>1. I.provider \in Providers /\ I.up /\ I.current[I.provider] \in e
    BY <1>1, <1>4 DEF Job, Refreshes
  <2>2. IssuedOnce(I.current, n) /\ I.fresh <= n
    <3>1. IssuedOnce(I.current, issued) /\ I.fresh <= issued
      BY <1>1, <1>4 DEF Job
    <3> QED BY <1>1, <3>1 DEF IssuedOnce
  <2>3. J.robbed => I.current[I.provider] \in L
    BY <1>1, <1>4 DEF Job, Sent
  <2>4. ~J.robbed => l = j /\ I.current = f
    BY <1>1, <1>4 DEF Job
  <2> QED BY <1>1, <1>2, <1>4, <2>1, <2>2, <2>3, <2>4 DEF Job
<1> QED BY <1>3, <1>4

\* Of those that refresh, only the holder of the lock has not been robbed.
LEMMA OthersRobbed ==
    ASSUME AuthInv, NEW j \in Instances, Refreshes(inst[j]), authLock # j
    PROVE  inst[j].robbed
BY InstanceFacts DEF Job

LEMMA RobFacts ==
    ASSUME NEW f \in [Instances -> Instance], NEW V
    PROVE  /\ Rob(f, V) \in [Instances -> Instance]
           /\ \A j \in Instances :
                 /\ Alike(Rob(f, V)[j], f[j])
                 /\ f[j].robbed \/ j \in V => Rob(f, V)[j].robbed
                 /\ Rob(f, V)[j].robbed => f[j].robbed \/ j \in V
<1>1. ASSUME NEW j \in Instances
      PROVE  /\ Rob(f, V)[j] \in Instance /\ Alike(Rob(f, V)[j], f[j])
             /\ f[j].robbed \/ j \in V => Rob(f, V)[j].robbed
             /\ Rob(f, V)[j].robbed => f[j].robbed \/ j \in V
  <2>1. PICK I \in Instance : I = f[j]
    OBVIOUS
  <2>2. Rob(f, V)[j] = [I EXCEPT !.robbed = I.robbed \/ j \in V]
    BY <2>1 DEF Rob
  <2>3. (I.robbed \/ j \in V) \in BOOLEAN
    BY ZenonT(10)
  <2>4. PICK b \in BOOLEAN : b = (I.robbed \/ j \in V)
    BY <2>3
  <2>5. Rob(f, V)[j] = [I EXCEPT !.robbed = b]
    BY <2>2, <2>4
  <2>6. /\ Rob(f, V)[j] \in Instance /\ Alike(Rob(f, V)[j], I) /\ Rob(f, V)[j].robbed = b
    BY <2>5 DEF Instance, Alike
  <2>7. (I.robbed \/ j \in V => b) /\ (b => I.robbed \/ j \in V)
    BY <2>4
  <2> QED BY <2>1, <2>6, <2>7
<1> QED BY <1>1 DEF Rob

\* A step that leaves the file alone and sends nothing: an answer is kept, or the
\* credential that was sent for it counts as lost.
LEMMA QuietStep ==
    ASSUME AuthInv, inst' \in [Instances -> Instance], UNCHANGED <<authFile, issued, spent>>,
           authLock' \in Instances \cup {Nobody}, mishaps' = mishaps \/ Mishap,
           expired' \subseteq 1 .. issued, lost \subseteq lost', lost' \subseteq 1 .. issued,
           \A j \in Instances :
              /\ Job(j, inst'[j], authFile, authLock', issued, expired', lost')
              /\ inst'[j].fresh \in {0, inst[j].fresh}
              /\ Refreshes(inst'[j]) => \/ inst'[j].current = authFile
                                        \/ Refreshes(inst[j]) /\ inst'[j].current = inst[j].current
              /\ inst[j].fresh # 0 =>
                    \/ Sent(j) \in lost'
                    \/ inst'[j].fresh # 0 /\ inst'[j].current[inst'[j].provider] = Sent(j)
    PROVE  AuthInv'
<1>1. AuthTypeOK'
  BY MishapType DEF AuthInv, AuthTypeOK
<1>2. ASSUME NEW j \in Instances, NEW f \in Credentials, inst'[j].fresh = f, f # 0 PROVE Unknown(j, f)'
  <2>1. Unknown(j, f) /\ inst[j].fresh = f
    BY <1>2 DEF AuthInv, AnswersUnknown
  <2>2. ASSUME NEW k \in Instances \ {j}
        PROVE  inst'[k].fresh # f /\ (Refreshes(inst'[k]) => \A o \in Providers : inst'[k].current[o] # f)
    <3>1. inst[k].fresh # f /\ (Refreshes(inst[k]) => \A o \in Providers : inst[k].current[o] # f)
      BY <2>1 DEF Unknown
    <3>2. inst'[k].fresh = 0 \/ inst'[k].fresh = inst[k].fresh
      OBVIOUS
    <3>3. \A o \in Providers : authFile[o] # f
      BY <2>1 DEF Unknown
    <3> QED BY <1>2, <3>1, <3>2, <3>3
  <2> QED BY <2>1, <2>2 DEF Unknown, Refreshes
<1>3. AnswersUnknown'
  BY <1>2 DEF AnswersUnknown
<1>4. ASSUME NEW v, InFlight(v) PROVE v \in lost' \/ InFlight(v)'
  BY <1>4 DEF InFlight, Sent
<1>5. SentIsGone'
  <2> SUFFICES ASSUME NEW v \in Credentials, spent[v] >= 1
               PROVE  v \in 1 .. issued /\ (v \in lost' \/ InFlight(v)' \/ \A o \in Providers : authFile[o] # v)
    BY DEF SentIsGone
  <2> QED BY <1>4 DEF AuthInv, SentIsGone
<1>6. RefreshedOnce' /\ IssuedOnce(authFile, issued)'
  BY DEF AuthInv, RefreshedOnce, IssuedOnce
<1> QED BY <1>1, <1>3, <1>5, <1>6 DEF AuthInv

\* The same of one instance, while the others go on as they are.
LEMMA QuietInstance ==
    ASSUME AuthInv, NEW i \in Instances, NEW X \in Instance, inst' = [inst EXCEPT ![i] = X],
           UNCHANGED <<authFile, issued, expired, spent>>, mishaps' = mishaps \/ Mishap,
           authLock' = authLock \/ (authLock = Nobody /\ authLock' = i),
           lost \subseteq lost', lost' \subseteq 1 .. issued,
           Job(i, X, authFile, authLock', issued, expired, lost'),
           X.fresh \in {0, inst[i].fresh},
           Refreshes(X) => X.current = authFile \/ (Refreshes(inst[i]) /\ X.current = inst[i].current),
           inst[i].fresh # 0 => Sent(i) \in lost' \/ (X.fresh # 0 /\ X.current[X.provider] = Sent(i))
    PROVE  AuthInv'
<1>1. /\ inst \in [Instances -> Instance] /\ authLock \in Instances \cup {Nobody} /\ issued \in Nat
      /\ expired \subseteq 1 .. issued
  BY AuthTypes DEF AuthInv
<1>2. inst' \in [Instances -> Instance] /\ \A j \in Instances : inst'[j] = IF j = i THEN X ELSE inst[j]
  BY <1>1
<1>3. ASSUME NEW j \in Instances \ {i}
      PROVE  Job(j, inst[j], authFile, authLock', issued, expired, lost')
  <2>1. Job(j, inst[j], authFile, authLock, issued, expired, lost)
    BY InstanceFacts
  <2>2. Refreshes(inst[j]) /\ ~inst[j].robbed => authLock' = authLock
    BY <2>1, AuthTypes DEF Job, AuthInv
  <2>3. Alike(inst[j], inst[j])
    BY DEF Alike
  <2>4. ~Refreshes(inst[j]) => ~inst[j].robbed
    BY <2>1 DEF Job
  <2> QED BY <1>1, <2>2, <2>3, <2>4, LaterJob
<1>4. ASSUME NEW j \in Instances \ {i}, inst[j].fresh # 0
      PROVE  inst'[j].fresh # 0 /\ inst'[j].current[inst'[j].provider] = Sent(j)
  BY <1>2, <1>4 DEF Sent
<1> HIDE DEF AuthInv
<1>5. \A j \in Instances :
         /\ Job(j, inst'[j], authFile, authLock', issued, expired', lost')
         /\ inst'[j].fresh \in {0, inst[j].fresh}
         /\ Refreshes(inst'[j]) => \/ inst'[j].current = authFile
                                   \/ Refreshes(inst[j]) /\ inst'[j].current = inst[j].current
         /\ inst[j].fresh # 0 =>
               \/ Sent(j) \in lost'
               \/ inst'[j].fresh # 0 /\ inst'[j].current[inst'[j].provider] = Sent(j)
  BY <1>2, <1>3, <1>4
<1>6. authLock' \in Instances \cup {Nobody} /\ expired' \subseteq 1 .. issued /\ UNCHANGED <<authFile, issued, spent>>
  BY <1>1
<1> QED BY <1>2, <1>5, <1>6, QuietStep

\* A step by which an instance starts to wait, or is done with what it was doing.
LEMMA QuietEnd ==
    ASSUME AuthInv, NEW i \in Instances, NEW X \in Instance, inst' = [inst EXCEPT ![i] = X],
           UNCHANGED <<authFile, authLock, issued, expired, spent>>, mishaps' = mishaps \/ Mishap,
           lost \subseteq lost', lost' \subseteq 1 .. issued,
           X.fresh = 0, ~X.robbed, ~Refreshes(X), X.job # "none" => X.up /\ X.provider \in Providers,
           inst[i].fresh # 0 => Sent(i) \in lost'
    PROVE  AuthInv'
<1>1. Job(i, X, authFile, authLock', issued, expired, lost')
  BY DEF Job
<1> QED BY <1>1, QuietInstance

\* The forms an instance is left in.
LEMMA FormTypes ==
    ASSUME AuthTypeOK, NEW I \in Instance
    PROVE  /\ Down \in Instance /\ JobDone(I) \in Instance /\ Reloaded(I) \in Instance
           /\ NotReloaded(I) \in Instance /\ Reload(I) \in Instance
           /\ \A J \in {Reloaded(I), NotReloaded(I), Reload(I)} : Alike(J, I) /\ J.robbed = I.robbed
           /\ \A J \in {Down, JobDone(I)} :
                 J.job = "none" /\ J.fresh = 0 /\ ~J.robbed /\ ~Refreshes(J)
<1>1. authFile \in [Providers -> Credentials] /\ 0 \in Credentials /\ Nobody \in Providers \cup {Nobody}
  BY AuthTypes
<1>2. Down.current \in [Providers -> Credentials]
  BY <1>1 DEF Down
<1>3. Down \in Instance /\ JobDone(I) \in Instance /\ Reloaded(I) \in Instance /\ NotReloaded(I) \in Instance
  BY <1>1, <1>2 DEF Down, JobDone, Reloaded, NotReloaded, Instance
<1>4. \A J \in {Reloaded(I), NotReloaded(I)} : Alike(J, I) /\ J.robbed = I.robbed
  BY DEF Reloaded, NotReloaded, Alike, Instance
<1>5. Reload(I) \in {Reloaded(I), NotReloaded(I)}
  BY DEF Reload
<1>6. \A J \in {Down, JobDone(I)} : J.job = "none" /\ J.fresh = 0 /\ ~J.robbed
  <2>1. Down.job = "none" /\ Down.fresh = 0 /\ ~Down.robbed
    BY DEF Down
  <2>2. JobDone(I).job = "none" /\ JobDone(I).fresh = 0 /\ ~JobDone(I).robbed
    BY DEF JobDone, Instance
  <2> QED BY <2>1, <2>2
<1>7. \A J \in {Down, JobDone(I)} : ~Refreshes(J)
  BY <1>6 DEF Refreshes
<1> QED BY <1>3, <1>4, <1>5, <1>6, <1>7

\* A step that changes nothing of what an instance is refreshing.
LEMMA QuietSame ==
    ASSUME AuthInv, NEW i \in Instances, NEW X \in Instance, inst' = [inst EXCEPT ![i] = X],
           UNCHANGED <<authFile, authLock, issued, expired, spent, lost, mishaps>>,
           X.job = inst[i].job, X.provider = inst[i].provider, X.current = inst[i].current,
           X.fresh = inst[i].fresh, X.robbed = inst[i].robbed, inst[i].up => X.up
    PROVE  AuthInv'
<1>1. Job(i, inst[i], authFile, authLock, issued, expired, lost)
  BY InstanceFacts
<1>2. Job(i, X, authFile, authLock', issued, expired, lost')
  BY <1>1 DEF Job, Refreshes
<1>3. /\ Refreshes(X) => Refreshes(inst[i]) /\ X.current = inst[i].current
      /\ inst[i].fresh # 0 => X.fresh # 0 /\ X.current[X.provider] = Sent(i)
  BY DEF Refreshes, Sent
<1>4. lost \subseteq lost' /\ lost' \subseteq 1 .. issued
  BY AuthTypes DEF AuthInv
<1> QED BY <1>2, <1>3, <1>4, QuietInstance

LEMMA AuthStartOrReload ==
    ASSUME AuthInv, NEW i \in Instances, StartOrReload(i)
    PROVE  AuthInv'
<1>1. PICK I \in Instance : I = [inst[i] EXCEPT !.up = TRUE]
  BY InstanceFacts DEF Instance
<1>2. I.job = inst[i].job /\ I.provider = inst[i].provider /\ I.current = inst[i].current
      /\ I.fresh = inst[i].fresh /\ I.robbed = inst[i].robbed /\ I.up
  BY <1>1, InstanceFacts DEF Instance
<1>3. PICK X \in Instance : X = Reload(I)
  BY FormTypes DEF AuthInv
<1>4. Alike(X, I) /\ X.robbed = I.robbed
  BY <1>3, FormTypes DEF AuthInv
<1>5. inst' = [inst EXCEPT ![i] = X] /\ UNCHANGED <<authFile, authLock, issued, expired, spent, lost, mishaps>>
  BY <1>1, <1>3 DEF StartOrReload
<1> QED BY <1>2, <1>4, <1>5, QuietSame DEF Alike

LEMMA AuthCompromised ==
    ASSUME AuthInv, NEW i \in Instances, Compromised(i)
    PROVE  AuthInv'
<1>1. PICK X : X = [inst[i] EXCEPT !.compromised = TRUE, !.listed = FALSE]
  OBVIOUS
<1>2. X \in Instance /\ X.job = inst[i].job /\ X.provider = inst[i].provider /\ X.current = inst[i].current
      /\ X.fresh = inst[i].fresh /\ X.robbed = inst[i].robbed /\ X.up = inst[i].up
  BY <1>1, InstanceFacts DEF Instance
<1>3. inst' = [inst EXCEPT ![i] = X] /\ UNCHANGED <<authFile, authLock, issued, expired, spent, lost, mishaps>>
  BY <1>1, AuthTypes DEF Compromised, AuthInv
<1> QED BY <1>2, <1>3, QuietSame

LEMMA AuthNeedKey ==
    ASSUME AuthInv, NEW i \in Instances, NEW o \in Providers, NeedKey(i, o)
    PROVE  AuthInv'
<1>1. PICK X : X = [inst[i] EXCEPT !.job = "waiting", !.provider = o]
  OBVIOUS
<1>2. inst[i].up /\ inst[i].job = "none" /\ Job(i, inst[i], authFile, authLock, issued, expired, lost)
  BY InstanceFacts DEF NeedKey
<1>3. inst[i].fresh = 0 /\ ~inst[i].robbed
  BY <1>2 DEF Job, Refreshes
<1>4. X \in Instance /\ X.fresh = 0 /\ ~X.robbed /\ X.job = "waiting" /\ X.up /\ X.provider \in Providers
  BY <1>1, <1>2, <1>3, InstanceFacts DEF Instance
<1>5. ~Refreshes(X)
  BY <1>4 DEF Refreshes
<1>6. inst' = [inst EXCEPT ![i] = X] /\ UNCHANGED <<authFile, authLock, issued, expired, spent, lost, mishaps>>
  BY <1>1, AuthTypes DEF NeedKey, AuthInv
<1>7. lost \subseteq lost' /\ lost' \subseteq 1 .. issued
  BY <1>6, AuthTypes DEF AuthInv
<1> QED BY <1>3, <1>4, <1>5, <1>6, <1>7, QuietEnd

LEMMA AuthLockDenied ==
    ASSUME AuthInv, NEW i \in Instances, LockDenied(i)
    PROVE  AuthInv'
<1>1. PICK X \in Instance : X = JobDone(Reload(inst[i]))
  BY FormTypes, InstanceFacts DEF AuthInv
<1>2. X.fresh = 0 /\ ~X.robbed /\ ~Refreshes(X) /\ X.job = "none"
  BY <1>1, FormTypes, InstanceFacts DEF AuthInv
<1>3. inst[i].fresh = 0
  BY InstanceFacts DEF LockDenied, Job
<1>4. inst' = [inst EXCEPT ![i] = X] /\ UNCHANGED <<authFile, authLock, issued, expired, spent, lost, mishaps>>
  BY <1>1 DEF LockDenied
<1>5. lost \subseteq lost' /\ lost' \subseteq 1 .. issued
  BY <1>4, AuthTypes DEF AuthInv
<1> QED BY <1>2, <1>3, <1>4, <1>5, QuietEnd

LEMMA AuthDies ==
    ASSUME AuthInv, NEW i \in Instances, InstanceDies(i)
    PROVE  AuthInv'
<1>1. Down \in Instance /\ Down.fresh = 0 /\ ~Down.robbed /\ ~Refreshes(Down) /\ Down.job = "none"
  BY FormTypes, InstanceFacts DEF AuthInv
<1>2. inst' = [inst EXCEPT ![i] = Down] /\ UNCHANGED <<authFile, authLock, issued, expired, spent>> /\ Mishap
  BY DEF InstanceDies
<1>3. inst[i].fresh # 0 => inst[i].job = "answered" /\ Refreshes(inst[i])
  BY InstanceFacts DEF Job, Refreshes
<1>4. inst[i].job = "answered" => Sent(i) \in 1 .. issued
  BY SentFacts DEF Refreshes
<1>5. lost' = IF inst[i].job = "answered" THEN lost \cup {Sent(i)} ELSE lost
  BY DEF InstanceDies
<1>6. lost \subseteq lost' /\ lost' \subseteq 1 .. issued /\ (inst[i].fresh # 0 => Sent(i) \in lost')
  BY <1>3, <1>4, <1>5, AuthTypes DEF AuthInv
<1> QED BY <1>1, <1>2, <1>6, QuietEnd

LEMMA AuthFetch ==
    ASSUME AuthInv, NEW i \in Instances, Fetch(i)
    PROVE  AuthInv'
<1>1. /\ inst[i].job = "waiting" /\ authLock = Nobody
      /\ UNCHANGED <<authFile, issued, expired, spent, lost, mishaps>>
  BY DEF Fetch
<1>2. inst[i].up /\ inst[i].provider \in Providers /\ inst[i].fresh = 0 /\ ~inst[i].robbed
  BY <1>1, InstanceFacts DEF Job, Refreshes
<1>3. PICK Q \in Instance : Q = Reloaded(inst[i])
  BY FormTypes, InstanceFacts DEF AuthInv
<1>4. Alike(Q, inst[i]) /\ Q.robbed = inst[i].robbed
  BY <1>3, FormTypes, InstanceFacts DEF AuthInv
<1>5. PICK R \in Instance : R = [Reloaded(inst[i]) EXCEPT !.current = authFile]
  BY <1>3, AuthTypes DEF AuthInv, Instance
<1>6. /\ R.up = inst[i].up /\ R.provider = inst[i].provider /\ R.fresh = 0
      /\ R.robbed = inst[i].robbed /\ R.current = authFile
  BY <1>2, <1>5, <1>3, <1>4 DEF Alike, Instance
<1>7. lost \subseteq lost' /\ lost' \subseteq 1 .. issued
  BY <1>1, AuthTypes DEF AuthInv
<1>8. CASE StillExpired(i)
  <2>1. PICK X \in Instance : X = [R EXCEPT !.job = "fetching", !.listed = TRUE]
    BY DEF Instance
  <2>2. /\ X.up = R.up /\ X.provider = R.provider /\ X.fresh = R.fresh /\ X.robbed = R.robbed
        /\ X.current = R.current /\ X.job = "fetching"
    BY <2>1 DEF Instance
  <2>3. authLock' = i /\ inst' = [inst EXCEPT ![i] = X]
    BY <1>5, <1>8, <2>1 DEF Fetch
  <2>4. authFile[R.provider] \in expired /\ IssuedOnce(authFile, issued) /\ issued \in Nat
    BY <1>6, <1>8, AuthTypes DEF StillExpired, Expired, AuthInv
  <2>5. Job(i, X, authFile, authLock', issued, expired, lost')
    BY <1>2, <1>6, <2>2, <2>3, <2>4 DEF Job, Refreshes
  <2> QED BY <1>1, <1>2, <1>6, <1>7, <2>2, <2>3, <2>5, QuietInstance
<1>9. CASE ~StillExpired(i)
  <2>1. inst' = [inst EXCEPT ![i] = JobDone(R)] /\ UNCHANGED authLock
    BY <1>5, <1>9 DEF Fetch
  <2>2. /\ JobDone(R) \in Instance /\ JobDone(R).fresh = 0 /\ ~JobDone(R).robbed
        /\ ~Refreshes(JobDone(R)) /\ JobDone(R).job = "none"
    BY FormTypes DEF AuthInv
  <2> QED BY <1>1, <1>2, <1>7, <2>1, <2>2, QuietEnd
<1> QED BY <1>8, <1>9

\* One whose credential was sent more often than answered.
LEMMA AuthFetchFails ==
    ASSUME AuthInv, NEW i \in Instances, FetchFails(i)
    PROVE  AuthInv'
<1>1. PICK X : X = [inst[i] EXCEPT !.job = "answered"]
  OBVIOUS
<1>2. X \in Instance /\ X.up = inst[i].up /\ X.provider = inst[i].provider /\ X.current = inst[i].current
      /\ X.fresh = inst[i].fresh /\ X.robbed = inst[i].robbed /\ X.job = "answered"
  BY <1>1, InstanceFacts DEF Instance
<1>3. /\ inst' = [inst EXCEPT ![i] = X] /\ Mishap /\ inst[i].job = "fetching"
      /\ UNCHANGED <<authFile, authLock, issued, expired>>
  BY <1>1, AuthTypes DEF FetchFails, AuthInv
<1>4. Refreshes(inst[i]) /\ inst[i].fresh = 0 /\ Job(i, inst[i], authFile, authLock, issued, expired, lost)
  BY <1>3, InstanceFacts DEF Job, Refreshes
<1>5. Sent(i) \in 1 .. issued /\ Sent(i) \in Credentials
      /\ \A j \in Instances : inst[j].fresh # 0 => inst[j].fresh # Sent(i)
  BY <1>4, SentFacts
<1>6. lost \subseteq lost' /\ lost' \subseteq 1 .. issued
      /\ (UNCHANGED spent \/ (Sent(i) \in lost' /\ spent' = [spent EXCEPT ![Sent(i)] = IF @ < 2 THEN @ + 1 ELSE @]))
  BY <1>5, AuthTypes DEF FetchFails, AuthInv
<1>7. Job(i, X, authFile, authLock, issued, expired, lost')
  <2>1. Refreshes(X)
    BY <1>2 DEF Refreshes
  <2> QED BY <1>2, <1>3, <1>4, <1>6, <2>1 DEF Job
<1>8. CASE UNCHANGED spent
  BY <1>2, <1>3, <1>4, <1>6, <1>7, <1>8, QuietInstance
<1>9. CASE Sent(i) \in lost' /\ spent' = [spent EXCEPT ![Sent(i)] = IF @ < 2 THEN @ + 1 ELSE @]
  <2>1. /\ inst \in [Instances -> Instance] /\ spent \in [Credentials -> 0 .. 2] /\ issued \in Nat
        /\ inst' \in [Instances -> Instance] /\ \A j \in Instances : inst'[j] = IF j = i THEN X ELSE inst[j]
    BY <1>2, <1>3, AuthTypes DEF AuthInv
  <2>2. /\ spent' \in [Credentials -> 0 .. 2] /\ spent'[Sent(i)] \in 0 .. 2
        /\ \A v \in Credentials : v # Sent(i) => spent'[v] = spent[v]
    BY <1>5, <1>9, <2>1
  <2>3. AuthTypeOK'
    BY <1>3, <1>6, <2>1, <2>2, MishapType DEF AuthInv, AuthTypeOK
  <2>4. ASSUME NEW j \in Instances PROVE Job(j, inst'[j], authFile, authLock, issued, expired, lost')
    <3>1. CASE j = i
      BY <1>7, <2>1, <3>1
    <3>2. CASE j # i
      <4>1. Job(j, inst[j], authFile, authLock, issued, expired, lost) /\ Alike(inst[j], inst[j])
        BY InstanceFacts DEF Alike
      <4>2. ~Refreshes(inst[j]) => ~inst[j].robbed
        BY <4>1 DEF Job
      <4>3. Job(j, inst[j], authFile, authLock, issued, expired, lost')
        BY <1>6, <2>1, <4>1, <4>2, LaterJob
      <4> QED BY <2>1, <3>2, <4>3
    <3> QED BY <3>1, <3>2
  <2>5. ASSUME NEW j \in Instances, NEW f \in Credentials, inst'[j].fresh = f, f # 0 PROVE Unknown(j, f)'
    <3>1. j # i /\ inst[j].fresh = f /\ f # Sent(i)
      BY <1>2, <1>4, <1>5, <2>1, <2>5
    <3>2. Unknown(j, f)
      BY <2>5, <3>1 DEF AuthInv, AnswersUnknown
    <3>3. spent'[f] = 0 /\ \A o \in Providers : authFile'[o] # f
      BY <1>3, <2>2, <3>1, <3>2 DEF Unknown
    <3>4. ASSUME NEW k \in Instances \ {j}
          PROVE  inst'[k].fresh # f /\ (Refreshes(inst'[k]) => \A o \in Providers : inst'[k].current[o] # f)
      BY <1>2, <1>4, <2>1, <3>2 DEF Unknown, Refreshes
    <3> QED BY <3>3, <3>4 DEF Unknown, Refreshes
  <2>6. ASSUME NEW v, InFlight(v) PROVE InFlight(v)'
    <3>1. PICK k \in Instances : inst[k].fresh # 0 /\ Sent(k) = v
      BY <2>6 DEF InFlight
    <3>2. inst'[k] = inst[k]
      BY <1>4, <2>1, <3>1
    <3> QED BY <3>1, <3>2 DEF InFlight, Sent
  <2>7. SentIsGone'
    <3> SUFFICES ASSUME NEW v \in Credentials, spent'[v] >= 1
                 PROVE  v \in 1 .. issued /\ (v \in lost' \/ InFlight(v)' \/ \A o \in Providers : authFile[o] # v)
      BY <1>3 DEF SentIsGone
    <3>1. CASE v = Sent(i)
      BY <1>5, <1>9, <3>1
    <3>2. CASE v # Sent(i)
      BY <1>6, <2>2, <2>6, <3>2 DEF AuthInv, SentIsGone
    <3> QED BY <3>1, <3>2
  <2>8. RefreshedOnce'
    BY <1>6, <1>9, <2>2 DEF AuthInv, RefreshedOnce
  <2> QED BY <1>3, <2>3, <2>4, <2>5, <2>7, <2>8 DEF AuthInv, AnswersUnknown
<1> QED BY <1>6, <1>8, <1>9

\* A credential that is sent for the second time counts as lost.
LEMMA SecondTimeLost ==
    ASSUME AuthInv, NEW i \in Instances, inst[i].job = "fetching", spent[Sent(i)] >= 1
    PROVE  Sent(i) \in lost
<1>1. Refreshes(inst[i]) /\ inst[i].fresh = 0 /\ Job(i, inst[i], authFile, authLock, issued, expired, lost)
  BY InstanceFacts DEF Job, Refreshes
<1>2. inst[i].provider \in Providers /\ Sent(i) = inst[i].current[inst[i].provider] /\ Sent(i) \in Credentials
  BY <1>1, SentFacts
<1>3. CASE inst[i].robbed
  BY <1>1, <1>2, <1>3 DEF Job
<1>4. CASE ~inst[i].robbed
  <2>1. authLock = i /\ authFile[inst[i].provider] = Sent(i)
    BY <1>1, <1>2, <1>4 DEF Job
  <2>2. Sent(i) \in lost \/ InFlight(Sent(i))
    BY <1>2, <2>1 DEF AuthInv, SentIsGone
  <2>3. ASSUME InFlight(Sent(i)) PROVE Sent(i) \in lost
    <3>1. PICK j \in Instances : inst[j].fresh # 0 /\ Sent(j) = Sent(i)
      BY <2>3 DEF InFlight
    <3>2. Refreshes(inst[j]) /\ j # i /\ Job(j, inst[j], authFile, authLock, issued, expired, lost)
      BY <1>1, <3>1, InstanceFacts DEF Job, Refreshes
    <3>3. inst[j].robbed
      BY <2>1, <3>2, OthersRobbed
    <3> QED BY <3>1, <3>2, <3>3 DEF Job, Sent
  <2> QED BY <2>2, <2>3
<1> QED BY <1>3, <1>4

LEMMA AuthAnswer ==
    ASSUME AuthInv, NEW i \in Instances, Answer(i)
    PROVE  AuthInv'
<1>1. /\ inst[i].job = "fetching" /\ UNCHANGED <<authFile, authLock, expired, lost, mishaps>>
      /\ spent' = [spent EXCEPT ![Sent(i)] = IF @ < 2 THEN @ + 1 ELSE @]
  BY DEF Answer
<1>2. Refreshes(inst[i]) /\ inst[i].fresh = 0 /\ Job(i, inst[i], authFile, authLock, issued, expired, lost)
  BY <1>1, InstanceFacts DEF Job, Refreshes
<1>3. /\ Sent(i) \in 1 .. issued /\ Sent(i) \in Credentials /\ Sent(i) = inst[i].current[inst[i].provider]
      /\ \A j \in Instances : inst[j].fresh # 0 => inst[j].fresh # Sent(i)
  BY <1>2, SentFacts
<1>4. /\ inst \in [Instances -> Instance] /\ spent \in [Credentials -> 0 .. 2] /\ issued \in Nat
      /\ authFile \in [Providers -> Credentials] /\ MaxIssued \in Nat /\ Credentials = 0 .. MaxIssued
      /\ lost \subseteq 1 .. issued /\ expired \subseteq 1 .. issued /\ issued <= MaxIssued
  BY AuthTypes DEF AuthInv
<1>5. /\ spent' \in [Credentials -> 0 .. 2] /\ spent'[Sent(i)] >= 1
      /\ spent'[Sent(i)] > 1 => spent[Sent(i)] >= 1
      /\ \A v \in Credentials : v # Sent(i) => spent'[v] = spent[v]
  <2>1. spent[Sent(i)] \in 0 .. 2
    BY <1>3, <1>4
  <2>2. PICK k \in 0 .. 2 : k = IF spent[Sent(i)] < 2 THEN spent[Sent(i)] + 1 ELSE spent[Sent(i)]
    BY <2>1
  <2>3. k >= 1 /\ (k > 1 => spent[Sent(i)] >= 1)
    BY <2>1, <2>2
  <2>4. spent' = [spent EXCEPT ![Sent(i)] = k]
    BY <1>1, <2>2
  <2> QED BY <1>3, <1>4, <2>3, <2>4
\* Both cases: the answer is n, or there is none (n = 0).
<1> DEFINE Answered(n) == [inst[i] EXCEPT !.job = "answered", !.fresh = n]
<1>6. PICK n \in Credentials, m \in Credentials :
        /\ inst' = [inst EXCEPT ![i] = Answered(n)]
        /\ issued' = m /\ issued <= m
        /\ n = 0 => spent[Sent(i)] >= 1
        /\ n # 0 => n = issued + 1 /\ m = n
  <2> HIDE DEF Answered
  <2>1. spent[Sent(i)] \in 0 .. 2
    BY <1>3, <1>4
  <2>2. CASE spent[Sent(i)] = 0
    <3>1. inst' = [inst EXCEPT ![i] = Answered(issued + 1)] /\ issued' = issued + 1 /\ issued < MaxIssued
      BY <1>4, <2>2 DEF Answer, Answered
    <3>2. issued + 1 \in Credentials /\ issued + 1 # 0 /\ issued <= issued + 1
      BY <1>4, <3>1
    <3> QED BY <3>1, <3>2
  <2>3. CASE spent[Sent(i)] # 0
    <3>1. [inst[i] EXCEPT !.job = "answered"] = Answered(0)
      BY <1>2, InstanceFacts DEF Instance, Answered
    <3>2. inst' = [inst EXCEPT ![i] = [inst[i] EXCEPT !.job = "answered"]] /\ issued' = issued
      BY <1>4, <2>3 DEF Answer
    <3>3. spent[Sent(i)] >= 1 /\ 0 \in Credentials /\ issued \in Credentials /\ issued <= issued
      BY <1>4, <2>1, <2>3
    <3> QED BY <3>1, <3>2, <3>3
  <2> QED BY <2>2, <2>3
<1>7. PICK X : X = Answered(n)
  OBVIOUS
<1>8. /\ X \in Instance /\ X.up = inst[i].up /\ X.provider = inst[i].provider /\ X.current = inst[i].current
      /\ X.fresh = n /\ X.robbed = inst[i].robbed /\ X.job = "answered" /\ Refreshes(X)
      /\ n <= m /\ n \in Nat /\ m \in Nat
  <2>1. n <= m /\ n \in Nat /\ m \in Nat
    BY <1>4, <1>6
  <2>2. X \in Instance /\ X.up = inst[i].up /\ X.provider = inst[i].provider /\ X.current = inst[i].current
        /\ X.fresh = n /\ X.robbed = inst[i].robbed /\ X.job = "answered"
    BY <1>7, InstanceFacts DEF Instance
  <2> QED BY <2>1, <2>2 DEF Refreshes
<1> HIDE DEF Answered
<1>9. inst' \in [Instances -> Instance] /\ \A j \in Instances : inst'[j] = IF j = i THEN X ELSE inst[j]
  BY <1>4, <1>6, <1>7, <1>8
<1>10. AuthTypeOK'
  BY <1>1, <1>4, <1>5, <1>6, <1>9 DEF AuthInv, AuthTypeOK
<1>11. ASSUME NEW j \in Instances PROVE Job(j, inst'[j], authFile, authLock, m, expired, lost)
  <2>1. CASE j = i
    <3>1. IssuedOnce(X.current, m) /\ (n # 0 => \A o \in Providers : X.current[o] < n)
      BY <1>2, <1>4, <1>6, <1>8, InstanceFacts DEF Job, IssuedOnce
    <3>2. /\ X.up /\ X.provider \in Providers /\ X.current[X.provider] \in expired
          /\ X.robbed => X.current[X.provider] \in lost
          /\ ~X.robbed => authLock = i /\ X.current = authFile
      BY <1>2, <1>8 DEF Job, Refreshes
    <3>3. Job(i, X, authFile, authLock, m, expired, lost)
      BY <1>8, <3>1, <3>2 DEF Job
    <3> QED BY <1>9, <2>1, <3>3
  <2>2. CASE j # i
    <3>1. Job(j, inst[j], authFile, authLock, issued, expired, lost) /\ Alike(inst[j], inst[j])
      BY InstanceFacts DEF Alike
    <3>2. ~Refreshes(inst[j]) => ~inst[j].robbed
      BY <3>1 DEF Job
    <3>3. Job(j, inst[j], authFile, authLock, m, expired, lost)
      BY <1>4, <1>6, <1>8, <3>1, <3>2, LaterJob
    <3> QED BY <1>9, <2>2, <3>3
  <2> QED BY <2>1, <2>2
<1>12. ASSUME NEW j \in Instances, inst[j].fresh # 0 PROVE inst[j].fresh <= issued
  BY <1>12, InstanceFacts DEF Job, Refreshes
<1>13. ASSUME NEW k \in Instances
       PROVE  /\ Refreshes(inst'[k]) <=> Refreshes(inst[k])
              /\ inst'[k].current = inst[k].current
  BY <1>2, <1>8, <1>9
<1>14. ASSUME NEW j \in Instances, NEW f \in Credentials, inst'[j].fresh = f, f # 0 PROVE Unknown(j, f)'
  <2>1. CASE j # i
    <3>1. inst[j].fresh = f /\ f # Sent(i) /\ Unknown(j, f) /\ f <= issued
      BY <1>3, <1>9, <1>12, <1>14, <2>1 DEF AuthInv, AnswersUnknown
    <3>2. ASSUME NEW k \in Instances \ {j} PROVE inst'[k].fresh # f
      BY <1>4, <1>6, <1>8, <1>9, <1>14, <3>1 DEF Unknown
    <3>3. ASSUME NEW k \in Instances \ {j}, Refreshes(inst'[k]) PROVE \A o \in Providers : inst'[k].current[o] # f
      BY <1>13, <3>1, <3>3 DEF Unknown
    <3>4. spent'[f] = 0 /\ \A o \in Providers : authFile'[o] # f
      BY <1>1, <1>5, <3>1 DEF Unknown
    <3> QED BY <3>2, <3>3, <3>4 DEF Unknown, Refreshes
  <2>2. CASE j = i
    <3>1. f = n /\ n = issued + 1
      BY <1>6, <1>8, <1>9, <1>14, <2>2
    <3>2. \A o \in Providers : authFile[o] # f
      BY <1>4, <3>1 DEF AuthInv, IssuedOnce
    <3>3. spent[f] = 0
      BY <1>4, <1>14, <3>1 DEF AuthInv, SentIsGone
    <3>4. spent'[f] = 0
      BY <1>3, <1>4, <1>5, <3>1, <3>3
    <3>5. ASSUME NEW k \in Instances \ {j} PROVE inst'[k].fresh # f
      BY <1>4, <1>9, <1>12, <1>14, <2>2, <3>1
    <3>6. ASSUME NEW k \in Instances \ {j}, Refreshes(inst'[k]) PROVE \A o \in Providers : inst'[k].current[o] # f
      BY <1>4, <1>13, <3>1, <3>6, InstanceFacts DEF Job, IssuedOnce
    <3> QED BY <1>1, <3>2, <3>4, <3>5, <3>6 DEF Unknown, Refreshes
  <2> QED BY <2>1, <2>2
<1>15. ASSUME NEW v, InFlight(v) PROVE InFlight(v)'
  <2>1. PICK k \in Instances : inst[k].fresh # 0 /\ Sent(k) = v
    BY <1>15 DEF InFlight
  <2>2. inst'[k] = inst[k]
    BY <1>2, <1>9, <2>1
  <2> QED BY <2>1, <2>2 DEF InFlight, Sent
<1>16. SentIsGone'
  <2> SUFFICES ASSUME NEW v \in Credentials, spent'[v] >= 1
               PROVE  v \in 1 .. m /\ (v \in lost \/ InFlight(v)' \/ \A o \in Providers : authFile[o] # v)
    BY <1>1, <1>6 DEF SentIsGone
  <2>1. CASE v # Sent(i)
    BY <1>4, <1>5, <1>6, <1>15, <2>1 DEF AuthInv, SentIsGone
  <2>2. CASE v = Sent(i)
    <3>1. v \in 1 .. m
      BY <1>3, <1>4, <1>6, <2>2
    <3>2. n = 0 => v \in lost
      BY <1>1, <1>6, <2>2, SecondTimeLost
    <3>3. n # 0 => InFlight(v)'
      BY <1>3, <1>8, <1>9, <2>2 DEF InFlight, Sent
    <3> QED BY <3>1, <3>2, <3>3
  <2> QED BY <2>1, <2>2
<1>17. RefreshedOnce'
  <2> SUFFICES ASSUME NEW v \in Credentials, spent'[v] > 1 PROVE v \in lost
    BY <1>1 DEF RefreshedOnce
  <2>1. CASE v = Sent(i)
    BY <1>1, <1>5, <2>1, SecondTimeLost
  <2>2. CASE v # Sent(i)
    BY <1>5, <2>2 DEF AuthInv, RefreshedOnce
  <2> QED BY <2>1, <2>2
<1>18. IssuedOnce(authFile, m)
  BY <1>4, <1>6 DEF AuthInv, IssuedOnce
<1> QED BY <1>1, <1>6, <1>10, <1>11, <1>14, <1>16, <1>17, <1>18 DEF AuthInv, AnswersUnknown

\* A new credential, or none, in the place of another.
LEMMA IssuedAgain ==
    ASSUME NEW file \in [Providers -> Nat], NEW n \in Nat, NEW m \in Nat, IssuedOnce(file, n), n <= m,
           NEW o \in Providers, NEW v \in Nat, v <= m, v = 0 \/ \A u \in Providers \ {o} : file[u] < v
    PROVE  IssuedOnce([file EXCEPT ![o] = v], m)
<1>1. PICK g : g = [file EXCEPT ![o] = v]
  OBVIOUS
<1>2. g[o] = v /\ \A u \in Providers \ {o} : g[u] = file[u]
  BY <1>1
<1>3. \A u \in Providers : g[u] <= m
  BY <1>2 DEF IssuedOnce
<1>4. ASSUME NEW a \in Providers, NEW b \in Providers, g[a] = g[b], g[a] # 0 PROVE a = b
  <2>1. CASE a = o /\ b # o
    BY <1>2, <1>4, <2>1
  <2>2. CASE b = o /\ a # o
    BY <1>2, <1>4, <2>2
  <2>3. CASE a # o /\ b # o
    BY <1>2, <1>4, <2>3 DEF IssuedOnce
  <2> QED BY <2>1, <2>2, <2>3
<1>5. IssuedOnce(g, m)
  BY <1>3, <1>4 DEF IssuedOnce
<1> QED BY <1>1, <1>5

\* The answer is stored: all others that refresh are robbed now, and count as lost.
LEMMA AuthStore ==
    ASSUME AuthInv, NEW i \in Instances, Store(i)
    PROVE  AuthInv' /\ (StoredUnaware \/ WritesOneForward)
<1>1. inst[i].job = "answered" /\ inst[i].fresh # 0 /\ ~inst[i].compromised
  BY DEF Store
<1>2. /\ Refreshes(inst[i]) /\ Job(i, inst[i], authFile, authLock, issued, expired, lost)
      /\ inst[i] \in Instance /\ inst[i].current \in [Providers -> Credentials]
      /\ inst[i].fresh \in Credentials /\ AuthTypeOK
  BY <1>1, InstanceFacts DEF Refreshes, AuthInv
<1>3. PICK p \in Providers : p = inst[i].provider
  BY <1>1, <1>2 DEF Job
<1>4. PICK cur \in [Providers -> Credentials], fr \in Credentials :
        cur = inst[i].current /\ fr = inst[i].fresh
  BY <1>2
<1>5. /\ cur[p] \in expired /\ IssuedOnce(cur, issued) /\ fr # 0 /\ fr <= issued
      /\ \A o \in Providers : cur[o] < fr
      /\ Sent(i) = cur[p] /\ (~inst[i].robbed => authLock = i /\ cur = authFile)
  BY <1>1, <1>2, <1>3, <1>4 DEF Job, Sent
<1>6. PICK merged : merged = [cur EXCEPT ![p] = fr]
  OBVIOUS
<1>7. merged \in [Providers -> Credentials] /\ merged[p] = fr
      /\ \A o \in Providers \ {p} : merged[o] = cur[o]
  BY <1>4, <1>6
<1>8. PICK S : S = [JobDone(inst[i]) EXCEPT !.data = merged, !.loadError = FALSE]
  OBVIOUS
<1>9. S \in Instance /\ S.job = "none" /\ S.fresh = 0 /\ ~S.robbed
  <2>1. PICK D \in Instance : D = JobDone(inst[i])
    BY <1>2, FormTypes
  <2>2. D.job = "none" /\ D.fresh = 0 /\ ~D.robbed
    BY <1>2, <2>1, FormTypes
  <2> QED BY <1>7, <1>8, <2>1, <2>2 DEF Instance
<1>10. PICK V : V = Holder \ {i}
  OBVIOUS
<1>11. PICK stale : stale = IF inst[i].robbed THEN {cur[o] : o \in Providers} \ {0} ELSE {}
  OBVIOUS
<1>12. PICK f : f = [inst EXCEPT ![i] = S]
  OBVIOUS
<1>13. /\ authFile' = merged /\ inst' = Rob(f, V) /\ lost' = lost \cup SentBy(V) \cup stale
       /\ UNCHANGED <<issued, expired, spent, mishaps>>
  BY <1>3, <1>4, <1>6, <1>8, <1>10, <1>11, <1>12 DEF Store, Merged
<1>14. /\ inst \in [Instances -> Instance] /\ authLock \in Instances \cup {Nobody} /\ issued \in Nat
       /\ lost \subseteq 1 .. issued /\ expired \subseteq 1 .. issued /\ Credentials = 0 .. MaxIssued
       /\ MaxIssued \in Nat /\ spent \in [Credentials -> 0 .. 2]
  BY AuthTypes DEF AuthInv
<1>15. f \in [Instances -> Instance] /\ f[i] = S /\ \A j \in Instances \ {i} : f[j] = inst[j]
  BY <1>9, <1>12, <1>14
<1>16. /\ inst' \in [Instances -> Instance]
       /\ \A j \in Instances :
             /\ Alike(inst'[j], f[j])
             /\ f[j].robbed \/ j \in V => inst'[j].robbed
             /\ inst'[j].robbed => f[j].robbed \/ j \in V
  BY <1>13, <1>15, RobFacts
<1>17. ASSUME NEW j \in V PROVE j \in Instances /\ j # i /\ Refreshes(inst[j])
  BY <1>10, <1>17 DEF Holder, Refreshes
<1>18. lost' \subseteq 1 .. issued
  <2>1. SentBy(V) \subseteq 1 .. issued
    BY <1>17, SentFacts DEF SentBy
  <2>2. stale \subseteq 1 .. issued
    BY <1>5, <1>11, <1>14 DEF IssuedOnce
  <2> QED BY <1>13, <1>14, <2>1, <2>2
<1>19. authLock' \in Instances \cup {Nobody}
  BY <1>14 DEF Store, ReleaseBy
<1>20. AuthTypeOK'
  BY <1>7, <1>13, <1>16, <1>18, <1>19 DEF AuthInv, AuthTypeOK
<1>21. inst'[i].job = "none" /\ inst'[i].fresh = 0 /\ ~inst'[i].robbed
  BY <1>9, <1>10, <1>15, <1>16 DEF Alike
<1>22. ASSUME NEW j \in Instances, j # i
       PROVE  /\ Alike(inst'[j], inst[j]) /\ (Refreshes(inst[j]) => inst'[j].robbed)
              /\ Job(j, inst'[j], merged, authLock', issued, expired, lost')
  <2>1. Alike(inst'[j], inst[j]) /\ (inst[j].robbed \/ j \in V => inst'[j].robbed)
        /\ (inst'[j].robbed => inst[j].robbed \/ j \in V)
    BY <1>15, <1>16, <1>22
  <2>2. Refreshes(inst[j]) => inst[j].robbed \/ j \in V
    <3>1. CASE authLock = j
      BY <1>10, <1>22, <3>1 DEF Holder, Refreshes
    <3>2. CASE authLock # j
      BY <3>2, OthersRobbed
    <3> QED BY <3>1, <3>2
  <2>3. j \in V => Sent(j) \in lost'
    BY <1>13 DEF SentBy
  <2>4. ~Refreshes(inst[j]) => ~inst'[j].robbed
    BY <1>17, <2>1, InstanceFacts DEF Job
  <2>5. Job(j, inst'[j], merged, authLock', issued, expired, lost')
    BY <1>13, <1>14, <2>1, <2>2, <2>3, <2>4, LaterJob
  <2> QED BY <2>1, <2>2, <2>5
<1>23. \A j \in Instances : Job(j, inst'[j], merged, authLock', issued, expired, lost')
  <2>1. Job(i, inst'[i], merged, authLock', issued, expired, lost')
    BY <1>21 DEF Job, Refreshes
  <2> QED BY <1>22, <2>1
<1>24. IssuedOnce(merged, issued)
  <2>1. cur \in [Providers -> Nat] /\ fr \in Nat
    BY <1>4, <1>14
  <2>2. IssuedOnce(cur, issued) /\ issued <= issued /\ fr <= issued /\ \A u \in Providers \ {p} : cur[u] < fr
    BY <1>5, <1>14
  <2>3. IssuedOnce([cur EXCEPT ![p] = fr], issued)
    BY <1>14, <2>1, <2>2, IssuedAgain
  <2> QED BY <1>6, <2>3
<1>25. ASSUME NEW j \in Instances, NEW g \in Credentials, inst'[j].fresh = g, g # 0 PROVE Unknown(j, g)'
  <2>1. j # i /\ inst[j].fresh = g
    BY <1>21, <1>22, <1>25 DEF Alike
  <2>2. Unknown(j, g)
    BY <1>25, <2>1 DEF AuthInv, AnswersUnknown
  <2>3. \A o \in Providers : merged[o] # g
    BY <1>2, <1>4, <1>7, <2>1, <2>2 DEF Unknown
  <2>4. ASSUME NEW k \in Instances \ {j}
        PROVE  inst'[k].fresh # g /\ (Refreshes(inst'[k]) => \A o \in Providers : inst'[k].current[o] # g)
    <3>1. CASE k = i
      BY <1>21, <1>25, <3>1 DEF Refreshes
    <3>2. CASE k # i
      BY <1>22, <2>2, <3>2 DEF Unknown, Refreshes, Alike
    <3> QED BY <3>1, <3>2
  <2> QED BY <1>13, <2>2, <2>3, <2>4 DEF Unknown, Refreshes
<1>26. SentIsGone'
  <2> SUFFICES ASSUME NEW v \in Credentials, spent[v] >= 1
               PROVE  v \in 1 .. issued /\ (v \in lost' \/ InFlight(v)' \/ \A o \in Providers : merged[o] # v)
    BY <1>13 DEF SentIsGone
  <2>1. v \in 1 .. issued /\ (v \in lost \/ InFlight(v) \/ \A o \in Providers : authFile[o] # v)
    BY DEF AuthInv, SentIsGone
  <2>2. v # fr
    <3>1. Unknown(i, fr)
      BY <1>4, <1>5 DEF AuthInv, AnswersUnknown
    <3>2. spent[fr] = 0
      BY <3>1 DEF Unknown
    <3> QED BY <3>2
  <2>3. CASE v = cur[p]
    BY <1>5, <1>7, <2>1, <2>2, <2>3 DEF IssuedOnce
  <2>4. CASE v # cur[p] /\ InFlight(v)
    <3>1. PICK k \in Instances : inst[k].fresh # 0 /\ Sent(k) = v
      BY <2>4 DEF InFlight
    <3>2. k # i /\ Alike(inst'[k], inst[k])
      BY <1>5, <1>22, <2>4, <3>1
    <3>3. InFlight(v)'
      BY <3>1, <3>2 DEF InFlight, Sent, Alike
    <3> QED BY <2>1, <3>3
  <2>5. CASE \A o \in Providers : authFile[o] # v
    <3>1. CASE inst[i].robbed
      BY <1>7, <1>11, <1>13, <2>1, <2>2, <3>1
    <3>2. CASE ~inst[i].robbed
      BY <1>5, <1>7, <2>1, <2>2, <2>5, <3>2
    <3> QED BY <3>1, <3>2
  <2> QED BY <1>13, <2>1, <2>3, <2>4, <2>5
<1>27. RefreshedOnce'
  BY <1>13 DEF AuthInv, RefreshedOnce
<1>28. inst[i].robbed => StoredUnaware
  BY <1>1, <1>21 DEF StoredUnaware
<1>29. ASSUME ~inst[i].robbed PROVE WritesOneForward
  <2>1. merged[p] >= authFile[p] /\ \A u \in Providers \ {p} : merged[u] = authFile[u]
    BY <1>4, <1>5, <1>7, <1>14, <1>29
  <2> QED BY <1>13, <2>1 DEF WritesOneForward
<1>30. AuthInv'
  BY <1>13, <1>20, <1>23, <1>24, <1>25, <1>26, <1>27 DEF AuthInv, AnswersUnknown
<1> QED BY <1>28, <1>29, <1>30

LEMMA AuthGiveUp ==
    ASSUME AuthInv, NEW i \in Instances, GiveUp(i)
    PROVE  AuthInv'
<1>1. /\ inst[i].job = "answered" /\ UNCHANGED <<authFile, issued, expired, spent, mishaps>>
      /\ authLock' = IF inst[i].listed THEN Nobody ELSE authLock
  BY DEF GiveUp, ReleaseBy
<1>2. /\ Refreshes(inst[i]) /\ Job(i, inst[i], authFile, authLock, issued, expired, lost)
      /\ inst[i] \in Instance /\ inst[i].current \in [Providers -> Credentials]
      /\ inst[i].fresh \in Credentials /\ AuthTypeOK
  BY <1>1, InstanceFacts DEF Refreshes, AuthInv
<1>3. PICK known : known = IF inst[i].fresh = 0 THEN inst[i]
                            ELSE [inst[i] EXCEPT !.loadError = FALSE,
                                     !.data = Merged(i, inst[i].current, inst[i].provider, inst[i].fresh)]
  OBVIOUS
<1>4. known \in Instance
  <2>1. Merged(i, inst[i].current, inst[i].provider, inst[i].fresh) \in [Providers -> Credentials]
    BY <1>2 DEF Merged
  <2> QED BY <1>2, <1>3, <2>1 DEF Instance
<1>5. PICK A \in Instance : /\ A = JobDone(IF authLock' = Nobody THEN Reloaded(known) ELSE NotReloaded(known))
                            /\ A.job = "none" /\ A.fresh = 0 /\ ~A.robbed
  <2>1. PICK K \in Instance : K = IF authLock' = Nobody THEN Reloaded(known) ELSE NotReloaded(known)
    BY <1>2, <1>4, FormTypes
  <2> QED BY <1>2, <2>1, FormTypes
<1>6. PICK V : V = IF inst[i].listed THEN Holder \ {i} ELSE {}
  OBVIOUS
<1>7. PICK f : f = [inst EXCEPT ![i] = A]
  OBVIOUS
<1>8. inst' = Rob(f, V) /\ lost' = lost \cup SentBy(V) \cup (IF inst[i].fresh # 0 THEN {Sent(i)} ELSE {})
  BY <1>3, <1>5, <1>6, <1>7 DEF GiveUp
<1>9. /\ inst \in [Instances -> Instance] /\ authLock \in Instances \cup {Nobody} /\ issued \in Nat
      /\ lost \subseteq 1 .. issued /\ expired \subseteq 1 .. issued
  BY AuthTypes DEF AuthInv
<1>10. f \in [Instances -> Instance] /\ f[i] = A /\ \A j \in Instances \ {i} : f[j] = inst[j]
  BY <1>5, <1>7, <1>9
<1>11. /\ inst' \in [Instances -> Instance]
       /\ \A j \in Instances :
             /\ Alike(inst'[j], f[j])
             /\ f[j].robbed \/ j \in V => inst'[j].robbed
             /\ inst'[j].robbed => f[j].robbed \/ j \in V
  BY <1>8, <1>10, RobFacts
<1>12. ASSUME NEW j \in V PROVE j \in Instances /\ j # i /\ Refreshes(inst[j])
  BY <1>6, <1>12 DEF Holder, Refreshes
<1>13. lost \subseteq lost' /\ lost' \subseteq 1 .. issued
  <2>1. SentBy(V) \subseteq 1 .. issued
    BY <1>12, SentFacts DEF SentBy
  <2>2. Sent(i) \in 1 .. issued
    BY <1>2, SentFacts
  <2> QED BY <1>8, <1>9, <2>1, <2>2
<1>14. /\ Job(i, inst'[i], authFile, authLock', issued, expired, lost')
       /\ inst'[i].fresh = 0 /\ ~Refreshes(inst'[i])
  <2>1. inst'[i].job = "none" /\ inst'[i].fresh = 0 /\ ~inst'[i].robbed
    BY <1>5, <1>6, <1>10, <1>11 DEF Alike
  <2> QED BY <2>1 DEF Job, Refreshes
<1>15. ASSUME NEW j \in Instances, j # i
       PROVE  /\ Alike(inst'[j], inst[j])
              /\ Job(j, inst'[j], authFile, authLock', issued, expired, lost')
  <2>1. Alike(inst'[j], inst[j]) /\ (inst[j].robbed \/ j \in V => inst'[j].robbed)
        /\ (inst'[j].robbed => inst[j].robbed \/ j \in V)
    BY <1>10, <1>11, <1>15
  <2>2. Refreshes(inst[j]) /\ ~inst'[j].robbed => ~inst[j].robbed /\ authLock' = authLock
    <3>1. CASE authLock = j /\ Refreshes(inst[j]) /\ inst[i].listed
      BY <1>6, <1>15, <2>1, <3>1 DEF Holder, Refreshes
    <3>2. CASE authLock # j
      BY <2>1, <3>2, OthersRobbed
    <3>3. CASE ~inst[i].listed
      BY <1>1, <2>1, <3>3
    <3> QED BY <3>1, <3>2, <3>3
  <2>3. j \in V => Sent(j) \in lost'
    BY <1>8 DEF SentBy
  <2>4. ~Refreshes(inst[j]) => ~inst'[j].robbed
    BY <1>12, <2>1, InstanceFacts DEF Job
  <2>5. Job(j, inst'[j], authFile, authLock', issued, expired, lost')
    BY <1>9, <1>13, <2>1, <2>2, <2>3, <2>4, LaterJob
  <2> QED BY <2>1, <2>5
<1>16. authLock' \in Instances \cup {Nobody} /\ expired' \subseteq 1 .. issued
  BY <1>1, <1>9
<1>17. \A j \in Instances :
          /\ Job(j, inst'[j], authFile, authLock', issued, expired', lost')
          /\ inst'[j].fresh \in {0, inst[j].fresh}
          /\ Refreshes(inst'[j]) => \/ inst'[j].current = authFile
                                    \/ Refreshes(inst[j]) /\ inst'[j].current = inst[j].current
          /\ inst[j].fresh # 0 =>
                \/ Sent(j) \in lost'
                \/ inst'[j].fresh # 0 /\ inst'[j].current[inst'[j].provider] = Sent(j)
  <2> TAKE j \in Instances
  <2>1. CASE j = i
    BY <1>1, <1>8, <1>14, <2>1
  <2>2. CASE j # i
    BY <1>1, <1>15, <2>2 DEF Alike, Refreshes, Sent
  <2> QED BY <2>1, <2>2
<1> HIDE DEF AuthInv
<1> QED BY <1>1, <1>11, <1>13, <1>16, <1>17, QuietStep

\* A step on which the instances only lose their lock, or none does.
LEMMA AuthStale ==
    ASSUME AuthInv, LockGoesStale
    PROVE  AuthInv'
<1>1. /\ authLock # Nobody /\ authLock' = Nobody /\ Mishap /\ inst' = Rob(inst, Holder)
      /\ lost' = lost \cup SentBy(Holder) /\ UNCHANGED <<authFile, issued, expired, spent>>
  BY DEF LockGoesStale
<1>2. /\ inst \in [Instances -> Instance] /\ issued \in Nat
      /\ lost \subseteq 1 .. issued /\ expired \subseteq 1 .. issued
  BY AuthTypes DEF AuthInv
<1>3. ASSUME NEW j \in Holder PROVE j \in Instances /\ Refreshes(inst[j])
  BY <1>3 DEF Holder, Refreshes
<1>4. lost \subseteq lost' /\ lost' \subseteq 1 .. issued
  <2>1. SentBy(Holder) \subseteq 1 .. issued
    BY <1>3, SentFacts DEF SentBy
  <2> QED BY <1>1, <1>2, <2>1
<1>5. ASSUME NEW j \in Instances
      PROVE  /\ Alike(inst'[j], inst[j])
             /\ Job(j, inst'[j], authFile, authLock', issued, expired, lost')
  <2>1. Alike(inst'[j], inst[j]) /\ (inst[j].robbed \/ j \in Holder => inst'[j].robbed)
        /\ (inst'[j].robbed => inst[j].robbed \/ j \in Holder)
    BY <1>1, <1>2, RobFacts
  <2>2. Refreshes(inst[j]) => inst'[j].robbed
    <3>1. CASE authLock = j
      BY <2>1, <3>1 DEF Holder, Refreshes
    <3>2. CASE authLock # j
      BY <2>1, <3>2, OthersRobbed
    <3> QED BY <3>1, <3>2
  <2>3. j \in Holder => Sent(j) \in lost'
    BY <1>1 DEF SentBy
  <2>4. ~Refreshes(inst[j]) => ~inst'[j].robbed
    BY <1>3, <2>1, InstanceFacts DEF Job
  <2>5. Job(j, inst'[j], authFile, authLock', issued, expired, lost')
    BY <1>2, <1>4, <2>1, <2>2, <2>3, <2>4, LaterJob
  <2> QED BY <2>1, <2>5
<1>6. inst' \in [Instances -> Instance]
  BY <1>1, <1>2, RobFacts
<1>7. authLock' \in Instances \cup {Nobody} /\ expired' \subseteq 1 .. issued
  BY <1>1, <1>2
<1>8. \A j \in Instances :
         /\ Job(j, inst'[j], authFile, authLock', issued, expired', lost')
         /\ inst'[j].fresh \in {0, inst[j].fresh}
         /\ Refreshes(inst'[j]) => \/ inst'[j].current = authFile
                                   \/ Refreshes(inst[j]) /\ inst'[j].current = inst[j].current
         /\ inst[j].fresh # 0 =>
               \/ Sent(j) \in lost'
               \/ inst'[j].fresh # 0 /\ inst'[j].current[inst'[j].provider] = Sent(j)
  BY <1>1, <1>5 DEF Alike, Refreshes, Sent
<1> HIDE DEF AuthInv
<1> QED BY <1>1, <1>4, <1>6, <1>7, <1>8, QuietStep

LEMMA AuthExpire ==
    ASSUME AuthInv, NEW v, Expire(v)
    PROVE  AuthInv'
<1>1. v \in 1 .. issued /\ expired' = expired \cup {v}
      /\ UNCHANGED <<authFile, authLock, inst, issued, spent, lost, mishaps>>
  BY DEF Expire
<1>2. /\ inst \in [Instances -> Instance] /\ issued \in Nat /\ authLock \in Instances \cup {Nobody}
      /\ lost \subseteq 1 .. issued /\ expired \subseteq 1 .. issued
  BY AuthTypes DEF AuthInv
<1>3. ASSUME NEW j \in Instances PROVE Job(j, inst[j], authFile, authLock, issued, expired', lost)
  <2>1. Alike(inst[j], inst[j]) /\ (~Refreshes(inst[j]) => ~inst[j].robbed)
    BY InstanceFacts DEF Alike, Job
  <2> QED BY <1>1, <1>2, <2>1, LaterJob
<1>4. \A j \in Instances :
         /\ Job(j, inst'[j], authFile, authLock', issued, expired', lost')
         /\ inst'[j].fresh \in {0, inst[j].fresh}
         /\ Refreshes(inst'[j]) => \/ inst'[j].current = authFile
                                   \/ Refreshes(inst[j]) /\ inst'[j].current = inst[j].current
         /\ inst[j].fresh # 0 =>
               \/ Sent(j) \in lost'
               \/ inst'[j].fresh # 0 /\ inst'[j].current[inst'[j].provider] = Sent(j)
  BY <1>1, <1>3 DEF Sent
<1>5. /\ inst' \in [Instances -> Instance] /\ authLock' \in Instances \cup {Nobody}
      /\ expired' \subseteq 1 .. issued /\ lost \subseteq lost' /\ lost' \subseteq 1 .. issued
  BY <1>1, <1>2
<1> HIDE DEF AuthInv
<1> QED BY <1>1, <1>4, <1>5, QuietStep

\* set() and remove(): the file is written only while no instance holds its lock.
LEMMA AuthChange ==
    ASSUME AuthInv, NEW i \in Instances, NEW o \in Providers, NEW v \in Credentials, Change(i, o, v),
           \/ v = 0 /\ issued' = issued
           \/ v = issued + 1 /\ issued' = issued + 1,
           issued' \in Credentials, mishaps' = mishaps \/ Mishap
    PROVE  AuthInv' /\ WritesOneForward
<1>1. UNCHANGED <<authLock, expired, spent, lost>>
  BY DEF Change
<1>2. /\ inst \in [Instances -> Instance] /\ issued \in Nat /\ authLock \in Instances \cup {Nobody}
      /\ lost \subseteq 1 .. issued /\ expired \subseteq 1 .. issued /\ Nobody \notin Instances
      /\ authFile \in [Providers -> Credentials] /\ Credentials = 0 .. MaxIssued /\ MaxIssued \in Nat
      /\ spent \in [Credentials -> 0 .. 2]
  BY AuthTypes DEF AuthInv
<1>3. PICK X \in Instance : inst' = [inst EXCEPT ![i] = X] /\ Alike(X, inst[i]) /\ X.robbed = inst[i].robbed
  <2>1. CASE ~inst[i].loadError /\ authLock = Nobody
    <3>1. PICK X : X = [inst[i] EXCEPT !.data[o] = v, !.listed = FALSE]
      OBVIOUS
    <3>2. X \in Instance /\ Alike(X, inst[i]) /\ X.robbed = inst[i].robbed
      BY <3>1, InstanceFacts DEF Instance, Alike
    <3>3. inst' = [inst EXCEPT ![i] = X]
      BY <1>2, <2>1, <3>1 DEF Change
    <3> QED BY <3>2, <3>3
  <2>2. CASE ~(~inst[i].loadError /\ authLock = Nobody)
    <3>1. PICK X : X = [inst[i] EXCEPT !.data[o] = v]
      OBVIOUS
    <3>2. X \in Instance /\ Alike(X, inst[i]) /\ X.robbed = inst[i].robbed
      BY <3>1, InstanceFacts DEF Instance, Alike
    <3>3. inst' = [inst EXCEPT ![i] = X]
      BY <1>2, <2>2, <3>1 DEF Change
    <3> QED BY <3>2, <3>3
  <2> QED BY <2>1, <2>2
<1>4. authFile' = authFile \/ (authLock = Nobody /\ authFile' = [authFile EXCEPT ![o] = v])
  BY DEF Change, Merged
<1>5. inst' \in [Instances -> Instance] /\ \A j \in Instances : inst'[j] = IF j = i THEN X ELSE inst[j]
  BY <1>2, <1>3
<1>6. ASSUME NEW j \in Instances
      PROVE  /\ Alike(inst'[j], inst[j])
             /\ Job(j, inst'[j], authFile', authLock, issued', expired, lost)
  <2>1. Alike(inst'[j], inst[j]) /\ inst'[j].robbed = inst[j].robbed
    BY <1>3, <1>5 DEF Alike
  <2>2. ~Refreshes(inst[j]) => ~inst'[j].robbed
    BY <2>1, InstanceFacts DEF Job
  <2>3. Refreshes(inst[j]) /\ ~inst'[j].robbed => ~inst[j].robbed /\ authFile' = authFile
    BY <1>2, <1>4, <2>1, InstanceFacts DEF Job
  <2>4. issued' \in Nat /\ issued <= issued'
    BY <1>2
  <2> HIDE DEF AuthInv
  <2>5. Refreshes(inst[j]) /\ inst'[j].robbed => inst[j].robbed \/ Sent(j) \in lost
    BY <2>1
  <2>6. Job(j, inst'[j], authFile', authLock, issued', expired, lost)
    BY <2>1, <2>2, <2>3, <2>4, <2>5, LaterJob
  <2> QED BY <2>1, <2>6
<1>7. /\ authFile' \in [Providers -> Credentials] /\ lost' \subseteq 1 .. issued' /\ expired' \subseteq 1 .. issued'
      /\ \A u \in Providers : authFile'[u] \in {authFile[u], v} /\ (u # o => authFile'[u] = authFile[u])
      /\ authFile'[o] = authFile[o] \/ authFile'[o] = v
  BY <1>1, <1>2, <1>4
<1>8. AuthTypeOK'
  BY <1>1, <1>5, <1>7, MishapType DEF AuthInv, AuthTypeOK
<1>9. IssuedOnce(authFile, issued)' /\ WritesOneForward
  <2>1. IssuedOnce(authFile, issued)
    BY DEF AuthInv
  <2>2. IssuedOnce(authFile, issued)'
    <3>1. /\ authFile \in [Providers -> Nat] /\ issued' \in Nat /\ issued <= issued'
          /\ v \in Nat /\ v <= issued' /\ (v = 0 \/ \A u \in Providers \ {o} : authFile[u] < v)
      BY <1>2, <2>1 DEF IssuedOnce
    <3>2. IssuedOnce([authFile EXCEPT ![o] = v], issued')
      BY <1>2, <2>1, <3>1, IssuedAgain
    <3>3. IssuedOnce(authFile, issued')
      BY <1>2, <2>1, <3>1 DEF IssuedOnce
    <3> QED BY <1>4, <3>2, <3>3
  <2>3. authFile'[o] >= authFile[o] \/ authFile'[o] = 0
    BY <1>2, <1>7, <2>1 DEF IssuedOnce
  <2> QED BY <1>7, <2>2, <2>3 DEF WritesOneForward
<1>10. ASSUME NEW j \in Instances, NEW f \in Credentials, inst'[j].fresh = f, f # 0 PROVE Unknown(j, f)'
  <2>1. inst[j].fresh = f /\ Unknown(j, f) /\ f <= issued
    BY <1>6, <1>10, InstanceFacts DEF AuthInv, AnswersUnknown, Alike, Job, Refreshes
  <2>2. spent'[f] = 0 /\ \A u \in Providers : authFile'[u] # f
    BY <1>1, <1>2, <1>7, <1>10, <2>1 DEF Unknown
  <2>3. ASSUME NEW k \in Instances \ {j}
        PROVE  inst'[k].fresh # f /\ (Refreshes(inst'[k]) => \A u \in Providers : inst'[k].current[u] # f)
    BY <1>6, <2>1 DEF Unknown, Refreshes, Alike
  <2> QED BY <2>2, <2>3 DEF Unknown, Refreshes
<1>11. ASSUME NEW w, InFlight(w) PROVE InFlight(w)'
  BY <1>6, <1>11 DEF InFlight, Sent, Alike
<1>12. SentIsGone'
  <2> SUFFICES ASSUME NEW w \in Credentials, spent[w] >= 1
               PROVE  w \in 1 .. issued' /\ (w \in lost \/ InFlight(w)' \/ \A u \in Providers : authFile'[u] # w)
    BY <1>1 DEF SentIsGone
  <2>1. w \in 1 .. issued /\ (w \in lost \/ InFlight(w) \/ \A u \in Providers : authFile[u] # w)
    BY DEF AuthInv, SentIsGone
  <2>2. w \in 1 .. issued' /\ w # v
    BY <1>2, <2>1
  <2> QED BY <1>7, <1>11, <2>1, <2>2
<1>13. RefreshedOnce'
  BY <1>1 DEF AuthInv, RefreshedOnce
<1> QED BY <1>1, <1>6, <1>8, <1>9, <1>10, <1>12, <1>13 DEF AuthInv, AnswersUnknown

LEMMA FileUntouched ==
    ASSUME AuthTypeOK, UNCHANGED authFile
    PROVE  WritesOneForward
<1>1. PICK o \in Providers : TRUE
  BY AuthAssumption
<1>2. authFile[o] \in Nat
  BY <1>1, AuthTypes
<1> QED BY <1>1, <1>2 DEF WritesOneForward

\* Each step of an instance, of time or of the lock.
LEMMA AuthStep ==
    ASSUME AuthInv, [AuthNext]_authVars
    PROVE  AuthInv' /\ (StoredUnaware \/ WritesOneForward)
<1>0. AuthTypeOK
  BY DEF AuthInv
<1>1. CASE UNCHANGED authVars
  <2>1. AuthInv'
    BY <1>1 DEF authVars, AuthInv, AuthTypeOK, AnswersUnknown, Unknown, SentIsGone, InFlight, Sent, RefreshedOnce
  <2> QED BY <1>0, <1>1, <2>1, FileUntouched DEF authVars
<1>2. ASSUME NEW i \in Instances, StartOrReload(i) PROVE AuthInv' /\ WritesOneForward
  BY <1>0, <1>2, AuthStartOrReload, FileUntouched DEF StartOrReload
<1>3. ASSUME NEW i \in Instances, Fetch(i) PROVE AuthInv' /\ WritesOneForward
  BY <1>0, <1>3, AuthFetch, FileUntouched DEF Fetch
<1>4. ASSUME NEW i \in Instances, LockDenied(i) PROVE AuthInv' /\ WritesOneForward
  BY <1>0, <1>4, AuthLockDenied, FileUntouched DEF LockDenied
<1>5. ASSUME NEW i \in Instances, Answer(i) PROVE AuthInv' /\ WritesOneForward
  BY <1>0, <1>5, AuthAnswer, FileUntouched DEF Answer
<1>6. ASSUME NEW i \in Instances, FetchFails(i) PROVE AuthInv' /\ WritesOneForward
  BY <1>0, <1>6, AuthFetchFails, FileUntouched DEF FetchFails
<1>7. ASSUME NEW i \in Instances, GiveUp(i) PROVE AuthInv' /\ WritesOneForward
  BY <1>0, <1>7, AuthGiveUp, FileUntouched DEF GiveUp
<1>8. ASSUME NEW i \in Instances, InstanceDies(i) PROVE AuthInv' /\ WritesOneForward
  BY <1>0, <1>8, AuthDies, FileUntouched DEF InstanceDies
<1>9. ASSUME NEW i \in Instances, Compromised(i) PROVE AuthInv' /\ WritesOneForward
  BY <1>0, <1>9, AuthCompromised, FileUntouched DEF Compromised
<1>10. ASSUME NEW i \in Instances, NEW o \in Providers, NeedKey(i, o) PROVE AuthInv' /\ WritesOneForward
  BY <1>0, <1>10, AuthNeedKey, FileUntouched DEF NeedKey
<1>11. ASSUME NEW i \in Instances, NEW o \in Providers, Login(i, o) PROVE AuthInv' /\ WritesOneForward
  <2>1. issued + 1 \in Credentials /\ issued' \in Credentials /\ issued' = issued + 1
    BY <1>0, <1>11, AuthTypes DEF Login
  <2> QED BY <1>11, <2>1, AuthChange DEF Login
<1>12. ASSUME NEW i \in Instances, NEW o \in Providers, Logout(i, o) PROVE AuthInv' /\ WritesOneForward
  <2>1. 0 \in Credentials /\ issued' \in Credentials /\ issued' = issued
    BY <1>0, <1>12, AuthTypes DEF Logout
  <2> QED BY <1>12, <2>1, AuthChange DEF Logout
<1>13. ASSUME NEW v, Expire(v) PROVE AuthInv' /\ WritesOneForward
  BY <1>0, <1>13, AuthExpire, FileUntouched DEF Expire
<1>14. CASE LockGoesStale
  BY <1>0, <1>14, AuthStale, FileUntouched DEF LockGoesStale
<1> QED BY <1>1, <1>2, <1>3, <1>4, <1>5, <1>6, <1>7, <1>8, <1>9, <1>10, <1>11, <1>12, <1>13, <1>14, AuthStore
        DEF AuthNext

LEMMA AuthInitInv ==
    ASSUME AuthInit
    PROVE  AuthInv
<1>1. Down \in Instance /\ Down.job = "none" /\ Down.fresh = 0 /\ ~Down.robbed
  BY AuthAssumption DEF Down, Instance, Credentials
<1>2. /\ inst = [i \in Instances |-> Down] /\ authFile = [o \in Providers |-> 0] /\ authLock = Nobody
      /\ issued = 0 /\ expired = {} /\ lost = {} /\ mishaps = 0 /\ spent = [v \in Credentials |-> 0]
  BY DEF AuthInit
<1>3. AuthTypeOK
  BY <1>1, <1>2, AuthAssumption DEF AuthTypeOK, Credentials
<1>4. \A i \in Instances : Job(i, inst[i], authFile, authLock, issued, expired, lost) /\ inst[i].fresh = 0
  BY <1>1, <1>2 DEF Job, Refreshes
<1>5. IssuedOnce(authFile, issued) /\ SentIsGone /\ RefreshedOnce
  BY <1>2 DEF IssuedOnce, SentIsGone, RefreshedOnce
<1>6. AnswersUnknown
  BY <1>4 DEF AnswersUnknown
<1> QED BY <1>3, <1>4, <1>5, <1>6 DEF AuthInv

\* In every reachable state: what an instance has read under its lock is what the
\* file holds, or it was robbed of the lock and the credential it sends counts as
\* lost; and nobody else knows of its answer (refreshOAuthTokenWithLock).
THEOREM AuthInvariant == AuthSpec => []AuthInv
<1>1. AuthInv /\ [AuthNext]_authVars => AuthInv'
  BY AuthStep
<1> QED BY <1>1, AuthInitInv, PTL DEF AuthSpec

\* Instances that share auth.json, whatever lock goes stale, whoever dies and whatever
\* request fails: no refresh token is spent twice, and no login or refresh undone, but
\* by a refresh that lost its lock or its answer; one that was told of it writes
\* nothing (withLock, withLockAsync, refreshOAuthTokenWithLock).
THEOREM CredentialsAlwaysKept == AuthSpec => CredentialsKept
<1>1. AuthInv /\ [AuthNext]_authVars => [RefreshedOnce' /\ (StoredUnaware \/ WritesOneForward)]_authVars
  BY AuthStep DEF AuthInv
<1> QED BY <1>1, AuthInvariant, PTL DEF AuthSpec, CredentialsKept

-----------------------------------------------------------------------------
(* Settings                                                                *)

\* What a manager's marks and queued writes are about it has set lately (R); the
\* last write queued holds every mark; and what is not yet saved (U), its late
\* failures (L) apart, is marked or queued.
ManagerSound(M, R, U, L) ==
    /\ M.creating => M.queue # <<>>
    /\ M.modified \subseteq R
    /\ \A i \in DOMAIN M.queue : M.queue[i].fields \subseteq R
    /\ ~M.loadError /\ M.queue # <<>> => M.modified \subseteq M.queue[Len(M.queue)].fields
    /\ ~M.loadError =>
          \A f \in U \ L : f \in M.modified \/ \E i \in DOMAIN M.queue : f \in M.queue[i].fields

SettingsInv ==
    /\ SettingsTypeOK
    /\ \A m \in Managers : ManagerSound(mgr[m], recent[m], unsaved[m], failedLate[m])

\* A step that concerns one manager: its new state has to be sound.
LEMMA OneManager ==
    ASSUME SettingsInv, NEW m \in Managers, NEW X \in Manager,
           NEW R \in SUBSET Fields, NEW U \in SUBSET Fields, NEW L \in SUBSET Fields,
           mgr' = [mgr EXCEPT ![m] = X], recent' = [recent EXCEPT ![m] = R],
           unsaved' = [unsaved EXCEPT ![m] = U], failedLate' = [failedLate EXCEPT ![m] = L],
           settingsFile' \in Values \cup {NoFile}, sets' \in 0 .. MaxSets,
           ManagerSound(X, R, U, L)
    PROVE  SettingsInv'
<1>1. SettingsTypeOK'
  BY DEF SettingsInv, SettingsTypeOK
<1>2. ASSUME NEW k \in Managers
      PROVE  ManagerSound(mgr[k], recent[k], unsaved[k], failedLate[k])'
  <2>1. CASE k = m
    BY <2>1 DEF SettingsInv, SettingsTypeOK, ManagerSound
  <2>2. CASE k # m
    BY <2>2 DEF SettingsInv, SettingsTypeOK, ManagerSound
  <2> QED BY <2>1, <2>2
<1> QED BY <1>1, <1>2 DEF SettingsInv

LEMMA ManagerFacts ==
    ASSUME SettingsInv, NEW m \in Managers
    PROVE  /\ mgr[m] \in Manager /\ recent[m] \in SUBSET Fields
           /\ unsaved[m] \in SUBSET Fields /\ failedLate[m] \in SUBSET Fields
           /\ ManagerSound(mgr[m], recent[m], unsaved[m], failedLate[m])
           /\ settingsFile \in Values \cup {NoFile} /\ sets \in 0 .. MaxSets
           /\ MaxSets \in Nat /\ NoFile \notin Values
BY SettingsAssumption DEF SettingsInv, SettingsTypeOK, Values

LEMMA SameElsewhere ==
    ASSUME SettingsInv, NEW m \in Managers
    PROVE  /\ mgr = [mgr EXCEPT ![m] = mgr[m]] /\ recent = [recent EXCEPT ![m] = recent[m]]
           /\ unsaved = [unsaved EXCEPT ![m] = unsaved[m]]
           /\ failedLate = [failedLate EXCEPT ![m] = failedLate[m]]
BY DEF SettingsInv, SettingsTypeOK

\* What Head and Tail leave of a queue.
LEMMA QueueParts ==
    ASSUME NEW S, NEW q \in Seq(S), q # <<>>
    PROVE  /\ Tail(q) \in Seq(S) /\ Head(q) \in S /\ Head(q) = q[1] /\ 1 \in DOMAIN q
           /\ Len(q) \in DOMAIN q
           /\ Len(Tail(q)) = Len(q) - 1
           /\ \A i \in DOMAIN Tail(q) : i + 1 \in DOMAIN q /\ Tail(q)[i] = q[i + 1]
           /\ \A i \in DOMAIN q : i # 1 => i - 1 \in DOMAIN Tail(q) /\ Tail(q)[i - 1] = q[i]
           /\ Tail(q) # <<>> => Tail(q)[Len(Tail(q))] = q[Len(q)]
<1>1. Len(q) \in Nat /\ Len(q) >= 1
  OBVIOUS
<1>2. Tail(q) \in Seq(S) /\ Len(Tail(q)) = Len(q) - 1
  OBVIOUS
<1>3. \A i \in 1 .. Len(q) - 1 : Tail(q)[i] = q[i + 1]
  OBVIOUS
<1>4. DOMAIN q = 1 .. Len(q) /\ DOMAIN Tail(q) = 1 .. Len(q) - 1
  BY <1>2
<1>5. Head(q) = q[1] /\ q[1] \in S
  BY <1>1
<1>6. Tail(q) # <<>> => Len(q) - 1 >= 1
  BY <1>1, <1>2
<1> HIDE DEF Write
<1> QED BY <1>1, <1>2, <1>3, <1>4, <1>5, <1>6

LEMMA SetFieldSound ==
    ASSUME SettingsInv, NEW m \in Managers, NEW f \in Fields, SetField(m, f)
    PROVE  SettingsInv'
<1> DEFINE M == mgr[m]
           mem == [M.mem EXCEPT ![f] = sets + 1]
           marks == M.modified \cup {f}
           w == [values |-> mem, fields |-> marks]
           X == [M EXCEPT !.mem = mem, !.modified = marks,
                          !.queue = IF M.loadError THEN @ ELSE Append(@, w)]
<1>1. /\ M \in Manager /\ recent[m] \in SUBSET Fields /\ unsaved[m] \in SUBSET Fields
      /\ failedLate[m] \in SUBSET Fields /\ sets \in 0 .. MaxSets /\ MaxSets \in Nat
      /\ settingsFile \in Values \cup {NoFile}
      /\ ManagerSound(M, recent[m], unsaved[m], failedLate[m])
  BY ManagerFacts
<1>2. /\ sets < MaxSets /\ sets' = sets + 1 /\ settingsFile' = settingsFile /\ ~M.creating
      /\ recent' = [recent EXCEPT ![m] = @ \cup {f}]
      /\ unsaved' = [unsaved EXCEPT ![m] = @ \cup {f}]
      /\ failedLate' = [failedLate EXCEPT ![m] = @ \ {f}]
  BY DEF SetField, Idle
<1>3. mgr' = [mgr EXCEPT ![m] = X]
  BY DEF SetField, SettingsInv, SettingsTypeOK, Manager
<1>4. sets + 1 \in 0 .. MaxSets
  BY <1>1, <1>2
<1>5. mem \in Values /\ marks \in SUBSET Fields
  BY <1>1, <1>4 DEF Manager, Values
<1> HIDE DEF mem, marks
<1>6. w \in Write
  BY <1>5 DEF Write
<1>7. M.queue \in Seq(Write)
  BY <1>1 DEF Manager
<1>8. /\ X \in Manager /\ X.modified = marks /\ X.loadError = M.loadError /\ ~X.creating
      /\ X.queue = IF M.loadError THEN M.queue ELSE Append(M.queue, w)
  <2>1. Append(M.queue, w) \in Seq(Write)
    BY <1>6, <1>7
  <2> HIDE DEF w
  <2> QED BY <1>1, <1>2, <1>5, <2>1 DEF Manager
<1> HIDE DEF X
<1>9. ManagerSound(X, recent[m] \cup {f}, unsaved[m] \cup {f}, failedLate[m] \ {f})
  <2>1. CASE M.loadError
    BY <1>1, <1>8, <2>1 DEF ManagerSound, marks
  <2>2. CASE ~M.loadError
    <3>1. /\ X.queue # <<>> /\ Len(X.queue) \in DOMAIN X.queue /\ X.queue[Len(X.queue)] = w
          /\ \A i \in DOMAIN X.queue : X.queue[i] = w \/ (i \in DOMAIN M.queue /\ X.queue[i] = M.queue[i])
      <4> HIDE DEF w
      <4> QED BY <1>6, <1>7, <1>8, <2>2
    <3>2. \A i \in DOMAIN M.queue : i \in DOMAIN X.queue /\ X.queue[i] = M.queue[i]
      <4> HIDE DEF w
      <4> QED BY <1>6, <1>7, <1>8, <2>2
    <3>3. w.fields = marks
      OBVIOUS
    <3> HIDE DEF w
    <3>4. \A i \in DOMAIN X.queue : X.queue[i].fields \subseteq recent[m] \cup {f}
      BY <1>1, <3>1, <3>3 DEF ManagerSound, marks
    <3>5. \A g \in (unsaved[m] \cup {f}) \ (failedLate[m] \ {f}) : g \in X.modified \/ \E i \in DOMAIN X.queue : g \in X.queue[i].fields
      BY <1>1, <1>8, <2>2, <3>2 DEF ManagerSound, marks
    <3>6. X.modified \subseteq recent[m] \cup {f}
      BY <1>1, <1>8 DEF ManagerSound, marks
    <3> QED BY <1>8, <3>1, <3>3, <3>4, <3>5, <3>6 DEF ManagerSound
  <2> QED BY <2>1, <2>2
<1>10. /\ recent[m] \cup {f} \in SUBSET Fields /\ unsaved[m] \cup {f} \in SUBSET Fields
       /\ failedLate[m] \ {f} \in SUBSET Fields /\ X \in Manager
       /\ settingsFile' \in Values \cup {NoFile} /\ sets' \in 0 .. MaxSets
  BY <1>1, <1>2, <1>4, <1>8
<1> QED BY <1>2, <1>3, <1>9, <1>10, OneManager

LEMMA WrittenSound ==
    ASSUME SettingsInv, NEW m \in Managers, mgr[m].queue # <<>>, NEW base \in Values, Written(m, base)
    PROVE  SettingsInv' /\ \A f \in Fields \ recent[m] : settingsFile'[f] = base[f]
<1> DEFINE M == mgr[m]
           h == Head(M.queue)
           rest == Tail(M.queue)
           U == {f \in unsaved[m] : f \in h.fields =>
                    \E i \in DOMAIN rest : f \in rest[i].fields /\ rest[i].values[f] # h.values[f]}
           R == IF rest = <<>> THEN {} ELSE recent[m]
           X == [M EXCEPT !.modified = {}, !.queue = rest, !.creating = FALSE,
                          !.reloading = Awaited(@)]
<1>1. /\ M \in Manager /\ recent[m] \in SUBSET Fields /\ unsaved[m] \in SUBSET Fields
      /\ failedLate[m] \in SUBSET Fields /\ sets \in 0 .. MaxSets
      /\ ManagerSound(M, recent[m], unsaved[m], failedLate[m])
  BY ManagerFacts
<1>2. /\ settingsFile' = MergedInto(base, h) /\ sets' = sets
      /\ failedLate' = [failedLate EXCEPT ![m] = failedLate[m]]
      /\ recent' = [recent EXCEPT ![m] = R] /\ unsaved' = [unsaved EXCEPT ![m] = U]
  BY SameElsewhere DEF Written
<1>3. mgr' = [mgr EXCEPT ![m] = X]
  <2>1. mgr' = [mgr EXCEPT ![m] = ClearMarks([M EXCEPT !.queue = rest, !.creating = FALSE,
                                                       !.reloading = Awaited(@)])]
    BY DEF Written
  <2>2. ClearMarks([M EXCEPT !.queue = rest, !.creating = FALSE, !.reloading = Awaited(@)]) = X
    BY <1>1 DEF ClearMarks, Manager
  <2> QED BY <2>1, <2>2
<1>4. M.queue \in Seq(Write) /\ M.queue # <<>> /\ M.reloading \in Nat
  BY <1>1 DEF Manager
<1>5. Awaited(M.reloading) \in Nat
  BY <1>4 DEF Awaited
<1> HIDE DEF M
<1>6. /\ rest \in Seq(Write) /\ h \in Write /\ h = M.queue[1] /\ 1 \in DOMAIN M.queue
      /\ \A i \in DOMAIN rest : i + 1 \in DOMAIN M.queue /\ rest[i] = M.queue[i + 1]
      /\ \A i \in DOMAIN M.queue : i # 1 => i - 1 \in DOMAIN rest /\ rest[i - 1] = M.queue[i]
      /\ rest # <<>> => rest[Len(rest)] = M.queue[Len(M.queue)]
      /\ rest # <<>> => Len(rest) \in DOMAIN rest
      /\ rest = <<>> => M.queue[Len(M.queue)] = h
  <2>1. /\ rest \in Seq(Write) /\ h \in Write /\ h = M.queue[1] /\ 1 \in DOMAIN M.queue
        /\ \A i \in DOMAIN rest : i + 1 \in DOMAIN M.queue /\ rest[i] = M.queue[i + 1]
        /\ \A i \in DOMAIN M.queue : i # 1 => i - 1 \in DOMAIN rest /\ rest[i - 1] = M.queue[i]
        /\ rest # <<>> => rest[Len(rest)] = M.queue[Len(M.queue)]
        /\ Len(rest) = Len(M.queue) - 1
    BY <1>4, QueueParts
  <2> HIDE DEF rest, h
  <2>2. rest # <<>> => Len(rest) \in DOMAIN rest
    BY <2>1
  <2>3. rest = <<>> => Len(M.queue) = 1
    BY <1>4, <2>1
  <2> QED BY <2>1, <2>2, <2>3
<1> HIDE DEF rest, h
<1>7. /\ X \in Manager /\ X.modified = {} /\ X.loadError = M.loadError /\ ~X.creating /\ X.queue = rest
  BY <1>1, <1>5, <1>6 DEF Manager
<1>8. h.fields \subseteq recent[m] /\ h.fields \in SUBSET Fields /\ h.values \in Values
  BY <1>1, <1>6 DEF ManagerSound, Write
<1> HIDE DEF X
<1>9. ManagerSound(X, R, U, failedLate[m])
  <2>1. \A i \in DOMAIN rest : rest[i].fields \subseteq R
    BY <1>1, <1>6 DEF ManagerSound
  <2>2. ASSUME ~M.loadError, NEW f \in U \ failedLate[m]
        PROVE  \E i \in DOMAIN rest : f \in rest[i].fields
    <3>1. CASE f \in h.fields
      BY <2>2, <3>1
    <3>2. CASE f \notin h.fields
      <4>1. f \in M.modified \/ \E i \in DOMAIN M.queue : f \in M.queue[i].fields
        BY <1>1, <2>2 DEF ManagerSound
      <4>2. f \notin M.modified \/ f \in M.queue[Len(M.queue)].fields
        BY <1>1, <1>4, <2>2 DEF ManagerSound
      <4>3. CASE f \in M.queue[Len(M.queue)].fields
        BY <1>6, <3>2, <4>3
      <4>4. ASSUME NEW i \in DOMAIN M.queue, f \in M.queue[i].fields
            PROVE  \E j \in DOMAIN rest : f \in rest[j].fields
        BY <1>6, <3>2, <4>4
      <4> QED BY <4>1, <4>2, <4>3, <4>4
    <3> QED BY <3>1, <3>2
  <2> HIDE DEF U, R
  <2> QED BY <1>7, <2>1, <2>2 DEF ManagerSound
<1>10. MergedInto(base, h) \in Values
  BY <1>8 DEF MergedInto, Values
<1>11. \A f \in Fields \ recent[m] : settingsFile'[f] = base[f]
  BY <1>2, <1>8 DEF MergedInto
<1>12. R \in SUBSET Fields /\ U \in SUBSET Fields /\ X \in Manager /\ sets' \in 0 .. MaxSets
  BY <1>1, <1>2, <1>7
<1> HIDE DEF R, U
<1>13. SettingsInv'
  BY <1>1, <1>2, <1>3, <1>9, <1>10, <1>12, OneManager
<1> QED BY <1>11, <1>13

LEMMA WriteFailsSound ==
    ASSUME SettingsInv, NEW m \in Managers, WriteFails(m)
    PROVE  SettingsInv'
<1> DEFINE M == mgr[m]
           h == Head(M.queue)
           rest == Tail(M.queue)
           L == failedLate[m] \cup (h.fields \ M.modified)
           X == [M EXCEPT !.queue = rest, !.creating = FALSE, !.reloading = Awaited(@)]
<1>1. /\ M \in Manager /\ recent[m] \in SUBSET Fields /\ unsaved[m] \in SUBSET Fields
      /\ failedLate[m] \in SUBSET Fields /\ sets \in 0 .. MaxSets
      /\ settingsFile \in Values \cup {NoFile}
      /\ ManagerSound(M, recent[m], unsaved[m], failedLate[m])
  BY ManagerFacts
<1>2. /\ settingsFile' = settingsFile /\ sets' = sets
      /\ failedLate' = [failedLate EXCEPT ![m] = L]
      /\ recent' = [recent EXCEPT ![m] = recent[m]] /\ unsaved' = [unsaved EXCEPT ![m] = unsaved[m]]
  BY SameElsewhere DEF WriteFails
<1>3. mgr' = [mgr EXCEPT ![m] = X]
  BY DEF WriteFails, Failed
<1>4. M.queue \in Seq(Write) /\ M.queue # <<>> /\ M.reloading \in Nat
  BY <1>1 DEF Manager, WriteFails, MayWrite, ManagerSound
<1>5. Awaited(M.reloading) \in Nat
  BY <1>4 DEF Awaited
<1> HIDE DEF M
<1>6. /\ rest \in Seq(Write) /\ h \in Write /\ h = M.queue[1]
      /\ \A i \in DOMAIN rest : i + 1 \in DOMAIN M.queue /\ rest[i] = M.queue[i + 1]
      /\ \A i \in DOMAIN M.queue : i # 1 => i - 1 \in DOMAIN rest /\ rest[i - 1] = M.queue[i]
      /\ rest # <<>> => rest[Len(rest)] = M.queue[Len(M.queue)]
  BY <1>4, QueueParts
<1> HIDE DEF rest, h
<1>7. /\ X \in Manager /\ X.modified = M.modified /\ X.loadError = M.loadError
      /\ ~X.creating /\ X.queue = rest
  BY <1>1, <1>5, <1>6 DEF Manager
<1>8. h.fields \in SUBSET Fields
  BY <1>6 DEF Write
<1> HIDE DEF X
<1>9. ManagerSound(X, recent[m], unsaved[m], L)
  <2>1. \A i \in DOMAIN rest : rest[i].fields \subseteq recent[m]
    BY <1>1, <1>6 DEF ManagerSound
  <2>2. ASSUME ~M.loadError, NEW f \in unsaved[m] \ L
        PROVE  f \in M.modified \/ \E i \in DOMAIN rest : f \in rest[i].fields
    <3>1. CASE f \in M.modified
      BY <3>1
    <3>2. CASE f \notin M.modified
      <4>1. PICK i \in DOMAIN M.queue : f \in M.queue[i].fields
        BY <1>1, <2>2, <3>2 DEF ManagerSound
      <4>2. f \notin h.fields
        BY <2>2, <3>2
      <4> QED BY <1>6, <4>1, <4>2
    <3> QED BY <3>1, <3>2
  <2>3. ~M.loadError /\ rest # <<>> => M.modified \subseteq rest[Len(rest)].fields
    BY <1>1, <1>4, <1>6 DEF ManagerSound
  <2>4. M.modified \subseteq recent[m]
    BY <1>1 DEF ManagerSound
  <2> HIDE DEF L
  <2> QED BY <1>7, <2>1, <2>2, <2>3, <2>4 DEF ManagerSound
<1>10. L \in SUBSET Fields /\ X \in Manager /\ sets' \in 0 .. MaxSets
       /\ settingsFile' \in Values \cup {NoFile}
  BY <1>1, <1>2, <1>7, <1>8
<1> HIDE DEF L
<1> QED BY <1>1, <1>2, <1>3, <1>9, <1>10, OneManager

LEMMA ReloadSettingsSound ==
    ASSUME SettingsInv, NEW m \in Managers, ReloadSettings(m)
    PROVE  SettingsInv'
<1> DEFINE M == mgr[m]
           R == IF M.queue = <<>> THEN {} ELSE recent[m]
           U == {f \in unsaved[m] : InQueue(m, f)}
<1>1. /\ M \in Manager /\ recent[m] \in SUBSET Fields /\ unsaved[m] \in SUBSET Fields
      /\ failedLate[m] \in SUBSET Fields /\ sets \in 0 .. MaxSets
      /\ settingsFile \in Values \cup {NoFile} /\ NoFile \notin Values /\ MaxSets \in Nat
      /\ ManagerSound(M, recent[m], unsaved[m], failedLate[m])
  BY ManagerFacts
<1>2. /\ settingsFile' = settingsFile /\ sets' = sets /\ ~M.creating
      /\ recent' = [recent EXCEPT ![m] = R] /\ unsaved' = [unsaved EXCEPT ![m] = U]
      /\ failedLate' = [failedLate EXCEPT ![m] = {}]
  BY DEF ReloadSettings, Idle
<1>3. PICK error \in BOOLEAN :
          mgr' = [mgr EXCEPT ![m].reloading = 0, ![m].modified = {}, ![m].loadError = error,
                             ![m].mem = IF error THEN @ ELSE Stored]
  BY DEF ReloadSettings
<1> DEFINE mem == IF error THEN M.mem ELSE Stored
           X == [M EXCEPT !.reloading = 0, !.modified = {}, !.loadError = error, !.mem = mem]
<1>4. mgr' = [mgr EXCEPT ![m] = X]
  BY <1>1, <1>3 DEF SettingsInv, SettingsTypeOK, Manager
<1>5. mem \in Values
  BY <1>1 DEF Stored, Holds, Nothing, Values, Manager
<1> HIDE DEF mem
<1>6. /\ X \in Manager /\ X.modified = {} /\ X.queue = M.queue /\ ~X.creating
  BY <1>1, <1>2, <1>5 DEF Manager
<1> HIDE DEF X
<1>7. ManagerSound(X, R, U, {})
  BY <1>1, <1>6 DEF ManagerSound, InQueue
<1>8. R \in SUBSET Fields /\ U \in SUBSET Fields /\ {} \in SUBSET Fields /\ X \in Manager
      /\ sets' \in 0 .. MaxSets /\ settingsFile' \in Values \cup {NoFile}
  BY <1>1, <1>2, <1>6
<1> HIDE DEF R, U
<1> QED BY <1>2, <1>4, <1>7, <1>8, OneManager

LEMMA SoundButFlags ==
    ASSUME NEW M \in Manager, NEW X \in Manager, NEW R, NEW U, NEW L, ManagerSound(M, R, U, L),
           X.queue = M.queue, X.modified = M.modified, X.loadError = M.loadError,
           X.creating => M.queue # <<>>
    PROVE  ManagerSound(X, R, U, L)
BY DEF ManagerSound

\* Steps that change nothing of a manager but its flags.
LEMMA FlagsSound ==
    ASSUME SettingsInv, NEW m \in Managers, FindNoFile(m) \/ RequestReload(m)
    PROVE  SettingsInv'
<1> DEFINE M == mgr[m]
<1>1. /\ M \in Manager /\ recent[m] \in SUBSET Fields /\ unsaved[m] \in SUBSET Fields
      /\ failedLate[m] \in SUBSET Fields /\ sets \in 0 .. MaxSets
      /\ settingsFile \in Values \cup {NoFile}
      /\ ManagerSound(M, recent[m], unsaved[m], failedLate[m])
  BY ManagerFacts
<1>2. /\ settingsFile' = settingsFile /\ sets' = sets
      /\ failedLate' = [failedLate EXCEPT ![m] = failedLate[m]]
      /\ recent' = [recent EXCEPT ![m] = recent[m]] /\ unsaved' = [unsaved EXCEPT ![m] = unsaved[m]]
  BY SameElsewhere DEF FindNoFile, RequestReload
<1>3. PICK X \in Manager :
          /\ mgr' = [mgr EXCEPT ![m] = X] /\ X.queue = M.queue
          /\ X.modified = M.modified /\ X.loadError = M.loadError
          /\ X.creating => M.queue # <<>>
  <2>1. CASE FindNoFile(m)
    <3>1. mgr' = [mgr EXCEPT ![m] = [M EXCEPT !.creating = TRUE]] /\ M.queue # <<>>
      BY <2>1 DEF FindNoFile, MayWrite
    <3> QED BY <1>1, <3>1 DEF Manager
  <2>2. CASE RequestReload(m)
    <3>1. /\ mgr' = [mgr EXCEPT ![m] = [M EXCEPT !.reloading = 1 + Len(M.queue)]]
          /\ M.creating = FALSE
      BY <1>1, <2>2 DEF RequestReload, Idle, Manager
    <3>2. 1 + Len(M.queue) \in Nat
      <4>1. M.queue \in Seq(Write)
        BY <1>1 DEF Manager
      <4> QED BY <4>1, LenProperties
    <3> DEFINE n == 1 + Len(M.queue)
               X == [M EXCEPT !.reloading = n]
    <3>3. n \in Nat /\ mgr' = [mgr EXCEPT ![m] = X] /\ M.creating = FALSE
      BY <3>1, <3>2
    <3> HIDE DEF n
    <3>4. /\ X \in Manager /\ X.queue = M.queue /\ X.modified = M.modified
          /\ X.loadError = M.loadError /\ X.creating = FALSE
      BY <1>1, <3>3 DEF Manager
    <3> HIDE DEF X
    <3> QED BY <3>3, <3>4
  <2> QED BY <2>1, <2>2
<1>4. ManagerSound(X, recent[m], unsaved[m], failedLate[m])
  BY <1>1, <1>3, SoundButFlags
<1>5. /\ sets' \in 0 .. MaxSets /\ settingsFile' \in Values \cup {NoFile}
  BY <1>1, <1>2
<1> QED BY <1>1, <1>2, <1>3, <1>4, <1>5, OneManager

LEMMA EditFileSound ==
    ASSUME SettingsInv, NEW f \in Fields, EditFile(f)
    PROVE  SettingsInv'
<1>1. /\ mgr' = mgr /\ recent' = recent /\ unsaved' = unsaved /\ failedLate' = failedLate
      /\ sets < MaxSets /\ sets' = sets + 1 /\ settingsFile' = [Stored EXCEPT ![f] = sets + 1]
  BY DEF EditFile
<1>2. sets' \in 0 .. MaxSets
  BY <1>1, SettingsAssumption DEF SettingsInv, SettingsTypeOK
<1>3. Stored \in Values
  BY SettingsAssumption DEF SettingsInv, SettingsTypeOK, Stored, Holds, Nothing, Values
<1>4. settingsFile' \in Values
  BY <1>1, <1>2, <1>3 DEF Values
<1>5. SettingsTypeOK'
  BY <1>1, <1>2, <1>4 DEF SettingsInv, SettingsTypeOK
<1>6. \A m \in Managers : ManagerSound(mgr[m], recent[m], unsaved[m], failedLate[m])'
  BY <1>1 DEF SettingsInv, ManagerSound
<1> QED BY <1>5, <1>6 DEF SettingsInv

LEMMA SettingsInitInv == SettingsInit => SettingsInv
<1> SUFFICES ASSUME SettingsInit PROVE SettingsInv
  OBVIOUS
<1>1. /\ NewManager.queue = <<>> /\ NewManager.modified = {} /\ NewManager.creating = FALSE
      /\ NewManager.loadError = FALSE
  BY DEF NewManager
<1>2. NewManager \in Manager
  <2>1. Nothing \in Values
    BY SettingsAssumption DEF Nothing, Values
  <2>2. <<>> \in Seq(Write)
    BY EmptySeq
  <2> QED BY <2>1, <2>2 DEF NewManager, Manager
<1>3. SettingsTypeOK
  BY <1>2, SettingsAssumption DEF SettingsInit, SettingsTypeOK, Nothing, Values
<1> HIDE DEF NewManager
<1>4. ASSUME NEW m \in Managers
      PROVE  ManagerSound(mgr[m], recent[m], unsaved[m], failedLate[m])
  <2>1. mgr[m] = NewManager /\ recent[m] = {} /\ unsaved[m] = {} /\ failedLate[m] = {}
    BY DEF SettingsInit
  <2> QED BY <1>1, <2>1 DEF ManagerSound
<1> QED BY <1>3, <1>4 DEF SettingsInv

\* WriteFile and CreateFile give the write the contents of the file as its base;
\* a write that has found no file when there is one now gives it none.
LEMMA WritesSound ==
    ASSUME SettingsInv, NEW m \in Managers, WriteFile(m) \/ CreateFile(m)
    PROVE  /\ SettingsInv' /\ \A k \in Managers : k # m => mgr'[k] = mgr[k]
           /\ ~mgr[m].creating => \A f \in Fields \ recent[m] : Holds(settingsFile')[f] = Stored[f]
<1>1. /\ mgr[m].queue # <<>> /\ settingsFile \in Values \cup {NoFile} /\ NoFile \notin Values
  BY ManagerFacts DEF WriteFile, CreateFile, MayWrite, ManagerSound
<1>2. Nothing \in Values
  BY SettingsAssumption DEF Nothing, Values
<1>3. PICK base \in Values : Written(m, base) /\ (~mgr[m].creating => base = Stored)
  BY <1>1, <1>2 DEF WriteFile, CreateFile, Stored, Holds
<1>4. SettingsInv' /\ \A f \in Fields \ recent[m] : settingsFile'[f] = base[f]
  BY <1>1, <1>3, WrittenSound
<1>5. settingsFile' \in Values
  <2>1. settingsFile' = MergedInto(base, Head(mgr[m].queue))
    BY <1>3 DEF Written
  <2>2. mgr[m].queue \in Seq(Write)
    BY DEF SettingsInv, SettingsTypeOK, Manager
  <2>3. Head(mgr[m].queue) \in Write
    BY <1>1, <2>2
  <2> QED BY <2>1, <2>3 DEF MergedInto, Write, Values
<1>6. \A k \in Managers : k # m => mgr'[k] = mgr[k]
  BY <1>3 DEF Written, SettingsInv, SettingsTypeOK
<1> QED BY <1>1, <1>3, <1>4, <1>5, <1>6 DEF Holds

THEOREM SettingsInvariant == SettingsSpec => []SettingsInv
<1>1. ASSUME SettingsInv, [SettingsNext]_settingsVars PROVE SettingsInv'
  <2>1. CASE UNCHANGED settingsVars
    BY <1>1, <2>1 DEF settingsVars, SettingsInv, SettingsTypeOK, ManagerSound
  <2>2. ASSUME NEW m \in Managers, WriteFile(m) \/ CreateFile(m) PROVE SettingsInv'
    BY <1>1, <2>2, WritesSound
  <2>3. ASSUME NEW m \in Managers, FindNoFile(m) \/ RequestReload(m) PROVE SettingsInv'
    BY <1>1, <2>3, FlagsSound
  <2>4. ASSUME NEW m \in Managers, WriteFails(m) PROVE SettingsInv'
    BY <1>1, <2>4, WriteFailsSound
  <2>5. ASSUME NEW m \in Managers, ReloadSettings(m) PROVE SettingsInv'
    BY <1>1, <2>5, ReloadSettingsSound
  <2>6. ASSUME NEW m \in Managers, NEW f \in Fields, SetField(m, f) PROVE SettingsInv'
    BY <1>1, <2>6, SetFieldSound
  <2>7. ASSUME NEW f \in Fields, EditFile(f) PROVE SettingsInv'
    BY <1>1, <2>7, EditFileSound
  <2> QED BY <1>1, <2>1, <2>2, <2>3, <2>4, <2>5, <2>6, <2>7 DEF SettingsNext
<1> QED BY <1>1, SettingsInitInv, PTL DEF SettingsSpec

\* Only a write that succeeds, or one that fails, shortens a queue.
LEMMA OnlyWritesShorten ==
    ASSUME SettingsInv, [SettingsNext]_settingsVars, NEW m \in Managers,
           Len(mgr'[m].queue) < Len(mgr[m].queue)
    PROVE  WriteFile(m) \/ CreateFile(m) \/ WriteFails(m)
<1> DEFINE n == Len(mgr[m].queue)
<1>1. n \in Nat /\ mgr[m].queue \in Seq(Write)
  <2>1. mgr[m].queue \in Seq(Write)
    BY DEF SettingsInv, SettingsTypeOK, Manager
  <2> QED BY <2>1, LenProperties
<1> SUFFICES ASSUME ~(WriteFile(m) \/ CreateFile(m) \/ WriteFails(m)) PROVE Len(mgr'[m].queue) >= n
  BY <1>1
<1>2. CASE mgr'[m].queue = mgr[m].queue
  BY <1>1, <1>2
<1>3. ASSUME NEW f \in Fields, SetField(m, f) PROVE Len(mgr'[m].queue) >= n
  <2>1. \/ mgr'[m].queue = mgr[m].queue
        \/ \E w : mgr'[m].queue = Append(mgr[m].queue, w)
    BY <1>3 DEF SetField, SettingsInv, SettingsTypeOK, Manager
  <2>2. ASSUME NEW w, mgr'[m].queue = Append(mgr[m].queue, w) PROVE Len(mgr'[m].queue) = n + 1
    BY <1>1, <2>2, SMTT(30)
  <2> QED BY <1>1, <1>2, <2>1, <2>2
<1>4. ASSUME NEW k \in Managers, k # m,
             \/ WriteFile(k) \/ FindNoFile(k) \/ CreateFile(k) \/ WriteFails(k)
             \/ RequestReload(k) \/ ReloadSettings(k) \/ \E f \in Fields : SetField(k, f)
      PROVE  mgr'[m] = mgr[m]
  BY <1>4 DEF WriteFile, CreateFile, Written, FindNoFile, WriteFails, RequestReload, ReloadSettings,
              SetField, SettingsInv, SettingsTypeOK
<1>5. ASSUME FindNoFile(m) \/ RequestReload(m) \/ ReloadSettings(m) PROVE mgr'[m].queue = mgr[m].queue
  <2>1. CASE FindNoFile(m)
    BY <2>1 DEF FindNoFile, SettingsInv, SettingsTypeOK, Manager
  <2>2. CASE RequestReload(m)
    BY <2>2 DEF RequestReload, SettingsInv, SettingsTypeOK, Manager
  <2>3. CASE ReloadSettings(m)
    <3>1. PICK error \in BOOLEAN :
            mgr' = [mgr EXCEPT ![m].reloading = 0, ![m].modified = {}, ![m].loadError = error,
                               ![m].mem = IF error THEN @ ELSE Stored]
      BY <2>3 DEF ReloadSettings
    <3> QED BY <3>1 DEF SettingsInv, SettingsTypeOK, Manager
  <2> QED BY <1>5, <2>1, <2>2, <2>3
<1>6. ASSUME NEW f \in Fields, EditFile(f) PROVE mgr' = mgr
  BY <1>6 DEF EditFile
<1> QED BY <1>2, <1>3, <1>4, <1>5, <1>6 DEF SettingsNext, settingsVars

\* What was set is not lost before it is written, and a write touches no field
\* that its manager has not set (save, persistScopedSettings, reload).
THEOREM SettingsAlwaysKept == SettingsSpec => SettingsKept
<1>1. ASSUME SettingsInv PROVE SetIsNotForgotten
  BY <1>1 DEF SettingsInv, ManagerSound, SetIsNotForgotten, InQueue
<1>2. ASSUME SettingsInv, [SettingsNext]_settingsVars PROVE WritesOwnFields
  <2> SUFFICES ASSUME NEW m \in Managers, Len(mgr'[m].queue) < Len(mgr[m].queue), ~mgr[m].creating,
                      NEW f \in Fields \ recent[m]
               PROVE  Holds(settingsFile')[f] = Stored[f]
    BY DEF WritesOwnFields, Holds
  <2>1. WriteFile(m) \/ CreateFile(m) \/ WriteFails(m)
    BY <1>2, OnlyWritesShorten
  <2>2. CASE WriteFile(m) \/ CreateFile(m)
    BY <1>2, <2>2, WritesSound
  <2>3. CASE WriteFails(m)
    BY <2>3 DEF WriteFails, Stored
  <2> QED BY <2>1, <2>2, <2>3
<1>3. ASSUME SettingsInv, SettingsInv', [SettingsNext]_settingsVars
      PROVE  [SetIsNotForgotten' /\ WritesOwnFields]_settingsVars
  <2>1. SetIsNotForgotten'
    BY <1>1, <1>3, PTL
  <2> QED BY <1>2, <1>3, <2>1
<1> QED BY <1>3, SettingsInvariant, PTL DEF SettingsSpec, SettingsKept

-----------------------------------------------------------------------------
(* The event log: the invariant, for a process p with store object P, told  *)
(* T, and a log R                                                          *)

\* The call whose event is numbered but not yet in the log.
Pending(P) == P.calls # <<>> /\ ~Head(P.calls).inserted

\* What p has in the log has numbers below these.
LowSeq(P) == IF Pending(P) THEN Head(P.calls).events[1].seq ELSE P.next
LowN(P) == IF Pending(P) THEN Head(P.calls).events[1].n ELSE P.made + 1

\* The events of a call are numbered in a row; while a batch is told, nobody listens.
CallSound(p, P, c, R) ==
    /\ c.events # <<>> /\ c.at <= Len(c.events)
    /\ \A i \in DOMAIN c.events :
          /\ c.events[i].by = p
          /\ c.events[i].n = c.events[1].n + i - 1 /\ c.events[i].seq = c.events[1].seq + i - 1
          /\ c.events[i].first = c.events[1].n /\ c.events[i].size = Len(c.events)
          /\ P.born < c.events[i].n /\ c.events[i].n <= P.made /\ c.events[i].seq < P.next
          /\ c.events[i].audience \subseteq 1 .. P.taken
          /\ c.inserted => c.events[i].chunk \/ c.events[i] \in R
    /\ c.last # 0 => c.inserted
    /\ ~c.inserted => c.at = 1 /\ c.events[Len(c.events)].n = P.made
                               /\ c.events[Len(c.events)].seq = P.next - 1
    /\ Len(c.events) > 1 => c.last = 0 /\ P.subs = {}

\* Only the innermost call may not have told anybody.
CallsSound(p, P, R) ==
    \A k \in DOMAIN P.calls :
        CallSound(p, P, P.calls[k], R) /\ (k > 1 => P.calls[k].last # 0)

StoreSound(P) ==
    /\ P.subs \subseteq 1 .. P.taken /\ P.born <= P.made
    /\ ~P.open => P.born = P.made /\ P.calls = <<>> /\ P.subs = {}

RowsSound(p, P, R) ==
    \A r \in R : r.by = p =>
        /\ r.n < LowN(P) /\ (P.open => r.seq < LowSeq(P))
        /\ r.n > P.born => r.audience \subseteq 1 .. P.taken

ToldSound(P, T, R) ==
    \A s \in Subs :
        /\ s \notin P.subs => T[s] = <<>>
        /\ \A i \in DOMAIN T[s] : T[s][i].chunk \/ T[s][i] \in R

EldestSound(P, T) ==
    1 \in P.subs =>
        /\ \A i, j \in DOMAIN T[1] : i < j => T[1][i].seq < T[1][j].seq
        /\ \A i \in DOMAIN T[1] : T[1][i].seq < P.next
        /\ P.calls # <<>> /\ Head(P.calls).last = 0 =>
              \A i \in DOMAIN T[1], j \in DOMAIN Head(P.calls).events :
                  T[1][i].seq < Head(P.calls).events[j].seq

\* Event r of call c is still to be told to subscription s.
ToTell(c, r, s) ==
    /\ c.inserted
    /\ \E i \in DOMAIN c.events : c.events[i] = r /\ (i > c.at \/ (i = c.at /\ s > c.last))

EveryoneSound(p, P, T, R) ==
    P.open /\ ~P.cut =>
        \A s \in P.subs : \A r \in R : r.by = p /\ r.n > P.born /\ s \in r.audience =>
            \/ \E i \in DOMAIN T[s] : T[s][i] = r
            \/ \E k \in DOMAIN P.calls : ToTell(P.calls[k], r, s)

ProcessSound(p, P, T, R) ==
    /\ CallsSound(p, P, R) /\ StoreSound(P) /\ RowsSound(p, P, R)
    /\ ToldSound(P, T, R) /\ EldestSound(P, T) /\ EveryoneSound(p, P, T, R)

\* What a call has done before it tells anybody.
LEMMA CallSteps ==
    ASSUME NEW p, NEW P, NEW c, NEW R, CallSound(p, P, c, R)
    PROVE  /\ c.last # 0 => c.inserted
           /\ Len(c.events) > 1 => c.last = 0 /\ P.subs = {}
BY DEF CallSound

LEMMA EachCall ==
    ASSUME NEW p, NEW P, NEW T, NEW R, ProcessSound(p, P, T, R), NEW k \in DOMAIN P.calls
    PROVE  CallSound(p, P, P.calls[k], R) /\ (k > 1 => P.calls[k].last # 0)
BY DEF ProcessSound, CallsSound

\* It depends on nothing else of its process.
LEMMA CallSame ==
    ASSUME NEW p, NEW P, NEW X, NEW c, NEW R, CallSound(p, P, c, R),
           X.next = P.next, X.made = P.made, X.born = P.born, X.taken = P.taken, X.subs = P.subs
    PROVE  CallSound(p, X, c, R)
BY DEF CallSound

\* Rows a stale _nextSequence has not passed yet.
Ahead(P, R) == {r \in R : r.seq >= LowSeq(P)}

StaleSound(P, R, failed, others) ==
    IF P.open THEN failed + Cardinality(Ahead(P, R)) <= others ELSE failed = 0 /\ others = 0

RowsFinite(R) == IsFiniteSet(R) /\ (R # {} => \E m \in R : \A r \in R : r.seq <= m.seq)

EventInv ==
    /\ EventStoreTypeOK /\ RowsFinite(rows) /\ OwnOrder /\ BatchWhole
    /\ \A p \in Processes : /\ ProcessSound(p, proc[p], told[p], rows)
                            /\ StaleSound(proc[p], rows, fails[p], foreign[p])

-----------------------------------------------------------------------------
(* The event log: shapes                                                   *)

LEMMA EventFacts ==
    ASSUME NEW e \in Event
    PROVE  /\ e.by \in Processes /\ e.n \in Nat /\ e.seq \in Nat /\ e.key \in Keys \cup {NoKey}
           /\ e.chunk \in BOOLEAN /\ e.first \in Nat /\ e.size \in Nat /\ e.audience \in SUBSET Subs
BY DEF Event

LEMMA CallFacts ==
    ASSUME NEW c \in Call
    PROVE  /\ c.events \in Seq(Event) /\ c.inserted \in BOOLEAN /\ c.at \in Nat \ {0} /\ c.last \in Nat
           /\ DOMAIN c.events = 1 .. Len(c.events) /\ Len(c.events) \in Nat
           /\ c.events # <<>> => Len(c.events) > 0
           /\ \A i \in DOMAIN c.events : c.events[i] \in Event
<1>1. c.events \in Seq(Event) /\ c.inserted \in BOOLEAN /\ c.at \in Nat \ {0} /\ c.last \in Nat
  BY DEF Call
<1>2. \A q \in Seq(Event) : /\ DOMAIN q = 1 .. Len(q) /\ Len(q) \in Nat /\ (q # <<>> => Len(q) > 0)
                            /\ \A i \in DOMAIN q : q[i] \in Event
  BY LenProperties, ElementOfSeq, EmptySeq
<1> QED BY <1>1, <1>2

LEMMA StoreFacts ==
    ASSUME NEW P \in Process
    PROVE  /\ P.open \in BOOLEAN /\ P.next \in Nat /\ P.subs \in SUBSET Subs /\ P.taken \in Nat
           /\ P.calls \in Seq(Call) /\ P.made \in Nat /\ P.born \in Nat /\ P.cut \in BOOLEAN
           /\ DOMAIN P.calls = 1 .. Len(P.calls) /\ Len(P.calls) \in Nat
           /\ P.calls # <<>> => /\ 1 \in DOMAIN P.calls /\ Head(P.calls) = P.calls[1]
                                /\ Head(P.calls) \in Call
           /\ \A k \in DOMAIN P.calls : P.calls[k] \in Call
<1>1. /\ P.open \in BOOLEAN /\ P.next \in Nat /\ P.subs \in SUBSET Subs /\ P.taken \in Nat
      /\ P.calls \in Seq(Call) /\ P.made \in Nat /\ P.born \in Nat /\ P.cut \in BOOLEAN
  BY DEF Process
<1>2. \A q \in Seq(Call) : /\ DOMAIN q = 1 .. Len(q) /\ Len(q) \in Nat
                           /\ (q # <<>> => 1 \in DOMAIN q /\ Head(q) = q[1])
                           /\ \A i \in DOMAIN q : q[i] \in Call
  BY LenProperties, ElementOfSeq, EmptySeq
<1> QED BY <1>1, <1>2

LEMMA HeardFacts ==
    ASSUME NEW T \in [Subs -> Seq(Event)], NEW s \in Subs
    PROVE  /\ T[s] \in Seq(Event) /\ DOMAIN T[s] = 1 .. Len(T[s]) /\ Len(T[s]) \in Nat
           /\ \A i \in DOMAIN T[s] : T[s][i] \in Event
BY LenProperties, ElementOfSeq

LEMMA SubsNumbers ==
    /\ \A s \in Subs : s \in Nat \ {0} /\ 1 \in Subs
    /\ \A p \in Processes, s \in Nat : 1 <= s /\ s <= MaxSubs[p] => s \in Subs
<1>1. \A p \in Processes : MaxSubs[p] \in Nat
  BY EventStoreAssumption
<1> QED BY <1>1 DEF Subs

\* What Push, Replace and Return do to a stack.
LEMMA PushedSeq ==
    ASSUME NEW S, NEW s \in Seq(S), NEW c \in S
    PROVE  /\ <<c>> \o s \in Seq(S) /\ <<c>> \o s # <<>> /\ Head(<<c>> \o s) = c
           /\ DOMAIN (<<c>> \o s) = 1 .. Len(s) + 1 /\ (<<c>> \o s)[1] = c
           /\ \A k \in 1 .. Len(s) : (<<c>> \o s)[k + 1] = s[k]
<1> DEFINE t == <<c>> \o s
<1>1. <<c>> \in Seq(S) /\ Len(<<c>>) = 1 /\ <<c>>[1] = c /\ Len(s) \in Nat
  BY LenProperties
<1>2. t \in Seq(S) /\ Len(t) = Len(s) + 1 /\ t[1] = c /\ \A k \in 1 .. Len(s) : t[k + 1] = s[k]
  BY <1>1, ConcatProperties
<1> HIDE DEF t
<1>3. DOMAIN t = 1 .. Len(s) + 1 /\ t # <<>>
  BY <1>1, <1>2, LenProperties, EmptySeq
<1>4. Head(t) = t[1]
  BY <1>3
<1> QED BY <1>2, <1>3, <1>4 DEF t

LEMMA ReturnedSeq ==
    ASSUME NEW S, NEW s \in Seq(S), s # <<>>
    PROVE  /\ Tail(s) \in Seq(S) /\ DOMAIN Tail(s) = 1 .. Len(s) - 1 /\ Len(s) \in Nat \ {0}
           /\ \A k \in 1 .. Len(s) - 1 : Tail(s)[k] = s[k + 1]
           /\ Tail(s) # <<>> => Head(Tail(s)) = s[2] /\ 2 \in DOMAIN s
<1>1. /\ Tail(s) \in Seq(S) /\ Len(Tail(s)) = Len(s) - 1 /\ Len(s) \in Nat \ {0}
      /\ \A k \in 1 .. Len(Tail(s)) : Tail(s)[k] = s[k + 1]
  BY HeadTailProperties, EmptySeq
<1>2. DOMAIN Tail(s) = 1 .. Len(s) - 1 /\ DOMAIN s = 1 .. Len(s)
  BY <1>1, LenProperties
<1>3. ASSUME Tail(s) # <<>> PROVE Head(Tail(s)) = s[2] /\ 2 \in DOMAIN s
  <2>1. Len(Tail(s)) # 0
    BY <1>1, <1>3, EmptySeq
  <2>2. 1 \in 1 .. Len(Tail(s)) /\ Tail(s)[1] = s[2]
    BY <1>1, <2>1
  <2> QED BY <1>1, <1>2, <2>2
<1> QED BY <1>1, <1>2, <1>3

LEMMA ReplacedSeq ==
    ASSUME NEW S, NEW s \in Seq(S), NEW c \in S, s # <<>>
    PROVE  /\ <<c>> \o Tail(s) \in Seq(S) /\ <<c>> \o Tail(s) # <<>> /\ Head(<<c>> \o Tail(s)) = c
           /\ DOMAIN (<<c>> \o Tail(s)) = DOMAIN s /\ (<<c>> \o Tail(s))[1] = c
           /\ \A k \in DOMAIN s : k > 1 => (<<c>> \o Tail(s))[k] = s[k]
<1>1. /\ Tail(s) \in Seq(S) /\ Len(Tail(s)) = Len(s) - 1 /\ Len(s) \in Nat \ {0}
      /\ \A k \in 1 .. Len(Tail(s)) : Tail(s)[k] = s[k + 1] /\ DOMAIN s = 1 .. Len(s)
  BY HeadTailProperties, EmptySeq, LenProperties
<1> DEFINE t == Tail(s)
<1> HIDE DEF t
<1>2. /\ <<c>> \o t \in Seq(S) /\ <<c>> \o t # <<>> /\ Head(<<c>> \o t) = c
      /\ DOMAIN (<<c>> \o t) = 1 .. Len(t) + 1 /\ (<<c>> \o t)[1] = c
      /\ \A k \in 1 .. Len(t) : (<<c>> \o t)[k + 1] = t[k]
  BY <1>1, PushedSeq DEF t
<1>3. Len(t) + 1 = Len(s) /\ DOMAIN s = 1 .. Len(s)
  BY <1>1, LenProperties DEF t
<1>4. \A k \in DOMAIN s : k > 1 => (<<c>> \o t)[k] = s[k]
  <2> SUFFICES ASSUME NEW k \in DOMAIN s, k > 1 PROVE (<<c>> \o t)[k] = s[k]
    OBVIOUS
  <2>1. k - 1 \in 1 .. Len(t) /\ (k - 1) + 1 = k
    BY <1>1, <1>3
  <2>2. t[k - 1] = s[k]
    BY <1>1, <2>1 DEF t
  <2> QED BY <1>2, <2>1, <2>2
<1> QED BY <1>2, <1>3, <1>4 DEF t

\* The least of a set of subscriptions, and the greatest sequence number.
LEMMA MinIsLeast ==
    ASSUME NEW S \in SUBSET Nat, S # {}
    PROVE  Min(S) \in S /\ \A y \in S : Min(S) <= y
<1> DEFINE R == {q \in Nat \X Nat : q[1] < q[2]}
<1>1. IsWellFoundedOn(R, Nat)
  BY NatLessThanWellFounded DEF OpToRel
<1>2. PICK x \in S : \A y \in S : ~(<<y, x>> \in R)
  BY <1>1, WFMin
<1>3. ASSUME NEW y \in S PROVE x <= y
  <2>1. <<y, x>> \in Nat \X Nat /\ <<y, x>>[1] = y /\ <<y, x>>[2] = x
    OBVIOUS
  <2>2. ~(y < x)
    BY <1>2, <2>1
  <2> QED BY <2>2
<1> QED BY <1>3 DEF Min

LEMMA MaxSeqIsGreatest ==
    ASSUME rows \subseteq Event, RowsFinite(rows)
    PROVE  MaxSeq \in Nat /\ \A r \in rows : r.seq <= MaxSeq
<1> DEFINE S == {0} \cup {r.seq : r \in rows}
<1>1. \A r \in rows : r.seq \in Nat
  BY EventFacts
<1>2. \E x \in S : \A y \in S : x >= y
  BY <1>1 DEF RowsFinite
<1>3. Max(S) \in S /\ \A y \in S : Max(S) >= y
  BY <1>2 DEF Max
<1> QED BY <1>1, <1>3 DEF MaxSeq

-----------------------------------------------------------------------------
(* The event log: steps                                                    *)

LEMMA AllSoundNext ==
    ASSUME \A q \in Processes : /\ ProcessSound(q, proc'[q], told'[q], rows')
                                /\ StaleSound(proc'[q], rows', fails'[q], foreign'[q])
    PROVE  \A q \in Processes : /\ ProcessSound(q, proc[q], told[q], rows)'
                                /\ StaleSound(proc[q], rows, fails[q], foreign[q])'
<1> TAKE q \in Processes
<1>0. CallsSound(q, proc'[q], rows')
  BY DEF ProcessSound
<1>1. CallsSound(q, proc[q], rows)'
  <2> SUFFICES ASSUME NEW k \in DOMAIN proc'[q].calls
               PROVE  /\ CallSound(q, proc[q], proc[q].calls[k], rows)'
                      /\ k > 1 => proc'[q].calls[k].last # 0
    BY SMTT(60) DEF CallsSound
  <2>1. CallSound(q, proc'[q], proc'[q].calls[k], rows') /\ (k > 1 => proc'[q].calls[k].last # 0)
    BY <1>0, Zenon DEF CallsSound
  <2>2. CallSound(q, proc[q], proc[q].calls[k], rows)'
    BY <2>1, Zenon DEF CallSound
  <2> QED BY <2>1, <2>2
<1>2. StoreSound(proc[q])' /\ RowsSound(q, proc[q], rows)'
  BY DEF ProcessSound, StoreSound, RowsSound, LowN, LowSeq, Pending
<1>3. ToldSound(proc[q], told[q], rows)' /\ EldestSound(proc[q], told[q])'
  BY DEF ProcessSound, ToldSound, EldestSound
<1>4. EveryoneSound(q, proc[q], told[q], rows)'
  BY DEF ProcessSound, EveryoneSound, ToTell
<1>5. StaleSound(proc[q], rows, fails[q], foreign[q])'
  BY DEF StaleSound, Ahead, LowSeq, Pending
<1> QED BY <1>1, <1>2, <1>3, <1>4, <1>5 DEF ProcessSound

\* A step of p that leaves the log alone.
LEMMA StepSound ==
    ASSUME EventInv, NEW p \in Processes, NEW X \in Process, NEW T \in [Subs -> Seq(Event)],
           UNCHANGED rows, proc' = [proc EXCEPT ![p] = X], told' = [told EXCEPT ![p] = T],
           fails' \in [Processes -> Nat], foreign' \in [Processes -> Nat],
           \A q \in Processes \ {p} : fails'[q] = fails[q] /\ foreign'[q] = foreign[q],
           ProcessSound(p, X, T, rows), StaleSound(X, rows, fails'[p], foreign'[p])
    PROVE  EventInv'
<1>1. EventStoreTypeOK'
  BY DEF EventInv, EventStoreTypeOK
<1>2. RowsFinite(rows)' /\ OwnOrder' /\ BatchWhole'
  BY DEF EventInv, RowsFinite, OwnOrder, BatchWhole
<1>3. ASSUME NEW q \in Processes
      PROVE  /\ ProcessSound(q, proc'[q], told'[q], rows)
             /\ StaleSound(proc'[q], rows, fails'[q], foreign'[q])
  <2>1. CASE q = p
    <3>1. proc'[q] = X /\ told'[q] = T
      BY <2>1 DEF EventInv, EventStoreTypeOK
    <3> QED BY <2>1, <3>1
  <2>2. CASE q # p
    <3>1. proc'[q] = proc[q] /\ told'[q] = told[q] /\ fails'[q] = fails[q] /\ foreign'[q] = foreign[q]
      BY <2>2 DEF EventInv, EventStoreTypeOK
    <3> QED BY <3>1 DEF EventInv
  <2> QED BY <2>1, <2>2
<1>4. \A q \in Processes : /\ ProcessSound(q, proc'[q], told'[q], rows')
                           /\ StaleSound(proc'[q], rows', fails'[q], foreign'[q])
  BY <1>3
<1> QED BY <1>1, <1>2, <1>4, AllSoundNext DEF EventInv

\* What the invariant says of a process.
LEMMA ProcFacts ==
    ASSUME EventInv, NEW p \in Processes
    PROVE  /\ proc[p] \in Process /\ told[p] \in [Subs -> Seq(Event)] /\ rows \subseteq Event
           /\ ProcessSound(p, proc[p], told[p], rows)
           /\ StaleSound(proc[p], rows, fails[p], foreign[p]) /\ RowsFinite(rows)
           /\ proc \in [Processes -> Process] /\ told \in [Processes -> [Subs -> Seq(Event)]]
           /\ fails \in [Processes -> Nat] /\ foreign \in [Processes -> Nat]
BY DEF EventInv, EventStoreTypeOK

LEMMA OpenSound == ASSUME EventInv, NEW p \in Processes, Open(p) PROVE EventInv'
<1> DEFINE P == proc[p]
           X == [P EXCEPT !.open = TRUE, !.next = NextAtOpen]
           T == told[p]
<1>1. P \in Process /\ T \in [Subs -> Seq(Event)] /\ ProcessSound(p, P, T, rows) /\ ~P.open
  BY ProcFacts DEF Open
<1>2. P.born = P.made /\ P.calls = <<>> /\ P.subs = {} /\ fails[p] = 0 /\ foreign[p] = 0
  BY <1>1, ProcFacts DEF ProcessSound, StoreSound, StaleSound
<1>3. NextAtOpen \in Nat /\ \A r \in rows : r.seq \in Nat /\ r.seq < NextAtOpen
  BY ProcFacts, MaxSeqIsGreatest, EventFacts DEF NextAtOpen
<1>4. /\ X \in Process /\ X.open = TRUE /\ X.next = NextAtOpen /\ X.subs = {} /\ X.taken = P.taken
      /\ X.calls = <<>> /\ X.made = P.made /\ X.born = P.made /\ X.cut = P.cut
  BY <1>1, <1>2, <1>3 DEF Process
<1>5. proc' = [proc EXCEPT ![p] = X] /\ UNCHANGED <<rows, told, fails, foreign>>
  BY DEF Open, Set
<1> HIDE DEF X
<1>6. ~Pending(X) /\ LowSeq(X) = NextAtOpen /\ LowN(X) = X.made + 1
  BY <1>4 DEF Pending, LowSeq, LowN
<1>7. CallsSound(p, X, rows) /\ StoreSound(X)
  BY <1>1, <1>4 DEF CallsSound, StoreSound, ProcessSound
<1>8. RowsSound(p, X, rows)
  <2>1. \A r \in rows : r.by = p => r.n < P.made + 1
    BY <1>1, <1>2 DEF ProcessSound, RowsSound, LowN, Pending
  <2>2. P.made \in Nat /\ \A r \in rows : r.n \in Nat
    BY <1>1, StoreFacts, ProcFacts, EventFacts
  <2> QED BY <1>3, <1>4, <1>6, <2>1, <2>2 DEF RowsSound
<1>9. ToldSound(X, T, rows) /\ EldestSound(X, T) /\ EveryoneSound(p, X, T, rows)
  BY <1>1, <1>2, <1>4 DEF ToldSound, EldestSound, EveryoneSound, ProcessSound
<1>10. StaleSound(X, rows, fails'[p], foreign'[p])
  <2>1. Ahead(X, rows) = {}
    BY <1>3, <1>6 DEF Ahead
  <2> QED BY <1>2, <1>4, <1>5, <2>1, FS_EmptySet DEF StaleSound
<1>11. ProcessSound(p, X, T, rows)
  BY <1>7, <1>8, <1>9 DEF ProcessSound
<1>12. told' = [told EXCEPT ![p] = T]
  BY <1>5, ProcFacts
<1> HIDE DEF T
<1> QED BY <1>1, <1>4, <1>5, <1>10, <1>11, <1>12, ProcFacts, StepSound DEF T

LEMMA DieSound == ASSUME EventInv, NEW p \in Processes, Die(p) PROVE EventInv'
<1> DEFINE P == proc[p]
           X == Closed(P.made)
           T == [s \in Subs |-> <<>>]
<1>1. P \in Process /\ ProcessSound(p, P, told[p], rows)
  BY ProcFacts
<1>2. P.made \in Nat
  BY <1>1, StoreFacts
<1>3. X \in Process /\ X.open = FALSE /\ X.calls = <<>> /\ X.subs = {} /\ X.made = P.made /\ X.born = P.made
      /\ X.taken = 0
  BY <1>2, EmptySeq DEF Process, Closed
<1>4. T \in [Subs -> Seq(Event)] /\ \A s \in Subs : T[s] = <<>>
  BY EmptySeq
<1>5. /\ proc' = [proc EXCEPT ![p] = X] /\ told' = [told EXCEPT ![p] = T]
      /\ fails' = [fails EXCEPT ![p] = 0] /\ foreign' = [foreign EXCEPT ![p] = 0] /\ UNCHANGED rows
  BY DEF Die, Set
<1> HIDE DEF X, T
<1>6. ~Pending(X) /\ LowN(X) = X.made + 1
  BY <1>3 DEF Pending, LowN
<1>7. CallsSound(p, X, rows) /\ StoreSound(X)
  BY <1>2, <1>3 DEF CallsSound, StoreSound
<1>8. RowsSound(p, X, rows)
  <2>1. \A r \in rows : r.by = p => r.n < P.made + 1
    <3>1. ASSUME Pending(P) PROVE LowN(P) <= P.made /\ LowN(P) \in Nat
      <4>1. P.calls # <<>> /\ CallSound(p, P, Head(P.calls), rows) /\ Head(P.calls) \in Call
        BY <1>1, <3>1, StoreFacts DEF ProcessSound, CallsSound, Pending
      <4>2. 1 \in DOMAIN Head(P.calls).events
        BY <4>1, CallFacts DEF CallSound
      <4> QED BY <3>1, <4>1, <4>2, CallFacts, EventFacts DEF CallSound, LowN
    <3> QED BY <1>1, <1>2, <3>1, ProcFacts, EventFacts DEF ProcessSound, RowsSound, LowN
  <2>2. \A r \in rows : r.n \in Nat
    BY ProcFacts, EventFacts
  <2> QED BY <1>2, <1>3, <1>6, <2>1, <2>2 DEF RowsSound
<1>9. ToldSound(X, T, rows) /\ EldestSound(X, T) /\ EveryoneSound(p, X, T, rows)
  BY <1>3, <1>4 DEF ToldSound, EldestSound, EveryoneSound
<1>10. /\ fails' \in [Processes -> Nat] /\ foreign' \in [Processes -> Nat]
       /\ fails'[p] = 0 /\ foreign'[p] = 0
       /\ \A q \in Processes \ {p} : fails'[q] = fails[q] /\ foreign'[q] = foreign[q]
  BY <1>5, ProcFacts
<1>11. StaleSound(X, rows, fails'[p], foreign'[p])
  BY <1>3, <1>10 DEF StaleSound
<1>12. ProcessSound(p, X, T, rows)
  BY <1>7, <1>8, <1>9 DEF ProcessSound
<1> QED BY <1>3, <1>4, <1>5, <1>10, <1>11, <1>12, StepSound


\* What a step of p that leaves its calls and numbers alone keeps.
LEMMA SameCalls ==
    ASSUME NEW p \in Processes, NEW P \in Process, NEW X \in Process, NEW T, NEW R,
           NEW failed, NEW others, ProcessSound(p, P, T, R), StaleSound(P, R, failed, others),
           X.open = P.open, X.next = P.next, X.calls = P.calls, X.made = P.made, X.born = P.born,
           P.taken <= X.taken, X.subs \subseteq 1 .. X.taken, ~X.open => X.subs = {},
           \A k \in DOMAIN P.calls : Len(P.calls[k].events) > 1 => X.subs = {}
    PROVE  /\ CallsSound(p, X, R) /\ StoreSound(X) /\ RowsSound(p, X, R)
           /\ StaleSound(X, R, failed, others)
<1>1. P.taken \in Nat /\ X.taken \in Nat /\ 1 .. P.taken \subseteq 1 .. X.taken
  BY StoreFacts
<1>2. LowSeq(X) = LowSeq(P) /\ LowN(X) = LowN(P)
  BY DEF LowSeq, LowN, Pending
<1>3. StaleSound(X, R, failed, others)
  BY <1>2 DEF StaleSound, Ahead
<1>4. RowsSound(p, X, R)
  BY <1>1, <1>2 DEF RowsSound, ProcessSound
<1>5. StoreSound(X)
  BY DEF StoreSound, ProcessSound
<1>6. CallsSound(p, X, R)
  <2>1. ASSUME NEW k \in DOMAIN P.calls PROVE CallSound(p, X, P.calls[k], R)
    <3>1. CallSound(p, P, P.calls[k], R)
      BY DEF ProcessSound, CallsSound
    <3> QED BY <1>1, <3>1 DEF CallSound
  <2> QED BY <2>1 DEF CallsSound, ProcessSound
<1> QED BY <1>3, <1>4, <1>5, <1>6

\* What is ahead of a store does not grow while the log stays and it moves on.
LEMMA AheadShrinks ==
    ASSUME NEW P, NEW X, NEW R, R \subseteq Event, IsFiniteSet(R), X.open = P.open,
           LowSeq(P) \in Nat, LowSeq(X) \in Nat, LowSeq(P) <= LowSeq(X),
           NEW failed \in Nat, NEW others \in Nat, StaleSound(P, R, failed, others)
    PROVE  StaleSound(X, R, failed, others)
<1>1. \A r \in R : r.seq \in Nat
  BY EventFacts
<1>2. Ahead(X, R) \subseteq Ahead(P, R) /\ Ahead(P, R) \subseteq R
  BY <1>1 DEF Ahead
<1>3. IsFiniteSet(Ahead(P, R))
  BY <1>2, FS_Subset
<1>4. /\ Cardinality(Ahead(X, R)) <= Cardinality(Ahead(P, R))
      /\ Cardinality(Ahead(X, R)) \in Nat /\ Cardinality(Ahead(P, R)) \in Nat
  BY <1>2, <1>3, FS_Subset, FS_CardinalityType
<1> QED BY <1>4 DEF StaleSound

\* Where the code of a process runs, each of its calls tells somebody.
LEMMA RunningCalls ==
    ASSUME EventInv, NEW p \in Processes, Runs(p)
    PROVE  \A k \in DOMAIN proc[p].calls : /\ proc[p].calls[k].last # 0 /\ proc[p].calls[k].inserted
                                           /\ ~(Len(proc[p].calls[k].events) > 1)
<1> DEFINE P == proc[p]
<1>1. P \in Process /\ ProcessSound(p, P, told[p], rows)
  BY ProcFacts
<1>2. P.calls # <<>> => P.calls[1].last # 0
  BY <1>1, StoreFacts DEF Runs
<1>3. DOMAIN P.calls = 1 .. Len(P.calls) /\ Len(P.calls) \in Nat /\ (Len(P.calls) = 0 => P.calls = <<>>)
  BY <1>1, StoreFacts, EmptySeq
<1>4. \A k \in DOMAIN P.calls : P.calls[k].last # 0
  BY <1>1, <1>2, <1>3 DEF ProcessSound, CallsSound
<1> QED BY <1>1, <1>4, EachCall, CallSteps

LEMMA SubscribeSound == ASSUME EventInv, NEW p \in Processes, Subscribe(p) PROVE EventInv'
<1> DEFINE P == proc[p]
           s == P.taken + 1
           X == [P EXCEPT !.taken = @ + 1, !.subs = @ \cup {P.taken + 1}]
           T == told[p]
<1>1. /\ P \in Process /\ T \in [Subs -> Seq(Event)] /\ ProcessSound(p, P, T, rows)
      /\ StaleSound(P, rows, fails[p], foreign[p]) /\ P.open /\ P.taken < MaxSubs[p]
  BY ProcFacts DEF Subscribe, Runs
<1>2. P.taken \in Nat /\ s \in Nat \ {0} /\ s \in Subs /\ s \notin 1 .. P.taken
  <2>1. P.taken \in Nat /\ MaxSubs[p] \in Nat
    BY <1>1, StoreFacts, EventStoreAssumption
  <2>2. 1 <= s /\ s <= MaxSubs[p] /\ s \in Nat
    BY <1>1, <2>1
  <2> QED BY <2>1, <2>2, SubsNumbers
<1>3. /\ X \in Process /\ X.open = P.open /\ X.next = P.next /\ X.calls = P.calls /\ X.made = P.made
      /\ X.born = P.born /\ X.cut = P.cut /\ X.taken = s /\ X.subs = P.subs \cup {s}
  BY <1>1, <1>2 DEF Process
<1>4. proc' = [proc EXCEPT ![p] = X] /\ UNCHANGED <<rows, told, fails, foreign>>
  BY DEF Subscribe, Set
<1>5. /\ P.subs \subseteq 1 .. P.taken /\ s \notin P.subs /\ T[s] = <<>>
  BY <1>1, <1>2 DEF ProcessSound, StoreSound, ToldSound
<1> HIDE DEF X
<1>6. \A k \in DOMAIN P.calls : ~(Len(P.calls[k].events) > 1)
  BY RunningCalls DEF Subscribe
<1>7. /\ CallsSound(p, X, rows) /\ StoreSound(X) /\ RowsSound(p, X, rows)
      /\ StaleSound(X, rows, fails[p], foreign[p])
  <2>1. P.taken <= X.taken /\ X.subs \subseteq 1 .. X.taken
    BY <1>2, <1>3, <1>5
  <2> QED BY <1>1, <1>3, <1>6, <2>1, SameCalls
<1>8. ToldSound(X, T, rows)
  BY <1>1, <1>3 DEF ToldSound, ProcessSound
<1>9. EldestSound(X, T)
  <2>1. CASE 1 \in P.subs
    BY <1>1, <1>3, <2>1 DEF ProcessSound, EldestSound
  <2>2. CASE 1 \notin P.subs
    <3>1. 1 \in Subs /\ T[1] = <<>>
      BY <1>1, <2>2, SubsNumbers, <1>2 DEF ToldSound, ProcessSound
    <3>2. DOMAIN T[1] = {}
      BY <3>1
    <3> QED BY <3>2 DEF EldestSound
  <2> QED BY <2>1, <2>2
<1>10. EveryoneSound(p, X, T, rows)
  <2>1. \A r \in rows : r.by = p /\ r.n > P.born => s \notin r.audience
    BY <1>1, <1>2 DEF ProcessSound, RowsSound
  <2> QED BY <1>1, <1>3, <2>1 DEF ProcessSound, EveryoneSound
<1>11. ProcessSound(p, X, T, rows)
  BY <1>7, <1>8, <1>9, <1>10 DEF ProcessSound
<1>12. told' = [told EXCEPT ![p] = T]
  BY <1>4, ProcFacts
<1> HIDE DEF T
<1> QED BY <1>1, <1>3, <1>4, <1>7, <1>11, <1>12, ProcFacts, StepSound DEF T

LEMMA UnsubscribeSound ==
    ASSUME EventInv, NEW p \in Processes, NEW s \in Subs, Unsubscribe(p, s) PROVE EventInv'
<1> DEFINE P == proc[p]
           X == [P EXCEPT !.subs = @ \ {s}]
           T == [told[p] EXCEPT ![s] = <<>>]
<1>1. /\ P \in Process /\ told[p] \in [Subs -> Seq(Event)] /\ ProcessSound(p, P, told[p], rows)
      /\ StaleSound(P, rows, fails[p], foreign[p]) /\ P.open
  BY ProcFacts DEF Unsubscribe, Runs
<1>2. /\ X \in Process /\ X.open = P.open /\ X.next = P.next /\ X.calls = P.calls /\ X.made = P.made
      /\ X.born = P.born /\ X.cut = P.cut /\ X.taken = P.taken /\ X.subs = P.subs \ {s}
  BY <1>1 DEF Process
<1>3. T \in [Subs -> Seq(Event)] /\ T[s] = <<>> /\ \A t \in Subs \ {s} : T[t] = told[p][t]
  BY <1>1, EmptySeq
<1>4. proc' = [proc EXCEPT ![p] = X] /\ UNCHANGED <<rows, fails, foreign>>
  BY DEF Unsubscribe, Set
<1>5. told' = [told EXCEPT ![p] = T]
  BY ProcFacts DEF Unsubscribe
<1> HIDE DEF X, T
<1>6. /\ CallsSound(p, X, rows) /\ StoreSound(X) /\ RowsSound(p, X, rows)
      /\ StaleSound(X, rows, fails[p], foreign[p])
  <2>1. P.taken <= X.taken /\ X.subs \subseteq 1 .. X.taken /\ P.taken \in Nat
    BY <1>1, <1>2, StoreFacts DEF ProcessSound, StoreSound
  <2>2. \A k \in DOMAIN P.calls : Len(P.calls[k].events) > 1 => X.subs = {}
    BY <1>1, <1>2, EachCall, CallSteps
  <2> QED BY <1>1, <1>2, <2>1, <2>2, SameCalls
<1>7. ToldSound(X, T, rows)
  <2>1. ASSUME NEW t \in Subs
        PROVE  (t \notin X.subs => T[t] = <<>>) /\ \A i \in DOMAIN T[t] : T[t][i].chunk \/ T[t][i] \in rows
    <3>1. CASE t = s
      BY <1>3, <3>1
    <3>2. CASE t # s
      BY <1>1, <1>2, <1>3, <3>2 DEF ToldSound, ProcessSound
    <3> QED BY <3>1, <3>2
  <2> QED BY <2>1 DEF ToldSound
<1>8. EldestSound(X, T)
  <2>1. ASSUME 1 \in X.subs PROVE 1 \in P.subs /\ T[1] = told[p][1]
    BY <1>2, <1>3, <2>1, SubsNumbers
  <2> QED BY <1>1, <1>2, <2>1 DEF ProcessSound, EldestSound
<1>9. EveryoneSound(p, X, T, rows)
  <2>1. \A t \in X.subs : t \in P.subs /\ t \in Subs /\ T[t] = told[p][t]
    BY <1>1, <1>2, <1>3, StoreFacts
  <2> QED BY <1>1, <1>2, <2>1, ZenonT(60) DEF ProcessSound, EveryoneSound
<1>10. ProcessSound(p, X, T, rows)
  BY <1>6, <1>7, <1>8, <1>9 DEF ProcessSound
<1> QED BY <1>2, <1>3, <1>4, <1>5, <1>6, <1>10, ProcFacts, StepSound

\* append and appendBatch begin: the events get their numbers.
Numbers(p, P, c) ==
    /\ Len(c.events) > 0 /\ c.at = 1 /\ c.last = 0 /\ (Len(c.events) > 1 => P.subs = {})
    /\ \A i \in 1 .. Len(c.events) :
          /\ c.events[i].by = p /\ c.events[i].n = P.made + i /\ c.events[i].seq = P.next + i - 1
          /\ c.events[i].first = P.made + 1 /\ c.events[i].size = Len(c.events)
          /\ c.events[i].audience = P.subs
          /\ c.events[i].chunk <=> c.inserted

Pushed(P, X, c) ==
    /\ P.open /\ X.open /\ X.next = P.next + Len(c.events) /\ X.made = P.made + Len(c.events)
    /\ X.born = P.born /\ X.cut = P.cut /\ X.taken = P.taken /\ X.subs = P.subs
    /\ X.calls = <<c>> \o P.calls

LEMMA PushedSound ==
    ASSUME NEW p \in Processes, NEW P \in Process, NEW X \in Process, NEW T \in [Subs -> Seq(Event)],
           NEW R, R \subseteq Event, IsFiniteSet(R), NEW failed \in Nat, NEW others \in Nat,
           ProcessSound(p, P, T, R), StaleSound(P, R, failed, others),
           NEW c \in Call, Numbers(p, P, c), Pushed(P, X, c),
           \A k \in DOMAIN P.calls : P.calls[k].last # 0
    PROVE  ProcessSound(p, X, T, R) /\ StaleSound(X, R, failed, others)
<1>2. /\ P.next \in Nat /\ P.made \in Nat /\ P.born \in Nat /\ P.calls \in Seq(Call) /\ Len(P.calls) \in Nat
      /\ DOMAIN P.calls = 1 .. Len(P.calls)
  BY StoreFacts
<1>3. P.born <= P.made /\ P.subs \subseteq 1 .. P.taken
  BY DEF ProcessSound, StoreSound
<1>4. /\ X.calls # <<>> /\ Head(X.calls) = c /\ X.calls[1] = c
      /\ DOMAIN X.calls = 1 .. Len(P.calls) + 1
      /\ \A k \in 1 .. Len(P.calls) : X.calls[k + 1] = P.calls[k]
  BY <1>2, PushedSeq DEF Pushed
<1>5. /\ X.born = P.born /\ X.cut = P.cut /\ X.taken = P.taken /\ X.subs = P.subs /\ X.open
      /\ P.next < X.next /\ P.made < X.made /\ X.next \in Nat /\ X.made \in Nat
  BY <1>2, CallFacts DEF Pushed, Numbers
<1>6. \A k \in DOMAIN P.calls : CallSound(p, P, P.calls[k], R)
  BY DEF ProcessSound, CallsSound
<1>7. \A k \in DOMAIN P.calls : P.calls[k].last # 0 /\ P.calls[k].inserted
  BY <1>6 DEF CallSound
<1>8. /\ DOMAIN c.events = 1 .. Len(c.events) /\ c.events # <<>> /\ 1 \in DOMAIN c.events
      /\ Len(c.events) \in DOMAIN c.events /\ Len(c.events) \in Nat \ {0}
  <2>1. Len(c.events) \in Nat /\ Len(c.events) > 0 /\ DOMAIN c.events = 1 .. Len(c.events)
    BY CallFacts DEF Numbers
  <2> QED BY <2>1, EmptySeq
<1>9. CallSound(p, X, c, R)
  <2>1. /\ c.events[1].n = P.made + 1 /\ c.events[1].seq = P.next
        /\ c.events[Len(c.events)].n = P.made + Len(c.events)
        /\ c.events[Len(c.events)].seq = P.next + Len(c.events) - 1
    BY <1>2, <1>8 DEF Numbers
  <2>2. ASSUME NEW i \in DOMAIN c.events
        PROVE  /\ c.events[i].by = p
               /\ c.events[i].n = c.events[1].n + i - 1 /\ c.events[i].seq = c.events[1].seq + i - 1
               /\ c.events[i].first = c.events[1].n /\ c.events[i].size = Len(c.events)
               /\ X.born < c.events[i].n /\ c.events[i].n <= X.made /\ c.events[i].seq < X.next
               /\ c.events[i].audience \subseteq 1 .. X.taken
               /\ c.inserted => c.events[i].chunk \/ c.events[i] \in R
    <3>1. /\ c.events[i].by = p /\ c.events[i].n = P.made + i /\ c.events[i].seq = P.next + i - 1
          /\ c.events[i].first = P.made + 1 /\ c.events[i].size = Len(c.events)
          /\ c.events[i].audience = P.subs /\ i \in Nat \ {0} /\ i <= Len(c.events)
      BY <1>8 DEF Numbers
    <3>2. c.inserted => c.events[i].chunk
      BY <1>8 DEF Numbers
    <3>3. X.next = P.next + Len(c.events) /\ X.made = P.made + Len(c.events)
      BY DEF Pushed
    <3>4. /\ X.born < c.events[i].n /\ c.events[i].n <= X.made /\ c.events[i].seq < X.next
      <4>1. i \in Int /\ i > 0 /\ i <= Len(c.events) /\ Len(c.events) \in Int
        BY <1>8
      <4>2. c.events[i].n = P.made + i /\ c.events[i].seq = P.next + i - 1
        BY <3>1
      <4>3. X.born <= P.made /\ X.born \in Int /\ P.made \in Int /\ P.next \in Int
        BY <1>2, <1>3, <1>5
      <4>4. X.born < c.events[i].n
        BY <4>1, <4>2, <4>3
      <4>5. c.events[i].n <= X.made
        BY <3>3, <4>1, <4>2, <4>3
      <4>6. c.events[i].seq < X.next
        BY <3>3, <4>1, <4>2, <4>3
      <4> QED BY <4>4, <4>5, <4>6
    <3>5. /\ c.events[i].n = c.events[1].n + i - 1 /\ c.events[i].seq = c.events[1].seq + i - 1
          /\ c.events[i].first = c.events[1].n
      <4>1. i \in Int /\ P.made \in Int /\ P.next \in Int
        BY <1>2, <1>8
      <4>2. /\ c.events[i].n = P.made + i /\ c.events[i].seq = P.next + i - 1
            /\ c.events[i].first = P.made + 1
        BY <3>1
      <4>3. c.events[1].n = P.made + 1 /\ c.events[1].seq = P.next
        BY <2>1
      <4> QED BY <4>1, <4>2, <4>3
    <3> QED BY <1>3, <1>5, <3>1, <3>2, <3>4, <3>5
  <2>3. c.events[Len(c.events)].n = X.made /\ c.events[Len(c.events)].seq = X.next - 1
    BY <1>2, <1>8, <2>1, SMTT(30) DEF Pushed
  <2>4. c.at = 1 /\ c.last = 0 /\ (Len(c.events) > 1 => X.subs = {}) /\ c.at <= Len(c.events)
    BY <1>5, <1>8 DEF Numbers
  <2> QED BY <1>8, <2>2, <2>3, <2>4 DEF CallSound
<1>10. CallsSound(p, X, R)
  <2>1. ASSUME NEW k \in DOMAIN P.calls PROVE CallSound(p, X, P.calls[k], R)
    <3>1. P.calls[k].last # 0 /\ P.calls[k].inserted /\ CallSound(p, P, P.calls[k], R) /\ P.calls[k] \in Call
      BY <1>6, <1>7, StoreFacts
    <3>2. \A i \in DOMAIN P.calls[k].events : P.calls[k].events[i].n \in Nat /\ P.calls[k].events[i].seq \in Nat
      BY <3>1, CallFacts, EventFacts
    <3>3. ASSUME NEW i \in DOMAIN P.calls[k].events
          PROVE  P.calls[k].events[i].n <= X.made /\ P.calls[k].events[i].seq < X.next
      <4>1. /\ P.calls[k].events[i].n <= P.made /\ P.calls[k].events[i].seq < P.next
            /\ P.calls[k].events[i].n \in Nat /\ P.calls[k].events[i].seq \in Nat
        BY <3>1, <3>2 DEF CallSound
      <4> QED BY <1>2, <1>5, <4>1, SMTT(30)
    <3> QED BY <1>5, <3>1, <3>3 DEF CallSound
  <2>2. ASSUME NEW k \in DOMAIN X.calls, k # 1
        PROVE  CallSound(p, X, X.calls[k], R) /\ X.calls[k].last # 0
    <3>1. k - 1 \in 1 .. Len(P.calls) /\ (k - 1) + 1 = k
      BY <1>2, <1>4, <2>2
    <3>2. X.calls[k] = P.calls[k - 1]
      BY <1>4, <3>1
    <3> QED BY <1>2, <1>7, <2>1, <3>1, <3>2
  <2> QED BY <1>4, <1>9, <2>2 DEF CallsSound
<1>11. StoreSound(X)
  BY <1>2, <1>3, <1>5 DEF StoreSound
<1>12. /\ LowSeq(P) = P.next /\ LowN(P) = P.made + 1
       /\ LowSeq(X) \in Nat /\ P.next <= LowSeq(X) /\ LowN(X) \in Nat /\ P.made + 1 <= LowN(X)
  <2>1. ~Pending(P)
    BY <1>7, StoreFacts DEF Pending
  <2>2. c.events[1].n = P.made + 1 /\ c.events[1].seq = P.next
    BY <1>2, <1>8 DEF Numbers
  <2>3. LowSeq(X) \in {P.next, X.next} /\ LowN(X) \in {P.made + 1, X.made + 1}
    BY <1>4, <2>2 DEF LowSeq, LowN
  <2>4. LowSeq(P) = P.next /\ LowN(P) = P.made + 1
    BY <2>1 DEF LowSeq, LowN
  <2> QED BY <1>2, <1>5, <2>3, <2>4
<1>13. RowsSound(p, X, R)
  <2>1. \A r \in R : r.n \in Nat /\ r.seq \in Nat
    BY EventFacts
  <2>2. \A r \in R : r.by = p => /\ r.n < P.made + 1 /\ r.seq < P.next
                                 /\ r.n > P.born => r.audience \subseteq 1 .. P.taken
    BY <1>12 DEF RowsSound, ProcessSound, Pushed
  <2> QED BY <1>2, <1>5, <1>12, <2>1, <2>2, SMTT(30) DEF RowsSound
<1>14. ToldSound(X, T, R)
  BY <1>5 DEF ToldSound, ProcessSound
<1>15. EldestSound(X, T)
  <2> SUFFICES ASSUME 1 \in X.subs
               PROVE  /\ \A i, j \in DOMAIN T[1] : i < j => T[1][i].seq < T[1][j].seq
                      /\ \A i \in DOMAIN T[1] : T[1][i].seq < X.next
                      /\ \A i \in DOMAIN T[1], j \in DOMAIN c.events : T[1][i].seq < c.events[j].seq
    BY <1>4 DEF EldestSound
  <2>1. /\ \A i, j \in DOMAIN T[1] : i < j => T[1][i].seq < T[1][j].seq
        /\ \A i \in DOMAIN T[1] : T[1][i].seq < P.next
    BY <1>5 DEF EldestSound, ProcessSound
  <2>2. 1 \in Subs /\ \A i \in DOMAIN T[1] : T[1][i].seq \in Nat
    BY <1>5, StoreFacts, HeardFacts, EventFacts
  <2>3. \A j \in DOMAIN c.events : c.events[j].seq \in Nat /\ P.next <= c.events[j].seq
    <3> SUFFICES ASSUME NEW j \in DOMAIN c.events
                 PROVE  c.events[j].seq \in Nat /\ P.next <= c.events[j].seq
      OBVIOUS
    <3>1. c.events[j].seq = P.next + j - 1 /\ j \in Nat /\ j > 0
      BY <1>8 DEF Numbers
    <3> QED BY <1>2, <3>1
  <2> QED BY <1>2, <1>5, <2>1, <2>2, <2>3
<1>16. EveryoneSound(p, X, T, R)
  <2> SUFFICES ASSUME X.open, ~X.cut, NEW s \in X.subs, NEW r \in R, r.by = p, r.n > X.born, s \in r.audience,
                      ~\E i \in DOMAIN T[s] : T[s][i] = r
               PROVE  \E k \in DOMAIN X.calls : ToTell(X.calls[k], r, s)
    BY DEF EveryoneSound
  <2>1. PICK k \in DOMAIN P.calls : ToTell(P.calls[k], r, s)
    BY <1>5 DEF EveryoneSound, ProcessSound, Pushed
  <2>2. k + 1 \in DOMAIN X.calls /\ X.calls[k + 1] = P.calls[k]
    <3>1. k \in 1 .. Len(P.calls) /\ Len(P.calls) \in Nat
      BY <1>2
    <3>2. k + 1 \in 1 .. Len(P.calls) + 1
      BY <3>1
    <3> QED BY <1>4, <3>1, <3>2
  <2> QED BY <2>1, <2>2
<1>17. StaleSound(X, R, failed, others)
  BY <1>2, <1>5, <1>12, AheadShrinks DEF Pushed
<1> QED BY <1>10, <1>11, <1>13, <1>14, <1>15, <1>16, <1>17 DEF ProcessSound

LEMMA PushSound ==
    ASSUME EventInv, NEW p \in Processes, Runs(p), NEW c \in Call, Numbers(p, proc[p], c),
           Set(p, Push(Numbered(proc[p], Len(c.events)), c)), UNCHANGED <<rows, told, fails, foreign>>
    PROVE  EventInv'
<1> DEFINE P == proc[p]
           X == Push(Numbered(P, Len(c.events)), c)
<1>1. /\ P \in Process /\ told[p] \in [Subs -> Seq(Event)] /\ ProcessSound(p, P, told[p], rows)
      /\ StaleSound(P, rows, fails[p], foreign[p]) /\ P.open
      /\ fails[p] \in Nat /\ foreign[p] \in Nat /\ rows \subseteq Event /\ IsFiniteSet(rows)
  BY ProcFacts DEF Runs, RowsFinite
<1>2. P.next \in Nat /\ P.made \in Nat /\ P.calls \in Seq(Call) /\ Len(c.events) \in Nat
  BY <1>1, StoreFacts, CallFacts
<1>3. /\ X.open = P.open /\ X.next = P.next + Len(c.events) /\ X.made = P.made + Len(c.events)
      /\ X.born = P.born /\ X.cut = P.cut /\ X.taken = P.taken /\ X.subs = P.subs /\ X.calls = <<c>> \o P.calls
  BY <1>1 DEF Process, Push, Numbered
<1>4. X \in Process
  <2>1. <<c>> \o P.calls \in Seq(Call)
    <3> HIDE DEF P
    <3> QED BY <1>2, PushedSeq
  <2>2. P.next + Len(c.events) \in Nat /\ P.made + Len(c.events) \in Nat
    BY <1>2
  <2> QED BY <1>1, <2>1, <2>2 DEF Process, Push, Numbered
<1>5. proc' = [proc EXCEPT ![p] = X]
  BY DEF Set
<1>6. \A k \in DOMAIN P.calls : P.calls[k].last # 0
  BY RunningCalls
<1> HIDE DEF X
<1>7. ProcessSound(p, X, told[p], rows) /\ StaleSound(X, rows, fails[p], foreign[p])
  <2> HIDE DEF P
  <2>1. Pushed(P, X, c)
    BY <1>1, <1>3 DEF Pushed
  <2>2. Numbers(p, P, c)
    BY DEF P
  <2> QED BY <1>1, <1>4, <1>6, <2>1, <2>2, PushedSound
<1>8. told' = [told EXCEPT ![p] = told[p]]
  BY ProcFacts
<1> QED BY <1>1, <1>4, <1>5, <1>7, <1>8, ProcFacts, StepSound


LEMMA NewCallFacts ==
    ASSUME EventInv, NEW p \in Processes, NEW keys \in Seq(Keys \cup {NoKey}), keys # <<>>,
           NEW chunk \in BOOLEAN, Len(keys) > 1 => proc[p].subs = {}
    PROVE  LET c == NewCall(Normalized(p, keys, chunk), chunk)
           IN  c \in Call /\ Len(c.events) = Len(keys) /\ Numbers(p, proc[p], c)
<1> DEFINE P == proc[p]
           q == Normalized(p, keys, chunk)
           c == NewCall(q, chunk)
<1>1. P.next \in Nat /\ P.made \in Nat /\ P.subs \in SUBSET Subs
  BY ProcFacts, StoreFacts
<1>2. Len(keys) \in Nat /\ Len(keys) > 0 /\ \A i \in 1 .. Len(keys) : keys[i] \in Keys \cup {NoKey}
  BY LenProperties, ElementOfSeq, EmptySeq
<1>3. /\ q = [i \in 1 .. Len(keys) |-> q[i]]
      /\ \A i \in 1 .. Len(keys) :
            /\ q[i].by = p /\ q[i].n = P.made + i /\ q[i].seq = P.next + i - 1 /\ q[i].key = keys[i]
            /\ q[i].chunk = chunk /\ q[i].first = P.made + 1 /\ q[i].size = Len(keys) /\ q[i].audience = P.subs
  BY DEF Normalized
<1>4. \A i \in 1 .. Len(keys) : q[i] \in Event
  <2> SUFFICES ASSUME NEW i \in 1 .. Len(keys) PROVE q[i] \in Event
    OBVIOUS
  <2>1. P.made + i \in Nat /\ P.next + i - 1 \in Nat /\ P.made + 1 \in Nat
    BY <1>1, <1>2
  <2>2. keys[i] \in Keys \cup {NoKey} /\ chunk \in BOOLEAN /\ P.subs \in SUBSET Subs /\ Len(keys) \in Nat
    BY <1>1, <1>2
  <2> QED BY <2>1, <2>2 DEF Normalized, Event
<1> HIDE DEF q
<1>5. q \in Seq(Event) /\ Len(q) = Len(keys)
  <2>1. q \in [1 .. Len(keys) -> Event]
    BY <1>3, <1>4
  <2> QED BY <1>2, <2>1, SeqDef, LenProperties
<1>6. c.events = q /\ c.inserted = chunk /\ c.at = 1 /\ c.last = 0 /\ c \in Call
  <2>1. 1 \in Nat \ {0} /\ 0 \in Nat
    OBVIOUS
  <2> QED BY <1>5, <2>1 DEF NewCall, Call
<1> HIDE DEF c
<1>7. Numbers(p, P, c)
  <2>1. ASSUME NEW i \in 1 .. Len(q)
        PROVE  /\ q[i].by = p /\ q[i].n = P.made + i /\ q[i].seq = P.next + i - 1
               /\ q[i].first = P.made + 1 /\ q[i].size = Len(q)
               /\ q[i].audience = P.subs /\ (q[i].chunk <=> chunk)
    BY <1>3, <1>5
  <2>2. Len(q) > 0 /\ (Len(q) > 1 => P.subs = {})
    BY <1>2, <1>5
  <2> QED BY <1>6, <2>1, <2>2 DEF Numbers
<1>8. c \in Call /\ Len(c.events) = Len(keys) /\ Numbers(p, proc[p], c)
  BY <1>5, <1>6, <1>7
<1> QED BY <1>8 DEF c, q

LEMMA Append1Sound ==
    ASSUME EventInv, NEW p \in Processes, NEW key \in Keys \cup {NoKey}, NEW chunk \in BOOLEAN,
           Append1(p, key, chunk)
    PROVE  EventInv'
<1> DEFINE keys == <<key>>
           c == NewCall(Normalized(p, keys, chunk), chunk)
<1>1. keys \in Seq(Keys \cup {NoKey}) /\ keys # <<>> /\ Len(keys) = 1 /\ ~(Len(keys) > 1)
  OBVIOUS
<1>2. c \in Call /\ Len(c.events) = 1 /\ Numbers(p, proc[p], c)
  <2> HIDE DEF keys
  <2> QED BY <1>1, NewCallFacts
<1>3. /\ Runs(p) /\ Set(p, Push(Numbered(proc[p], Len(c.events)), c))
      /\ UNCHANGED <<rows, told, fails, foreign>>
  BY <1>2 DEF Append1
<1> HIDE DEF c
<1> QED BY <1>2, <1>3, PushSound

LEMMA AppendBatchSound ==
    ASSUME EventInv, NEW p \in Processes, NEW keys \in Batches, AppendBatch(p, keys) PROVE EventInv'
<1> DEFINE c == NewCall(Normalized(p, keys, FALSE), FALSE)
<1>1. keys \in Seq(Keys \cup {NoKey}) /\ keys # <<>>
  <2> DEFINE K == Keys \cup {NoKey}
  <2>1. \A k \in K : <<k>> \in Seq(K) /\ <<k>> # <<>>
    OBVIOUS
  <2>2. \A k, l \in K : <<k, l>> \in Seq(K) /\ <<k, l>> # <<>>
    OBVIOUS
  <2>3. (\E k \in K : keys = <<k>>) \/ (\E k, l \in K : keys = <<k, l>>)
    BY DEF Batches
  <2> QED BY <2>1, <2>2, <2>3
<1>2. c \in Call /\ Len(c.events) = Len(keys) /\ Numbers(p, proc[p], c)
  BY <1>1, NewCallFacts DEF AppendBatch
<1>3. /\ Runs(p) /\ Set(p, Push(Numbered(proc[p], Len(c.events)), c))
      /\ UNCHANGED <<rows, told, fails, foreign>>
  BY <1>2 DEF AppendBatch
<1> HIDE DEF c
<1> QED BY <1>2, <1>3, PushSound


\* The innermost call is over: it has told everybody, it failed, or a handler threw.
Over(P, X) ==
    /\ P.open /\ X.open /\ P.calls # <<>> /\ X.calls = Tail(P.calls)
    /\ X.next = P.next /\ X.made = P.made /\ X.born = P.born /\ X.taken = P.taken /\ X.subs = P.subs
    /\ ~X.cut => /\ ~P.cut
                 /\ \/ ~Head(P.calls).inserted
                    \/ /\ \A s \in P.subs : ~(s > Head(P.calls).last)
                       /\ Head(P.calls).at >= Len(Head(P.calls).events)

LEMMA LowFacts ==
    ASSUME NEW p, NEW P \in Process, NEW R, CallsSound(p, P, R)
    PROVE  /\ LowSeq(P) \in Nat /\ LowN(P) \in Nat /\ LowSeq(P) <= P.next /\ LowN(P) <= P.made + 1
           /\ Pending(P) => LowSeq(P) < P.next /\ LowN(P) <= P.made
<1>1. P.next \in Nat /\ P.made \in Nat
  BY StoreFacts
<1>2. ASSUME Pending(P)
      PROVE  /\ Head(P.calls).events[1].seq \in Nat /\ Head(P.calls).events[1].n \in Nat
             /\ Head(P.calls).events[1].seq < P.next /\ Head(P.calls).events[1].n <= P.made
  <2>1. CallSound(p, P, Head(P.calls), R) /\ Head(P.calls) \in Call
    BY <1>2, StoreFacts DEF CallsSound, Pending
  <2>2. 1 \in DOMAIN Head(P.calls).events
    BY <2>1, CallFacts DEF CallSound
  <2> QED BY <2>1, <2>2, CallFacts, EventFacts DEF CallSound
<1>3. CASE Pending(P)
  BY <1>1, <1>2, <1>3 DEF LowSeq, LowN
<1>4. CASE ~Pending(P)
  BY <1>1, <1>4 DEF LowSeq, LowN
<1> QED BY <1>3, <1>4

LEMMA OverSound ==
    ASSUME NEW p \in Processes, NEW P \in Process, NEW X \in Process, NEW T \in [Subs -> Seq(Event)],
           NEW R, R \subseteq Event, ProcessSound(p, P, T, R), Over(P, X)
    PROVE  ProcessSound(p, X, T, R) /\ LowSeq(X) = X.next /\ ~Pending(X)
<1>1. /\ X.next = P.next /\ X.made = P.made /\ X.born = P.born /\ X.taken = P.taken /\ X.subs = P.subs
      /\ X.open /\ P.open
  BY DEF Over
<1>2. P.calls \in Seq(Call) /\ P.calls # <<>> /\ DOMAIN P.calls = 1 .. Len(P.calls)
  BY StoreFacts DEF Over
<1>3. /\ DOMAIN X.calls = 1 .. Len(P.calls) - 1 /\ Len(P.calls) \in Nat \ {0}
      /\ \A k \in 1 .. Len(P.calls) - 1 : X.calls[k] = P.calls[k + 1]
      /\ X.calls # <<>> => Head(X.calls) = P.calls[2] /\ 2 \in DOMAIN P.calls
  BY <1>2, ReturnedSeq DEF Over
<1>4. \A k \in DOMAIN P.calls : CallSound(p, P, P.calls[k], R) /\ (k > 1 => P.calls[k].last # 0)
  BY DEF ProcessSound, CallsSound
<1>5. X.calls # <<>> => Head(X.calls).last # 0 /\ Head(X.calls).inserted
  BY <1>3, <1>4 DEF CallSound
<1>6. LowSeq(X) = X.next /\ LowN(X) = X.made + 1 /\ ~Pending(X)
  BY <1>5 DEF LowSeq, LowN, Pending
<1>7. CallsSound(p, X, R)
  <2> SUFFICES ASSUME NEW k \in DOMAIN X.calls
               PROVE  CallSound(p, X, X.calls[k], R) /\ X.calls[k].last # 0
    BY DEF CallsSound
  <2>1. k + 1 \in DOMAIN P.calls /\ k + 1 > 1 /\ X.calls[k] = P.calls[k + 1]
    BY <1>2, <1>3
  <2>2. CallSound(p, P, P.calls[k + 1], R) /\ P.calls[k + 1].last # 0
    BY <1>4, <2>1
  <2> QED BY <1>1, <2>1, <2>2, CallSame
<1>8. StoreSound(X)
  BY <1>1 DEF StoreSound, ProcessSound
<1>9. RowsSound(p, X, R)
  <2>1. \A r \in R : r.n \in Nat /\ r.seq \in Nat
    BY EventFacts
  <2>2. /\ LowSeq(P) \in Nat /\ LowN(P) \in Nat /\ LowSeq(P) <= P.next /\ LowN(P) <= P.made + 1
        /\ P.next \in Nat /\ P.made + 1 \in Nat
    BY LowFacts, StoreFacts DEF ProcessSound
  <2>3. ASSUME NEW r \in R, r.by = p
        PROVE  r.n < LowN(X) /\ r.seq < LowSeq(X) /\ (r.n > X.born => r.audience \subseteq 1 .. X.taken)
    <3>1. r.n < LowN(P) /\ r.seq < LowSeq(P) /\ (r.n > P.born => r.audience \subseteq 1 .. P.taken)
      BY <1>1, <2>3 DEF ProcessSound, RowsSound
    <3>2. r.n < P.made + 1
      BY <2>1, <2>2, <3>1
    <3>3. r.seq < P.next
      BY <2>1, <2>2, <3>1
    <3> QED BY <1>1, <1>6, <3>1, <3>2, <3>3
  <2> QED BY <2>3 DEF RowsSound
<1>10. ToldSound(X, T, R)
  BY <1>1 DEF ToldSound, ProcessSound
<1>11. EldestSound(X, T)
  BY <1>1, <1>5 DEF EldestSound, ProcessSound
<1>12. EveryoneSound(p, X, T, R)
  <2> SUFFICES ASSUME X.open, ~X.cut, NEW s \in X.subs, NEW r \in R, r.by = p, r.n > X.born, s \in r.audience,
                      ~\E i \in DOMAIN T[s] : T[s][i] = r
               PROVE  \E k \in DOMAIN X.calls : ToTell(X.calls[k], r, s)
    BY DEF EveryoneSound
  <2>1. ~P.cut
    BY DEF Over
  <2>2. PICK k \in DOMAIN P.calls : ToTell(P.calls[k], r, s)
    BY <1>1, <2>1 DEF EveryoneSound, ProcessSound
  <2>3. ASSUME k = 1 PROVE FALSE
    <3>1. Head(P.calls) = P.calls[1] /\ Head(P.calls) \in Call
      BY <1>2, StoreFacts
    <3>2. ToTell(Head(P.calls), r, s)
      BY <2>2, <2>3, <3>1
    <3>3. ~(s > Head(P.calls).last) /\ Head(P.calls).at >= Len(Head(P.calls).events)
      BY <1>1, <3>2 DEF Over, ToTell
    <3>4. \A i \in DOMAIN Head(P.calls).events : ~(i > Head(P.calls).at)
      BY <3>1, <3>3, CallFacts
    <3> QED BY <3>2, <3>3, <3>4 DEF ToTell
  <2>4. k - 1 \in DOMAIN X.calls /\ X.calls[k - 1] = P.calls[k]
    <3>1. k - 1 \in 1 .. Len(P.calls) - 1 /\ (k - 1) + 1 = k
      BY <1>2, <1>3, <2>3
    <3> QED BY <1>3, <3>1
  <2> QED BY <2>2, <2>4
<1> QED BY <1>6, <1>7, <1>8, <1>9, <1>10, <1>11, <1>12 DEF ProcessSound

\* Return(P), with cut or not, is such a store.
LEMMA ReturnFacts ==
    ASSUME NEW P \in Process, P.calls # <<>>
    PROVE  /\ Return(P) \in Process /\ Return(P).open = P.open /\ Return(P).next = P.next
           /\ Return(P).subs = P.subs /\ Return(P).taken = P.taken /\ Return(P).calls = Tail(P.calls)
           /\ Return(P).made = P.made /\ Return(P).born = P.born /\ Return(P).cut = P.cut
<1>1. P.calls \in Seq(Call)
  BY StoreFacts
<1>2. Tail(P.calls) \in Seq(Call)
  BY <1>1, ReturnedSeq
<1> QED BY <1>2 DEF Return, Process


LEMMA HandlerThrowsSound ==
    ASSUME EventInv, NEW p \in Processes, HandlerThrows(p) PROVE EventInv'
<1> DEFINE P == proc[p]
           X == [Return(P) EXCEPT !.cut = TRUE]
           T == told[p]
<1>1. /\ P \in Process /\ T \in [Subs -> Seq(Event)] /\ ProcessSound(p, P, T, rows)
      /\ StaleSound(P, rows, fails[p], foreign[p]) /\ rows \subseteq Event /\ IsFiniteSet(rows)
      /\ fails[p] \in Nat /\ foreign[p] \in Nat
  BY ProcFacts DEF RowsFinite
<1>2. P.open /\ P.calls # <<>> /\ Head(P.calls).last # 0
  BY DEF HandlerThrows, Top
<1>3. /\ X \in Process /\ X.open = P.open /\ X.next = P.next /\ X.subs = P.subs /\ X.taken = P.taken
      /\ X.calls = Tail(P.calls) /\ X.made = P.made /\ X.born = P.born /\ X.cut = TRUE
  <2>1. \A Q \in Process : LET Y == [Q EXCEPT !.cut = TRUE]
                           IN  /\ Y \in Process /\ Y.open = Q.open /\ Y.next = Q.next /\ Y.subs = Q.subs
                               /\ Y.taken = Q.taken /\ Y.calls = Q.calls /\ Y.made = Q.made
                               /\ Y.born = Q.born /\ Y.cut = TRUE
    BY DEF Process
  <2>2. Return(P) \in Process
    BY <1>1, <1>2, ReturnFacts
  <2> DEFINE Q == Return(P)
  <2>3. /\ Q.open = P.open /\ Q.next = P.next /\ Q.subs = P.subs /\ Q.taken = P.taken
        /\ Q.calls = Tail(P.calls) /\ Q.made = P.made /\ Q.born = P.born
    BY <1>1, <1>2, ReturnFacts
  <2> HIDE DEF Q, P
  <2> QED BY <2>1, <2>2, <2>3 DEF Q
<1>4. proc' = [proc EXCEPT ![p] = X] /\ UNCHANGED <<rows, told, fails, foreign>>
  BY DEF HandlerThrows, Set
<1> HIDE DEF X
<1>5. ProcessSound(p, X, T, rows) /\ LowSeq(X) = X.next
  <2>1. Over(P, X)
    BY <1>2, <1>3 DEF Over
  <2> HIDE DEF P, T
  <2> QED BY <1>1, <1>3, <2>1, OverSound
<1>6. StaleSound(X, rows, fails[p], foreign[p])
  <2>1. ~Pending(P)
    <3>1. Head(P.calls) = P.calls[1] /\ 1 \in DOMAIN P.calls
      BY <1>1, <1>2, StoreFacts
    <3>2. Head(P.calls).inserted
      BY <1>1, <1>2, <3>1, EachCall, CallSteps
    <3> QED BY <3>2 DEF Pending
  <2>2. LowSeq(P) = P.next /\ P.next \in Nat
    BY <1>1, <2>1, StoreFacts DEF LowSeq
  <2> HIDE DEF P
  <2> QED BY <1>1, <1>3, <1>5, <2>2, AheadShrinks, SMTT(30)
<1>7. told' = [told EXCEPT ![p] = T]
  BY <1>4, ProcFacts
<1> HIDE DEF T
<1> QED BY <1>1, <1>3, <1>4, <1>5, <1>6, <1>7, ProcFacts, StepSound DEF T

\* The innermost call goes on as c: the log, now R, has what it made.
GoesOn(P, X, c, R) ==
    /\ P.open /\ X.open /\ P.calls # <<>> /\ X.calls = <<c>> \o Tail(P.calls)
    /\ X.next = P.next /\ X.made = P.made /\ X.born = P.born /\ X.taken = P.taken /\ X.subs = P.subs
    /\ X.cut = P.cut /\ c.events = Head(P.calls).events /\ c.inserted
    /\ c.at <= Len(c.events) /\ (Len(c.events) > 1 => c.last = 0)
    /\ \A i \in DOMAIN c.events : c.events[i].chunk \/ c.events[i] \in R

LEMMA GoesOnFacts ==
    ASSUME NEW P \in Process, NEW X, NEW c \in Call, NEW R, GoesOn(P, X, c, R)
    PROVE  /\ X.calls # <<>> /\ Head(X.calls) = c /\ X.calls[1] = c
           /\ DOMAIN X.calls = DOMAIN P.calls /\ 1 \in DOMAIN P.calls /\ Head(P.calls) = P.calls[1]
           /\ \A k \in DOMAIN P.calls : k > 1 => X.calls[k] = P.calls[k]
           /\ ~Pending(X) /\ LowSeq(X) = X.next /\ LowN(X) = X.made + 1
<1>1. P.calls \in Seq(Call) /\ P.calls # <<>> /\ c.inserted
  BY StoreFacts DEF GoesOn
<1>2. /\ X.calls # <<>> /\ Head(X.calls) = c /\ X.calls[1] = c
      /\ DOMAIN X.calls = DOMAIN P.calls
      /\ \A k \in DOMAIN P.calls : k > 1 => X.calls[k] = P.calls[k]
  BY <1>1, ReplacedSeq DEF GoesOn
<1> QED BY <1>1, <1>2, StoreFacts DEF Pending, LowSeq, LowN

LEMMA GoesOnSound ==
    ASSUME NEW p \in Processes, NEW P \in Process, NEW X \in Process, NEW c \in Call, NEW T,
           NEW R, NEW S, R \subseteq S, S \subseteq Event, ProcessSound(p, P, T, R), GoesOn(P, X, c, S),
           \A r \in S \ R : \E i \in DOMAIN c.events : r = c.events[i]
    PROVE  CallsSound(p, X, S) /\ StoreSound(X) /\ RowsSound(p, X, S)
<1>0. /\ X.calls # <<>> /\ Head(X.calls) = c /\ X.calls[1] = c
      /\ DOMAIN X.calls = DOMAIN P.calls /\ 1 \in DOMAIN P.calls /\ Head(P.calls) = P.calls[1]
      /\ \A k \in DOMAIN P.calls : k > 1 => X.calls[k] = P.calls[k]
      /\ ~Pending(X) /\ LowSeq(X) = X.next /\ LowN(X) = X.made + 1
  BY GoesOnFacts
<1>1. /\ X.next = P.next /\ X.made = P.made /\ X.born = P.born /\ X.taken = P.taken /\ X.subs = P.subs
      /\ X.open /\ P.open
  BY DEF GoesOn
<1>2. \A k \in DOMAIN P.calls : CallSound(p, P, P.calls[k], R) /\ (k > 1 => P.calls[k].last # 0)
  BY DEF ProcessSound, CallsSound
<1>3. CallSound(p, P, Head(P.calls), R) /\ c.events = Head(P.calls).events
  BY <1>2, <1>0, SMTT(30) DEF GoesOn
<1>4. CallSound(p, X, c, S)
  <2>1. ASSUME NEW i \in DOMAIN c.events
        PROVE  /\ c.events[i].by = p
               /\ c.events[i].n = c.events[1].n + i - 1 /\ c.events[i].seq = c.events[1].seq + i - 1
               /\ c.events[i].first = c.events[1].n /\ c.events[i].size = Len(c.events)
               /\ X.born < c.events[i].n /\ c.events[i].n <= X.made /\ c.events[i].seq < X.next
               /\ c.events[i].audience \subseteq 1 .. X.taken
    BY <1>1, <1>3 DEF CallSound
  <2>2. c.events # <<>> /\ (Len(c.events) > 1 => X.subs = {})
    BY <1>1, <1>3 DEF CallSound
  <2> QED BY <2>1, <2>2 DEF CallSound, GoesOn
<1>5. CallsSound(p, X, S)
  <2>1. ASSUME NEW k \in DOMAIN X.calls, k > 1
        PROVE  CallSound(p, X, X.calls[k], S) /\ X.calls[k].last # 0
    <3>1. k \in DOMAIN P.calls /\ X.calls[k] = P.calls[k]
      BY <2>1, <1>0
    <3>2. CallSound(p, P, P.calls[k], R) /\ P.calls[k].last # 0
      BY <1>2, <2>1, <3>1
    <3> QED BY <1>1, <3>1, <3>2 DEF CallSound
  <2>2. \A k \in DOMAIN X.calls : k = 1 \/ k > 1
    BY <1>0, StoreFacts
  <2> QED BY <1>4, <2>1, <2>2, <1>0 DEF CallsSound
<1>6. StoreSound(X)
  BY <1>1 DEF StoreSound, ProcessSound
<1>7. RowsSound(p, X, S)
  <2>1. \A r \in S : r.n \in Nat /\ r.seq \in Nat
    BY EventFacts
  <2>2. /\ LowSeq(P) \in Nat /\ LowN(P) \in Nat /\ LowSeq(P) <= P.next /\ LowN(P) <= P.made + 1
        /\ P.next \in Nat /\ P.made \in Nat
    BY LowFacts, StoreFacts DEF ProcessSound
  <2>3. ASSUME NEW r \in S, r.by = p
        PROVE  r.n < LowN(X) /\ r.seq < LowSeq(X) /\ (r.n > X.born => r.audience \subseteq 1 .. X.taken)
    <3>1. CASE r \in R
      <4>1. r.n < LowN(P) /\ r.seq < LowSeq(P) /\ (r.n > P.born => r.audience \subseteq 1 .. P.taken)
        BY <1>1, <2>3, <3>1 DEF ProcessSound, RowsSound
      <4>2. r.n < P.made + 1
        BY <2>1, <2>2, <4>1
      <4>3. r.seq < P.next
        BY <2>1, <2>2, <4>1
      <4> QED BY <1>1, <4>1, <4>2, <4>3, <1>0
    <3>2. CASE r \notin R
      <4>1. r.n <= X.made /\ r.seq < X.next /\ r.audience \subseteq 1 .. X.taken
        BY <1>4, <3>2 DEF CallSound
      <4>2. r.n < X.made + 1
        BY <1>1, <2>1, <2>2, <4>1
      <4> QED BY <4>1, <4>2, <1>0
    <3> QED BY <3>1, <3>2
  <2> QED BY <2>3 DEF RowsSound
<1> QED BY <1>5, <1>6, <1>7

\* Replace(P, c) is such a store.
LEMMA ReplaceFacts ==
    ASSUME NEW P \in Process, P.calls # <<>>, NEW c \in Call
    PROVE  LET X == Replace(P, c)
           IN  /\ X \in Process /\ X.open = P.open /\ X.next = P.next
               /\ X.subs = P.subs /\ X.taken = P.taken /\ X.calls = <<c>> \o Tail(P.calls)
               /\ X.made = P.made /\ X.born = P.born /\ X.cut = P.cut
<1>1. P.calls \in Seq(Call)
  BY StoreFacts
<1>2. <<c>> \o Tail(P.calls) \in Seq(Call)
  BY <1>1, ReplacedSeq
<1> QED BY <1>2 DEF Replace, Process


\* A call that is done with all of its events returns; else it tells the next.
LEMMA AllToldSound == ASSUME EventInv, NEW p \in Processes, AllTold(p) PROVE EventInv'
<1> DEFINE P == proc[p]
           T == told[p]
           c == Head(P.calls)
           d == [c EXCEPT !.at = @ + 1, !.last = 0]
           X == IF c.at < Len(c.events) THEN Replace(P, d) ELSE Return(P)
<1>1. /\ P \in Process /\ T \in [Subs -> Seq(Event)] /\ ProcessSound(p, P, T, rows)
      /\ StaleSound(P, rows, fails[p], foreign[p]) /\ rows \subseteq Event /\ IsFiniteSet(rows)
      /\ fails[p] \in Nat /\ foreign[p] \in Nat
  BY ProcFacts DEF RowsFinite
<1>2. /\ P.open /\ P.calls # <<>> /\ c.inserted /\ \A s \in P.subs : ~(s > c.last)
      /\ UNCHANGED <<rows, told, fails, foreign>> /\ proc' = [proc EXCEPT ![p] = X]
  BY DEF AllTold, Top, Untold, Set
<1>3. c \in Call /\ CallSound(p, P, c, rows) /\ c.at <= Len(c.events)
      /\ c.at \in Nat \ {0} /\ Len(c.events) \in Nat
  <2>1. c \in Call /\ c = P.calls[1] /\ 1 \in DOMAIN P.calls
    BY <1>1, <1>2, StoreFacts
  <2>2. CallSound(p, P, c, rows)
    BY <1>1, <2>1 DEF ProcessSound, CallsSound
  <2> HIDE DEF c
  <2> QED BY <2>1, <2>2, CallFacts DEF CallSound
<1>4. /\ d \in Call /\ d.events = c.events /\ d.inserted = c.inserted /\ d.at = c.at + 1 /\ d.last = 0
  <2>1. c.at + 1 \in Nat \ {0} /\ 0 \in Nat
    BY <1>3, SMTT(30)
  <2> HIDE DEF c
  <2> QED BY <1>3, <2>1 DEF Call
<1>5. ~Pending(P) /\ LowSeq(P) = P.next /\ P.next \in Nat
  BY <1>1, <1>2, StoreFacts DEF Pending, LowSeq
<1> HIDE DEF d
<1>6. X \in Process /\ X.open /\ X.next = P.next /\ ProcessSound(p, X, T, rows) /\ LowSeq(X) = X.next
  <2>1. CASE c.at < Len(c.events)
    <3>1. /\ X \in Process /\ X.open = P.open /\ X.next = P.next
          /\ X.subs = P.subs /\ X.taken = P.taken /\ X.calls = <<d>> \o Tail(P.calls)
          /\ X.made = P.made /\ X.born = P.born /\ X.cut = P.cut
      BY <1>1, <1>2, <1>4, <2>1, ReplaceFacts
    <3>2. P.subs = {} /\ X.subs = {} /\ d.at <= Len(d.events)
      <4> HIDE DEF c
      <4>1. Len(c.events) > 1 /\ d.at <= Len(d.events)
        BY <1>3, <1>4, <2>1, SMTT(30)
      <4> QED BY <1>3, <3>1, <4>1 DEF CallSound
    <3>3. GoesOn(P, X, d, rows)
      BY <1>2, <1>3, <1>4, <3>1, <3>2 DEF GoesOn, CallSound
    <3> HIDE DEF X, P, T
    <3>4. CallsSound(p, X, rows) /\ StoreSound(X) /\ RowsSound(p, X, rows) /\ LowSeq(X) = X.next
      BY <1>1, <1>4, <3>1, <3>3, GoesOnSound, GoesOnFacts
    <3>5. ToldSound(X, T, rows)
      BY <1>1, <3>1 DEF ToldSound, ProcessSound
    <3>6. EldestSound(X, T) /\ EveryoneSound(p, X, T, rows)
      BY <3>2 DEF EldestSound, EveryoneSound
    <3> QED BY <1>2, <3>1, <3>4, <3>5, <3>6 DEF ProcessSound
  <2>2. CASE ~(c.at < Len(c.events))
    <3>1. /\ X \in Process /\ X.open = P.open /\ X.next = P.next
          /\ X.subs = P.subs /\ X.taken = P.taken /\ X.calls = Tail(P.calls)
          /\ X.made = P.made /\ X.born = P.born /\ X.cut = P.cut
      BY <1>1, <1>2, <2>2, ReturnFacts
    <3>2. c.at >= Len(c.events)
      BY <1>3, <2>2
    <3>3. Over(P, X)
      BY <1>2, <3>1, <3>2 DEF Over
    <3> HIDE DEF X, P, T
    <3>4. ProcessSound(p, X, T, rows) /\ LowSeq(X) = X.next
      BY <1>1, <3>1, <3>3, OverSound
    <3> QED BY <1>2, <3>1, <3>4
  <2> QED BY <2>1, <2>2
<1> HIDE DEF X
<1>7. StaleSound(X, rows, fails[p], foreign[p])
  <2>1. X.open = P.open /\ LowSeq(X) = LowSeq(P) /\ LowSeq(P) \in Nat
    BY <1>2, <1>5, <1>6
  <2>2. LowSeq(P) <= LowSeq(X) /\ LowSeq(X) \in Nat
    BY <2>1
  <2> HIDE DEF P
  <2> QED BY <1>1, <2>1, <2>2, AheadShrinks
<1>8. told' = [told EXCEPT ![p] = T]
  BY <1>2, ProcFacts
<1> HIDE DEF T
<1> QED BY <1>1, <1>2, <1>6, <1>7, <1>8, ProcFacts, StepSound DEF T


\* The next subscription hears the event the innermost call is at.
LEMMA TellSound == ASSUME EventInv, NEW p \in Processes, Tell(p) PROVE EventInv'
<1> DEFINE P == proc[p]
           T == told[p]
           c == Head(P.calls)
           s == Min(Untold(p, Top(p)))
           e == c.events[c.at]
           d == [c EXCEPT !.last = s]
           X == Replace(P, d)
           U == [T EXCEPT ![s] = Append(@, e)]
<1>1. /\ P \in Process /\ T \in [Subs -> Seq(Event)] /\ ProcessSound(p, P, T, rows)
      /\ StaleSound(P, rows, fails[p], foreign[p]) /\ rows \subseteq Event /\ IsFiniteSet(rows)
      /\ fails[p] \in Nat /\ foreign[p] \in Nat
  BY ProcFacts DEF RowsFinite
<1>2. /\ P.open /\ P.calls # <<>> /\ c.inserted /\ proc' = [proc EXCEPT ![p] = X]
      /\ UNCHANGED <<rows, fails, foreign>>
  BY DEF Tell, Top, Set
<1>3. c \in Call /\ CallSound(p, P, c, rows) /\ c.at \in Nat \ {0} /\ c.last \in Nat /\ Len(c.events) \in Nat
  <2>1. c \in Call /\ c = P.calls[1] /\ 1 \in DOMAIN P.calls
    BY <1>1, <1>2, StoreFacts
  <2>2. CallSound(p, P, c, rows)
    BY <1>1, <2>1 DEF ProcessSound, CallsSound
  <2> HIDE DEF c
  <2> QED BY <2>1, <2>2, CallFacts
<1>4. /\ s \in Subs /\ s \in Nat \ {0} /\ s \in P.subs /\ s > c.last
      /\ \A t \in P.subs : t > c.last => s <= t
  <2>1. P.subs \in SUBSET Subs /\ \A t \in Subs : t \in Nat \ {0}
    BY <1>1, StoreFacts, SubsNumbers
  <2>2. Untold(p, Top(p)) = {t \in P.subs : t > c.last} /\ Untold(p, Top(p)) # {}
    BY DEF Untold, Top, Tell
  <2>3. Untold(p, Top(p)) \in SUBSET Nat
    BY <2>1, <2>2
  <2>4. s \in Untold(p, Top(p)) /\ \A t \in Untold(p, Top(p)) : s <= t
    BY <2>2, <2>3, MinIsLeast
  <2> QED BY <2>1, <2>2, <2>4
<1> HIDE DEF s
<1>5. told' = [told EXCEPT ![p] = U]
  BY ProcFacts DEF Tell, s, Top
<1>6. d \in Call /\ d.events = c.events /\ d.inserted /\ d.at = c.at /\ d.last = s
  <2> HIDE DEF c
  <2> QED BY <1>2, <1>3, <1>4, SMTT(30) DEF Call, c
<1>7. Len(c.events) = 1 /\ c.at = 1 /\ DOMAIN c.events = {1} /\ e = c.events[1] /\ e \in Event
      /\ (e.chunk \/ e \in rows) /\ e.seq < P.next
  <2>1. c.at <= Len(c.events) /\ ~(Len(c.events) > 1)
    BY <1>3, <1>4 DEF CallSound
  <2>2. Len(c.events) = 1 /\ c.at = 1
    <3>1. \A l \in Nat, a \in Nat \ {0} : a <= l /\ ~(l > 1) => l = 1 /\ a = 1
      OBVIOUS
    <3> QED BY <1>3, <2>1, <3>1
  <2>3. DOMAIN c.events = 1 .. 1 /\ \A i \in DOMAIN c.events : c.events[i] \in Event
    BY <1>3, <2>2, CallFacts
  <2>4. 1 .. 1 = {1}
    OBVIOUS
  <2>5. DOMAIN c.events = {1} /\ c.events[1] \in Event
    BY <2>3, <2>4
  <2> QED BY <1>2, <1>3, <2>2, <2>5 DEF CallSound
<1> DEFINE h == T[s]
<1>8. /\ U \in [Subs -> Seq(Event)] /\ U[s] = Append(h, e) /\ (\A t \in Subs \ {s} : U[t] = T[t])
      /\ DOMAIN Append(h, e) = 1 .. Len(h) + 1 /\ Append(h, e)[Len(h) + 1] = e
      /\ (\A i \in DOMAIN h : Append(h, e)[i] = h[i]) /\ DOMAIN h = 1 .. Len(h) /\ Len(h) \in Nat
  <2>1. h \in Seq(Event) /\ DOMAIN h = 1 .. Len(h) /\ Len(h) \in Nat
    BY <1>1, <1>4, HeardFacts, SMTT(30)
  <2>2. /\ Append(h, e) \in Seq(Event) /\ Len(Append(h, e)) = Len(h) + 1
        /\ \A i \in 1 .. Len(h) : Append(h, e)[i] = h[i]
        /\ Append(h, e)[Len(h) + 1] = e
    <3>1. e \in Event /\ h \in Seq(Event)
      BY <1>7, <2>1
    <3> HIDE DEF h, e
    <3> QED BY <3>1, AppendProperties
  <2>3. DOMAIN Append(h, e) = 1 .. Len(h) + 1
    BY <2>2, LenProperties
  <2> HIDE DEF h, e
  <2>4. U \in [Subs -> Seq(Event)] /\ U[s] = Append(h, e) /\ (\A t \in Subs \ {s} : U[t] = T[t])
    BY <1>1, <1>4, <2>2 DEF h
  <2> QED BY <2>1, <2>2, <2>3, <2>4
<1>9. /\ X \in Process /\ X.open = P.open /\ X.next = P.next
      /\ X.subs = P.subs /\ X.taken = P.taken /\ X.calls = <<d>> \o Tail(P.calls)
      /\ X.made = P.made /\ X.born = P.born /\ X.cut = P.cut
  <2> HIDE DEF d
  <2> QED BY <1>1, <1>2, <1>6, ReplaceFacts
<1> HIDE DEF d, X, U
<1>10. GoesOn(P, X, d, rows)
  <2>1. \A i \in DOMAIN d.events : d.events[i].chunk \/ d.events[i] \in rows
    BY <1>6, <1>7
  <2>2. d.at <= Len(d.events) /\ ~(Len(d.events) > 1)
    <3>1. d.at = 1 /\ Len(d.events) = 1
      BY <1>6, <1>7
    <3> QED BY <3>1
  <2> QED BY <1>2, <1>6, <1>9, <2>1, <2>2 DEF GoesOn
<1>11. /\ CallsSound(p, X, rows) /\ StoreSound(X) /\ RowsSound(p, X, rows)
  <2> HIDE DEF P, T
  <2> QED BY <1>1, <1>6, <1>9, <1>10, GoesOnSound
<1>12. /\ Head(X.calls) = d /\ X.calls[1] = d /\ DOMAIN X.calls = DOMAIN P.calls /\ 1 \in DOMAIN P.calls
       /\ c = P.calls[1] /\ (\A k \in DOMAIN P.calls : k > 1 => X.calls[k] = P.calls[k])
       /\ ~Pending(X) /\ LowSeq(X) = X.next
  <2> HIDE DEF P
  <2>1. /\ X.calls # <<>> /\ Head(X.calls) = d /\ X.calls[1] = d
        /\ DOMAIN X.calls = DOMAIN P.calls /\ 1 \in DOMAIN P.calls /\ Head(P.calls) = P.calls[1]
        /\ \A k \in DOMAIN P.calls : k > 1 => X.calls[k] = P.calls[k]
        /\ ~Pending(X) /\ LowSeq(X) = X.next /\ LowN(X) = X.made + 1
    BY <1>1, <1>6, <1>10, GoesOnFacts
  <2> QED BY <2>1
<1> HIDE DEF h, e
<1>13. ToldSound(X, U, rows)
  <2>1. ASSUME NEW t \in Subs
        PROVE  (t \notin X.subs => U[t] = <<>>) /\ \A i \in DOMAIN U[t] : U[t][i].chunk \/ U[t][i] \in rows
    <3>1. (t \notin P.subs => T[t] = <<>>) /\ \A i \in DOMAIN T[t] : T[t][i].chunk \/ T[t][i] \in rows
      BY <1>1 DEF ProcessSound, ToldSound
    <3>2. CASE t # s
      BY <1>8, <1>9, <3>1, <3>2
    <3>3. CASE t = s
      <4>1. t \in X.subs
        BY <1>4, <1>9, <3>3
      <4>2. \A i \in DOMAIN Append(h, e) : i \in DOMAIN h \/ i = Len(h) + 1
        BY <1>8
      <4>3. ASSUME NEW i \in DOMAIN Append(h, e)
            PROVE  Append(h, e)[i].chunk \/ Append(h, e)[i] \in rows
        <5>1. CASE i \in DOMAIN h
          BY <1>8, <3>1, <3>3, <5>1 DEF h
        <5>2. CASE i = Len(h) + 1
          BY <1>7, <1>8, <5>2
        <5> QED BY <4>2, <5>1, <5>2
      <4> QED BY <1>8, <3>3, <4>1, <4>3
    <3> QED BY <3>2, <3>3
  <2> QED BY <2>1 DEF ToldSound
<1>14. EldestSound(X, U)
  <2> SUFFICES ASSUME 1 \in P.subs
               PROVE  /\ \A i, j \in DOMAIN U[1] : i < j => U[1][i].seq < U[1][j].seq
                      /\ \A i \in DOMAIN U[1] : U[1][i].seq < X.next
    <3>1. Head(X.calls).last # 0
      BY <1>4, <1>6, <1>12
    <3> QED BY <1>9, <3>1 DEF EldestSound
  <2>1. /\ \A i, j \in DOMAIN T[1] : i < j => T[1][i].seq < T[1][j].seq
        /\ \A i \in DOMAIN T[1] : T[1][i].seq < P.next
        /\ c.last = 0 => \A i \in DOMAIN T[1], j \in DOMAIN c.events : T[1][i].seq < c.events[j].seq
    BY <1>1, <1>2 DEF ProcessSound, EldestSound
  <2>2. 1 \in Subs
    BY <1>4, SubsNumbers
  <2>3. CASE s # 1
    <3>1. U[1] = T[1]
      BY <1>8, <2>2, <2>3
    <3> QED BY <1>9, <2>1, <3>1
  <2>4. CASE s = 1
    <3>1. c.last = 0 /\ h = T[1]
      BY <1>3, <1>4, <2>4 DEF h
    <3>2. \A i \in DOMAIN h : h[i].seq < e.seq
      BY <1>7, <2>1, <3>1
    <3>3. \A i \in DOMAIN Append(h, e) : i \in DOMAIN h \/ i = Len(h) + 1
      BY <1>8
    <3>4. ASSUME NEW i \in DOMAIN Append(h, e) PROVE Append(h, e)[i].seq < X.next
      <4>1. CASE i \in DOMAIN h
        BY <1>8, <1>9, <2>1, <3>1, <4>1
      <4>2. CASE i = Len(h) + 1
        BY <1>7, <1>8, <1>9, <4>2
      <4> QED BY <3>3, <4>1, <4>2
    <3>5. ASSUME NEW i \in DOMAIN Append(h, e), NEW j \in DOMAIN Append(h, e), i < j
          PROVE  Append(h, e)[i].seq < Append(h, e)[j].seq
      <4>1. i \in DOMAIN h
        BY <1>8, <3>5
      <4>2. CASE j \in DOMAIN h
        BY <1>8, <2>1, <3>1, <3>5, <4>1, <4>2
      <4>3. CASE j = Len(h) + 1
        BY <1>8, <3>2, <4>1, <4>3
      <4> QED BY <3>3, <4>2, <4>3
    <3> QED BY <1>8, <2>4, <3>4, <3>5
  <2> QED BY <2>3, <2>4
<1>15. EveryoneSound(p, X, U, rows)
  <2> SUFFICES ASSUME X.open, ~X.cut, NEW t \in X.subs, NEW r \in rows, r.by = p, r.n > X.born, t \in r.audience
               PROVE  \/ \E i \in DOMAIN U[t] : U[t][i] = r
                      \/ \E k \in DOMAIN X.calls : ToTell(X.calls[k], r, t)
    BY DEF EveryoneSound
  <2>1. t \in Subs /\ t \in P.subs /\ t \in Nat
    BY <1>1, <1>9, StoreFacts, SubsNumbers
  <2>2. \/ \E i \in DOMAIN T[t] : T[t][i] = r
        \/ \E k \in DOMAIN P.calls : ToTell(P.calls[k], r, t)
    BY <1>1, <1>2, <1>9, <2>1 DEF ProcessSound, EveryoneSound
  <2>3. CASE \E i \in DOMAIN T[t] : T[t][i] = r
    <3>1. CASE t # s
      BY <1>8, <2>1, <2>3, <3>1
    <3>2. CASE t = s
      <4>1. PICK i \in DOMAIN h : h[i] = r
        BY <2>3, <3>2 DEF h
      <4>2. i \in DOMAIN Append(h, e) /\ Append(h, e)[i] = r
        BY <1>8, <4>1
      <4> QED BY <1>8, <3>2, <4>2
    <3> QED BY <3>1, <3>2
  <2>4. CASE \E k \in DOMAIN P.calls : ToTell(P.calls[k], r, t)
    <3>1. PICK k \in DOMAIN P.calls : ToTell(P.calls[k], r, t)
      BY <2>4
    <3>2. CASE k # 1
      <4>1. k > 1
        BY <1>1, <3>2, StoreFacts
      <4> QED BY <1>12, <3>1, <4>1
    <3>3. CASE k = 1
      <4>1. PICK i \in DOMAIN c.events : c.events[i] = r /\ (i > c.at \/ (i = c.at /\ t > c.last))
        BY <1>12, <3>1, <3>3 DEF ToTell
      <4>2. r = e /\ t > c.last
        BY <1>7, <4>1
      <4>3. CASE t = s
        <5>1. Len(h) + 1 \in DOMAIN Append(h, e)
          BY <1>8
        <5> QED BY <1>8, <4>2, <4>3, <5>1
      <4>4. CASE t # s
        <5>1. t > s
          BY <1>4, <2>1, <4>2, <4>4
        <5>2. ToTell(d, r, t)
          BY <1>6, <1>7, <4>2, <5>1 DEF ToTell
        <5> QED BY <1>12, <5>2
      <4> QED BY <4>3, <4>4
    <3> QED BY <3>2, <3>3
  <2> QED BY <2>2, <2>3, <2>4
<1>16. StaleSound(X, rows, fails[p], foreign[p])
  <2>1. ~Pending(P)
    BY <1>2 DEF Pending
  <2>2. LowSeq(P) = P.next /\ P.next \in Nat
    BY <1>1, <2>1, StoreFacts DEF LowSeq
  <2>3. X.open = P.open /\ LowSeq(X) = LowSeq(P) /\ LowSeq(P) \in Nat
    BY <1>9, <1>12, <2>2
  <2>4. LowSeq(P) <= LowSeq(X) /\ LowSeq(X) \in Nat
    BY <2>3
  <2> HIDE DEF P
  <2> QED BY <1>1, <2>3, <2>4, AheadShrinks
<1>17. ProcessSound(p, X, U, rows)
  BY <1>11, <1>13, <1>14, <1>15 DEF ProcessSound
<1>18. /\ UNCHANGED rows /\ fails' \in [Processes -> Nat] /\ foreign' \in [Processes -> Nat]
       /\ fails'[p] = fails[p] /\ foreign'[p] = foreign[p]
       /\ \A q \in Processes \ {p} : fails'[q] = fails[q] /\ foreign'[q] = foreign[q]
  BY <1>2, ProcFacts
<1> QED BY <1>2, <1>5, <1>8, <1>9, <1>16, <1>17, <1>18, StepSound


\* The rows a call adds to the log.
RowsOf(c) == {c.events[i] : i \in DOMAIN c.events}

LEMMA PendingFacts ==
    ASSUME NEW p, NEW P \in Process, NEW R, CallsSound(p, P, R), Pending(P)
    PROVE  LET c == Head(P.calls)
           IN  /\ c \in Call /\ c = P.calls[1] /\ 1 \in DOMAIN P.calls /\ CallSound(p, P, c, R)
               /\ ~c.inserted /\ c.last = 0 /\ c.at = 1
               /\ Len(c.events) \in Nat \ {0} /\ DOMAIN c.events = 1 .. Len(c.events)
               /\ LowSeq(P) = c.events[1].seq /\ LowN(P) = c.events[1].n
               /\ LowSeq(P) \in Nat /\ LowN(P) \in Nat
               /\ \A i \in DOMAIN c.events : c.events[i] \in Event
<1> DEFINE c == Head(P.calls)
<1>1. c \in Call /\ c = P.calls[1] /\ 1 \in DOMAIN P.calls /\ ~c.inserted
  BY StoreFacts DEF Pending
<1>2. CallSound(p, P, c, R)
  BY <1>1 DEF CallsSound
<1>3. LowSeq(P) = c.events[1].seq /\ LowN(P) = c.events[1].n
  BY DEF LowSeq, LowN
<1> HIDE DEF c
<1>4. c.events # <<>> /\ c.last = 0 /\ c.at = 1
  BY <1>1, <1>2 DEF CallSound
<1>5. /\ Len(c.events) \in Nat \ {0} /\ DOMAIN c.events = 1 .. Len(c.events)
      /\ \A i \in DOMAIN c.events : c.events[i] \in Event
  BY <1>1, <1>4, CallFacts
<1>6. LowSeq(P) \in Nat /\ LowN(P) \in Nat
  BY LowFacts
<1> QED BY <1>1, <1>2, <1>3, <1>4, <1>5, <1>6 DEF c

LEMMA NewRows ==
    ASSUME NEW p \in Processes, NEW P \in Process, NEW R, CallsSound(p, P, R), Pending(P)
    PROVE  LET c == Head(P.calls)
               N == RowsOf(c)
           IN  /\ N \subseteq Event /\ IsFiniteSet(N) /\ Cardinality(N) = Len(c.events)
               /\ \A r \in N : r.by = p /\ LowSeq(P) <= r.seq /\ r.seq < P.next /\ LowN(P) <= r.n
               /\ \A e, f \in N : e.n < f.n => e.seq < f.seq
               /\ \A r \in N : \A n \in r.first .. r.first + r.size - 1 : \E e \in N : e.by = p /\ e.n = n
               /\ \E m \in N : \A r \in N : r.seq <= m.seq
<1> DEFINE c == Head(P.calls)
           l == Len(c.events)
           N == RowsOf(c)
           sq == c.events[1].seq
           nb == c.events[1].n
<1>1. /\ c \in Call /\ CallSound(p, P, c, R) /\ l \in Nat \ {0} /\ DOMAIN c.events = 1 .. l
      /\ LowSeq(P) = sq /\ LowN(P) = nb /\ sq \in Nat /\ nb \in Nat
      /\ \A i \in 1 .. l : c.events[i] \in Event
  BY PendingFacts
<1> HIDE DEF c
<1>2. \A i \in 1 .. l : /\ c.events[i].by = p /\ c.events[i].n = nb + i - 1 /\ c.events[i].seq = sq + i - 1
                        /\ c.events[i].first = nb /\ c.events[i].size = l /\ c.events[i].seq < P.next
  BY <1>1 DEF CallSound
<1>3. N \subseteq Event /\ \A r \in N : \E i \in 1 .. l : r = c.events[i]
  BY <1>1 DEF RowsOf
<1>4. \A i \in 1 .. l : c.events[i] \in N
  BY <1>1 DEF RowsOf
<1> HIDE DEF l, N, sq, nb
<1>5. IsFiniteSet(N) /\ Cardinality(N) = l
  <2> DEFINE f == [i \in 1 .. l |-> c.events[i]]
  <2>1. \A i, j \in 1 .. l : f[i] = f[j] => i = j
    <3> SUFFICES ASSUME NEW i \in 1 .. l, NEW j \in 1 .. l, c.events[i] = c.events[j] PROVE i = j
      OBVIOUS
    <3>1. c.events[i].seq = sq + i - 1 /\ c.events[j].seq = sq + j - 1
      BY <1>2
    <3>2. sq + i - 1 = sq + j - 1
      BY <3>1
    <3>3. i \in Int /\ j \in Int /\ sq \in Int
      BY <1>1
    <3> QED BY <3>2, <3>3
  <2>2. f \in [1 .. l -> N] /\ \A r \in N : \E i \in 1 .. l : f[i] = r
    BY <1>3, <1>4
  <2> HIDE DEF f
  <2>3. f \in Bijection(1 .. l, N)
    BY <2>1, <2>2 DEF Bijection, Injection, Surjection, IsInjective
  <2>4. IsFiniteSet(1 .. l) /\ Cardinality(1 .. l) = l
    BY <1>1, FS_Interval
  <2>5. ExistsBijection(1 .. l, N)
    BY <2>3 DEF ExistsBijection
  <2> QED BY <2>4, <2>5, FS_Bijection
<1>6. \A r \in N : r.by = p /\ LowSeq(P) <= r.seq /\ r.seq < P.next /\ LowN(P) <= r.n
  <2> SUFFICES ASSUME NEW i \in 1 .. l
               PROVE  /\ c.events[i].by = p /\ LowSeq(P) <= c.events[i].seq
                      /\ c.events[i].seq < P.next /\ LowN(P) <= c.events[i].n
    BY <1>3
  <2>1. c.events[i].seq = sq + i - 1 /\ c.events[i].n = nb + i - 1 /\ i \in Int /\ 1 <= i
    BY <1>1, <1>2
  <2>2. sq <= c.events[i].seq
    BY <1>1, <2>1
  <2>3. nb <= c.events[i].n
    BY <1>1, <2>1
  <2> QED BY <1>1, <1>2, <2>2, <2>3
<1>7. \A e, f \in N : e.n < f.n => e.seq < f.seq
  <2> SUFFICES ASSUME NEW i \in 1 .. l, NEW j \in 1 .. l, c.events[i].n < c.events[j].n
               PROVE  c.events[i].seq < c.events[j].seq
    BY <1>3
  <2>1. nb + i - 1 < nb + j - 1 /\ i \in Int /\ j \in Int
    BY <1>1, <1>2
  <2>2. sq + i - 1 < sq + j - 1
    BY <1>1, <2>1
  <2> QED BY <1>2, <2>2
<1>8. \A r \in N : \A n \in r.first .. r.first + r.size - 1 : \E e \in N : e.by = p /\ e.n = n
  <2> SUFFICES ASSUME NEW i \in 1 .. l, NEW k \in c.events[i].first .. c.events[i].first + c.events[i].size - 1
               PROVE  \E e \in N : e.by = p /\ e.n = k
    BY <1>3
  <2>1. k \in nb .. nb + l - 1
    BY <1>2
  <2>2. k - nb + 1 \in 1 .. l /\ nb + (k - nb + 1) - 1 = k
    BY <1>1, <2>1
  <2> DEFINE j == k - nb + 1
  <2> HIDE DEF j
  <2>3. j \in 1 .. l /\ nb + j - 1 = k
    BY <2>2 DEF j
  <2>4. c.events[j] \in N /\ c.events[j].by = p /\ c.events[j].n = k
    BY <1>2, <1>4, <2>3
  <2> QED BY <2>4
<1>9. \E m \in N : \A r \in N : r.seq <= m.seq
  <2>1. l \in 1 .. l
    BY <1>1
  <2>2. ASSUME NEW i \in 1 .. l PROVE c.events[i].seq <= c.events[l].seq
    <3>1. c.events[i].seq = sq + i - 1 /\ c.events[l].seq = sq + l - 1 /\ i \in Int /\ i <= l
      BY <1>1, <1>2, <2>1
    <3> QED BY <1>1, <3>1
  <2> QED BY <1>3, <1>4, <2>1, <2>2
<1> QED BY <1>3, <1>5, <1>6, <1>7, <1>8, <1>9 DEF c, N, l


\* The process whose rows they are has them in the log.
LEMMA InsertedOwn ==
    ASSUME NEW p \in Processes, NEW P \in Process, NEW X \in Process, NEW d \in Call,
           NEW T \in [Subs -> Seq(Event)], NEW R, NEW S, R \subseteq Event, IsFiniteSet(R),
           NEW failed \in Nat, NEW others \in Nat, ProcessSound(p, P, T, R), StaleSound(P, R, failed, others),
           Pending(P), S = R \cup RowsOf(Head(P.calls)), GoesOn(P, X, d, S), d.at = 1, d.last = 0
    PROVE  ProcessSound(p, X, T, S) /\ StaleSound(X, S, failed, others)
<1> DEFINE c == Head(P.calls)
           N == RowsOf(c)
<1>1. /\ X.next = P.next /\ X.born = P.born /\ X.subs = P.subs /\ X.cut = P.cut /\ X.open /\ P.open
      /\ d.events = c.events /\ d.inserted
  BY DEF GoesOn
<1>2. CallsSound(p, P, R)
  BY DEF ProcessSound
<1>3. /\ c = P.calls[1] /\ ~c.inserted /\ c.last = 0 /\ LowSeq(P) \in Nat
      /\ DOMAIN c.events = 1 .. Len(c.events) /\ Len(c.events) \in Nat \ {0}
  BY <1>2, PendingFacts
<1>4. N \subseteq Event /\ IsFiniteSet(N) /\ \A r \in N : r.by = p /\ r.seq < P.next
  BY <1>2, NewRows
<1>5. /\ X.calls # <<>> /\ Head(X.calls) = d /\ X.calls[1] = d
      /\ DOMAIN X.calls = DOMAIN P.calls /\ 1 \in DOMAIN P.calls
      /\ (\A k \in DOMAIN P.calls : k > 1 => X.calls[k] = P.calls[k]) /\ LowSeq(X) = X.next
  <2>1. /\ X.calls # <<>> /\ Head(X.calls) = d /\ X.calls[1] = d
        /\ DOMAIN X.calls = DOMAIN P.calls /\ 1 \in DOMAIN P.calls /\ Head(P.calls) = P.calls[1]
        /\ \A k \in DOMAIN P.calls : k > 1 => X.calls[k] = P.calls[k]
        /\ ~Pending(X) /\ LowSeq(X) = X.next /\ LowN(X) = X.made + 1
    BY GoesOnFacts
  <2> QED BY <2>1
<1>6. S \subseteq Event /\ R \subseteq S /\ \A r \in S \ R : r \in N
  BY <1>4
<1>7. CallsSound(p, X, S) /\ StoreSound(X) /\ RowsSound(p, X, S)
  <2>1. \A r \in S \ R : \E i \in DOMAIN d.events : r = d.events[i]
    BY <1>1, <1>6 DEF RowsOf
  <2> HIDE DEF c, N
  <2> QED BY <1>6, <2>1, GoesOnSound
<1>8. ToldSound(X, T, S)
  BY <1>1, <1>6 DEF ProcessSound, ToldSound
<1>9. EldestSound(X, T)
  <2>1. 1 \in P.subs =>
           /\ \A i, j \in DOMAIN T[1] : i < j => T[1][i].seq < T[1][j].seq
           /\ \A i \in DOMAIN T[1] : T[1][i].seq < P.next
           /\ \A i \in DOMAIN T[1], j \in DOMAIN c.events : T[1][i].seq < c.events[j].seq
    BY <1>3 DEF ProcessSound, EldestSound, Pending
  <2> QED BY <1>1, <1>5, <2>1 DEF EldestSound
<1>10. EveryoneSound(p, X, T, S)
  <2> SUFFICES ASSUME ~X.cut, NEW s \in X.subs, NEW r \in S, r.by = p, r.n > X.born, s \in r.audience,
                      ~\E i \in DOMAIN T[s] : T[s][i] = r
               PROVE  \E k \in DOMAIN X.calls : ToTell(X.calls[k], r, s)
    BY DEF EveryoneSound
  <2>1. CASE r \in R
    <3>1. PICK k \in DOMAIN P.calls : ToTell(P.calls[k], r, s)
      BY <1>1, <2>1 DEF EveryoneSound, ProcessSound
    <3>2. k # 1
      BY <1>3, <3>1 DEF ToTell
    <3>3. k > 1
      BY <3>2, StoreFacts
    <3> QED BY <1>5, <3>1, <3>3
  <2>2. CASE r \in N
    <3>1. PICK i \in DOMAIN c.events : r = c.events[i]
      BY <2>2 DEF RowsOf
    <3>2. s \in Nat \ {0} /\ i \in Nat \ {0}
      <4>1. X.subs \in SUBSET Subs /\ \A t \in Subs : t \in Nat \ {0}
        BY StoreFacts, SubsNumbers
      <4>2. i \in 1 .. Len(c.events) /\ Len(c.events) \in Nat
        BY <1>3
      <4> QED BY <4>1, <4>2
    <3>3. i > d.at \/ (i = d.at /\ s > d.last)
      BY <3>2
    <3>4. ToTell(d, r, s)
      BY <1>1, <3>1, <3>3 DEF ToTell
    <3> QED BY <1>5, <3>4
  <2> QED BY <1>6, <2>1, <2>2
<1>11. StaleSound(X, S, failed, others)
  <2>1. P.next \in Nat /\ \A r \in R : r.seq \in Nat
    BY StoreFacts, EventFacts
  <2>2. Ahead(X, S) = Ahead(X, R)
    <3>1. \A r \in N : ~(r.seq >= LowSeq(X))
      BY <1>1, <1>4, <1>5, <2>1, EventFacts
    <3> QED BY <1>6, <3>1 DEF Ahead
  <2>3. LowSeq(P) <= P.next
    BY <1>2, LowFacts
  <2>4. LowSeq(X) \in Nat /\ LowSeq(P) <= LowSeq(X) /\ X.open = P.open
    BY <1>1, <1>5, <2>1, <2>3
  <2>5. StaleSound(X, R, failed, others)
    BY <1>3, <2>4, AheadShrinks
  <2> QED BY <2>2, <2>5 DEF StaleSound
<1> QED BY <1>7, <1>8, <1>9, <1>10, <1>11 DEF ProcessSound

\* Another process has as many more rows ahead of it, at most.
LEMMA InsertedOther ==
    ASSUME NEW q \in Processes, NEW Q \in Process, NEW T \in [Subs -> Seq(Event)],
           NEW R, NEW N, R \subseteq Event, IsFiniteSet(R), N \subseteq Event, IsFiniteSet(N),
           NEW failed \in Nat, NEW others \in Nat, ProcessSound(q, Q, T, R), StaleSound(Q, R, failed, others),
           \A r \in N : r.by # q
    PROVE  /\ ProcessSound(q, Q, T, R \cup N)
           /\ StaleSound(Q, R \cup N, failed, IF Q.open THEN others + Cardinality(N) ELSE others)
<1> DEFINE S == R \cup N
<1>1. R \subseteq S /\ \A r \in S : r.by = q => r \in R
  OBVIOUS
<1> HIDE DEF S
<1>2. CallsSound(q, Q, S)
  <2>1. ASSUME NEW k \in DOMAIN Q.calls PROVE CallSound(q, Q, Q.calls[k], S)
    <3>1. CallSound(q, Q, Q.calls[k], R)
      BY DEF ProcessSound, CallsSound
    <3> QED BY <1>1, <3>1 DEF CallSound
  <2> QED BY <2>1 DEF CallsSound, ProcessSound
<1>3. StoreSound(Q) /\ RowsSound(q, Q, S) /\ ToldSound(Q, T, S) /\ EldestSound(Q, T)
  BY <1>1 DEF ProcessSound, RowsSound, ToldSound
<1>4. EveryoneSound(q, Q, T, S)
  BY <1>1 DEF ProcessSound, EveryoneSound
<1>5. StaleSound(Q, S, failed, IF Q.open THEN others + Cardinality(N) ELSE others)
  <2>1. CASE Q.open
    <3>1. Ahead(Q, R) \subseteq R /\ Ahead(Q, S) \subseteq Ahead(Q, R) \cup N
      BY DEF Ahead, S
    <3>2. IsFiniteSet(Ahead(Q, R)) /\ Cardinality(Ahead(Q, R)) \in Nat
      BY <3>1, FS_Subset, FS_CardinalityType
    <3>3. Cardinality(N) \in Nat
      BY FS_CardinalityType
    <3>4. /\ IsFiniteSet(Ahead(Q, R) \cup N)
          /\ Cardinality(Ahead(Q, R) \cup N) = Cardinality(Ahead(Q, R)) + Cardinality(N)
                                                - Cardinality(Ahead(Q, R) \cap N)
      BY <3>2, FS_Union
    <3>5. Cardinality(Ahead(Q, R) \cap N) \in Nat
      BY <3>2, FS_Intersection, FS_CardinalityType
    <3>6. /\ Cardinality(Ahead(Q, S)) <= Cardinality(Ahead(Q, R) \cup N)
          /\ Cardinality(Ahead(Q, S)) \in Nat
      BY <3>1, <3>4, FS_Subset, FS_CardinalityType
    <3>7. failed + Cardinality(Ahead(Q, R)) <= others
      BY <2>1 DEF StaleSound
    <3>8. failed + Cardinality(Ahead(Q, S)) <= others + Cardinality(N)
      BY <3>2, <3>3, <3>4, <3>5, <3>6, <3>7
    <3> QED BY <2>1, <3>8 DEF StaleSound
  <2>2. CASE ~Q.open
    BY <2>2 DEF StaleSound
  <2> QED BY <2>1, <2>2
<1> QED BY <1>2, <1>3, <1>4, <1>5 DEF ProcessSound, S


LEMMA InsertedLog ==
    ASSUME EventInv, NEW p \in Processes, proc[p].open, Pending(proc[p])
    PROVE  LET S == rows \cup RowsOf(Head(proc[p].calls))
           IN  /\ RowsFinite(S)
               /\ \A e, f \in S : e.by = f.by /\ e.n < f.n => e.seq < f.seq
               /\ \A r \in S : \A n \in r.first .. r.first + r.size - 1 : \E e \in S : e.by = r.by /\ e.n = n
<1> DEFINE P == proc[p]
           N == RowsOf(Head(P.calls))
           S == rows \cup N
<1>1. P \in Process /\ CallsSound(p, P, rows) /\ RowsSound(p, P, rows) /\ rows \subseteq Event /\ RowsFinite(rows)
  BY ProcFacts DEF ProcessSound
<1>2. P.open /\ Pending(P) /\ LowSeq(P) \in Nat /\ LowN(P) \in Nat
  BY <1>1, LowFacts
<1>3. /\ N \subseteq Event /\ IsFiniteSet(N)
      /\ \A r \in N : r.by = p /\ LowSeq(P) <= r.seq /\ LowN(P) <= r.n
      /\ \A e, f \in N : e.n < f.n => e.seq < f.seq
      /\ \A r \in N : \A n \in r.first .. r.first + r.size - 1 : \E e \in N : e.by = p /\ e.n = n
      /\ \E m \in N : \A r \in N : r.seq <= m.seq
  BY <1>1, <1>2, NewRows
<1>4. \A r \in rows : r.by = p => r.n < LowN(P) /\ r.seq < LowSeq(P)
  BY <1>1, <1>2 DEF RowsSound
<1> HIDE DEF P, N
<1>5. \A r \in S : r.n \in Nat /\ r.seq \in Nat
  BY <1>1, <1>3, EventFacts
<1>6. RowsFinite(S)
  <2>1. IsFiniteSet(S)
    BY <1>1, <1>3, FS_Union DEF RowsFinite
  <2>2. PICK m \in N : \A r \in N : r.seq <= m.seq
    BY <1>3
  <2>3. \E k \in S : \A r \in S : r.seq <= k.seq
    <3>1. CASE rows = {}
      BY <2>2, <3>1
    <3>2. CASE rows # {}
      <4>1. PICK k \in rows : \A r \in rows : r.seq <= k.seq
        BY <1>1, <3>2 DEF RowsFinite
      <4>2. CASE k.seq <= m.seq
        <5>1. \A r \in S : r.seq <= m.seq
          BY <1>5, <2>2, <4>1, <4>2
        <5> QED BY <2>2, <5>1
      <4>3. CASE m.seq <= k.seq
        <5>1. \A r \in S : r.seq <= k.seq
          BY <1>5, <2>2, <4>1, <4>3
        <5> QED BY <4>1, <5>1
      <4>4. k.seq \in Nat /\ m.seq \in Nat
        BY <1>5, <2>2, <4>1
      <4> QED BY <4>2, <4>3, <4>4
    <3> QED BY <3>1, <3>2
  <2> QED BY <2>1, <2>3 DEF RowsFinite
<1>7. \A e, f \in S : e.by = f.by /\ e.n < f.n => e.seq < f.seq
  <2> SUFFICES ASSUME NEW e \in S, NEW f \in S, e.by = f.by, e.n < f.n PROVE e.seq < f.seq
    OBVIOUS
  <2>1. e.n \in Nat /\ f.n \in Nat /\ e.seq \in Nat /\ f.seq \in Nat
    BY <1>5
  <2>2. CASE e \in rows /\ f \in rows
    BY <2>2 DEF EventInv, OwnOrder
  <2>3. CASE e \in N /\ f \in N
    BY <1>3, <2>3
  <2>4. CASE e \in rows /\ f \in N
    <3>1. e.seq < LowSeq(P) /\ LowSeq(P) <= f.seq
      BY <1>3, <1>4, <2>4
    <3> QED BY <1>2, <2>1, <3>1
  <2>5. CASE e \in N /\ f \in rows
    <3>1. LowN(P) <= e.n /\ f.n < LowN(P)
      BY <1>3, <1>4, <2>5
    <3> QED BY <1>2, <2>1, <3>1
  <2> QED BY <2>2, <2>3, <2>4, <2>5
<1>8. \A r \in S : \A n \in r.first .. r.first + r.size - 1 : \E e \in S : e.by = r.by /\ e.n = n
  <2>1. \A r \in rows : \A n \in r.first .. r.first + r.size - 1 : \E e \in rows : e.by = r.by /\ e.n = n
    BY DEF EventInv, BatchWhole
  <2> QED BY <1>3, <2>1
<1> QED BY <1>6, <1>7, <1>8 DEF P, N

LEMMA InsertSound == ASSUME EventInv, NEW p \in Processes, Insert(p) PROVE EventInv'
<1> DEFINE P == proc[p]
           T == told[p]
           c == Head(P.calls)
           N == Inserted(c.events)
           taken == \E i \in DOMAIN c.events : \E r \in rows : c.events[i].seq = r.seq
           clash == \E i \in DOMAIN c.events :
                       \/ \E r \in rows : Clash(c.events[i], r)
                       \/ \E j \in 1 .. i - 1 : Clash(c.events[i], c.events[j])
<1>1. /\ P \in Process /\ T \in [Subs -> Seq(Event)] /\ ProcessSound(p, P, T, rows)
      /\ StaleSound(P, rows, fails[p], foreign[p]) /\ rows \subseteq Event /\ IsFiniteSet(rows)
      /\ fails[p] \in Nat /\ foreign[p] \in Nat /\ CallsSound(p, P, rows)
  BY ProcFacts DEF RowsFinite, ProcessSound
<1>2. P.open /\ Pending(P) /\ P.calls # <<>>
  BY DEF Insert, Pending, Top
<1>3. /\ c \in Call /\ ~c.inserted /\ c.last = 0 /\ c.at = 1 /\ CallSound(p, P, c, rows)
      /\ Len(c.events) \in Nat \ {0} /\ DOMAIN c.events = 1 .. Len(c.events)
      /\ LowSeq(P) = c.events[1].seq /\ LowSeq(P) \in Nat
      /\ \A i \in DOMAIN c.events : c.events[i] \in Event
  BY <1>1, <1>2, PendingFacts
<1>4. /\ told' = told /\ rows' = rows \cup N
      /\ proc' = [proc EXCEPT ![p] = IF Cardinality(N) = Len(c.events)
                                     THEN Replace(P, [c EXCEPT !.inserted = TRUE]) ELSE Return(P)]
      /\ fails' = IF taken THEN [fails EXCEPT ![p] = @ + 1] ELSE fails
      /\ foreign' = [q \in Processes |->
            IF q # p /\ proc[q].open THEN foreign[q] + Cardinality(N) ELSE foreign[q]]
  BY DEF Insert, Top, Set
<1>5. told' = [told EXCEPT ![p] = T]
  BY <1>4, ProcFacts, SMTT(30)
<1>6. CASE clash
  <2> DEFINE X == Return(P)
  <2>1. N = {}
    BY <1>6 DEF Inserted
  <2>2. Cardinality(N) = 0
    BY <2>1, FS_EmptySet, SMTT(30)
  <2>3. proc' = [proc EXCEPT ![p] = X] /\ UNCHANGED rows
    BY <1>3, <1>4, <2>1, <2>2
  <2>4. foreign' = foreign
    <3>1. \A q \in Processes : foreign[q] \in Nat
      BY ProcFacts
    <3>2. \A q \in Processes : foreign'[q] = foreign[q]
      BY <1>4, <2>2, <3>1
    <3>3. foreign' \in [Processes -> Nat] /\ foreign \in [Processes -> Nat]
      <4> HIDE DEF N
      <4> QED BY <1>4, <2>2, <3>1, ProcFacts
    <3> QED BY <3>2, <3>3
  <2>5. /\ X \in Process /\ X.open = P.open /\ X.next = P.next
        /\ X.subs = P.subs /\ X.taken = P.taken /\ X.calls = Tail(P.calls)
        /\ X.made = P.made /\ X.born = P.born /\ X.cut = P.cut
    BY <1>1, <1>2, ReturnFacts
  <2> HIDE DEF X
  <2>6. Over(P, X)
    BY <1>2, <1>3, <2>5 DEF Over
  <2>7. ProcessSound(p, X, T, rows) /\ LowSeq(X) = X.next
    <3> HIDE DEF P, T
    <3> QED BY <1>1, <2>5, <2>6, OverSound
  <2>8. LowSeq(X) = P.next /\ LowSeq(X) \in Nat /\ LowSeq(P) <= LowSeq(X) /\ X.open = P.open
    BY <1>1, <2>5, <2>7, LowFacts, StoreFacts
  <2>9. StaleSound(X, rows, fails[p], foreign[p])
    <3> HIDE DEF P
    <3> QED BY <1>1, <1>3, <2>8, AheadShrinks
  <2>10. /\ fails' \in [Processes -> Nat] /\ (\A q \in Processes \ {p} : fails'[q] = fails[q])
         /\ fails'[p] = (IF taken THEN fails[p] + 1 ELSE fails[p])
    <3> HIDE DEF taken
    <3>1. fails[p] + 1 \in Nat /\ fails \in [Processes -> Nat]
      BY <1>1, ProcFacts
    <3> QED BY <1>4, <3>1
  <2>11. StaleSound(X, rows, fails'[p], foreign'[p])
    <3>1. CASE ~taken
      BY <2>4, <2>9, <2>10, <3>1
    <3>2. CASE taken
      <4>1. PICK i \in DOMAIN c.events, r \in rows : c.events[i].seq = r.seq
        BY <3>2
      <4> HIDE DEF c
      <4>2. c.events[i].seq = c.events[1].seq + i - 1 /\ c.events[i].seq < P.next
        BY <1>3 DEF CallSound
      <4>3. r.seq >= LowSeq(P)
        <5>1. i \in Int /\ 1 <= i
          BY <1>3
        <5>2. r.seq = LowSeq(P) + i - 1
          BY <1>3, <4>1, <4>2
        <5> QED BY <1>3, <5>1, <5>2
      <4>4. r.seq < LowSeq(X) /\ r.seq \in Nat
        BY <1>1, <2>8, <4>1, <4>2, EventFacts
      <4>5. r \in Ahead(P, rows) /\ r \notin Ahead(X, rows)
        BY <2>8, <4>3, <4>4 DEF Ahead
      <4>6. Ahead(X, rows) \subseteq Ahead(P, rows) /\ Ahead(P, rows) \subseteq rows
        <5>1. \A f \in rows : f.seq \in Nat
          BY <1>1, EventFacts
        <5> QED BY <1>3, <2>8, <5>1 DEF Ahead
      <4>7. IsFiniteSet(Ahead(P, rows))
        BY <1>1, <4>6, FS_Subset
      <4>8. /\ Cardinality(Ahead(X, rows)) <= Cardinality(Ahead(P, rows))
            /\ Cardinality(Ahead(X, rows)) # Cardinality(Ahead(P, rows))
            /\ Cardinality(Ahead(X, rows)) \in Nat /\ Cardinality(Ahead(P, rows)) \in Nat
        BY <4>5, <4>6, <4>7, FS_Subset, FS_CardinalityType
      <4>9. fails[p] + Cardinality(Ahead(P, rows)) <= foreign[p]
        BY <1>1, <1>2 DEF StaleSound
      <4>10. fails[p] + 1 + Cardinality(Ahead(X, rows)) <= foreign[p]
        BY <1>1, <4>8, <4>9
      <4> QED BY <1>2, <2>4, <2>8, <2>10, <3>2, <4>10 DEF StaleSound
    <3> QED BY <3>1, <3>2
  <2>12. foreign' \in [Processes -> Nat] /\ \A q \in Processes \ {p} : foreign'[q] = foreign[q]
    BY <2>4, ProcFacts
  <2> HIDE DEF T
  <2> QED BY <1>1, <1>5, <2>3, <2>5, <2>7, <2>10, <2>11, <2>12, StepSound DEF T
<1>7. CASE ~clash
  <2> DEFINE d == [c EXCEPT !.inserted = TRUE]
             X == Replace(P, d)
             S == rows \cup RowsOf(c)
  <2>1. N = RowsOf(c)
    BY <1>7, SMTT(30) DEF Inserted, RowsOf
  <2>2. ~taken
    BY <1>7 DEF Clash
  <2>3. /\ RowsOf(c) \subseteq Event /\ IsFiniteSet(RowsOf(c)) /\ Cardinality(RowsOf(c)) = Len(c.events)
        /\ \A r \in RowsOf(c) : r.by = p
    BY <1>1, <1>2, NewRows
  <2>4. rows' = S /\ proc' = [proc EXCEPT ![p] = X] /\ fails' = fails
    BY <1>4, <2>1, <2>2, <2>3
  <2>5. foreign' = [q \in Processes |->
            IF q # p /\ proc[q].open THEN foreign[q] + Cardinality(RowsOf(c)) ELSE foreign[q]]
    BY <1>4, <2>1
  <2>6. /\ d \in Call /\ d.events = c.events /\ d.inserted /\ d.at = 1 /\ d.last = 0
    <3> HIDE DEF c
    <3> QED BY <1>3 DEF Call, c
  <2>7. /\ X \in Process /\ X.open = P.open /\ X.next = P.next
        /\ X.subs = P.subs /\ X.taken = P.taken /\ X.calls = <<d>> \o Tail(P.calls)
        /\ X.made = P.made /\ X.born = P.born /\ X.cut = P.cut
    <3> HIDE DEF d
    <3> QED BY <1>1, <1>2, <2>6, ReplaceFacts
  <2> HIDE DEF d, X
  <2>8. GoesOn(P, X, d, S)
    <3>1. \A i \in DOMAIN d.events : d.events[i] \in S
      BY <2>6 DEF RowsOf
    <3>2. d.at <= Len(d.events) /\ (Len(d.events) > 1 => d.last = 0)
      BY <1>3, <2>6
    <3> QED BY <1>2, <2>6, <2>7, <3>1, <3>2 DEF GoesOn
  <2>9. ProcessSound(p, X, T, S) /\ StaleSound(X, S, fails[p], foreign[p])
    <3> DEFINE F == fails[p]
               G == foreign[p]
    <3>1. S = rows \cup RowsOf(Head(P.calls))
      OBVIOUS
    <3> HIDE DEF P, T, S, c, F, G
    <3>2. /\ P \in Process /\ T \in [Subs -> Seq(Event)] /\ rows \subseteq Event /\ IsFiniteSet(rows)
          /\ F \in Nat /\ G \in Nat /\ ProcessSound(p, P, T, rows) /\ StaleSound(P, rows, F, G) /\ Pending(P)
      BY <1>1, <1>2 DEF F, G
    <3>3. X \in Process /\ d \in Call /\ d.at = 1 /\ d.last = 0
      BY <2>6, <2>7
    <3>4. ProcessSound(p, X, T, S) /\ StaleSound(X, S, F, G)
      BY <2>8, <3>1, <3>2, <3>3, InsertedOwn
    <3> QED BY <3>4 DEF F, G
  <2>10. /\ RowsFinite(S) /\ (\A e, f \in S : e.by = f.by /\ e.n < f.n => e.seq < f.seq)
         /\ \A r \in S : \A n \in r.first .. r.first + r.size - 1 : \E e \in S : e.by = r.by /\ e.n = n
    BY <1>2, InsertedLog
  <2> HIDE DEF S, c
  <2>11. RowsFinite(rows)' /\ OwnOrder' /\ BatchWhole'
    BY <2>4, <2>10 DEF RowsFinite, OwnOrder, BatchWhole
  <2>12. Cardinality(RowsOf(c)) \in Nat
    BY <2>3, FS_CardinalityType
  <2>13. foreign' \in [Processes -> Nat]
    BY <2>5, <2>12, ProcFacts
  <2>14. S \subseteq Event
    BY <1>1, <2>3 DEF S
  <2>15. EventStoreTypeOK'
    <3>1. proc' \in [Processes -> Process]
      BY <2>4, <2>7, ProcFacts
    <3> QED BY <1>4, <2>4, <2>13, <2>14, <3>1, ProcFacts DEF EventStoreTypeOK
  <2>16. ASSUME NEW q \in Processes
         PROVE  /\ ProcessSound(q, proc'[q], told'[q], S)
                /\ StaleSound(proc'[q], S, fails'[q], foreign'[q])
    <3>1. CASE q = p
      <4>1. proc'[q] = X /\ told'[q] = T /\ fails'[q] = fails[p] /\ foreign'[q] = foreign[p]
        BY <1>4, <2>4, <2>5, <3>1, ProcFacts
      <4> QED BY <2>9, <3>1, <4>1
    <3>2. CASE q # p
      <4> DEFINE Q == proc[q]
      <4>1. /\ Q \in Process /\ told[q] \in [Subs -> Seq(Event)] /\ ProcessSound(q, Q, told[q], rows)
            /\ StaleSound(Q, rows, fails[q], foreign[q]) /\ fails[q] \in Nat /\ foreign[q] \in Nat
        BY ProcFacts
      <4>2. \A r \in RowsOf(c) : r.by # q
        BY <2>3, <3>2
      <4>3. /\ proc'[q] = Q /\ told'[q] = told[q] /\ fails'[q] = fails[q]
            /\ foreign'[q] = IF Q.open THEN foreign[q] + Cardinality(RowsOf(c)) ELSE foreign[q]
        BY <1>4, <2>4, <2>5, <3>2, ProcFacts
      <4> HIDE DEF Q, P, T
      <4>4. /\ ProcessSound(q, Q, told[q], rows \cup RowsOf(c))
            /\ StaleSound(Q, rows \cup RowsOf(c), fails[q],
                          IF Q.open THEN foreign[q] + Cardinality(RowsOf(c)) ELSE foreign[q])
        BY <1>1, <2>3, <4>1, <4>2, InsertedOther
      <4> QED BY <4>3, <4>4 DEF S
    <3> QED BY <3>1, <3>2
  <2>17. \A q \in Processes : /\ ProcessSound(q, proc'[q], told'[q], rows')
                              /\ StaleSound(proc'[q], rows', fails'[q], foreign'[q])
    BY <2>4, <2>16
  <2> QED BY <2>11, <2>15, <2>17, AllSoundNext DEF EventInv
<1> QED BY <1>6, <1>7


LEMMA InitSound == ASSUME EventStoreInit PROVE EventInv
<1>1. EventStoreTypeOK
  <2>1. Closed(0) \in Process
    BY EmptySeq DEF Closed, Process
  <2>2. [s \in Subs |-> <<>>] \in [Subs -> Seq(Event)]
    BY EmptySeq
  <2> QED BY <2>1, <2>2 DEF EventStoreInit, EventStoreTypeOK
<1>2. RowsFinite(rows) /\ OwnOrder /\ BatchWhole
  BY FS_EmptySet DEF EventStoreInit, RowsFinite, OwnOrder, BatchWhole
<1>3. ASSUME NEW p \in Processes
      PROVE  /\ ProcessSound(p, proc[p], told[p], rows)
             /\ StaleSound(proc[p], rows, fails[p], foreign[p])
  <2>1. /\ proc[p].open = FALSE /\ proc[p].calls = <<>> /\ proc[p].subs = {} /\ proc[p].made = 0
        /\ proc[p].born = 0 /\ rows = {} /\ fails[p] = 0 /\ foreign[p] = 0
        /\ \A s \in Subs : told[p][s] = <<>>
    BY <1>3 DEF EventStoreInit, Closed
  <2>2. CallsSound(p, proc[p], rows) /\ StoreSound(proc[p]) /\ RowsSound(p, proc[p], rows)
    BY <2>1 DEF CallsSound, StoreSound, RowsSound
  <2>3. ToldSound(proc[p], told[p], rows) /\ EldestSound(proc[p], told[p])
    BY <2>1 DEF ToldSound, EldestSound
  <2>4. EveryoneSound(p, proc[p], told[p], rows) /\ StaleSound(proc[p], rows, fails[p], foreign[p])
    BY <2>1 DEF EveryoneSound, StaleSound
  <2> QED BY <2>2, <2>3, <2>4 DEF ProcessSound
<1> QED BY <1>1, <1>2, <1>3 DEF EventInv

LEMMA StutterSound == ASSUME EventInv, UNCHANGED evars PROVE EventInv'
<1>1. rows' = rows /\ proc' = proc /\ told' = told /\ fails' = fails /\ foreign' = foreign
  BY DEF evars
<1>2. EventStoreTypeOK' /\ RowsFinite(rows)' /\ OwnOrder' /\ BatchWhole'
  BY <1>1 DEF EventInv, EventStoreTypeOK, RowsFinite, OwnOrder, BatchWhole
<1>3. \A q \in Processes : /\ ProcessSound(q, proc'[q], told'[q], rows')
                           /\ StaleSound(proc'[q], rows', fails'[q], foreign'[q])
  BY <1>1 DEF EventInv
<1> QED BY <1>2, <1>3, AllSoundNext DEF EventInv

-----------------------------------------------------------------------------
(* The event log: the invariant, and the properties it gives               *)

\* Every step of every process keeps the invariant (open, close, append,
\* appendBatch, subscribe, the insert and each step of _notify).
THEOREM EventInvariant == EventStoreSpec => []EventInv
<1>1. ASSUME EventInv, [EventStoreNext]_evars PROVE EventInv'
  <2>1. CASE UNCHANGED evars
    BY <1>1, <2>1, StutterSound
  <2>2. ASSUME NEW p \in Processes, Open(p) PROVE EventInv'
    BY <1>1, <2>2, OpenSound
  <2>3. ASSUME NEW p \in Processes, Die(p) PROVE EventInv'
    BY <1>1, <2>3, DieSound
  <2>4. ASSUME NEW p \in Processes, Subscribe(p) PROVE EventInv'
    BY <1>1, <2>4, SubscribeSound
  <2>5. ASSUME NEW p \in Processes, NEW s \in Subs, Unsubscribe(p, s) PROVE EventInv'
    BY <1>1, <2>5, UnsubscribeSound
  <2>6. ASSUME NEW p \in Processes, NEW key \in Keys \cup {NoKey}, NEW chunk \in BOOLEAN, Append1(p, key, chunk)
        PROVE  EventInv'
    BY <1>1, <2>6, Append1Sound
  <2>7. ASSUME NEW p \in Processes, NEW keys \in Batches, AppendBatch(p, keys) PROVE EventInv'
    BY <1>1, <2>7, AppendBatchSound
  <2>8. ASSUME NEW p \in Processes, Insert(p) PROVE EventInv'
    BY <1>1, <2>8, InsertSound
  <2>9. ASSUME NEW p \in Processes, Tell(p) PROVE EventInv'
    BY <1>1, <2>9, TellSound
  <2>10. ASSUME NEW p \in Processes, HandlerThrows(p) PROVE EventInv'
    BY <1>1, <2>10, HandlerThrowsSound
  <2>11. ASSUME NEW p \in Processes, AllTold(p) PROVE EventInv'
    BY <1>1, <2>11, AllToldSound
  <2> QED BY <1>1, <2>1, <2>2, <2>3, <2>4, <2>5, <2>6, <2>7, <2>8, <2>9, <2>10, <2>11 DEF EventStoreNext
<1> QED BY <1>1, InitSound, PTL DEF EventStoreSpec

\* The log that processes and restarts share: each process's events in the order
\* it made them, batches whole, no process kept out by its stale sequence, and its
\* subscribers told (append, appendBatch, _notify, _nextSequence).
THEOREM LogAlwaysSound == EventStoreSpec => []LogSound
<1>1. ASSUME EventInv PROVE LogSound
  <2>1. OwnOrder /\ BatchWhole
    BY <1>1 DEF EventInv
  <2>2. StaleCatchesUp
    <3> SUFFICES ASSUME NEW p \in Processes PROVE fails[p] <= foreign[p]
      BY DEF StaleCatchesUp
    <3>1. /\ StaleSound(proc[p], rows, fails[p], foreign[p]) /\ IsFiniteSet(rows)
          /\ fails[p] \in Nat /\ foreign[p] \in Nat
      BY <1>1, ProcFacts DEF RowsFinite
    <3>2. Ahead(proc[p], rows) \subseteq rows
      BY DEF Ahead
    <3>3. Cardinality(Ahead(proc[p], rows)) \in Nat
      BY <3>1, <3>2, FS_Subset, FS_CardinalityType
    <3> QED BY <3>1, <3>3 DEF StaleSound
  <2>3. ToldIsLogged
    <3> SUFFICES ASSUME NEW p \in Processes, NEW s \in Subs, NEW i \in DOMAIN told[p][s]
                 PROVE  told[p][s][i].chunk \/ told[p][s][i] \in rows
      BY DEF ToldIsLogged
    <3> QED BY <1>1, ProcFacts DEF ProcessSound, ToldSound
  <2>4. EldestHearsInOrder
    <3> SUFFICES ASSUME NEW p \in Processes, proc[p].subs # {}, Min(proc[p].subs) = 1
                 PROVE  \A i, j \in DOMAIN told[p][1] : i < j => told[p][1][i].seq < told[p][1][j].seq
      BY DEF EldestHearsInOrder
    <3>1. proc[p].subs \in SUBSET Nat
      BY <1>1, ProcFacts, StoreFacts, SubsNumbers
    <3>2. 1 \in proc[p].subs
      BY <3>1, MinIsLeast
    <3> QED BY <1>1, <3>2, ProcFacts DEF ProcessSound, EldestSound
  <2>5. EveryoneTold
    <3> SUFFICES ASSUME NEW p \in Processes, proc[p].open, proc[p].calls = <<>>, ~proc[p].cut,
                        NEW s \in proc[p].subs, NEW r \in rows, r.by = p, r.n > proc[p].born, s \in r.audience
                 PROVE  \E i \in DOMAIN told[p][s] : told[p][s][i] = r
      BY DEF EveryoneTold
    <3>1. \/ \E i \in DOMAIN told[p][s] : told[p][s][i] = r
          \/ \E k \in DOMAIN proc[p].calls : ToTell(proc[p].calls[k], r, s)
      BY <1>1, ProcFacts DEF ProcessSound, EveryoneSound
    <3>2. DOMAIN proc[p].calls = {}
      OBVIOUS
    <3> QED BY <3>1, <3>2
  <2> QED BY <2>1, <2>2, <2>3, <2>4, <2>5 DEF LogSound, Told
<1> QED BY <1>1, EventInvariant, PTL

-----------------------------------------------------------------------------
(* Edited files: types and stages.  The queue of a key is nowhere a data     *)
(* structure: it is the chain of the promises that each call awaits.  The    *)
(* invariant makes it one, by ranks.                                        *)

Begun(c) == call[c].stage \in {"access", "reading", "writing", "landed"}

\* What a call's stage says of its promise and of the file.
StagesSound ==
    /\ MutationTypeOK
    /\ landedAfter \in [ToolCalls -> SUBSET ToolCalls]
    /\ \A c \in ToolCalls :
        /\ call[c].stage \in {"new", "queued"} => call[c].promise = "pending"
        /\ Begun(c) => call[c].promise = (IF Cancelled(c) THEN "error" ELSE "pending")
        /\ Is(c, "over") => Settled(c)
        /\ Is(c, "reading") => NoCall \notin content
        /\ \A d \in landedAfter[c] : call[d].stage \in {"landed", "over"}

LEMMA MutationInitSound == MutationInit => StagesSound
BY MutationAssumption
   DEF MutationInit, StagesSound, MutationTypeOK, ToolCall, NewToolCall, QueueKeys, Missing,
       Begun, Is, Settled, Cancelled

CallStages == {"new", "queued", "access", "reading", "writing", "landed", "over"}

\* What Steps and Settle leave of the calls and of the queues.
LEMMA StepsEffect ==
    ASSUME call \in [ToolCalls -> ToolCall], NEW c \in ToolCalls, NEW stage \in CallStages,
           Steps(c, stage)
    PROVE  /\ call' \in [ToolCalls -> ToolCall]
           /\ \A d \in ToolCalls \ {c} : call'[d] = call[d]
           /\ call'[c].stage = stage /\ call'[c].promise = call[c].promise
           /\ call'[c].key = call[c].key /\ call'[c].after = call[c].after
           /\ call'[c].base = call[c].base
           /\ queues' = queues
<1> DEFINE r == [call[c] EXCEPT !.stage = stage]
<1>1. call' = [call EXCEPT ![c] = r] /\ queues' = queues
    BY DEF Steps
<1>2. /\ r \in ToolCall
      /\ r.stage = stage /\ r.promise = call[c].promise
      /\ r.key = call[c].key /\ r.after = call[c].after /\ r.base = call[c].base
    BY DEF ToolCall, CallStages
<1> HIDE DEF r
<1> QED BY <1>1, <1>2

LEMMA SettleEffect ==
    ASSUME call \in [ToolCalls -> ToolCall], queues \in [QueueKeys -> ToolCalls \cup {NoCall}],
           NEW c \in ToolCalls, NEW stage \in CallStages, NEW result \in {"ok", "error"},
           Settle(c, result, stage)
    PROVE  /\ call' \in [ToolCalls -> ToolCall]
           /\ \A d \in ToolCalls \ {c} : call'[d] = call[d]
           /\ call'[c].stage = stage /\ call'[c].promise = result
           /\ call'[c].key = call[c].key /\ call'[c].after = call[c].after
           /\ call'[c].base = call[c].base
           /\ queues' \in [QueueKeys -> ToolCalls \cup {NoCall}]
           /\ \A k \in QueueKeys :
                 queues'[k] = IF k = call[c].key /\ queues[k] = c THEN NoCall ELSE queues[k]
<1> DEFINE q == [call[c] EXCEPT !.promise = result]
           r == [q EXCEPT !.stage = stage]
<1>1. call' = [call EXCEPT ![c] = r]
    BY DEF Settle
<1>2. /\ r \in ToolCall
      /\ r.stage = stage /\ r.promise = result
      /\ r.key = call[c].key /\ r.after = call[c].after /\ r.base = call[c].base
    <2>1. /\ q \in ToolCall /\ q.promise = result
          /\ q.key = call[c].key /\ q.after = call[c].after /\ q.base = call[c].base
        BY DEF ToolCall
    <2> HIDE DEF q
    <2> QED BY <2>1 DEF ToolCall, CallStages
<1>3. call[c].key \in QueueKeys
    BY DEF ToolCall
<1>4. /\ queues' \in [QueueKeys -> ToolCalls \cup {NoCall}]
      /\ \A k \in QueueKeys :
            queues'[k] = IF k = call[c].key /\ queues[k] = c THEN NoCall ELSE queues[k]
    BY <1>3 DEF Settle, Without
<1> HIDE DEF r
<1> QED BY <1>1, <1>2, <1>4

LEMMA RequestEffect ==
    ASSUME call \in [ToolCalls -> ToolCall], queues \in [QueueKeys -> ToolCalls \cup {NoCall}],
           NEW c \in ToolCalls, Request(c)
    PROVE  /\ call' \in [ToolCalls -> ToolCall]
           /\ \A d \in ToolCalls \ {c} : call'[d] = call[d]
           /\ call'[c].stage = "queued" /\ call'[c].promise = call[c].promise
           /\ KeyOf(c) \in QueueKeys /\ call'[c].key = KeyOf(c)
           /\ call'[c].after = queues[KeyOf(c)]
           /\ queues' = [queues EXCEPT ![KeyOf(c)] = c]
           /\ queues' \in [QueueKeys -> ToolCalls \cup {NoCall}]
<1> DEFINE p == [call[c] EXCEPT !.stage = "queued"]
           q == [p EXCEPT !.key = KeyOf(c)]
           r == [q EXCEPT !.after = queues[KeyOf(c)]]
<1>1. call' = [call EXCEPT ![c] = r]
    BY DEF Request
<1>2. KeyOf(c) \in QueueKeys
    BY DEF KeyOf, QueueKeys
<1>3. /\ r \in ToolCall
      /\ r.stage = "queued" /\ r.promise = call[c].promise
      /\ r.key = KeyOf(c) /\ r.after = queues[KeyOf(c)]
    <2>1. p \in ToolCall /\ p.stage = "queued" /\ p.promise = call[c].promise
        BY DEF ToolCall
    <2> HIDE DEF p
    <2>2. /\ q \in ToolCall /\ q.stage = "queued" /\ q.promise = call[c].promise
          /\ q.key = KeyOf(c)
        BY <1>2, <2>1 DEF ToolCall
    <2>3. queues[KeyOf(c)] \in ToolCalls \cup {NoCall}
        BY <1>2
    <2> HIDE DEF q
    <2> QED BY <2>2, <2>3 DEF ToolCall
<1> HIDE DEF r
<1> QED BY <1>1, <1>2, <1>3, ZenonT(60) DEF Request

LEMMA ReadEffect ==
    ASSUME StagesSound, NEW c \in ToolCalls, ReadFile(c)
    PROVE  /\ call' \in [ToolCalls -> ToolCall]
           /\ \A d \in ToolCalls \ {c} : call'[d] = call[d]
           /\ call'[c].stage = (IF Cancelled(c) THEN "over" ELSE "writing")
           /\ call'[c].promise = call[c].promise
           /\ call'[c].key = call[c].key /\ call'[c].after = call[c].after
           /\ call'[c].base = content
<1> DEFINE q == [call[c] EXCEPT !.stage = IF Cancelled(c) THEN "over" ELSE "writing"]
           r == [q EXCEPT !.base = content]
<1>1. call' = [call EXCEPT ![c] = r]
    BY DEF ReadFile
<1>2. content \subseteq ToolCalls
    BY DEF ReadFile, StagesSound, MutationTypeOK, Is, Missing
<1>3. /\ r \in ToolCall
      /\ r.stage = (IF Cancelled(c) THEN "over" ELSE "writing") /\ r.promise = call[c].promise
      /\ r.key = call[c].key /\ r.after = call[c].after /\ r.base = content
    <2>1. /\ q \in ToolCall /\ q.stage = (IF Cancelled(c) THEN "over" ELSE "writing")
          /\ q.promise = call[c].promise /\ q.key = call[c].key /\ q.after = call[c].after
        BY DEF ToolCall, StagesSound, MutationTypeOK
    <2> HIDE DEF q
    <2> QED BY <1>2, <2>1 DEF ToolCall
<1> HIDE DEF r
<1> QED BY <1>1, <1>3 DEF StagesSound, MutationTypeOK

\* The calls an abort rejects: those of its turn that have begun.
Rejected(t) == {c \in ToolCalls : TurnOf[c] = t /\ ~Settled(c) /\ ~Is(c, "new") /\ ~Is(c, "queued")}

LEMMA AbortEffect ==
    ASSUME call \in [ToolCalls -> ToolCall], queues \in [QueueKeys -> ToolCalls \cup {NoCall}],
           NEW t, AbortTurn(t)
    PROVE  /\ call' \in [ToolCalls -> ToolCall]
           /\ \A c \in ToolCalls :
                 /\ call'[c].stage = call[c].stage /\ call'[c].key = call[c].key
                 /\ call'[c].after = call[c].after /\ call'[c].base = call[c].base
                 /\ call'[c].promise = IF c \in Rejected(t) THEN "error" ELSE call[c].promise
           /\ queues' \in [QueueKeys -> ToolCalls \cup {NoCall}]
           /\ \A k \in QueueKeys :
                 queues'[k] = IF queues[k] \in Rejected(t) THEN NoCall ELSE queues[k]
<1> DEFINE r(c) == IF c \in Rejected(t) THEN [call[c] EXCEPT !.promise = "error"] ELSE call[c]
<1>1. call' = [c \in ToolCalls |-> r(c)]
    BY DEF AbortTurn, Rejected
<1>2. \A c \in ToolCalls :
        /\ r(c) \in ToolCall
        /\ r(c).stage = call[c].stage /\ r(c).key = call[c].key
        /\ r(c).after = call[c].after /\ r(c).base = call[c].base
        /\ r(c).promise = IF c \in Rejected(t) THEN "error" ELSE call[c].promise
    <2> TAKE c \in ToolCalls
    <2>1. CASE c \in Rejected(t)  BY <2>1 DEF ToolCall
    <2>2. CASE c \notin Rejected(t)  BY <2>2 DEF ToolCall
    <2> QED BY <2>1, <2>2
<1>3. /\ queues' \in [QueueKeys -> ToolCalls \cup {NoCall}]
      /\ \A k \in QueueKeys :
            queues'[k] = IF queues[k] \in Rejected(t) THEN NoCall ELSE queues[k]
    BY DEF AbortTurn, Rejected
<1> HIDE DEF r
<1> QED BY <1>1, <1>2, <1>3

LEMMA StagesStep == StagesSound /\ [MutationNext]_mutationVars => StagesSound'
<1> SUFFICES ASSUME StagesSound, [MutationNext]_mutationVars
             PROVE  StagesSound'
    OBVIOUS
<1> USE MutationAssumption DEF StagesSound, MutationTypeOK
<1> USE DEF Begun, Is, Settled, Cancelled, CallStages
<1>1. CASE UNCHANGED mutationVars
    BY <1>1 DEF mutationVars
<1>2. ASSUME NEW c \in ToolCalls, Request(c) PROVE StagesSound'
    <2>1. UNCHANGED <<content, abortedTurns, landedAfter>> /\ call[c].stage = "new"
        BY <1>2 DEF Request
    <2>2. MutationTypeOK'
        BY <1>2, <2>1, RequestEffect DEF Missing
    <2>3. \A d \in ToolCalls : \A e \in landedAfter[d] : call'[e].stage \in {"landed", "over"}
        BY <1>2, <2>1, RequestEffect
    <2> QED BY <1>2, <2>1, <2>2, <2>3, RequestEffect
<1>3. ASSUME NEW c \in ToolCalls, Start(c) PROVE StagesSound'
    <2>1. CASE Cancelled(c)   BY <1>3, <2>1, SettleEffect DEF Start, MayStart
    <2>2. CASE ~Cancelled(c)  BY <1>3, <2>2, StepsEffect DEF Start, MayStart
    <2> QED BY <2>1, <2>2
<1>4. ASSUME NEW c \in ToolCalls, Accessed(c) PROVE StagesSound'
    <2> UNCHANGED <<content, abortedTurns, landedAfter>>
        BY <1>4 DEF Accessed
    <2>0. ~Cancelled(c) /\ content # Missing => NoCall \notin content
        BY DEF Missing
    <2>1. CASE Cancelled(c) /\ Steps(c, "over")
        BY <1>4, <2>1, StepsEffect DEF Accessed
    <2>2. CASE ~Cancelled(c) /\ content = Missing /\ Settle(c, "error", "over")
        BY <1>4, <2>2, SettleEffect DEF Accessed
    <2>3. CASE ~Cancelled(c) /\ content # Missing /\ Steps(c, "reading")
        BY <1>4, <2>0, <2>3, StepsEffect DEF Accessed
    <2>4. CASE ~Cancelled(c) /\ Steps(c, "writing")
        BY <1>4, <2>4, StepsEffect DEF Accessed
    <2> QED BY <1>4, <2>1, <2>2, <2>3, <2>4 DEF Accessed
<1>5. ASSUME NEW c \in ToolCalls, ReadFile(c) PROVE StagesSound'
    <2>1. UNCHANGED <<queues, content, abortedTurns, landedAfter>> /\ call[c].stage = "reading"
        BY <1>5 DEF ReadFile
    <2>2. MutationTypeOK'
        BY <1>5, <2>1, ReadEffect DEF Missing
    <2>3. \A d \in ToolCalls : \A e \in landedAfter[d] : call'[e].stage \in {"landed", "over"}
        BY <1>5, <2>1, ReadEffect
    <2> QED BY <1>5, <2>1, <2>2, <2>3, ReadEffect
<1>6. ASSUME NEW c \in ToolCalls, WriteLands(c) PROVE StagesSound'
    <2>1. /\ UNCHANGED abortedTurns /\ call[c].stage = "writing" /\ Steps(c, "landed")
          /\ content' = (IF c \in IsEdit THEN call[c].base ELSE {}) \cup {c}
        BY <1>6 DEF WriteLands
    <2>2. content' \subseteq ToolCalls
        BY <2>1 DEF ToolCall
    <2>3. MutationTypeOK'
        BY <2>1, <2>2, StepsEffect
    <2>4. /\ landedAfter' \in [ToolCalls -> SUBSET ToolCalls]
          /\ \A d \in ToolCalls : \A e \in landedAfter'[d] : e = c \/ e \in landedAfter[d]
        BY <1>6 DEF WriteLands
    <2>5. \A d \in ToolCalls : \A e \in landedAfter'[d] : call'[e].stage \in {"landed", "over"}
        BY <2>1, <2>4, StepsEffect
    <2> QED BY <2>1, <2>2, <2>3, <2>4, <2>5, StepsEffect
<1>7. ASSUME NEW c \in ToolCalls, WriteReported(c) PROVE StagesSound'
    <2>1. CASE Cancelled(c)   BY <1>7, <2>1, StepsEffect DEF WriteReported
    <2>2. CASE ~Cancelled(c)  BY <1>7, <2>2, SettleEffect DEF WriteReported
    <2> QED BY <2>1, <2>2
<1>8. ASSUME NEW t \in {TurnOf[c] : c \in ToolCalls}, AbortTurn(t) PROVE StagesSound'
    BY <1>8, AbortEffect DEF AbortTurn, Rejected
<1> QED BY <1>1, <1>2, <1>3, <1>4, <1>5, <1>6, <1>7, <1>8 DEF MutationNext

-----------------------------------------------------------------------------
(* Edited files: the queue of a key                                        *)

\* Requested, and its promise has not settled.
Lives(c) == ~Is(c, "new") /\ ~Settled(c)

\* Waits for a call that has not settled.
Blocked(c) == Is(c, "queued") /\ call[c].after # NoCall /\ ~Settled(call[c].after)

\* The living calls of a key stand in a row: its entry is the last of them, and
\* each of them but the first awaits the one directly before it.
Lined(rank) ==
    /\ rank \in [ToolCalls -> Nat]
    /\ \A k \in QueueKeys : queues[k] # NoCall => Lives(queues[k]) /\ call[queues[k]].key = k
    /\ \A c \in ToolCalls :
        Lives(c) => queues[call[c].key] # NoCall /\ rank[c] <= rank[queues[call[c].key]]
    /\ \A c, d \in ToolCalls :
        Lives(c) /\ Lives(d) /\ call[c].key = call[d].key /\ c # d => rank[c] # rank[d]
    /\ \A c, d \in ToolCalls :
        Lives(c) /\ Lives(d) /\ call[c].key = call[d].key /\ rank[c] < rank[d] =>
            /\ Is(d, "queued") /\ call[d].after \in ToolCalls
            /\ Lives(call[d].after) /\ call[call[d].after].key = call[d].key
            /\ rank[c] <= rank[call[d].after] /\ rank[call[d].after] < rank[d]

\* Of two living calls of one key at most one is not blocked.
LEMMA OneRuns ==
    ASSUME MutationTypeOK, NEW rank, Lined(rank),
           NEW c \in ToolCalls, NEW d \in ToolCalls,
           Lives(c), Lives(d), ~Blocked(c), ~Blocked(d), call[c].key = call[d].key
    PROVE  c = d
<1>1. \A x, y \in ToolCalls :
        Lives(x) /\ Lives(y) /\ call[x].key = call[y].key /\ rank[x] < rank[y] => Blocked(y)
    BY MutationAssumption DEF Lined, Blocked, Lives
<1>2. rank[c] \in Nat /\ rank[d] \in Nat
    BY DEF Lined
<1>3. c # d => rank[c] < rank[d] \/ rank[d] < rank[c]
    BY <1>2 DEF Lined
<1> QED BY <1>1, <1>3

\* Calls that are not blocked may go on, or settle and leave the queues.
LEMMA LinedStays ==
    ASSUME MutationTypeOK, MutationTypeOK', NEW rank, Lined(rank),
           NEW R \in SUBSET ToolCalls,
           \A c \in ToolCalls : call'[c].key = call[c].key /\ call'[c].after = call[c].after,
           \A c \in ToolCalls : Lives(c)' <=> Lives(c) /\ c \notin R,
           \A c \in ToolCalls : Lives(c) /\ Blocked(c) =>
                c \notin R /\ call'[c].stage = call[c].stage,
           \A k \in QueueKeys : queues'[k] = IF queues[k] \in R THEN NoCall ELSE queues[k]
    PROVE  Lined(rank)'
<1> USE MutationAssumption
<1>1. rank \in [ToolCalls -> Nat]
    BY DEF Lined
<1>2. \A c, d \in ToolCalls :
        Lives(c) /\ Lives(d) /\ call[c].key = call[d].key /\ rank[c] < rank[d] => Blocked(d)
    BY DEF Lined, Blocked, Lives
<1>k. \A c \in ToolCalls : call[c].key \in QueueKeys
    BY DEF MutationTypeOK, ToolCall
\* Whoever leaves is the first of its key.
<1>3. \A c, d \in ToolCalls :
        Lives(c) /\ Lives(d) /\ d \in R /\ call[c].key = call[d].key => rank[d] <= rank[c]
    BY <1>1, <1>2
<1>4. ASSUME NEW k \in QueueKeys, queues'[k] # NoCall
      PROVE  (Lives(queues[k]) /\ call[queues[k]].key = k)'
    <2>1. queues'[k] = queues[k] /\ queues[k] \notin R /\ queues[k] \in ToolCalls
        BY <1>4 DEF MutationTypeOK
    <2>2. Lives(queues[k]) /\ call[queues[k]].key = k
        BY <1>4, <2>1 DEF Lined
    <2> DEFINE q == queues[k]
    <2>3. Lives(q)' /\ call'[q].key = k
        BY <2>1, <2>2
    <2> QED BY <2>1, <2>3
<1>5. ASSUME NEW c \in ToolCalls, Lives(c)'
      PROVE  queues'[call'[c].key] # NoCall /\ rank[c] <= rank[queues'[call'[c].key]]
    <2> DEFINE q == queues[call[c].key]
    <2>1. Lives(c) /\ c \notin R
        BY <1>5
    <2>2. q # NoCall /\ q \in ToolCalls /\ rank[c] <= rank[q] /\ Lives(q) /\ call[q].key = call[c].key
        BY <2>1, <1>k DEF Lined, MutationTypeOK
    <2>3. q \in R => rank[q] <= rank[c] /\ q # c
        BY <1>3, <2>1, <2>2
    <2>4. q \in R => FALSE
        <3>1. q \in R => rank[q] = rank[c]
            BY <2>2, <2>3, <1>1
        <3>2. q # c => rank[q] # rank[c]
            BY <2>1, <2>2 DEF Lined
        <3> QED BY <2>3, <3>1, <3>2
    <2> QED BY <2>2, <2>4, <1>k
<1>6. ASSUME NEW c \in ToolCalls, NEW d \in ToolCalls, Lives(c)', Lives(d)',
             call'[c].key = call'[d].key, c # d
      PROVE  rank[c] # rank[d]
    BY <1>6 DEF Lined
<1>7. ASSUME NEW c \in ToolCalls, NEW d \in ToolCalls, Lives(c)', Lives(d)',
             call'[c].key = call'[d].key, rank[c] < rank[d]
      PROVE  /\ Is(d, "queued")' /\ call'[d].after \in ToolCalls
             /\ Lives(call[d].after)' /\ call'[call'[d].after].key = call'[d].key
             /\ rank[c] <= rank[call'[d].after] /\ rank[call'[d].after] < rank[d]
    <2> DEFINE a == call[d].after
    <2>1. Lives(c) /\ Lives(d) /\ c \notin R /\ d \notin R /\ call[c].key = call[d].key
        BY <1>7
    <2>2. /\ Is(d, "queued") /\ a \in ToolCalls /\ Lives(a) /\ call[a].key = call[d].key
          /\ rank[c] <= rank[a] /\ rank[a] < rank[d]
        BY <2>1, <1>7 DEF Lined
    <2>3. Blocked(d)
        BY <1>2, <1>7, <2>1
    <2>4. a \notin R
        <3>1. a \in R => rank[a] <= rank[c] /\ a # c
            BY <1>3, <2>1, <2>2
        <3>2. a \in R => rank[a] = rank[c]
            BY <3>1, <2>2, <1>1
        <3>3. call[a].key = call[c].key
            BY <2>1, <2>2
        <3>4. a # c => rank[a] # rank[c]
            BY <3>3, <2>1, <2>2 DEF Lined
        <3> QED BY <3>1, <3>2, <3>4
    <2>5. Is(d, "queued")'
        BY <2>1, <2>2, <2>3 DEF Is
    <2> QED BY <2>1, <2>2, <2>4, <2>5
<1> QED BY <1>1, <1>4, <1>5, <1>6, <1>7 DEF Lined

-----------------------------------------------------------------------------
\* The row exists whatever the queue does next.
InLine == \E rank : Lined(rank)

LEMMA LineStep ==
    StagesSound /\ StagesSound' /\ InLine /\ [MutationNext]_mutationVars => InLine'
<1> SUFFICES ASSUME StagesSound, StagesSound', InLine, [MutationNext]_mutationVars
             PROVE  InLine'
    OBVIOUS
<1> PICK rank : Lined(rank)
    BY DEF InLine
<1>t. MutationTypeOK /\ MutationTypeOK'
    BY DEF StagesSound
<1>q. /\ call \in [ToolCalls -> ToolCall] /\ queues \in [QueueKeys -> ToolCalls \cup {NoCall}]
      /\ \A c \in ToolCalls : call[c].key \in QueueKeys
    BY <1>t DEF MutationTypeOK, ToolCall
<1>n. \A c \in ToolCalls : Is(c, "new") => ~Settled(c)
    BY DEF StagesSound, Is, Settled
\* One call changes its stage, and its promise does not settle.
<1>a. ASSUME NEW c \in ToolCalls, NEW stage \in CallStages \ {"new"}, ~Is(c, "new"), ~Blocked(c),
             \A d \in ToolCalls \ {c} : call'[d] = call[d],
             call'[c].stage = stage, call'[c].promise = call[c].promise,
             call'[c].key = call[c].key, call'[c].after = call[c].after, queues' = queues
      PROVE  InLine'
    <2> PICK none \in SUBSET ToolCalls : none = {}
        OBVIOUS
    <2>1. \A d \in ToolCalls : Lives(d)' <=> Lives(d) /\ d \notin none
        BY <1>a DEF Lives, Is, Settled
    <2>2. \A d \in ToolCalls : call'[d].key = call[d].key /\ call'[d].after = call[d].after
        BY <1>a
    <2>3. \A d \in ToolCalls : Lives(d) /\ Blocked(d) => d \notin none /\ call'[d].stage = call[d].stage
        BY <1>a
    <2>4. \A k \in QueueKeys : queues'[k] = IF queues[k] \in none THEN NoCall ELSE queues[k]
        BY <1>a
    <2>5. Lined(rank)'
        BY <1>t, <2>1, <2>2, <2>3, <2>4, LinedStays
    <2> QED BY <2>5 DEF InLine
\* One call settles.
<1>b. ASSUME NEW c \in ToolCalls, NEW result \in {"ok", "error"}, NEW stage \in CallStages,
             Lives(c), ~Blocked(c), Settle(c, result, stage)
      PROVE  InLine'
    <2> HIDE DEF Blocked
    <2>1. /\ \A d \in ToolCalls \ {c} : call'[d] = call[d]
          /\ call'[c].promise = result
          /\ call'[c].key = call[c].key /\ call'[c].after = call[c].after
        BY <1>b, <1>q, SettleEffect
    <2>2. \A d \in ToolCalls : Lives(d)' <=> Lives(d) /\ d \notin {c}
        BY <1>b, <2>1 DEF Lives, Is, Settled
    <2>3. \A d \in ToolCalls : call'[d].key = call[d].key /\ call'[d].after = call[d].after
        BY <2>1
    <2>4. \A d \in ToolCalls : Lives(d) /\ Blocked(d) => d \notin {c} /\ call'[d].stage = call[d].stage
        BY <1>b, <2>1
    <2>5. \A k \in QueueKeys : queues'[k] = IF queues[k] \in {c} THEN NoCall ELSE queues[k]
        <3>1. \A k \in QueueKeys : queues[k] = c => k = call[c].key
            BY MutationAssumption DEF Lined
        <3>2. \A k \in QueueKeys :
                queues'[k] = IF k = call[c].key /\ queues[k] = c THEN NoCall ELSE queues[k]
            BY <1>b, <1>q, SettleEffect
        <3> QED BY <3>1, <3>2
    <2>6. Lined(rank)'
        BY <1>t, <2>2, <2>3, <2>4, <2>5, LinedStays
    <2> QED BY <2>6 DEF InLine
<1>1. CASE UNCHANGED mutationVars
    BY <1>1 DEF mutationVars, InLine, Lined, Lives, Is, Settled
<1>2. ASSUME NEW c \in ToolCalls, Request(c) PROVE InLine'
    <2> PICK k : k = KeyOf(c)
        OBVIOUS
    <2> PICK q : q = queues[k]
        OBVIOUS
    <2> DEFINE rank2 == [rank EXCEPT ![c] = IF q = NoCall THEN 0 ELSE rank[q] + 1]
    <2>1. /\ \A d \in ToolCalls \ {c} : call'[d] = call[d]
          /\ call'[c].stage = "queued" /\ call'[c].promise = call[c].promise
          /\ k \in QueueKeys /\ call'[c].key = k /\ call'[c].after = q
          /\ queues' = [queues EXCEPT ![k] = c]
        BY <1>2, <1>q, RequestEffect
    <2>2. Is(c, "new") /\ ~Lives(c)
        BY <1>2 DEF Request, Lives
    <2>3. Lives(c)' /\ Is(c, "queued")'
        BY <2>1, <2>2, <1>n DEF Lives, Is, Settled
    <2>4. \A d \in ToolCalls \ {c} : Lives(d)' <=> Lives(d)
        BY <2>1 DEF Lives, Is, Settled
    <2>5. q # NoCall => q \in ToolCalls /\ q # c /\ Lives(q) /\ call[q].key = k
        BY <2>1, <2>2, <1>q DEF Lined
    <2>r. rank \in [ToolCalls -> Nat]
        BY DEF Lined
    <2>6. /\ rank2 \in [ToolCalls -> Nat]
          /\ \A d \in ToolCalls \ {c} : rank2[d] = rank[d]
          /\ rank2[c] = IF q = NoCall THEN 0 ELSE rank[q] + 1
        BY <2>5, <2>r
    <2> HIDE DEF rank2
    \* The new call is the last of its key.
    <2>7. \A d \in ToolCalls \ {c} : Lives(d) /\ call[d].key = k => q # NoCall /\ rank2[d] < rank2[c]
        <3> TAKE d \in ToolCalls \ {c}
        <3> HAVE Lives(d) /\ call[d].key = k
        <3>1. q # NoCall /\ rank[d] <= rank[q]
            BY DEF Lined
        <3> QED BY <3>1, <2>5, <2>6, <2>r
    <2>8. Lined(rank2)'
        <3>1. ASSUME NEW l \in QueueKeys, queues'[l] # NoCall
              PROVE  (Lives(queues[l]) /\ call[queues[l]].key = l)'
            <4>1. CASE l = k
                <5>1. queues'[l] = c
                    BY <4>1, <2>1, <1>q
                <5> QED BY <5>1, <4>1, <2>1, <2>3
            <4>2. CASE l # k
                <5>1. queues'[l] = queues[l] /\ queues[l] \in ToolCalls
                    BY <4>2, <3>1, <2>1, <1>q
                <5>2. Lives(queues[l]) /\ call[queues[l]].key = l
                    BY <5>1, <3>1 DEF Lined
                <5>3. queues[l] # c
                    BY <5>2, <2>2
                <5> QED BY <5>1, <5>2, <5>3, <2>1, <2>4
            <4> QED BY <4>1, <4>2
        <3>2. ASSUME NEW d \in ToolCalls, Lives(d)'
              PROVE  queues'[call'[d].key] # NoCall /\ rank2[d] <= rank2[queues'[call'[d].key]]
            <4>1. CASE call'[d].key = k
                <5>1. queues'[k] = c
                    BY <2>1, <1>q
                <5>2. d # c => rank2[d] < rank2[c]
                    BY <4>1, <3>2, <2>1, <2>4, <2>7
                <5> QED BY <5>1, <5>2, <4>1, <2>6, MutationAssumption
            <4>2. CASE call'[d].key # k
                <5>1. d # c /\ call'[d] = call[d] /\ Lives(d)
                    BY <4>2, <3>2, <2>1, <2>4
                <5> DEFINE l == call[d].key
                <5>2. queues'[l] = queues[l] /\ l \in QueueKeys
                    BY <4>2, <5>1, <2>1, <1>q
                <5>3. queues[l] # NoCall /\ rank[d] <= rank[queues[l]] /\ queues[l] \in ToolCalls
                    BY <5>1, <5>2, <1>q DEF Lined
                <5>4. queues[l] # c
                    BY <5>3, <5>2, <2>2 DEF Lined
                <5> QED BY <5>1, <5>2, <5>3, <5>4, <2>6
            <4> QED BY <4>1, <4>2
        <3>3. ASSUME NEW d \in ToolCalls, NEW e \in ToolCalls, Lives(d)', Lives(e)',
                     call'[d].key = call'[e].key, d # e
              PROVE  rank2[d] # rank2[e]
            <4>1. CASE d = c  BY <3>3, <4>1, <2>1, <2>4, <2>6, <2>7
            <4>2. CASE e = c  BY <3>3, <4>2, <2>1, <2>4, <2>6, <2>7
            <4>3. CASE d # c /\ e # c
                BY <3>3, <4>3, <2>1, <2>4, <2>6 DEF Lined
            <4> QED BY <4>1, <4>2, <4>3
        <3>4. ASSUME NEW d \in ToolCalls, NEW e \in ToolCalls, Lives(d)', Lives(e)',
                     call'[d].key = call'[e].key, rank2[d] < rank2[e]
              PROVE  /\ Is(e, "queued")' /\ call'[e].after \in ToolCalls
                     /\ Lives(call[e].after)' /\ call'[call'[e].after].key = call'[e].key
                     /\ rank2[d] <= rank2[call'[e].after] /\ rank2[call'[e].after] < rank2[e]
            <4>0. d # e
                BY <3>4, <2>6
            <4>1. CASE d = c
                <5>1. rank2[e] < rank2[c]
                    BY <4>0, <4>1, <3>4, <2>1, <2>4, <2>7
                <5> QED BY <5>1, <4>1, <3>4, <2>6
            <4>2. CASE e = c
                <5>1. Lives(d) /\ call[d].key = k /\ d # c
                    BY <4>0, <4>2, <3>4, <2>1, <2>4
                <5>2. q # NoCall /\ rank[d] <= rank[q]
                    BY <5>1 DEF Lined
                <5>3. call'[c].after = q /\ Lives(q)' /\ call'[q].key = k /\ call'[c].key = k
                    BY <5>2, <2>1, <2>4, <2>5
                <5>4. rank2[d] = rank[d] /\ rank2[q] = rank[q] /\ rank2[c] = rank[q] + 1
                      /\ rank[q] \in Nat
                    BY <5>1, <5>2, <2>5, <2>6, <2>r
                <5>5. Lives(call[c].after)'
                    BY <5>3
                <5> QED BY <5>2, <5>3, <5>4, <5>5, <4>2, <2>3, <2>5
            <4>3. CASE d # c /\ e # c
                <5> DEFINE a == call[e].after
                <5>1. call'[d] = call[d] /\ call'[e] = call[e] /\ Lives(d) /\ Lives(e)
                      /\ rank[d] < rank[e]
                    BY <4>3, <3>4, <2>1, <2>4, <2>6
                <5>2. /\ Is(e, "queued") /\ a \in ToolCalls /\ Lives(a) /\ call[a].key = call[e].key
                      /\ rank[d] <= rank[a] /\ rank[a] < rank[e]
                    BY <5>1, <3>4 DEF Lined
                <5>3. a # c
                    BY <5>2, <2>2
                <5>4. Is(e, "queued")' /\ Lives(a)' /\ call'[a] = call[a]
                    BY <5>1, <5>2, <5>3, <2>1, <2>4 DEF Is
                <5>5. Lives(call[e].after)'
                    BY <5>1, <5>4
                <5> QED BY <5>1, <5>2, <5>3, <5>4, <5>5, <4>3, <2>6
            <4> QED BY <4>1, <4>2, <4>3
        <3> QED BY <2>6, <3>1, <3>2, <3>3, <3>4 DEF Lined
    <2> QED BY <2>8 DEF InLine
<1>3. ASSUME NEW c \in ToolCalls, Start(c) PROVE InLine'
    <2>1. ~Blocked(c) /\ Is(c, "queued") /\ Lives(c)
        BY <1>3 DEF Start, MayStart, Blocked, Lives, StagesSound, Is, Settled
    <2>2. CASE Cancelled(c)
        BY <1>3, <2>1, <2>2, <1>b DEF Start, CallStages
    <2>3. CASE ~Cancelled(c)
        BY <1>3, <2>1, <2>3, <1>a, <1>q, StepsEffect DEF Start, CallStages, Lives
    <2> QED BY <2>2, <2>3
<1>4. ASSUME NEW c \in ToolCalls, Begun(c) PROVE ~Blocked(c) /\ ~Is(c, "new") /\ (~Cancelled(c) => Lives(c))
    BY <1>4 DEF Begun, Blocked, Is, Lives, Settled, StagesSound
<1>5. ASSUME NEW c \in ToolCalls, Accessed(c) PROVE InLine'
    <2>1. Begun(c)
        BY <1>5 DEF Accessed, Begun, Is
    <2>2. CASE ~Cancelled(c) /\ Settle(c, "error", "over")
        BY <2>1, <2>2, <1>b, <1>4 DEF CallStages
    <2>3. ASSUME NEW stage \in {"over", "reading", "writing"}, Steps(c, stage) PROVE InLine'
        BY <2>1, <2>3, <1>a, <1>4, <1>q, StepsEffect DEF CallStages
    <2> QED BY <1>5, <2>2, <2>3 DEF Accessed
<1>6. ASSUME NEW c \in ToolCalls, ReadFile(c) PROVE InLine'
    <2>1. Begun(c) /\ queues' = queues
        BY <1>6 DEF ReadFile, Begun, Is
    <2> QED BY <1>6, <2>1, <1>a, <1>4, ReadEffect DEF CallStages
<1>7. ASSUME NEW c \in ToolCalls, WriteLands(c) PROVE InLine'
    <2>1. Begun(c) /\ Steps(c, "landed")
        BY <1>7 DEF WriteLands, Begun, Is
    <2> QED BY <2>1, <1>a, <1>4, <1>q, StepsEffect DEF CallStages
<1>8. ASSUME NEW c \in ToolCalls, WriteReported(c) PROVE InLine'
    <2>1. Begun(c)
        BY <1>8 DEF WriteReported, Begun, Is
    <2>2. CASE Cancelled(c)
        BY <1>8, <2>1, <2>2, <1>a, <1>4, <1>q, StepsEffect DEF WriteReported, CallStages
    <2>3. CASE ~Cancelled(c)
        BY <1>8, <2>1, <2>3, <1>b, <1>4 DEF WriteReported, CallStages
    <2> QED BY <2>2, <2>3
<1>9. ASSUME NEW t \in {TurnOf[c] : c \in ToolCalls}, AbortTurn(t) PROVE InLine'
    <2>1. /\ \A c \in ToolCalls :
             /\ call'[c].stage = call[c].stage /\ call'[c].key = call[c].key
             /\ call'[c].after = call[c].after
             /\ call'[c].promise = IF c \in Rejected(t) THEN "error" ELSE call[c].promise
          /\ \A k \in QueueKeys : queues'[k] = IF queues[k] \in Rejected(t) THEN NoCall ELSE queues[k]
        BY <1>9, <1>q, AbortEffect
    <2>2. \A c \in Rejected(t) : c \in ToolCalls /\ Lives(c) /\ ~Blocked(c)
        BY DEF Rejected, Lives, Blocked
    <2>3. \A c \in ToolCalls : Lives(c)' <=> Lives(c) /\ c \notin Rejected(t)
        BY <2>1, <2>2 DEF Lives, Is, Settled
    <2>4. Lined(rank)'
        BY <1>t, <2>1, <2>2, <2>3, LinedStays
    <2> QED BY <2>4 DEF InLine
<1> QED BY <1>1, <1>2, <1>3, <1>5, <1>6, <1>7, <1>8, <1>9 DEF MutationNext

-----------------------------------------------------------------------------
(* Edited files: reported edits                                            *)

\* The call's change has landed, and it has not been rejected.
Done(c) == (Is(c, "landed") /\ ~Settled(c)) \/ call[c].promise = "ok"

\* What may take the change of an edit out of the file again.
Excused(c) ==
    \E d \in landedAfter[c] :
        d \notin IsEdit \/ call[d].promise = "error" \/ call[d].key # call[c].key

EditsInFile == \A c \in IsEdit : Done(c) => c \in content \/ Excused(c)

\* An edit that is about to write has read all that has landed under its key.
BasesCurrent ==
    \A c, d \in IsEdit :
        Done(c) /\ Is(d, "writing") /\ ~Settled(d) /\ call[c].key = call[d].key =>
            c \in call[d].base \/ Excused(c)

MutationInv == StagesSound /\ InLine /\ EditsInFile /\ BasesCurrent

\* An excuse stands; the proof names the calls the step changes.
LEMMA ExcuseStays ==
    ASSUME StagesSound,
           \A c \in ToolCalls : landedAfter[c] \subseteq landedAfter'[c],
           \A c \in ToolCalls : ~Is(c, "new") => call'[c].key = call[c].key,
           \A c \in ToolCalls : call[c].promise = "error" => call'[c].promise = "error",
           NEW c \in ToolCalls, ~Is(c, "new"), Excused(c)
    PROVE  Excused(c)'
<1>1. PICK d \in landedAfter[c] :
        d \notin IsEdit \/ call[d].promise = "error" \/ call[d].key # call[c].key
    BY DEF Excused
<1>2. d \in ToolCalls /\ d \in landedAfter'[c] /\ ~Is(d, "new")
    BY DEF StagesSound, Is
<1>3. d \notin IsEdit \/ call'[d].promise = "error" \/ call'[d].key # call'[c].key
    BY <1>1, <1>2
<1> QED BY <1>2, <1>3 DEF Excused

\* A step that neither lands, nor reads, nor changes the file.
LEMMA EditsUntouched ==
    ASSUME StagesSound, EditsInFile, BasesCurrent, content' = content, landedAfter' = landedAfter,
           \A c \in ToolCalls : ~Is(c, "new") => call'[c].key = call[c].key,
           \A c \in ToolCalls : call[c].promise = "error" => call'[c].promise = "error",
           \A c \in ToolCalls : Done(c)' => Done(c),
           \A d \in IsEdit : Is(d, "writing")' /\ ~Settled(d)' =>
                Is(d, "writing") /\ ~Settled(d) /\ call'[d].base = call[d].base
    PROVE  EditsInFile' /\ BasesCurrent'
<1>1. \A c \in ToolCalls : landedAfter[c] \subseteq landedAfter'[c]
    OBVIOUS
<1>2. \A c \in IsEdit : c \in ToolCalls
    BY MutationAssumption
<1>3. \A c \in ToolCalls : Done(c) => ~Is(c, "new")
    BY DEF Done, StagesSound, Is
<1>4. \A c \in ToolCalls : ~Is(c, "new") /\ Excused(c) => Excused(c)'
    BY <1>1, ExcuseStays
<1>5. \A c \in IsEdit : Done(c)' => c \in content' \/ Excused(c)'
    BY <1>2, <1>3, <1>4 DEF EditsInFile
<1>6. ASSUME NEW c \in IsEdit, NEW d \in IsEdit, Done(c)', Is(d, "writing")', ~Settled(d)',
             call'[c].key = call'[d].key
      PROVE  c \in call'[d].base \/ Excused(c)'
    <2>1. Done(c) /\ Is(d, "writing") /\ ~Settled(d) /\ call'[d].base = call[d].base
        BY <1>2, <1>6
    <2>2. ~Is(c, "new") /\ ~Is(d, "new")
        BY <2>1, <1>2, <1>3 DEF Is
    <2>3. call[c].key = call[d].key
        BY <1>2, <1>6, <2>2
    <2> QED BY <1>2, <1>4, <2>1, <2>2, <2>3 DEF BasesCurrent
<1> QED BY <1>5, <1>6 DEF EditsInFile, BasesCurrent

LEMMA EditsStep ==
    MutationInv /\ [MutationNext]_mutationVars => EditsInFile' /\ BasesCurrent'
<1> SUFFICES ASSUME MutationInv, [MutationNext]_mutationVars
             PROVE  EditsInFile' /\ BasesCurrent'
    OBVIOUS
<1>0. StagesSound /\ EditsInFile /\ BasesCurrent
    BY DEF MutationInv
<1>q. /\ call \in [ToolCalls -> ToolCall] /\ queues \in [QueueKeys -> ToolCalls \cup {NoCall}]
    BY <1>0 DEF StagesSound, MutationTypeOK
<1>e. \A c \in IsEdit : c \in ToolCalls
    BY MutationAssumption
\* One call changes, without landing or beginning to write.
<1>a. ASSUME NEW c \in ToolCalls, content' = content, landedAfter' = landedAfter,
             \A d \in ToolCalls \ {c} : call'[d] = call[d],
             ~Is(c, "new") => call'[c].key = call[c].key,
             call[c].promise = "error" => call'[c].promise = "error",
             Done(c)' => Done(c),
             c \in IsEdit => ~Is(c, "writing")' \/ Settled(c)'
      PROVE  EditsInFile' /\ BasesCurrent'
    <2>1. \A d \in ToolCalls : ~Is(d, "new") => call'[d].key = call[d].key
        BY <1>a
    <2>2. \A d \in ToolCalls : call[d].promise = "error" => call'[d].promise = "error"
        BY <1>a
    <2>3. \A d \in ToolCalls : Done(d)' => Done(d)
        BY <1>a DEF Done, Is, Settled
    <2>4. \A d \in IsEdit : Is(d, "writing")' /\ ~Settled(d)' =>
                Is(d, "writing") /\ ~Settled(d) /\ call'[d].base = call[d].base
        BY <1>a, <1>e DEF Is, Settled
    <2> QED BY <1>0, <1>a, <2>1, <2>2, <2>3, <2>4, EditsUntouched
<1>1. CASE UNCHANGED mutationVars
    BY <1>0, <1>1 DEF mutationVars, EditsInFile, BasesCurrent, Done, Excused, Is, Settled
<1>2. ASSUME NEW c \in ToolCalls, Request(c) PROVE EditsInFile' /\ BasesCurrent'
    <2>1. Is(c, "new") /\ content' = content /\ landedAfter' = landedAfter
        BY <1>2 DEF Request
    <2>2. /\ \A d \in ToolCalls \ {c} : call'[d] = call[d]
          /\ call'[c].stage = "queued" /\ call'[c].promise = call[c].promise
        BY <1>2, <1>q, RequestEffect
    <2>3. call[c].promise = "pending"
        BY <1>0, <2>1 DEF StagesSound, Is
    <2> QED BY <2>1, <2>2, <2>3, <1>a DEF Done, Is, Settled
<1>3. ASSUME NEW c \in ToolCalls, Start(c) PROVE EditsInFile' /\ BasesCurrent'
    <2>1. Is(c, "queued") /\ content' = content /\ landedAfter' = landedAfter
        BY <1>3 DEF Start, MayStart
    <2>2. call[c].promise = "pending"
        BY <1>0, <2>1 DEF StagesSound, Is
    <2>3. CASE Settle(c, "error", "over")
        BY <2>1, <2>2, <2>3, <1>a, <1>q, SettleEffect DEF CallStages, Done, Is, Settled
    <2>4. CASE Steps(c, "access")
        BY <2>1, <2>2, <2>4, <1>a, <1>q, StepsEffect DEF CallStages, Done, Is, Settled
    <2> QED BY <1>3, <2>3, <2>4 DEF Start
<1>4. ASSUME NEW c \in ToolCalls, Accessed(c) PROVE EditsInFile' /\ BasesCurrent'
    <2>1. Is(c, "access") /\ content' = content /\ landedAfter' = landedAfter
        BY <1>4 DEF Accessed
    <2>2. call[c].promise = IF Cancelled(c) THEN "error" ELSE "pending"
        BY <1>0, <2>1 DEF StagesSound, Is, Begun
    <2>3. CASE ~Cancelled(c) /\ Settle(c, "error", "over")
        BY <2>1, <2>2, <2>3, <1>a, <1>q, SettleEffect DEF CallStages, Done, Is, Settled
    <2>4. ASSUME NEW stage \in {"over", "reading"}, Steps(c, stage)
          PROVE EditsInFile' /\ BasesCurrent'
        BY <2>1, <2>2, <2>4, <1>a, <1>q, StepsEffect DEF CallStages, Done, Is, Settled
    <2>5. CASE c \notin IsEdit /\ Steps(c, "writing")
        BY <2>1, <2>2, <2>5, <1>a, <1>q, StepsEffect DEF CallStages, Done, Is, Settled
    <2> QED BY <1>4, <2>3, <2>4, <2>5 DEF Accessed
<1>5. ASSUME NEW c \in ToolCalls, ReadFile(c) PROVE EditsInFile' /\ BasesCurrent'
    <2>1. Is(c, "reading") /\ content' = content /\ landedAfter' = landedAfter
        BY <1>5 DEF ReadFile
    <2>2. call[c].promise = IF Cancelled(c) THEN "error" ELSE "pending"
        BY <1>0, <2>1 DEF StagesSound, Is, Begun
    <2>3. /\ \A d \in ToolCalls \ {c} : call'[d] = call[d]
          /\ call'[c].stage = (IF Cancelled(c) THEN "over" ELSE "writing")
          /\ call'[c].promise = call[c].promise /\ call'[c].key = call[c].key
          /\ call'[c].base = content
        BY <1>0, <1>5, ReadEffect
    <2>4. CASE Cancelled(c)
        BY <2>1, <2>2, <2>3, <2>4, <1>a DEF Done, Is, Settled
    \* What it reads holds every change that has landed and stayed.
    <2>5. CASE ~Cancelled(c)
        <3>1. \A d \in ToolCalls : Done(d)' => Done(d)
            BY <2>2, <2>3, <2>5 DEF Done, Is, Settled
        <3>2. \A d \in ToolCalls : Done(d) => ~Is(d, "new")
            BY <1>0 DEF Done, StagesSound, Is
        <3>3. \A d \in ToolCalls : ~Is(d, "new") /\ Excused(d) => Excused(d)'
            <4>1. \A d \in ToolCalls : landedAfter[d] \subseteq landedAfter'[d]
                BY <2>1
            <4>2. \A d \in ToolCalls : /\ call'[d].key = call[d].key
                                       /\ call[d].promise = "error" => call'[d].promise = "error"
                BY <2>3
            <4> QED BY <1>0, <4>1, <4>2, ExcuseStays
        <3>4. EditsInFile'
            BY <1>0, <1>e, <2>1, <3>1, <3>2, <3>3 DEF EditsInFile
        <3>5. ASSUME NEW d \in IsEdit, NEW e \in IsEdit, Done(d)', Is(e, "writing")', ~Settled(e)',
                     call'[d].key = call'[e].key
              PROVE  d \in call'[e].base \/ Excused(d)'
            <4>1. Done(d) /\ ~Is(d, "new")
                BY <1>e, <3>1, <3>2, <3>5
            <4>2. CASE e = c
                BY <4>1, <4>2, <1>0, <1>e, <2>3, <3>3 DEF EditsInFile
            <4>3. CASE e # c
                <5>1. Is(e, "writing") /\ ~Settled(e) /\ call'[e] = call[e] /\ call'[d].key = call[d].key
                    BY <4>3, <3>5, <1>e, <2>3 DEF Is, Settled
                <5> QED BY <4>1, <5>1, <3>3, <3>5, <1>0, <1>e DEF BasesCurrent
            <4> QED BY <4>2, <4>3
        <3> QED BY <3>4, <3>5 DEF BasesCurrent
    <2> QED BY <2>4, <2>5
<1>6. ASSUME NEW c \in ToolCalls, WriteLands(c) PROVE EditsInFile' /\ BasesCurrent'
    <2>1. /\ Is(c, "writing") /\ Steps(c, "landed")
          /\ content' = (IF c \in IsEdit THEN call[c].base ELSE {}) \cup {c}
        BY <1>6 DEF WriteLands
    <2>2. /\ \A d \in ToolCalls \ {c} : call'[d] = call[d]
          /\ call'[c].stage = "landed" /\ call'[c].promise = call[c].promise
          /\ call'[c].key = call[c].key
        BY <2>1, <1>q, StepsEffect DEF CallStages
    <2>3. call[c].promise = IF Cancelled(c) THEN "error" ELSE "pending"
        BY <1>0, <2>1 DEF StagesSound, Is, Begun
    <2>4. \A d \in ToolCalls :
            /\ landedAfter[d] \subseteq landedAfter'[d]
            /\ Is(d, "landed") \/ Is(d, "over") => c \in landedAfter'[d]
        BY <1>0, <1>6 DEF WriteLands, StagesSound
    <2>5. \A d \in ToolCalls : Done(d) => Is(d, "landed") \/ Is(d, "over")
        <3>1. \A d \in ToolCalls : call[d].promise = "ok" => Is(d, "over")
            BY <1>0, <1>q DEF StagesSound, Begun, Is, ToolCall
        <3> QED BY <3>1 DEF Done
    <2>6. \A d \in ToolCalls \ {c} : Done(d)' => Done(d)
        BY <2>2 DEF Done, Is, Settled
    <2>7. \A d \in ToolCalls : ~Is(d, "new") /\ Excused(d) => Excused(d)'
        <3>1. \A d \in ToolCalls : /\ call'[d].key = call[d].key
                                   /\ call[d].promise = "error" => call'[d].promise = "error"
            BY <2>2
        <3> QED BY <1>0, <2>4, <3>1, ExcuseStays
    <2>8. ASSUME NEW d \in IsEdit, Done(d)' PROVE d \in content' \/ Excused(d)'
        <3>1. CASE d = c
            BY <3>1, <2>1
        <3>2. CASE d # c
            <4>1. Done(d) /\ c \in landedAfter'[d] /\ d \in ToolCalls /\ ~Is(d, "new")
                BY <3>2, <2>8, <1>e, <2>4, <2>5, <2>6 DEF Is
            <4>2. CASE c \notin IsEdit \/ call[c].promise = "error" \/ call[c].key # call[d].key
                <5>1. c \notin IsEdit \/ call'[c].promise = "error" \/ call'[c].key # call'[d].key
                    BY <4>1, <4>2, <3>2, <2>2
                <5> QED BY <4>1, <5>1 DEF Excused
            <4>3. CASE c \in IsEdit /\ ~Settled(c) /\ call[c].key = call[d].key
                <5>1. d \in call[c].base \/ Excused(d)
                    BY <4>1, <4>3, <2>1, <1>0 DEF BasesCurrent
                <5> QED BY <5>1, <4>1, <4>3, <2>1, <2>7
            <4> QED BY <4>2, <4>3, <2>3 DEF Settled
        <3> QED BY <3>1, <3>2
    \* Nobody else with the key is writing while c, not rejected, lands.
    <2>9. ASSUME NEW d \in IsEdit, NEW e \in IsEdit, Done(d)', Is(e, "writing")', ~Settled(e)',
                 call'[d].key = call'[e].key
          PROVE  d \in call'[e].base \/ Excused(d)'
        <3>1. e # c /\ e \in ToolCalls /\ d \in ToolCalls
            BY <2>9, <2>2, <1>e DEF Is
        <3>2. call'[e] = call[e] /\ Is(e, "writing") /\ ~Settled(e)
            BY <3>1, <2>9, <2>2 DEF Is, Settled
        <3>3. CASE d = c
            <4>1. ~Settled(c) /\ call[c].key = call[e].key
                BY <3>1, <3>2, <3>3, <2>9, <2>2, <2>3 DEF Done, Settled
            <4>2. Lives(c) /\ Lives(e) /\ ~Blocked(c) /\ ~Blocked(e)
                BY <4>1, <3>2, <2>1 DEF Lives, Blocked, Is
            <4>3. c = e
                BY <4>1, <4>2, <3>1, <1>0, OneRuns DEF MutationInv, InLine, StagesSound
            <4> QED BY <4>3, <3>1
        <3>4. CASE d # c
            <4>1. Done(d) /\ ~Is(d, "new") /\ call'[d] = call[d]
                BY <3>4, <3>1, <2>9, <2>2, <2>5, <2>6 DEF Is
            <4> QED BY <4>1, <3>1, <3>2, <2>7, <2>9, <1>0 DEF BasesCurrent
        <3> QED BY <3>3, <3>4
    <2> QED BY <2>8, <2>9 DEF EditsInFile, BasesCurrent
<1>7. ASSUME NEW c \in ToolCalls, WriteReported(c) PROVE EditsInFile' /\ BasesCurrent'
    <2>1. Is(c, "landed") /\ content' = content /\ landedAfter' = landedAfter
        BY <1>7 DEF WriteReported
    <2>2. call[c].promise = IF Cancelled(c) THEN "error" ELSE "pending"
        BY <1>0, <2>1 DEF StagesSound, Is, Begun
    <2>3. CASE Cancelled(c)
        BY <1>7, <2>1, <2>2, <2>3, <1>a, <1>q, StepsEffect
           DEF WriteReported, CallStages, Done, Is, Settled
    <2>4. CASE ~Cancelled(c)
        BY <1>7, <2>1, <2>2, <2>4, <1>a, <1>q, SettleEffect
           DEF WriteReported, CallStages, Done, Is, Settled
    <2> QED BY <2>3, <2>4
<1>8. ASSUME NEW t \in {TurnOf[c] : c \in ToolCalls}, AbortTurn(t) PROVE EditsInFile' /\ BasesCurrent'
    <2>1. content' = content /\ landedAfter' = landedAfter
        BY <1>8 DEF AbortTurn
    <2>2. \A c \in ToolCalls :
             /\ call'[c].stage = call[c].stage /\ call'[c].key = call[c].key
             /\ call'[c].base = call[c].base
             /\ call'[c].promise = IF c \in Rejected(t) THEN "error" ELSE call[c].promise
        BY <1>8, <1>q, AbortEffect
    <2>3. \A c \in ToolCalls : Done(c)' => Done(c)
        BY <2>2 DEF Done, Is, Settled
    <2>4. \A c \in ToolCalls : Is(c, "writing")' /\ ~Settled(c)' => Is(c, "writing") /\ ~Settled(c)
        BY <2>2 DEF Is, Settled
    <2> QED BY <1>0, <1>e, <2>1, <2>2, <2>3, <2>4, EditsUntouched
<1> QED BY <1>1, <1>2, <1>3, <1>4, <1>5, <1>6, <1>7, <1>8 DEF MutationNext

LEMMA MutationInvariant == MutationSpec => []MutationInv
<1>1. MutationInit => StagesSound /\ InLine /\ EditsInFile /\ BasesCurrent
    <2> SUFFICES ASSUME MutationInit PROVE StagesSound /\ InLine /\ EditsInFile /\ BasesCurrent
        OBVIOUS
    <2>1. \A c \in ToolCalls : Is(c, "new") /\ ~Settled(c)
        BY DEF MutationInit, NewToolCall, Is, Settled
    <2> DEFINE rank == [c \in ToolCalls |-> 0]
    <2>2. Lined(rank)
        BY <2>1 DEF MutationInit, Lined, Lives
    <2>3. \A c \in ToolCalls : ~Done(c)
        BY <2>1 DEF Done, Is, Settled
    <2> QED BY <2>2, <2>3, MutationInitSound, MutationAssumption DEF InLine, EditsInFile, BasesCurrent
<1>2. MutationInv /\ [MutationNext]_mutationVars => MutationInv'
    BY StagesStep, LineStep, EditsStep DEF MutationInv
<1> QED BY <1>1, <1>2, PTL DEF MutationSpec, MutationInv

\* The map of queues, the calls, the file and the aborted turns are well typed.
THEOREM MutationTypeCorrect == MutationSpec => []MutationTypeOK
<1>1. MutationInv => MutationTypeOK
    BY DEF MutationInv, StagesSound
<1> QED BY <1>1, MutationInvariant, PTL

\* However calls, aborts and turns interleave, an entry of the map is a call that
\* has not ended and every key in use has one; and an edit that was reported
\* stays in the file until a write, a rejected call that wrote all the same, or
\* a call queued under another name of the file takes it out.
THEOREM EditsAlwaysKept == MutationSpec => []EditsKept
<1>1. MutationInv => EditsKept
    <2> SUFFICES ASSUME MutationInv PROVE EditsKept
        OBVIOUS
    <2> PICK rank : Lined(rank)
        BY DEF MutationInv, InLine
    <2>1. QueueHasUser
        BY DEF Lined, Lives, QueueHasUser, Is
    <2>2. ReportedEditStays
        BY DEF MutationInv, EditsInFile, Done, Excused, ReportedEditStays
    <2> QED BY <2>1, <2>2 DEF EditsKept
<1> QED BY <1>1, MutationInvariant, PTL

-----------------------------------------------------------------------------
(* Packages: the invariant                                                 *)

Loadings == [dir : Dirs, is : Content, doubtful : BOOLEAN]

PackageOps == {"idle", "install", "remove", "update", "failed", "resolve", "runs"}

Progs == [op : PackageOps, known : [Dirs -> Pins], pin : [Dirs -> Pins],
          stage : [Dirs -> Children], todo : SUBSET Dirs, loaded : SUBSET Loadings,
          since : [Packages -> Versions], crossed : SUBSET Dirs]

\* A directory with content c serves program P as its pin says.
Serves(P, d, c) ==
    /\ c.exists /\ c.at # 0 /\ c.deps
    /\ d[1] \in NpmPackages /\ P.pin[d] # Free => c.at = P.pin[d]

\* What the children of an update have reached in d, with content c.
Reached(P, d, c) ==
    /\ P.stage[d] = "reset" => c.head >= P.since[d[1]]
    /\ P.stage[d] \in {"clean", "deps", "done"} => c.at >= P.since[d[1]]

NpmStages == {"none", "npm", "check", "uninstall", "done"}

\* A package that is worked on is wanted, an update works on all it wants, and
\* those of npm need no git.
Wanted(P, d) ==
    /\ P.stage[d] # "none" => P.pin[d] # Absent /\ P.op # "idle"
    /\ P.stage[d] = "checkout" => P.pin[d] # Free
    /\ P.stage[d] = "uninstall" => P.op = "remove"
    /\ P.stage[d] = "check" => P.op \in {"update", "failed"}
    /\ d[1] \in NpmPackages => P.stage[d] \in NpmStages
    /\ P.op = "update" => /\ P.stage[d] = "none" => P.pin[d] = Absent
                          /\ P.stage[d] # "none" => P.pin[d] = Free

\* Program P has brought d, with content c, half done or not, as far as it says,
\* if nobody else has changed it.
Brought(P, d, c, half) ==
    d \in P.crossed \/
        /\ P.op = "update" => Reached(P, d, c)
        /\ ~half /\ P.stage[d] = "done" => /\ P.op = "update" => c.deps
                                           /\ P.op = "resolve" => Serves(P, d, c)

\* Every listed package is loaded, or is still to be.
Listed(P) ==
    P.op \in {"resolve", "runs"} =>
        /\ P.pin = P.known
        /\ \A d \in Dirs : d \in Deduped(P.known) <=> d \in P.todo \/ \E l \in P.loaded : l.dir = d
        /\ P.op = "runs" => P.todo = {}

LoadedWhole(P) == \A l \in P.loaded : l.doubtful \/ Serves(P, l.dir, l.is)

ProgSound(P) == P \in Progs /\ Listed(P) /\ LoadedWhole(P) /\ \A d \in Dirs : Wanted(P, d)

\* What exists and was not left half done is whole.
DirSound(c, half) ==
    /\ c.at # 0 => c.exists
    /\ c.exists /\ ~half => c.at # 0 /\ c.deps

PackagesData ==
    /\ configured \in [Dirs -> Pins] /\ disk \in [Dirs -> Content]
    /\ latest \in [Packages -> Versions]
    /\ spoilt \subseteq Dirs /\ used \in 0 .. MaxOps
    /\ \A d \in Dirs : DirSound(disk[d], d \in spoilt)

\* Whoever is under way when another clones knows that it has been crossed.
ClonesCross(x) ==
    \A p \in Programs : \A q \in Programs \ {p} : \A d \in Dirs :
        x[q].stage[d] = "cloning" /\ x[p].op # "idle" => d \in x[p].crossed

PackagesInv ==
    /\ PackagesData
    /\ prog \in [Programs -> Progs]
    /\ \A p \in Programs :
          /\ ProgSound(prog[p])
          /\ \A s \in Packages : prog[p].since[s] <= latest[s]
          /\ \A d \in Dirs : Brought(prog[p], d, disk[d], d \in spoilt)
    /\ ClonesCross(prog)

-----------------------------------------------------------------------------
(* Packages: what a step of a child may do                                 *)

LEMMA PackageNumbers ==
    /\ MaxVersion \in Nat \ {0} /\ Versions \subseteq Nat \ {0} /\ Versions \subseteq 0 .. MaxVersion
    /\ Pins \subseteq Int /\ Free \in Pins /\ Absent \in Pins
    /\ Free \notin Versions /\ Absent \notin Versions /\ Free # Absent
    /\ 1 \in Versions /\ (\A v \in Versions : v # 0)
  BY PackagesAssumption, SMT DEF Versions, Pins, Free, Absent

LEMMA DirIsPair ==
  ASSUME NEW d \in Dirs
  PROVE  d[1] \in Packages /\ d[2] \in {"user", "project"} /\ d = <<d[1], d[2]>>
  BY PackagesAssumption, SMT DEF Packages

\* Another program's child leaves something in d: the program is crossed there.
LEMMA CrossedSound ==
  ASSUME NEW P, ProgSound(P), NEW d \in Dirs
  PROVE  LET Q == [P EXCEPT !.crossed = @ \cup {d}]
         IN  /\ ProgSound(Q) /\ Q.op = P.op /\ Q.since = P.since /\ d \in Q.crossed
             /\ P.crossed \subseteq Q.crossed
             /\ \A c, half : Brought(Q, d, c, half)
             /\ \A e \in Dirs : \A c, half : Brought(P, e, c, half) => Brought(Q, e, c, half)
<1> DEFINE Q == [P EXCEPT !.crossed = @ \cup {d}]
<1>1. P \in Progs
  BY DEF ProgSound
<1>2. /\ Q \in Progs /\ Q.op = P.op /\ Q.known = P.known /\ Q.pin = P.pin /\ Q.stage = P.stage
      /\ Q.todo = P.todo /\ Q.loaded = P.loaded /\ Q.since = P.since
      /\ Q.crossed = P.crossed \cup {d}
  BY <1>1 DEF Progs
<1> HIDE DEF Q
<1>3. Listed(Q) /\ LoadedWhole(Q) /\ \A e \in Dirs : Wanted(Q, e)
  BY <1>2 DEF ProgSound, Listed, LoadedWhole, Wanted, Serves
<1>4. ProgSound(Q)
  BY <1>2, <1>3 DEF ProgSound
<1>5. \A c, half : Brought(Q, d, c, half)
  BY <1>2 DEF Brought
<1>6. \A e \in Dirs : \A c, half : Brought(P, e, c, half) => Brought(Q, e, c, half)
  BY <1>2 DEF Brought, Reached, Serves
<1> QED BY <1>2, <1>4, <1>5, <1>6 DEF Q

\* A program goes on to a stage of d that its pin allows.
LEMMA StageSound ==
  ASSUME NEW P, ProgSound(P), NEW d \in Dirs, NEW to \in Children \ {"none", "uninstall", "check"},
         P.pin[d] # Absent, P.op = "update" => P.pin[d] = Free, P.op # "idle",
         to = "checkout" => P.pin[d] # Free,
         d[1] \in NpmPackages => to \in NpmStages
  PROVE  LET Q == [P EXCEPT !.stage[d] = to]
         IN  /\ ProgSound(Q) /\ Q.op = P.op /\ Q.since = P.since /\ Q.crossed = P.crossed
             /\ Q.pin = P.pin /\ Q.stage = [P.stage EXCEPT ![d] = to] /\ Q.stage[d] = to
             /\ \A e \in Dirs \ {d} : \A c, half : Brought(P, e, c, half) => Brought(Q, e, c, half)
<1> DEFINE Q == [P EXCEPT !.stage[d] = to]
<1>1. P \in Progs
  BY DEF ProgSound
<1>2. P.stage \in [Dirs -> Children]
  BY <1>1 DEF Progs
<1>3. /\ Q \in Progs /\ Q.op = P.op /\ Q.known = P.known /\ Q.pin = P.pin
      /\ Q.stage = [P.stage EXCEPT ![d] = to]
      /\ Q.todo = P.todo /\ Q.loaded = P.loaded /\ Q.since = P.since /\ Q.crossed = P.crossed
  BY <1>1, <1>2 DEF Progs
<1>4. Q.stage[d] = to /\ \A e \in Dirs \ {d} : Q.stage[e] = P.stage[e]
  BY <1>2, <1>3
<1> HIDE DEF Q
<1>5. Listed(Q) /\ LoadedWhole(Q)
  BY <1>3 DEF ProgSound, Listed, LoadedWhole, Serves
<1>6. \A e \in Dirs \ {d} : Wanted(Q, e)
  BY <1>3, <1>4 DEF ProgSound, Wanted
<1>7. Wanted(Q, d)
  BY <1>3, <1>4 DEF ProgSound, Wanted
<1>8. ProgSound(Q)
  BY <1>3, <1>5, <1>6, <1>7 DEF ProgSound
<1>9. \A e \in Dirs \ {d} : \A c, half : Brought(P, e, c, half) => Brought(Q, e, c, half)
  BY <1>3, <1>4 DEF Brought, Reached, Serves
<1> QED BY <1>3, <1>4, <1>8, <1>9 DEF Q

\* The parts of the invariant that are about one program.
Keeps(x, p) ==
    /\ ProgSound(x[p])
    /\ \A s \in Packages : x[p].since[s] <= latest[s]
    /\ \A d \in Dirs : Brought(x[p], d, disk[d], d \in spoilt)

\* A child of p leaves content in d: enough that this is sound for p itself.
LEMMA LeavesSound ==
  ASSUME PackagesInv, NEW p \in Programs, NEW d \in Dirs, NEW to \in Children \ {"none", "uninstall", "check"},
         NEW found \in Content, NEW half \in BOOLEAN, Leaves(p, d, to, found, half),
         prog[p].stage[d] # "none", to = "checkout" => prog[p].pin[d] # Free,
         d[1] \in NpmPackages => to \in NpmStages,
         DirSound(found, half),
         Brought([prog[p] EXCEPT !.stage[d] = to], d, found, half)
  PROVE  PackagesInv'
<1>1. prog \in [Programs -> Progs] /\ PackagesData /\ ClonesCross(prog) /\ \A q \in Programs : Keeps(prog, q)
  BY DEF PackagesInv, Keeps
<1>2. /\ disk' = [disk EXCEPT ![d] = found] /\ latest' = latest /\ configured' = configured /\ used' = used
      /\ spoilt' = IF half THEN spoilt \cup {d} ELSE spoilt \ {d}
  BY DEF Leaves
<1>3. /\ disk' \in [Dirs -> Content] /\ disk'[d] = found /\ \A e \in Dirs \ {d} : disk'[e] = disk[e]
  BY <1>1, <1>2 DEF PackagesData
<1>4. /\ spoilt' \subseteq Dirs /\ (d \in spoilt' <=> half) /\ \A e \in Dirs \ {d} : e \in spoilt' <=> e \in spoilt
  BY <1>1, <1>2 DEF PackagesData
<1>5. PackagesData'
  <2>1. \A e \in Dirs : DirSound(disk'[e], e \in spoilt')
    <3> TAKE e \in Dirs
    <3>1. CASE e = d
      BY <3>1, <1>3, <1>4 DEF DirSound
    <3>2. CASE e # d
      BY <3>2, <1>1, <1>3, <1>4 DEF DirSound, PackagesData
    <3> QED BY <3>1, <3>2
  <2> QED BY <2>1, <1>1, <1>2, <1>3, <1>4 DEF PackagesData
<1>6. /\ prog'[p] = [prog[p] EXCEPT !.stage[d] = to]
      /\ \A q \in Programs \ {p} :
            prog'[q] = IF prog[q].op = "idle" THEN prog[q] ELSE [prog[q] EXCEPT !.crossed = @ \cup {d}]
  BY DEF Leaves
<1>7. ProgSound(prog[p])
  BY <1>1 DEF Keeps
<1>8. /\ ProgSound(prog'[p]) /\ prog'[p].op = prog[p].op /\ prog'[p].since = prog[p].since
      /\ prog'[p].crossed = prog[p].crossed
      /\ prog'[p].stage = [prog[p].stage EXCEPT ![d] = to]
      /\ \A e \in Dirs \ {d} : \A c, h : Brought(prog[p], e, c, h) => Brought(prog'[p], e, c, h)
  <2>1. prog[p].pin[d] # Absent /\ (prog[p].op = "update" => prog[p].pin[d] = Free) /\ prog[p].op # "idle"
    BY <1>7 DEF ProgSound, Wanted
  <2> QED BY <1>6, <1>7, <2>1, StageSound
<1>9. \A e \in Dirs : Brought(prog'[p], e, disk'[e], e \in spoilt')
  <2> TAKE e \in Dirs
  <2>1. CASE e = d
    <3>1. Brought(prog'[p], d, found, half)
      BY <1>6
    <3>2. disk'[e] = found /\ (e \in spoilt') = half
      BY <2>1, <1>3, <1>4
    <3> QED BY <2>1, <3>1, <3>2
  <2>2. CASE e # d
    <3>1. disk'[e] = disk[e] /\ (e \in spoilt') = (e \in spoilt)
      BY <2>2, <1>3, <1>4
    <3>2. Brought(prog[p], e, disk[e], e \in spoilt)
      BY <1>1 DEF Keeps
    <3>3. Brought(prog'[p], e, disk[e], e \in spoilt)
      BY <3>2, <2>2, <1>8
    <3> QED BY <3>1, <3>3
  <2> QED BY <2>1, <2>2
<1>10. ASSUME NEW q \in Programs \ {p}
       PROVE  /\ ProgSound(prog'[q]) /\ prog'[q].since = prog[q].since /\ prog'[q].op = prog[q].op
              /\ prog'[q].stage = prog[q].stage
              /\ prog[q].crossed \subseteq prog'[q].crossed
              /\ prog[q].op # "idle" => d \in prog'[q].crossed
              /\ \A e \in Dirs : Brought(prog'[q], e, disk'[e], e \in spoilt')
  <2>1. ProgSound(prog[q]) /\ prog[q] \in Progs /\ \A e \in Dirs : Brought(prog[q], e, disk[e], e \in spoilt)
    BY <1>1 DEF Keeps, ProgSound
  <2>2. ASSUME NEW e \in Dirs \ {d}
        PROVE  disk'[e] = disk[e] /\ (e \in spoilt') = (e \in spoilt)
    BY <1>3, <1>4
  <2>3. CASE prog[q].op = "idle"
    <3>1. prog'[q] = prog[q]
      BY <1>6, <2>3
    <3>2. Brought(prog[q], d, disk'[d], d \in spoilt')
      BY <2>3 DEF Brought
    <3> QED BY <2>1, <2>2, <2>3, <3>1, <3>2
  <2>4. CASE prog[q].op # "idle"
    <3>1. prog'[q] = [prog[q] EXCEPT !.crossed = @ \cup {d}]
      BY <1>6, <2>4
    <3>2. prog'[q].stage = prog[q].stage
      BY <2>1, <3>1 DEF Progs
    <3>3. /\ ProgSound(prog'[q]) /\ prog'[q].op = prog[q].op /\ prog'[q].since = prog[q].since /\ d \in prog'[q].crossed
          /\ prog[q].crossed \subseteq prog'[q].crossed
          /\ \A c, h : Brought(prog'[q], d, c, h)
          /\ \A e \in Dirs : \A c, h : Brought(prog[q], e, c, h) => Brought(prog'[q], e, c, h)
      BY <2>1, <3>1, CrossedSound
    <3> QED BY <2>1, <2>2, <3>2, <3>3
  <2> QED BY <2>3, <2>4
<1>11. prog' \in [Programs -> Progs]
  <2>1. \A q \in Programs : prog'[q] \in Progs
    BY <1>8, <1>10 DEF ProgSound
  <2>2. DOMAIN prog' = Programs /\ prog' = [q \in Programs |-> prog'[q]]
    BY DEF Leaves
  <2> QED BY <2>1, <2>2
<1>12. ClonesCross(prog')
  <2> SUFFICES ASSUME NEW q \in Programs, NEW r \in Programs \ {q}, NEW e \in Dirs,
                      prog'[r].stage[e] = "cloning", prog'[q].op # "idle"
               PROVE  e \in prog'[q].crossed
    BY DEF ClonesCross
  <2>1. prog[q].op # "idle"
    BY <1>8, <1>10
  <2>2. prog[q].crossed \subseteq prog'[q].crossed
    BY <1>8, <1>10
  <2>3. CASE prog[r].stage[e] = "cloning"
    BY <1>1, <2>1, <2>2, <2>3 DEF ClonesCross
  <2>4. CASE prog[r].stage[e] # "cloning"
    <3>1. r = p
      BY <2>4, <1>10
    <3>2. prog[p].stage \in [Dirs -> Children]
      BY <1>1 DEF Progs
    <3>3. e = d
      BY <2>4, <1>8, <3>1, <3>2
    <3> QED BY <1>10, <3>1, <3>3, <2>1
  <2> QED BY <2>3, <2>4
<1>13. \A q \in Programs : Keeps(prog, q)'
  <2> TAKE q \in Programs
  <2>1. ProgSound(prog'[q]) /\ prog'[q].since = prog[q].since
    BY <1>8, <1>10
  <2>2. \A s \in Packages : prog'[q].since[s] <= latest'[s]
    BY <2>1, <1>1, <1>2 DEF Keeps
  <2>3. \A e \in Dirs : Brought(prog'[q], e, disk'[e], e \in spoilt')
    BY <1>9, <1>10
  <2> QED BY <2>1, <2>2, <2>3 DEF Keeps
<1> QED BY <1>5, <1>11, <1>12, <1>13 DEF PackagesInv, Keeps

\* A program turns to P, and the directories stay as they are.
LEMMA TurnsSound ==
  ASSUME PackagesInv, NEW p \in Programs, NEW P, prog' = [prog EXCEPT ![p] = P],
         disk' = disk, latest' = latest, spoilt' = spoilt,
         configured' \in [Dirs -> Pins], used' \in 0 .. MaxOps,
         ProgSound(P), \A s \in Packages : P.since[s] <= latest[s],
         \A d \in Dirs : Brought(P, d, disk[d], d \in spoilt),
         \A d \in Dirs : P.stage[d] = "cloning" => prog[p].stage[d] = "cloning",
         P.op # "idle" => \A q \in Programs \ {p}, d \in Dirs :
                              prog[q].stage[d] = "cloning" => d \in P.crossed,
         P.op # "idle" => prog[p].op # "idle" \/ \A d \in Dirs : P.stage[d] # "cloning"
  PROVE  PackagesInv'
<1>1. prog \in [Programs -> Progs] /\ PackagesData /\ ClonesCross(prog) /\ \A q \in Programs : Keeps(prog, q)
  BY DEF PackagesInv, Keeps
<1>2. PackagesData'
  BY <1>1 DEF PackagesData
<1>3. P \in Progs
  BY DEF ProgSound
<1>4. prog' \in [Programs -> Progs] /\ prog'[p] = P /\ \A q \in Programs \ {p} : prog'[q] = prog[q]
  BY <1>1, <1>3
<1>5. \A q \in Programs : Keeps(prog, q)'
  <2> TAKE q \in Programs
  <2>1. CASE q = p
    BY <2>1, <1>4 DEF Keeps
  <2>2. CASE q # p
    <3>1. Keeps(prog, q) /\ prog'[q] = prog[q]
      BY <2>2, <1>1, <1>4
    <3> QED BY <3>1 DEF Keeps
  <2> QED BY <2>1, <2>2
<1>6. ClonesCross(prog')
  <2> SUFFICES ASSUME NEW q \in Programs, NEW r \in Programs \ {q}, NEW e \in Dirs,
                      prog'[r].stage[e] = "cloning", prog'[q].op # "idle"
               PROVE  e \in prog'[q].crossed
    BY DEF ClonesCross
  <2>1. CASE q = p
    BY <2>1, <1>4
  <2>2. CASE q # p
    <3>1. prog'[q] = prog[q] /\ prog[r].stage[e] = "cloning"
      BY <2>2, <1>4
    <3> QED BY <3>1, <1>1 DEF ClonesCross
  <2> QED BY <2>1, <2>2
<1> QED BY <1>2, <1>4, <1>5, <1>6 DEF PackagesInv, Keeps

LEMMA RestingSound ==
    /\ Resting \in Progs /\ ProgSound(Resting) /\ Resting.op = "idle"
    /\ \A d \in Dirs : Resting.stage[d] = "none" /\ Resting.pin[d] = Absent
    /\ \A s \in Packages : Resting.since[s] = 1
    /\ \A d : \A c, half : Brought(Resting, d, c, half)
<1>1. Resting \in Progs
  <2>1. NoPins \in [Dirs -> Pins] /\ NoDirs \in [Dirs -> Children] /\ [s \in Packages |-> 1] \in [Packages -> Versions]
    BY PackageNumbers DEF NoPins, NoDirs, Children
  <2> QED BY <2>1 DEF Resting, Progs, PackageOps
<1>2. Resting.op = "idle" /\ Resting.loaded = {}
  BY DEF Resting
<1>3. \A d \in Dirs : Resting.stage[d] = "none" /\ Resting.pin[d] = Absent
  BY DEF Resting, NoDirs, NoPins
<1>4. \A s \in Packages : Resting.since[s] = 1
  BY DEF Resting
<1>5. Listed(Resting) /\ LoadedWhole(Resting)
  BY <1>2 DEF Listed, LoadedWhole
<1>6. \A d \in Dirs : Wanted(Resting, d)
  BY <1>2, <1>3 DEF Wanted, NpmStages
<1>7. ProgSound(Resting)
  BY <1>1, <1>5, <1>6 DEF ProgSound
<1>8. \A d : \A c, half : Brought(Resting, d, c, half)
  BY <1>2 DEF Brought
<1> QED BY <1>1, <1>2, <1>3, <1>4, <1>7, <1>8

LEMMA RestsSound ==
  ASSUME PackagesInv, NEW p \in Programs, prog' = [prog EXCEPT ![p] = Resting],
         disk' = disk, latest' = latest, spoilt' = spoilt,
         configured' \in [Dirs -> Pins], used' = used
  PROVE  PackagesInv'
<1>1. latest \in [Packages -> Versions] /\ used \in 0 .. MaxOps
  BY DEF PackagesInv, PackagesData
<1>2. \A s \in Packages : Resting.since[s] <= latest[s]
  <2> TAKE s \in Packages
  <2>1. latest[s] \in Versions
    BY <1>1
  <2>2. 1 <= latest[s]
    BY <2>1, PackagesAssumption DEF Versions
  <2> QED BY <2>2, RestingSound
<1>3. \A d \in Dirs : Brought(Resting, d, disk[d], d \in spoilt)
  BY RestingSound
<1>4. \A d \in Dirs : Resting.stage[d] # "cloning"
  BY RestingSound
<1> QED BY <1>1, <1>2, <1>3, <1>4, RestingSound, TurnsSound

\* The others of an update go on when one of its children fails.
LEMMA FailedSound ==
  ASSUME NEW P, ProgSound(P), P.op \in {"update", "failed"}, NEW d \in Dirs
  PROVE  LET Q == [P EXCEPT !.op = "failed", !.stage[d] = "none"]
         IN  /\ ProgSound(Q) /\ Q.op = "failed" /\ Q.since = P.since /\ Q.crossed = P.crossed
             /\ \A e \in Dirs : Q.stage[e] = "cloning" => P.stage[e] = "cloning"
             /\ \A e : \A c, half : Brought(Q, e, c, half)
<1> DEFINE Q == [P EXCEPT !.op = "failed", !.stage[d] = "none"]
<1>1. P \in Progs
  BY DEF ProgSound
<1>2. P.stage \in [Dirs -> Children]
  BY <1>1 DEF Progs
<1>3. [P.stage EXCEPT ![d] = "none"] \in [Dirs -> Children]
  BY <1>2 DEF Children
<1>4. /\ Q \in Progs /\ Q.op = "failed" /\ Q.known = P.known /\ Q.pin = P.pin
      /\ Q.stage = [P.stage EXCEPT ![d] = "none"]
      /\ Q.todo = P.todo /\ Q.loaded = P.loaded /\ Q.since = P.since /\ Q.crossed = P.crossed
  BY <1>1, <1>3 DEF Progs, PackageOps
<1>5. Q.stage[d] = "none" /\ \A e \in Dirs \ {d} : Q.stage[e] = P.stage[e]
  BY <1>2, <1>4
<1> HIDE DEF Q
<1>6. Listed(Q) /\ LoadedWhole(Q)
  BY <1>4 DEF ProgSound, Listed, LoadedWhole, Serves
<1>7. \A e \in Dirs : Wanted(Q, e)
  BY <1>4, <1>5 DEF ProgSound, Wanted, NpmStages
<1>8. \A e : \A c, half : Brought(Q, e, c, half)
  BY <1>4 DEF Brought
<1>9. \A e \in Dirs : Q.stage[e] = "cloning" => P.stage[e] = "cloning"
  BY <1>5
<1>10. ProgSound(Q)
  BY <1>4, <1>6, <1>7 DEF ProgSound
<1> QED BY <1>4, <1>8, <1>9, <1>10 DEF Q

\* What a program still under way knows of those who clone.
LEMMA CrossedByClones ==
  ASSUME PackagesInv, NEW p \in Programs, prog[p].op # "idle"
  PROVE  \A q \in Programs \ {p}, d \in Dirs : prog[q].stage[d] = "cloning" => d \in prog[p].crossed
  BY DEF PackagesInv, ClonesCross

LEMMA FailsSound ==
  ASSUME PackagesInv, NEW p \in Programs, NEW d \in Dirs, Fails(p, d)
  PROVE  PackagesInv'
<1>1. /\ prog \in [Programs -> Progs] /\ ProgSound(prog[p])
      /\ \A s \in Packages : prog[p].since[s] <= latest[s]
      /\ configured \in [Dirs -> Pins] /\ used \in 0 .. MaxOps
  BY DEF PackagesInv, PackagesData
<1>2. configured' = configured /\ disk' = disk /\ latest' = latest /\ spoilt' = spoilt /\ used' = used
  BY DEF Fails, Untouched
<1>3. CASE prog[p].op \in {"update", "failed"}
  <2> DEFINE Q == [prog[p] EXCEPT !.op = "failed", !.stage[d] = "none"]
  <2>1. prog' = [prog EXCEPT ![p] = Q]
    BY <1>3 DEF Fails
  <2>2. /\ ProgSound(Q) /\ Q.op = "failed" /\ Q.since = prog[p].since /\ Q.crossed = prog[p].crossed
        /\ \A e \in Dirs : Q.stage[e] = "cloning" => prog[p].stage[e] = "cloning"
        /\ \A e : \A c, half : Brought(Q, e, c, half)
    BY <1>1, <1>3, FailedSound
  <2> HIDE DEF Q
  <2>3. prog[p].op # "idle"
    BY <1>3
  <2>4. \A q \in Programs \ {p}, e \in Dirs : prog[q].stage[e] = "cloning" => e \in Q.crossed
    BY <2>2, <2>3, CrossedByClones
  <2>5. \A s \in Packages : Q.since[s] <= latest[s]
    BY <1>1, <2>2
  <2>6. \A e \in Dirs : Brought(Q, e, disk[e], e \in spoilt)
    BY <2>2
  <2> QED BY <1>1, <1>2, <2>1, <2>2, <2>3, <2>4, <2>5, <2>6, TurnsSound
<1>4. CASE prog[p].op \notin {"update", "failed"}
  <2>1. prog' = [prog EXCEPT ![p] = Resting]
    BY <1>4 DEF Fails
  <2> QED BY <1>1, <1>2, <2>1, RestsSound
<1> QED BY <1>3, <1>4

\* git removes what it has cloned: the others under way are crossed there already.
LEMMA CloneFailsSound ==
  ASSUME PackagesInv, NEW p \in Programs, NEW d \in Dirs, CloneFails(p, d)
  PROVE  PackagesInv'
<1>1. prog \in [Programs -> Progs] /\ PackagesData /\ ClonesCross(prog) /\ \A q \in Programs : Keeps(prog, q)
  BY DEF PackagesInv, Keeps
<1>2. /\ prog[p].stage[d] = "cloning" /\ disk' = [disk EXCEPT ![d] = Bare] /\ spoilt' = spoilt \ {d}
      /\ configured' = configured /\ latest' = latest /\ used' = used
  BY DEF CloneFails
<1>3. Bare \in Content /\ DirSound(Bare, FALSE)
  BY PackagesAssumption DEF Bare, Content, DirSound
<1>4. disk' \in [Dirs -> Content] /\ disk'[d] = Bare /\ \A e \in Dirs \ {d} : disk'[e] = disk[e]
  BY <1>1, <1>2, <1>3 DEF PackagesData
<1>5. spoilt' \subseteq Dirs /\ ((d \in spoilt') = FALSE) /\ \A e \in Dirs \ {d} : (e \in spoilt') = (e \in spoilt)
  BY <1>1, <1>2 DEF PackagesData
<1>6. \A e \in Dirs : DirSound(disk'[e], e \in spoilt')
  <2> TAKE e \in Dirs
  <2>1. CASE e = d
    BY <2>1, <1>3, <1>4, <1>5
  <2>2. CASE e # d
    BY <2>2, <1>1, <1>4, <1>5 DEF PackagesData
  <2> QED BY <2>1, <2>2
<1>7. PackagesData'
  BY <1>1, <1>2, <1>4, <1>5, <1>6 DEF PackagesData
<1>8. PICK Q : /\ Q = IF prog[p].op \in {"update", "failed"}
                      THEN [prog[p] EXCEPT !.op = "failed", !.stage[d] = "none"] ELSE Resting
  OBVIOUS
<1>9. prog' = [prog EXCEPT ![p] = Q]
  BY <1>8 DEF CloneFails
<1>10. /\ ProgSound(Q) /\ \A e : \A c, half : Brought(Q, e, c, half)
       /\ Q.op # "idle" => Q.crossed = prog[p].crossed /\ prog[p].op # "idle"
       /\ \A e \in Dirs : Q.stage[e] = "cloning" => prog[p].stage[e] = "cloning"
       /\ \A s \in Packages : Q.since[s] <= latest[s]
  <2>1. CASE prog[p].op \in {"update", "failed"}
    <3>1. Q = [prog[p] EXCEPT !.op = "failed", !.stage[d] = "none"]
      BY <1>8, <2>1
    <3>2. ProgSound(prog[p]) /\ \A s \in Packages : prog[p].since[s] <= latest[s]
      BY <1>1 DEF Keeps
    <3>3. /\ ProgSound(Q) /\ Q.op = "failed" /\ Q.since = prog[p].since /\ Q.crossed = prog[p].crossed
          /\ \A e \in Dirs : Q.stage[e] = "cloning" => prog[p].stage[e] = "cloning"
          /\ \A e : \A c, half : Brought(Q, e, c, half)
      <4>1. ProgSound(prog[p]) /\ prog[p].op \in {"update", "failed"}
        BY <2>1, <3>2
      <4> DEFINE R == [prog[p] EXCEPT !.op = "failed", !.stage[d] = "none"]
      <4>3. /\ ProgSound(R) /\ R.op = "failed" /\ R.since = prog[p].since /\ R.crossed = prog[p].crossed
            /\ \A e \in Dirs : R.stage[e] = "cloning" => prog[p].stage[e] = "cloning"
            /\ \A e : \A c, half : Brought(R, e, c, half)
        BY <4>1, FailedSound
      <4> QED BY <3>1, <4>3
    <3> QED BY <2>1, <3>2, <3>3
  <2>2. CASE prog[p].op \notin {"update", "failed"}
    <3>1. Q = Resting
      BY <1>8, <2>2
    <3>2. \A s \in Packages : Resting.since[s] <= latest[s]
      <4> TAKE s \in Packages
      <4>1. latest[s] \in Versions
        BY <1>1 DEF PackagesData
      <4>2. 1 <= latest[s]
        BY <4>1, PackagesAssumption DEF Versions
      <4> QED BY <4>2, RestingSound
    <3>3. /\ ProgSound(Resting) /\ Resting.op = "idle" /\ (\A e : \A c, half : Brought(Resting, e, c, half))
          /\ \A e \in Dirs : Resting.stage[e] = "none"
      BY RestingSound
    <3> QED BY <3>1, <3>2, <3>3
  <2> QED BY <2>1, <2>2
<1>11. Q \in Progs
  BY <1>10 DEF ProgSound
<1>12. prog' \in [Programs -> Progs] /\ prog'[p] = Q /\ \A q \in Programs \ {p} : prog'[q] = prog[q]
  BY <1>1, <1>9, <1>11
<1>13. \A q \in Programs : Keeps(prog, q)'
  <2> TAKE q \in Programs
  <2>1. CASE q = p
    BY <2>1, <1>2, <1>10, <1>12 DEF Keeps
  <2>2. CASE q # p
    <3>1. prog'[q] = prog[q] /\ Keeps(prog, q)
      BY <2>2, <1>1, <1>12
    <3>2. ASSUME NEW e \in Dirs
          PROVE  Brought(prog[q], e, disk'[e], e \in spoilt')
      <4>1. CASE e = d
        <5>1. prog[q].op = "idle" \/ d \in prog[q].crossed
          BY <2>2, <1>1, <1>2 DEF ClonesCross
        <5> QED BY <4>1, <5>1 DEF Brought
      <4>2. CASE e # d
        <5>1. disk'[e] = disk[e] /\ (e \in spoilt') = (e \in spoilt)
          BY <4>2, <1>4, <1>5
        <5>2. Brought(prog[q], e, disk[e], e \in spoilt)
          BY <3>1 DEF Keeps
        <5> QED BY <5>1, <5>2
      <4> QED BY <4>1, <4>2
    <3>3. ProgSound(prog[q]) /\ \A s \in Packages : prog[q].since[s] <= latest[s]
      BY <3>1 DEF Keeps
    <3> QED BY <1>2, <3>1, <3>2, <3>3 DEF Keeps
  <2> QED BY <2>1, <2>2
<1>14. ClonesCross(prog')
  <2> SUFFICES ASSUME NEW q \in Programs, NEW r \in Programs \ {q}, NEW e \in Dirs,
                      prog'[r].stage[e] = "cloning", prog'[q].op # "idle"
               PROVE  e \in prog'[q].crossed
    BY DEF ClonesCross
  <2>1. prog[r].stage[e] = "cloning"
    BY <1>10, <1>12
  <2>2. prog[q].op # "idle" /\ prog'[q].crossed = prog[q].crossed
    BY <1>10, <1>12
  <2> QED BY <1>1, <2>1, <2>2 DEF ClonesCross
<1> QED BY <1>7, <1>12, <1>13, <1>14 DEF PackagesInv, Keeps

-----------------------------------------------------------------------------
(* Packages: the children                                                  *)

\* What the steps of a child of p in d find.
LEMMA ChildFinds ==
  ASSUME PackagesInv, NEW p \in Programs, NEW d \in Dirs
  PROVE  /\ prog[p] \in Progs /\ ProgSound(prog[p]) /\ Wanted(prog[p], d)
         /\ prog[p].stage \in [Dirs -> Children] /\ prog[p].pin[d] \in Pins
         /\ disk[d] \in Content /\ disk[d].exists \in BOOLEAN /\ disk[d].deps \in BOOLEAN
         /\ disk[d].at \in 0 .. MaxVersion /\ disk[d].head \in 0 .. MaxVersion
         /\ DirSound(disk[d], d \in spoilt) /\ Brought(prog[p], d, disk[d], d \in spoilt)
         /\ latest[d[1]] \in Versions /\ prog[p].since[d[1]] \in Versions
         /\ prog[p].since[d[1]] <= latest[d[1]]
<1>1. ProgSound(prog[p]) /\ (\A s \in Packages : prog[p].since[s] <= latest[s])
      /\ PackagesData /\ Brought(prog[p], d, disk[d], d \in spoilt)
  BY DEF PackagesInv
<1>2. prog[p] \in Progs /\ Wanted(prog[p], d)
  BY <1>1 DEF ProgSound
<1>3. d[1] \in Packages
  BY DirIsPair
<1>4. /\ prog[p].stage \in [Dirs -> Children] /\ prog[p].pin[d] \in Pins
      /\ prog[p].since[d[1]] \in Versions /\ prog[p].since[d[1]] <= latest[d[1]]
  BY <1>1, <1>2, <1>3 DEF Progs
<1>5. disk[d] \in Content /\ DirSound(disk[d], d \in spoilt) /\ latest[d[1]] \in Versions
  BY <1>1, <1>3 DEF PackagesData
<1>6. /\ disk[d].exists \in BOOLEAN /\ disk[d].deps \in BOOLEAN
      /\ disk[d].at \in 0 .. MaxVersion /\ disk[d].head \in 0 .. MaxVersion
  BY <1>5 DEF Content
<1> QED BY <1>1, <1>2, <1>4, <1>5, <1>6

\* What p is, once its child in d has turned to another stage.
LEMMA StageFields ==
  ASSUME NEW P \in Progs, NEW d \in Dirs, NEW to
  PROVE  LET Q == [P EXCEPT !.stage[d] = to]
         IN  Q.op = P.op /\ Q.since = P.since /\ Q.crossed = P.crossed /\ Q.pin = P.pin /\ Q.stage[d] = to
BY DEF Progs

LEMMA CloneBeginsSound ==
  ASSUME PackagesInv, NEW p \in Programs, NEW d \in Dirs, CloneBegins(p, d)
  PROVE  PackagesInv'
<1>1. CASE disk[d].exists
  BY <1>1, FailsSound DEF CloneBegins
<1>2. CASE ~disk[d].exists
  <2>1. Leaves(p, d, "cloning", Part, TRUE) /\ prog[p].stage[d] = "clone"
    BY <1>2 DEF CloneBegins
  <2>2. Part \in Content /\ DirSound(Part, TRUE)
    <3>1. Bare \in Content
      BY PackagesAssumption DEF Bare, Content
    <3>2. Part \in Content /\ Part.exists
      BY <3>1 DEF Part, Content
    <3> QED BY <3>2 DEF DirSound
  <2>3. ~(d[1] \in NpmPackages)
    BY <2>1, ChildFinds DEF Wanted, NpmStages
  <2>4. Brought([prog[p] EXCEPT !.stage[d] = "cloning"], d, Part, TRUE)
    BY ChildFinds, StageFields DEF Brought, Reached
  <2>5. "cloning" \in Children \ {"none", "uninstall", "check"}
    BY DEF Children
  <2> QED BY <2>1, <2>2, <2>3, <2>4, <2>5, LeavesSound
<1> QED BY <1>1, <1>2

LEMMA CloneEndsSound ==
  ASSUME PackagesInv, NEW p \in Programs, NEW d \in Dirs, CloneEnds(p, d)
  PROVE  PackagesInv'
<1>1. PICK v : v = latest[d[1]]
  OBVIOUS
<1>2. PICK to : to = IF prog[p].pin[d] = Free THEN "deps" ELSE "checkout"
  OBVIOUS
<1>3. prog[p].stage[d] = "cloning" /\ Leaves(p, d, to, Clone(v), TRUE)
  BY <1>1, <1>2 DEF CloneEnds
<1>4. v \in Versions /\ v \in 1 .. MaxVersion /\ v \in 0 .. MaxVersion /\ v # 0
  BY <1>1, ChildFinds, PackageNumbers DEF Versions
<1>5. /\ Clone(v) \in Content /\ Clone(v).at = v /\ Clone(v).head = v /\ Clone(v).exists
      /\ DirSound(Clone(v), TRUE)
  BY <1>4 DEF Clone, Part, Bare, Content, DirSound
<1>6. ~(d[1] \in NpmPackages)
  BY <1>3, ChildFinds DEF Wanted, NpmStages
<1>7. to \in Children \ {"none", "uninstall", "check"} /\ to \in {"deps", "checkout"} /\ (to = "checkout" => prog[p].pin[d] # Free)
  BY <1>2 DEF Children
<1>8. prog[p].since[d[1]] <= v
  BY <1>1, ChildFinds
<1>9. prog[p].since[d[1]] \in Nat /\ v \in Nat
  BY <1>4, ChildFinds, PackageNumbers
<1>10. Brought([prog[p] EXCEPT !.stage[d] = to], d, Clone(v), TRUE)
  <2>1. PICK Q : Q = [prog[p] EXCEPT !.stage[d] = to]
    OBVIOUS
  <2>2. Q.stage[d] = to /\ Q.since[d[1]] <= v /\ Q.since[d[1]] \in Nat
    BY <2>1, <1>8, <1>9, ChildFinds, StageFields
  <2>3. Reached(Q, d, Clone(v))
    BY <2>2, <1>5, <1>7, <1>9 DEF Reached
  <2> QED BY <2>1, <2>3 DEF Brought
<1> QED BY <1>3, <1>5, <1>6, <1>7, <1>10, LeavesSound

LEMMA CheckoutSound ==
  ASSUME PackagesInv, NEW p \in Programs, NEW d \in Dirs, Checkout(p, d)
  PROVE  PackagesInv'
<1>1. PICK c : c = [disk[d] EXCEPT !.at = prog[p].pin[d]]
  OBVIOUS
<1>2. prog[p].stage[d] = "checkout" /\ disk[d].at # 0 /\ Leaves(p, d, "deps", c, TRUE)
  BY <1>1 DEF Checkout
<1>3. prog[p].pin[d] # Free /\ prog[p].pin[d] # Absent /\ ~(d[1] \in NpmPackages) /\ prog[p].op # "update"
  BY <1>2, ChildFinds DEF Wanted, NpmStages
<1>4. prog[p].pin[d] \in 0 .. MaxVersion
  BY <1>3, ChildFinds, PackageNumbers DEF Pins
<1>5. c \in Content /\ c.exists = disk[d].exists
  BY <1>1, <1>4, ChildFinds DEF Content
<1>6. DirSound(c, TRUE)
  BY <1>2, <1>5, ChildFinds DEF DirSound
<1>7. Brought([prog[p] EXCEPT !.stage[d] = "deps"], d, c, TRUE)
  BY <1>3, ChildFinds, StageFields DEF Brought
<1>8. "deps" \in Children \ {"none", "uninstall", "check"}
  BY DEF Children
<1> QED BY <1>2, <1>3, <1>5, <1>6, <1>7, <1>8, LeavesSound

LEMMA InstallDepsSound ==
  ASSUME PackagesInv, NEW p \in Programs, NEW d \in Dirs, InstallDeps(p, d)
  PROVE  PackagesInv'
<1>1. PICK c : c = [disk[d] EXCEPT !.deps = TRUE]
  OBVIOUS
<1>2. PICK half : half = (disk[d].at = 0)
  OBVIOUS
<1>3. prog[p].stage[d] = "deps" /\ disk[d].exists /\ Leaves(p, d, "done", c, half)
  BY <1>1, <1>2 DEF InstallDeps
<1>4. ~(d[1] \in NpmPackages)
  BY <1>3, ChildFinds DEF Wanted, NpmStages
<1>5. c \in Content /\ c.exists /\ c.at = disk[d].at /\ c.deps
  BY <1>1, <1>3, ChildFinds DEF Content
<1>6. half \in BOOLEAN /\ DirSound(c, half)
  BY <1>2, <1>5 DEF DirSound
<1>7. Brought([prog[p] EXCEPT !.stage[d] = "done"], d, c, half)
  <2>1. PICK Q : Q = [prog[p] EXCEPT !.stage[d] = "done"]
    OBVIOUS
  <2>2. /\ Q.op = prog[p].op /\ Q.since = prog[p].since /\ Q.crossed = prog[p].crossed
        /\ Q.pin = prog[p].pin /\ Q.stage[d] = "done"
    BY <2>1, ChildFinds, StageFields
  <2>3. Brought(prog[p], d, disk[d], d \in spoilt)
    BY ChildFinds
  <2>4. SUFFICES ASSUME d \notin Q.crossed PROVE Brought(Q, d, c, half)
    BY <2>1 DEF Brought
  <2>5. Q.op = "update" => Reached(Q, d, c)
    BY <1>3, <1>5, <2>2, <2>3, <2>4 DEF Brought, Reached
  <2>6. ~half => Serves(Q, d, c)
    BY <1>2, <1>4, <1>5 DEF Serves
  <2> QED BY <2>5, <2>6, <1>5 DEF Brought
<1>8. "done" \in Children \ {"none", "uninstall", "check"}
  BY DEF Children
<1> QED BY <1>3, <1>4, <1>5, <1>6, <1>7, <1>8, LeavesSound

LEMMA GitFetchSound ==
  ASSUME PackagesInv, NEW p \in Programs, NEW d \in Dirs, GitFetch(p, d)
  PROVE  PackagesInv'
<1>1. PICK c : c = [disk[d] EXCEPT !.head = latest[d[1]]]
  OBVIOUS
<1>2. PICK to : to = IF c.at = c.head THEN "done" ELSE "reset"
  OBVIOUS
<1>3. PICK half : half = (d \in spoilt)
  OBVIOUS
<1>4. prog[p].stage[d] = "fetch" /\ disk[d].at # 0 /\ Leaves(p, d, to, c, half)
  BY <1>1, <1>2, <1>3 DEF GitFetch
<1>5. ~(d[1] \in NpmPackages)
  BY <1>4, ChildFinds DEF Wanted, NpmStages
<1>6. latest[d[1]] \in 0 .. MaxVersion
  BY ChildFinds, PackageNumbers
<1>7. /\ c \in Content /\ c.exists = disk[d].exists /\ c.at = disk[d].at /\ c.deps = disk[d].deps
      /\ c.head = latest[d[1]]
  BY <1>1, <1>6, ChildFinds DEF Content
<1>8. half \in BOOLEAN /\ DirSound(c, half)
  BY <1>3, <1>7, ChildFinds DEF DirSound
<1>9. to \in Children \ {"none", "uninstall", "check"} /\ to # "checkout" /\ to \in {"done", "reset"}
  BY <1>2 DEF Children
<1>10. Brought([prog[p] EXCEPT !.stage[d] = to], d, c, half)
  <2>1. PICK Q : Q = [prog[p] EXCEPT !.stage[d] = to]
    OBVIOUS
  <2>2. /\ Q.op = prog[p].op /\ Q.since = prog[p].since /\ Q.crossed = prog[p].crossed
        /\ Q.pin = prog[p].pin /\ Q.stage[d] = to
    BY <2>1, ChildFinds, StageFields
  <2>3. prog[p].since[d[1]] <= latest[d[1]]
    BY ChildFinds
  <2>4. to = "done" => c.at = latest[d[1]]
    BY <1>2, <1>7
  <2>5. Reached(Q, d, c)
    BY <1>7, <1>9, <2>2, <2>3, <2>4 DEF Reached
  <2>6. ~half => c.exists /\ c.at # 0 /\ c.deps
    BY <1>4, <1>7, <1>8 DEF DirSound
  <2>7. ~half => Serves(Q, d, c)
    BY <1>5, <2>6 DEF Serves
  <2> QED BY <2>1, <2>5, <2>6, <2>7 DEF Brought
<1> QED BY <1>4, <1>5, <1>7, <1>8, <1>9, <1>10, LeavesSound

LEMMA ResetSound ==
  ASSUME PackagesInv, NEW p \in Programs, NEW d \in Dirs, Reset(p, d)
  PROVE  PackagesInv'
<1>1. PICK c : c = [disk[d] EXCEPT !.at = disk[d].head]
  OBVIOUS
<1>2. prog[p].stage[d] = "reset" /\ disk[d].at # 0 /\ Leaves(p, d, "clean", c, TRUE)
  BY <1>1 DEF Reset
<1>3. ~(d[1] \in NpmPackages)
  BY <1>2, ChildFinds DEF Wanted, NpmStages
<1>4. c \in Content /\ c.exists = disk[d].exists /\ c.at = disk[d].head
  BY <1>1, ChildFinds DEF Content
<1>5. DirSound(c, TRUE)
  BY <1>2, <1>4, ChildFinds DEF DirSound
<1>6. Brought([prog[p] EXCEPT !.stage[d] = "clean"], d, c, TRUE)
  <2>1. PICK Q : Q = [prog[p] EXCEPT !.stage[d] = "clean"]
    OBVIOUS
  <2>2. /\ Q.op = prog[p].op /\ Q.since = prog[p].since /\ Q.crossed = prog[p].crossed
        /\ Q.stage[d] = "clean"
    BY <2>1, ChildFinds, StageFields
  <2>3. Brought(prog[p], d, disk[d], d \in spoilt)
    BY ChildFinds
  <2>4. d \in Q.crossed \/ (Q.op = "update" => Reached(Q, d, c))
    BY <1>2, <1>4, <2>2, <2>3 DEF Brought, Reached
  <2> QED BY <2>1, <2>4 DEF Brought
<1>7. "clean" \in Children \ {"none", "uninstall", "check"}
  BY DEF Children
<1> QED BY <1>2, <1>3, <1>4, <1>5, <1>6, <1>7, LeavesSound

LEMMA CleanSound ==
  ASSUME PackagesInv, NEW p \in Programs, NEW d \in Dirs, Clean(p, d)
  PROVE  PackagesInv'
<1>1. PICK c : c = [disk[d] EXCEPT !.deps = FALSE]
  OBVIOUS
<1>2. prog[p].stage[d] = "clean" /\ disk[d].at # 0 /\ Leaves(p, d, "deps", c, TRUE)
  BY <1>1 DEF Clean
<1>3. ~(d[1] \in NpmPackages)
  BY <1>2, ChildFinds DEF Wanted, NpmStages
<1>4. c \in Content /\ c.exists = disk[d].exists /\ c.at = disk[d].at
  BY <1>1, ChildFinds DEF Content
<1>5. DirSound(c, TRUE)
  BY <1>2, <1>4, ChildFinds DEF DirSound
<1>6. Brought([prog[p] EXCEPT !.stage[d] = "deps"], d, c, TRUE)
  <2>1. PICK Q : Q = [prog[p] EXCEPT !.stage[d] = "deps"]
    OBVIOUS
  <2>2. /\ Q.op = prog[p].op /\ Q.since = prog[p].since /\ Q.crossed = prog[p].crossed
        /\ Q.stage[d] = "deps"
    BY <2>1, ChildFinds, StageFields
  <2>3. Brought(prog[p], d, disk[d], d \in spoilt)
    BY ChildFinds
  <2>4. d \in Q.crossed \/ (Q.op = "update" => Reached(Q, d, c))
    BY <1>2, <1>4, <2>2, <2>3 DEF Brought, Reached
  <2> QED BY <2>1, <2>4 DEF Brought
<1>7. "deps" \in Children \ {"none", "uninstall", "check"}
  BY DEF Children
<1> QED BY <1>2, <1>3, <1>4, <1>5, <1>6, <1>7, LeavesSound

LEMMA WholeSound ==
  ASSUME NEW v \in Versions
  PROVE  /\ Whole(v) \in Content /\ Whole(v).at = v /\ Whole(v).exists /\ Whole(v).deps
         /\ DirSound(Whole(v), FALSE)
<1>1. v \in 0 .. MaxVersion /\ v # 0
  BY PackageNumbers
<1> QED BY <1>1 DEF Whole, Clone, Part, Bare, Content, DirSound

LEMMA NpmInstallSound ==
  ASSUME PackagesInv, NEW p \in Programs, NEW d \in Dirs, NpmInstall(p, d)
  PROVE  PackagesInv'
<1>1. PICK v : v = IF prog[p].pin[d] = Free THEN latest[d[1]] ELSE prog[p].pin[d]
  OBVIOUS
<1>2. prog[p].stage[d] = "npm" /\ Leaves(p, d, "done", Whole(v), FALSE)
  BY <1>1 DEF NpmInstall
<1>3. prog[p].pin[d] # Absent
  BY <1>2, ChildFinds DEF Wanted
<1>4. v \in Versions
  BY <1>1, <1>3, ChildFinds DEF Pins
<1>5. v \in 0 .. MaxVersion /\ v # 0 /\ v \in Nat
  BY <1>4, PackageNumbers
<1>6. /\ Whole(v) \in Content /\ Whole(v).at = v /\ Whole(v).exists /\ Whole(v).deps
      /\ DirSound(Whole(v), FALSE)
  BY <1>4, WholeSound
<1>7. Brought([prog[p] EXCEPT !.stage[d] = "done"], d, Whole(v), FALSE)
  <2>1. PICK Q : Q = [prog[p] EXCEPT !.stage[d] = "done"]
    OBVIOUS
  <2>2. /\ Q.op = prog[p].op /\ Q.since = prog[p].since /\ Q.pin = prog[p].pin /\ Q.stage[d] = "done"
    BY <2>1, ChildFinds, StageFields
  <2>3. prog[p].since[d[1]] <= latest[d[1]]
    BY ChildFinds
  <2>4. Q.op = "update" => v = latest[d[1]]
    BY <1>1, <1>2, <2>2, ChildFinds DEF Wanted
  <2>5. Q.op = "update" => Reached(Q, d, Whole(v))
    BY <1>6, <2>2, <2>3, <2>4 DEF Reached
  <2>6. Serves(Q, d, Whole(v))
    BY <1>1, <1>5, <1>6, <2>2 DEF Serves
  <2> QED BY <2>1, <2>5, <2>6, <1>6 DEF Brought
<1>8. "done" \in Children \ {"none", "uninstall", "check"} /\ "done" \in NpmStages
  BY DEF Children, NpmStages
<1> QED BY <1>2, <1>6, <1>7, <1>8, LeavesSound

LEMMA UninstallSound ==
  ASSUME PackagesInv, NEW p \in Programs, NEW d \in Dirs, Uninstall(p, d)
  PROVE  PackagesInv'
<1>1. prog[p].stage[d] = "uninstall" /\ Leaves(p, d, "done", Bare, FALSE)
  BY DEF Uninstall
<1>2. Bare \in Content /\ DirSound(Bare, FALSE)
  BY PackagesAssumption DEF Bare, Content, DirSound
<1>3. Brought([prog[p] EXCEPT !.stage[d] = "done"], d, Bare, FALSE)
  BY <1>1, ChildFinds, StageFields DEF Brought, Wanted
<1>4. "done" \in Children \ {"none", "uninstall", "check"} /\ "done" \in NpmStages
  BY DEF Children, NpmStages
<1> QED BY <1>1, <1>2, <1>3, <1>4, LeavesSound

\* A child of p that only looks lets p go on to another stage of d.
LEMMA ChildGoesOn ==
  ASSUME PackagesInv, NEW p \in Programs, NEW d \in Dirs, NEW to \in Children \ {"none", "uninstall", "check", "cloning"},
         prog' = [prog EXCEPT ![p].stage[d] = to], Untouched, prog[p].op # "idle",
         prog[p].pin[d] # Absent, prog[p].op = "update" => prog[p].pin[d] = Free,
         to = "checkout" => prog[p].pin[d] # Free,
         d[1] \in NpmPackages => to \in NpmStages,
         Brought([prog[p] EXCEPT !.stage[d] = to], d, disk[d], d \in spoilt)
  PROVE  PackagesInv'
<1> DEFINE Q == [prog[p] EXCEPT !.stage[d] = to]
<1>1. prog \in [Programs -> Progs] /\ Keeps(prog, p) /\ configured \in [Dirs -> Pins] /\ used \in 0 .. MaxOps
  BY DEF PackagesInv, PackagesData, Keeps
<1>2. ProgSound(prog[p]) /\ prog[p] \in Progs
  BY <1>1 DEF Keeps, ProgSound
<1>3. prog' = [prog EXCEPT ![p] = Q]
  BY <1>1
<1>4. /\ ProgSound(Q) /\ Q.op = prog[p].op /\ Q.since = prog[p].since /\ Q.crossed = prog[p].crossed
      /\ Q.pin = prog[p].pin /\ Q.stage = [prog[p].stage EXCEPT ![d] = to]
      /\ \A e \in Dirs \ {d} : \A c, half : Brought(prog[p], e, c, half) => Brought(Q, e, c, half)
  BY <1>2, StageSound
<1>5. Brought(Q, d, disk[d], d \in spoilt)
  OBVIOUS
<1> HIDE DEF Q
<1>6. prog[p].stage \in [Dirs -> Children]
  BY <1>2 DEF Progs
<1>7. \A e \in Dirs : Q.stage[e] = "cloning" => prog[p].stage[e] = "cloning"
  BY <1>4, <1>6
<1>8. \A e \in Dirs : Brought(Q, e, disk[e], e \in spoilt)
  BY <1>1, <1>4, <1>5 DEF Keeps
<1>9. \A s \in Packages : Q.since[s] <= latest[s]
  BY <1>1, <1>4 DEF Keeps
<1>10. \A q \in Programs \ {p}, e \in Dirs : prog[q].stage[e] = "cloning" => e \in Q.crossed
  BY <1>4, CrossedByClones
<1>11. /\ configured' \in [Dirs -> Pins] /\ used' \in 0 .. MaxOps
       /\ disk' = disk /\ latest' = latest /\ spoilt' = spoilt
  BY <1>1 DEF Untouched
<1> QED BY <1>3, <1>4, <1>7, <1>8, <1>9, <1>10, <1>11, TurnsSound

\* Who has a stage is under way.
LEMMA NotIdle ==
  ASSUME PackagesInv, NEW p \in Programs, NEW d \in Dirs, prog[p].stage[d] # "none"
  PROVE  /\ prog[p].pin[d] # Absent /\ prog[p].op # "idle"
         /\ prog[p].op = "update" => prog[p].pin[d] = Free
BY ChildFinds DEF Wanted

LEMMA UpdateGitSound ==
  ASSUME PackagesInv, NEW p \in Programs, NEW d \in Dirs, UpdateGit(p, d)
  PROVE  PackagesInv'
<1>1. PICK to : to = IF disk[d].exists THEN "fetch" ELSE "clone"
  OBVIOUS
<1>2. prog[p].stage[d] = "waits" /\ prog' = [prog EXCEPT ![p].stage[d] = to] /\ Untouched
  BY <1>1 DEF UpdateGit, Turns
<1>3. ~(d[1] \in NpmPackages)
  BY <1>2, ChildFinds DEF Wanted, NpmStages
<1>4. to \in {"fetch", "clone"}
  BY <1>1
<1>5. Brought([prog[p] EXCEPT !.stage[d] = to], d, disk[d], d \in spoilt)
  BY <1>4, ChildFinds, StageFields DEF Brought, Reached
<1>6. to \in Children \ {"none", "uninstall", "check", "cloning"} /\ to # "checkout"
  BY <1>4 DEF Children
<1> QED BY <1>2, <1>3, <1>5, <1>6, NotIdle, ChildGoesOn

LEMMA NpmCheckSound ==
  ASSUME PackagesInv, NEW p \in Programs, NEW d \in Dirs, NpmCheck(p, d)
  PROVE  PackagesInv'
<1>1. PICK to \in {"npm", "done"} :
        /\ prog' = [prog EXCEPT ![p].stage[d] = to]
        /\ to = "done" => disk[d].at = latest[d[1]]
  BY DEF NpmCheck, Turns
<1>2. prog[p].stage[d] = "check" /\ Untouched
  BY DEF NpmCheck
<1>3. Brought([prog[p] EXCEPT !.stage[d] = to], d, disk[d], d \in spoilt)
  <2>1. PICK Q : Q = [prog[p] EXCEPT !.stage[d] = to]
    OBVIOUS
  <2>2. /\ Q.op = prog[p].op /\ Q.since = prog[p].since /\ Q.pin = prog[p].pin /\ Q.stage[d] = to
    BY <2>1, ChildFinds, StageFields
  <2>3. prog[p].since[d[1]] <= latest[d[1]] /\ latest[d[1]] # 0
    BY ChildFinds, PackageNumbers
  <2>4. Reached(Q, d, disk[d])
    BY <1>1, <2>2, <2>3 DEF Reached
  <2>5. to = "done" /\ ~(d \in spoilt) => disk[d].deps
    BY <1>1, <2>3, ChildFinds DEF DirSound
  <2>6. prog[p].op # "resolve"
    BY <1>2, ChildFinds DEF Wanted
  <2> QED BY <2>1, <2>2, <2>4, <2>5, <2>6 DEF Brought
<1>4. to \in Children \ {"none", "uninstall", "check", "cloning"} /\ to # "checkout" /\ to \in NpmStages
  BY DEF Children, NpmStages
<1> QED BY <1>1, <1>2, <1>3, <1>4, NotIdle, ChildGoesOn

-----------------------------------------------------------------------------
(* Packages: the programs                                                  *)

\* A program reads the settings and begins with P, no child of which has run.
LEMMA BeginsSound ==
  ASSUME PackagesInv, NEW p \in Programs, NEW P \in Progs, Begins(p, P), P.loaded = {}, P.op # "runs",
         \A d \in Dirs : Wanted(P, d),
         \A d \in Dirs : P.stage[d] \in {"none", "clone", "npm", "check", "waits", "uninstall", "done"},
         P.op \in {"update", "resolve"} => \A d \in Dirs : P.stage[d] # "done",
         P.op = "resolve" => P.pin = configured /\ P.todo = Deduped(configured)
  PROVE  PackagesInv'
<1> DEFINE X == {d \in Dirs : Shared(p, d)}
           Q == [P EXCEPT !.known = configured, !.since = latest, !.crossed = X]
<1>1. /\ prog' = [prog EXCEPT ![p] = Q] /\ used < MaxOps /\ used' = used + 1 /\ prog[p].op = "idle"
      /\ configured' = configured /\ disk' = disk /\ latest' = latest /\ spoilt' = spoilt
  BY DEF Begins
<1>2. /\ configured \in [Dirs -> Pins] /\ latest \in [Packages -> Versions] /\ used \in 0 .. MaxOps
  BY DEF PackagesInv, PackagesData
<1>3. X \subseteq Dirs /\ \A d \in Dirs : Shared(p, d) => d \in X
  OBVIOUS
<1> HIDE DEF X
<1>4. /\ Q \in Progs /\ Q.op = P.op /\ Q.known = configured /\ Q.pin = P.pin /\ Q.stage = P.stage
      /\ Q.todo = P.todo /\ Q.loaded = P.loaded /\ Q.since = latest /\ Q.crossed = X
  BY <1>2, <1>3 DEF Progs
<1> HIDE DEF Q
<1>5. LoadedWhole(Q) /\ \A d \in Dirs : Wanted(Q, d)
  BY <1>4 DEF LoadedWhole, Wanted
<1>6. Listed(Q)
  BY <1>4 DEF Listed
<1>7. ProgSound(Q)
  BY <1>4, <1>5, <1>6 DEF ProgSound
<1>8. \A d \in Dirs : Brought(Q, d, disk[d], d \in spoilt)
  BY <1>4 DEF Brought, Reached
<1>9. \A s \in Packages : Q.since[s] <= latest[s]
  <2> TAKE s \in Packages
  <2>1. latest[s] \in Nat
    BY <1>2, PackageNumbers
  <2> QED BY <2>1, <1>4
<1>10. \A q \in Programs \ {p}, d \in Dirs : prog[q].stage[d] = "cloning" => d \in Q.crossed
  BY <1>3, <1>4 DEF Shared
<1>11. \A d \in Dirs : Q.stage[d] # "cloning"
  BY <1>4
<1>12. used' \in 0 .. MaxOps
  BY <1>1, <1>2, PackagesAssumption
<1> QED BY <1>1, <1>2, <1>7, <1>8, <1>9, <1>10, <1>11, <1>12, TurnsSound

LEMMA InstallSound ==
  ASSUME PackagesInv, NEW p \in Programs, NEW d \in Dirs, NEW pin \in Versions \cup {Free}, Install(p, d, pin)
  PROVE  PackagesInv'
<1>1. PICK pins : pins = Asked(d, pin)
  OBVIOUS
<1>2. PICK stage : stage = [NoDirs EXCEPT ![d] = InstallStage(d)]
  OBVIOUS
<1>3. PICK P : P = [Resting EXCEPT !.op = "install", !.pin = pins, !.stage = stage]
  OBVIOUS
<1>4. Begins(p, P)
  BY <1>1, <1>2, <1>3 DEF Install
<1>5. pin \in Pins /\ pin # Absent
  BY PackageNumbers DEF Pins
<1>6. NoPins \in [Dirs -> Pins] /\ (\A e \in Dirs : NoPins[e] = Absent) /\ NoDirs \in [Dirs -> Children]
      /\ (\A e \in Dirs : NoDirs[e] = "none")
  BY PackageNumbers DEF NoPins, NoDirs, Children
<1>7. pins \in [Dirs -> Pins] /\ pins[d] = pin
  BY <1>1, <1>5, <1>6 DEF Asked
<1>8. /\ InstallStage(d) \in {"npm", "done", "clone"}
      /\ d[1] \in NpmPackages => InstallStage(d) = "npm"
  BY DEF InstallStage
<1>9. InstallStage(d) \in Children
  BY <1>8 DEF Children
<1>10. stage \in [Dirs -> Children] /\ stage[d] = InstallStage(d) /\ \A e \in Dirs \ {d} : stage[e] = "none"
  BY <1>2, <1>6, <1>9
<1>11. P \in Progs /\ P.op = "install" /\ P.pin = pins /\ P.stage = stage /\ P.loaded = {}
  <2>1. Resting \in Progs /\ Resting.loaded = {} /\ "install" \in PackageOps
    BY RestingSound DEF Resting, PackageOps
  <2> QED BY <1>3, <1>7, <1>10, <2>1 DEF Progs
<1>12. \A e \in Dirs : P.stage[e] \in {"none", "clone", "npm", "check", "waits", "uninstall", "done"}
  BY <1>8, <1>10, <1>11
<1>13. \A e \in Dirs : Wanted(P, e)
  <2> TAKE e \in Dirs
  <2>1. CASE e = d
    BY <2>1, <1>5, <1>7, <1>8, <1>10, <1>11 DEF Wanted, NpmStages
  <2>2. CASE e # d
    BY <2>2, <1>10, <1>11 DEF Wanted, NpmStages
  <2> QED BY <2>1, <2>2
<1> QED BY <1>4, <1>11, <1>12, <1>13, BeginsSound

LEMMA RemoveSound ==
  ASSUME PackagesInv, NEW p \in Programs, NEW d \in Dirs, RemovePackage(p, d)
  PROVE  PackagesInv'
<1>1. PICK pins : pins = Asked(d, Free)
  OBVIOUS
<1>2. PICK stage : stage = [NoDirs EXCEPT ![d] = "uninstall"]
  OBVIOUS
<1>3. PICK P : P = [Resting EXCEPT !.op = "remove", !.pin = pins, !.stage = stage]
  OBVIOUS
<1>4. Begins(p, P)
  BY <1>1, <1>2, <1>3 DEF RemovePackage
<1>5. NoPins \in [Dirs -> Pins] /\ (\A e \in Dirs : NoPins[e] = Absent) /\ NoDirs \in [Dirs -> Children]
      /\ (\A e \in Dirs : NoDirs[e] = "none")
  BY PackageNumbers DEF NoPins, NoDirs, Children
<1>6. pins \in [Dirs -> Pins] /\ pins[d] = Free
  BY <1>1, <1>5, PackageNumbers DEF Asked
<1>7. stage \in [Dirs -> Children] /\ stage[d] = "uninstall" /\ \A e \in Dirs \ {d} : stage[e] = "none"
  BY <1>2, <1>5 DEF Children
<1>8. P \in Progs /\ P.op = "remove" /\ P.pin = pins /\ P.stage = stage /\ P.loaded = {}
  <2>1. Resting \in Progs /\ Resting.loaded = {} /\ "remove" \in PackageOps
    BY RestingSound DEF Resting, PackageOps
  <2> QED BY <1>3, <1>6, <1>7, <2>1 DEF Progs
<1>9. \A e \in Dirs : P.stage[e] \in {"none", "clone", "npm", "check", "waits", "uninstall", "done"}
  BY <1>7, <1>8
<1>10. \A e \in Dirs : Wanted(P, e)
  <2> TAKE e \in Dirs
  <2>1. CASE e = d
    BY <2>1, <1>6, <1>7, <1>8, PackageNumbers DEF Wanted, NpmStages
  <2>2. CASE e # d
    BY <2>2, <1>7, <1>8 DEF Wanted, NpmStages
  <2> QED BY <2>1, <2>2
<1> QED BY <1>4, <1>8, <1>9, <1>10, BeginsSound

LEMMA UpdateSound ==
  ASSUME PackagesInv, NEW p \in Programs, NEW S, Update(p, S)
  PROVE  PackagesInv'
<1>1. PICK U : U = UpdateTargets(S)
  OBVIOUS
<1>2. PICK pins : pins = [d \in Dirs |-> IF d \in U THEN Free ELSE Absent]
  OBVIOUS
<1>3. PICK stage : stage = [d \in Dirs |-> IF d \notin U THEN "none"
                                           ELSE IF d[1] \in NpmPackages THEN "check" ELSE "waits"]
  OBVIOUS
<1>4. PICK P : P = [Resting EXCEPT !.op = "update", !.pin = pins, !.stage = stage]
  OBVIOUS
<1>5. Begins(p, P)
  BY <1>1, <1>2, <1>3, <1>4 DEF Update
<1>6. pins \in [Dirs -> Pins] /\ stage \in [Dirs -> Children]
  BY <1>2, <1>3, PackageNumbers DEF Children
<1>7. P \in Progs /\ P.op = "update" /\ P.pin = pins /\ P.stage = stage /\ P.loaded = {}
  <2>1. Resting \in Progs /\ Resting.loaded = {} /\ "update" \in PackageOps
    BY RestingSound DEF Resting, PackageOps
  <2> QED BY <1>4, <1>6, <2>1 DEF Progs
<1>8. \A d \in Dirs : stage[d] \in {"none", "check", "waits"}
  BY <1>3
<1>9. \A d \in Dirs : Wanted(P, d)
  <2> TAKE d \in Dirs
  <2>1. CASE d \in U
    BY <2>1, <1>2, <1>3, <1>7, PackageNumbers DEF Wanted, NpmStages
  <2>2. CASE d \notin U
    BY <2>2, <1>2, <1>3, <1>7 DEF Wanted, NpmStages
  <2> QED BY <2>1, <2>2
<1> QED BY <1>5, <1>7, <1>8, <1>9, BeginsSound

LEMMA ResolveSound ==
  ASSUME PackagesInv, NEW p \in Programs, Resolve(p)
  PROVE  PackagesInv'
<1>1. PICK todo : todo = Deduped(configured)
  OBVIOUS
<1>2. PICK P : P = [Resting EXCEPT !.op = "resolve", !.todo = todo, !.pin = configured]
  OBVIOUS
<1>3. Begins(p, P)
  BY <1>1, <1>2 DEF Resolve
<1>4. todo \subseteq Dirs /\ configured \in [Dirs -> Pins]
  BY <1>1 DEF Deduped, PackagesInv, PackagesData
<1>5. /\ P \in Progs /\ P.op = "resolve" /\ P.pin = configured /\ P.stage = Resting.stage
      /\ P.todo = todo /\ P.loaded = {}
  <2>1. Resting \in Progs /\ Resting.loaded = {} /\ "resolve" \in PackageOps
    BY RestingSound DEF Resting, PackageOps
  <2> QED BY <1>2, <1>4, <2>1 DEF Progs
<1>6. \A d \in Dirs : P.stage[d] = "none"
  BY <1>5, RestingSound
<1>7. \A d \in Dirs : Wanted(P, d)
  BY <1>5, <1>6 DEF Wanted, NpmStages
<1> QED BY <1>1, <1>3, <1>5, <1>6, <1>7, BeginsSound

LEMMA EditSettingsSound ==
  ASSUME PackagesInv, NEW d \in Dirs, NEW pin \in Pins, EditSettings(d, pin)
  PROVE  PackagesInv'
<1>1. /\ configured' = [configured EXCEPT ![d] = pin] /\ used < MaxOps /\ used' = used + 1
      /\ disk' = disk /\ latest' = latest /\ prog' = prog /\ spoilt' = spoilt
  BY DEF EditSettings
<1>2. configured \in [Dirs -> Pins] /\ used \in 0 .. MaxOps
  BY DEF PackagesInv, PackagesData
<1>3. configured' \in [Dirs -> Pins]
  BY <1>1, <1>2
<1>4. used' \in 0 .. MaxOps
  BY <1>1, <1>2, PackagesAssumption
<1>5. PackagesData'
  BY <1>1, <1>3, <1>4 DEF PackagesInv, PackagesData
<1> QED BY <1>1, <1>5 DEF PackagesInv, ClonesCross

LEMMA PublishSound ==
  ASSUME PackagesInv, NEW s \in Packages, Publish(s)
  PROVE  PackagesInv'
<1>1. /\ latest' = [latest EXCEPT ![s] = @ + 1] /\ latest[s] < MaxVersion
      /\ configured' = configured /\ disk' = disk /\ prog' = prog /\ spoilt' = spoilt /\ used' = used
  BY DEF Publish
<1>2. latest \in [Packages -> Versions] /\ latest[s] \in 1 .. MaxVersion
  BY DEF PackagesInv, PackagesData, Versions
<1>3. latest[s] + 1 \in Versions
  BY <1>1, <1>2, PackagesAssumption DEF Versions
<1>4. latest' \in [Packages -> Versions]
  BY <1>1, <1>2, <1>3
<1>5. PackagesData'
  BY <1>1, <1>4 DEF PackagesInv, PackagesData
<1>6. ASSUME NEW p \in Programs, NEW t \in Packages
      PROVE  prog[p].since[t] <= latest'[t]
  <2>1. prog[p].since[t] <= latest[t] /\ latest[t] \in Nat /\ prog[p] \in Progs
    BY <1>2, PackageNumbers DEF PackagesInv, ProgSound
  <2>2. prog[p].since[t] \in Nat
    BY <2>1, PackageNumbers DEF Progs
  <2>3. latest'[t] = latest[t] \/ latest'[t] = latest[t] + 1
    BY <1>1, <1>2
  <2> QED BY <2>1, <2>2, <2>3
<1> QED BY <1>1, <1>5, <1>6 DEF PackagesInv, ClonesCross

LEMMA PersistSound ==
  ASSUME PackagesInv, NEW p \in Programs, Persist(p)
  PROVE  PackagesInv'
<1>2. /\ prog' = [prog EXCEPT ![p] = Resting] /\ disk' = disk /\ latest' = latest /\ spoilt' = spoilt /\ used' = used
  BY DEF Persist
<1>3. configured \in [Dirs -> Pins] /\ prog[p] \in Progs
  BY DEF PackagesInv, PackagesData
<1>4. prog[p].known \in [Dirs -> Pins] /\ prog[p].pin \in [Dirs -> Pins]
  BY <1>3 DEF Progs
<1>5. configured' \in [Dirs -> Pins]
  <2>1. PICK e \in Dirs :
          LET known == prog[p].known
              pin == IF prog[p].op = "remove" THEN Absent
                     ELSE IF known[e] # Absent THEN known[e] ELSE prog[p].pin[e]
          IN  configured' = IF known[e] = pin THEN configured
                            ELSE [x \in Dirs |-> IF x = e THEN pin
                                                 ELSE IF x[2] = e[2] THEN known[x] ELSE configured[x]]
    BY DEF Persist
  <2>2. PICK pin : pin = IF prog[p].op = "remove" THEN Absent
                         ELSE IF prog[p].known[e] # Absent THEN prog[p].known[e] ELSE prog[p].pin[e]
    OBVIOUS
  <2>3. pin \in Pins
    BY <2>2, <1>4, PackageNumbers
  <2>4. configured' = IF prog[p].known[e] = pin THEN configured
                      ELSE [x \in Dirs |-> IF x = e THEN pin
                                           ELSE IF x[2] = e[2] THEN prog[p].known[x] ELSE configured[x]]
    BY <2>1, <2>2
  <2> QED BY <2>3, <2>4, <1>3, <1>4
<1> QED BY <1>2, <1>5, RestsSound

LEMMA StopsSound ==
  ASSUME PackagesInv, NEW p \in Programs, prog' = [prog EXCEPT ![p] = Resting], Untouched
  PROVE  PackagesInv'
<1>1. configured \in [Dirs -> Pins]
  BY DEF PackagesInv, PackagesData
<1> QED BY <1>1, RestsSound DEF Untouched

\* A resolve that has nothing left to do has loaded what is listed.
LEMMA ResolveReturnsSound ==
  ASSUME PackagesInv, NEW p \in Programs, ResolveReturns(p)
  PROVE  PackagesInv'
<1> DEFINE Q == [prog[p] EXCEPT !.op = "runs"]
<1>1. prog \in [Programs -> Progs] /\ Keeps(prog, p) /\ configured \in [Dirs -> Pins] /\ used \in 0 .. MaxOps
  BY DEF PackagesInv, PackagesData, Keeps
<1>2. prog[p] \in Progs /\ ProgSound(prog[p])
  BY <1>1 DEF Keeps
<1>3. prog[p].op = "resolve" /\ prog[p].todo = {} /\ prog' = [prog EXCEPT ![p] = Q]
  BY <1>1 DEF ResolveReturns
<1>4. /\ Q \in Progs /\ Q.op = "runs" /\ Q.known = prog[p].known /\ Q.pin = prog[p].pin /\ Q.stage = prog[p].stage
      /\ Q.todo = prog[p].todo /\ Q.loaded = prog[p].loaded /\ Q.since = prog[p].since /\ Q.crossed = prog[p].crossed
  BY <1>2 DEF Progs, PackageOps
<1> HIDE DEF Q
<1>5. Listed(Q)
  BY <1>2, <1>3, <1>4 DEF ProgSound, Listed
<1>6. LoadedWhole(Q) /\ \A d \in Dirs : Wanted(Q, d)
  BY <1>2, <1>3, <1>4 DEF ProgSound, LoadedWhole, Serves, Wanted
<1>7. ProgSound(Q)
  BY <1>4, <1>5, <1>6 DEF ProgSound
<1>8. \A d \in Dirs : Brought(Q, d, disk[d], d \in spoilt)
  BY <1>4 DEF Brought
<1>9. \A s \in Packages : Q.since[s] <= latest[s]
  BY <1>1, <1>4 DEF Keeps
<1>10. \A q \in Programs \ {p}, d \in Dirs : prog[q].stage[d] = "cloning" => d \in Q.crossed
  BY <1>3, <1>4, CrossedByClones
<1>11. configured' = configured /\ disk' = disk /\ latest' = latest /\ spoilt' = spoilt /\ used' = used
  BY DEF ResolveReturns, Untouched
<1> QED BY <1>1, <1>3, <1>4, <1>7, <1>8, <1>9, <1>10, <1>11, TurnsSound

\* The next package is installed first.
LEMMA ResolveInstalls ==
  ASSUME PackagesInv, NEW p \in Programs, NEW d \in prog[p].todo, prog[p].op = "resolve",
         NeedsInstall(p, d), prog' = [prog EXCEPT ![p].stage[d] = InstallStage(d)], Untouched
  PROVE  PackagesInv'
<1>1. prog[p] \in Progs /\ Listed(prog[p])
  BY DEF PackagesInv, ProgSound
<1>2. d \in Dirs
  BY <1>1 DEF Progs
<1>3. d \in Deduped(prog[p].known) /\ prog[p].pin = prog[p].known
  BY <1>1, <1>2 DEF Listed
<1>4. prog[p].pin[d] # Absent
  BY <1>3 DEF Deduped
<1>5. /\ InstallStage(d) \in {"npm", "clone"}
      /\ d[1] \in NpmPackages => InstallStage(d) = "npm"
  BY DEF InstallStage, NeedsInstall
<1>6. InstallStage(d) \in Children \ {"none", "uninstall", "check", "cloning"} /\ InstallStage(d) # "checkout"
  BY <1>5 DEF Children
<1>7. Brought([prog[p] EXCEPT !.stage[d] = InstallStage(d)], d, disk[d], d \in spoilt)
  BY <1>1, <1>2, <1>5, StageFields DEF Brought
<1> QED BY <1>2, <1>4, <1>5, <1>6, <1>7, ChildGoesOn DEF NpmStages

\* What is loaded next serves the program, unless that is doubtful.
LEMMA ServesNext ==
  ASSUME PackagesInv, NEW p \in Programs, NEW d \in Dirs, prog[p].op = "resolve", ~Busy(prog[p]),
         ~(prog[p].stage[d] = "none" /\ NeedsInstall(p, d)),
         d \notin spoilt, d \notin prog[p].crossed
  PROVE  Serves(prog[p], d, disk[d])
<1>1. CASE prog[p].stage[d] = "none"
  <2>1. disk[d].exists
    BY <1>1 DEF NeedsInstall
  <2>2. disk[d].at # 0 /\ disk[d].deps
    BY <2>1, ChildFinds DEF DirSound
  <2>3. d[1] \in NpmPackages /\ prog[p].pin[d] # Free => disk[d].at = prog[p].pin[d]
    BY <1>1 DEF NeedsInstall
  <2> QED BY <2>1, <2>2, <2>3 DEF Serves
<1>2. CASE prog[p].stage[d] # "none"
  <2>1. prog[p].stage[d] = "done"
    BY <1>2 DEF Busy
  <2> QED BY <2>1, ChildFinds DEF Brought
<1> QED BY <1>1, <1>2

LEMMA ResolveLoads ==
  ASSUME PackagesInv, NEW p \in Programs, NEW d \in Dirs, d \in prog[p].todo, prog[p].op = "resolve",
         NEW doubtful \in BOOLEAN, doubtful \/ Serves(prog[p], d, disk[d]),
         prog' = [prog EXCEPT ![p] = [prog[p] EXCEPT !.todo = @ \ {d}, !.stage[d] = "none",
                     !.loaded = @ \cup {[dir |-> d, is |-> disk[d], doubtful |-> doubtful]}]],
         Untouched
  PROVE  PackagesInv'
<1> DEFINE l == [dir |-> d, is |-> disk[d], doubtful |-> doubtful]
           Q == [prog[p] EXCEPT !.todo = @ \ {d}, !.stage[d] = "none", !.loaded = @ \cup {l}]
<1>1. Keeps(prog, p) /\ configured \in [Dirs -> Pins] /\ used \in 0 .. MaxOps /\ disk[d] \in Content
  BY DEF PackagesInv, PackagesData, Keeps
<1>2. prog[p] \in Progs /\ ProgSound(prog[p])
  BY <1>1 DEF Keeps, ProgSound
<1>3. prog[p].stage \in [Dirs -> Children] /\ prog[p].todo \subseteq Dirs /\ prog[p].loaded \subseteq Loadings
  BY <1>2 DEF Progs
<1>4. l \in Loadings /\ l.dir = d /\ l.is = disk[d] /\ l.doubtful = doubtful
  BY <1>1 DEF Loadings
<1>5. prog' = [prog EXCEPT ![p] = Q]
  OBVIOUS
<1> HIDE DEF l
<1>6. /\ Q.op = prog[p].op /\ Q.known = prog[p].known /\ Q.pin = prog[p].pin
      /\ Q.stage = [prog[p].stage EXCEPT ![d] = "none"]
      /\ Q.todo = prog[p].todo \ {d} /\ Q.loaded = prog[p].loaded \cup {l}
      /\ Q.since = prog[p].since /\ Q.crossed = prog[p].crossed
  BY <1>2 DEF Progs
<1>7. [prog[p].stage EXCEPT ![d] = "none"] \in [Dirs -> Children]
  BY <1>3 DEF Children
<1>8. Q \in Progs
  BY <1>2, <1>3, <1>4, <1>7 DEF Progs
<1> HIDE DEF Q
<1>9. Q.stage[d] = "none" /\ \A e \in Dirs \ {d} : Q.stage[e] = prog[p].stage[e]
  BY <1>3, <1>6
<1>10. \A e \in Dirs : Wanted(Q, e)
  <2> TAKE e \in Dirs
  <2>1. Wanted(prog[p], e)
    BY <1>2 DEF ProgSound
  <2>2. CASE e = d
    BY <2>2, <1>6, <1>9 DEF Wanted, NpmStages
  <2>3. CASE e # d
    BY <2>1, <2>3, <1>6, <1>9 DEF Wanted
  <2> QED BY <2>2, <2>3
<1>11. LoadedWhole(Q)
  <2>1. \A m \in prog[p].loaded : m.doubtful \/ Serves(prog[p], m.dir, m.is)
    BY <1>2 DEF ProgSound, LoadedWhole
  <2>2. \A m \in Q.loaded : m.doubtful \/ Serves(prog[p], m.dir, m.is)
    BY <2>1, <1>4, <1>6
  <2> QED BY <2>2, <1>6 DEF LoadedWhole, Serves
<1>12. Listed(Q)
  <2>1. /\ prog[p].pin = prog[p].known
        /\ \A e \in Dirs : e \in Deduped(prog[p].known)
                              <=> e \in prog[p].todo \/ \E m \in prog[p].loaded : m.dir = e
    BY <1>2 DEF ProgSound, Listed
  <2>2. ASSUME NEW e \in Dirs
        PROVE  e \in Deduped(prog[p].known) <=> e \in Q.todo \/ \E m \in Q.loaded : m.dir = e
    <3>1. CASE e = d
      BY <3>1, <2>1, <1>4, <1>6
    <3>2. CASE e # d
      BY <3>2, <2>1, <1>4, <1>6
    <3> QED BY <3>1, <3>2
  <2> QED BY <2>1, <2>2, <1>6 DEF Listed
<1>13. ProgSound(Q)
  BY <1>8, <1>10, <1>11, <1>12 DEF ProgSound
<1>14. \A e \in Dirs : Brought(Q, e, disk[e], e \in spoilt)
  <2> TAKE e \in Dirs
  <2>1. Brought(prog[p], e, disk[e], e \in spoilt)
    BY <1>1 DEF Keeps
  <2>2. CASE e = d
    BY <2>2, <1>6, <1>9 DEF Brought
  <2>3. CASE e # d
    BY <2>1, <2>3, <1>6, <1>9 DEF Brought, Serves
  <2> QED BY <2>2, <2>3
<1>15. \A s \in Packages : Q.since[s] <= latest[s]
  BY <1>1, <1>6 DEF Keeps
<1>16. \A q \in Programs \ {p}, e \in Dirs : prog[q].stage[e] = "cloning" => e \in Q.crossed
  BY <1>6, CrossedByClones
<1>17. \A e \in Dirs : Q.stage[e] = "cloning" => prog[p].stage[e] = "cloning"
  BY <1>9
<1>18. configured' \in [Dirs -> Pins] /\ disk' = disk /\ latest' = latest /\ spoilt' = spoilt /\ used' \in 0 .. MaxOps
  BY <1>1 DEF Untouched
<1> QED BY <1>5, <1>6, <1>13, <1>14, <1>15, <1>16, <1>17, <1>18, TurnsSound

LEMMA ResolveNextSound ==
  ASSUME PackagesInv, NEW p \in Programs, ResolveNext(p)
  PROVE  PackagesInv'
<1>1. PICK d \in prog[p].todo :
        /\ prog[p].op = "resolve" /\ ~Busy(prog[p]) /\ Untouched
        /\ IF prog[p].stage[d] = "none" /\ NeedsInstall(p, d)
           THEN prog' = [prog EXCEPT ![p].stage[d] = InstallStage(d)]
           ELSE prog' = [prog EXCEPT ![p].todo = @ \ {d}, ![p].stage[d] = "none",
                                ![p].loaded = @ \cup {[dir |-> d, is |-> disk[d],
                                       doubtful |-> \/ d \in spoilt \cup prog[p].crossed
                                                    \/ Shared(p, d)]}]
  BY DEF ResolveNext
<1>2. d \in Dirs /\ prog \in [Programs -> Progs]
  BY <1>1 DEF PackagesInv, Progs
<1>3. CASE prog[p].stage[d] = "none" /\ NeedsInstall(p, d)
  BY <1>1, <1>3, ResolveInstalls
<1>4. CASE ~(prog[p].stage[d] = "none" /\ NeedsInstall(p, d))
  <2>1. PICK doubtful \in BOOLEAN : doubtful = (d \in spoilt \cup prog[p].crossed \/ Shared(p, d))
    OBVIOUS
  <2>2. prog' = [prog EXCEPT ![p] = [prog[p] EXCEPT !.todo = @ \ {d}, !.stage[d] = "none",
                     !.loaded = @ \cup {[dir |-> d, is |-> disk[d], doubtful |-> doubtful]}]]
    BY <1>1, <1>2, <1>4, <2>1
  <2>3. doubtful \/ Serves(prog[p], d, disk[d])
    BY <1>1, <1>2, <1>4, <2>1, ServesNext
  <2> QED BY <1>1, <1>2, <2>2, <2>3, ResolveLoads
<1> QED BY <1>3, <1>4

-----------------------------------------------------------------------------
(* Packages: the theorems                                                  *)

LEMMA PackagesInitSound == PackagesInit => PackagesInv
<1> SUFFICES ASSUME PackagesInit PROVE PackagesInv
  OBVIOUS
<1>1. PICK D \in SUBSET Dirs :
        /\ configured = [d \in Dirs |-> IF d \in D THEN 1 ELSE Absent]
        /\ disk = [d \in Dirs |-> IF d \in D THEN Whole(1) ELSE Bare]
  BY DEF PackagesInit
<1>2. latest = [s \in Packages |-> 1] /\ prog = [p \in Programs |-> Resting] /\ spoilt = {} /\ used = 0
  BY DEF PackagesInit
<1>3. Bare \in Content /\ DirSound(Bare, FALSE)
  BY PackagesAssumption DEF Bare, Content, DirSound
<1>4. Whole(1) \in Content /\ DirSound(Whole(1), FALSE)
  BY PackageNumbers, WholeSound
<1>5. \A d \in Dirs : disk[d] \in Content /\ DirSound(disk[d], d \in spoilt)
  <2> TAKE d \in Dirs
  <2>1. (d \in spoilt) = FALSE
    BY <1>2
  <2>2. disk[d] = Whole(1) \/ disk[d] = Bare
    BY <1>1
  <2> QED BY <2>1, <2>2, <1>3, <1>4
<1>6. configured \in [Dirs -> Pins]
  BY <1>1, PackageNumbers DEF Pins
<1>7. PackagesData
  BY <1>1, <1>2, <1>5, <1>6, PackageNumbers, PackagesAssumption DEF PackagesData
<1>8. prog \in [Programs -> Progs] /\ \A p \in Programs : prog[p] = Resting
  BY <1>2, RestingSound
<1>9. ClonesCross(prog)
  BY <1>8, RestingSound DEF ClonesCross
<1>10. \A s \in Packages : Resting.since[s] <= latest[s]
  BY <1>2, RestingSound
<1> QED BY <1>7, <1>8, <1>9, <1>10, RestingSound DEF PackagesInv

LEMMA PackagesSteps == PackagesInv /\ [PackagesNext]_packageVars => PackagesInv'
<1> SUFFICES ASSUME PackagesInv, [PackagesNext]_packageVars PROVE PackagesInv'
  OBVIOUS
<1>1. ASSUME NEW p \in Programs, NEW d \in Dirs, NEW pin \in Versions \cup {Free}, Install(p, d, pin)
      PROVE  PackagesInv'
  BY <1>1, InstallSound
<1>2. ASSUME NEW p \in Programs, NEW d \in Dirs,
             \/ RemovePackage(p, d)
             \/ CloneBegins(p, d) \/ CloneEnds(p, d) \/ CloneFails(p, d)
             \/ Checkout(p, d) \/ InstallDeps(p, d)
      PROVE  PackagesInv'
  BY <1>2, RemoveSound, CloneBeginsSound, CloneEndsSound, CloneFailsSound, CheckoutSound, InstallDepsSound
<1>3. ASSUME NEW p \in Programs, NEW d \in Dirs, ChildFails(p, d)
      PROVE  PackagesInv'
  BY <1>3, FailsSound DEF ChildFails
<1>4. ASSUME NEW p \in Programs, NEW d \in Dirs,
             \/ UpdateGit(p, d) \/ GitFetch(p, d) \/ Reset(p, d) \/ Clean(p, d)
             \/ NpmCheck(p, d) \/ NpmInstall(p, d) \/ Uninstall(p, d)
      PROVE  PackagesInv'
  BY <1>4, UpdateGitSound, GitFetchSound, ResetSound, CleanSound, NpmCheckSound, NpmInstallSound, UninstallSound
<1>5. ASSUME NEW p \in Programs, NEW S, Update(p, S)
      PROVE  PackagesInv'
  BY <1>5, UpdateSound
<1>6. ASSUME NEW p \in Programs, UpdateReturns(p) \/ Quits(p)
      PROVE  PackagesInv'
  BY <1>6, StopsSound DEF UpdateReturns, Quits
<1>7. ASSUME NEW p \in Programs, Resolve(p) \/ Persist(p) \/ ResolveNext(p) \/ ResolveReturns(p)
      PROVE  PackagesInv'
  BY <1>7, ResolveSound, PersistSound, ResolveNextSound, ResolveReturnsSound
<1>8. ASSUME NEW d \in Dirs, NEW pin \in Versions \cup {Free, Absent}, EditSettings(d, pin)
      PROVE  PackagesInv'
  BY <1>8, EditSettingsSound DEF Pins
<1>9. ASSUME NEW s \in Packages, Publish(s)
      PROVE  PackagesInv'
  BY <1>9, PublishSound
<1>10. CASE UNCHANGED packageVars
  BY <1>10 DEF packageVars, PackagesInv, PackagesData, ClonesCross
<1> QED BY <1>1, <1>2, <1>3, <1>4, <1>5, <1>6, <1>7, <1>8, <1>9, <1>10 DEF PackagesNext

\* Every command, every child that ends, fails or dies, and every edit of the
\* settings keeps the invariant.
THEOREM PackagesInvariant == PackagesSpec => []PackagesInv
  BY PackagesInitSound, PackagesSteps, PTL DEF PackagesSpec

LEMMA LoadsOnceHolds == PackagesInv => LoadsOnce
<1> SUFFICES ASSUME PackagesInv, NEW p \in Programs, prog[p].op = "runs"
             PROVE  LET listed == {d \in Dirs : prog[p].known[d] # Absent}
                    IN  /\ {l.dir : l \in prog[p].loaded} \subseteq listed
                        /\ \A d \in listed : \E l \in prog[p].loaded : l.dir[1] = d[1]
                        /\ \A l \in prog[p].loaded : \A d \in listed :
                               l.dir[1] = d[1] /\ l.dir # d => l.dir[2] = "project"
  BY DEF LoadsOnce
<1> DEFINE listed == {d \in Dirs : prog[p].known[d] # Absent}
<1>1. prog[p] \in Progs /\ Listed(prog[p])
  BY DEF PackagesInv, ProgSound
<1>2. prog[p].todo = {} /\ \A l \in prog[p].loaded : l.dir \in Dirs
  BY <1>1 DEF Listed, Progs, Loadings
<1>3. \A d \in Dirs : d \in Deduped(prog[p].known) <=> \E l \in prog[p].loaded : l.dir = d
  BY <1>1, <1>2 DEF Listed
<1>4. \A d \in Dirs : d \in Deduped(prog[p].known)
                         <=> d \in listed /\ (d[2] = "user" => <<d[1], "project">> \notin listed)
  BY DEF Deduped
<1>5. {l.dir : l \in prog[p].loaded} \subseteq listed
  <2> SUFFICES ASSUME NEW l \in prog[p].loaded PROVE l.dir \in listed
    OBVIOUS
  <2>1. PICK e \in Dirs : e = l.dir
    BY <1>2
  <2>2. e \in Deduped(prog[p].known)
    BY <1>3, <2>1
  <2> QED BY <2>1, <2>2, <1>4
<1>6. ASSUME NEW d \in listed PROVE \E l \in prog[p].loaded : l.dir[1] = d[1]
  <2>1. CASE d \in Deduped(prog[p].known)
    BY <2>1, <1>3
  <2>2. CASE d \notin Deduped(prog[p].known)
    <3>1. PICK e : e = <<d[1], "project">>
      OBVIOUS
    <3>2. e \in listed /\ e[1] = d[1] /\ e[2] = "project"
      BY <2>2, <3>1, <1>4
    <3>3. e \in Deduped(prog[p].known)
      BY <3>2, <1>4
    <3> QED BY <3>2, <3>3, <1>3
  <2> QED BY <2>1, <2>2
<1>7. ASSUME NEW l \in prog[p].loaded, NEW d \in listed, l.dir[1] = d[1], l.dir # d
      PROVE  l.dir[2] = "project"
  <2>1. l.dir \in Dirs /\ l.dir \in Deduped(prog[p].known) /\ d \in Dirs
    BY <1>2, <1>3
  <2>2. PICK e : e = l.dir
    OBVIOUS
  <2>3. /\ e = <<e[1], e[2]>> /\ e[2] \in {"user", "project"}
        /\ d = <<d[1], d[2]>> /\ d[2] \in {"user", "project"}
    BY <2>1, <2>2, DirIsPair
  <2>4. SUFFICES ASSUME e[2] = "user" PROVE FALSE
    BY <2>2, <2>3
  <2>5. d = <<e[1], "project">>
    BY <1>7, <2>2, <2>3, <2>4
  <2> QED BY <2>1, <2>2, <2>4, <2>5, <1>4
<1> HIDE DEF listed
<1> QED BY <1>5, <1>6, <1>7 DEF listed

LEMMA UpdateBringsHolds == PackagesInv => UpdateBrings
<1> SUFFICES ASSUME PackagesInv, NEW p \in Programs, prog[p].op = "update", ~Busy(prog[p]),
                    NEW d \in Dirs, prog[p].pin[d] # Absent
             PROVE  \/ d \in spoilt \cup prog[p].crossed
                    \/ disk[d].deps /\ disk[d].at >= prog[p].since[d[1]]
  BY DEF UpdateBrings
<1>1. Wanted(prog[p], d) /\ Brought(prog[p], d, disk[d], d \in spoilt)
  BY ChildFinds
<1>2. prog[p].stage[d] = "done"
  BY <1>1 DEF Wanted, Busy
<1> QED BY <1>1, <1>2 DEF Brought, Reached

\* Packages are loaded and updated as the settings say (resolvePackageSources,
\* dedupePackages, updateGit, installNpm), whatever commands, programs and failing
\* or killed children meet in the directories: a package that is loaded is whole and
\* at its version, each listed one is loaded once, and an update that succeeds
\* leaves nothing older than it found published; but for what was left half done.
THEOREM PackagesAlwaysKept == PackagesSpec => []PackagesKept
<1>1. PackagesInv => PackagesKept
  <2>1. PackagesInv => LoadsWhole
    BY DEF PackagesInv, ProgSound, LoadedWhole, LoadsWhole, Serves
  <2> QED BY <2>1, LoadsOnceHolds, UpdateBringsHolds DEF PackagesKept
<1> QED BY <1>1, PackagesInvariant, PTL
=============================================================================
