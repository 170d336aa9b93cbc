---------------------------- MODULE AuthStorage ----------------------------
(***************************************************************************)
(* AuthStorage (src/core/auth-storage.ts): auth.json, shared by instances   *)
(* of the program under a file lock, and the copy each keeps in memory.     *)
(* An instance refreshes an expired OAuth token under the lock, which it    *)
(* holds across a network call; every other access takes the lock, works    *)
(* and releases it without a pause, retrying for 200 ms.  The lock is that   *)
(* of proper-lockfile: a directory that its holder touches every 15 s, and   *)
(* whoever wants it removes if it looks stale.                               *)
(*                                                                         *)
(* A credential is a number, 0 for none; each login and each refresh issues *)
(* a new one, and the identity provider accepts a refresh token once.  Left *)
(* out: API keys (credentials that never expire), environment variables and *)
(* fallbacks, a death in the middle of a write.                             *)
(***************************************************************************)
EXTENDS Naturals

CONSTANTS
    Instances, Nobody,
    Providers,
    MaxIssued,      \* bound on the credentials issued
    MaxMishaps      \* bound on the logouts, failed requests, deaths and stale locks, together

ASSUME AuthAssumption ==
    Nobody \notin Instances /\ Providers # {} /\ {MaxIssued, MaxMishaps} \subseteq Nat

VARIABLES
    authFile,   \* auth.json
    authLock,   \* the instance that holds its lock
    inst,       \* the instances
    issued, expired,    \* credentials issued so far, and those past their time
    spent,      \* history: how often each credential has been sent for a refresh
    lost,       \* history: credentials whose refresh was answered to nobody or done
                \* without the lock, and those written back without it
    mishaps     \* how many of them there were

authVars == <<authFile, authLock, inst, issued, expired, spent, lost, mishaps>>

Credentials == 0 .. MaxIssued

Instance ==
    [up : BOOLEAN, data : [Providers -> Credentials], loadError : BOOLEAN,
     job : {"none", "waiting", "fetching", "answered"},     \* of refreshOAuthTokenWithLock
     provider : Providers \cup {Nobody}, current : [Providers -> Credentials],    \* what it read under the lock
     fresh : Credentials,                                           \* what the provider answered
     listed : BOOLEAN,          \* the lock library's table has the lock it took
     compromised : BOOLEAN,     \* it was told that it lost the lock
     robbed : BOOLEAN]          \* history: the lock was removed, or the file written under it

Down == [up |-> FALSE, data |-> [o \in Providers |-> 0], loadError |-> FALSE, job |-> "none",
         provider |-> Nobody, current |-> [o \in Providers |-> 0],
         fresh |-> 0, listed |-> FALSE, compromised |-> FALSE, robbed |-> FALSE]

Expired(v) == v \in expired

Mishap == mishaps < MaxMishaps /\ mishaps' = mishaps + 1

\* reload(): the lock is free, or not to be had in the 200 ms.  To lock and unlock
\* takes a lock of this process out of the library's table.
Reloaded(I) == [I EXCEPT !.data = authFile, !.loadError = FALSE, !.listed = FALSE]
NotReloaded(I) == [I EXCEPT !.loadError = TRUE]
Reload(I) == IF authLock = Nobody THEN Reloaded(I) ELSE NotReloaded(I)

JobDone(I) == [I EXCEPT !.job = "none", !.current = Down.current, !.provider = Nobody, !.fresh = 0,
                        !.listed = FALSE, !.compromised = FALSE, !.robbed = FALSE]

\* The one that refreshes a token under the lock, if any.
Holder == {j \in Instances : authLock = j /\ inst[j].job \in {"fetching", "answered"}}

\* The credential that instance i sends to be refreshed.
Sent(i) == inst[i].current[inst[i].provider]
SentBy(I) == {Sent(j) : j \in I}

Rob(insts, victims) == [j \in Instances |-> [insts[j] EXCEPT !.robbed = @ \/ j \in victims]]

Merged(i, current, o, v) == [current EXCEPT ![o] = v]

-----------------------------------------------------------------------------
(* Instances                                                               *)

\* The constructor reloads; so do refreshes of the model list, at any time.
StartOrReload(i) ==
    /\ inst' = [inst EXCEPT ![i] = Reload([@ EXCEPT !.up = TRUE])]
    /\ UNCHANGED <<authFile, authLock, issued, expired, spent, lost, mishaps>>

\* set() after a login, remove() after a logout: the lock is free, or not to be had.
Change(i, o, v) ==
    /\ inst[i].up
    /\ IF ~inst[i].loadError /\ authLock = Nobody
       THEN /\ inst' = [inst EXCEPT ![i].data[o] = v, ![i].listed = FALSE]
            /\ authFile' = Merged(i, authFile, o, v)
       ELSE /\ inst' = [inst EXCEPT ![i].data[o] = v]
            /\ UNCHANGED authFile
    /\ UNCHANGED <<authLock, expired, spent, lost>>

Login(i, o) ==
    /\ issued < MaxIssued /\ issued' = issued + 1
    /\ Change(i, o, issued + 1)
    /\ UNCHANGED mishaps

Logout(i, o) ==
    /\ inst[i].data[o] # 0 /\ Mishap
    /\ Change(i, o, 0)
    /\ UNCHANGED issued

\* getApiKey() with an expired token in memory.
NeedKey(i, o) ==
    /\ inst[i].up /\ inst[i].job = "none" /\ Expired(inst[i].data[o])
    /\ inst' = [inst EXCEPT ![i].job = "waiting", ![i].provider = o]
    /\ UNCHANGED <<authFile, authLock, issued, expired, spent, lost, mishaps>>

\* Under the lock the file is read anew: the token may be gone or refreshed by now.
\* Bug: the token known from before is sent.
StillExpiredBefore(i) == TRUE
StillExpired(i) == Expired(authFile[inst[i].provider])

Fetch(i) ==
    /\ inst[i].job = "waiting" /\ authLock = Nobody
    /\ LET read == [Reloaded(inst[i]) EXCEPT !.current = authFile]
       IN  IF StillExpired(i)
           THEN /\ authLock' = i
                /\ inst' = [inst EXCEPT ![i] = [read EXCEPT !.job = "fetching", !.listed = TRUE]]
           ELSE inst' = [inst EXCEPT ![i] = JobDone(read)] /\ UNCHANGED authLock
    /\ UNCHANGED <<authFile, issued, expired, spent, lost, mishaps>>

\* lockfile.lock gives up after its retries: reload, and use what another has stored.
LockDenied(i) ==
    /\ inst[i].job = "waiting" /\ authLock # Nobody
    /\ inst' = [inst EXCEPT ![i] = JobDone(Reload(inst[i]))]
    /\ UNCHANGED <<authFile, authLock, issued, expired, spent, lost, mishaps>>

\* The request reaches the identity provider; a token used before is refused.
Answer(i) ==
    /\ inst[i].job = "fetching" /\ (spent[Sent(i)] = 0 => issued < MaxIssued)
    /\ spent' = [spent EXCEPT ![Sent(i)] = IF @ < 2 THEN @ + 1 ELSE @]
    /\ IF spent[Sent(i)] = 0
       THEN /\ issued' = issued + 1
            /\ inst' = [inst EXCEPT ![i].job = "answered", ![i].fresh = issued + 1]
       ELSE /\ inst' = [inst EXCEPT ![i].job = "answered"]
            /\ UNCHANGED issued
    /\ UNCHANGED <<authFile, authLock, expired, lost, mishaps>>

\* What an instance that lost the request, or its answer, makes of it.
FetchFails(i) ==
    /\ inst[i].job = "fetching" /\ Mishap
    /\ inst' = [inst EXCEPT ![i].job = "answered"]
    /\ \/ UNCHANGED <<spent, lost>>
       \/ /\ spent' = [spent EXCEPT ![Sent(i)] = IF @ < 2 THEN @ + 1 ELSE @]
          /\ lost' = lost \cup {Sent(i)}
    /\ UNCHANGED <<authFile, authLock, issued, expired>>

\* An owner that does not know it lost the lock removes that of the next.
ReleaseBy(i) == authLock' = IF inst[i].listed THEN Nobody ELSE authLock

\* The answer arrives: memory, then the file, unless the lock is known to be lost.
Store(i) ==
    /\ inst[i].job = "answered" /\ inst[i].fresh # 0 /\ ~inst[i].compromised
    /\ LET merged == Merged(i, inst[i].current, inst[i].provider, inst[i].fresh)
           stored == [JobDone(inst[i]) EXCEPT !.data = merged, !.loadError = FALSE]
           stale == IF inst[i].robbed THEN {inst[i].current[o] : o \in Providers} \ {0} ELSE {}
       IN  /\ authFile' = merged
           /\ inst' = Rob([inst EXCEPT ![i] = stored], Holder \ {i})
           /\ lost' = lost \cup SentBy(Holder \ {i}) \cup stale
    /\ ReleaseBy(i)
    /\ UNCHANGED <<issued, expired, spent, mishaps>>

\* The request failed, or the lock was lost meanwhile: release, then reload.
GiveUp(i) ==
    /\ inst[i].job = "answered" /\ (inst[i].fresh = 0 \/ inst[i].compromised)
    /\ ReleaseBy(i)
    /\ LET known == IF inst[i].fresh = 0 THEN inst[i]
                    ELSE [inst[i] EXCEPT !.loadError = FALSE,
                             !.data = Merged(i, inst[i].current, inst[i].provider, inst[i].fresh)]
           after == JobDone(IF authLock' = Nobody THEN Reloaded(known) ELSE NotReloaded(known))
           victims == IF inst[i].listed THEN Holder \ {i} ELSE {}
       IN  /\ inst' = Rob([inst EXCEPT ![i] = after], victims)
           /\ lost' = lost \cup SentBy(victims) \cup (IF inst[i].fresh # 0 THEN {Sent(i)} ELSE {})
    /\ UNCHANGED <<authFile, issued, expired, spent, mishaps>>

-----------------------------------------------------------------------------
(* Time, deaths, stale locks                                               *)

\* (Bound: not the last two, so that a login can come between a refresh and its end.)
Expire(v) ==
    /\ v \in 1 .. issued /\ v + 1 < MaxIssued /\ v \notin expired
    /\ expired' = expired \cup {v}
    /\ UNCHANGED <<authFile, authLock, inst, issued, spent, lost, mishaps>>

\* The instance dies; a lock it holds is found stale later.
InstanceDies(i) ==
    /\ inst[i].up /\ Mishap
    /\ inst' = [inst EXCEPT ![i] = Down]
    /\ lost' = IF inst[i].job = "answered" THEN lost \cup {Sent(i)} ELSE lost
    /\ UNCHANGED <<authFile, authLock, issued, expired, spent>>

\* Whoever wants the lock removes one that looks stale.  To a synchronous access it
\* does after 10 s (the library's default), and its holder touches it every 15 s: any
\* refresh of more than 10 s can lose its lock.  To another refresh it does after 30 s,
\* when the holder is dead or its machine asleep.
LockGoesStale ==
    /\ authLock # Nobody /\ authLock' = Nobody /\ Mishap
    /\ inst' = Rob(inst, Holder) /\ lost' = lost \cup SentBy(Holder)
    /\ UNCHANGED <<authFile, issued, expired, spent>>

\* onCompromised: the owner learns of it when it touches the lock next.
Compromised(i) ==
    /\ inst[i].job \in {"fetching", "answered"} /\ authLock # i /\ ~inst[i].compromised
    /\ inst' = [inst EXCEPT ![i].compromised = TRUE, ![i].listed = FALSE]
    /\ UNCHANGED <<authFile, authLock, issued, expired, spent, lost, mishaps>>

AuthInit ==
    /\ authFile = [o \in Providers |-> 0] /\ authLock = Nobody
    /\ inst = [i \in Instances |-> Down]
    /\ issued = 0 /\ expired = {} /\ lost = {} /\ mishaps = 0
    /\ spent = [v \in Credentials |-> 0]

AuthNext ==
    \/ \E i \in Instances :
           \/ StartOrReload(i) \/ Fetch(i) \/ LockDenied(i) \/ Answer(i) \/ FetchFails(i) \/ Store(i) \/ GiveUp(i)
           \/ InstanceDies(i) \/ Compromised(i)
           \/ \E o \in Providers : Login(i, o) \/ Logout(i, o) \/ NeedKey(i, o)
    \/ \E v \in Credentials : Expire(v)
    \/ LockGoesStale

AuthSpec == AuthInit /\ [][AuthNext]_authVars

-----------------------------------------------------------------------------
(* Properties                                                              *)

AuthTypeOK ==
    /\ authFile \in [Providers -> Credentials] /\ authLock \in Instances \cup {Nobody}
    /\ inst \in [Instances -> Instance]
    /\ issued \in Credentials /\ expired \subseteq 1 .. issued /\ lost \subseteq 1 .. issued
    /\ spent \in [Credentials -> 0 .. 2] /\ mishaps \in 0 .. MaxMishaps

\* Instances whose tokens expire together send each refresh token once; a second
\* time only if the answer was lost, or one of them was robbed of its lock.
RefreshedOnce == \A v \in Credentials : spent[v] > 1 => v \in lost

\* The answer of an instance that lost its lock and has not been told.
StoredUnaware == \E i \in Instances :
    /\ inst[i].robbed /\ ~inst[i].compromised
    /\ inst[i].job = "answered" /\ inst'[i].job = "none"

\* Any other step writes the credential of one provider, and puts no older one in the
\* place of a newer: two instances cannot undo each other's logins and refreshes.
WritesOneForward ==
    \E o \in Providers :
        /\ \A u \in Providers \ {o} : authFile'[u] = authFile[u]
        /\ authFile'[o] >= authFile[o] \/ authFile'[o] = 0

\* Instances that share auth.json neither spend a refresh token twice nor undo
\* each other's logins and refreshes, but through a refresh that lost its lock or
\* its answer; and one that is told of it writes nothing.
CredentialsKept == [][RefreshedOnce' /\ (StoredUnaware \/ WritesOneForward)]_authVars
=============================================================================
