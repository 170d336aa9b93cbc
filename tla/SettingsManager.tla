-------------------------- MODULE SettingsManager --------------------------
(***************************************************************************)
(* SettingsManager (src/core/settings-manager.ts): settings.json, shared by *)
(* several instances of the program and by its user's editor.  A setter     *)
(* changes memory and queues a write; the write takes the file's lock and   *)
(* merges the modified fields into what the file holds by then.             *)
(*                                                                         *)
(* One scope is modelled, global and project settings being treated alike;  *)
(* a nested key (compaction.enabled) counts as a field of its own.  Values  *)
(* are numbers, a new one for each change.  Left out: migrations, overrides *)
(* from the command line, the defaults of the getters.                      *)
(***************************************************************************)
EXTENDS Naturals, Sequences

CONSTANTS
    Managers,       \* SettingsManager objects, each in a process of its own
    Fields,
    MaxSets,        \* bound on the changes, setters and editor together
    NoFile

ASSUME SettingsAssumption == MaxSets \in Nat /\ NoFile \notin [Fields -> 0 .. MaxSets]

VARIABLES
    settingsFile,
    mgr,
    sets,       \* history: the number of changes made, which is the newest value
    recent,     \* history: what each manager has set since its queue last ran dry
    unsaved,    \* history: what it has set and not written, or reloaded, since
    failedLate  \* history: fields of a failed write whose marks another had cleared

settingsVars == <<settingsFile, mgr, sets, recent, unsaved, failedLate>>

Values == [Fields -> 0 .. MaxSets]
Nothing == [f \in Fields |-> 0]

\* A queued write keeps its own snapshot of the settings and of the marks.
Write == [values : Values, fields : SUBSET Fields]

Manager ==
    [mem : Values,              \* globalSettings
     modified : SUBSET Fields,  \* modifiedFields
     queue : Seq(Write),        \* writeQueue
     creating : BOOLEAN,        \* its write found no file, and has not locked it yet
     loadError : BOOLEAN,
     reloading : Nat]           \* 0, or 1 + the writes reload() still awaits

Holds(file) == IF file = NoFile THEN Nothing ELSE file
Stored == Holds(settingsFile)

InQueue(m, f) == \E i \in DOMAIN mgr[m].queue : f \in mgr[m].queue[i].fields

\* Between two awaits: a write that has begun goes on to its end.
Idle(m) == ~mgr[m].creating

-----------------------------------------------------------------------------
(* Setters                                                                 *)

\* Every setX(): assign, mark, save().
SetField(m, f) ==
    /\ Idle(m) /\ sets < MaxSets /\ sets' = sets + 1
    /\ LET mem == [mgr[m].mem EXCEPT ![f] = sets + 1]
           marks == mgr[m].modified \cup {f}
       IN  mgr' = [mgr EXCEPT ![m].mem = mem, ![m].modified = marks,
                     ![m].queue = IF mgr[m].loadError THEN @
                                  ELSE Append(@, [values |-> mem, fields |-> marks])]
    /\ recent' = [recent EXCEPT ![m] = @ \cup {f}]
    /\ unsaved' = [unsaved EXCEPT ![m] = @ \cup {f}]
    /\ failedLate' = [failedLate EXCEPT ![m] = @ \ {f}]
    /\ UNCHANGED settingsFile

-----------------------------------------------------------------------------
(* Writes                                                                  *)

\* persistScopedSettings: the marked fields over what the file holds.
\* Bug: the whole snapshot.
WholeSnapshot(base, w) == w.values
MergedInto(base, w) == [f \in Fields |-> IF f \in w.fields THEN w.values[f] ELSE base[f]]

Awaited(n) == IF n > 1 THEN n - 1 ELSE n

\* clearModifiedScope after a write, whatever has been marked since.
ClearMarks(M) == [M EXCEPT !.modified = {}]

Written(m, base) ==
    LET M == mgr[m]
        rest == Tail(M.queue)
    IN  /\ settingsFile' = MergedInto(base, Head(M.queue))
        /\ mgr' = [mgr EXCEPT ![m] =
                      ClearMarks([M EXCEPT !.queue = rest, !.creating = FALSE,
                                           !.reloading = Awaited(@)])]
        /\ recent' = [recent EXCEPT ![m] = IF rest = <<>> THEN {} ELSE @]
        /\ unsaved' = [unsaved EXCEPT ![m] =
                         {f \in @ : f \in Head(M.queue).fields =>
                             \E i \in DOMAIN rest : f \in rest[i].fields
                                 /\ rest[i].values[f] # Head(M.queue).values[f]}]
        /\ UNCHANGED <<sets, failedLate>>

MayWrite(m) == Idle(m) /\ mgr[m].queue # <<>> /\ mgr[m].reloading # 1

\* With a file there: lock, read, merge, write.
WriteFile(m) ==
    /\ MayWrite(m) /\ settingsFile # NoFile
    /\ Written(m, settingsFile)

\* Without one, the merge is made before the lock is taken.
FindNoFile(m) ==
    /\ MayWrite(m) /\ settingsFile = NoFile
    /\ mgr' = [mgr EXCEPT ![m].creating = TRUE]
    /\ UNCHANGED <<settingsFile, sets, recent, unsaved, failedLate>>

CreateFile(m) ==
    /\ mgr[m].creating /\ Written(m, Nothing)

\* The lock is not to be had, or the disk is full: the marks are kept.
Failed(M) == [M EXCEPT !.queue = Tail(@), !.creating = FALSE, !.reloading = Awaited(@)]

WriteFails(m) ==
    /\ MayWrite(m) \/ mgr[m].creating
    /\ mgr' = [mgr EXCEPT ![m] = Failed(@)]
    /\ failedLate' = [failedLate EXCEPT ![m] = @ \cup (Head(mgr[m].queue).fields \ mgr[m].modified)]
    /\ UNCHANGED <<settingsFile, sets, recent, unsaved>>

-----------------------------------------------------------------------------
(* reload, and the user's editor                                           *)

RequestReload(m) ==
    /\ Idle(m) /\ mgr[m].reloading = 0
    /\ mgr' = [mgr EXCEPT ![m].reloading = 1 + Len(mgr[m].queue)]
    /\ UNCHANGED <<settingsFile, sets, recent, unsaved, failedLate>>

\* The file, or an error that keeps the old settings and stops all saving.
ReloadSettings(m) ==
    /\ Idle(m) /\ mgr[m].reloading = 1
    /\ \E error \in BOOLEAN :
          mgr' = [mgr EXCEPT ![m].reloading = 0, ![m].modified = {}, ![m].loadError = error,
                             ![m].mem = IF error THEN @ ELSE Stored]
    /\ recent' = [recent EXCEPT ![m] = IF mgr[m].queue = <<>> THEN {} ELSE @]
    /\ unsaved' = [unsaved EXCEPT ![m] = {f \in @ : InQueue(m, f)}]
    /\ failedLate' = [failedLate EXCEPT ![m] = {}]
    /\ UNCHANGED <<settingsFile, sets>>

EditFile(f) ==
    /\ sets < MaxSets /\ sets' = sets + 1
    /\ settingsFile' = [Stored EXCEPT ![f] = sets + 1]
    /\ UNCHANGED <<mgr, recent, unsaved, failedLate>>

NewManager == [mem |-> Nothing, modified |-> {}, queue |-> <<>>, creating |-> FALSE,
               loadError |-> FALSE, reloading |-> 0]

SettingsInit ==
    /\ settingsFile \in {NoFile, Nothing}
    /\ mgr = [m \in Managers |-> NewManager] /\ sets = 0
    /\ recent = [m \in Managers |-> {}] /\ unsaved = [m \in Managers |-> {}]
    /\ failedLate = [m \in Managers |-> {}]

SettingsNext ==
    \/ \E m \in Managers :
           \/ WriteFile(m) \/ FindNoFile(m) \/ CreateFile(m) \/ WriteFails(m)
           \/ RequestReload(m) \/ ReloadSettings(m)
           \/ \E f \in Fields : SetField(m, f)
    \/ \E f \in Fields : EditFile(f)

SettingsSpec == SettingsInit /\ [][SettingsNext]_settingsVars

-----------------------------------------------------------------------------
(* Properties                                                              *)

SettingsTypeOK ==
    /\ settingsFile \in Values \cup {NoFile}
    /\ mgr \in [Managers -> Manager]
    /\ recent \in [Managers -> SUBSET Fields] /\ unsaved \in [Managers -> SUBSET Fields]
    /\ failedLate \in [Managers -> SUBSET Fields]
    /\ sets \in 0 .. MaxSets

\* A write changes no field but those its manager has set since it had last
\* written everything: what others put in the file meanwhile stays, also in
\* fields this manager once set.  (If the file existed when the write read it.)
WritesOwnFields ==
    \A m \in Managers :
        Len(mgr'[m].queue) < Len(mgr[m].queue) /\ ~mgr[m].creating =>
            \A f \in Fields \ recent[m] : Holds(settingsFile')[f] = Stored[f]

\* What has been set is in the file, in a queued write or still marked for the
\* next, whichever writes have failed; except when a write fails after the one
\* before it has cleared its marks.
SetIsNotForgotten ==
    \A m \in Managers :
        ~mgr[m].loadError =>
            \A f \in unsaved[m] \ failedLate[m] : f \in mgr[m].modified \/ InQueue(m, f)

\* Two managers and a user's editor on one settings file: what was set is not
\* lost before it is written, and what others wrote is not written over.
SettingsKept == [][SetIsNotForgotten' /\ WritesOwnFields]_settingsVars
=============================================================================
