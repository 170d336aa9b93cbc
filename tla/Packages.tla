------------------------------ MODULE Packages ------------------------------
(***************************************************************************)
(* Packages of extensions (src/core/package-manager.ts): installed,         *)
(* updated and removed by the plugin commands, and resolved by every        *)
(* program that starts or reloads, which installs what is missing.  All of  *)
(* it is child processes, one after the other, of git and npm; a package is *)
(* taken to be installed when its directory exists.                         *)
(*                                                                         *)
(* Left out: packages that are local directories, those given on the        *)
(* command line, offline mode, the resources inside a package and their     *)
(* filters.  A git package has a package.json.                              *)
(***************************************************************************)
EXTENDS Integers, FiniteSets

CONSTANTS
    Programs,            \* processes of the program
    GitPackages, NpmPackages,
    Dirs,                \* a directory for each package and scope it may be in
    MaxVersion,          \* bound: versions of a package that are published
    MaxOps               \* bound: commands, starts, and edits of the settings

ASSUME PackagesAssumption ==
    /\ GitPackages \cap NpmPackages = {} /\ MaxVersion \in Nat \ {0} /\ MaxOps \in Nat
    /\ Dirs \subseteq (GitPackages \cup NpmPackages) \X {"user", "project"}

Packages == GitPackages \cup NpmPackages
Versions == 1 .. MaxVersion
Absent == -1             \* not in the settings;
Free == 0                \* a source without a version or ref

VARIABLES
    configured,          \* the packages of the settings files: a pin, Free or Absent
    disk,                \* what the directory of each holds
    latest,              \* the newest published version
    prog,                \* what each program is doing
    spoilt,              \* history: directories that a step left half done
    used                 \* operations so far

packageVars == <<configured, disk, latest, prog, spoilt, used>>

\* at 0: some files of a clone; head: the branch as it was fetched last; deps: its
\* own dependencies are installed.
Bare == [exists |-> FALSE, at |-> 0, head |-> 0, deps |-> FALSE]
Part == [Bare EXCEPT !.exists = TRUE]
Clone(v) == [Part EXCEPT !.at = v, !.head = v]
Whole(v) == [Clone(v) EXCEPT !.deps = TRUE]

\* The next child process for a directory, or the one that runs.
Children == {"none", "clone", "cloning", "checkout", "deps", "fetch", "reset", "clean", "check", "npm",
           "waits", "uninstall", "done"}

NoDirs == [d \in Dirs |-> "none"]

NoPins == [d \in Dirs |-> Absent]

\* A program: what it does, the settings it has read, the versions it wants, what it
\* is to resolve and has loaded; history: what had been published when it began, and
\* the directories another has changed since.
Resting == [op |-> "idle", known |-> NoPins, pin |-> NoPins, stage |-> NoDirs, todo |-> {},
         loaded |-> {}, since |-> [s \in Packages |-> 1], crossed |-> {}]

Busy(P) == \E d \in Dirs : P.stage[d] \notin {"none", "done"}

\* Another program is in the middle of something in d.
Shared(p, d) == \E q \in Programs \ {p} : prog[q].stage[d] \notin {"none", "done"}

-----------------------------------------------------------------------------
(* Commands                                                                *)

\* A program reads the settings and begins; pin tells the version of a directory.
Begins(p, P) ==
    /\ prog[p].op = "idle"
    /\ used < MaxOps /\ used' = used + 1
    /\ prog' = [prog EXCEPT ![p] = [P EXCEPT !.known = configured, !.since = latest,
                                 !.crossed = {d \in Dirs : Shared(p, d)}]]
    /\ UNCHANGED <<configured, disk, latest, spoilt>>

Asked(d, pin) == [NoPins EXCEPT ![d] = pin]

\* installGit: what exists is installed.
InstallStage(d) ==
    IF d[1] \in NpmPackages THEN "npm" ELSE IF disk[d].exists THEN "done" ELSE "clone"

Install(p, d, pin) ==
    Begins(p, [Resting EXCEPT !.op = "install", !.pin = Asked(d, pin),
                           !.stage = [NoDirs EXCEPT ![d] = InstallStage(d)]])

RemovePackage(p, d) ==
    Begins(p, [Resting EXCEPT !.op = "remove", !.pin = Asked(d, Free),
                           !.stage = [NoDirs EXCEPT ![d] = "uninstall"]])

\* update of everything, or of one package in both scopes; those with a version
\* or ref stay.  git waits for the checks of npm.
UpdateTargets(S) == {d \in Dirs : d[1] \in S /\ configured[d] = Free}

Update(p, S) ==
    LET U == UpdateTargets(S)
    IN  /\ \E d \in Dirs : d[1] \in S /\ configured[d] # Absent
        /\ Begins(p, [Resting EXCEPT !.op = "update",
                      !.pin = [d \in Dirs |-> IF d \in U THEN Free ELSE Absent],
                      !.stage = [d \in Dirs |-> IF d \notin U THEN "none"
                                                ELSE IF d[1] \in NpmPackages THEN "check" ELSE "waits"]])

\* dedupePackages: of the same package in both scopes the project's.
Deduped(list) ==
    LET listed == {d \in Dirs : list[d] # Absent}
    IN  {d \in listed : d[2] = "user" => <<d[1], "project">> \notin listed}

\* resolve, at the start or reload of a program.
Resolve(p) ==
    Begins(p, [Resting EXCEPT !.op = "resolve", !.todo = Deduped(configured), !.pin = configured])

EditSettings(d, pin) ==
    /\ used < MaxOps /\ used' = used + 1
    /\ configured[d] # pin
    /\ configured' = [configured EXCEPT ![d] = pin]
    /\ UNCHANGED <<disk, latest, prog, spoilt>>

Publish(s) ==
    /\ latest[s] < MaxVersion
    /\ latest' = [latest EXCEPT ![s] = @ + 1]
    /\ UNCHANGED <<configured, disk, prog, spoilt, used>>

-----------------------------------------------------------------------------
(* Child processes                                                         *)

Untouched == UNCHANGED <<configured, disk, latest, spoilt, used>>

\* The child in d ends, the program's next stage there is to.
Turns(p, d, to) == prog' = [prog EXCEPT ![p].stage[d] = to]

\* It leaves content behind, half done or not.
Leaves(p, d, to, content, half) ==
    /\ disk' = [disk EXCEPT ![d] = content]
    /\ spoilt' = IF half THEN spoilt \cup {d} ELSE spoilt \ {d}
    /\ prog' = [q \in Programs |->
                   IF q = p THEN [prog[q] EXCEPT !.stage[d] = to]
                   ELSE IF prog[q].op = "idle" THEN prog[q]
                   ELSE [prog[q] EXCEPT !.crossed = @ \cup {d}]]
    /\ UNCHANGED <<configured, latest, used>>

\* It fails: an install or a resolve is over; the other children of an update go on.
Fails(p, d) ==
    /\ prog' = [prog EXCEPT ![p] = IF @.op \in {"update", "failed"}
                                   THEN [@ EXCEPT !.op = "failed", !.stage[d] = "none"] ELSE Resting]
    /\ Untouched

\* git refuses a directory that exists, and removes what it has cloned when it fails.
CloneBegins(p, d) ==
    /\ prog[p].stage[d] = "clone"
    /\ IF disk[d].exists THEN Fails(p, d) ELSE Leaves(p, d, "cloning", Part, TRUE)

CloneEnds(p, d) ==
    /\ prog[p].stage[d] = "cloning" /\ disk[d].exists
    /\ Leaves(p, d, IF prog[p].pin[d] = Free THEN "deps" ELSE "checkout", Clone(latest[d[1]]), TRUE)

CloneFails(p, d) ==
    /\ prog[p].stage[d] = "cloning"
    /\ disk' = [disk EXCEPT ![d] = Bare] /\ spoilt' = spoilt \ {d}
    /\ prog' = [prog EXCEPT ![p] = IF @.op \in {"update", "failed"}
                                   THEN [@ EXCEPT !.op = "failed", !.stage[d] = "none"] ELSE Resting]
    /\ UNCHANGED <<configured, latest, used>>

Checkout(p, d) ==
    /\ prog[p].stage[d] = "checkout" /\ disk[d].at # 0
    /\ Leaves(p, d, "deps", [disk[d] EXCEPT !.at = prog[p].pin[d]], TRUE)

\* npm install in the checkout, or in what another program's clone has of it so far.
InstallDeps(p, d) ==
    /\ prog[p].stage[d] = "deps" /\ disk[d].exists
    /\ Leaves(p, d, "done", [disk[d] EXCEPT !.deps = TRUE], disk[d].at = 0)

\* updateGit, when the checks of npm are over; what is missing is installed.
UpdateGit(p, d) ==
    /\ prog[p].stage[d] = "waits" /\ \A e \in Dirs : prog[p].stage[e] # "check"
    /\ Turns(p, d, IF disk[d].exists THEN "fetch" ELSE "clone")
    /\ Untouched

\* The same as before: nothing to do.
GitFetch(p, d) ==
    LET new == [disk[d] EXCEPT !.head = latest[d[1]]]
    IN  /\ prog[p].stage[d] = "fetch" /\ disk[d].at # 0
        /\ Leaves(p, d, IF new.at = new.head THEN "done" ELSE "reset", new, d \in spoilt)

\* The files of the branch as fetched.
Reset(p, d) ==
    /\ prog[p].stage[d] = "reset" /\ disk[d].at # 0
    /\ Leaves(p, d, "clean", [disk[d] EXCEPT !.at = disk[d].head], TRUE)

\* Cleaning removes the dependencies.  CleanOnly is a mistake.
CleanOnly(p, d) ==
    /\ prog[p].stage[d] = "clean" /\ disk[d].at # 0
    /\ Leaves(p, d, "done", [disk[d] EXCEPT !.deps = FALSE], FALSE)

Clean(p, d) ==
    /\ prog[p].stage[d] = "clean" /\ disk[d].at # 0
    /\ Leaves(p, d, "deps", [disk[d] EXCEPT !.deps = FALSE], TRUE)

\* shouldUpdateNpmSource; if the version cannot be looked up, it is installed.
NpmCheck(p, d) ==
    /\ prog[p].stage[d] = "check"
    /\ Turns(p, d, "npm") \/ (disk[d].at = latest[d[1]] /\ Turns(p, d, "done"))
    /\ Untouched

\* An update's batch waits for all checks.  npm leaves what was there when it fails.
NpmInstall(p, d) ==
    /\ prog[p].stage[d] = "npm" /\ \A e \in Dirs : prog[p].stage[e] # "check"
    /\ Leaves(p, d, "done", Whole(IF prog[p].pin[d] = Free THEN latest[d[1]] ELSE prog[p].pin[d]), FALSE)

\* rmSync, or npm uninstall.
Uninstall(p, d) ==
    /\ prog[p].stage[d] = "uninstall"
    /\ Leaves(p, d, "done", Bare, FALSE)

ChildFails(p, d) ==
    /\ prog[p].stage[d] \in {"checkout", "deps", "fetch", "reset", "clean", "npm", "uninstall"}
    /\ Fails(p, d)

-----------------------------------------------------------------------------
(* What follows                                                            *)

\* addSourceToSettings, removeSourceFromSettings: the list the program has read,
\* changed, replaces the list of that scope; a package that is listed keeps its pin.
Persist(p) ==
    \E d \in Dirs :
        /\ prog[p].op \in {"install", "remove"} /\ prog[p].stage[d] = "done"
        /\ LET known == prog[p].known
               pin == IF prog[p].op = "remove" THEN Absent
                      ELSE IF known[d] # Absent THEN known[d] ELSE prog[p].pin[d]
           IN  configured' = IF known[d] = pin THEN configured
                             ELSE [e \in Dirs |-> IF e = d THEN pin
                                                  ELSE IF e[2] = d[2] THEN known[e] ELSE configured[e]]
        /\ prog' = [prog EXCEPT ![p] = Resting]
        /\ UNCHANGED <<disk, latest, spoilt, used>>

UpdateReturns(p) ==
    /\ prog[p].op \in {"update", "failed"} /\ ~Busy(prog[p])
    /\ prog' = [prog EXCEPT ![p] = Resting]
    /\ Untouched

\* npm packages of another version are installed again, those of git are not.
\* NeedsInstallMissing is a mistake.
NeedsInstallMissing(p, d) == ~disk[d].exists
NeedsInstall(p, d) ==
    \/ ~disk[d].exists
    \/ d[1] \in NpmPackages /\ prog[p].pin[d] # Free /\ disk[d].at # prog[p].pin[d]

\* resolvePackageSources, one after the other: installs and then loads.
ResolveNext(p) ==
    \E d \in prog[p].todo :
        /\ prog[p].op = "resolve" /\ ~Busy(prog[p])
        /\ d[2] = "user" => \A e \in prog[p].todo : e[2] = "user"
        /\ IF prog[p].stage[d] = "none" /\ NeedsInstall(p, d)
           THEN /\ \A e \in Dirs : prog[p].stage[e] = "none"
                /\ prog' = [prog EXCEPT ![p].stage[d] = InstallStage(d)]
           ELSE /\ \A e \in Dirs \ {d} : prog[p].stage[e] = "none"
                /\ prog' = [prog EXCEPT ![p].todo = @ \ {d}, ![p].stage[d] = "none",
                                ![p].loaded = @ \cup {[dir |-> d, is |-> disk[d],
                                       doubtful |-> \/ d \in spoilt \cup prog[p].crossed
                                                    \/ Shared(p, d)]}]
        /\ Untouched

ResolveReturns(p) ==
    /\ prog[p].op = "resolve" /\ prog[p].todo = {}
    /\ prog' = [prog EXCEPT ![p].op = "runs"]
    /\ Untouched

\* The program ends, or is killed with its child.
Quits(p) ==
    /\ prog[p].op # "idle"
    /\ prog' = [prog EXCEPT ![p] = Resting]
    /\ Untouched

-----------------------------------------------------------------------------
\* Nothing is installed, or the packages of npm are, at a pinned version.
PackagesInit ==
    /\ \E D \in {{}, {d \in Dirs : d[1] \in NpmPackages}} :
          /\ configured = [d \in Dirs |-> IF d \in D THEN 1 ELSE Absent]
          /\ disk = [d \in Dirs |-> IF d \in D THEN Whole(1) ELSE Bare]
    /\ latest = [s \in Packages |-> 1]
    /\ prog = [p \in Programs |-> Resting]
    /\ spoilt = {} /\ used = 0

PackagesNext ==
    \/ \E p \in Programs, d \in Dirs :
          \/ \E pin \in Versions \cup {Free} : (pin <= latest[d[1]]) /\ Install(p, d, pin)
          \/ RemovePackage(p, d)
          \/ CloneBegins(p, d) \/ CloneEnds(p, d) \/ CloneFails(p, d)
          \/ Checkout(p, d) \/ InstallDeps(p, d) \/ ChildFails(p, d)
          \/ UpdateGit(p, d) \/ GitFetch(p, d) \/ Reset(p, d) \/ Clean(p, d)
          \/ NpmCheck(p, d) \/ NpmInstall(p, d) \/ Uninstall(p, d)
    \/ \E p \in Programs :
          \/ \E S \in {Packages} \cup {{s} : s \in Packages} : Update(p, S)
          \/ Resolve(p) \/ Persist(p) \/ UpdateReturns(p)
          \/ ResolveNext(p) \/ ResolveReturns(p) \/ Quits(p)
    \/ \E d \in Dirs, pin \in Versions \cup {Free, Absent} : (pin <= latest[d[1]]) /\ EditSettings(d, pin)
    \/ \E s \in Packages : Publish(s)

PackagesSpec == PackagesInit /\ [][PackagesNext]_packageVars

-----------------------------------------------------------------------------
(* Properties                                                              *)

Pins == Versions \cup {Free, Absent}
Content == [exists : BOOLEAN, at : 0 .. MaxVersion, head : 0 .. MaxVersion, deps : BOOLEAN]

PackagesTypeOK ==
    /\ configured \in [Dirs -> Pins]
    /\ disk \in [Dirs -> Content]
    /\ latest \in [Packages -> Versions]
    /\ spoilt \subseteq Dirs /\ used \in 0 .. MaxOps
    /\ \A p \in Programs :
          /\ prog[p].op \in {"idle", "install", "remove", "update", "failed", "resolve", "runs"}
          /\ prog[p].known \in [Dirs -> Pins] /\ prog[p].pin \in [Dirs -> Pins]
          /\ prog[p].stage \in [Dirs -> Children]
          /\ prog[p].todo \cup prog[p].crossed \subseteq Dirs
          /\ prog[p].loaded \subseteq [dir : Dirs, is : Content, doubtful : BOOLEAN]

\* What a program loads of a package is complete, with its dependencies and, of npm,
\* at the version it is configured with (resolvePackageSources); unless an earlier
\* operation left the directory half done, or another program works on it.
LoadsWhole ==
    \A p \in Programs : \A l \in prog[p].loaded :
        l.doubtful \/
            /\ l.is.exists /\ l.is.at # 0 /\ l.is.deps
            /\ l.dir[1] \in NpmPackages /\ prog[p].pin[l.dir] # Free => l.is.at = prog[p].pin[l.dir]

\* A program that runs has loaded every package of its settings once, the project's
\* before the user's (dedupePackages).
LoadsOnce ==
    \A p \in Programs : prog[p].op = "runs" =>
        LET listed == {d \in Dirs : prog[p].known[d] # Absent}
        IN  /\ {l.dir : l \in prog[p].loaded} \subseteq listed
            /\ \A d \in listed : \E l \in prog[p].loaded : l.dir[1] = d[1]
            /\ \A l \in prog[p].loaded : \A d \in listed :
                   l.dir[1] = d[1] /\ l.dir # d => l.dir[2] = "project"

\* An update none of whose children failed leaves every package that has no version
\* whole, and no older than what was published when it began; with the same
\* exceptions.
UpdateBrings ==
    \A p \in Programs : prog[p].op = "update" /\ ~Busy(prog[p]) =>
        \A d \in Dirs : prog[p].pin[d] # Absent =>
            \/ d \in spoilt \cup prog[p].crossed
            \/ disk[d].deps /\ disk[d].at >= prog[p].since[d[1]]

\* Packages are loaded and updated as the settings say.
PackagesKept == LoadsWhole /\ LoadsOnce /\ UpdateBrings
=============================================================================
