----------------------------- MODULE PkgGeneric -----------------------------
(***************************************************************************)
(* The generic package infrastructure, package/pkg-generic.mk: the steps   *)
(* of a package, their stamp files, and GNU make running them.             *)
(*                                                                         *)
(* A node <<p, s>> is step s of package p; its target is a stamp file in   *)
(* the build directory of p, touched when the step has completed.  A user  *)
(* gives make a list of goals, edits sources, and interrupts make anywhere;*)
(* any recipe may fail.  Make considers a target at most once in a run,    *)
(* after its prerequisites, and compares modification times.  Which of two *)
(* independent prerequisites comes first is left open.                     *)
(***************************************************************************)
EXTENDS Integers, Sequences, FiniteSets

CONSTANTS
    Pkgs,           \* the packages
    Deps,           \* Deps[p]: <p>_FINAL_DEPENDENCIES
    PatchDeps,      \* PatchDeps[p]: <p>_FINAL_PATCH_DEPENDENCIES
    Override,       \* the packages with an <p>_OVERRIDE_SRCDIR
    Installs,       \* Installs[p]: the install steps enabled for p
    Commands,       \* the goal lists the user may give to make
    Jobs,           \* make -j; 1 under .NOTPARALLEL
    MaxEdits,       \* bound: how often the user edits an overridden source
    MaxTime         \* bound: no run of make starts after this time

InstallSteps == {"staging_installed", "target_installed", "images_installed",
                 "host_installed"}
TarballSteps == {"downloaded", "extracted", "patched"}
Steps == InstallSteps \union TarballSteps \union {"rsynced", "configured", "built"}

StepsOf(p) == Installs[p] \union {"configured", "built"}
                \union (IF p \in Override THEN {"rsynced"} ELSE TarballSteps)
Nodes == {n \in Pkgs \X Steps : n[2] \in StepsOf(n[1])}

(***************************************************************************)
(* The goals.  <p>-rebuild and its like are phony targets whose phony      *)
(* prerequisites remove stamps and then make the package.                  *)
(***************************************************************************)
Make(p) == [op |-> "make", pkg |-> p, steps |-> {}]
Clean(p, S) == [op |-> "clean", pkg |-> p, steps |-> S]
Dirclean(p) == [op |-> "dirclean", pkg |-> p, steps |-> {}]
Goals == [op : {"make", "clean", "dirclean"}, pkg : Pkgs, steps : SUBSET Steps]

\* Mutant: the sources are not synchronised again.
CleanForReinstallNoRsync(p) == Clean(p, InstallSteps)

CleanForReinstall(p) == Clean(p, InstallSteps \union
                                  (IF p \in Override THEN {"rsynced"} ELSE {}))
Reinstall(p) == <<CleanForReinstall(p), Make(p)>>
Rebuild(p) == <<CleanForReinstall(p), Clean(p, {"built"}), Make(p)>>
Reconfigure(p) == <<CleanForReinstall(p), Clean(p, {"built"}),
                    Clean(p, {"configured"}), Make(p)>>

\* The order of the rm lines of a clean-for-* rule.
CleanOrder == <<"rsynced", "staging_installed", "target_installed",
                "images_installed", "host_installed", "built", "configured">>

ASSUME PkgConstants ==
    /\ Deps \in [Pkgs -> SUBSET Pkgs]
    /\ PatchDeps \in [Pkgs -> SUBSET Pkgs]
    /\ Override \subseteq Pkgs
    /\ Installs \in [Pkgs -> SUBSET InstallSteps]
    /\ Commands \subseteq Seq(Goals)
    /\ Jobs \in Nat \ {0}
    /\ MaxEdits \in Nat
    /\ MaxTime \in Nat

(***************************************************************************)
(* The target sequencing of inner-generic-package.                         *)
(***************************************************************************)
\* Mutant: the staging installation does not wait for the build.
PrecedesNoStaging == {
    <<"downloaded", "extracted">>, <<"extracted", "patched">>,
    <<"patched", "configured">>, <<"configured", "built">>,
    <<"staging_installed", "target_installed">>,
    <<"built", "target_installed">>, <<"built", "images_installed">>,
    <<"built", "host_installed">>}

\* The pairs <<t, s>> where the stamp of t is a normal prerequisite of the
\* stamp of s: a newer one makes the stamp of s out of date.
Precedes == {
    <<"downloaded", "extracted">>, <<"extracted", "patched">>,
    <<"patched", "configured">>, <<"configured", "built">>,
    <<"built", "staging_installed">>, <<"staging_installed", "target_installed">>,
    <<"built", "target_installed">>, <<"built", "images_installed">>,
    <<"built", "host_installed">>}

\* A package without some step is wired without it.
PrereqSteps(p, s) == {t \in StepsOf(p) : <<t, s>> \in Precedes}
Prereqs(n) == {<<n[1], s>> : s \in PrereqSteps(n[1], n[2])}

\* The targets behind the phony <q> and <q>-patch.
Installed(q) == {<<q, s>> : s \in Installs[q]}
AllInstalled(ps) == UNION {Installed(q) : q \in ps}
PatchTarget(q) == <<q, IF q \in Override THEN "rsynced" ELSE "patched">>

\* Mutant: a dependency is needed only from the build step on.
OrderOnlyLate(n) ==
    CASE n[2] = "built" -> AllInstalled(Deps[n[1]])
      [] n[2] = "configured" -> IF n[1] \in Override THEN {<<n[1], "rsynced">>} ELSE {}
      [] n[2] = "patched" -> {PatchTarget(q) : q \in PatchDeps[n[1]]}
      [] OTHER -> {}

\* Order-only prerequisites, after the `|': made first, their age ignored.
OrderOnly(n) ==
    CASE n[2] = "configured" ->
            AllInstalled(Deps[n[1]]) \union
                (IF n[1] \in Override THEN {<<n[1], "rsynced">>} ELSE {})
      [] n[2] = "patched" -> {PatchTarget(q) : q \in PatchDeps[n[1]]}
      [] OTHER -> {}

Before == [n \in Nodes |-> Prereqs(n) \union OrderOnly(n)]

\* Everything make visits for the package p: what p installs, and what comes
\* before anything make visits.
IsNeeded(p, S) == Installed(p) \subseteq S /\ \A n \in S : Before[n] \subseteq S
Needed == [p \in Pkgs |-> CHOOSE S \in SUBSET Nodes :
             IsNeeded(p, S) /\ \A T \in SUBSET Nodes : IsNeeded(p, T) => S \subseteq T]

VARIABLES
    stamp,      \* the modification time of each stamp file, 0 if absent
    out,        \* what became of each step's output
    ver,        \* the version of the sources each output was made from
    src,        \* the version of each <p>_OVERRIDE_SRCDIR
    now,        \* the clock
    cmd,        \* the goals of the last run of make
    todo,       \* the positions in cmd of the goals not yet reached
    seen,       \* the time stamp make has noted for each target it considered
    running,    \* the recipes being executed
    ran,        \* the recipes this run has completed
    asked,      \* src when the run began
    ok          \* nothing has failed or been interrupted in this run

vars == <<stamp, out, ver, src, now, cmd, todo, seen, running, ran, asked, ok>>
tree == <<stamp, out, ver, now>>        \* what survives make
makes == <<cmd, asked>>                 \* what make was given

TypeOK ==
    /\ stamp \in [Nodes -> Nat]
    /\ out \in [Nodes -> {"none", "torn", "done", "lost"}]
    /\ ver \in [Nodes -> Nat]
    /\ src \in [Pkgs -> Nat]
    /\ now \in Nat
    /\ cmd \in Seq(Goals)
    /\ todo \subseteq DOMAIN cmd
    /\ seen \in [Nodes -> Nat]
    /\ running \subseteq Nodes
    /\ ran \subseteq Nodes
    /\ asked \in [Pkgs -> Nat]
    /\ ok \in BOOLEAN

Init ==
    /\ stamp = [n \in Nodes |-> 0]
    /\ out = [n \in Nodes |-> "none"]
    /\ ver = [n \in Nodes |-> 0]
    /\ src = [p \in Pkgs |-> 0]
    /\ now = 0
    /\ cmd = <<>>
    /\ todo = {}
    /\ seen = [n \in Nodes |-> 0]
    /\ running = {}
    /\ ran = {}
    /\ asked = [p \in Pkgs |-> 0]
    /\ ok = FALSE

Idle == todo = {} /\ running = {}
-----------------------------------------------------------------------------
(***************************************************************************)
(* The user.                                                               *)
(***************************************************************************)
RunMake(c) ==
    /\ Idle
    /\ now < MaxTime
    /\ cmd' = c
    /\ todo' = DOMAIN c
    /\ seen' = [n \in Nodes |-> 0]
    /\ ran' = {}
    /\ asked' = src
    /\ ok' = TRUE
    /\ UNCHANGED <<tree, src, running>>

Edit(p) ==
    /\ p \in Override
    /\ src[p] < MaxEdits
    /\ src' = [src EXCEPT ![p] = @ + 1]
    /\ UNCHANGED <<tree, makes, todo, seen, running, ran, ok>>

\* Make stops, and what it knew is forgotten.
Stop ==
    /\ todo' = {}
    /\ cmd' = <<>>
    /\ seen' = [n \in Nodes |-> 0]
    /\ ran' = {}
    /\ ok' = FALSE

\* Interrupted: the recipes that run leave torn outputs and old stamps.
Kill ==
    /\ ~Idle
    /\ Stop
    /\ running' = {}
    /\ UNCHANGED <<tree, src, asked>>
-----------------------------------------------------------------------------
(***************************************************************************)
(* Make.                                                                   *)
(***************************************************************************)
SamePackageCleans(i, j) ==
    cmd[i].op = "clean" /\ cmd[j].op = "clean" /\ cmd[i].pkg = cmd[j].pkg

\* Goals are taken from left to right; in parallel only the clean-for-* rules
\* of a package, which are prerequisites of one another, wait for each other.
Reached(i) ==
    /\ i \in todo
    /\ \A j \in todo : j < i => Jobs > 1 /\ ~SamePackageCleans(i, j)

\* Make can decide about n: some goal needs it, its prerequisites are decided.
Ready(n) ==
    /\ \E i \in todo : Reached(i) /\ cmd[i].op = "make" /\ n \in Needed[cmd[i].pkg]
    /\ seen[n] = 0
    /\ n \notin running
    /\ Cardinality(running) < Jobs
    /\ \A m \in Before[n] : seen[m] > 0

OutOfDate(n) == stamp[n] = 0 \/ \E m \in Prereqs(n) : seen[m] > stamp[n]

Consider(n) ==
    /\ Ready(n)
    /\ ~OutOfDate(n)
    /\ seen' = [seen EXCEPT ![n] = stamp[n]]
    /\ UNCHANGED <<tree, src, makes, todo, running, ran, ok>>

\* The sources a step's output is made from: the overridden directory, the
\* build directory, or what was built in it.
VersionFor(n) ==
    IF n[2] \in InstallSteps THEN ver[<<n[1], "built">>]
    ELSE IF n[2] \in {"built", "configured"} /\ n[1] \in Override
         THEN ver[<<n[1], "rsynced">>]
         ELSE src[n[1]]

\* Mutant: the stamp is touched before the commands.
BeginRecipeTouch(n) ==
    /\ Ready(n)
    /\ OutOfDate(n)
    /\ running' = running \union {n}
    /\ now' = now + 1
    /\ stamp' = [stamp EXCEPT ![n] = now']
    /\ out' = [out EXCEPT ![n] = "torn"]
    /\ ver' = [ver EXCEPT ![n] = VersionFor(n)]
    /\ UNCHANGED <<src, makes, todo, seen, ran, ok>>

BeginRecipe(n) ==
    /\ Ready(n)
    /\ OutOfDate(n)
    /\ running' = running \union {n}
    /\ out' = [out EXCEPT ![n] = "torn"]
    /\ ver' = [ver EXCEPT ![n] = VersionFor(n)]
    /\ UNCHANGED <<stamp, now, src, makes, todo, seen, ran, ok>>

\* The build directory is there: these three recipes create it.
HasDir(n) ==
    \/ n[2] \in {"downloaded", "extracted", "rsynced"}
    \/ \E m \in Nodes : m[1] = n[1] /\ m[2] \notin InstallSteps /\ m # n /\ out[m] # "none"

\* The recipe has ended and touches its stamp, its last command.
EndRecipe(n) ==
    /\ n \in running
    /\ HasDir(n)
    /\ now' = now + 1
    /\ stamp' = [stamp EXCEPT ![n] = now']
    /\ seen' = [seen EXCEPT ![n] = now']
    /\ out' = [out EXCEPT ![n] = "done"]
    /\ running' = running \ {n}
    /\ ran' = ran \union {n}
    /\ UNCHANGED <<ver, src, makes, todo, ok>>

\* A command of the recipe fails: make starts nothing more and waits for the
\* recipes that run beside it.
FailRecipe(n) ==
    /\ n \in running
    /\ Stop
    /\ running' = running \ {n}
    /\ UNCHANGED <<tree, src, asked>>

MakeDone(i) ==
    /\ Reached(i)
    /\ cmd[i].op = "make"
    /\ \A n \in Needed[cmd[i].pkg] : seen[n] > 0
    /\ todo' = todo \ {i}
    /\ UNCHANGED <<tree, src, makes, seen, running, ran, ok>>

\* The next rm line of a clean-for-* rule; for a missing file it does nothing.
Present(p, S) == {k \in DOMAIN CleanOrder :
                    /\ CleanOrder[k] \in S
                    /\ <<p, CleanOrder[k]>> \in Nodes
                    /\ stamp[<<p, CleanOrder[k]>>] > 0}

RemoveStamp(i) ==
    LET p == cmd[i].pkg
    IN  /\ Reached(i)
        /\ cmd[i].op = "clean"
        /\ \E k \in Present(p, cmd[i].steps) :
              /\ \A l \in Present(p, cmd[i].steps) : k <= l
              /\ stamp' = [stamp EXCEPT ![<<p, CleanOrder[k]>>] = 0]
        /\ UNCHANGED <<out, ver, now, src, makes, todo, seen, running, ran, ok>>

CleanDone(i) ==
    /\ Reached(i)
    /\ cmd[i].op = "clean"
    /\ Present(cmd[i].pkg, cmd[i].steps) = {}
    /\ todo' = todo \ {i}
    /\ UNCHANGED <<tree, src, makes, seen, running, ran, ok>>

\* rm -Rf of the build directory; what the steps installed elsewhere stays.
InDir(p) == {n \in Nodes : n[1] = p /\ n[2] \notin InstallSteps}

RemoveDir(i) ==
    LET p == cmd[i].pkg
    IN  /\ Reached(i)
        /\ cmd[i].op = "dirclean"
        /\ stamp' = [n \in Nodes |-> IF n[1] = p THEN 0 ELSE stamp[n]]
        /\ out' = [n \in Nodes |-> IF n \in InDir(p) THEN "none" ELSE out[n]]
        /\ todo' = todo \ {i}
        /\ UNCHANGED <<ver, now, src, makes, seen, running, ran, ok>>

\* The rm -Rf is interrupted: some stamps are gone, and some of the files.
RemoveDirKilled(i) ==
    LET p == cmd[i].pkg
    IN  /\ Reached(i)
        /\ cmd[i].op = "dirclean"
        /\ \E gone \in SUBSET {n \in Nodes : n[1] = p} :
              stamp' = [n \in Nodes |-> IF n \in gone THEN 0 ELSE stamp[n]]
        /\ out' = [n \in Nodes |-> IF n \in InDir(p) /\ out[n] # "none"
                                   THEN "lost" ELSE out[n]]
        /\ Stop
        /\ running' = {}
        /\ UNCHANGED <<ver, now, src, asked>>

MakeStep ==
    \/ \E n \in Nodes : Consider(n) \/ BeginRecipe(n) \/ EndRecipe(n) \/ FailRecipe(n)
    \/ \E i \in todo : MakeDone(i) \/ RemoveStamp(i) \/ CleanDone(i) \/ RemoveDir(i)

Next ==
    \/ MakeStep
    \/ Kill
    \/ \E i \in todo : RemoveDirKilled(i)
    \/ \E c \in Commands : RunMake(c)
    \/ \E p \in Pkgs : Edit(p)

Spec == Init /\ [][Next]_vars
-----------------------------------------------------------------------------
(***************************************************************************)
(* Properties.                                                             *)
(***************************************************************************)
\* Make leaves the recipe of n alone once it has dealt with its prerequisites.
Trusted(n) ==
    /\ stamp[n] > 0
    /\ \A m \in Prereqs(n) : 0 < stamp[m] /\ stamp[m] < stamp[n]

\* A stamp that make would trust stands for a completed step, wherever make was
\* interrupted and whichever stamps the clean-for-* rules had removed by then;
\* unless an interrupted dirclean has taken away the files under it.
TrustedMeansDone == \A n \in Nodes : Trusted(n) => out[n] \in {"done", "lost"}

\* What is installed is what was last built, if the stamps say so.
InstalledIsBuilt ==
    \A n \in Nodes : n[2] \in InstallSteps =>
        LET b == <<n[1], "built">>
        IN  Trusted(n) /\ out[n] = "done" /\ out[b] = "done" => ver[n] = ver[b]

(***************************************************************************)
(* What makes them inductive.  No stamp is from the future; what make has  *)
(* noted of a stamp is its time, unless it is gone since; and while an     *)
(* install step runs make is through with the build step it installs from. *)
(***************************************************************************)
StampsArePast == \A n \in Nodes : stamp[n] <= now
SeenIsStamp == \A n \in Nodes : seen[n] > 0 => stamp[n] \in {0, seen[n]}
SeenIsNotRunning == \A n \in Nodes : seen[n] > 0 => n \notin running
InstallsWhatIsBuilt ==
    \A n \in running : n[2] \in InstallSteps =>
        LET b == <<n[1], "built">>
        IN  /\ b \notin running
            /\ todo # {} => seen[b] > 0
            /\ ver[n] = ver[b]

\* The inductive invariant from which the two properties above follow.
IInv ==
    /\ TypeOK
    /\ StampsArePast
    /\ SeenIsStamp
    /\ TrustedMeansDone
    /\ SeenIsNotRunning
    /\ InstallsWhatIsBuilt
    /\ InstalledIsBuilt

(***************************************************************************)
(* What makes the next two inductive: how make goes about a run that was   *)
(* given goals to remove before goals to make, as the manual has it, and   *)
(* has had no failure yet.                                                 *)
(***************************************************************************)
MakesLast ==
    \A c \in Commands : \A i, j \in DOMAIN c : i < j /\ c[i].op = "make" => c[j].op = "make"

Visited(n) == seen[n] > 0 \/ n \in running

\* A step is looked at after all that comes before it, in a goal that makes.
VisitedInOrder == ok => \A n \in Nodes : Visited(n) =>
    /\ \A m \in Before[n] : seen[m] > 0
    /\ \E j \in DOMAIN cmd : cmd[j].op = "make" /\ \A i \in todo : j <= i

SeenIsMade == \A n \in Nodes : seen[n] > 0 => out[n] \in {"done", "lost"}
RunningIsTorn == \A n \in running : out[n] = "torn"

\* An output that is not there, or not complete, has no stamp make would trust:
\* not now, and not when it has looked at the prerequisites again.
TornIsStale == \A n \in Nodes : out[n] \notin {"done", "lost"} =>
    \/ stamp[n] = 0
    \/ \E m \in Prereqs(n) : IF seen[m] > 0 THEN seen[m] > stamp[n]
                             ELSE stamp[m] = 0 \/ stamp[m] > stamp[n]

OrderInv ==
    /\ todo # {} => ok
    /\ ok => cmd \in Commands
    /\ VisitedInOrder
    /\ SeenIsMade
    /\ RunningIsTorn
    /\ TornIsStale

\* The goal list is to rebuild p, and what that takes of the list.
Rebuilds(c, p) == \E i \in DOMAIN c : c[i].op = "clean" /\ c[i].steps = {"built"} /\ c[i].pkg = p
RebuildGoals ==
    \A c \in Commands : \A p \in Pkgs : Rebuilds(c, p) =>
        /\ Installs[p] # {}
        /\ \E i \in DOMAIN c : c[i] = CleanForReinstall(p)
        /\ \E i \in DOMAIN c : c[i] = Make(p)

\* A stamp that a goal dealt with has removed is there again only because this
\* run made it, and of the sources there were when it began or later ones.
CleanedIsRun == \A i \in DOMAIN cmd \ todo : cmd[i].op = "clean" =>
    \A n \in Nodes : n[1] = cmd[i].pkg /\ n[2] \in cmd[i].steps \ TarballSteps =>
        (stamp[n] > 0 \/ seen[n] > 0 => n \in ran)
MadeIsSeen == \A i \in DOMAIN cmd \ todo : cmd[i].op = "make" =>
    \A n \in Needed[cmd[i].pkg] : seen[n] > 0
MadeFromAsked == \A n \in ran \union running :
    n[2] = "rsynced" \/ (Rebuilds(cmd, n[1]) /\ n[2] \in {"built"} \union InstallSteps)
        => ver[n] >= asked[n[1]]

RebuildInv == ok =>
    /\ \A n \in ran : seen[n] > 0
    /\ CleanedIsRun
    /\ MadeIsSeen
    /\ MadeFromAsked
    /\ \A p \in Pkgs : asked[p] <= src[p]

\* A run of make that was asked to rebuild p, and succeeded, has compiled p and
\* installed it, from sources as recent as those there were when it began.
RebuildTakesEffect ==
    Idle /\ ok => \A i \in DOMAIN cmd :
        cmd[i].op = "clean" /\ cmd[i].steps = {"built"} =>
            LET p == cmd[i].pkg
            IN  \A n \in {<<p, "built">>} \union Installed(p) :
                    n \in ran /\ ver[n] >= asked[p]

\* What a step uses, whatever the makefile says: the earlier steps of its own
\* package, the installations of the packages it is configured and built
\* against, and the sources its patches come from.
Place(s) == IF s \in InstallSteps THEN 6
            ELSE [downloaded |-> 1, extracted |-> 2, patched |-> 3, rsynced |-> 3,
                  configured |-> 4, built |-> 5][s]
Uses == [n \in Nodes |->
    {m \in Nodes : m[1] = n[1] /\ Place(m[2]) < Place(n[2])}
      \union (IF n[2] \in {"configured", "built"}
              THEN AllInstalled(Deps[n[1]]) ELSE {})
      \union (IF n[2] = "patched" THEN {PatchTarget(q) : q \in PatchDeps[n[1]]} ELSE {})]

\* No step starts on the output of a step, of its own package or of a
\* dependency, that is missing or incomplete.
Order == INSTANCE StepOrder WITH Before <- Uses
OrderSpec == Order!Spec
=============================================================================
