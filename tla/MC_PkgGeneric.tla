---------------------------- MODULE MC_PkgGeneric ----------------------------
(***************************************************************************)
(* An instance of PkgGeneric: bar depends on foo.  The sources of foo are  *)
(* a local directory, as those of the packages in package/rockchip are,    *)
(* and bar comes as a tarball.                                             *)
(***************************************************************************)
EXTENDS PkgGeneric, TLC

CONSTANTS foo, bar

\* bar depends on foo, to be configured and to be patched.
BarOnFoo == (foo :> {}) @@ (bar :> {foo})

FooIsLibrary == (foo :> {"staging_installed", "target_installed"})
             @@ (bar :> {"images_installed"})

\* One package, every goal it has.
OnePackage == {<<Make(foo)>>, Reinstall(foo), Rebuild(foo), Reconfigure(foo),
               <<Dirclean(foo)>>}

\* What the manual tells the user to type: a package is cleaned before any
\* goal that makes it or a package that depends on it.
CleanFirst == {<<Make(bar)>>, Rebuild(foo) \o <<Make(bar)>>,
               <<Dirclean(foo), Make(bar)>>}

AllCommands == OnePackage \union CleanFirst

\* Both lists are as the theorems about them want them.
ASSUME GoalsAssumption == MakesLast /\ RebuildGoals
-----------------------------------------------------------------------------
(***************************************************************************)
(* A behaviour is that of one of two users: one who develops foo, edits it *)
(* and uses every goal it has, or one who builds bar on top of it and runs *)
(* make less often.                                                        *)
(***************************************************************************)
CONSTANT MaxTimeOfBuilder   \* bound: no run for bar starts after this time

VARIABLE user

MCInit == Init /\ user \in {"developer", "builder"}

AsDeveloper == user = "developer" /\ cmd' \in OnePackage \union {<<>>}

AsBuilder ==
    /\ user = "builder" /\ cmd' \in CleanFirst \union {<<>>}
    /\ todo = {} /\ todo' # {} => now < MaxTimeOfBuilder
    /\ UNCHANGED src

MCNext == Next /\ UNCHANGED user /\ (AsDeveloper \/ AsBuilder)

MCSpec == MCInit /\ [][MCNext]_<<vars, user>>
=============================================================================
