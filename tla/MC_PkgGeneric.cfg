\* A package with local sources, edited and rebuilt in every way; and one from
\* a tarball that depends on it to be configured, and whose patches come with it.
SPECIFICATION MCSpec
CONSTANTS
    foo = foo
    bar = bar
    Pkgs = {foo, bar}
    Deps <- BarOnFoo
    PatchDeps <- BarOnFoo
    Override = {foo}
    Installs <- FooIsLibrary
    Commands <- AllCommands
    Jobs = 1
    MaxEdits = 1
    MaxTime = 7
    MaxTimeOfBuilder = 5
INVARIANTS TrustedMeansDone InstalledIsBuilt RebuildTakesEffect
PROPERTY OrderSpec
CHECK_DEADLOCK FALSE
