# Verification of the Ruka CFW build and its device programs

The repository is an SDK for RK3128 handhelds: Buildroot under `src/buildroot`,
which downloads, patches, compiles and installs packages and makes images of
them, together with Rockchip's device programs (`package/rockchip`) and the
board overlays with the console's own scripts (`board/rockchip`). Most of the
12,685 files are recipes and patches for other people's programs. This project
models the code that is the repository's own and has state: the download
wrapper, the package engine, the configuration system (the kernel's kconfig,
adapted by Buildroot) and the programs of the device.

Paths below are relative to `src/buildroot`.

## 1. Inventory

### Build side

| Component | State it keeps | Operations | Talks to |
|---|---|---|---|
| Hash checking, `support/download/check-hash` | line position, number of checks | one pass over a `.hash` file, exit codes 0, 2, 3, 4 | called by the wrapper on the old output and on the new download |
| Download wrapper and site fallback, `support/download/dl-wrapper`, `package/pkg-download.mk` | the file in `BR2_DL_DIR`, a temporary directory, a temporary file beside the output | check, remove, download, verify, copy, chmod, rename; next site on failure | backends, check-hash, and other builds through the shared directory |
| Package engine, `package/pkg-generic.mk` under GNU make | stamp files with their times, build directories, installed files | make a package, reinstall, rebuild, reconfigure, dirclean | the user who edits sources, chooses goals and presses ctrl-C; dependencies among packages |
| Patch application, `support/scripts/apply-patches.sh` | patched tree, `.applied_patches_list` | scan directories, archives and series files, refuse duplicates, apply | is the `patched` step of the engine |
| Images, `fs/common.mk` | a scratch directory shared by all images | one recipe per image | all packages installed; other images under `-j` |
| Target finalisation, `mkusers`, `check-uniq-files`, rpath fixers | none between runs | sequential rewriting of the target tree | the installed files |
| Configuration system, `support/kconfig` | menus and their rewritten dependencies; per option the user's value, the computed value, visibility and flags; `.config`, `auto.conf`, the files under `include/config` | finalise menus, search for cycles, compute values, set, save, minimise, read, generate, write for the build | the user; make, which rebuilds what depends on a touched file; front ends |
| Front ends of the configuration, `mconf.c`, `nconf.c`, `gconf.c`, `qconf.cc` | the file name of the session, the open dialogs, and the counter of changes they share with `confdata.c` | edit, load, save, save as, quit with a question, SIGINT | the user; the configuration system; `.config` and `.config.old` |
| Download backends, other infrastructures, graph and statistics tools, toolchain wrapper, host tools | none | one program each | the components above |

### Device side

| Component | State it keeps | Operations | Talks to |
|---|---|---|---|
| LED service, `package/rockchip/led_control_app` | the requested, the last handled and the lasting state; two timers; the volume | clients' `led_open`, main loop, poller | three threads, one mutex, one condition variable with a mutex of its own |
| NPU power control, `package/rockchip/npu_powerctrl` and the sleep hook `01npu` | GPIO exports, directions and levels; the NPU behind them | `-i`, `-o`, `-d`, `-s`, `-r` | sysfs, the NPU by a pulse and a level, the suspend hook |
| Boot animation and mode setting, `package/rockchip/modeset` | `enabled_`, `vsync_cnt`, connector and encoder in use, buffer slots, the picture it is at | switch the animation, follow uevents, set a mode, show pictures | three threads, a mutex for some of what they share, the graphics driver |
| JPEG decoder, `package/rockchip/rkjpeg` | one container of some hundred flags per instance; code and quantisation tables; registers; the client's buffers | get the image's information, decode, for one picture after the other | the hardware, started through registers and one table buffer, which answers, fails or times out |
| Suspend notification, `package/rockchip/pm-suspend-api` | a directory with one file per registered bus name | register, suspend and resume calls | D-Bus, pm-utils |
| Wi-Fi simple configuration, `package/rockchip/rtw_simple_config` | channel plan, decoder phase | scan loop, decode, connect | a binary library |
| Console scripts, `board/rockchip/*/fs-overlay` | brightness, volume, sound path, display; files and sysfs | key, hotplug and launcher scripts | one another, through sysfs and files |
| Register tools, hardware tests, recovery and other recipes | -- | -- | -- |

### Which behaviours are hard, and what makes each component right

* Downloads: builds that share a directory interleave at every command, are
  killed anywhere, and every command may fail. Right means: under the final
  name there appears only a complete file that some hash file accepts, readable by
  all; success means it is there. What is left behind by a wrapper that ends early is
  under names of its own.
* Package engine: interruption at every point of a recipe and of a clean rule,
  recipes that fail, edits between runs, make's rule of considering a target
  once. Right means: a stamp vouches for what was done, what is installed is
  what was built, dependencies come first, and the goals do what they say.
* LED service: one slot for requests of several threads, timers that race
  them, and a notification that can be lost. Right means: LEDs and timers agree,
  a volume is never lost, temporary displays end.
* NPU: commands killed between two rails, answers that arrive after a timeout,
  a status line that reads the same in different states. Right means: rails come
  up in order, nothing cuts a running NPU by accident, a command does what its
  exit code says.
* Configuration: some forty rewriting rules on dependencies, values that are
  computed on demand and must be forgotten when something they depend on
  changes, choices, and three kinds of files that must stand for each other.
  Right means: rewriting keeps the meaning, every option can be reached, cycles
  are reported, what is set takes effect and comes back, the build sees what was saved.
* Front ends: one counter tells what is unsaved, and loading, saving, failing
  and leaving all set it; a save is several system calls, and the program may be
  killed between them. Right means: no save destroys the file before it is done, and
  no program ends with unsaved changes unless it has asked. The second does not hold.
* Boot animation: a switch with and a counter without a mutex, spurious wake-ups,
  hotplug between two pictures, a driver that may refuse any call. Right means:
  no buffer is lost or released on the screen, the worker rests when it is
  switched off and comes round to look when it is switched on.
* JPEG decoder: streams of any order of segments, three writers of tables beside
  three writers of their lengths, flags that each return resets differently, a
  wait that fails. Right means: each scan is decoded with its own tables, each
  picture is its own, with all components and rows, inside its buffers, and every call
  ends. Some flags do reach the next picture; section 6 has what they do.
* Suspend notification and the console scripts: section 8 has the plan.

`PROJECT.json` lists each hazard at its line with the properties that cover it,
or the reason why none does.

## 2. Modules

| Module | Lines of the system | How state and actions correspond |
|---|---|---|
| `HashCode` | `check-hash` | operators only: `CheckHashCode(hf, c, skip)` is the exit code. A digest is the content it is of; a hash file is a sequence of lines and a flag saying whether the last one ends in a newline |
| `CheckHash` | `check-hash` | the `while read` loop, one step per line; `nb_checks` and the exit code are the script's |
| `DownloadCache` | -- | abstract specification: users install, use or give up on one file; one who has seen a refutable file evicts what is there when it comes to it |
| `Download` | `dl-wrapper`, `pkg-download.mk` | one action per command of the wrapper for each build; `output` is the file in `BR2_DL_DIR`, `tmpf` and `tmp_output` the temporaries, which stay when `set -e` or a kill ends the wrapper; `TryNextSite` is `DOWNLOAD_INNER`. Uses `CheckHashCode` from `HashCode` |
| `StepOrder` | -- | abstract specification: a step begins only on completed output of those it uses |
| `PkgGeneric` | `pkg-generic.mk`, GNU make | nodes are package steps; `stamp` their times, `out` and `ver` what their recipes made and from which sources. `RunMake`, `Edit`, `Kill` are the user; `Consider`, `BeginRecipe`, `EndRecipe`, `FailRecipe`, `RemoveStamp`, `RemoveDir` are make |
| `InfoLed` | `InfoLed.cpp`, `InfoLed.h` | the variables keep the source's names; `led_open`, `CheckState`/`Block`/`HandleState` (main loop) and `Poll` are the threads, one action per critical section |
| `NpuPower` | `npu_powerctrl.c`, `main.c`, `01npu` | each command is a list of writes, one step each, killable between any two; the NPU is an environment that boots, sleeps and answers when it likes. `asked` is a pulse it has not answered, `overtook` remembers whether there was one when the command began |
| `KconfigExpr` | `expr.c` | operators only, one per function: expressions are records `or`, `and`, `not`, `eq`, `ne`, `sym`, `none`; `Transform`, `EliminateDups`, `EliminateEq`, `ExprEq`, `TransCompare`, `CalcValue` are the functions of that name |
| `KconfigMenu` | `menu.c` | `FinalizeEntry` and `BuildSubmenus` are the two loops of `menu_finalize` on a menu or a choice; `dep`, `vis`, `rev`, `parent` are the fields of entries and symbols |
| `KconfigDeps` | `symbol.c`, `zconf.y` | extends `KconfigMenu` by its last step: `SymCheckDeps` and what it calls are `sym_check_deps` with its stack and its two flags |
| `Kconfig` | `symbol.c`, `confdata.c`, `conf.c` | `st` holds every symbol's value, visibility and flags; `Calc` is `sym_calc_value` of all; `SetTristate`, `SetInt`, `ConfWrite`, `ConfWriteDefconfig`, `ConfRead`, `Synced` and `Touched` are the functions; a session reads, edits, saves, minimises and reads again |
| `KconfigFrontEnds` | `mconf.c`, `nconf.c`, `gconf.c`, `qconf.cc`, `confdata.c` | `at` is the dialog that waits, or the step of `conf_write`; `changed` is `conf_get_changed()`; a configuration is a value. One action per window or dialog of each front end, `OpenTmp`, `Fill`, `RenameOld`, `RenameTmp` for `conf_write`, and `Restart` for the next session, also after a kill |
| `KconfigProgram` | `main` of the front ends, `zconf.y` | `Parse` is `conf_parse`, a step of `KconfigDeps`; `Main` is what follows it, a step of `KconfigFrontEnds` |
| `BootAnimation` | `bootanimation.cpp`, `modeset.cpp`, `drm_common.cpp` | one program counter per thread; `enabled`, `cnt`, `slot`, `encoder` are the program's variables; what is done under the mutex is one step, and the rest is cut where the threads share something |
| `JpegTables` | table writers, length writers and selectors of `jpegdecinternal.c`, `jpegdechdrs.c`, `jpegdecscan.c` | one action per marker of a stream and per end of a scan; `BaselineWrites`, `NonInterleavedWrites`, `ProgressiveWrites` give the cells of the table buffer, `Lengths` and `ChromaSlot` what the registers say |
| `JpegDecoder` | `jpegdecapi.c`, `jpegdecinternal.c`, `pv_jpegdec_api.cpp` | `dec` is the part of the container that outlives a picture, `hw` what the hardware was started with, `past` the flags a call finds; one action per way through `JpegDecDecode` up to the wait and from the wait to its return; `OneFrame` is the client's call |
| `JpegMarkers` | the marker loops of `jpegdecapi.c`, `jpegdechdrs.c`, `jpegdecutils.c` | a stream is a sequence of segments with their places (`WellFormed`); `walk` is the position in it as each loop keeps it (byte pointer, bit counter, last byte) and what it has found; one action per turn of a loop: `InfoMarker`, `ThumbMarker`, `DecodeMarker` |
| `MC_Download` (also of `CheckHash`), `MC_PkgGeneric`, `MC_KconfigMenu`, `MC_Kconfig`, `MC_JpegHeaders` (of `JpegTables` and `JpegMarkers`), `MC_JpegDecoder` | -- | instances for TLC. `InfoLed`, `NpuPower` and `BootAnimation` are run as they are |
| `Download_proofs` (also of `CheckHash`), `PkgGeneric_proofs`, `InfoLed_proofs`, `NpuPower_proofs`, `KconfigFrontEnds_proofs`, `BootAnimation_proofs`, `JpegHeaders_proofs` (of `JpegTables` and `JpegMarkers`), `JpegDecoder_proofs` | -- | theorems and their proofs |

`CheckHash` is composed with `Download` through `HashCode`: `CheckHash` shows
that the script computes `CheckHashCode`, and `Download` takes the operator for
the call. `Download` implements `DownloadCache`, and `PkgGeneric` implements
`StepOrder`, each by `INSTANCE ... WITH` and a property of a run. `KconfigDeps`
searches what `KconfigMenu` leaves, and both compute with `KconfigExpr`, as does
`Kconfig` for visibilities, selects and defaults. `KconfigFrontEnds` takes a
configuration for a value, and cuts `conf_write` where `Kconfig` has it in one
piece; `KconfigProgram` puts it after `conf_parse`. The three Jpeg modules look at
one program from three sides: which segments there are, what is done with their
tables, and what is kept from one call to the next.

Definitions whose comment starts with "Mutant:" are wrong variants of the
definition that follows them. No specification uses them; they show that each
property is able to fail.

### Assumptions about what is outside

* Digests do not collide, `mv` in a directory is atomic, `rm -f` of a temporary
  succeeds, and `mktemp` returns fresh names (`Download`).
* Make visits goals from left to right, considers each target once, after its
  prerequisites, and keeps what it noted of a stamp to the end of the run, even when a goal
  removes the stamp (`PkgGeneric`). Each recipe takes time: two
  stamps never carry the same time. With `Jobs = 1`, goals follow one another,
  as under the `.NOTPARALLEL` of the Makefile.
* A condition variable may wake spuriously; a critical section is atomic; the
  clock is whole seconds (`InfoLed`). Requests before the LED device is found
  return at once and are not modelled.
* The NPU boots when its reset is released with all rails and its clock on, dies
  without what it needs, and toggles between awake and asleep on a rising edge of
  INT (`NpuPower`). This is what `npu_suspend` and `npu_resume` assume. A GPIO
  that is not exported cannot be read, and `get_gpio` then returns an
  uninitialised variable: either value. `OffReads` says what PMU_SLEEP reads
  while the NPU does not drive it; `{0}` is a line that is pulled down. With
  `{0, 1}` the order of the rails does not hold: `-d` followed by `-r`
  could find the line low or high, and when it reads "asleep" `-r` powers the CPU
  rail alone.
* The graphics driver may refuse a call, at most `MaxFaults` times; a monitor
  is plugged and unplugged at any time, each with one uevent (`BootAnimation`).
* The JPEG hardware decodes what the registers name, or answers with a bus or
  stream error, or times out: its timeout is enabled, so a wait ends. A slot of
  its tables has the size the format allows (`JpegTables`, `JpegDecoder`).
* Files are written whole in `Kconfig`; `KconfigFrontEnds` has the system calls. Each
  may fail, `Faults` times in all: `fopen`, the writing, which nobody looks at, and
  both renames. A file not written by this program, or for another `Config.in`, is
  read as some configuration and counts as changed.

## 3. Runs

Nine runs pass. Three are there to fail: each checks one sentence of the
documentation that the program does not keep.

| Run | Instance | What it shows |
|---|---|---|
| `download` | two builds, three sites, the first one's hash file without a line for the file; any content at the start. Beside them the script alone, on every `.hash` file of at most two lines over all line types, two digests, terminated or not, with every content and no file | `OutputVerified`, `AllOkMeansVerified`, `UnrefutedIsKept`, and `CacheSpec`: the wrappers implement `DownloadCache`; exit code 0 of the script means what its header says of it (`ZeroMatchesAllHashes`) |
| `download_conflict` | the same | violates `NoConflict`: two builds check one bad file, and the second removes what the first has put in its place |
| `info_led` | three requests out of seven modes, two volumes | `LedAgreesWithTimers`, `VolumeIsSaved`, `WifiErrorEnds` |
| `pkg` | a package with a local source directory, staging and target installation, every goal it has, one edit, no run of make after time 7; and, in other behaviours, a package from a tarball that depends on it for its configuration and its patches, no run after time 5 | `TrustedMeansDone`, `InstalledIsBuilt`, `RebuildTakesEffect`, and `OrderSpec`: the engine implements `StepOrder` |
| `npu` | all commands in any order, killed at any step; four polls; an NPU that answers a pulse at any time, also when the command that gave it is gone | `RailsInOrder`, `PowerUpWorks`, `TakenDownOnPurpose`, `ResumeWakes` |
| `npu_resume` | the same | violates `ResumeMeansAwake`: a resume after a suspend that gave up, or was killed, finds the NPU awake, exits with 0, and then the NPU falls asleep |
| `kconfig_menu` | `conf_parse`: menus and choices of three entries over two bools and a tristate, with every dependency, prompt and select of several lists of expressions; three orders of the search. Then, for one of the menus, sessions of all four front ends over two configurations and four file names of which the user types three, one failing system call, sessions killed and started again at any time | `MenusAreRight`, which is `RewritingKeepsMeaning`, `NestingHidesNothing` and `CyclesAreFound` until the session begins; `PreviousSurvives` |
| `kconfig_asked` | one menu, a session of qconf without failing system calls, with files that cannot be read | violates `AskedBeforeQuitting`: a change is made, a file that cannot be read is loaded, the window closes without a question |
| `kconfig` | nine options, two of them choices' and one a number; sessions from every generated configuration and some hundred edited files | `ValuesAllowed`, `SetTakesEffect`, `SavedIsKept`, `MinimalIsEnough`, `BuildSeesConfig` |
| `boot_animation` | three pictures, five buffers, two monitor changes, two refused calls | `NothingStaysBehind`, `OffStaysQuiet`, `PictureStays`, `WorkerComesRound`; and no thread blocks another for good |
| `jpeg_headers` | every frame of two codings and three samplings with every order of table segments and scans, two scans; and any two of twenty-five streams, whole or cut near every segment | `TablesAgree`, `WritesApart`, `OwnTables`; `InfoIsRight`, `WalksAgree`, `WalksEnd` |
| `jpeg_decoder` | any three of eighteen pictures, one per way through the decoder, with and without the post processor, the hardware failing at any wait, or asking for another buffer | `OwnPicture`, `AllCounted`, `GoodPictureReady`, `WithinBuffers`, `Ends` |

### Bounds, and why they are enough

* The script in `download`, `MaxLines = 2`: a failing line may be first, last, before or after a
  matching, foreign or comment line; the theorem covers every length.
* Two builds are what it takes for one to remove or replace the other's file,
  three sites for a failure to be followed by success and by failure. Contents
  are the accepted one and another.
* `MaxRequests = 3`: a display, the request that interrupts it, and one that
  overwrites that request before it is handled. The modes chosen have a
  representative of each branch of the loop body: timed displays (volume and wifi
  error), a lasting one, dark, scrolling, scrolling stopped, and plain.
  Timer ages stop at `Timeout`: from there they only compare as due.
* `MaxTime` bounds the start of a run of make, never its course: the last run
  that starts goes to its end. With 7, a package is built once in full and
  then cleaned, edited, interrupted and rebuilt by at least one later run, which may
  itself be interrupted and repeated. `MaxEdits = 1` separates old from new sources.
* The run of make that builds both packages starts before time 5 and goes to the end;
  it may be the first one, or follow runs that failed, were interrupted or
  cleaned some of the steps.
* `Retries = 4` (100 in the code): the first poll, one in between and the last
  differ; more polls only repeat the middle one. The theorem covers every value.

* `kconfig_menu`: rewriting is local, so the expressions are chosen by what the
  rules look at: every pair of literals of two symbols, comparisons of a bool and a
  tristate with each constant, three and four literals in every nesting, and
  three entries, since a scan for submenus passes over at most one entry to
  reach the next. Menus with small dependencies among all three entries make
  the cycles, directly, by selects and through a choice.
* `kconfig`: one option per kind of dependence (prompt, select, default, range, choice,
  optional choice, number). One edit follows each reading or saving (`MaxEdits = 1`):
  sessions still chain edits by way of files, so any sequence of values is met.
* Sessions in `kconfig_menu`: two configurations are old and new. The names are `.config`, its
  `.old`, which the user may also save to, and an alternative; one more is where the
  old versions of those two go. One failure is enough for each exit of `conf_write`;
  what follows it, further saves and sessions, is unbounded, and so are edits and
  kills. Sessions do not look at the menus, so they are followed for one of them.
* `boot_animation`: three slots hold buffers and a fourth one is filled, so five
  buffers leave one more than the program may hold; the third picture makes the
  slots rotate. Two monitor changes meet every place of the two other threads,
  and two failures are what lets a picture disappear by right.
* `jpeg_headers`, tables: two scans per picture are what it takes for a table to be
  replaced between scans; table numbers are those a baseline stream may name and
  two of the four of a progressive one; 160 and 162 are lengths with and without
  room left in a cell; the quantisation tables are named out of their order. Both answers
  to the question for the hardware's abilities are checked. The theorems cover every
  length, assignment and number of scans.
* `jpeg_decoder`: three pictures: one leaves flags, one finds them, one shows
  whether they have gone. Sizes are chosen on and beside the alignments, and
  at 4 MB, where a field of the register overflows.
* `jpeg_headers`, markers: a stream is cut 0, 1, 2, 3 and 9 bytes after the start of every
  segment: before and in its marker, its length, and its body. One stream makes the
  turns of the loop in a thumbnail, which count as bits, use the stream up before its end.
  The theorems cover every well-formed stream and every cut.

`CHECK_DEADLOCK FALSE` is set where the system really stops: the script has
exited and all builds have ended, the bound on runs of make is reached, the menu is
final, or no further picture is handed over. `boot_animation` checks deadlock.

### Fairness

* `InfoLed`: both threads are scheduled and time passes. Nothing is assumed of
  clients or of spurious wakeups; `WifiErrorEnds` holds because the poller
  repeats its request until it is handled.
* `BootAnimation`: each thread goes on while it can; the monitor, other
  programs and the driver owe nothing.
* `JpegDecoder`: the call runs on, and a wait for the hardware ends, since the
  driver enables the hardware's timeout. `JpegMarkers`: the loop runs on.
* The other modules have none: their properties are safety properties.

## 4. Properties worth a comment

* `UnrefutedIsKept` depends on the order of the exit codes of `check-hash`: a
  site whose hash file has no line for the file answers 3, a hard error that
  leaves the output alone, where 2 would have removed it.
* `AllOkMeansVerified` survives the race at `dl-wrapper:63` (section 6): the build that
  removed the file must install another before it succeeds. `SuccessInv` is the
  reason: while the output is missing, some build is neither content nor about
  to judge it.
* `TrustedMeansDone` and `InstalledIsBuilt` are about what make would trust, not
  about stamps alone: after an interrupted `clean-for-rebuild` stamps are left
  whose prerequisites are gone or newer, and they are wrong and harmless.
* `RebuildTakesEffect` compares versions of sources: a rebuild synchronises,
  compiles and installs sources at least as recent as when it began.
* `LedAgreesWithTimers` relates two timers, the slot and the display under
  requests that overwrite one another.
* `CacheSpec`: `DownloadCache` says how little is promised. Between the look at a
  refutable file and its eviction another user may install an acceptable one, which goes
  then. An eviction without such a look is not allowed, nor is a file that fails the check.
* `PowerUpWorks` holds for every state an interrupted command can leave.
* `ResumeWakes` and `TakenDownOnPurpose` are about the commands that began with no pulse
  unanswered (`overtook`). They may follow commands that were killed or gave up, as long
  as their pulses have been answered since, late or not; a command that overtakes an
  answer may be told the wrong thing, which is what `npu_resume` shows.
* `AskedBeforeQuitting`: a front end that ends without having asked leaves in the
  file of the session what the symbols are. `kconfig_asked` refutes it for qconf; the ways
  in which the other three lose a change are in section 6.
* `PreviousSurvives`: wherever saves stop, killed or failed, and over several sessions,
  what the file held before them is under its name or `.old`. Without a `.config` the
  next save has nothing to move aside and leaves `.old` alone.
* `RewritingKeepsMeaning` compares the rewritten dependencies with the written
  ones for every value the symbols can have. Tristates are never m here, for no
  option turns modules on: with `Modules = TRUE` the property is violated, as
  `expr_eliminate_dups` takes `!(T || T) || T` to y.
* `NestingHidesNothing`: an entry is nested by a syntactic test on rewritten
  dependencies, and must be visible only where the entry above it can be opened.
* `CyclesAreFound` holds for each order of the symbols although the search, once
  it has left a symbol, never enters it again.
* `SavedIsKept`, `MinimalIsEnough` and `BuildSeesConfig` are stated for states in
  which no value is left over from before something it depends on was taken off
  (`NothingStale`): a file with a number out of range can produce others (section 6).
  `SetTakesEffect` exempts a number that was taken off on reading and is set again
  to the text the symbol still holds: `sym_set_string_value` (`symbol.c:677`) sees no
  change and computes nothing.
* `PictureStays`: the rotation destroys the oldest buffer before its successor
  exists; it is on the screen only when two newer ones could not be shown.
* `OwnTables` follows a table from the stream to the slot the hardware reads. It
  exempts progressive pictures that never define a table. `TablesAgree` exempts
  `TailLost`, the end of a table with more than 160 values where the code drops it (section 6).
* `WorkerComesRound` says that while the animation is on the worker comes back to
  the place where it looks at `vsync_cnt`. It does not say that a request is heard: one made
  during an animation or a video is lost (section 6).
* The properties of `JpegDecoder` are about the calls that find none of four flags an
  earlier call may leave (`Undisturbed`): `header`, after a failed wait or a refused scan
  header, for one call; `scan`, after a refused further scan, for one call or until one is
  not refused; `slices`, after a picture taken in slices, and `refill`, the wish for a
  buffer, for good. `LeftBehind` says which call finds which. All other things that can happen to a picture (bus
  and stream errors, timeouts that the hardware reports, refused pictures, missing components,
  pictures of other sizes and samplings) leave later pictures alone, and this is what the properties show.
* `OwnPicture` names the three settings that an earlier picture does hand on: the restart
  interval and the two fill flags.
* `AllCounted` relates what was decoded to what is reported. Components counted for an
  earlier picture count for a later one (`old`), and slices add up only if `SliceCount`
  was zero, which it is not after a picture of slices.
* `WalksAgree` says that the client's buffers, allocated from the first walk, and the
  registers, written from the second, speak of one picture, though the first
  counts a bit too many per turn and the second looks two bytes too far.

## 5. Theorems

| Theorem | For every | Rests on |
|---|---|---|
| `Download_proofs!ScriptTypeCorrect`, `ExitCodeCorrect` | hash file, of any length, and content | `LoopInv`: no line read so far has failed, and `nb_checks` is zero exactly if none was about the file |
| `Download_proofs!ZeroMatches` | terminated hash file and content | `ExitCodeCorrect`, and the lemma `ZeroIsClean` about the lines `CheckHashCode` passes over |
| `Download_proofs!TypeCorrect`, `OutputIsVerified`, `OutputIsShared`, `SuccessIsShared` | builds, sites, contents, hash files | `IInv` |
| `Download_proofs!WrapperRefines` | the same | `IInv` |
| `Download_proofs!KeepsUnrefuted` | the same | `KeptInv` |
| `PkgGeneric_proofs!TypeCorrect`, `StampsVouch`, `InstalledIsCurrent` | packages, dependencies, commands, jobs | `IInv` |
| `PkgGeneric_proofs!StepsInOrder` (refinement of `StepOrder`) | packages, dependencies, commands | `OrderInv`; assumes `Jobs = 1`, `MakesLast` |
| `PkgGeneric_proofs!Rebuilt` | packages, dependencies, commands | `OrderInv`, `RebuildInv`; assumes `Jobs = 1`, `MakesLast`, `RebuildGoals` |
| `InfoLed_proofs!TypeCorrect`, `DisplayCorrect` | requests and volumes, any number | `IInv` |
| `NpuPower_proofs!TypeCorrect`, `RailsComeUpInOrder` | number of polls, answers and kills | `IInv`; assumes `OffReads = {0}` |
| `NpuPower_proofs!PowerUp` | the same | `ResetInv`; assumes `OffReads = {0}` |
| `NpuPower_proofs!Handshake`, `ResumeWakesNpu`, `OnlyTakenDownOnPurpose` (an action property) | the same | `HandshakeInv`; assumes `OffReads = {0}` |
| `KconfigFrontEnds_proofs!SessionTypeCorrect`, `SavesKeepPrevious` | configurations, files, names a user may type, failures, number of sessions and of saves in each | `FrontEndsInv` |
| `BootAnimation_proofs!TypeCorrect`, `BuffersBounded`, `RestIsKept` | pictures, buffers, uevents and failures | `IInv` |
| `BootAnimation_proofs!ScreenIsKept` (an action property) | the same | `ShownInv` |
| `JpegHeaders_proofs!StreamTablesUsed` | sets of markers, table numbers, scans and pictures | `OwnInv` |
| `JpegHeaders_proofs!TablesApart` | lengths of the tables up to 162, numbers of scans | `PlaceInv` |
| `JpegHeaders_proofs!SlotsHoldTheTables` | the same | `AgreeInv` |
| `JpegHeaders_proofs!InfoTold`, `WalksTogether` | streams of well-formed segments, where they are cut, number of pictures | `MarkersInv` (`PlacesKept`) |
| `JpegDecoder_proofs!TypeCorrect`, `DecodesOwnPicture`, `GoodPicturesReady`, `StaysWithinBuffers` | pictures, their sizes, scans and streams, number of calls | `PictureInv` |
| `JpegDecoder_proofs!ReadyPicturesCounted` | the same | `PictureInv`, `SliceInv` |

Each is Init => IInv, IInv /\ [Next]_vars => IInv', and the conclusion. TLC has
checked each inductive invariant on the instance of the module's run; that of
`KconfigFrontEnds_proofs` with the same names, two failures and any files at first.
`OutputShared` and `LoopInv` are stated by theorems alone.

* `Download!IInv` adds to the properties where each temporary exists and from
  which command on it is verified and shared: what the rename
  installs was verified several commands earlier. `SuccessInv` is about all
  builds at once, for one may remove the output wherever the others are.
* `WrapperRefines` maps a build's program counter to `running`, `evicting` (between the
  verdict on the old output and its removal), `ok`, `failed` or `killed`. It asks nothing of
  the hash files: where `-H` is empty, as the recipes pass it (section 6), a file that is
  removed between the test for it and `check-hash` is accepted, and `Acceptable`
  contains `NoFile` for that site.
* `Download!KeptInv`: while the output is as it was at the start and nothing
  refutes it, no build gets past its check of the existing file: `check-hash`
  answers 0, which is success, or a hard error, and never 2.
* `PkgGeneric!IInv`: no stamp is from the future, what make has noted is the time
  of the stamp or the stamp is gone since, and an installation runs only when
  make is through with the build step it installs from. The last one is what
  keeps `ver` of the two equal while both are trusted.
* `PkgGeneric!OrderInv`: what make has considered it has considered after all that
  comes before it (`VisitedInOrder`), and has found or left complete
  (`SeenIsMade`); an output that is missing or torn has no stamp make would trust
  when it comes to it (`TornIsStale`), so that a step is repeated before its
  users are looked at. The last one survives every interruption, and carries the
  refinement from one run of make to the next.
* `PkgGeneric!RebuildInv` follows a rebuild through a run: a stamp that was removed
  is there again only because this run made it (`CleanedIsRun`), a goal that is
  done has had all it needs considered (`MadeIsSeen`), and what this run made is as
  recent as the sources it found (`MadeFromAsked`).
* `Jobs = 1` is what `.NOTPARALLEL` gives. `MakesLast` says that no goal
  that removes stamps or a directory follows one that makes; every goal of `pkg-generic.mk`
  is of that form (`<pkg>-rebuild` is its `clean-for` goals, then `<pkg>`), and
  so is one of them followed by targets to make. `make bar-rebuild foo-rebuild` is not,
  and does not do what it says (section 6). `RebuildGoals` says
  what `pkg-generic.mk:803-808` makes of `<pkg>-rebuild` for a package that
  installs something. TLC evaluates both on the commands of the runs.
* `InfoLed!IInv` adds `ScrollHasLeds`: each request to scroll sets a number of
  LEDs, so that the guard of the loop does not turn a display into an idle pass.
* `NpuPower!IInv` has one conjunct per command for what it has done so far, and
  `BootedIsPowered`: the reason why `-r`, which powers the late rails on the word of
  PMU_SLEEP alone, finds the first rails up.
* `NpuPower!NpuIsFed` ties the NPU's state to the lines it needs. `ResetSoFar` says
  what `npu_reset` has done up to each step, from any state; nothing of it needs
  the state it was started in, and so `PowerUp` holds after every interruption.
* `NpuPower!AskedOnce`: a command that began with no pulse unanswered pulses at most once,
  after it has read the state, so that what it has read stays true until it acts on it
  and the answer it waits for is to its own pulse. Of a command that began while an
  answer was owed it says nothing; it is established anew by the next that does not.
* `KconfigFrontEnds_proofs!FrontEndsInv`: `PreviousSurvives` is not inductive, since
  moving the file aside keeps only what is then under its name; `PreviousInPlace` says that
  until then this is what was there before the first try.
  The four programs are first reduced to seven kinds of steps (`UserKinds`), so that what
  is proved of a kind holds wherever a front end offers it. A behaviour of
  `ProgramSpec`, which the run checks, is one of `SessionSpec` seen through the variables of the
  session: `Parse` leaves them alone, and `Main` is a step of it.
* `BootAnimation!IInv` adds `Places`: which slots hold buffers at which step of the
  worker, that no buffer is in two places, and that the driver holds exactly those.
  The bound of three follows by counting (`AtMostThree`). `rested` is tied to
  where the worker may be, whichever of the two threads switched last.
* `BootAnimation!ShownInv` says which slot holds the buffer on the screen at each
  step of the worker, and that it is in the older slots only if as many newer
  ones could not be shown.
* `JpegHeaders_proofs!OwnInv` remembers which tables the stream has defined
  (`MarkersRemembered`); `PlaceInv` bounds the state the places are computed from,
  and `KeptBound` and `QuantLength` bound the places. `AgreeInv` adds what a scan
  header may name. That the slots agree is one lemma for each of the three writers
  (`BaselineAgrees`, `AloneAgrees`, `ProgressiveAgrees`) and one for the quantisation
  tables, none of which depends on how the state was reached.
* `JpegHeaders_proofs!MarkersInv`: where each walk is in the stream, for a stream that is
  the first of its instance or whole (`Whole`). The outer loop of the first walk is i bytes
  into the k-th segment (`AtSegment`), the loop in a thumbnail i pairs of bytes into one
  of its segments (`AtThumbnail`), or the walk has read less than a marker from a cut stream
  (`CutOff`); it has found what the k - 1 segments before say (`FrameSoFar`, `ThumbSoFar`),
  all of which it was to accept (`Passed`), and its count is ahead of its place by
  the turns made so far. The second walk counts what it reads (`DecodeAt`) and meets only
  what the first has passed. `InfoIsRight` and `WalksAgree` speak of the ends of the walks
  and are not inductive. `Whole` asks that the data after the scan header are more than the bits
  the first walk counts and does not read; without it the stream seems to end early.
* The place of a segment follows from those before it: `Rising`, and from it that what is at
  a place is one segment's (`Bytes`), are proved by induction over the naturals, for a set
  in place of a predicate (`NaturalsOf`, from the least element of a well-founded order).
  `MarkersAssumption` asks for well-formed streams: segments that follow each other, lengths
  as the format has them, one frame header, at most one thumbnail with its frame header,
  and the scan header last. The places and turns noted in a segment are what that
  layout makes them.
* `JpegDecoder_proofs!PictureInv` is what a flag that outlives a picture may say, place
  by place. `Opened`: before the headers of a picture are read nothing
  of an earlier one is to be seen, save what `past` names. `Decoding`: the
  container and the hardware have the headers of one scan of the picture of the call, and the
  hardware starts where that scan does. `Between`: a scan of a non-interleaved picture is
  done, and the components counted include those of every scan passed. `Residue`:
  what a call leaves is among what `LeftBehind` says, and it holds of every call, also of those that find a
  flag. `OwnPicture` alone is not inductive, since
  it says nothing of the container while no picture is with the hardware, and the next
  picture is started from that container.
* `StaysWithinBuffers` follows from `Decoding` by arithmetic: the sizes are computed
  three times, for the client, for the hardware and for the post processor, each rounded in its
  own way, and agree for every width and height (`ToldSizes`, `Halves`, `Fits`).
* `JpegDecoder_proofs!SliceInv` counts the rows: after c slices of height s the next begins
  at row c * s, and the last is as high as what is left. `HeightOfNext` shows that its height
  fits the eight bits of the register, for which the build's limits on a picture are needed.
* `DecoderAssumption` says what `IsPicture` asks of a stream: sizes within the limits of the
  build (`jpegdeccontainer.h:64-76`), and that the components of a baseline picture are
  in one scan or each in one of its own, which is a restriction of the format's pictures.

The constants' assumptions (`HashConstants`, `InputsAssumption`,
`DownloadConstants`, `PkgConstants`, `InfoLedConstants`, `RetriesAssumption`,
`OffReadsAssumption`, `KillsAssumption`, `ImagesAssumption`, `BoundsAssumption`, `NoBufAssumption`,
`FrontEndsAssumption`, `TablesAssumption`, `DecoderAssumption`, `MarkersAssumption`,
`SymbolsDistinct`, `OrderComplete`, `GoalsAssumption`) are types, and what the code or the
format fixes.

Model-checked only: liveness (`Ends`, `VolumeIsSaved`,
`WifiErrorEnds`, `WorkerComesRound`, `WalksEnd`), which needs fairness and ENABLED;
what the configuration system computes (`MenusAreRight` and the properties of `Kconfig`),
where expressions are trees, operators recursive and all symbols computed by a fold, so
that what they compute for every input is out of the
provers' reach (induction over data). What a package needs (`PkgGeneric!Needed`) is stated as the
least set of nodes that is closed, not computed by a recursion, so that it can be proved about.

## 6. Seen in the code

Three of these have a run (section 3); the others were met while the modules were written.

Build:

* `check-hash:87`: `while read` passes over a last line that has no newline, so
  that line is not checked, though the header says all hashes must match.
  `ZeroMatchesAllHashes` is stated for terminated files.
* `dl-wrapper:63`: the output is removed long after it has been checked. A build that
  found a bad file removes the good one another has installed meanwhile, and when
  its own download fails, the other, which exited 0, has lost its file. The help
  text (`dl-wrapper:155`) says concurrent downloads do not conflict (`download_conflict`).
* `dl-wrapper:103`, `:118`, `:134`: under `set -e` a failing `mktemp`, `chmod` or `rm` ends the
  wrapper with its temporaries in place, and so does a kill; there is no trap. The help
  text (`dl-wrapper:157`) says no temporaries are left. `SetE` and `Kill` leave them.
* `pkg-download.mk:147`: the recipes pass `-H '$($(2)_HASH_FILE)'` where `$(2)` is the
  file name, not the package: the argument is empty and no hash is checked, which
  the manual (`adding-packages-directory.txt:522`) says is done.
* `make bar-rebuild foo-rebuild`, bar depending on foo: foo has been considered for
  bar when its stamps are removed, and is not rebuilt.
* An interrupted `dirclean` may leave stamps without the files they vouch for;
  `TrustedMeansDone` exempts them.
* `Makefile`, `.NOTPARALLEL`: without it `<pkg>-rebuild` is only ordered left to
  right, and `make -j` may take the package before its stamps are removed.

Configuration:

* `symbol.c:1282`: the symbol a cycle closes at is turned into no result before it
  reaches `conf_parse`, which counts errors and stops if there are any
  (`zconf.y:511-515`). The count stays 0 whatever the menus: "recursive dependency
  detected!" is printed as an error, and the program goes on.
* `confdata.c:458`: a number out of range is taken off and computed again alone. What
  depends on it is computed again by `conf_write_autoconf` but not by
  `conf_write`, so that `.config` and `auto.conf` may then disagree.
* `confdata.c:825`: the old file is renamed away before the new one is renamed in. A
  kill between leaves no `.config`; `PreviousSurvives` says where it is.
* `confdata.c:822`: neither `fprintf` nor `fclose` is looked at: on a full disk the
  torn file takes the place of the good one, and is reported as written.
* `confdata.c:411`: `conf_read` clears the counter before it opens the file, and a
  complete file leaves it at zero. After failing to load a file, in any front end, or loading
  another one in gconf or qconf, the program ends without its question, although the
  comment on `closeEvent` says "ask for saving configuration before quitting"
  (`qconf.cc:1638`, run `kconfig_asked`). Saving under another name in gconf does the same,
  and so does a full disk in all four.
* `confdata.c:828`: `conf_write` takes a mark from each symbol it writes. When its last
  rename fails, the counter of changes stays above zero, so the next save computes no
  symbol again (`:783`), finds no marks, writes headings only, moves the good file
  to `.old` and reports success. mconf's help promises to "save the current
  configuration to a file of your choosing" (`mconf.c:120`).
* `mconf.c:999`: at SIGINT the question "Press <ESC><ESC> to continue Buildroot
  configuration" is asked by a handler that exits whatever the answer.
* `gconf.c:461`: an error of the save at the end is written into the window that closes.
* `qconf.cc:1501`: "Save As" asks for a name and saves to `.config`.

LED service:

* `InfoLed.cpp:386`: the poller notifies once, without the mutex of the condition
  variable; the main loop, between its predicate and its wait, misses it, and the
  volume stays on display until something else happens.
* `InfoLed.cpp:449`: a request for the state shown last, made before the loop's idle
  pass, is taken for the old one and not shown.
* `InfoLed.cpp:474`: the guard against scrolling tests a count that the very
  request has set, so it never applies (`ScrollHasLeds`).

NPU:

* `npu_powerctrl.c:286`, `:296`: after a suspend that gave up or was killed with its pulse given, a
  resume reads "awake" and exits with 0; then the NPU answers and sleeps (`npu_resume`).
  Or it answers first, and the next suspend reports success with two rails and the clock on.
* `npu_powerctrl.c:256`: a suspend that begins before the answer to an earlier one finds the NPU
  awake and pulses again. If the NPU answers the earlier pulse only then, the second one may wake it between
  the last poll and the cut of its rails. `TakenDownOnPurpose` leaves such a suspend out.
* `npu_powerctrl.c:147`: an init interrupted half way cannot be repeated, and
  `main` reports success.

Boot animation:

* `stop_boot_thread` is never called. A request made during an animation, or while a
  video is shown, is lost, for `vsync_cnt` is incremented after it, without the mutex (`bootanimation.cpp:861`).
* The encoder and the connector are freed by the uevent thread while the worker may
  read them (`drm_common.cpp:115`). A buffer `drmModeAddFB2` refuses is not freed
  (`bootanimation.cpp:737`), and a buffer that cannot be created is a null pointer in
  `bo_create`.
* `HOTPLUG=1` is compared the wrong way round, and `isHdmiConnect` is assigned where it
  is tested, so that a CVBS mode is never set.

JPEG decoder:

* After a scan of a non-interleaved picture the stream is found by the bus address in a
  register, used as a pointer (`jpegdecapi.c:2380`). An empty scan writes through the
  wrong handle and to a table buffer that was never allocated. The model
  has both as faults.
* A scan header beyond 4 MB does not fit the field of the register
  (`jpegdecinternal.c:1000`); `WithinBuffers` exempts it.
* `jpegdecapi.c:2562`: a failed wait returns with the headers and registers of its picture,
  and the next call is decoded on them: an old frame into the client's buffer for the new one,
  which may be smaller. A refused scan header, or a refused further scan, spoils the call after
  it in the same way. After slices as well, the client calls for ever.
* `jpegdecapi.c:2098`: the pause flag of an interrupted picture of slices is cleared only when
  a scan of a picture of separate scans is done; until then each start of the hardware goes on
  where the last one stopped. A following non-interleaved picture may go on for ever, and
  one with 4:1:1 sampling wedges the instance.
* `jpegdecapi.c:2465`: components are counted from one picture to the next. After a picture of separate
  scans that was not complete, a later one is reported ready before its last scan.
* `SliceCount` is not cleared after a picture of slices and a baseline one, and the
  next counts its rows from there. Restart interval and fill flags are set and never cleared.
* `jpegdecapi.c:2229`: when the hardware asks for input it has had, which it may do on a
  faulty stream, the client (`pv_jpegdec_api.cpp:514`) hands it the same buffer again, for ever.
* `jpegdecinternal.c:1509`: the last two values of an AC table of 162 are not written where
  the picture has defined one AC table only, or a progressive scan is of a chroma component (`TailLost`).
* `pv_jpegdec_api.cpp:543`: the buffer of a picture may be freed twice, or before the
  application has seen it; a short input after a good picture returns the result
  of the earlier one.
* A progressive picture decoded without tables of its own gets the standard ones back
  between calls; a table with a number above 1 is read and never written.
* The first walk takes the restart interval for the length of a segment
  (`jpegdecapi.c:822`), refuses a whole picture for its thumbnail's size or an even
  number of fill bytes in the thumbnail, and counts one bit more per turn
  (`:541`), so that a stream of many segments and hardly any data is refused. The
  second refuses components that are not numbered one after the other, TEM and DNL,
  which the first takes. `info.init` stands from the stream before (`:1436`).
* `color_conv` is 1 in the client's constructor, and the call that would change it
  is commented out: slices, and decoding without the post processor, sleep in this
  build. They are checked all the same.

## 7. Not modelled

* Data and formats: codecs, register tools, table and image writers, digest
  programs, the argument translation of the toolchain wrapper.
* Other projects' code: packages' recipes and patches, emulators.
* Within modelled components: `legal-info`, `source`, `external-deps`, graph and
  show goals, goals for single steps, and the prerequisites common to all packages
  (`PkgGeneric`); delays, the 32 kHz clock, PCIe and USB (`NpuPower`); SPI
  frames (`InfoLed`).
* Configuration: the parser, string and hex options, environment symbols, modules at run
  time, entries without a prompt (`KconfigMenu`), optional choices there, the C
  header and the search; of the front ends layout, widgets, display options, a
  SIGINT while a file is written or the question is open, a directory given as a name,
  and `KCONFIG_OVERWRITECONFIG`, which Buildroot does not set.
* Mode setting started with a mode: it sets it once and sleeps. The rules by which
  a resolution is chosen and properties are looked up.
* JPEG: the bits of the entropy-coded data (the hardware's), streams
  handed over in parts, the decoding of thumbnails, progressive pictures after their tables
  (refused in this build), the release of an instance, ill-formed
  segments, an AVI1 segment's clean-up, an SOS before the frame header of a thumbnail, scans of
  two components. The pool of buffers (`allocator_drm.c`, `vpu.c`) and the register
  access (`hw_jpegdecapi.c`).
* Planned components: section 8.

## 8. Plan

Written so far, in this order: `HashCode`, `CheckHash`, `DownloadCache`,
`Download`, `InfoLed`, `StepOrder`, `PkgGeneric`, `NpuPower`, `KconfigExpr`,
`KconfigMenu`, `Kconfig`, `BootAnimation`, `JpegTables`, `JpegDecoder`, `JpegMarkers`,
`KconfigDeps`, `KconfigFrontEnds`, `KconfigProgram`, each with its run, then its proofs. Next, the most important
behaviour first:

1. `JpegBuffers` (`allocator_drm.c`, `vpu.c`, the client's `pictureMem`): the pool of
   buffers with its reference counts and file descriptors. Properties: a buffer
   is freed once, and not while the application or the hardware has it.
2. `ApplyPatches` (`apply-patches.sh`): recording a patch before applying it, the
   repeated step after an interruption, decompressor failures; composed with
   the `patched` step of `PkgGeneric`. Properties: a tree marked as patched has each
   patch once; a repeated step ends the same way.
3. `SuspendApi` and its hook: registration, calls, listeners that die.
   Properties: each live listener is told once per suspend; the hook ends.
4. `Console`: brightness, sound path, display and restarts of the USB gadget,
   as handlers that read and write files concurrently.
5. `Images` (`fs/common.mk`) under `-j`, and `RtwConfig`'s channel loop.
6. Algorithms: user allocation in `mkusers`, transitive reduction in
   `graph-depends`, each against a reference definition.
7. Proofs of what the configuration system computes: its recursive operators would have
   to be written as recursive functions on expressions of bounded depth first.
