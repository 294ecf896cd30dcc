---------------------------- MODULE BootAnimation ----------------------------
(***************************************************************************)
(* The boot animation and mode setting program (bootanimation.cpp,         *)
(* modeset.cpp, drm_common.cpp), started without a mode: the main thread,  *)
(* the thread that follows the kernel's uevents and the worker that shows  *)
(* the pictures.  They share enabled_ and the condition variable, under a  *)
(* mutex, and vsync_cnt and the connector and encoder in use, without.     *)
(*                                                                         *)
(* stop_boot_thread is never called, so nothing ever asks the worker to    *)
(* exit.  What is done under the mutex is one step.                        *)
(***************************************************************************)
EXTENDS Integers, FiniteSets

CONSTANTS
    Images,     \* mImageCount
    Bufs,       \* the buffers that can exist at once
    NoBuf,      \* no buffer
    MaxUevents, \* how many uevents there are at most
    MaxFaults   \* how many calls of the graphics driver fail at most

ASSUME ImagesAssumption == Images \in Nat \ {0}
ASSUME BoundsAssumption == MaxUevents \in Nat /\ MaxFaults \in Nat
ASSUME NoBufAssumption == NoBuf \notin Bufs

Slots == 0..3                       \* MAX_OUTPUT_RSV_CNT buffers are kept
Monitors == {"none", "cvbs", "hdmi"}

VARIABLES
    main,       \* where the main thread is
    upc,        \* where the uevent thread is
    wpc,        \* where the worker is
    image,      \* the picture it is at
    buf,        \* the buffer it is filling
    enabled,    \* enabled_
    signalled,  \* cond_ was signalled while the worker waits
    cnt,        \* vsync_cnt; only 0 is told from the rest
    encoder,    \* g_drm_encoder: "none", "live", or "freed" while it is replaced
    slot,       \* mBufSlotInfo
    live,       \* the buffers the driver holds
    shown,      \* the buffer on the screen
    active,     \* is there an active crtc?
    monitor,    \* the monitor plugged in
    video,      \* does another program show a video?
    uevents,    \* uevents not read yet
    budget,     \* uevents and faults still to come
    leaked,     \* buffers given up because they could not be added
    missed,     \* pictures in a row that could not be shown
    rested      \* the worker has come to wait since enabled_ was cleared

shared == <<enabled, signalled, cnt>>
screen == <<shown, active, encoder>>
ghosts == <<leaked, missed, rested>>
world == <<monitor, video, uevents, budget>>
frames == <<image, buf, slot, live>>
vars == <<main, upc, wpc, shared, screen, ghosts, world, frames>>

TypeOK ==
    /\ main \in {"boot", "enable", "idle"}
    /\ upc \in {"none", "read", "update", "off", "set", "connector", "encoder", "on"}
    /\ wpc \in {"none", "top", "waiting", "vblank", "check", "prepare", "show", "keep",
                "count", "crashed"}
    /\ image \in 0..Images /\ buf \in Bufs \cup {NoBuf}
    /\ enabled \in BOOLEAN /\ signalled \in BOOLEAN /\ cnt \in {0, 1}
    /\ encoder \in {"none", "live", "freed"}
    /\ slot \in [Slots -> Bufs \cup {NoBuf}] /\ live \subseteq Bufs
    /\ shown \in Bufs \cup {NoBuf} /\ active \in BOOLEAN
    /\ monitor \in Monitors /\ video \in BOOLEAN
    /\ uevents \in Nat /\ budget \in [uevents : Nat, faults : Nat]
    /\ leaked \subseteq Bufs /\ missed \in Nat /\ rested \in BOOLEAN

\* drm_init has read the connectors; the mode is the one the kernel left.
Init ==
    /\ main = "boot" /\ upc = "none" /\ wpc = "none"
    /\ image = 0 /\ buf = NoBuf
    /\ enabled = FALSE /\ signalled = FALSE /\ cnt = 0
    /\ slot = [i \in Slots |-> NoBuf] /\ live = {} /\ shown = NoBuf
    /\ monitor \in Monitors /\ video \in BOOLEAN
    /\ active = (monitor # "none")
    /\ encoder = IF active THEN "live" ELSE "none"
    /\ uevents = 0
    /\ budget = [uevents |-> MaxUevents, faults |-> MaxFaults]
    /\ leaked = {} /\ missed = 0 /\ rested = FALSE

Running == wpc # "crashed"
Fault == budget.faults > 0 /\ budget' = [budget EXCEPT !.faults = @ - 1]

------------------------------------------------------------------------------
(***************************************************************************)
(* The switch of the animation.                                            *)
(***************************************************************************)
\* Mutant: the worker is not woken.
VsyncControl_Silent(on) ==
    /\ enabled' = on
    /\ cnt' = 0
    /\ rested' = (~on /\ wpc = "waiting")
    /\ UNCHANGED <<signalled, leaked, missed>>

\* vsync_control: a signal nobody waits for is lost.
VsyncControl(on) ==
    /\ enabled' = on
    /\ signalled' = (signalled \/ wpc = "waiting")
    /\ cnt' = 0
    /\ rested' = (~on /\ wpc = "waiting")
    /\ UNCHANGED <<leaked, missed>>

------------------------------------------------------------------------------
(***************************************************************************)
(* The main thread starts the uevent thread before it prepares what the    *)
(* two share.                                                              *)
(***************************************************************************)
StartUevents ==
    /\ Running /\ upc = "none"
    /\ upc' = "read"
    /\ UNCHANGED <<main, wpc, shared, screen, ghosts, world, frames>>

\* start_boot_thread
StartBootThread ==
    /\ Running /\ main = "boot" /\ upc # "none"
    /\ main' = "enable" /\ wpc' = "top"
    /\ enabled' = FALSE
    /\ UNCHANGED <<upc, signalled, cnt, screen, ghosts, world, frames>>

Enable ==
    /\ Running /\ main = "enable"
    /\ main' = "idle"
    /\ VsyncControl(TRUE)
    /\ UNCHANGED <<upc, wpc, screen, world, frames>>

------------------------------------------------------------------------------
(***************************************************************************)
(* The uevent thread.  A change of a display device makes it look at the   *)
(* connectors, a hotplug or not: HOTPLUG=1 is compared the wrong way round.*)
(***************************************************************************)
ReadUevent ==
    /\ Running /\ upc = "read" /\ uevents > 0
    /\ upc' = "update" /\ uevents' = uevents - 1
    /\ UNCHANGED <<main, wpc, shared, screen, ghosts, monitor, video, budget, frames>>

\* updateModes, which looks at the connectors first.
UpdateModes ==
    /\ Running /\ upc = "update"
    /\ IF monitor = "none"
       THEN upc' = "off" /\ VsyncControl(FALSE)
       ELSE upc' = "set" /\ UNCHANGED <<shared, ghosts>>
    /\ UNCHANGED <<main, wpc, screen, world, frames>>

\* Without a monitor every crtc is switched off, if the driver agrees.
SwitchOff ==
    /\ Running /\ upc = "off"
    /\ upc' = "read"
    /\ \/ active' = FALSE /\ shown' = NoBuf /\ UNCHANGED budget
       \/ Fault /\ UNCHANGED <<active, shown>>
    /\ UNCHANGED <<main, wpc, shared, encoder, ghosts, monitor, video, uevents, frames>>

\* setMode, which is only reached for HDMI: isHdmiConnect is assigned, not
\* compared.
SetMode ==
    /\ Running /\ upc = "set"
    /\ IF monitor # "hdmi" THEN upc' = "on" /\ UNCHANGED <<active, budget>>
       ELSE /\ upc' = "connector"
            /\ \/ active' = TRUE /\ UNCHANGED budget
               \/ Fault /\ UNCHANGED active
    /\ UNCHANGED <<main, wpc, shared, shown, encoder, ghosts, monitor, video, uevents, frames>>

\* drm_update: without a connector the old encoder stays.
GetConnector ==
    /\ Running /\ upc = "connector"
    /\ IF monitor = "none" THEN upc' = "on" /\ UNCHANGED encoder
       ELSE upc' = "encoder" /\ encoder' = IF encoder = "none" THEN "none" ELSE "freed"
    /\ UNCHANGED <<main, wpc, shared, shown, active, ghosts, world, frames>>

GetEncoder ==
    /\ Running /\ upc = "encoder"
    /\ upc' = "on"
    /\ encoder' \in IF active THEN {"live", "none"} ELSE {"none"}
    /\ UNCHANGED <<main, wpc, shared, shown, active, ghosts, world, frames>>

SwitchOn ==
    /\ Running /\ upc = "on"
    /\ upc' = "read"
    /\ VsyncControl(TRUE)
    /\ UNCHANGED <<main, wpc, screen, world, frames>>

------------------------------------------------------------------------------
(***************************************************************************)
(* The worker: vsyncThread and its Routine.                                *)
(***************************************************************************)
WorkerStep(from) == Running /\ wpc = from

Top ==
    /\ WorkerStep("top")
    /\ wpc' = IF enabled THEN "vblank" ELSE "waiting"
    /\ signalled' = FALSE
    /\ rested' = ~enabled
    /\ UNCHANGED <<main, upc, enabled, cnt, screen, leaked, missed, world, frames>>

\* Mutant: what enabled_ is after the wait does not matter.
AfterWait_Unchecked == "vblank"

\* The wait is not repeated: enabled_ is looked at once after it.
AfterWait == IF enabled THEN "vblank" ELSE "top"

Wake ==
    /\ WorkerStep("waiting") /\ signalled
    /\ wpc' = AfterWait /\ signalled' = FALSE
    /\ UNCHANGED <<main, upc, enabled, cnt, screen, ghosts, world, frames>>

WakeSpuriously ==
    /\ WorkerStep("waiting")
    /\ wpc' = AfterWait /\ signalled' = FALSE
    /\ UNCHANGED <<main, upc, enabled, cnt, screen, ghosts, world, frames>>

\* It waits for the vertical blank, or as long, whatever the encoder is.
VBlank ==
    /\ WorkerStep("vblank")
    /\ wpc' = "check"
    /\ UNCHANGED <<main, upc, shared, screen, ghosts, world, frames>>

\* drm_check_video and the test of vsync_cnt, which takes no lock.
Check ==
    /\ WorkerStep("check")
    /\ IF ~video /\ cnt = 0
       THEN wpc' = "prepare" /\ image' = 0
       ELSE wpc' = "count" /\ UNCHANGED image
    /\ UNCHANGED <<main, upc, shared, screen, ghosts, world, buf, slot, live>>

\* vsync_cnt++, without the lock under which vsync_control clears it.
Count ==
    /\ WorkerStep("count")
    /\ wpc' = "top" /\ cnt' = 1
    /\ UNCHANGED <<main, upc, enabled, signalled, screen, ghosts, world, frames>>

------------------------------------------------------------------------------
(***************************************************************************)
(* bootAnimation: one picture after the other.                             *)
(***************************************************************************)
\* bo_unmap and bo_destroy of the buffer in slot i: what is on the screen goes
\* with its buffer.
Recycle(i) ==
    /\ live' = live \ {slot[i]}
    /\ shown' = IF shown = slot[i] THEN NoBuf ELSE shown
    /\ slot' = [slot EXCEPT ![i] = NoBuf]

\* Mutant: the last but one buffer is given up.
Oldest_OffByOne == 2

Oldest == 3

NextImage ==
    /\ image' = image + 1
    /\ wpc' = IF image + 1 = Images THEN "count" ELSE "prepare"

\* A picture whose file cannot be read is left out.
SkipImage ==
    /\ WorkerStep("prepare")
    /\ NextImage
    /\ UNCHANGED <<main, upc, shared, screen, ghosts, world, buf, slot, live>>

\* The driver has a buffer that is not in use; which one does not matter.
Unused(used) == CHOOSE b \in Bufs : b \notin used

\* Mutant: the buffer is replaced but not given back to the driver.
Prepare_Lost ==
    /\ WorkerStep("prepare")
    /\ slot' = [slot EXCEPT ![Oldest] = NoBuf]
    /\ buf' = Unused(live) /\ live' = live \cup {buf'}
    /\ wpc' = "show"
    /\ UNCHANGED <<main, upc, shared, screen, image, ghosts, world>>

\* The oldest buffer is freed, then one is created and filled.
Prepare ==
    /\ WorkerStep("prepare")
    /\ Bufs \ (live \ {slot[Oldest]}) # {}
    /\ shown' = IF shown = slot[Oldest] THEN NoBuf ELSE shown
    /\ slot' = [slot EXCEPT ![Oldest] = NoBuf]
    /\ buf' = Unused(live \ {slot[Oldest]})
    /\ live' = (live \ {slot[Oldest]}) \cup {buf'}
    /\ wpc' = "show"
    /\ UNCHANGED <<main, upc, shared, active, encoder, image, ghosts, world>>

\* A buffer that cannot be mapped is destroyed, and the animation ends.
PrepareUnmapped ==
    /\ WorkerStep("prepare") /\ Fault
    /\ Recycle(Oldest)
    /\ wpc' = "count"
    /\ UNCHANGED <<main, upc, shared, active, encoder, image, buf, ghosts, monitor, video,
                   uevents>>

\* bo_create uses the pointer it did not get: the program ends.
PrepareCrashes ==
    /\ WorkerStep("prepare") /\ Fault
    /\ wpc' = "crashed"
    /\ live' = {} /\ shown' = NoBuf /\ slot' = [i \in Slots |-> NoBuf] /\ leaked' = {}
    /\ UNCHANGED <<main, upc, shared, active, encoder, image, buf, missed, rested, monitor,
                   video, uevents>>

\* drmModeAddFB2 fails: the picture is left out and its buffer never freed.
AddFails ==
    /\ WorkerStep("show") /\ Fault
    /\ leaked' = leaked \cup {buf} /\ buf' = NoBuf
    /\ NextImage
    /\ UNCHANGED <<main, upc, shared, screen, missed, rested, monitor, video, uevents, slot, live>>

\* ctx_drm_display: it needs an encoder and an active crtc, and an encoder
\* that has been freed may still do.  Its result is not looked at.
Show ==
    /\ WorkerStep("show") /\ active /\ encoder # "none"
    /\ shown' = buf /\ missed' = 0
    /\ wpc' = "keep"
    /\ UNCHANGED <<main, upc, shared, active, encoder, leaked, rested, world, frames>>

ShowFails ==
    /\ WorkerStep("show")
    /\ \/ (~active \/ encoder # "live") /\ UNCHANGED budget
       \/ Fault
    /\ missed' = missed + 1
    /\ wpc' = "keep"
    /\ UNCHANGED <<main, upc, shared, screen, leaked, rested, monitor, video, uevents, frames>>

\* The buffers move up one slot; the first is left empty.
Keep ==
    /\ WorkerStep("keep")
    /\ slot' = [i \in Slots |-> IF i = 0 THEN NoBuf ELSE IF i = 1 THEN buf ELSE slot[i - 1]]
    /\ buf' = NoBuf
    /\ NextImage
    /\ UNCHANGED <<main, upc, shared, screen, ghosts, world, live>>

------------------------------------------------------------------------------
(***************************************************************************)
(* Everything around the program.                                          *)
(***************************************************************************)
MonitorChanges ==
    /\ budget.uevents > 0
    /\ monitor' \in Monitors
    /\ uevents' = uevents + 1
    /\ budget' = [budget EXCEPT !.uevents = @ - 1]
    /\ UNCHANGED <<main, upc, wpc, shared, screen, ghosts, video, frames>>

VideoChanges ==
    /\ video' = ~video
    /\ UNCHANGED <<main, upc, wpc, shared, screen, ghosts, monitor, uevents, budget, frames>>

MainThread == StartUevents \/ StartBootThread \/ Enable
UeventThread ==
    \/ ReadUevent \/ UpdateModes \/ SwitchOff \/ SetMode
    \/ GetConnector \/ GetEncoder \/ SwitchOn
Pictures ==
    \/ SkipImage \/ Prepare \/ PrepareUnmapped \/ PrepareCrashes
    \/ AddFails \/ Show \/ ShowFails \/ Keep
Worker == Top \/ Wake \/ VBlank \/ Check \/ Count \/ Pictures

Next ==
    MainThread \/ UeventThread \/ Worker \/ WakeSpuriously \/ MonitorChanges \/ VideoChanges

\* Each thread goes on while it can.
Spec ==
    /\ Init /\ [][Next]_vars
    /\ WF_vars(MainThread) /\ WF_vars(UeventThread) /\ WF_vars(Worker)

------------------------------------------------------------------------------
(***************************************************************************)
(* Properties.                                                             *)
(***************************************************************************)
\* The program holds the buffers of three pictures, or of two and the one it
\* is filling, and those it could not add: however often the animation is
\* played and interrupted, no other buffer stays behind.
NothingStaysBehind ==
    /\ live = ({slot[i] : i \in Slots} \cup {buf} \cup leaked) \ {NoBuf}
    /\ Cardinality(live \ leaked) <= 3

\* The picture on the screen stays there until another replaces it, until the
\* monitor is gone, or until two newer ones could not be shown.
PictureStays ==
    [][Running' /\ shown # NoBuf /\ shown \notin live' => missed >= 2]_vars

\* What the proofs rest on: which buffers can be where, none in two places.
Filling == wpc \in {"show", "keep"}
Places ==
    /\ slot[0] = NoBuf /\ (Filling => slot[Oldest] = NoBuf)
    /\ buf # NoBuf <=> Filling
    /\ \A i \in Slots : slot[i] # NoBuf =>
          slot[i] # buf /\ slot[i] \notin leaked /\ \A j \in Slots \ {i} : slot[j] # slot[i]
    /\ buf \notin leaked
    /\ live = ({slot[i] : i \in Slots} \cup {buf} \cup leaked) \ {NoBuf}
IInv ==
    /\ TypeOK /\ Places
    /\ wpc \in {"prepare", "show", "keep"} => image < Images
    /\ rested => ~enabled /\ wpc \in {"top", "waiting"}
    /\ main = "boot" => wpc = "none"

\* Where the picture on the screen is: each newer one that could not be shown
\* has moved its buffer up one slot.
ShownInv == shown # NoBuf =>
    \/ wpc = "keep" /\ shown = buf
    \/ shown = slot[1] /\ (wpc = "keep" => missed >= 1)
    \/ shown = slot[2] /\ missed >= (IF wpc = "keep" THEN 2 ELSE 1)
    \/ shown = slot[3] /\ missed >= 2

\* Once the worker has come to rest after the animation was switched off, it
\* begins none before it is switched on again, whatever wakes it and however
\* the two threads that switch it overlap.
OffStaysQuiet == rested => wpc \notin {"prepare", "show", "keep"}

\* As long as the animation is switched on, the worker comes round to see if
\* it has been asked for: no signal is overtaken, wherever the worker is when
\* it is switched, and every animation ends (bootanimation.cpp:803, 887).
WorkerComesRound == enabled ~> wpc \in {"check", "crashed"} \/ ~enabled
==============================================================================
