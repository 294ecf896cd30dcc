------------------------- MODULE BootAnimation_proofs -------------------------
(***************************************************************************)
(* The boot animation for any number of pictures and buffers, and for any  *)
(* uevents and failures of the graphics driver.                            *)
(***************************************************************************)
EXTENDS BootAnimation, FiniteSetTheorems, TLAPS

LEMMA InitIInv == Init => IInv
<1> SUFFICES ASSUME Init PROVE IInv
  OBVIOUS
<1>1. TypeOK
  <2>1. image \in 0..Images /\ slot \in [Slots -> Bufs \cup {NoBuf}]
        /\ budget \in [uevents : Nat, faults : Nat]
    BY ImagesAssumption, BoundsAssumption DEF Init
  <2>2. missed \in Nat /\ uevents \in Nat /\ leaked \subseteq Bufs /\ live \subseteq Bufs
    BY DEF Init
  <2>3. active \in BOOLEAN /\ encoder \in {"none", "live", "freed"}
    BY Zenon DEF Init
  <2>4. QED
    BY <2>1, <2>2, <2>3, Zenon DEF Init, TypeOK
<1>2. {slot[i] : i \in Slots} = {NoBuf}
  BY DEF Init, Slots
<1>3. Places
  BY <1>2 DEF Init, Places, Filling, Slots, Oldest
<1>4. QED
  BY <1>1, <1>3 DEF Init, IInv

LEMMA PlacesStay ==
    ASSUME Places, UNCHANGED <<buf, slot, live, leaked>>, Filling' <=> Filling
    PROVE  Places'
BY DEF Places

(***************************************************************************)
(* The types, group by group: an action needs to speak only of the groups  *)
(* it changes.                                                             *)
(***************************************************************************)
ThreadsTyped ==
    /\ main \in {"boot", "enable", "idle"}
    /\ upc \in {"none", "read", "update", "off", "set", "connector", "encoder", "on"}
    /\ wpc \in {"none", "top", "waiting", "vblank", "check", "prepare", "show", "keep",
                "count", "crashed"}
SharedTyped == enabled \in BOOLEAN /\ signalled \in BOOLEAN /\ cnt \in {0, 1}
ScreenTyped ==
    /\ encoder \in {"none", "live", "freed"}
    /\ shown \in Bufs \cup {NoBuf} /\ active \in BOOLEAN
GhostsTyped == leaked \subseteq Bufs /\ missed \in Nat /\ rested \in BOOLEAN
WorldTyped ==
    /\ monitor \in Monitors /\ video \in BOOLEAN
    /\ uevents \in Nat /\ budget \in [uevents : Nat, faults : Nat]
FramesTyped ==
    /\ image \in 0..Images /\ buf \in Bufs \cup {NoBuf}
    /\ slot \in [Slots -> Bufs \cup {NoBuf}] /\ live \subseteq Bufs

LEMMA TypeGroups ==
    TypeOK <=> /\ ThreadsTyped /\ SharedTyped /\ ScreenTyped
               /\ GhostsTyped /\ WorldTyped /\ FramesTyped
BY Zenon DEF TypeOK, ThreadsTyped, SharedTyped, ScreenTyped, GhostsTyped, WorldTyped,
             FramesTyped

LEMMA TypeGroupsNext ==
    TypeOK' <=> /\ ThreadsTyped' /\ SharedTyped' /\ ScreenTyped'
                /\ GhostsTyped' /\ WorldTyped' /\ FramesTyped'
BY Zenon DEF TypeOK, ThreadsTyped, SharedTyped, ScreenTyped, GhostsTyped, WorldTyped,
             FramesTyped

LEMMA GroupsKept ==
    /\ SharedTyped /\ UNCHANGED shared => SharedTyped'
    /\ ScreenTyped /\ UNCHANGED screen => ScreenTyped'
    /\ GhostsTyped /\ UNCHANGED ghosts => GhostsTyped'
    /\ WorldTyped /\ UNCHANGED world => WorldTyped'
    /\ FramesTyped /\ UNCHANGED frames => FramesTyped'
<1>1. SharedTyped /\ UNCHANGED shared => SharedTyped'
  BY DEF SharedTyped, shared
<1>2. ScreenTyped /\ UNCHANGED screen => ScreenTyped'
  BY DEF ScreenTyped, screen
<1>3. GhostsTyped /\ UNCHANGED ghosts => GhostsTyped'
  BY DEF GhostsTyped, ghosts
<1>4. WorldTyped /\ UNCHANGED world => WorldTyped'
  BY DEF WorldTyped, world
<1>5. FramesTyped /\ UNCHANGED frames => FramesTyped'
  BY DEF FramesTyped, frames
<1>6. QED
  BY <1>1, <1>2, <1>3, <1>4, <1>5

LEMMA Switched ==
    ASSUME NEW on \in BOOLEAN, SharedTyped, GhostsTyped, VsyncControl(on)
    PROVE  SharedTyped' /\ GhostsTyped'
BY DEF SharedTyped, GhostsTyped, VsyncControl

(***************************************************************************)
(* The threads that do not touch the pictures.                             *)
(***************************************************************************)
LEMMA MainIInv ==
    ASSUME IInv, MainThread
    PROVE  IInv'
<1> USE DEF IInv, Filling, shared, screen, ghosts, world, frames
<1>1. CASE StartUevents
  <2>1. UNCHANGED <<buf, slot, live, leaked>> /\ (Filling' <=> Filling)
    BY <1>1 DEF StartUevents
  <2>2. Places'
    BY <2>1, PlacesStay
  <2>3. TypeOK'
    <3>1. ThreadsTyped'
      BY <1>1, TypeGroups DEF StartUevents, ThreadsTyped
    <3>2. SharedTyped' /\ ScreenTyped' /\ GhostsTyped' /\ WorldTyped' /\ FramesTyped'
      BY <1>1, TypeGroups, GroupsKept DEF StartUevents
    <3>3. QED
      BY <3>1, <3>2, TypeGroupsNext
  <2>4. QED
    BY <1>1, <2>2, <2>3 DEF StartUevents
<1>2. CASE StartBootThread
  <2>1. UNCHANGED <<buf, slot, live, leaked>> /\ (Filling' <=> Filling)
    BY <1>2 DEF StartBootThread
  <2>2. Places'
    BY <2>1, PlacesStay
  <2>3. TypeOK'
    <3>1. ThreadsTyped'
      BY <1>2, TypeGroups DEF StartBootThread, ThreadsTyped
    <3>2. ScreenTyped' /\ GhostsTyped' /\ WorldTyped' /\ FramesTyped'
      BY <1>2, TypeGroups, GroupsKept DEF StartBootThread
    <3>3. SharedTyped'
      BY <1>2, TypeGroups DEF StartBootThread, SharedTyped
    <3>4. QED
      BY <3>1, <3>2, <3>3, TypeGroupsNext
  <2>4. QED
    BY <1>2, <2>2, <2>3 DEF StartBootThread
<1>3. CASE Enable
  <2>1. UNCHANGED <<buf, slot, live, leaked>> /\ (Filling' <=> Filling)
    BY <1>3 DEF Enable, VsyncControl
  <2>2. Places'
    BY <2>1, PlacesStay
  <2>3. TypeOK'
    <3>1. ThreadsTyped'
      BY <1>3, TypeGroups DEF Enable, ThreadsTyped
    <3>2. ScreenTyped' /\ WorldTyped' /\ FramesTyped'
      BY <1>3, TypeGroups, GroupsKept DEF Enable
    <3>3. SharedTyped' /\ GhostsTyped'
      BY <1>3, TypeGroups, GroupsKept, Switched DEF Enable
    <3>4. QED
      BY <3>1, <3>2, <3>3, TypeGroupsNext
  <2>4. QED
    BY <1>3, <2>2, <2>3 DEF Enable, VsyncControl
<1>4. QED
  BY <1>1, <1>2, <1>3 DEF MainThread

LEMMA UeventIInv ==
    ASSUME IInv, UeventThread
    PROVE  IInv'
<1> USE DEF IInv, Filling, shared, screen, ghosts, world, frames
<1>1. CASE ReadUevent
  <2>1. UNCHANGED <<buf, slot, live, leaked>> /\ (Filling' <=> Filling)
    BY <1>1 DEF ReadUevent
  <2>2. Places'
    BY <2>1, PlacesStay
  <2>3. TypeOK'
    <3>1. ThreadsTyped'
      BY <1>1, TypeGroups DEF ReadUevent, ThreadsTyped
    <3>2. SharedTyped' /\ ScreenTyped' /\ GhostsTyped' /\ FramesTyped'
      BY <1>1, TypeGroups, GroupsKept DEF ReadUevent
    <3>3. WorldTyped'
      BY <1>1, TypeGroups DEF ReadUevent, WorldTyped
    <3>4. QED
      BY <3>1, <3>2, <3>3, TypeGroupsNext
  <2>4. QED
    BY <1>1, <2>2, <2>3 DEF ReadUevent
<1>2. CASE UpdateModes
  <2>1. UNCHANGED <<buf, slot, live, leaked>> /\ (Filling' <=> Filling)
    BY <1>2 DEF UpdateModes, VsyncControl
  <2>2. Places'
    BY <2>1, PlacesStay
  <2>3. TypeOK'
    <3>1. ThreadsTyped'
      BY <1>2, TypeGroups DEF UpdateModes, ThreadsTyped
    <3>2. ScreenTyped' /\ WorldTyped' /\ FramesTyped'
      BY <1>2, TypeGroups, GroupsKept DEF UpdateModes
    <3>3. SharedTyped' /\ GhostsTyped'
      BY <1>2, TypeGroups, GroupsKept, Switched DEF UpdateModes
    <3>4. QED
      BY <3>1, <3>2, <3>3, TypeGroupsNext
  <2>4. QED
    BY <1>2, <2>2, <2>3 DEF UpdateModes, VsyncControl
<1>3. CASE SwitchOff
  <2>1. UNCHANGED <<buf, slot, live, leaked>> /\ (Filling' <=> Filling)
    BY <1>3 DEF SwitchOff, Fault
  <2>2. Places'
    BY <2>1, PlacesStay
  <2>3. TypeOK'
    <3>1. ThreadsTyped'
      BY <1>3, TypeGroups DEF SwitchOff, ThreadsTyped
    <3>2. SharedTyped' /\ GhostsTyped' /\ FramesTyped'
      BY <1>3, TypeGroups, GroupsKept DEF SwitchOff
    <3>3. ScreenTyped'
      BY <1>3, TypeGroups DEF SwitchOff, ScreenTyped
    <3>4. WorldTyped'
      BY <1>3, TypeGroups DEF SwitchOff, WorldTyped, Fault
    <3>5. QED
      BY <3>1, <3>2, <3>3, <3>4, TypeGroupsNext
  <2>4. QED
    BY <1>3, <2>2, <2>3 DEF SwitchOff, Fault
<1>4. CASE SetMode
  <2>1. UNCHANGED <<buf, slot, live, leaked>> /\ (Filling' <=> Filling)
    BY <1>4 DEF SetMode, Fault
  <2>2. Places'
    BY <2>1, PlacesStay
  <2>3. TypeOK'
    <3>1. ThreadsTyped'
      BY <1>4, TypeGroups DEF SetMode, ThreadsTyped
    <3>2. SharedTyped' /\ GhostsTyped' /\ FramesTyped'
      BY <1>4, TypeGroups, GroupsKept DEF SetMode
    <3>3. ScreenTyped'
      BY <1>4, TypeGroups DEF SetMode, ScreenTyped
    <3>4. WorldTyped'
      BY <1>4, TypeGroups DEF SetMode, WorldTyped, Fault
    <3>5. QED
      BY <3>1, <3>2, <3>3, <3>4, TypeGroupsNext
  <2>4. QED
    BY <1>4, <2>2, <2>3 DEF SetMode, Fault
<1>5. CASE GetConnector
  <2>1. UNCHANGED <<buf, slot, live, leaked>> /\ (Filling' <=> Filling)
    BY <1>5 DEF GetConnector
  <2>2. Places'
    BY <2>1, PlacesStay
  <2>3. TypeOK'
    <3>1. ThreadsTyped'
      BY <1>5, TypeGroups DEF GetConnector, ThreadsTyped
    <3>2. SharedTyped' /\ GhostsTyped' /\ WorldTyped' /\ FramesTyped'
      BY <1>5, TypeGroups, GroupsKept DEF GetConnector
    <3>3. ScreenTyped'
      BY <1>5, TypeGroups DEF GetConnector, ScreenTyped
    <3>4. QED
      BY <3>1, <3>2, <3>3, TypeGroupsNext
  <2>4. QED
    BY <1>5, <2>2, <2>3 DEF GetConnector
<1>6. CASE GetEncoder
  <2>1. UNCHANGED <<buf, slot, live, leaked>> /\ (Filling' <=> Filling)
    BY <1>6 DEF GetEncoder
  <2>2. Places'
    BY <2>1, PlacesStay
  <2>3. TypeOK'
    <3>1. ThreadsTyped'
      BY <1>6, TypeGroups DEF GetEncoder, ThreadsTyped
    <3>2. SharedTyped' /\ GhostsTyped' /\ WorldTyped' /\ FramesTyped'
      BY <1>6, TypeGroups, GroupsKept DEF GetEncoder
    <3>3. ScreenTyped'
      BY <1>6, TypeGroups DEF GetEncoder, ScreenTyped
    <3>4. QED
      BY <3>1, <3>2, <3>3, TypeGroupsNext
  <2>4. QED
    BY <1>6, <2>2, <2>3 DEF GetEncoder
<1>7. CASE SwitchOn
  <2>1. UNCHANGED <<buf, slot, live, leaked>> /\ (Filling' <=> Filling)
    BY <1>7 DEF SwitchOn, VsyncControl
  <2>2. Places'
    BY <2>1, PlacesStay
  <2>3. TypeOK'
    <3>1. ThreadsTyped'
      BY <1>7, TypeGroups DEF SwitchOn, ThreadsTyped
    <3>2. ScreenTyped' /\ WorldTyped' /\ FramesTyped'
      BY <1>7, TypeGroups, GroupsKept DEF SwitchOn
    <3>3. SharedTyped' /\ GhostsTyped'
      BY <1>7, TypeGroups, GroupsKept, Switched DEF SwitchOn
    <3>4. QED
      BY <3>1, <3>2, <3>3, TypeGroupsNext
  <2>4. QED
    BY <1>7, <2>2, <2>3 DEF SwitchOn, VsyncControl
<1>8. QED
  BY <1>1, <1>2, <1>3, <1>4, <1>5, <1>6, <1>7 DEF UeventThread

LEMMA WorldIInv ==
    ASSUME IInv, MonitorChanges \/ VideoChanges
    PROVE  IInv'
<1> USE DEF IInv, Filling, shared, screen, ghosts, world, frames
<1>1. CASE MonitorChanges
  <2>1. UNCHANGED <<buf, slot, live, leaked>> /\ (Filling' <=> Filling)
    BY <1>1 DEF MonitorChanges
  <2>2. Places'
    BY <2>1, PlacesStay
  <2>3. TypeOK'
    <3>1. ThreadsTyped'
      BY <1>1, TypeGroups DEF MonitorChanges, ThreadsTyped
    <3>2. SharedTyped' /\ ScreenTyped' /\ GhostsTyped' /\ FramesTyped'
      BY <1>1, TypeGroups, GroupsKept DEF MonitorChanges
    <3>3. WorldTyped'
      BY <1>1, TypeGroups DEF MonitorChanges, WorldTyped, Monitors
    <3>4. QED
      BY <3>1, <3>2, <3>3, TypeGroupsNext
  <2>4. QED
    BY <1>1, <2>2, <2>3 DEF MonitorChanges
<1>2. CASE VideoChanges
  <2>1. UNCHANGED <<buf, slot, live, leaked>> /\ (Filling' <=> Filling)
    BY <1>2 DEF VideoChanges
  <2>2. Places'
    BY <2>1, PlacesStay
  <2>3. TypeOK'
    <3>1. ThreadsTyped'
      BY <1>2, TypeGroups DEF VideoChanges, ThreadsTyped
    <3>2. SharedTyped' /\ ScreenTyped' /\ GhostsTyped' /\ FramesTyped'
      BY <1>2, TypeGroups, GroupsKept DEF VideoChanges
    <3>3. WorldTyped'
      BY <1>2, TypeGroups DEF VideoChanges, WorldTyped
    <3>4. QED
      BY <3>1, <3>2, <3>3, TypeGroupsNext
  <2>4. QED
    BY <1>2, <2>2, <2>3 DEF VideoChanges
<1>3. QED
  BY <1>1, <1>2

(***************************************************************************)
(* The worker.                                                             *)
(***************************************************************************)
LEMMA RoutineIInv ==
    ASSUME IInv, Top \/ Wake \/ WakeSpuriously \/ VBlank \/ Check \/ Count
    PROVE  IInv'
<1> USE DEF IInv, Filling, shared, screen, ghosts, world, frames, WorkerStep
<1>1. CASE Top
  <2>1. UNCHANGED <<buf, slot, live, leaked>> /\ (Filling' <=> Filling)
    BY <1>1 DEF Top
  <2>2. Places'
    BY <2>1, PlacesStay
  <2>3. TypeOK'
    <3>1. ThreadsTyped'
      BY <1>1, TypeGroups DEF Top, ThreadsTyped
    <3>2. ScreenTyped' /\ WorldTyped' /\ FramesTyped'
      BY <1>1, TypeGroups, GroupsKept DEF Top
    <3>3. SharedTyped'
      BY <1>1, TypeGroups DEF Top, SharedTyped
    <3>4. GhostsTyped'
      BY <1>1, TypeGroups DEF Top, GhostsTyped
    <3>5. QED
      BY <3>1, <3>2, <3>3, <3>4, TypeGroupsNext
  <2>4. QED
    BY <1>1, <2>2, <2>3 DEF Top
<1>2. CASE Wake
  <2>1. UNCHANGED <<buf, slot, live, leaked>> /\ (Filling' <=> Filling)
    BY <1>2 DEF Wake, AfterWait
  <2>2. Places'
    BY <2>1, PlacesStay
  <2>3. TypeOK'
    <3>1. ThreadsTyped'
      BY <1>2, TypeGroups DEF Wake, ThreadsTyped, AfterWait
    <3>2. ScreenTyped' /\ GhostsTyped' /\ WorldTyped' /\ FramesTyped'
      BY <1>2, TypeGroups, GroupsKept DEF Wake
    <3>3. SharedTyped'
      BY <1>2, TypeGroups DEF Wake, SharedTyped
    <3>4. QED
      BY <3>1, <3>2, <3>3, TypeGroupsNext
  <2>4. QED
    BY <1>2, <2>2, <2>3 DEF Wake, AfterWait
<1>3. CASE WakeSpuriously
  <2>1. UNCHANGED <<buf, slot, live, leaked>> /\ (Filling' <=> Filling)
    BY <1>3 DEF WakeSpuriously, AfterWait
  <2>2. Places'
    BY <2>1, PlacesStay
  <2>3. TypeOK'
    <3>1. ThreadsTyped'
      BY <1>3, TypeGroups DEF WakeSpuriously, ThreadsTyped, AfterWait
    <3>2. ScreenTyped' /\ GhostsTyped' /\ WorldTyped' /\ FramesTyped'
      BY <1>3, TypeGroups, GroupsKept DEF WakeSpuriously
    <3>3. SharedTyped'
      BY <1>3, TypeGroups DEF WakeSpuriously, SharedTyped
    <3>4. QED
      BY <3>1, <3>2, <3>3, TypeGroupsNext
  <2>4. QED
    BY <1>3, <2>2, <2>3 DEF WakeSpuriously, AfterWait
<1>4. CASE VBlank
  <2>1. UNCHANGED <<buf, slot, live, leaked>> /\ (Filling' <=> Filling)
    BY <1>4 DEF VBlank
  <2>2. Places'
    BY <2>1, PlacesStay
  <2>3. TypeOK'
    <3>1. ThreadsTyped'
      BY <1>4, TypeGroups DEF VBlank, ThreadsTyped
    <3>2. SharedTyped' /\ ScreenTyped' /\ GhostsTyped' /\ WorldTyped' /\ FramesTyped'
      BY <1>4, TypeGroups, GroupsKept DEF VBlank
    <3>3. QED
      BY <3>1, <3>2, TypeGroupsNext
  <2>4. QED
    BY <1>4, <2>2, <2>3 DEF VBlank
<1>5. CASE Check
  <2>1. UNCHANGED <<buf, slot, live, leaked>> /\ (Filling' <=> Filling)
    BY <1>5 DEF Check
  <2>2. Places'
    BY <2>1, PlacesStay
  <2>3. TypeOK'
    <3>1. ThreadsTyped'
      BY <1>5, TypeGroups DEF Check, ThreadsTyped
    <3>2. SharedTyped' /\ ScreenTyped' /\ GhostsTyped' /\ WorldTyped'
      BY <1>5, TypeGroups, GroupsKept DEF Check
    <3>3. FramesTyped'
      BY <1>5, TypeGroups, ImagesAssumption DEF Check, FramesTyped
    <3>4. QED
      BY <3>1, <3>2, <3>3, TypeGroupsNext
  <2>4. QED
    BY <1>5, <2>2, <2>3, ImagesAssumption DEF Check
<1>6. CASE Count
  <2>1. UNCHANGED <<buf, slot, live, leaked>> /\ (Filling' <=> Filling)
    BY <1>6 DEF Count
  <2>2. Places'
    BY <2>1, PlacesStay
  <2>3. TypeOK'
    <3>1. ThreadsTyped'
      BY <1>6, TypeGroups DEF Count, ThreadsTyped
    <3>2. ScreenTyped' /\ GhostsTyped' /\ WorldTyped' /\ FramesTyped'
      BY <1>6, TypeGroups, GroupsKept DEF Count
    <3>3. SharedTyped'
      BY <1>6, TypeGroups DEF Count, SharedTyped
    <3>4. QED
      BY <3>1, <3>2, <3>3, TypeGroupsNext
  <2>4. QED
    BY <1>6, <2>2, <2>3 DEF Count
<1>7. QED
  BY <1>1, <1>2, <1>3, <1>4, <1>5, <1>6

LEMMA PicturesIInv ==
    ASSUME IInv, Pictures
    PROVE  IInv'
<1> USE ImagesAssumption, NoBufAssumption
    DEF IInv, TypeOK, Places, Filling, shared, screen, ghosts, world, frames, WorkerStep,
        Slots, Oldest
<1>1. CASE SkipImage
  BY <1>1 DEF SkipImage, NextImage
<1>2. CASE Prepare
  <2> DEFINE rest == live \ {slot[3]}
  <2>1. buf' \in Bufs /\ buf' \notin rest
    BY <1>2 DEF Prepare, Unused
  <2>2. QED
    BY <1>2, <2>1 DEF Prepare
<1>3. CASE PrepareUnmapped
  BY <1>3 DEF PrepareUnmapped, Recycle, Fault
<1>4. CASE PrepareCrashes
  BY <1>4 DEF PrepareCrashes, Fault
<1>5. CASE AddFails
  BY <1>5 DEF AddFails, NextImage, Fault
<1>6. CASE Show
  BY <1>6 DEF Show
<1>7. CASE ShowFails
  BY <1>7 DEF ShowFails, Fault
<1>8. CASE Keep
  BY <1>8 DEF Keep, NextImage
<1>9. QED
  BY <1>1, <1>2, <1>3, <1>4, <1>5, <1>6, <1>7, <1>8 DEF Pictures

LEMMA NextIInv == IInv /\ [Next]_vars => IInv'
<1>1. ASSUME IInv, UNCHANGED vars PROVE IInv'
  BY <1>1 DEF vars, IInv, TypeOK, Places, Filling, shared, screen, ghosts, world, frames
<1>2. QED
  BY <1>1, MainIInv, UeventIInv, WorldIInv, RoutineIInv, PicturesIInv DEF Next, Worker

(***************************************************************************)
(* At most three buffers are in use besides those that were given up.      *)
(***************************************************************************)
LEMMA OneMore ==
    ASSUME NEW S, NEW x, NEW n \in Nat, IsFiniteSet(S), Cardinality(S) <= n
    PROVE  IsFiniteSet(S \cup {x}) /\ Cardinality(S \cup {x}) <= n + 1
<1>1. IsFiniteSet(S \cup {x}) /\ Cardinality(S) \in Nat
  BY FS_AddElement, FS_CardinalityType
<1>2. Cardinality(S \cup {x}) = IF x \in S THEN Cardinality(S) ELSE Cardinality(S) + 1
  BY FS_AddElement
<1>3. QED
  BY <1>1, <1>2

LEMMA AtMostThree ==
    ASSUME NEW a, NEW b, NEW c, NEW S, S \subseteq {a, b, c}
    PROVE  Cardinality(S) <= 3
<1>1. IsFiniteSet({}) /\ Cardinality({}) <= 0
  BY FS_EmptySet
<1>2. IsFiniteSet({} \cup {a}) /\ Cardinality({} \cup {a}) <= 0 + 1
  BY <1>1, OneMore, 0 \in Nat, Zenon
<1>3. IsFiniteSet(({} \cup {a}) \cup {b}) /\ Cardinality(({} \cup {a}) \cup {b}) <= 1 + 1
  BY <1>2, OneMore, 1 \in Nat, 0 + 1 = 1, Zenon
<1>4. IsFiniteSet((({} \cup {a}) \cup {b}) \cup {c})
      /\ Cardinality((({} \cup {a}) \cup {b}) \cup {c}) <= 2 + 1
  BY <1>3, OneMore, 2 \in Nat, 1 + 1 = 2, Zenon
<1>5. IsFiniteSet({a, b, c}) /\ Cardinality({a, b, c}) <= 3
  BY <1>4, 2 + 1 = 3, (({} \cup {a}) \cup {b}) \cup {c} = {a, b, c}
<1>6. Cardinality(S) <= Cardinality({a, b, c}) /\ IsFiniteSet(S)
  BY <1>5, FS_Subset
<1>7. Cardinality(S) \in Nat /\ Cardinality({a, b, c}) \in Nat
  BY <1>5, <1>6, FS_CardinalityType
<1>8. QED
  BY <1>5, <1>6, <1>7

LEMMA IInvBounds == IInv => NothingStaysBehind
<1> SUFFICES ASSUME IInv PROVE NothingStaysBehind
  OBVIOUS
<1>1. Cardinality(live \ leaked) <= 3
  <2>1. CASE Filling
    <3>1. live \ leaked \subseteq {slot[1], slot[2], buf}
      BY <2>1 DEF IInv, Places, Slots, Oldest
    <3>2. QED
      BY <3>1, AtMostThree
  <2>2. CASE ~Filling
    <3>1. live \ leaked \subseteq {slot[1], slot[2], slot[3]}
      BY <2>2 DEF IInv, Places, Slots
    <3>2. QED
      BY <3>1, AtMostThree
  <2>3. QED
    BY <2>1, <2>2
<1>2. QED
  BY <1>1 DEF NothingStaysBehind, IInv, Places

(***************************************************************************)
(* The theorems.                                                           *)
(***************************************************************************)
\* The variables keep their types: the pictures are counted to mImageCount.
THEOREM TypeCorrect == Spec => []TypeOK
<1>1. IInv => TypeOK
  BY DEF IInv
<1>2. QED
  BY InitIInv, NextIInv, <1>1, PTL DEF Spec

\* The slots of bootAnimation lose no buffer and keep no more than three.
THEOREM BuffersBounded == Spec => []NothingStaysBehind
BY InitIInv, NextIInv, IInvBounds, PTL DEF Spec

\* A worker at rest stays so until vsync_control(true), although its wait is
\* not repeated.
THEOREM RestIsKept == Spec => []OffStaysQuiet
<1>1. IInv => OffStaysQuiet
  BY DEF IInv, OffStaysQuiet
<1>2. QED
  BY InitIInv, NextIInv, <1>1, PTL DEF Spec

(***************************************************************************)
(* The picture on the screen.                                              *)
(***************************************************************************)
\* What leaves the pictures and the worker's place among them alone.
LEMMA ShownGoesOn ==
    ASSUME ShownInv, shown' \in {shown, NoBuf}, UNCHANGED <<buf, slot, missed>>,
           wpc' = "keep" <=> wpc = "keep"
    PROVE  ShownInv'
BY DEF ShownInv

\* The buffer on the screen is one the program holds.
LEMMA ShownIsLive ==
    ASSUME IInv, ShownInv, shown # NoBuf
    PROVE  shown \in live
<1>1. shown = buf \/ \E i \in Slots : shown = slot[i]
  BY DEF ShownInv, Slots
<1> QED
  BY <1>1 DEF IInv, Places

LEMMA ShownPictures ==
    ASSUME IInv, ShownInv, Pictures
    PROVE  ShownInv'
<1> USE NoBufAssumption DEF ShownInv, WorkerStep
<1>1. missed \in Nat
  BY DEF IInv, TypeOK
<1>2. \A i \in Slots : slot[i] # NoBuf => \A j \in Slots \ {i} : slot[j] # slot[i]
  BY DEF IInv, Places
<1>3. Filling => slot[3] = NoBuf
  BY DEF IInv, Places, Oldest
<1>4. slot \in [Slots -> Bufs \cup {NoBuf}]
  BY DEF IInv, TypeOK
<1>5. CASE SkipImage
  BY <1>5 DEF SkipImage, NextImage, screen, ghosts
<1>6. CASE Prepare
  BY <1>4, <1>6 DEF Prepare, Oldest, ghosts, Slots
<1>7. CASE PrepareUnmapped
  BY <1>4, <1>7 DEF PrepareUnmapped, Recycle, Oldest, ghosts, Slots
<1>8. CASE PrepareCrashes
  BY <1>8 DEF PrepareCrashes
<1>9. CASE AddFails
  BY <1>9 DEF AddFails, NextImage, screen
<1>10. CASE Show
  BY <1>10 DEF Show, frames
<1>11. CASE ShowFails
  BY <1>1, <1>3, <1>11 DEF ShowFails, Filling, screen, frames
<1>12. CASE Keep
  <2>1. slot'[1] = buf /\ slot'[2] = slot[1] /\ slot'[3] = slot[2]
    BY <1>12 DEF Keep, Slots
  <2>2. wpc' # "keep" /\ missed' = missed /\ shown' = shown /\ slot[3] = NoBuf
    BY <1>3, <1>12 DEF Keep, NextImage, Filling, screen, ghosts
  <2> QED
    BY <1>1, <1>12, <2>1, <2>2 DEF Keep
<1> QED
  BY <1>5, <1>6, <1>7, <1>8, <1>9, <1>10, <1>11, <1>12 DEF Pictures

LEMMA ShownStep == IInv /\ ShownInv /\ [Next]_vars => ShownInv'
<1> SUFFICES ASSUME IInv, ShownInv, [Next]_vars PROVE ShownInv'
  OBVIOUS
<1> USE DEF shared, screen, ghosts, world, frames
<1>1. CASE MainThread
  <2>1. shown' = shown /\ UNCHANGED <<buf, slot, missed>> /\ (wpc' = "keep" <=> wpc = "keep")
    BY <1>1 DEF MainThread, StartUevents, StartBootThread, Enable, VsyncControl, IInv
  <2> QED
    BY <2>1, ShownGoesOn
<1>2. CASE UeventThread
  <2>1. shown' \in {shown, NoBuf} /\ UNCHANGED <<wpc, buf, slot, missed>>
    BY <1>2 DEF UeventThread, ReadUevent, UpdateModes, SwitchOff, SetMode, GetConnector,
                GetEncoder, SwitchOn, VsyncControl
  <2> QED
    BY <2>1, ShownGoesOn
<1>3. CASE Top \/ Wake \/ WakeSpuriously \/ VBlank \/ Check \/ Count
  <2>1. shown' = shown /\ UNCHANGED <<buf, slot, missed>> /\ (wpc' = "keep" <=> wpc = "keep")
    BY <1>3 DEF Top, Wake, WakeSpuriously, AfterWait, VBlank, Check, Count, WorkerStep
  <2> QED
    BY <2>1, ShownGoesOn
<1>4. CASE MonitorChanges \/ VideoChanges \/ UNCHANGED vars
  <2>1. shown' = shown /\ UNCHANGED <<wpc, buf, slot, missed>>
    BY <1>4 DEF MonitorChanges, VideoChanges, vars
  <2> QED
    BY <2>1, ShownGoesOn
<1> QED
  BY <1>1, <1>2, <1>3, <1>4, ShownPictures DEF Next, Worker

LEMMA ShownKept ==
    ASSUME IInv, ShownInv, [Next]_vars, Running', shown # NoBuf, shown \notin live'
    PROVE  missed >= 2
<1> USE DEF shared, screen, ghosts, world, frames
<1>1. shown \in live
  BY ShownIsLive
<1>2. CASE Prepare \/ PrepareUnmapped
  <2>1. shown = slot[3] /\ wpc = "prepare"
    BY <1>1, <1>2 DEF Prepare, PrepareUnmapped, Recycle, Oldest, WorkerStep
  <2>2. slot[1] # shown /\ slot[2] # shown
    <3>1. \A j \in Slots \ {3} : slot[j] # slot[3]
      BY <2>1 DEF IInv, Places, Slots
    <3> QED
      BY <2>1, <3>1 DEF Slots
  <2> QED
    BY <2>1, <2>2 DEF ShownInv
<1>3. ~PrepareCrashes
  BY DEF PrepareCrashes, Running
<1>4. live' # live
  BY <1>1
<1>5. ~MainThread
  BY <1>4 DEF MainThread, StartUevents, StartBootThread, Enable
<1>6. ~UeventThread
  BY <1>4 DEF UeventThread, ReadUevent, UpdateModes, SwitchOff, SetMode, GetConnector,
              GetEncoder, SwitchOn
<1>7. ~(Top \/ Wake \/ WakeSpuriously \/ VBlank \/ Check \/ Count)
  BY <1>4 DEF Top, Wake, WakeSpuriously, VBlank, Check, Count
<1>8. ~(SkipImage \/ AddFails \/ Show \/ ShowFails \/ Keep)
  BY <1>4 DEF SkipImage, AddFails, Show, ShowFails, Keep
<1>9. ~(MonitorChanges \/ VideoChanges \/ UNCHANGED vars)
  BY <1>4 DEF MonitorChanges, VideoChanges, vars
<1> QED
  BY <1>2, <1>3, <1>5, <1>6, <1>7, <1>8, <1>9 DEF Next, Worker, Pictures

\* Freeing the oldest buffer never blanks the screen, unless the two newer
\* pictures could not be shown.
THEOREM ScreenIsKept == Spec => PictureStays
<1>1. Init => ShownInv
  BY DEF Init, ShownInv
<1>2. IInv /\ ShownInv /\ [Next]_vars
        => [Running' /\ shown # NoBuf /\ shown \notin live' => missed >= 2]_vars
  BY ShownKept
<1> QED
  BY <1>1, <1>2, InitIInv, NextIInv, ShownStep, PTL DEF Spec, PictureStays
===============================================================================
