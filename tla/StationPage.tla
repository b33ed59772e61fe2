----------------------------- MODULE StationPage -----------------------------
(***************************************************************************)
(* The page of the digital twin: the view and the selection live in the    *)
(* store (store.js) and in the address (digital-twin-workspace.tsx), every *)
(* panel and the scene change them (App.jsx, scene.jsx), and the camera    *)
(* follows them (SceneControls).  React runs the effects of a store change *)
(* before the next event; the router commits a navigation later.           *)
(*                                                                         *)
(* Hovering, fullscreen, the cooling mode and the layers change no state   *)
(* modelled here and are left out.                                         *)
(***************************************************************************)
EXTENDS Integers

CONSTANTS
  Containers,  \* the storage containers of the scene
  Packages,    \* indices of a container's packages
  Elsewhere    \* a device that is no container: the source of some alarms

ASSUME PageAssumption ==
  /\ Elsewhere \notin Containers /\ "none" \notin Containers
  /\ Packages \subseteq Nat

NoPack == -1
Nobody == [cluster |-> "none", pack |-> NoPack]
Device(c, p) == [cluster |-> c, pack |-> p]
Selections == {Nobody, Device(Elsewhere, NoPack)}
                \cup {Device(c, p) : c \in Containers, p \in Packages \cup {NoPack}}

\* The views with a scene of their own profile: "data" shows assets, the others do not.
Views == {"data", "thermal", "video"}
Addresses == [view : Views, device : Selections]
NoAddress == [view |-> "none", device |-> Nobody]

VARIABLES
  store,    \* activeView, selectedDevice, selectedPackageIndex
  url,      \* the address the page was last rendered with
  pending,  \* the navigation under way
  camera,   \* "moving" to where it aims, "resting" there, or in the "user"'s hands
  aim,      \* the desired position
  had       \* hadContainerFocusRef

pageVars == <<store, url, pending, camera, aim, had>>

-----------------------------------------------------------------------------
(***************************************************************************)
(* The store.                                                              *)
(***************************************************************************)
SetView(s, v) == [s EXCEPT !.view = v, !.pack = IF v = "data" THEN s.pack ELSE NoPack]

\* Mutant: the package stays selected.
SetDevicePackKept(s, d) ==
  [s EXCEPT !.device = d, !.pack = IF d.pack = NoPack THEN s.pack ELSE d.pack]

\* A device's identifier names its package or none.
SetDevice(s, d) == [s EXCEPT !.device = d, !.pack = d.pack]
SetPack(s, p) == [s EXCEPT !.pack = p]

Address(s) == [view |-> s.view, device |-> s.device]

\* The subscription: an address other than the rendered one replaces it, and a newer
\* navigation the one under way.
Navigated(s) ==
  IF Address(s) # Address(store) /\ Address(s) # url THEN Address(s) ELSE pending

-----------------------------------------------------------------------------
(***************************************************************************)
(* What is drawn.                                                          *)
(***************************************************************************)
NoFocus == Nobody
Default == Device("default", NoPack)
PresetPlace == Device("preset", NoPack)

\* The container the scene opens, in the asset view only.
Focus(s) ==
  IF s.view = "data" /\ s.device.cluster \in Containers
  THEN [cluster |-> s.device.cluster, pack |-> s.pack] ELSE NoFocus

\* Mutant: the selected container's instance is hidden in every view.
InstanceHiddenAlways(c) == store.device.cluster = c

\* containerVisualState: the instance of the selected container has no size.
InstanceHidden(c) == store.view = "data" /\ store.device.cluster = c

\* Scene3D: the opened container with its packages.
InteriorShown(c) == Focus(store).cluster = c

\* The labels: all of them, or the selected one and the hovered one.
LabelShown(c, hovered) ==
  \/ store.device.cluster \notin Containers
  \/ InstanceHidden(c)
  \/ hovered = c

\* The video wall, in place of the scene.
WallShown == store.view = "video"

-----------------------------------------------------------------------------
(***************************************************************************)
(* The camera.                                                             *)
(***************************************************************************)
ApplyPreset(place) == camera' = "moving" /\ aim' = place

\* Mutant: without a focus the camera always goes back.
FollowAlways(s) ==
  /\ IF Focus(s) # NoFocus THEN ApplyPreset(Focus(s)) ELSE ApplyPreset(Default)
  /\ had' = (Focus(s) # NoFocus)

\* The focus effect, run for a new view, selection, package or list of containers.
Follow(s) ==
  /\ IF Focus(s) # NoFocus THEN ApplyPreset(Focus(s))
     ELSE IF had THEN ApplyPreset(Default)
     ELSE UNCHANGED <<camera, aim>>
  /\ had' = (Focus(s) # NoFocus)

\* A change of the store with all that follows from it before the next event.
Choose(s) ==
  /\ store' = s
  /\ pending' = Navigated(s)
  /\ IF s # store THEN Follow(s) ELSE UNCHANGED <<camera, aim, had>>
  /\ UNCHANGED url

-----------------------------------------------------------------------------
(***************************************************************************)
(* What the user does.                                                     *)
(***************************************************************************)
\* A tab of the header, or its alarm button.
ChangeView(v) == Choose(SetView(store, v))

\* A row of the device tree.
TreeSelect(c) == Choose(SetDevice(store, Device(c, NoPack)))

\* A container of the scene that has its size.
SceneSelect(c) ==
  /\ ~WallShown /\ ~InstanceHidden(c)
  /\ Choose(SetDevice(store, Device(c, NoPack)))

\* A label over the scene.
LabelSelect(c) ==
  /\ ~WallShown
  /\ \E h \in Containers : LabelShown(c, h)
  /\ Choose(SetDevice(store, Device(c, NoPack)))

\* InstancedGLBParts: the packages of the opened container are instances of their own.
Clickable(c) == InteriorShown(c)

\* A package of the opened container: its index is set, then its identifier.
PackageSelect(p) ==
  \E c \in Containers :
    /\ Clickable(c)
    /\ Choose(SetDevice(SetPack(store, p), Device(c, p)))

\* mapAlarmItems: an alarm names a container, another device or none.
AlarmDevices == {d \in Selections : d.pack = NoPack}

\* An alarm of a panel or a toast, or a device the agent points at.
AlertSelect(d) == Choose(SetDevice(store, d))

\* A click that hits nothing in the scene.
Missed == ~WallShown /\ Choose(SetPack(SetDevice(store, Nobody), NoPack))

\* A camera preset: the camera moves there from whatever is focused.
Preset ==
  /\ ApplyPreset(PresetPlace)
  /\ UNCHANGED <<store, url, pending, had>>

\* The user turns the scene.
UserTurns ==
  /\ camera' = "user"
  /\ UNCHANGED <<store, url, pending, aim, had>>

\* The frame in which the camera arrives.
CameraArrives ==
  /\ camera = "moving"
  /\ camera' = "resting"
  /\ UNCHANGED <<store, url, pending, aim, had>>

\* Telemetry replaced the containers: the focus effect depends on them.
ContainersReplaced ==
  /\ Follow(store)
  /\ UNCHANGED <<store, url, pending>>

\* Mutant: the page does not take the view and the asset over from the address.
CommitIgnored ==
  /\ pending # NoAddress
  /\ url' = pending /\ pending' = NoAddress
  /\ UNCHANGED <<store, camera, aim, had>>

\* The router commits.  The old subscription is gone when the page takes the view and
\* the asset over from the address, so this does not navigate.
Commit ==
  /\ pending # NoAddress
  /\ url' = pending /\ pending' = NoAddress
  /\ LET viewed == IF store.view # pending.view THEN SetView(store, pending.view) ELSE store
         s == IF viewed.device # pending.device THEN SetDevice(viewed, pending.device) ELSE viewed
     IN /\ store' = s
        /\ IF s # store THEN Follow(s) ELSE UNCHANGED <<camera, aim, had>>

-----------------------------------------------------------------------------
\* The page opens at an address.
PageInit ==
  /\ url \in Addresses
  /\ store = [view |-> url.view, device |-> url.device, pack |-> url.device.pack]
  /\ pending = NoAddress
  /\ camera = "moving"
  /\ had = (Focus(store) # NoFocus)
  /\ aim = IF had THEN Focus(store) ELSE Default

PageNext ==
  \/ \E v \in Views : ChangeView(v)
  \/ \E c \in Containers : TreeSelect(c) \/ SceneSelect(c) \/ LabelSelect(c)
  \/ \E p \in Packages : PackageSelect(p)
  \/ \E d \in AlarmDevices : AlertSelect(d)
  \/ Missed \/ Preset \/ UserTurns \/ CameraArrives \/ ContainersReplaced \/ Commit

PageSpec == PageInit /\ [][PageNext]_pageVars

-----------------------------------------------------------------------------
(***************************************************************************)
(* Properties.                                                             *)
(***************************************************************************)
PageTypeOK ==
  /\ store \in [view : Views, device : Selections, pack : Packages \cup {NoPack}]
  /\ url \in Addresses
  /\ pending \in Addresses \cup {NoAddress}
  /\ camera \in {"moving", "resting", "user"}
  /\ had \in BOOLEAN

\* Once no navigation is under way the address names the view and the device shown, so
\* that a reload or a shared link shows the same: the store and the address are changed
\* by each other, and the user goes on choosing while a navigation is under way.
AddressAgrees == pending = NoAddress => url = Address(store)

\* What is marked and drawn is what is selected: a package is marked only inside the
\* selected device, whatever order panels, scene and address set the two in, and every
\* container is drawn once, as an instance or opened, which two components decide apart.
SelectionCoherent ==
  /\ store.pack # NoPack => store.device.pack = store.pack
  /\ \A c \in Containers : InstanceHidden(c) <=> InteriorShown(c)

\* The user's camera is taken only for something the user did or, with a container
\* open, for news of the containers; the telemetry of a station at which nothing is
\* open does not move it.
CameraLeftAlone ==
  [][ camera = "user" /\ camera' # "user" =>
        \/ store' # store
        \/ Focus(store) # NoFocus
        \/ aim' = PresetPlace ]_pageVars
=============================================================================
