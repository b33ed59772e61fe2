----------------------------- MODULE StationProofs -----------------------------
(***************************************************************************)
(* Proofs about the parts of the station's page: the temperature filter,   *)
(* the energy trend, the page's address and selection, the measurements    *)
(* shown, the labels over the scene and the access token.  Each invariant  *)
(* is proved from an inductive one, that says what the answers still under *)
(* way may be about, or what holds after every turn of a loop.             *)
(* The last theorem puts the parts together.                               *)
(***************************************************************************)
EXTENDS Station, IterationTheorems, FiniteSetTheorems, SequenceTheorems, TLAPS

(***************************************************************************)
(* The temperature filter.                                                 *)
(***************************************************************************)
FilterInv ==
  /\ range \in [lo : TMin..TMax, hi : TMin..TMax]
  /\ range.lo < range.hi

LEMMA FilterInitial == FilterInit => FilterInv
BY TrackAssumption DEF FilterInit, FilterInv

LEMMA FilterInductive == FilterInv /\ [FilterNext]_filterVars => FilterInv'
<1> SUFFICES ASSUME FilterInv, [FilterNext]_filterVars PROVE FilterInv'
  OBVIOUS
<1> USE TrackAssumption DEF FilterInv
<1>1. CASE UNCHANGED range
  BY <1>1
<1>2. ASSUME NEW v \in TMin..TMax, Drag(v) PROVE FilterInv'
  BY <1>2 DEF Drag, Lesser, Greater
<1>3. QED
  BY <1>1, <1>2 DEF FilterNext, Grab, Press, LetGo, filterVars

LEMMA FilterInvSafe == FilterInv => RangeOnTrack
<1> SUFFICES ASSUME FilterInv PROVE RangeOnTrack
  OBVIOUS
<1> USE TrackAssumption DEF FilterInv
<1>1. range.lo \in TMin..TMax - 1 /\ InRange(range.lo) /\ InRange(range.lo + 1)
  BY DEF InRange
<1> QED
  BY <1>1 DEF RangeOnTrack

\* The range keeps two different temperatures of the track, lower below upper, however
\* its handles are dragged (VerticalTempRange).
THEOREM FilterSafe == FilterSpec => []RangeOnTrack
BY FilterInitial, FilterInductive, FilterInvSafe, PTL DEF FilterSpec

-----------------------------------------------------------------------------
(***************************************************************************)
(* The energy trend.                                                       *)
(***************************************************************************)
Subjects == Scopes \X Ranges

TrendInv ==
  /\ choice \in [scope : Scopes, range : Ranges, nr : Nat]
  /\ loads \subseteq [for : Subjects, nr : Nat, active : BOOLEAN]
  /\ polls \subseteq [for : Subjects, nr : Nat, at : {"head", "body"}, aborted : BOOLEAN]
  /\ asked \in Nat
  /\ \A l \in loads : l.active => l.for = About(choice)
  /\ \A p \in polls : ~p.aborted => p.for = About(choice)
  /\ PointsOfTheChoice

LEMMA TrendInitial == TrendInit => TrendInv
BY DEF TrendInit, TrendInv, PointsOfTheChoice, Load, About, Subjects, Ranges

LEMMA TrendInductive == TrendInv /\ [TrendNext]_trendVars => TrendInv'
<1> SUFFICES ASSUME TrendInv, [TrendNext]_trendVars PROVE TrendInv'
  OBVIOUS
<1> USE DEF TrendInv, PointsOfTheChoice
<1>1. CASE UNCHANGED trendVars
  BY <1>1 DEF trendVars, About
<1>2. CASE Select
  <2>1. PICK s \in Scopes, r \in Ranges :
          choice' = [scope |-> s, range |-> r, nr |-> choice.nr + 1]
    BY <1>2 DEF Select
  <2>2. Load(choice', asked) \in [for : Subjects, nr : Nat, active : BOOLEAN]
    BY <2>1 DEF Load, About, Subjects
  <2>3. \A l \in loads : [l EXCEPT !.active = FALSE] \in [for : Subjects, nr : Nat, active : BOOLEAN]
    OBVIOUS
  <2>4. \A p \in polls : /\ Aborted(p) \in [for : Subjects, nr : Nat, at : {"head", "body"},
                                            aborted : BOOLEAN]
                         /\ Aborted(p).aborted
    BY DEF Aborted
  <2>5. \A l \in loads : ~[l EXCEPT !.active = FALSE].active
    OBVIOUS
  <2>6. \A l \in loads' : l.active => l.for = About(choice')
    BY <1>2, <2>5 DEF Select, Load
  <2>7. \A p \in polls' : p.aborted
    BY <1>2, <2>4 DEF Select
  <2>8. status' = "loading" /\ asked' = asked
    BY <1>2 DEF Select
  <2>9. loads' \subseteq [for : Subjects, nr : Nat, active : BOOLEAN]
    BY <1>2, <2>2, <2>3 DEF Select
  <2>10. polls' \subseteq [for : Subjects, nr : Nat, at : {"head", "body"}, aborted : BOOLEAN]
    BY <1>2, <2>4 DEF Select
  <2>11. choice' \in [scope : Scopes, range : Ranges, nr : Nat]
    BY <2>1
  <2> QED
    BY <2>6, <2>7, <2>8, <2>9, <2>10, <2>11 DEF About
<1>3. CASE Retry
  <2>1. Load(choice, asked') \in [for : Subjects, nr : Nat, active : BOOLEAN]
    BY <1>3 DEF Retry, Load, About, Subjects
  <2>2. \A l \in loads : /\ [l EXCEPT !.active = FALSE] \in [for : Subjects, nr : Nat, active : BOOLEAN]
                         /\ ~[l EXCEPT !.active = FALSE].active
    OBVIOUS
  <2>4. loads' = {[l EXCEPT !.active = FALSE] : l \in loads} \cup {Load(choice, asked')}
    BY <1>3 DEF Retry
  <2>5. Load(choice, asked').for = About(choice)
    BY DEF Load
  <2>3. /\ loads' \subseteq [for : Subjects, nr : Nat, active : BOOLEAN]
        /\ \A l \in loads' : l.active => l.for = About(choice)
    BY <2>1, <2>2, <2>4, <2>5
  <2> QED
    BY <1>3, <2>3 DEF Retry, About
<1>4. CASE Poll
  <2> DEFINE sent == [for |-> About(choice), nr |-> asked, at |-> "head", aborted |-> FALSE]
  <2>1. sent \in [for : Subjects, nr : Nat, at : {"head", "body"}, aborted : BOOLEAN]
    BY DEF About, Subjects
  <2>2. polls' = polls \cup {sent} /\ sent.for = About(choice)
    BY <1>4 DEF Poll
  <2>3. UNCHANGED <<choice, status, points, loads>> /\ asked' \in Nat
    BY <1>4 DEF Poll
  <2> HIDE DEF sent
  <2>4. UNCHANGED About(choice)
    BY <2>3 DEF About
  <2> QED
    BY <2>1, <2>2, <2>3, <2>4
<1>5. ASSUME NEW l \in loads, HistoryAnswers(l) PROVE TrendInv'
  BY <1>5 DEF HistoryAnswers, About, Answered
<1>6. ASSUME NEW l \in loads, HistoryFails(l) PROVE TrendInv'
  BY <1>6 DEF HistoryFails, About
<1>7. ASSUME NEW p \in polls, PollHead(p) PROVE TrendInv'
  BY <1>7 DEF PollHead, About
<1>8. ASSUME NEW p \in polls, PollBody(p) PROVE TrendInv'
  BY <1>8 DEF PollBody, About, Merged, Answered
<1>9. ASSUME NEW p \in polls, PollFails(p) PROVE TrendInv'
  BY <1>9 DEF PollFails, About
<1> QED
  BY <1>1, <1>2, <1>3, <1>4, <1>5, <1>6, <1>7, <1>8, <1>9 DEF TrendNext

\* A chart that no longer loads holds answers to the chosen device and range only, for
\* any number of devices, choices, overlapping polls and failures (EnergyFlowTrend).
THEOREM TrendSafe == TrendSpec => []PointsOfTheChoice
<1>1. TrendInv => PointsOfTheChoice
  BY DEF TrendInv
<1> QED
  BY TrendInitial, TrendInductive, <1>1, PTL DEF TrendSpec

-----------------------------------------------------------------------------
(***************************************************************************)
(* The page's address and selection.                                       *)
(***************************************************************************)
Stores == [view : Views, device : Selections, pack : Packages \cup {NoPack}]
PackInDevice(s) == s.pack # NoPack => s.device.pack = s.pack

PageInv == PageTypeOK /\ AddressAgrees /\ PackInDevice(store)

LEMMA SelectionTyped ==
  \A d \in Selections : d.pack \in Packages \cup {NoPack}
BY DEF Selections, Nobody, Device

LEMMA PageInitial == PageInit => PageInv
BY SelectionTyped DEF PageInit, PageInv, PageTypeOK, AddressAgrees, PackInDevice, Address,
   Addresses, Stores

\* Whatever is chosen, the store's change and the navigation that follows keep the
\* invariant.
LEMMA ChooseKeeps ==
  ASSUME PageInv, NEW s \in Stores, PackInDevice(s), Choose(s)
  PROVE  PageInv'
<1>1. store' = s /\ url' = url /\ pending' = Navigated(s)
  BY DEF Choose
<1>2. Address(s) \in Addresses /\ Address(s) # NoAddress
  BY DEF Address, Addresses, Stores, NoAddress, Views
<1>3. camera' \in {"moving", "resting", "user"} /\ had' \in BOOLEAN
  BY DEF Choose, Follow, ApplyPreset, PageInv, PageTypeOK
<1>4. PageTypeOK'
  BY <1>1, <1>2, <1>3 DEF PageInv, PageTypeOK, Stores, Navigated
<1>5. AddressAgrees'
  <2> SUFFICES ASSUME pending' = NoAddress PROVE url' = Address(store')
    BY DEF AddressAgrees, Address
  <2>1. pending = NoAddress /\ (Address(s) = Address(store) \/ Address(s) = url)
    BY <1>1, <1>2 DEF Navigated
  <2> QED
    BY <1>1, <2>1 DEF PageInv, AddressAgrees
<1> QED
  BY <1>1, <1>4, <1>5 DEF PageInv, PackInDevice

LEMMA PageInductive == PageInv /\ [PageNext]_pageVars => PageInv'
<1> SUFFICES ASSUME PageInv, [PageNext]_pageVars PROVE PageInv'
  OBVIOUS
<1>1. store \in Stores
  BY DEF PageInv, PageTypeOK, Stores
<1>2. \A c \in Containers : Device(c, NoPack) \in Selections /\ Device(c, NoPack).pack = NoPack
  BY DEF Selections, Device
<1>3. \A d \in Selections : SetDevice(store, d) \in Stores /\ PackInDevice(SetDevice(store, d))
  BY <1>1, SelectionTyped DEF SetDevice, Stores, PackInDevice
<1>4. ASSUME NEW v \in Views, ChangeView(v) PROVE PageInv'
  <2>1. SetView(store, v) \in Stores /\ PackInDevice(SetView(store, v))
    BY <1>1 DEF SetView, Stores, PackInDevice, PageInv
  <2> QED
    BY <1>4, <2>1, ChooseKeeps DEF ChangeView
<1>5. ASSUME NEW c \in Containers, TreeSelect(c) \/ SceneSelect(c) \/ LabelSelect(c)
      PROVE  PageInv'
  <2>1. Choose(SetDevice(store, Device(c, NoPack)))
    BY <1>5 DEF TreeSelect, SceneSelect, LabelSelect
  <2> QED
    BY <1>2, <1>3, <2>1, ChooseKeeps
<1>6. ASSUME NEW p \in Packages, PackageSelect(p) PROVE PageInv'
  <2>1. PICK c \in Containers : Choose(SetDevice(SetPack(store, p), Device(c, p)))
    BY <1>6 DEF PackageSelect
  <2>2. Device(c, p) \in Selections /\ Device(c, p).pack = p
    BY DEF Selections, Device
  <2>3. /\ SetDevice(SetPack(store, p), Device(c, p)) \in Stores
        /\ PackInDevice(SetDevice(SetPack(store, p), Device(c, p)))
    BY <1>1, <2>2 DEF SetDevice, SetPack, Stores, PackInDevice
  <2> QED
    BY <2>1, <2>3, ChooseKeeps
<1>7. ASSUME NEW d \in AlarmDevices, AlertSelect(d) PROVE PageInv'
  BY <1>3, <1>7, ChooseKeeps DEF AlertSelect, AlarmDevices
<1>8. CASE Missed
  <2>1. Nobody \in Selections
    BY DEF Selections
  <2>2. /\ SetPack(SetDevice(store, Nobody), NoPack) \in Stores
        /\ PackInDevice(SetPack(SetDevice(store, Nobody), NoPack))
    BY <1>1, <2>1 DEF SetPack, SetDevice, Stores, PackInDevice
  <2> QED
    BY <1>8, <2>2, ChooseKeeps DEF Missed
<1>9. CASE Preset \/ UserTurns \/ CameraArrives \/ ContainersReplaced \/ UNCHANGED pageVars
  <2>1. UNCHANGED <<store, url, pending>>
    BY <1>9 DEF Preset, UserTurns, CameraArrives, ContainersReplaced, pageVars
  <2>2. camera' \in {"moving", "resting", "user"} /\ had' \in BOOLEAN
    BY <1>9 DEF Preset, UserTurns, CameraArrives, ContainersReplaced, Follow, ApplyPreset,
       pageVars, PageInv, PageTypeOK
  <2> QED
    BY <2>1, <2>2 DEF PageInv, PageTypeOK, AddressAgrees, Address, PackInDevice
<1>10. CASE Commit
  <2> DEFINE viewed == IF store.view # pending.view THEN SetView(store, pending.view) ELSE store
             s == IF viewed.device # pending.device THEN SetDevice(viewed, pending.device)
                  ELSE viewed
  <2>1. pending \in Addresses /\ url' = pending /\ pending' = NoAddress /\ store' = s
    BY <1>10 DEF Commit, PageInv, PageTypeOK
  <2>2. pending.view \in Views /\ pending.device \in Selections
    BY <2>1 DEF Addresses
  <2>3. viewed \in Stores /\ PackInDevice(viewed) /\ viewed.view = pending.view
    BY <1>1, <2>2 DEF SetView, Stores, PackInDevice, PageInv
  <2> HIDE DEF viewed
  <2>4. s \in Stores /\ PackInDevice(s) /\ s.view = pending.view /\ s.device = pending.device
    BY <2>2, <2>3, SelectionTyped DEF SetDevice, Stores, PackInDevice
  <2> HIDE DEF s
  <2>5. camera' \in {"moving", "resting", "user"} /\ had' \in BOOLEAN
    BY <1>10 DEF Commit, Follow, ApplyPreset, PageInv, PageTypeOK
  <2>6. PageTypeOK'
    BY <2>1, <2>4, <2>5 DEF PageTypeOK, Stores
  <2>7. Address(s) = pending
    BY <2>1, <2>4 DEF Address, Addresses
  <2> QED
    BY <2>1, <2>4, <2>6, <2>7 DEF PageInv, AddressAgrees, PackInDevice, Address
<1> QED
  BY <1>4, <1>5, <1>6, <1>7, <1>8, <1>9, <1>10 DEF PageNext

\* Once no navigation is under way the address names what is shown, however the user's
\* choices and the router's commits interleave (digital-twin-workspace.tsx).
THEOREM PageAddressed == PageSpec => []AddressAgrees
<1>1. PageInv => AddressAgrees
  BY DEF PageInv
<1> QED
  BY PageInitial, PageInductive, <1>1, PTL DEF PageSpec

LEMMA PageInvCoherent == PageInv => SelectionCoherent
<1> SUFFICES ASSUME PageInv PROVE SelectionCoherent
  OBVIOUS
<1>1. \A c \in Containers : InstanceHidden(c) <=> InteriorShown(c)
  BY PageAssumption DEF InstanceHidden, InteriorShown, Focus, NoFocus, Nobody
<1> QED
  BY <1>1 DEF PageInv, PackInDevice, SelectionCoherent

\* A marked package belongs to the selected device and every container is drawn once.
THEOREM PageCoherent == PageSpec => []SelectionCoherent
BY PageInitial, PageInductive, PageInvCoherent, PTL DEF PageSpec

\* The page remembers whether it shows a container opened.
FocusKnown == had <=> Focus(store) # NoFocus

LEMMA FocusStep == FocusKnown /\ [PageNext]_pageVars => FocusKnown'
<1> SUFFICES ASSUME FocusKnown, [PageNext]_pageVars PROVE FocusKnown'
  OBVIOUS
<1>1. ASSUME NEW s, store' = s, IF s # store THEN Follow(s) ELSE UNCHANGED <<camera, aim, had>>
      PROVE  FocusKnown'
  BY <1>1 DEF FocusKnown, Follow, Focus
<1>2. \A s : Choose(s) => FocusKnown'
  BY <1>1 DEF Choose
<1>3. CASE Commit
  BY <1>1, <1>3 DEF Commit
<1>4. CASE ContainersReplaced
  BY <1>4 DEF ContainersReplaced, Follow, FocusKnown, Focus
<1>5. CASE Preset \/ UserTurns \/ CameraArrives \/ UNCHANGED pageVars
  BY <1>5 DEF Preset, UserTurns, CameraArrives, pageVars, FocusKnown, Focus
<1>6. CASE \/ \E v \in Views : ChangeView(v)
           \/ \E c \in Containers : TreeSelect(c) \/ SceneSelect(c) \/ LabelSelect(c)
           \/ \E p \in Packages : PackageSelect(p)
           \/ \E d \in AlarmDevices : AlertSelect(d)
           \/ Missed
  <2>1. \E s : Choose(s)
    BY <1>6 DEF ChangeView, TreeSelect, SceneSelect, LabelSelect, PackageSelect, AlertSelect,
       Missed
  <2> QED
    BY <1>2, <2>1
<1> QED
  BY <1>3, <1>4, <1>5, <1>6 DEF PageNext

\* A step that takes the camera from the user changes the store, finds a container
\* opened or is a preset.
LEMMA CameraStep ==
  ASSUME FocusKnown, [PageNext]_pageVars, camera = "user", camera' # "user"
  PROVE  store' # store \/ Focus(store) # NoFocus \/ aim' = PresetPlace
<1>1. \A s : Choose(s) => store' # store
  BY DEF Choose
<1>2. CASE Commit
  BY <1>2 DEF Commit
<1>3. CASE ContainersReplaced
  BY <1>3 DEF ContainersReplaced, Follow, FocusKnown
<1>4. CASE Preset
  BY <1>4 DEF Preset, ApplyPreset
<1>5. CASE UserTurns \/ CameraArrives \/ UNCHANGED pageVars
  BY <1>5 DEF UserTurns, CameraArrives, pageVars
<1>6. CASE \/ \E v \in Views : ChangeView(v)
           \/ \E c \in Containers : TreeSelect(c) \/ SceneSelect(c) \/ LabelSelect(c)
           \/ \E p \in Packages : PackageSelect(p)
           \/ \E d \in AlarmDevices : AlertSelect(d)
           \/ Missed
  <2>1. \E s : Choose(s)
    BY <1>6 DEF ChangeView, TreeSelect, SceneSelect, LabelSelect, PackageSelect, AlertSelect,
       Missed
  <2> QED
    BY <1>1, <2>1
<1> QED
  BY <1>2, <1>3, <1>4, <1>5, <1>6 DEF PageNext

\* The user's camera is left alone by telemetry that replaces the containers while none
\* is open, whatever was opened and closed before (SceneControls).
THEOREM CameraKept == PageSpec => CameraLeftAlone
<1>1. PageInit => FocusKnown
  BY DEF PageInit, FocusKnown
<1>2. FocusKnown /\ [PageNext]_pageVars =>
        [camera = "user" /\ camera' # "user" =>
           \/ store' # store
           \/ Focus(store) # NoFocus
           \/ aim' = PresetPlace]_pageVars
  BY CameraStep
<1> QED
  BY FocusStep, <1>1, <1>2, PTL DEF PageSpec, CameraLeftAlone

-----------------------------------------------------------------------------
(***************************************************************************)
(* The access token.                                                       *)
(***************************************************************************)
\* The login form is shown only without a token; a request for one is made by the page
\* behind the form, once at a time, and none is stored until it is answered.
TokenInv ==
  /\ boot \in {0, 1}
  /\ gate \in {"login", "submitting"} => token = None
  /\ boot = 1 => gate = "authenticated" /\ token = None

LEMMA AccessInitial == AccInit => TokenInv
BY DEF AccInit, TokenInv

LEMMA AccessInductive == TokenInv /\ [AccNext]_accVars => TokenInv'
<1> SUFFICES ASSUME TokenInv, [AccNext]_accVars PROVE TokenInv'
  OBVIOUS
<1> USE DEF TokenInv, bootVars
<1>1. CASE Deploy \/ Expire \/ Send \/ SessionAnswered \/ TurnAnswered \/ UNCHANGED accVars
  BY <1>1 DEF Deploy, Expire, Send, SessionAnswered, TurnAnswered, accVars
<1>2. CASE LoadPage
  BY <1>2 DEF LoadPage
<1>3. CASE Validated \/ ValidationFails \/ Submit \/ LoggedIn
  BY <1>3 DEF Validated, ValidationFails, Submit, LoggedIn, LoginAnswer, Answer
<1>4. ASSUME NEW q \in Queries, Query(q) \/ QueryAnswered(q) PROVE TokenInv'
  BY <1>4 DEF Query, QueryAnswered
<1>5. CASE AskBootstrap \/ BootstrapAnswered \/ BootstrapFails
  BY <1>5 DEF AskBootstrap, BootstrapAnswered, BootstrapFails
<1> QED
  BY <1>1, <1>2, <1>3, <1>4, <1>5 DEF AccNext

LEMMA AccessStep ==
  ASSUME TokenInv, [AccNext]_accVars, token # None
  PROVE  token' \in {token, None}
<1>1. ASSUME NEW q \in Queries, Query(q) \/ QueryAnswered(q) PROVE token' \in {token, None}
  BY <1>1 DEF Query, QueryAnswered
<1>2. CASE AskBootstrap \/ BootstrapAnswered \/ BootstrapFails
  BY <1>2 DEF AskBootstrap, BootstrapAnswered, BootstrapFails, TokenInv
<1>3. CASE Validated \/ ValidationFails \/ Submit \/ LoggedIn
  BY <1>3 DEF Validated, ValidationFails, Submit, LoggedIn, LoginAnswer, Answer, TokenInv
<1> QED
  BY <1>1, <1>2, <1>3 DEF AccNext, accVars, Deploy, Expire, LoadPage, Send,
     SessionAnswered, TurnAnswered

\* No answer to the telemetry's request for a token and no sign-in, however late, puts
\* another token where one is stored (stationAuthClient.js, station-auth.ts).
THEOREM AccessKept == AccSpec => TokenNotReplaced
<1>1. TokenInv /\ [AccNext]_accVars => [token # None => token' \in {token, None}]_accVars
  BY AccessStep
<1> QED
  BY AccessInitial, AccessInductive, <1>1, PTL DEF AccSpec, TokenNotReplaced

-----------------------------------------------------------------------------
(***************************************************************************)
(* The measurements shown.                                                 *)
(***************************************************************************)
Facts == [Devices -> [Metrics -> Ages]]
Snapshots == [Devices -> [Metrics -> Points]]
Connections == [Gens -> [pc : States, wire : Snapshots]]
Shown == [Devices -> [value : [Metrics -> Ages], observed : Ages, label : {"none", "live", "stale"}]]

\* A metric that backs the time of its container: neither what is shown of it, nor what
\* is on its way, nor what the source has, is older.
Backs(d, m) ==
  /\ shown[d].value[m] <= shown[d].observed
  /\ fact[d][m] <= shown[d].observed
  /\ \A g \in Gens :
       conn[g].wire[d][m].age # Never => conn[g].wire[d][m].age <= shown[d].observed

\* Only the active effect's open socket carries a snapshot, whose measurements are no
\* newer than the source's, and some metric backs each container's time.
TelInv ==
  /\ fact \in Facts /\ conn \in Connections /\ gen \in Gens /\ shown \in Shown
  /\ OneSocket
  /\ \A g \in Gens : conn[g].wire # Nothing => g = gen /\ conn[g].pc = "open"
  /\ \A g \in Gens, d \in Devices, m \in Metrics :
       /\ conn[g].wire[d][m].age # Never => fact[d][m] <= conn[g].wire[d][m].age
       /\ conn[g].wire[d][m].dated => conn[g].wire[d][m].age # Never
  /\ \A d \in Devices : shown[d].observed # Never => \E m \in Metrics : Backs(d, m)

LEMMA Numbers == /\ Stale \in Nat /\ Old \in Nat /\ Never \in Nat /\ Old + 1 = Never
                 /\ Ages \subseteq Nat /\ Never \in Ages /\ \A a \in Ages : a <= Never
BY TelemetryAssumption DEF Old, Never, Ages

LEMMA NothingTyped ==
  /\ Unmeasured \in [Metrics -> Ages]
  /\ Absent \in Points
  /\ Nothing \in Snapshots
  /\ \A d \in Devices, m \in Metrics : Nothing[d][m] = Absent
BY Numbers DEF Nothing, Snapshots, Unmeasured, Absent, Points

LEMMA AgedOrder ==
  \A a, b \in Ages : /\ Aged(a) \in Ages
                     /\ Aged(a) = Never <=> a = Never
                     /\ a <= b => Aged(a) <= Aged(b)
BY Numbers DEF Aged, Ages

\* newestTimestamp: a set of ages has a least one.
LEMMA NewestIs ==
  ASSUME NEW S \in SUBSET Ages, S # {}
  PROVE  Newest(S) \in S /\ \A a \in S : Newest(S) <= a
<1>1. PICK n \in S : \A a \in S : n <= a
  BY LeastNatural, Numbers
<1> QED
  BY <1>1 DEF Newest

\* The time of a container after a snapshot is the one it had or that of a dated point.
LEMMA ObservedIs ==
  ASSUME NEW o \in Ages, NEW p \in [Metrics -> Points]
  PROVE  LET n == Newest({o} \cup Times(p)) IN
         /\ n \in Ages /\ n <= o
         /\ \A m \in Metrics : p[m].dated => n <= p[m].age
         /\ n = o \/ \E m \in Metrics : p[m].dated /\ n = p[m].age
<1> DEFINE S == {o} \cup Times(p)
<1>1. S \in SUBSET Ages /\ S # {}
  BY DEF Times, Points
<1>2. Newest(S) \in S /\ \A a \in S : Newest(S) <= a
  BY <1>1, NewestIs
<1>3. o \in S /\ \A m \in Metrics : p[m].dated => p[m].age \in S
  BY DEF Times
<1>4. \A a \in S : a = o \/ \E m \in Metrics : p[m].dated /\ a = p[m].age
  BY DEF Times
<1> HIDE DEF S
<1>5. /\ Newest(S) \in Ages /\ Newest(S) <= o
      /\ \A m \in Metrics : p[m].dated => Newest(S) <= p[m].age
      /\ Newest(S) = o \/ \E m \in Metrics : p[m].dated /\ Newest(S) = p[m].age
  BY <1>1, <1>2, <1>3, <1>4
<1> QED
  BY <1>5 DEF S

LEMMA ValuesIs ==
  ASSUME NEW old \in [Metrics -> Ages], NEW p \in [Metrics -> Points]
  PROVE  /\ Values(old, p) \in [Metrics -> Ages]
         /\ (\A m \in Metrics : p[m].age = Never) => Values(old, p) = old
<1>1. \A m \in Metrics : p[m].age \in Ages
  BY DEF Points
<1> QED
  BY <1>1 DEF Values

LEMMA TelInitial == TelInit => TelInv
<1> SUFFICES ASSUME TelInit PROVE TelInv
  OBVIOUS
<1>1. 1 \in Gens
  BY TelemetryAssumption DEF Gens
<1>2. conn \in Connections /\ fact \in Facts /\ shown \in Shown
  BY NothingTyped, Numbers DEF TelInit, Connections, States, Facts, Shown
<1>3. \A g \in Gens : conn[g].wire = Nothing
  BY DEF TelInit
<1>4. \A d \in Devices : shown[d].observed = Never
  BY DEF TelInit
<1> QED
  BY <1>1, <1>2, <1>3, <1>4, NothingTyped DEF TelInit, TelInv, OneSocket, Absent

\* A step of the connections that sends and delivers nothing.
LEMMA Rewired ==
  ASSUME TelInv, UNCHANGED <<fact, shown>>, conn' \in Connections, gen' \in Gens,
         \A g \in Gens : conn'[g].pc \in {"dialing", "open", "waiting"} => g = gen',
         \A g \in Gens : conn'[g].wire \in {Nothing, conn[g].wire},
         \A g \in Gens : conn'[g].wire # Nothing => g = gen' /\ conn'[g].pc = "open"
  PROVE  TelInv'
<1>1. \A g \in Gens, d \in Devices, m \in Metrics :
        conn'[g].wire[d][m] \in {Absent, conn[g].wire[d][m]}
  BY NothingTyped
<1>2. \A g \in Gens, d \in Devices, m \in Metrics :
        /\ conn'[g].wire[d][m].age # Never => fact[d][m] <= conn'[g].wire[d][m].age
        /\ conn'[g].wire[d][m].dated => conn'[g].wire[d][m].age # Never
  BY <1>1 DEF TelInv, Absent
<1>3. \A d \in Devices, m \in Metrics : Backs(d, m) => Backs(d, m)'
  BY <1>1 DEF Backs, Absent
<1> QED
  BY <1>2, <1>3 DEF TelInv, OneSocket

LEMMA ConnTyped ==
  ASSUME TelInv, NEW g \in Gens, NEW p \in States, NEW w \in Snapshots
  PROVE  /\ [conn EXCEPT ![g] = [pc |-> p, wire |-> w]] \in Connections
         /\ [conn EXCEPT ![g].pc = p] \in Connections
         /\ [conn EXCEPT ![g].wire = w] \in Connections
BY DEF TelInv, Connections

\* Steps that change one connection's control and leave no snapshot behind.
LEMMA BridgeKeeps ==
  ASSUME TelInv, NEW g \in Gens,
         TokenArrives(g) \/ Opens(g) \/ Reconnect(g) \/ TokenFails(g) \/ Breaks(g)
  PROVE  TelInv'
<1> USE DEF States
<1>1. conn[g].pc \in {"token", "dialing", "waiting"} => conn[g].wire = Nothing
  BY DEF TelInv
<1>2. conn \in Connections /\ gen \in Gens /\ gen' = gen /\ UNCHANGED <<fact, shown>>
  BY DEF TelInv, TokenArrives, Opens, Reconnect, TokenFails, Breaks
<1>3. conn' \in Connections
  <2>1. CASE TokenArrives(g) \/ TokenFails(g) \/ Opens(g)
    <3>1. PICK p \in States : conn' = [conn EXCEPT ![g].pc = p]
      BY <2>1 DEF TokenArrives, TokenFails, Opens
    <3> QED
      BY <3>1, ConnTyped, NothingTyped
  <2>2. CASE Reconnect(g) \/ Breaks(g)
    <3>1. PICK p \in States : conn' = [conn EXCEPT ![g] = [pc |-> p, wire |-> Nothing]]
      BY <2>2 DEF Reconnect, Connecting, Breaks
    <3> QED
      BY <3>1, ConnTyped, NothingTyped
  <2> QED
    BY <2>1, <2>2
<1>4. \A h \in Gens : h # g => conn'[h] = conn[h]
  BY <1>2 DEF TokenArrives, Opens, Reconnect, Connecting, TokenFails, Breaks, Connections
<1>5. CASE TokenArrives(g) \/ TokenFails(g)
  <2>1. /\ conn'[g].pc \in {"dialing", "waiting", "closed"}
        /\ conn'[g].pc # "closed" => g = gen
        /\ conn'[g].wire = Nothing
    BY <1>1, <1>2, <1>5 DEF TokenArrives, TokenFails, Connections
  <2> QED
    BY <1>2, <1>3, <1>4, <2>1, Rewired DEF TelInv, OneSocket
<1>6. CASE Opens(g) \/ Reconnect(g)
  <2>1. conn'[g].pc \in {"open", "token"} /\ conn'[g].wire = Nothing /\ g = gen
    BY <1>1, <1>2, <1>6 DEF Opens, Reconnect, Connecting, Connections, TelInv, OneSocket
  <2> QED
    BY <1>2, <1>3, <1>4, <2>1, Rewired DEF TelInv, OneSocket
<1>7. CASE Breaks(g)
  <2>1. conn'[g].pc \in {"waiting", "closed"} /\ conn'[g].wire = Nothing /\ g = gen
    BY <1>2, <1>7 DEF Breaks, Connections, TelInv, OneSocket
  <2> QED
    BY <1>2, <1>3, <1>4, <2>1, Rewired DEF TelInv, OneSocket
<1> QED
  BY <1>5, <1>6, <1>7

LEMMA RefreshKeeps == ASSUME TelInv, Refresh PROVE TelInv'
<1>1. gen \in Gens /\ gen + 1 \in Gens /\ gen' = gen + 1 /\ gen + 1 # gen
  BY TelemetryAssumption DEF TelInv, Refresh, Gens
<1>2. Cleanup(conn, gen) \in Connections
  BY <1>1, ConnTyped, NothingTyped DEF Cleanup, TelInv, Connections, States
<1>3. conn' = [Cleanup(conn, gen) EXCEPT ![gen + 1] = [pc |-> "token", wire |-> Nothing]]
  BY DEF Refresh, Connecting
<1>4. conn' \in Connections
  BY <1>1, <1>2, <1>3, NothingTyped DEF Connections, States
<1>5. conn'[gen + 1].pc = "token" /\ conn'[gen + 1].wire = Nothing
  BY <1>1, <1>2, <1>3 DEF Connections
<1>6. conn'[gen].pc \in {"token", "closed"} /\ conn'[gen].wire = Nothing
  <2>1. conn'[gen] = Cleanup(conn, gen)[gen]
    BY <1>1, <1>2, <1>3 DEF Connections
  <2>2. conn[gen].pc = "token" => conn[gen].wire = Nothing
    BY <1>1 DEF TelInv
  <2> QED
    BY <1>1, <2>1, <2>2 DEF Cleanup, TelInv, Connections
<1>7. \A h \in Gens \ {gen, gen + 1} : conn'[h] = conn[h]
  BY <1>1, <1>2, <1>3 DEF Cleanup, TelInv, Connections
<1>8. \A h \in Gens : /\ conn'[h].pc \in {"dialing", "open", "waiting"} => h = gen'
                      /\ conn'[h].wire \in {Nothing, conn[h].wire}
                      /\ conn'[h].wire # Nothing => h = gen' /\ conn'[h].pc = "open"
  BY <1>5, <1>6, <1>7 DEF TelInv, OneSocket
<1> QED
  BY <1>1, <1>4, <1>8, Rewired DEF Refresh

LEMMA PushKeeps == ASSUME TelInv, NEW g \in Gens, Push(g) PROVE TelInv'
<1>1. PICK some \in SUBSET Measured :
        \E dated \in SUBSET some : conn' = [conn EXCEPT ![g].wire = Snapshot(some, dated)]
  BY DEF Push
<1>2. PICK dated \in SUBSET some : conn' = [conn EXCEPT ![g].wire = Snapshot(some, dated)]
  BY <1>1
<1> DEFINE w == Snapshot(some, dated)
<1>3. w \in Snapshots
  BY NothingTyped DEF Snapshot, Snapshots, TelInv, Facts, Points
<1>4. \A d \in Devices, m \in Metrics :
        \/ w[d][m] = Absent
        \/ w[d][m].age = fact[d][m] /\ fact[d][m] # Never
  BY DEF Snapshot, Measured
<1>5. conn' = [conn EXCEPT ![g].wire = w]
  BY <1>2
<1> HIDE DEF w
<1>6. conn' \in Connections /\ conn'[g].wire = w /\ conn'[g].pc = "open" /\ g = gen
  <2>1. conn' \in Connections
    <3>1. "open" \in States
      BY DEF States
    <3> QED
      BY <1>3, <1>5, <3>1, ConnTyped
  <2>2. conn \in Connections
    BY DEF TelInv
  <2>3. conn'[g].wire = w /\ conn'[g].pc = conn[g].pc
    BY <1>5, <2>2 DEF Connections
  <2> QED
    BY <2>1, <2>3 DEF Push, TelInv, OneSocket
<1>7. \A h \in Gens : h # g => conn'[h] = conn[h]
  BY <1>5 DEF TelInv, Connections
<1>8. \A d \in Devices, m \in Metrics : fact[d][m] \in Nat
  BY Numbers DEF TelInv, Facts
<1>9. UNCHANGED <<fact, gen, shown>>
  BY DEF Push
<1>10. \A h \in Gens, d \in Devices, m \in Metrics :
         \/ conn'[h].wire[d][m] \in {Absent, conn[h].wire[d][m]}
         \/ conn'[h].wire[d][m].age = fact[d][m] /\ fact[d][m] # Never
  BY <1>4, <1>6, <1>7
<1>11. \A h \in Gens, d \in Devices, m \in Metrics :
         /\ conn'[h].wire[d][m].age # Never => fact[d][m] <= conn'[h].wire[d][m].age
         /\ conn'[h].wire[d][m].dated => conn'[h].wire[d][m].age # Never
  BY <1>8, <1>10 DEF TelInv, Absent
<1>12. \A d \in Devices, m \in Metrics : Backs(d, m) => Backs(d, m)'
  BY <1>9, <1>10 DEF Backs, Absent
<1>13. OneSocket' /\ \A h \in Gens : conn'[h].wire # Nothing => h = gen' /\ conn'[h].pc = "open"
  BY <1>6, <1>7, <1>9 DEF TelInv, OneSocket
<1> QED
  BY <1>6, <1>9, <1>11, <1>12, <1>13 DEF TelInv

LEMMA DeliverKeeps == ASSUME TelInv, NEW g \in Gens, Deliver(g) PROVE TelInv'
<1> DEFINE w == conn[g].wire
<1>1. w \in Snapshots /\ g = gen
  BY DEF Deliver, TelInv, Connections
<1>2. shown' = ApplySnapshot(shown, w) /\ UNCHANGED <<fact, gen>>
  BY DEF Deliver
<1>3. \A d \in Devices : /\ shown'[d].observed = Newest({shown[d].observed} \cup Times(w[d]))
                         /\ shown'[d].value = Values(shown[d].value, w[d])
                         /\ shown'[d].label \in {"live", "stale"}
  BY <1>2 DEF ApplySnapshot
<1>4. \A d \in Devices : shown[d].observed \in Ages /\ w[d] \in [Metrics -> Points]
  BY <1>1 DEF TelInv, Shown, Snapshots
<1>5. \A d \in Devices :
        /\ shown'[d].observed \in Ages
        /\ \/ shown'[d].observed = shown[d].observed
           \/ \E m \in Metrics : w[d][m].dated /\ shown'[d].observed = w[d][m].age
  <2> TAKE d \in Devices
  <2> DEFINE o == shown[d].observed
             p == w[d]
  <2>1. o \in Ages /\ p \in [Metrics -> Points]
    BY <1>4
  <2>2. shown'[d].observed = Newest({o} \cup Times(p))
    BY <1>3
  <2> HIDE DEF o, p
  <2>3. /\ shown'[d].observed \in Ages
        /\ shown'[d].observed = o \/ \E m \in Metrics : p[m].dated /\ shown'[d].observed = p[m].age
    BY <2>1, <2>2, ObservedIs
  <2> QED
    BY <2>3 DEF o, p
<1>6. \A d \in Devices, m \in Metrics :
        shown'[d].value[m] = IF w[d][m].age # Never THEN w[d][m].age ELSE shown[d].value[m]
  BY <1>3 DEF Values
<1>7. shown' \in Shown
  <2>1. \A d \in Devices : shown'[d].value \in [Metrics -> Ages]
    <3> TAKE d \in Devices
    <3> DEFINE old == shown[d].value
               p == w[d]
    <3>1. old \in [Metrics -> Ages] /\ p \in [Metrics -> Points]
      BY <1>4 DEF TelInv, Shown
    <3>2. shown'[d].value = Values(old, p)
      BY <1>3
    <3> HIDE DEF old, p
    <3> QED
      BY <3>1, <3>2, ValuesIs
  <2> QED
    BY <1>2, <1>3, <1>5, <2>1 DEF ApplySnapshot, Shown
<1>8. conn' \in Connections /\ conn'[g].wire = Nothing /\ conn'[g].pc = conn[g].pc
  BY ConnTyped, NothingTyped DEF Deliver, TelInv, Connections
<1>9. \A h \in Gens : h # g => conn'[h] = conn[h] /\ conn[h].wire = Nothing
  BY <1>1 DEF Deliver, TelInv, Connections
<1>10. \A h \in Gens, d \in Devices, m \in Metrics : conn'[h].wire[d][m] = Absent
  BY <1>8, <1>9, NothingTyped
<1>11. OneSocket' /\ \A h \in Gens : conn'[h].wire = Nothing
  BY <1>2, <1>8, <1>9 DEF TelInv, OneSocket
<1>12. ASSUME NEW d \in Devices, shown'[d].observed # Never
       PROVE  \E m \in Metrics : Backs(d, m)'
  <2>1. CASE shown'[d].observed = shown[d].observed
    <3>1. PICK m \in Metrics : Backs(d, m)
      BY <1>12, <2>1 DEF TelInv
    <3>2. w[d][m].age # Never => w[d][m].age <= shown[d].observed
      BY <3>1 DEF Backs
    <3> QED
      BY <1>2, <1>6, <1>10, <2>1, <3>1, <3>2 DEF Backs, Absent
  <2>2. CASE \E m \in Metrics : w[d][m].dated /\ shown'[d].observed = w[d][m].age
    <3>1. PICK m \in Metrics : w[d][m].dated /\ shown'[d].observed = w[d][m].age
      BY <2>2
    <3>2. w[d][m].age # Never /\ fact[d][m] <= w[d][m].age /\ w[d][m].age \in Nat
      BY <1>4, <3>1, Numbers DEF TelInv, Points
    <3> DEFINE a == w[d][m].age
    <3>3. shown'[d].value[m] = a /\ shown'[d].observed = a /\ fact'[d][m] <= a /\ a <= a
      BY <1>2, <1>6, <3>1, <3>2
    <3> HIDE DEF a
    <3>4. \A h \in Gens : conn'[h].wire[d][m].age = Never
      BY <1>10 DEF Absent
    <3> QED
      BY <3>3, <3>4 DEF Backs
  <2> QED
    BY <1>5, <2>1, <2>2
<1> QED
  BY <1>2, <1>7, <1>8, <1>10, <1>11, <1>12 DEF TelInv, Absent

\* Steps that leave the connections alone.
LEMMA QuietKeeps ==
  ASSUME TelInv, \/ StaleCheck \/ TreeArrives \/ Measure \/ UNCHANGED telVars
                 \/ \E g \in Gens : DeliverOthers(g)
  PROVE  TelInv'
<1>1. UNCHANGED <<conn, gen>>
  BY DEF StaleCheck, TreeArrives, Measure, DeliverOthers, telVars
<1>2. CASE StaleCheck \/ \E g \in Gens : DeliverOthers(g)
  <2>1. shown' = ApplySnapshot(shown, Nothing) /\ fact' = fact
    BY <1>2 DEF StaleCheck, DeliverOthers
  <2>2. \A d \in Devices : shown[d].observed \in Ages /\ Nothing[d] \in [Metrics -> Points]
    BY NothingTyped DEF TelInv, Shown, Snapshots
  <2>3. \A d \in Devices : shown'[d].observed = shown[d].observed
    <3>1. \A d \in Devices :
            shown'[d].observed = Newest({shown[d].observed} \cup Times(Nothing[d]))
      BY <2>1 DEF ApplySnapshot
    <3>2. \A d \in Devices, m \in Metrics : ~Nothing[d][m].dated
      BY NothingTyped DEF Absent
    <3> QED
      BY <2>2, <3>1, <3>2, ObservedIs
  <2>4. \A d \in Devices : shown'[d].value = shown[d].value
    <3>1. \A d \in Devices : shown'[d].value = Values(shown[d].value, Nothing[d])
      BY <2>1 DEF ApplySnapshot
    <3>2. \A d \in Devices, m \in Metrics : Nothing[d][m].age = Never
      BY NothingTyped DEF Absent
    <3> TAKE d \in Devices
    <3> DEFINE old == shown[d].value
               p == Nothing[d]
    <3>3. old \in [Metrics -> Ages] /\ p \in [Metrics -> Points]
      BY <2>2 DEF TelInv, Shown
    <3>4. shown'[d].value = Values(old, p) /\ \A m \in Metrics : p[m].age = Never
      BY <3>1, <3>2
    <3>5. shown'[d].value = old
      <4> HIDE DEF old, p
      <4> QED
        BY <3>3, <3>4, ValuesIs
    <3> QED
      BY <3>5
  <2>5. shown' \in Shown
    BY <2>1, <2>3, <2>4 DEF ApplySnapshot, TelInv, Shown
  <2>6. \A d \in Devices, m \in Metrics : Backs(d, m) => Backs(d, m)'
    BY <1>1, <2>1, <2>3, <2>4 DEF Backs
  <2> QED
    BY <1>1, <2>1, <2>3, <2>5, <2>6 DEF TelInv, OneSocket
<1>3. CASE TreeArrives
  <2>1. PICK listed \in SUBSET Devices, age \in 0..Old :
          \E has \in [listed -> SUBSET Mapped] :
            shown' = [d \in Devices |->
                        IF d \in listed
                        THEN [value |-> Summary(shown[d].value, has[d], age),
                              observed |-> Never, label |-> "none"]
                        ELSE shown[d]]
    BY <1>3 DEF TreeArrives
  <2>2. PICK has \in [listed -> SUBSET Mapped] :
          shown' = [d \in Devices |->
                      IF d \in listed
                      THEN [value |-> Summary(shown[d].value, has[d], age),
                            observed |-> Never, label |-> "none"]
                      ELSE shown[d]]
    BY <2>1
  <2>3. age \in Ages /\ Never \in Ages
    BY Numbers DEF Ages
  <2>4. \A d \in listed : Summary(shown[d].value, has[d], age) \in [Metrics -> Ages]
    BY <2>3 DEF Summary, TelInv, Shown
  <2>5. shown' \in Shown
    BY <2>2, <2>3, <2>4 DEF TelInv, Shown
  <2>6. \A d \in Devices : shown'[d].observed = Never \/ shown'[d] = shown[d]
    BY <2>2
  <2>7. \A d \in Devices, m \in Metrics : shown'[d] = shown[d] /\ Backs(d, m) => Backs(d, m)'
    BY <1>1, <1>3 DEF Backs, TreeArrives
  <2>8. fact' = fact
    BY <1>3 DEF TreeArrives
  <2> QED
    BY <1>1, <2>5, <2>6, <2>7, <2>8 DEF TelInv, OneSocket
<1>4. CASE Measure
  <2>1. PICK d \in Devices, m \in Metrics : fact' = [fact EXCEPT ![d][m] = 0]
    BY <1>4 DEF Measure
  <2>2. fact' \in Facts
    BY <2>1, Numbers DEF TelInv, Facts, Ages
  <2>3. \A e \in Devices, n \in Metrics : fact'[e][n] \in {0, fact[e][n]}
    BY <2>1 DEF TelInv, Facts
  <2>4. \A e \in Devices : /\ shown[e].observed \in Nat
                           /\ \A h \in Gens, n \in Metrics : conn[h].wire[e][n].age \in Nat
    <3>1. \A h \in Gens, e \in Devices, n \in Metrics : conn[h].wire[e][n] \in Points
      BY DEF TelInv, Connections, Snapshots
    <3> QED
      BY <3>1, Numbers DEF TelInv, Shown, Points
  <2>5. shown' = shown
    BY <1>4 DEF Measure
  <2>6. \A e \in Devices, n \in Metrics : Backs(e, n) => Backs(e, n)'
    BY <1>1, <2>3, <2>4, <2>5 DEF Backs
  <2>7. \A h \in Gens, e \in Devices, n \in Metrics :
          conn[h].wire[e][n].age # Never => fact'[e][n] <= conn[h].wire[e][n].age
    BY <2>3, <2>4 DEF TelInv
  <2> QED
    BY <1>1, <2>2, <2>5, <2>6, <2>7 DEF TelInv, OneSocket
<1>5. CASE UNCHANGED telVars
  <2>1. UNCHANGED <<fact, conn, gen, shown>>
    BY <1>5 DEF telVars
  <2>2. \A e \in Devices, n \in Metrics : Backs(e, n) => Backs(e, n)'
    BY <2>1 DEF Backs
  <2> QED
    BY <2>1, <2>2 DEF TelInv, OneSocket
<1> QED
  BY <1>2, <1>3, <1>4, <1>5

LEMMA TickKeeps == ASSUME TelInv, Tick PROVE TelInv'
<1>1. gen' = gen
  BY DEF Tick
<1>2. fact' \in Facts /\ \A d \in Devices, m \in Metrics : fact'[d][m] = Aged(fact[d][m])
  BY AgedOrder DEF Tick, TelInv, Facts, AgedAll
<1>3. \A w \in Snapshots : AgedPoints(w) \in Snapshots
  BY AgedOrder DEF Snapshots, AgedPoints, Points
<1>4. \A g \in Gens : conn'[g].pc = conn[g].pc /\ conn'[g].wire = AgedPoints(conn[g].wire)
  BY DEF Tick
<1>5. conn' \in Connections
  BY <1>3 DEF Tick, TelInv, Connections
<1>6. \A g \in Gens : /\ conn'[g].pc = conn[g].pc
                      /\ \A d \in Devices, m \in Metrics :
                           /\ conn'[g].wire[d][m].age = Aged(conn[g].wire[d][m].age)
                           /\ conn'[g].wire[d][m].dated = conn[g].wire[d][m].dated
  <2> TAKE g \in Gens
  <2> DEFINE w == conn[g].wire
             v == conn'[g].wire
  <2>1. conn'[g].pc = conn[g].pc /\ v = AgedPoints(w)
    BY <1>4
  <2> HIDE DEF w, v
  <2>2. \A d \in Devices, m \in Metrics :
          v[d][m].age = Aged(w[d][m].age) /\ v[d][m].dated = w[d][m].dated
    BY <2>1 DEF AgedPoints
  <2> QED
    BY <2>1, <2>2 DEF w, v
<1>7. /\ shown' \in Shown
      /\ \A d \in Devices : /\ shown'[d].observed = Aged(shown[d].observed)
                            /\ \A m \in Metrics : shown'[d].value[m] = Aged(shown[d].value[m])
  BY AgedOrder DEF Tick, TelInv, Shown, AgedAll
<1>8. \A d \in Devices : /\ shown[d].observed \in Ages
                         /\ \A m \in Metrics :
                              /\ fact[d][m] \in Ages
                              /\ shown[d].value[m] \in Ages
                              /\ \A g \in Gens : conn[g].wire[d][m].age \in Ages
  BY DEF TelInv, Facts, Snapshots, Points, Shown, Connections
<1>9. \A g \in Gens : conn[g].wire = Nothing => conn'[g].wire = Nothing
  <2>1. AgedPoints(Nothing) = Nothing
    <3>1. [age |-> Aged(Absent.age), dated |-> Absent.dated] = Absent
      BY Numbers, AgedOrder DEF Absent
    <3>2. \A d \in Devices, m \in Metrics :
            [age |-> Aged(Nothing[d][m].age), dated |-> Nothing[d][m].dated] = Absent
      BY <3>1, NothingTyped
    <3>3. \A d \in Devices :
            [m \in Metrics |-> [age |-> Aged(Nothing[d][m].age), dated |-> Nothing[d][m].dated]]
              = [m \in Metrics |-> Absent]
      BY <3>2
    <3> QED
      BY <3>3 DEF AgedPoints, Nothing
  <2>2. \A g \in Gens : conn'[g].wire = AgedPoints(conn[g].wire)
    BY <1>4
  <2> QED
    BY <2>1, <2>2
<1>10. OneSocket' /\ \A g \in Gens : conn'[g].wire # Nothing => g = gen' /\ conn'[g].pc = "open"
  BY <1>1, <1>6, <1>9 DEF TelInv, OneSocket
<1>11. \A g \in Gens, d \in Devices, m \in Metrics :
         /\ conn'[g].wire[d][m].age # Never => fact'[d][m] <= conn'[g].wire[d][m].age
         /\ conn'[g].wire[d][m].dated => conn'[g].wire[d][m].age # Never
  BY <1>2, <1>6, <1>8, AgedOrder DEF TelInv
<1>12. \A d \in Devices, m \in Metrics : Backs(d, m) => Backs(d, m)'
  <2> SUFFICES ASSUME NEW d \in Devices, NEW m \in Metrics, Backs(d, m) PROVE Backs(d, m)'
    OBVIOUS
  <2>1. shown'[d].value[m] <= shown'[d].observed
    BY <1>7, <1>8, AgedOrder DEF Backs
  <2>2. fact'[d][m] <= shown'[d].observed
    BY <1>2, <1>7, <1>8, AgedOrder DEF Backs
  <2>3. \A g \in Gens :
          conn'[g].wire[d][m].age # Never => conn'[g].wire[d][m].age <= shown'[d].observed
    BY <1>6, <1>7, <1>8, AgedOrder DEF Backs
  <2> QED
    BY <2>1, <2>2, <2>3 DEF Backs
<1>13. \A d \in Devices : shown'[d].observed # Never => shown[d].observed # Never
  BY <1>7, <1>8, AgedOrder
<1>14. \A d \in Devices : shown'[d].observed # Never => \E m \in Metrics : Backs(d, m)'
  BY <1>12, <1>13 DEF TelInv
<1>15. gen' \in Gens
  BY <1>1 DEF TelInv
<1> QED
  BY <1>2, <1>5, <1>7, <1>10, <1>11, <1>14, <1>15 DEF TelInv

LEMMA TelInductive == TelInv /\ [TelNext]_telVars => TelInv'
BY BridgeKeeps, RefreshKeeps, PushKeeps, DeliverKeeps, QuietKeeps, TickKeeps DEF TelNext, Bridge

LEMMA TelInvSafe == TelInv => ObservedIsShown /\ OneSocket
BY DEF TelInv, ObservedIsShown, Backs

\* The time beside a container's measurements is backed by one of them, and one
\* connection at a time is read, for any number of devices, metrics, refreshes and
\* failures (BessTelemetryBridge.jsx, stationTelemetryClient.js).
THEOREM TelemetryDated == TelSpec => [](ObservedIsShown /\ OneSocket)
BY TelInitial, TelInductive, TelInvSafe, PTL DEF TelSpec

-----------------------------------------------------------------------------
(***************************************************************************)
(* The labels over the scene.  What holds after every turn of the loop is  *)
(* proved by induction over the turns, for the containers as one frame     *)
(* sees them; a frame is then a single step.                               *)
(***************************************************************************)
Labels == [id : Labelled, x : Int]
Layings == [left : SUBSET Labelled, placed : Seq(Labels)]
Ids(placed) == {placed[k].id : k \in DOMAIN placed}

\* What holds after every turn of the loop: of the labels tried and the labels placed.
LaidOut(s) ==
  /\ s \in Layings
  /\ Len(s.placed) <= MaxVisible
  /\ IsFiniteSet(Ids(s.placed)) /\ Cardinality(Ids(s.placed)) = Len(s.placed)
  /\ Ids(s.placed) \cap s.left = {}
  /\ \A a, b \in DOMAIN s.placed : a # b => ~Overlap(s.placed[a], s.placed[b])
  /\ \A k \in DOMAIN s.placed : \A j \in s.left :
       labelPriority(s.placed[k].id) >= labelPriority(j)
  /\ \A i \in Labelled : candidates[i].level = "selected" =>
       i \in Ids(s.placed) \/ (i \in s.left /\ s.placed = <<>>)
  /\ \A i \in (Labelled \ s.left) \ Ids(s.placed) :
       \/ Len(s.placed) = MaxVisible
       \/ \E k \in DOMAIN s.placed : /\ labelPriority(s.placed[k].id) >= labelPriority(i)
                                     /\ Overlap(Placed(i, 0), s.placed[k])

\* A label's priority follows its level, and its first offset leaves it in its place.
LEMMA PriorityEffect ==
  ASSUME candidates \in Candidates, NEW i \in Labelled
  PROVE  /\ labelPriority(i) \in {500, 450, 400, 300, 200}
         /\ labelPriority(i) = 500 => candidates[i].level = "selected"
         /\ candidates[i].level = "selected" => labelPriority(i) = 500
         /\ candidates[i].x \in Int /\ candidates[i].distance \in Nat
         /\ Width(i) \in {132, 148, 176}
         /\ 1 \in DOMAIN Offsets(i) /\ Offsets(i)[1] = 0
         /\ DOMAIN Offsets(i) \subseteq Nat
         /\ \A k \in DOMAIN Offsets(i) : Offsets(i)[k] \in Int
<1>1. /\ candidates[i].level \in Levels /\ candidates[i].x \in Columns
      /\ candidates[i].distance \in Distances
  BY DEF Candidates
<1>2. candidates[i].x \in Int /\ candidates[i].distance \in Nat
  BY <1>1, LabelAssumption
<1>3. /\ labelPriority(i) \in {500, 450, 400, 300, 200}
      /\ labelPriority(i) = 500 => candidates[i].level = "selected"
      /\ candidates[i].level = "selected" => labelPriority(i) = 500
  BY <1>1 DEF labelPriority, Levels
<1>4. /\ 1 \in DOMAIN Offsets(i) /\ Offsets(i)[1] = 0
      /\ DOMAIN Offsets(i) \subseteq Nat
      /\ \A k \in DOMAIN Offsets(i) : Offsets(i)[k] \in Int
  BY <1>3 DEF Offsets
<1>5. Width(i) \in {132, 148, 176}
  BY DEF Width
<1> QED
  BY <1>2, <1>3, <1>4, <1>5

\* A label in its place or beside it is a label at a position.
LEMMA PlacedTyped ==
  ASSUME candidates \in Candidates, NEW i \in Labelled, NEW dx \in Int
  PROVE  Placed(i, dx) \in Labels /\ Placed(i, dx).id = i
<1>1. candidates[i].x + dx \in Int
  BY PriorityEffect
<1> QED
  BY <1>1 DEF Placed, Labels

\* Labels the code finds apart stand the narrower's width apart, the others nearer than
\* the wider's.
LEMMA OverlapEffect ==
  ASSUME candidates \in Candidates, NEW l \in Labels, NEW m \in Labels
  PROVE  /\ ~Overlap(l, m) => Between(l, m) >= Narrower(l, m)
         /\ Overlap(l, m) => Between(l, m) < Wider(l, m)
         /\ Overlap(l, m) => Overlap(m, l)
<1>1. l.x \in Int /\ m.x \in Int /\ l.id \in Labelled /\ m.id \in Labelled
  BY DEF Labels
<1> DEFINE v == Width(l.id)
           w == Width(m.id)
<1>2. v \in {132, 148, 176} /\ w \in {132, 148, 176}
  BY <1>1, PriorityEffect
<1>3. Overlap(l, m) <=> l.x < m.x + w /\ m.x < l.x + v
  BY DEF Overlap
<1>4. Overlap(m, l) <=> m.x < l.x + v /\ l.x < m.x + w
  BY DEF Overlap
<1>5. /\ Narrower(l, m) = IF v <= w THEN v ELSE w
      /\ Wider(l, m) = IF v <= w THEN w ELSE v
  BY DEF Narrower, Wider
<1>6. Between(l, m) = IF l.x <= m.x THEN m.x - l.x ELSE l.x - m.x
  BY DEF Between
<1> HIDE DEF v, w
<1> QED
  BY <1>1, <1>2, <1>3, <1>4, <1>5, <1>6

\* Some label that is left goes before all the others.
LEMMA FirstEffect ==
  ASSUME candidates \in Candidates, NEW left \in SUBSET Labelled, left # {}
  PROVE  First(left) \in left /\ \A j \in left \ {First(left)} : Before(First(left), j)
<1> DEFINE Rank(i) == 500 - labelPriority(i)
           R == {Rank(i) : i \in left}
<1>1. \A i \in left : /\ i \in Nat /\ candidates[i].distance \in Nat
                      /\ labelPriority(i) \in {500, 450, 400, 300, 200}
  BY PriorityEffect, LabelAssumption
<1>2. PICK x \in R : \A y \in R : x <= y
  <2>1. R \subseteq Nat /\ R # {}
    BY <1>1
  <2> HIDE DEF R
  <2>2. QED
    BY <2>1, LeastNatural
<1> DEFINE T == {i \in left : Rank(i) = x}
           D == {candidates[i].distance : i \in T}
<1>3. PICK e \in D : \A y \in D : e <= y
  <2>1. D \subseteq Nat /\ D # {}
    BY <1>1
  <2> HIDE DEF D
  <2>2. QED
    BY <2>1, LeastNatural
<1> DEFINE U == {i \in T : candidates[i].distance = e}
<1>4. PICK i \in U : \A j \in U : i <= j
  <2>1. U \subseteq Nat /\ U # {}
    BY <1>1
  <2> HIDE DEF U
  <2>2. QED
    BY <2>1, LeastNatural
<1>5. i \in left /\ Rank(i) = x /\ candidates[i].distance = e
  OBVIOUS
<1>6. ASSUME NEW j \in left \ {i}
      PROVE  Before(i, j)
  <2>1. Rank(i) <= Rank(j)
    BY <1>2, <1>5
  <2>2. Rank(i) = Rank(j) => candidates[i].distance <= candidates[j].distance
    BY <1>3, <1>5
  <2>3. Rank(i) = Rank(j) /\ candidates[i].distance = candidates[j].distance => i <= j
    BY <1>4, <1>5
  <2>4. QED
    BY <1>1, <1>5, <2>1, <2>2, <2>3 DEF Before
<1> HIDE DEF U, D, T, R, Rank
<1>7. \E k \in left : \A j \in left \ {k} : Before(k, j)
  BY <1>5, <1>6
<1> QED
  BY <1>7 DEF First

\* A label that is tried is left out, or appended where none placed before it is.
LEMMA TriedEffect ==
  ASSUME candidates \in Candidates, NEW i \in Labelled, NEW placed \in Seq(Labels)
  PROVE  \/ /\ Tried(placed, i) = placed
            /\ Len(placed) >= MaxVisible \/ ~Fits(placed, Placed(i, 0))
         \/ /\ Len(placed) < MaxVisible
            /\ \E l \in Labels : /\ l.id = i /\ Fits(placed, l)
                                 /\ Tried(placed, i) = Append(placed, l)
<1> DEFINE fitting == {k \in DOMAIN Offsets(i) : Fits(placed, Placed(i, Offsets(i)[k]))}
           l == Placed(i, Offsets(i)[Min(fitting)])
<1>1. Tried(placed, i) = IF Len(placed) >= MaxVisible \/ fitting = {} THEN placed
                         ELSE Append(placed, l)
  BY DEF Tried
<1>2. /\ 1 \in DOMAIN Offsets(i) /\ Offsets(i)[1] = 0
      /\ DOMAIN Offsets(i) \subseteq Nat
      /\ \A k \in DOMAIN Offsets(i) : Offsets(i)[k] \in Int
  BY PriorityEffect
<1>3. fitting = {} => ~Fits(placed, Placed(i, 0))
  BY <1>2
<1>4. Len(placed) \in Nat /\ MaxVisible \in Nat
  BY LenProperties, LabelAssumption
<1>5. fitting # {} => Min(fitting) \in fitting
  <2>1. SUFFICES ASSUME fitting # {} PROVE Min(fitting) \in fitting
    OBVIOUS
  <2>2. fitting \subseteq Nat
    BY <1>2
  <2> HIDE DEF fitting
  <2>3. \E k \in fitting : \A m \in fitting : k <= m
    BY <2>1, <2>2, LeastNatural
  <2>4. QED
    BY <2>3 DEF Min
<1>6. fitting # {} => l \in Labels /\ l.id = i /\ Fits(placed, l)
  <2>1. \A k \in fitting : Offsets(i)[k] \in Int /\ Fits(placed, Placed(i, Offsets(i)[k]))
    BY <1>2
  <2> HIDE DEF fitting
  <2>2. QED
    BY <1>5, <2>1, PlacedTyped
<1> HIDE DEF fitting, l
<1>7. CASE Len(placed) >= MaxVisible \/ fitting = {}
  BY <1>1, <1>3, <1>7
<1>8. CASE Len(placed) < MaxVisible /\ fitting # {}
  BY <1>1, <1>4, <1>6, <1>8
<1> QED
  BY <1>4, <1>7, <1>8

\* A label appended where it fits keeps the labels apart.
LEMMA PlacedKeeps ==
  ASSUME candidates \in Candidates, NEW s, LaidOut(s), NEW i \in s.left,
         NEW l \in Labels, l.id = i,
         \A j \in s.left \ {i} : labelPriority(i) >= labelPriority(j),
         Len(s.placed) < MaxVisible, Fits(s.placed, l)
  PROVE  LaidOut([left |-> s.left \ {i}, placed |-> Append(s.placed, l)])
<1> DEFINE q == Append(s.placed, l)
           t == [left |-> s.left \ {i}, placed |-> q]
           n == Len(s.placed)
<1>1. s.placed \in Seq(Labels) /\ s.left \in SUBSET Labelled /\ i \in Labelled
  BY DEF LaidOut, Layings
<1>2. /\ n \in Nat /\ DOMAIN s.placed = 1..n
      /\ \A k \in 1..n : s.placed[k] \in Labels
  BY <1>1, LenProperties
<1>3. /\ q \in Seq(Labels) /\ Len(q) = n + 1 /\ q[n + 1] = l
      /\ \A k \in 1..n : q[k] = s.placed[k]
  BY <1>1, AppendProperties
<1>4. DOMAIN q = 1..(n + 1)
  BY <1>3, LenProperties
<1> HIDE DEF q
<1>5. MaxVisible \in Nat
  BY LabelAssumption
<1> HIDE DEF n
<1>6. Ids(q) = Ids(s.placed) \cup {i}
  <2>1. DOMAIN q = DOMAIN s.placed \cup {n + 1} /\ n + 1 \notin DOMAIN s.placed
    BY <1>2, <1>4
  <2>2. \A k \in DOMAIN s.placed : q[k] = s.placed[k]
    BY <1>2, <1>3
  <2>3. QED
    BY <1>1, <1>3, <2>1, <2>2 DEF Ids
<1>7. i \notin Ids(s.placed)
  BY DEF LaidOut
<1>8. IsFiniteSet(Ids(q)) /\ Cardinality(Ids(q)) = n + 1
  <2> DEFINE before == Ids(s.placed)
  <2>1. IsFiniteSet(before) /\ Cardinality(before) = n /\ Ids(q) = before \cup {i}
    BY <1>6 DEF LaidOut, n
  <2>2. i \notin before
    BY <1>7
  <2> HIDE DEF before
  <2> QED
    BY <2>1, <2>2, FS_AddElement
<1>9. t.left = s.left \ {i} /\ t.placed = q /\ t \in Layings
  BY <1>1, <1>3 DEF Layings
<1> HIDE DEF t
<1>10. Len(q) <= MaxVisible
  BY <1>2, <1>3, <1>5 DEF n
<1>11. Ids(q) \cap t.left = {}
  BY <1>6, <1>9 DEF LaidOut
<1>12. \A a, b \in DOMAIN q : a # b => ~Overlap(q[a], q[b])
  <2>2. \A k \in 1..n : ~Overlap(l, s.placed[k]) /\ ~Overlap(s.placed[k], l)
    BY <1>2, OverlapEffect DEF Fits
  <2>3. \A a, b \in 1..n : a # b => ~Overlap(s.placed[a], s.placed[b])
    BY <1>2 DEF LaidOut
  <2>4. \A a \in DOMAIN q : a \in 1..n \/ a = n + 1
    BY <1>2, <1>4
  <2>5. QED
    BY <1>1, <1>3, <2>2, <2>3, <2>4
<1>13. \A k \in DOMAIN q : \A j \in t.left : labelPriority(q[k].id) >= labelPriority(j)
  <2>1. \A k \in 1..n : \A j \in s.left : labelPriority(s.placed[k].id) >= labelPriority(j)
    BY <1>2 DEF LaidOut
  <2>2. \A a \in DOMAIN q : a \in 1..n \/ a = n + 1
    BY <1>2, <1>4
  <2>3. QED
    BY <1>1, <1>3, <1>9, <2>1, <2>2
<1>14. ASSUME NEW j \in Labelled, candidates[j].level = "selected"
       PROVE  j \in Ids(q)
  <2>1. CASE j \in Ids(s.placed)
    BY <1>6, <2>1
  <2>2. CASE j \in s.left
    <3>1. j = i \/ labelPriority(i) >= labelPriority(j)
      BY <2>2
    <3>2. labelPriority(j) = 500 /\ labelPriority(i) \in {500, 450, 400, 300, 200}
      BY <1>1, <1>14, PriorityEffect
    <3>3. j = i \/ candidates[i].level = "selected"
      BY <1>1, <3>1, <3>2, PriorityEffect
    <3>4. j = i
      BY <1>1, <1>14, <3>3 DEF Candidates
    <3>5. QED
      BY <1>6, <3>4
  <2>3. QED
    BY <1>14, <2>1, <2>2 DEF LaidOut
<1>15. ASSUME NEW j \in (Labelled \ t.left) \ Ids(q)
       PROVE  \E k \in DOMAIN q : /\ labelPriority(q[k].id) >= labelPriority(j)
                                  /\ Overlap(Placed(j, 0), q[k])
  <2>1. j \in (Labelled \ s.left) \ Ids(s.placed)
    BY <1>6, <1>9
  <2>2. n # MaxVisible
    BY <1>2, <1>5 DEF n
  <2>3. PICK k \in 1..n : /\ labelPriority(s.placed[k].id) >= labelPriority(j)
                          /\ Overlap(Placed(j, 0), s.placed[k])
    BY <1>2, <2>1, <2>2 DEF LaidOut, n
  <2>4. k \in DOMAIN q /\ q[k] = s.placed[k]
    BY <1>2, <1>3, <1>4
  <2>5. QED
    BY <2>3, <2>4
<1>16. LaidOut(t)
  BY <1>3, <1>8, <1>9, <1>10, <1>11, <1>12, <1>13, <1>14, <1>15 DEF LaidOut
<1> QED
  BY <1>16 DEF t, q

\* A label left out is covered by one placed before it, or as many as allowed are shown.
LEMMA HiddenKeeps ==
  ASSUME candidates \in Candidates, NEW s, LaidOut(s), NEW i \in s.left,
         \A j \in s.left \ {i} : labelPriority(i) >= labelPriority(j),
         Len(s.placed) >= MaxVisible \/ ~Fits(s.placed, Placed(i, 0))
  PROVE  LaidOut([left |-> s.left \ {i}, placed |-> s.placed])
<1> DEFINE t == [left |-> s.left \ {i}, placed |-> s.placed]
<1>1. /\ t.left = s.left \ {i} /\ t.placed = s.placed /\ t \in Layings
      /\ i \in Labelled /\ s.left \in SUBSET Labelled /\ s.placed \in Seq(Labels)
  BY DEF LaidOut, Layings
<1> HIDE DEF t
<1>2. Len(s.placed) \in Nat /\ MaxVisible \in Nat \ {0} /\ DOMAIN s.placed = 1..Len(s.placed)
  BY <1>1, LenProperties, LabelAssumption
<1>3. \/ Len(s.placed) = MaxVisible
      \/ \E k \in DOMAIN s.placed : /\ labelPriority(s.placed[k].id) >= labelPriority(i)
                                    /\ Overlap(Placed(i, 0), s.placed[k])
  <2>1. CASE Len(s.placed) >= MaxVisible
    BY <1>2, <2>1 DEF LaidOut
  <2>2. CASE ~Fits(s.placed, Placed(i, 0))
    BY <2>2 DEF Fits, LaidOut
  <2>3. QED
    BY <2>1, <2>2
<1>4. s.placed # <<>>
  <2>1. SUFFICES ASSUME s.placed = <<>> PROVE FALSE
    OBVIOUS
  <2>2. Len(s.placed) = 0
    BY <2>1, EmptySeq
  <2>3. QED
    BY <1>2, <1>3, <2>2
<1>5. \A j \in Labelled : candidates[j].level = "selected" => j \in Ids(t.placed)
  BY <1>1, <1>4 DEF LaidOut
<1>6. \A j \in (Labelled \ t.left) \ Ids(t.placed) :
        \/ Len(t.placed) = MaxVisible
        \/ \E k \in DOMAIN t.placed : /\ labelPriority(t.placed[k].id) >= labelPriority(j)
                                      /\ Overlap(Placed(j, 0), t.placed[k])
  BY <1>1, <1>3 DEF LaidOut
<1>7. LaidOut(t)
  BY <1>1, <1>5, <1>6 DEF LaidOut
<1> QED
  BY <1>7 DEF t

\* A turn of the loop tries one label, and leaves the labels apart.
LEMMA TryNextKeeps ==
  ASSUME candidates \in Candidates, NEW s, LaidOut(s), s.left # {}
  PROVE  /\ LaidOut(TryNext(s))
         /\ \E i \in s.left : TryNext(s).left = s.left \ {i}
<1> DEFINE i == First(s.left)
<1>1. s.left \in SUBSET Labelled /\ s.placed \in Seq(Labels)
  BY DEF LaidOut, Layings
<1>2. i \in s.left /\ \A j \in s.left \ {i} : Before(i, j)
  BY <1>1, FirstEffect
<1>3. TryNext(s) = [left |-> s.left \ {i}, placed |-> Tried(s.placed, i)]
  BY DEF TryNext
<1> HIDE DEF i
<1>4. i \in Labelled /\ \A j \in s.left : labelPriority(i) \in Int /\ labelPriority(j) \in Int
  <2>1. \A j \in Labelled : labelPriority(j) \in {500, 450, 400, 300, 200}
    BY PriorityEffect
  <2>2. QED
    BY <1>1, <1>2, <2>1
<1>5. \A j \in s.left \ {i} : labelPriority(i) >= labelPriority(j)
  BY <1>2, <1>4 DEF Before
<1>6. LaidOut(TryNext(s))
  <2>1. CASE /\ Tried(s.placed, i) = s.placed
             /\ Len(s.placed) >= MaxVisible \/ ~Fits(s.placed, Placed(i, 0))
    BY <1>2, <1>3, <1>5, <2>1, HiddenKeeps
  <2>2. ASSUME Len(s.placed) < MaxVisible,
               NEW l \in Labels, l.id = i, Fits(s.placed, l),
               Tried(s.placed, i) = Append(s.placed, l)
        PROVE  LaidOut(TryNext(s))
    BY <1>2, <1>3, <1>5, <2>2, PlacedKeeps
  <2>3. QED
    BY <1>1, <1>4, <2>1, <2>2, TriedEffect
<1> QED
  BY <1>2, <1>3, <1>6

\* The loop is what its recursion says.
LEMMA LaidIterates ==
  ASSUME candidates \in Candidates
  PROVE  /\ laid[0] = [left |-> Labelled, placed |-> <<>>]
         /\ \A n \in Nat : laid[n + 1] = TryNext(laid[n])
<1> DEFINE s0 == [left |-> Labelled, placed |-> <<>>]
           G == [s \in Layings |-> TryNext(s)]
<1>1. s0 \in Layings
  BY EmptySeq DEF Layings
<1>2. G \in [Layings -> Layings]
  <2>1. ASSUME NEW s \in Layings
        PROVE  TryNext(s) \in Layings
    <3>1. s.left \in SUBSET Labelled /\ s.placed \in Seq(Labels)
      BY DEF Layings
    <3>2. CASE s.left = {}
      BY <3>2 DEF TryNext
    <3>3. CASE s.left # {}
      <4>1. First(s.left) \in Labelled
        BY <3>1, <3>3, FirstEffect
      <4>2. Tried(s.placed, First(s.left)) \in Seq(Labels)
        <5>1. \A l \in Labels : Append(s.placed, l) \in Seq(Labels)
          BY <3>1, AppendProperties
        <5>2. QED
          BY <3>1, <4>1, <5>1, TriedEffect
      <4>3. QED
        BY <3>1, <3>3, <4>2 DEF TryNext, Layings
    <3>4. QED
      BY <3>2, <3>3
  <2>2. QED
    BY <2>1
<1>3. \E g : g = [n \in Nat |-> IF n = 0 THEN s0 ELSE TryNext(g[n - 1])]
  <2> HIDE DEF s0, G
  <2>1. PICK g : Iteration(Layings, G, s0, g)
    BY <1>1, <1>2, IterationExists
  <2>2. ASSUME NEW n \in Nat, n # 0
        PROVE  g[n] = TryNext(g[n - 1])
    <3>1. n - 1 \in Nat /\ n = (n - 1) + 1
      BY <2>2
    <3>2. g[n] = G[g[n - 1]]
      BY <2>1, <3>1 DEF Iteration
    <3>3. QED
      BY <2>1, <3>1, <3>2 DEF G, Iteration
  <2>3. g = [n \in Nat |-> IF n = 0 THEN s0 ELSE TryNext(g[n - 1])]
    BY <2>1, <2>2 DEF Iteration
  <2>4. QED
    BY <2>3
<1>4. laid = [n \in Nat |-> IF n = 0 THEN s0 ELSE TryNext(laid[n - 1])]
  BY <1>3, Zenon DEF laid
<1> HIDE DEF s0
<1>5. laid[0] = s0
  BY <1>4
<1>6. \A n \in Nat : laid[n + 1] = TryNext(laid[n])
  <2>1. \A n \in Nat : n + 1 \in Nat /\ n + 1 # 0 /\ (n + 1) - 1 = n
    OBVIOUS
  <2>2. QED
    BY <1>4, <2>1
<1> QED
  BY <1>5, <1>6 DEF s0

\* Once every label was tried, none is left.
LEMMA LaidEnds ==
  ASSUME candidates \in Candidates
  PROVE  /\ LaidOut(laid[Cardinality(Labelled)])
         /\ laid[Cardinality(Labelled)].left = {}
<1> DEFINE N == Cardinality(Labelled)
           S == {n \in Nat : n <= N => /\ LaidOut(laid[n])
                                       /\ IsFiniteSet(laid[n].left)
                                       /\ Cardinality(laid[n].left) = N - n}
<1>1. N \in Nat /\ IsFiniteSet(Labelled)
  BY LabelAssumption, FS_CardinalityType
<1>2. 0 \in S
  <2>1. /\ laid[0] = [left |-> Labelled, placed |-> <<>>]
        /\ laid[0].left = Labelled /\ laid[0].placed = <<>>
    BY LaidIterates
  <2>2. laid[0] \in Layings
    <3>1. <<>> \in Seq(Labels)
      BY EmptySeq
    <3>2. QED
      BY <2>1, <3>1 DEF Layings
  <2>3. /\ Len(laid[0].placed) = 0 /\ DOMAIN laid[0].placed = {} /\ Ids(laid[0].placed) = {}
    BY <2>1, EmptySeq DEF Ids
  <2>4. IsFiniteSet({}) /\ Cardinality({}) = 0
    BY FS_EmptySet
  <2>5. LaidOut(laid[0])
    <3>1. 0 <= MaxVisible
      BY LabelAssumption
    <3> HIDE DEF S, N
    <3>2. QED
      BY <2>1, <2>2, <2>3, <2>4, <3>1 DEF LaidOut
  <2>6. QED
    BY <1>1, <2>1, <2>5
<1>3. ASSUME NEW n \in Nat, n \in S
      PROVE  n + 1 \in S
  <2>1. SUFFICES ASSUME n + 1 <= N
        PROVE  /\ LaidOut(laid[n + 1])
               /\ IsFiniteSet(laid[n + 1].left)
               /\ Cardinality(laid[n + 1].left) = N - (n + 1)
    OBVIOUS
  <2>2. /\ LaidOut(laid[n]) /\ IsFiniteSet(laid[n].left)
        /\ Cardinality(laid[n].left) = N - n
    BY <1>1, <1>3, <2>1
  <2> HIDE DEF N
  <2>3. laid[n].left # {}
    BY <1>1, <2>1, <2>2, FS_EmptySet
  <2>4. laid[n + 1] = TryNext(laid[n])
    BY LaidIterates
  <2>5. LaidOut(laid[n + 1])
    BY <2>2, <2>3, <2>4, TryNextKeeps
  <2>6. PICK i \in laid[n].left : laid[n + 1].left = laid[n].left \ {i}
    BY <2>2, <2>3, <2>4, TryNextKeeps
  <2>7. /\ IsFiniteSet(laid[n].left \ {i})
        /\ Cardinality(laid[n].left \ {i}) = Cardinality(laid[n].left) - 1
    BY <2>2, <2>6, FS_RemoveElement
  <2>8. QED
    BY <1>1, <2>2, <2>5, <2>6, <2>7
<1> HIDE DEF S
<1>4. Nat \subseteq S
  BY <1>2, <1>3, NatSetInduction
<1>5. LaidOut(laid[N]) /\ IsFiniteSet(laid[N].left) /\ Cardinality(laid[N].left) = 0
  BY <1>1, <1>4 DEF S
<1> QED
  BY <1>5, FS_EmptySet

\* The loop ends with no label left, so that every frame lays the labels out as promised.
LabelInv == candidates \in Candidates /\ LabelsApart

LEMMA LabelInitial == LabelInit => LabelInv
BY DEF LabelInit, LabelInv, LabelsApart

\* A frame that lays the labels out anew leaves them apart.
LEMMA FrameKeeps ==
  ASSUME candidates \in Candidates, NEW expanded \in BOOLEAN,
         layout' = resolveSocLabelLayout(expanded), UNCHANGED candidates
  PROVE  LabelsApart'
<1> DEFINE s == laid[Cardinality(Labelled)]
<1>1. LaidOut(s) /\ s.left = {}
  BY LaidEnds
<1> HIDE DEF s
<1>2. CASE Clustered(expanded)
  BY <1>2 DEF resolveSocLabelLayout, LabelsApart
<1>3. CASE ~Clustered(expanded)
  <2>1. layout'.labels = s.placed
    BY <1>3 DEF resolveSocLabelLayout, s
  <2> DEFINE drawn == {s.placed[k] : k \in DOMAIN s.placed}
             ids == {l.id : l \in drawn}
  <2>2. ids = Ids(s.placed)
    BY DEF Ids
  <2>3. s.placed \in Seq(Labels) /\ drawn \subseteq Labels
    BY <1>1 DEF LaidOut, Layings
  <2>4. \A l, m \in drawn : l.id # m.id => Between(l, m) >= Narrower(l, m)
    <3>1. SUFFICES ASSUME NEW a \in DOMAIN s.placed, NEW b \in DOMAIN s.placed,
                          s.placed[a].id # s.placed[b].id
                   PROVE  Between(s.placed[a], s.placed[b])
                            >= Narrower(s.placed[a], s.placed[b])
      BY Zenon
    <3>2. ~Overlap(s.placed[a], s.placed[b])
      BY <1>1, <3>1 DEF LaidOut
    <3>3. s.placed[a] \in Labels /\ s.placed[b] \in Labels
      BY <2>3
    <3>4. QED
      BY <3>2, <3>3, OverlapEffect
  <2>5. \A i \in Labelled : candidates[i].level = "selected" => i \in ids
    BY <1>1, <2>2 DEF LaidOut
  <2>6. ASSUME NEW i \in Labelled \ ids
        PROVE  \/ Cardinality(ids) = MaxVisible
               \/ \E l \in drawn : /\ labelPriority(l.id) >= labelPriority(i)
                                   /\ Between(Placed(i, 0), l) < Wider(Placed(i, 0), l)
    <3>1. \/ Cardinality(ids) = MaxVisible
          \/ \E l \in drawn : /\ labelPriority(l.id) >= labelPriority(i)
                              /\ Overlap(Placed(i, 0), l)
      BY <1>1, <2>2 DEF LaidOut
    <3>2. Placed(i, 0) \in Labels
      BY PlacedTyped
    <3> HIDE DEF drawn, ids
    <3>3. QED
      BY <2>3, <3>1, <3>2, OverlapEffect
  <2>7. /\ \A l, m \in drawn : l.id # m.id => Between(l, m) >= Narrower(l, m)'
        /\ \A i \in Labelled : candidates'[i].level = "selected" => i \in ids
        /\ \A i \in Labelled \ ids :
             \/ Cardinality(ids) = MaxVisible
             \/ \E l \in drawn : /\ labelPriority(l.id)' >= labelPriority(i)'
                                 /\ Between(Placed(i, 0)', l) < Wider(Placed(i, 0), l)'
    BY <2>4, <2>5, <2>6 DEF labelPriority, Narrower, Wider, Width, Placed
  <2>8. QED
    BY <2>1, <2>7 DEF LabelsApart, labelPriority, Between, Narrower, Wider, Width, Placed
<1> QED
  BY <1>2, <1>3

LEMMA LabelInductive == LabelInv /\ [LabelNext]_labelVars => LabelInv'
<1> SUFFICES ASSUME LabelInv, [LabelNext]_labelVars PROVE LabelInv'
  OBVIOUS
<1>1. CASE LabelNext
  <2>1. candidates \in Candidates /\ UNCHANGED candidates
    BY <1>1 DEF LabelNext, Frame, LabelInv
  <2>2. LabelsApart'
    BY <1>1, <2>1, FrameKeeps DEF LabelNext, Frame
  <2>3. QED
    BY <2>1, <2>2 DEF LabelInv, Candidates
<1>2. CASE UNCHANGED labelVars
  BY <1>2 DEF labelVars, LabelInv, LabelsApart, labelPriority, Candidates, Between, Narrower,
     Wider, Width, Placed
<1> QED
  BY <1>1, <1>2

\* For any number of labels and any limit, two labels shown stand the narrower's width
\* apart, the selected one is shown, and a label is hidden only for the limit or by one at
\* least as important (resolveSocLabelLayout of digitalTwinAdapters.js).
THEOREM LabelsLaidOut == LabelSpec => []LabelsApart
<1>1. LabelInv => LabelsApart
  BY DEF LabelInv
<1> QED
  BY LabelInitial, LabelInductive, <1>1, PTL DEF LabelSpec
-----------------------------------------------------------------------------
(***************************************************************************)
(* The loading of the scene.  That it ends needs fairness; what is proved  *)
(* here is the rest of the argument: something is always due until then,   *)
(* and whatever happens but a remount leaves less to do.                   *)
(***************************************************************************)
Loadings == [running : BOOLEAN, ready : BOOLEAN, visible : BOOLEAN, count : 0..Total]

\* The store says of the scene what is true, a scene that is ready counts as complete,
\* and the timers run that its state asks for, while the page is mounted.
LoadInv ==
  /\ page \in BOOLEAN /\ scene \in BOOLEAN /\ finishing \in BOOLEAN /\ hiding \in BOOLEAN
  /\ toLoad \in Models /\ observed \in 0..toLoad
  /\ loading \in Loadings
  /\ scene => page
  /\ loading.ready <=> scene
  /\ scene => loading.count = Total
  /\ page => /\ finishing <=> loading.running /\ loading.ready /\ loading.count >= Total
             /\ hiding <=> ~loading.running /\ loading.visible
  /\ ~page => ~finishing /\ ~hiding

One(b) == IF b THEN 1 ELSE 0

\* Steps that are left, if the scene is not mounted again.
StepsLeft ==
  3 * One(~page) + (toLoad - observed) + One(~scene)
    + One(loading.running) + One(loading.visible)

\* A count is never more than there is.
LEMMA CountEffect ==
  ASSUME NEW ready \in BOOLEAN, NEW n \in Nat
  PROVE  /\ ResourceCount(ready, n) \in 0..Total
         /\ ready => ResourceCount(ready, n) = Total
<1>1. Total \in Nat
  BY LoadingAssumption
<1>2. \A a, b \in Nat : Min({a, b}) = IF a <= b THEN a ELSE b
  <2>1. ASSUME NEW a \in Nat, NEW b \in Nat, NEW c \in {a, b}, c <= a, c <= b
        PROVE  Min({a, b}) = c
    BY <2>1 DEF Min
  <2>2. QED
    BY <2>1
<1>3. \A b \in Nat : Max({0, b}) = b
  BY DEF Max
<1>4. QED
  BY <1>1, <1>2, <1>3 DEF ResourceCount

LEMMA LoadInitial == LoadInit => LoadInv
<1> SUFFICES ASSUME LoadInit PROVE LoadInv
  OBVIOUS
<1>1. toLoad \in Nat /\ Total \in Nat
  BY LoadingAssumption DEF LoadInit
<1>2. observed \in 0..toLoad
  BY <1>1 DEF LoadInit
<1>3. loading \in Loadings /\ ~loading.ready
  BY <1>1 DEF LoadInit, Loadings
<1>4. QED
  BY <1>2, <1>3 DEF LoadInit, LoadInv

LEMMA LoadInductive == LoadInv /\ [LoadNext]_loadVars => LoadInv'
<1> SUFFICES ASSUME LoadInv, [LoadNext]_loadVars PROVE LoadInv'
  OBVIOUS
<1>1. /\ Total \in Nat \ {0} /\ toLoad \in Nat /\ observed \in Nat /\ observed <= toLoad
      /\ loading \in Loadings
  BY LoadingAssumption DEF LoadInv
<1>2. CASE Start
  <2>1. ResourceCount(FALSE, observed) \in 0..Total
    BY <1>1, CountEffect
  <2>2. QED
    BY <1>1, <1>2, <2>1 DEF Start, LoadInv, Loadings, Armed
<1>3. CASE Progress
  <2>1. observed' \in 0..toLoad /\ observed' \in Nat
    BY <1>1, <1>3 DEF Progress
  <2>2. /\ ResourceCount(loading.ready, observed') \in 0..Total
        /\ loading.ready => ResourceCount(loading.ready, observed') = Total
    BY <1>1, <2>1, CountEffect DEF Loadings
  <2>3. QED
    BY <1>1, <1>3, <2>1, <2>2 DEF Progress, LoadInv, Loadings, Armed
<1>4. CASE MountScene
  <2>1. ResourceCount(TRUE, observed) = Total
    BY <1>1, CountEffect
  <2>2. /\ loading' \in Loadings
        /\ loading'.ready /\ loading'.count = Total
        /\ loading'.running = loading.running /\ loading'.visible = loading.visible
    <3>1. loading' = [loading EXCEPT !.ready = TRUE, !.count = Total]
      BY <1>4, <2>1 DEF MountScene
    <3>2. Total \in 0..Total
      BY <1>1
    <3>3. QED
      BY <1>1, <3>1, <3>2 DEF Loadings
  <2>3. /\ finishing' <=> loading'.running
        /\ hiding' <=> ~loading'.running /\ loading'.visible
        /\ finishing' \in BOOLEAN /\ hiding' \in BOOLEAN
    <3>1. /\ finishing' = (loading'.running /\ loading'.ready /\ loading'.count >= Total)
          /\ hiding' = (~loading'.running /\ loading'.visible)
      BY <1>4 DEF MountScene, Armed
    <3>2. Total >= Total
      BY <1>1
    <3>3. QED
      BY <2>2, <3>1, <3>2
  <2>4. page' /\ scene' /\ page' \in BOOLEAN /\ toLoad' = toLoad /\ observed' = observed
    BY <1>4 DEF MountScene, LoadInv
  <2>5. QED
    BY <1>1, <2>2, <2>3, <2>4 DEF LoadInv
<1>5. CASE UnmountScene
  <2>1. ResourceCount(FALSE, observed) \in 0..Total
    BY <1>1, CountEffect
  <2>2. QED
    BY <1>1, <1>5, <2>1 DEF UnmountScene, LoadInv, Loadings, Armed
<1>6. CASE Finish
  BY <1>1, <1>6 DEF Finish, LoadInv, Loadings, Armed
<1>7. CASE Hide
  BY <1>1, <1>7 DEF Hide, LoadInv, Loadings, Armed
<1>8. CASE UNCHANGED loadVars
  BY <1>8 DEF loadVars, LoadInv
<1>9. QED
  BY <1>2, <1>3, <1>4, <1>5, <1>6, <1>7, <1>8 DEF LoadNext, LoadStep

LEMMA LoadInvSafe == LoadInv => LoadingGoesOn
BY LoadingAssumption DEF LoadInv, Loadings, LoadingGoesOn, StepDue, OverlayShown

\* For any number of models, cached or not, and however often the scene or the page is
\* mounted again, the loading never comes to a stop before the scene stands without an
\* overlay (App.jsx, store.js).
THEOREM LoadingDue == LoadSpec => []LoadingGoesOn
<1>1. QED
  BY LoadInvSafe, LoadInitial, LoadInductive, PTL DEF LoadSpec

\* And each step of it, other than mounting anew, is one step less: the overlay is gone
\* after StepsLeft steps at most.
THEOREM LoadingShortens ==
  LoadSpec => [](StepsLeft \in Nat) /\ [][LoadStep => StepsLeft' < StepsLeft]_loadVars
<1>1. LoadInv => StepsLeft \in Nat
  BY LoadingAssumption DEF LoadInv, StepsLeft, One
<1>2. LoadInv /\ [LoadNext]_loadVars => [LoadStep => StepsLeft' < StepsLeft]_loadVars
  <2>1. SUFFICES ASSUME LoadInv, LoadStep PROVE StepsLeft' < StepsLeft
    OBVIOUS
  <2>2. toLoad \in Nat /\ observed \in Nat /\ observed <= toLoad /\ loading \in Loadings
    BY <2>1, LoadingAssumption DEF LoadInv
  <2>3. CASE Start
    BY <2>1, <2>2, <2>3 DEF Start, LoadInv, StepsLeft, One, Loadings
  <2>4. CASE Progress
    BY <2>1, <2>2, <2>4 DEF Progress, StepsLeft, One, Loadings
  <2>5. CASE MountScene
    BY <2>1, <2>2, <2>5 DEF MountScene, StepsLeft, One, Loadings
  <2>6. CASE Finish
    <3>1. loading.running /\ page
      BY <2>1, <2>6 DEF Finish, LoadInv
    <3>2. /\ ~loading'.running /\ loading'.visible = loading.visible
          /\ page' = page /\ scene' = scene /\ toLoad' = toLoad /\ observed' = observed
      BY <2>2, <2>6 DEF Finish, Loadings
    <3>3. QED
      BY <2>2, <3>1, <3>2 DEF StepsLeft, One, Loadings
  <2>7. CASE Hide
    <3>1. loading.visible /\ page
      BY <2>1, <2>7 DEF Hide, LoadInv
    <3>2. /\ ~loading'.visible /\ loading'.running = loading.running
          /\ page' = page /\ scene' = scene /\ toLoad' = toLoad /\ observed' = observed
      BY <2>2, <2>7 DEF Hide, Loadings
    <3>3. QED
      BY <2>2, <3>1, <3>2 DEF StepsLeft, One, Loadings
  <2>8. QED
    BY <2>1, <2>3, <2>4, <2>5, <2>6, <2>7 DEF LoadStep
<1>3. QED
  BY <1>1, <1>2, LoadInitial, LoadInductive, PTL DEF LoadSpec
-----------------------------------------------------------------------------
(***************************************************************************)
(* The page as a whole.                                                    *)
(***************************************************************************)
\* A step of the page is one of each part, or leaves the part alone.
LEMMA StationStep ==
  ASSUME [StationNext]_allVars
  PROVE  /\ [TelNext]_telVars /\ [TrendNext]_trendVars /\ [PageNext]_pageVars
         /\ [LoadNext]_loadVars /\ [FilterNext]_filterVars /\ [LabelNext]_labelVars
         /\ [AccNext]_accVars
<1>1. CASE StationNext
  BY <1>1 DEF StationNext, NotTelemetry, NotTrend, NotPage, NotLoading, NotFilter, NotLabels,
     NotAccess
<1>2. CASE UNCHANGED allVars
  BY <1>2 DEF allVars
<1> QED
  BY <1>1, <1>2

\* What holds of the parts holds of the page they make up.
THEOREM StationSafe ==
  StationSpec => /\ [](/\ ObservedIsShown /\ PointsOfTheChoice /\ AddressAgrees
                       /\ SelectionCoherent /\ RangeOnTrack /\ LabelsApart
                       /\ LoadingGoesOn)
                 /\ CameraLeftAlone /\ TokenNotReplaced
<1> DEFINE StationInv == TelInv /\ TrendInv /\ PageInv /\ FocusKnown /\ FilterInv
                        /\ LabelInv /\ LoadInv /\ TokenInv
<1>1. StationInit => StationInv
  BY TelInitial, TrendInitial, PageInitial, FilterInitial, LabelInitial,
     LoadInitial, AccessInitial
     DEF StationInit, FocusKnown, PageInit
<1>2. StationInv /\ [StationNext]_allVars => StationInv'
  BY StationStep, TelInductive, TrendInductive, PageInductive, FocusStep, FilterInductive,
     LabelInductive, LoadInductive, AccessInductive
<1>3. StationInv =>
        /\ ObservedIsShown /\ PointsOfTheChoice /\ AddressAgrees
        /\ SelectionCoherent /\ RangeOnTrack /\ LabelsApart /\ LoadingGoesOn
  BY TelInvSafe, PageInvCoherent, FilterInvSafe, LoadInvSafe DEF TrendInv, PageInv, LabelInv
<1>4. StationInv /\ [StationNext]_allVars =>
        [camera = "user" /\ camera' # "user" =>
           \/ store' # store
           \/ Focus(store) # NoFocus
           \/ aim' = PresetPlace]_pageVars
  BY StationStep, CameraStep
<1>5. StationInv /\ [StationNext]_allVars =>
        [token # None => token' \in {token, None}]_accVars
  BY StationStep, AccessStep
<1> HIDE DEF StationInv
<1> QED
  BY <1>1, <1>2, <1>3, <1>4, <1>5, PTL DEF StationSpec, CameraLeftAlone, TokenNotReplaced
=============================================================================
