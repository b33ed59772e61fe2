--------------------------- MODULE StationTelemetry ---------------------------
(***************************************************************************)
(* The measurements the digital twin shows: BessTelemetryBridge.jsx holds  *)
(* one WebSocket per refresh and reconnects it, stationTelemetryClient.js  *)
(* folds its snapshots into the containers and the overview and marks both *)
(* stale, station-data-bridge.tsx projects the device tree onto the same   *)
(* containers.                                                             *)
(*                                                                         *)
(* Times are ages in ticks of the staleness timer, counted up to Old: no   *)
(* code tells two older measurements apart.  A container keeps a value for *)
(* each metric and one time for all of them.                               *)
(***************************************************************************)
EXTENDS Integers, FiniteSets

CONSTANTS
  Devices,       \* the storage containers of the scene
  Metrics,       \* BESS_TELEMETRY_METRICS
  Figures,       \* those the overview is made of (power_kw, soc)
  Mapped,        \* those the device tree has as well (soc, temperature, power_kw)
  Stale,         \* BESS_STALE_AFTER_MS in ticks (3 in the code)
  RefreshBound,  \* bound: presses of the refresh button
  EventBound     \* bound: tokens refused, sockets closed by the other side, and
                 \* answers of the device tree

ASSUME TelemetryAssumption ==
  /\ Figures \subseteq Metrics /\ Mapped \subseteq Metrics
  /\ Stale \in Nat /\ RefreshBound \in Nat /\ EventBound \in Nat

Old == Stale + 1
Never == Old + 1     \* no measurement: older than any
Ages == 0..Never
Gens == 1..(RefreshBound + 1)

VARIABLES
  fact,      \* age of each metric's newest measurement at the source
  conn,      \* the connection of each run of the effect, with its snapshot in flight
  gen,       \* the run of the effect that is active
  shown,     \* the containers: measurements shown, observedAt and dataState
  overview,  \* runtimeOverview: status and updatedAt
  due,       \* whether the staleness timer is due
  events    \* tokens refused, sockets closed and answers of the device tree so far

telVars == <<fact, conn, gen, shown, overview, due, events>>

Unmeasured == [m \in Metrics |-> Never]

\* A point of a snapshot; one whose time is missing or invalid is not dated.
Absent == [age |-> Never, dated |-> FALSE]
Nothing == [d \in Devices |-> [m \in Metrics |-> Absent]]
Points == [age : Ages, dated : BOOLEAN]
States == {"unused", "token", "dialing", "open", "waiting", "closed"}

Aged(a) == IF a < Old THEN a + 1 ELSE a

-----------------------------------------------------------------------------
\* newestTimestamp, over the times of some points and the one there is.
Newest(ages) == CHOOSE a \in ages : \A b \in ages : a <= b
Times(device) == {device[m].age : m \in {n \in Metrics : device[n].dated}}

\* The container's values, those the snapshot leaves out as they were.
Values(old, device) ==
  [m \in Metrics |-> IF device[m].age # Never THEN device[m].age ELSE old[m]]

\* Mutant: a container keeps the label it has.
ApplySnapshotUnlabelled(cs, points) ==
  [d \in Devices |->
     [value |-> Values(cs[d].value, points[d]),
      observed |-> Newest({cs[d].observed} \cup Times(points[d])),
      label |-> IF points[d] # Nothing[d] THEN "live" ELSE cs[d].label]]

\* The containers after a snapshot: its values replace theirs, whatever their age and
\* dated or not, and the newest time of any is the time of all.
ApplySnapshot(cs, points) ==
  [d \in Devices |->
     LET observed == Newest({cs[d].observed} \cup Times(points[d])) IN
     [value |-> Values(cs[d].value, points[d]),
      observed |-> observed,
      label |-> IF observed <= Stale THEN "live" ELSE "stale"]]

\* The snapshot has power or charge of some device.
HasFigures(points) == \E d \in Devices, m \in Figures : points[d][m].age # Never

\* The overview after a snapshot; one without figures is left aside.
Summarize(points, previous) ==
  IF HasFigures(points)
  THEN [status |-> "live",
        updated |-> Newest({previous.updated} \cup UNION {Times(points[d]) : d \in Devices})]
  ELSE previous

MarkStale(o) == IF o.updated = Old THEN [o EXCEPT !.status = "stale"] ELSE o

\* DataOverviewPanel: what the panel says of the figures it shows.
PanelSays ==
  CASE overview.status = "live" -> "authoritative"
    [] overview.status = "stale" -> "outdated"
    [] OTHER -> "connecting"

-----------------------------------------------------------------------------
\* connect: the effect's first connection and each later one.
Connecting(c, g) == [c EXCEPT ![g] = [pc |-> "token", wire |-> Nothing]]

\* Mutant: the cleanup leaves the socket open.
CleanupSocketLeft(c, g) ==
  [c EXCEPT ![g] = IF c[g].pc = "waiting" THEN [pc |-> "closed", wire |-> Nothing] ELSE @]

\* The effect's cleanup: the timers are cleared and the socket closed.  A token
\* that is still awaited is refused when it comes.
Cleanup(c, g) ==
  [c EXCEPT ![g] = IF c[g].pc = "token" THEN @ ELSE [pc |-> "closed", wire |-> Nothing]]

\* refresh(): the nonce changes, the effect is cleaned up and runs again.
Refresh ==
  /\ gen <= RefreshBound
  /\ gen' = gen + 1
  /\ conn' = Connecting(Cleanup(conn, gen), gen + 1)
  /\ due' = FALSE
  /\ UNCHANGED <<fact, shown, overview, events>>

\* Mutant: the effect's activity is not looked at after the token was awaited.
TokenArrivesAnyway(g) ==
  /\ conn[g].pc = "token"
  /\ conn' = [conn EXCEPT ![g].pc = "dialing"]
  /\ UNCHANGED <<fact, gen, shown, overview, due, events>>

\* resolveStationToken answers: an effect that was cleaned up opens no socket.
TokenArrives(g) ==
  /\ conn[g].pc = "token"
  /\ conn' = [conn EXCEPT ![g].pc = IF g = gen THEN "dialing" ELSE "closed"]
  /\ UNCHANGED <<fact, gen, shown, overview, due, events>>

\* resolveStationToken rejects.
TokenFails(g) ==
  /\ conn[g].pc = "token" /\ events < EventBound
  /\ events' = events + 1
  /\ conn' = [conn EXCEPT ![g].pc = IF g = gen THEN "waiting" ELSE "closed"]
  /\ overview' = IF g = gen
                 THEN [overview EXCEPT !.status = IF overview.updated = Never
                                                  THEN "error" ELSE "stale"]
                 ELSE overview
  /\ UNCHANGED <<fact, gen, shown, due>>

\* The socket opens and subscribes to every container.
Opens(g) ==
  /\ conn[g].pc = "dialing"
  /\ conn' = [conn EXCEPT ![g].pc = "open"]
  /\ UNCHANGED <<fact, gen, shown, overview, due, events>>

\* Mutant: a socket that closes is not reopened.
BreaksForGood(g) ==
  /\ conn[g].pc \in {"dialing", "open"} /\ events < EventBound
  /\ events' = events + 1
  /\ conn' = [conn EXCEPT ![g] = [pc |-> "closed", wire |-> Nothing]]
  /\ UNCHANGED <<fact, gen, shown, overview, due>>

\* The socket closes, or never opens: the active effect reconnects later.
Breaks(g) ==
  /\ conn[g].pc \in {"dialing", "open"} /\ events < EventBound
  /\ events' = events + 1
  /\ conn' = [conn EXCEPT ![g] = [pc |-> IF g = gen THEN "waiting" ELSE "closed",
                                  wire |-> Nothing]]
  /\ UNCHANGED <<fact, gen, shown, overview, due>>

\* The reconnect timer.
Reconnect(g) ==
  /\ conn[g].pc = "waiting"
  /\ conn' = Connecting(conn, g)
  /\ UNCHANGED <<fact, gen, shown, overview, due, events>>

\* A snapshot arrives.
Deliver(g) ==
  /\ conn[g].pc = "open" /\ conn[g].wire # Nothing
  /\ shown' = ApplySnapshot(shown, conn[g].wire)
  /\ overview' = Summarize(conn[g].wire, overview)
  /\ conn' = [conn EXCEPT ![g].wire = Nothing]
  /\ UNCHANGED <<fact, gen, due, events>>

\* One arrives without a point of these containers: of others, or of no use.
DeliverOthers(g) ==
  /\ conn[g].pc = "open"
  /\ shown' = ApplySnapshot(shown, Nothing)
  /\ overview' = Summarize(Nothing, overview)
  /\ UNCHANGED <<fact, conn, gen, due, events>>

\* Mutant: the timer looks at the overview only.
StaleCheckOverview ==
  /\ due
  /\ overview' = MarkStale(overview)
  /\ due' = FALSE
  /\ UNCHANGED <<fact, conn, gen, shown, events>>

\* refreshStaleness.
StaleCheck ==
  /\ due
  /\ shown' = ApplySnapshot(shown, Nothing)
  /\ overview' = MarkStale(overview)
  /\ due' = FALSE
  /\ UNCHANGED <<fact, conn, gen, events>>

\* What the device tree's summary makes of a container's values: it replaces those it
\* has, keeps the other values the tree knows of, and drops the rest.
Summary(old, has, age) ==
  [m \in Metrics |-> IF m \in has THEN age ELSE IF m \in Mapped THEN old[m] ELSE Never]

\* The device tree's answer; the mapped container has neither observedAt nor dataState.
TreeArrives ==
  /\ events < EventBound
  /\ events' = events + 1
  /\ \E listed \in SUBSET Devices, age \in 0..Old :
       \E has \in [listed -> SUBSET Mapped] :
         shown' = [d \in Devices |->
                     IF d \in listed
                     THEN [value |-> Summary(shown[d].value, has[d], age),
                           observed |-> Never, label |-> "none"]
                     ELSE shown[d]]
  /\ UNCHANGED <<fact, conn, gen, overview, due>>

-----------------------------------------------------------------------------
\* The station measures a metric of a device.
Measure ==
  /\ \E d \in Devices, m \in Metrics :
       fact[d][m] > 0 /\ fact' = [fact EXCEPT ![d][m] = 0]
  /\ UNCHANGED <<conn, gen, shown, overview, due, events>>

\* The latest measurements of some metrics, with a time the page can read or without.
Measured == {p \in Devices \X Metrics : fact[p[1]][p[2]] # Never}
Snapshot(some, dated) ==
  [d \in Devices |-> [m \in Metrics |->
     IF <<d, m>> \in some
     THEN [age |-> fact[d][m], dated |-> <<d, m>> \in dated]
     ELSE Absent]]

\* The station service pushes measurements of some metrics of some devices.
Push(g) ==
  /\ conn[g].pc = "open" /\ conn[g].wire = Nothing
  /\ \E some \in SUBSET Measured \ {{}} : \E dated \in SUBSET some :
       conn' = [conn EXCEPT ![g].wire = Snapshot(some, dated)]
  /\ UNCHANGED <<fact, gen, shown, overview, due, events>>

AgedAll(ages) == [m \in Metrics |-> Aged(ages[m])]
AgedPoints(points) ==
  [d \in Devices |-> [m \in Metrics |-> [age |-> Aged(points[d][m].age),
                                         dated |-> points[d][m].dated]]]

\* The interval of the timer passes: everything is one tick older.
Tick ==
  /\ ~due
  /\ due' = TRUE
  /\ fact' = [d \in Devices |-> AgedAll(fact[d])]
  /\ conn' = [g \in Gens |-> [pc |-> conn[g].pc, wire |-> AgedPoints(conn[g].wire)]]
  /\ shown' = [d \in Devices |-> [value |-> AgedAll(shown[d].value),
                                  observed |-> Aged(shown[d].observed),
                                  label |-> shown[d].label]]
  /\ overview' = [overview EXCEPT !.updated = Aged(@)]
  /\ UNCHANGED <<gen, events>>

-----------------------------------------------------------------------------
\* The store's initial state and the effect's first run.
TelInit ==
  /\ fact = [d \in Devices |-> Unmeasured]
  /\ conn = [g \in Gens |-> [pc |-> IF g = 1 THEN "token" ELSE "unused", wire |-> Nothing]]
  /\ gen = 1
  /\ shown = [d \in Devices |-> [value |-> Unmeasured, observed |-> Never, label |-> "none"]]
  /\ overview = [status |-> "loading", updated |-> Never]
  /\ due = FALSE
  /\ events = 0

\* What the page does on its own.
Bridge(g) == TokenArrives(g) \/ Opens(g) \/ Reconnect(g) \/ Deliver(g)

TelNext ==
  \/ Refresh
  \/ \E g \in Gens : Bridge(g) \/ TokenFails(g) \/ Breaks(g) \/ Push(g) \/ DeliverOthers(g)
  \/ StaleCheck \/ TreeArrives \/ Measure \/ Tick

\* Promises and timers run and time passes; what the station sends is its own affair.
TelFairness ==
  /\ \A g \in Gens : WF_telVars(Bridge(g))
  /\ WF_telVars(StaleCheck) /\ WF_telVars(Tick)

TelSpec == TelInit /\ [][TelNext]_telVars /\ TelFairness

-----------------------------------------------------------------------------
(***************************************************************************)
(* Properties.                                                             *)
(***************************************************************************)
TelTypeOK ==
  /\ fact \in [Devices -> [Metrics -> Ages]]
  /\ conn \in [Gens -> [pc : States, wire : [Devices -> [Metrics -> Points]]]]
  /\ gen \in Gens
  /\ shown \in [Devices -> [value : [Metrics -> Ages], observed : Ages,
                          label : {"none", "live", "stale"}]]
  /\ overview \in [status : {"loading", "live", "stale", "error"}, updated : Ages]
  /\ due \in BOOLEAN
  /\ events \in 0..EventBound

\* One effect at a time reads a socket: a refresh between the request for a token and
\* its answer, or while a snapshot is on its way, leaves no second one behind.
OneSocket == \A g \in Gens : conn[g].pc \in {"dialing", "open", "waiting"} => g = gen

\* The time the page keeps beside a container's measurements is not newer than all of
\* them.  A snapshot's values replace the shown ones without a comparison while
\* observedAt keeps the newest time of any, so this holds only because no other socket
\* speaks, none is reordered, and the device tree, which replaces values, takes the time
\* away.  It is not the time of each: a metric the snapshots leave out keeps its value.
ObservedIsShown ==
  \A d \in Devices :
    shown[d].observed # Never => \E m \in Metrics : shown[d].value[m] <= shown[d].observed

\* A measurement that became old does not stay labelled live.
OldTurnsStale ==
  \A d \in Devices :
    (shown[d].label = "live" /\ shown[d].observed > Stale) ~>
    (shown[d].label # "live" \/ shown[d].observed <= Stale)

\* A station that goes on sending figures over a socket that stays open.
Served ==
  <>[](\E g \in Gens : conn[g].pc = "open") =>
  []<>(\E g \in Gens : HasFigures(conn[g].wire))

\* Whatever token or socket fails, and whenever the user refreshes, the panel says again
\* and again that its figures are authoritative.
BackToLive == Served => []<>(PanelSays = "authoritative")
=============================================================================
