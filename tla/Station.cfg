SPECIFICATION StationSpec
CONSTANTS
  Devices = {d1}
  Metrics = {soc, fan}
  Figures = {soc}
  Mapped = {soc}
  Stale = 1
  RefreshBound = 1
  EventBound = 1
  Scopes = {s1, s2}
  SelectBound = 2
  LoadBound = 2
  FaultBound = 1
  Containers = {c1, c2}
  Packages = {1}
  Elsewhere = w1
  Total = 3
  Models = {0, 2, 4}
  RemountBound = 2
  TMin = 10
  TMax = 16
  Labelled = {1, 2, 3}
  Columns = {0, 140, 300}
  Distances = {60, 90, 95}
  ClusterSize = 3
  MaxVisible = 2
  Users = {u1, u2}
  Queries = {q1, q2}
  ChangeBound = 2
  ReloadBound = 2
  FailBound = 1
INVARIANTS
  ObservedIsShown
  PointsOfTheChoice
  AddressAgrees
  SelectionCoherent
  RangeOnTrack
  LabelsApart
PROPERTIES
  OldTurnsStale
  TelemetryComesBack
  CameraLeftAlone
  OverlayIsGone
  TokenNotReplaced
CHECK_DEADLOCK FALSE
