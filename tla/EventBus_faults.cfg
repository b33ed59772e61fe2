SPECIFICATION Spec
CONSTANTS
  Values = {v1, v2}
  Publishers = {p1, p2}
  Forwarders = {f1}
  Streams = {s1}
  Faults = {"publish", "history", "restart"}
  PublishBound = 3
  ReceiveBound = 4
INVARIANTS
  ReceivedInOrder
  NothingForgotten
PROPERTIES
  ImplementsTopic
CHECK_DEADLOCK FALSE
