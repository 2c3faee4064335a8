CONSTANTS
  t1 = t1
  t2 = t2
  ev1 = ev1
  ev2 = ev2
  own1 = own1
  own2 = own2
  peer1 = peer1
  Nothing = Nothing
  Tab = {t1}
  Event = {ev1, ev2}
  Edit = {own1, own2}
  EventOf <- AcrossEvents
  Peer = {}
  Refused = {}
  Narrow = {}
  MaxFailures = 1
  MaxCrashes = 1
SPECIFICATION FairSpec
PROPERTIES EditsReachTheServer
INVARIANTS AcceptedEditsAreKept
CHECK_DEADLOCK FALSE
