SPECIFICATION FairSpec
CONSTANTS
  Calls = {c1, c2}
  Contexts = {x1, x2}
  Events = {e1, e2}
  Streams = {s1, s2}
  None = None
INVARIANTS
  FailedCallLeavesNothing
  ReportedCallIsDone
  EventsOwnLiveHandles
  NoEventIsLost
PROPERTIES
  StreamOutlivesItsEvents
  ImplementsAsyncCall
  CallReturns
  WaitReturns
CHECK_DEADLOCK FALSE
