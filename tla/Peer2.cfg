SPECIFICATION FairSpec
CONSTANTS
  c1 = c1
  c2 = c2
  addr1 = addr1
  None = None
  Conn = {c1, c2}
  SocketAddr = {addr1}
  Bootstrap = {c1}
  RemoteAddr <- MC_RemoteAddr
INVARIANTS
  WorkerOutlivesTasks
  NothingReadIsLost
PROPERTIES
  FinishedRequestsAreHandled
  WorkerEndsWithRun
CHECK_DEADLOCK FALSE
