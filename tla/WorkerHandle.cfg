SPECIFICATION HandleFairSpec
CONSTANTS
  BLAKE2_HASH_SIZE = 1
  BYTE_BITS = 2
  bucket_size = 2
  w1 = w1
  own = own
  other = other
  None = None
  Worker = {w1}
  SocketAddr = {own, other}
  MaxQueue = 2
  MaxControllers = 1
  PeerId <- MC_PeerId
  IdOf <- MC_IdOf
  AddrOf <- MC_AddrOf
INVARIANTS
  QuitNeverFails
  ReplyMatchesTable
PROPERTIES
  QuitReturns
  OrphanStops
  PingAnswered
CHECK_DEADLOCK FALSE
