SPECIFICATION FairSpec
CONSTANTS
  BLAKE2_HASH_SIZE = 1
  BYTE_BITS = 2
  bucket_size = 2
  w1 = w1
  w2 = w2
  w3 = w3
  addr1 = addr1
  addr2 = addr2
  addr3 = addr3
  None = None
  Worker = {w1, w2}
  SocketAddr = {addr1, addr2}
  bootstrap = addr1
  MaxQueue = 0
  MaxControllers = 0
  MaxElapsed = 2
  PeerId <- MC_PeerId
  IdOf <- MC_IdOf
  AddrOf <- MC_AddrOf
  AddOrder <- MC_AddOrder
  Delay <- MC_Delay
PROPERTY
  NewcomersLearnSomePeer
