SPECIFICATION Spec
CONSTANTS
  BLAKE2_HASH_SIZE = 2
  BYTE_BITS = 2
  bucket_size = 2
  SocketAddr = {addr1}
  None = None
  PeerId <- MC_PeerId
  self_id <- MC_self_id
INVARIANT
  FindsAsManyPeersAsItCan
