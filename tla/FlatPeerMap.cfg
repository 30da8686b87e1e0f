SPECIFICATION Spec
CONSTANTS
  BLAKE2_HASH_SIZE = 2
  BYTE_BITS = 2
  bucket_size = 2
  SocketAddr = {addr1, addr2}
  None = None
  PeerId <- MC_PeerId
  peer_id <- MC_peer_id
INVARIANTS
  TypeOK
  CountIsOccupied
  TableInv
  AnswersAreKnownContacts
  FindsAsManyPeersAsItCan
  LookupLeadsOn
PROPERTIES
  ForgetsAtMostOneOfTheSameRank
