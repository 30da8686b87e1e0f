SPECIFICATION Spec
CONSTANTS
  BLAKE2_HASH_SIZE = 2
  BYTE_BITS = 2
  bucket_size = 2
  SocketAddr = {addr1, addr2}
  None = None
  PeerId <- MC_PeerId
  self_id <- MC_self_id
INVARIANTS
  TypeOK
  Placement
  CountsWhatContainsFinds
  AnswersAreKnownContacts
  TargetBucketComesFirst
  ShortAnswerCoversAhead
PROPERTY
  KeepsEveryContact
