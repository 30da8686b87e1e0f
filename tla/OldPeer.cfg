SPECIFICATION FairSpec
CONSTANTS
  h = h
  a = a
  None = None
  Peer = {h, a}
  Pinging = {h}
  Bootstrap <- MC_Bootstrap
INVARIANT
  FailuresStayApart
PROPERTIES
  HeardInTurn
  MessagesGetThrough
CHECK_DEADLOCK FALSE
