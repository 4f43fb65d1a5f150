CONSTANTS
  Callers = {c1, c2}
  Sizes = {1, 2}
  QueueCap = 2
  ByteLimit = 3
  MaxSends = 3
SPECIFICATION FairSpec
INVARIANTS
  TypeOK
  QueuesBounded
  LaneFIFO
  NoLostWakeup
  BytesExact
PROPERTIES
  AcceptedIsWritten
  OverflowEvicts
  WriterExits
\* the senders may fall silent, and a closed connection is left alone
CHECK_DEADLOCK FALSE
