\* The pipelined loop under a fair host and a fair device, and the entries
\* under fair threads; a finished loop stops and so do entries that all
\* returned, hence no deadlock check.
CONSTANTS
  b0 = b0
  b1 = b1
  b2 = b2
  b3 = b3
  b4 = b4
  NoBuf = NoBuf
  CarryBufs <- MCCarryBufs
  Input = b0
  Trips <- MCTrips
  AheadEnabled = TRUE
  BodyFlushes = TRUE
  t1 = t1
  t2 = t2
  hostly = hostly
  plain = plain
  buf = buf
  Nobody = Nobody
  Threads <- MCThreads
  Execs <- MCExecs
  Bufs <- MCBufs
  Hosts <- MCHosts
  Calls <- CallsOther
  Concurrent = FALSE
  MaxDepth = 2
  MaxCalls = 3
  MaxTapes = 2
SPECIFICATION FairBothSpec
CHECK_DEADLOCK FALSE
INVARIANTS
  BuffersIntact
  
  RunAheadBounded
  DonationsAreFinal
  OneSubmitter
  TapeOutlivesRun
PROPERTIES
  ImplementsSerial
  LoopArrives
  CallsReturn
