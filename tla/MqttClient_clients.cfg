SPECIFICATION FairSpec
CONSTANTS
  Clients = {c1, c2, c3}
  NoClient = NoClient
  Broadcast = Broadcast
  DeviceTopics = {t1}
  Updates = {u1, u2}
  MaxAttempts = 1
  MaxFaults = 2
  MaxOps = 2
INVARIANTS TypeOK FlagBacked AttemptsBounded NeverStranded
PROPERTIES RecoversWhileSubscribed
\* Operators, devices and the network may be done: then nothing happens.
CHECK_DEADLOCK FALSE
