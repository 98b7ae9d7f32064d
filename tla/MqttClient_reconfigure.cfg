SPECIFICATION FairSpec
CONSTANTS
  Clients = {c1, c2}
  NoClient = NoClient
  Broadcast = Broadcast
  DeviceTopics = {t1}
  Updates = {u1, u2}
  MaxAttempts = 1
  MaxFaults = 0
  MaxOps = 1
PROPERTIES BroadcastSubscribed
\* Operators, devices and the network may be done: then nothing happens.
CHECK_DEADLOCK FALSE
