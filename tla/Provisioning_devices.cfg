SPECIFICATION FairSpec
CONSTANTS
  Devices = {d1}
  NoDevice = NoDevice
  Tasks = {t1, t2}
  Requests = {1, 2}
  NoRequest = NoRequest
  LastTopic = 2
  AssignTopic = 1
  HardwareTopic = 2
  TelemetryTopic = 2
INVARIANTS TypeOK OneRecord TopicsComplete AssignedReachable
PROPERTIES ImplementsDeviceLife FoundIsKept DiscoveryCompletes
\* Operators and devices may be done: then nothing happens.
CHECK_DEADLOCK FALSE
