SPECIFICATION Spec
CONSTANTS
  Devices = {d1}
  NoDevice = NoDevice
  Tasks = {t1, t2}
  Requests = {1, 2}
  NoRequest = NoRequest
  LastTopic = 3
  AssignTopic = 1
  HardwareTopic = 2
  TelemetryTopic = 3
INVARIANTS TopicsGenerated
\* Operators and devices may be done: then nothing happens.
CHECK_DEADLOCK FALSE
