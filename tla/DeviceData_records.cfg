SPECIFICATION Spec
CONSTANTS
  Users = {"u1", "u2"}
  Requests = {"r1", "r2"}
  DeviceCapabilities = {"temperature", "humidity"}
  Numbers = {0, 1}
  Epochs = {1}
INVARIANTS TypeOK ColumnsDocumented AssignedWithin CrashOnlyRaw 
\* The bound on request ids may be used up.
CHECK_DEADLOCK FALSE
