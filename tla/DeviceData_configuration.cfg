SPECIFICATION Spec
CONSTANTS
  Users = {"u1", "u2"}
  Requests = {"r1", "r2"}
  DeviceCapabilities = {"temperature", "humidity"}
  Numbers = {0, 1}
  Epochs = {1}
INVARIANT ConfigurationAccepted
CHECK_DEADLOCK FALSE
