SPECIFICATION Spec
CONSTANTS
  Tests = {t1, t2}
  Users = {"u1"}
  Requests = {"r1"}
  DeviceCapabilities = {"temperature"}
  Numbers = {0, 1, 999, 1000, 65535, 65536}
  Epochs = {}
INVARIANTS TypeOK TryingIsTimed WaitingIsTimed TestedIsValid
PROPERTIES TestsEnd
\* Every test has been answered.
CHECK_DEADLOCK FALSE
