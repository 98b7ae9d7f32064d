SPECIFICATION Spec
CONSTANTS
  Users = {u1, u2}
  NoUser = NoUser
  MaxSid = 2
  SessionTimeout = 2
  ScanCount = 1
  Requests = {r1, r2}
  Passwords = {p1}
  NoPassword = NoPassword
  Offered = {"signup", "logout", "changePassword"}
SYMMETRY Symmetry
INVARIANTS TypeOK SessionsTracked SessionsOwned
PROPERTIES NoResurrection InvalidationComplete InvalidationSelective UnusedSessionsAge ImplementsSessionLife
\* Once the session ids are used up and have ended, no request is left.
CHECK_DEADLOCK FALSE
