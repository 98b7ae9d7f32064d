SPECIFICATION Spec
CONSTANTS
  Users = {u1}
  NoUser = NoUser
  MaxSid = 1
  SessionTimeout = 2
  ScanCount = 1
  Requests = {r1}
  Passwords = {p1, p2}
  NoPassword = NoPassword
  Offered = {"signup", "changePassword"}
PROPERTIES NewPasswordWorks
CHECK_DEADLOCK FALSE
