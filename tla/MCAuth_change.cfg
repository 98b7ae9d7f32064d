SPECIFICATION Spec
CONSTANTS
  Users = {u1}
  NoUser = NoUser
  MaxSid = 2
  SessionTimeout = 2
  ScanCount = 2
  Requests = {r1, r2}
  Passwords = {p1}
  NoPassword = NoPassword
  Offered = {"signup", "login", "access", "logout", "changePassword"}
PROPERTIES PasswordChangeInvalidates
