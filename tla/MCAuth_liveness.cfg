SPECIFICATION FairSpec
CONSTANTS
  Users = {u1}
  NoUser = NoUser
  MaxSid = 2
  SessionTimeout = 1
  ScanCount = 1
  Requests = {r1, r2}
  Passwords = {p1}
  NoPassword = NoPassword
  Offered = {"signup", "login", "changePassword", "deleteUser"}
PROPERTIES RequestsAnswered RequestsAdvance
\* An administrator may delete the account: nothing is left to do then.
CHECK_DEADLOCK FALSE
