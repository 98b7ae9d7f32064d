SPECIFICATION Spec
CONSTANTS
  Users = {u1, u2}
  Emails = {e1, e2}
  NoEmail = NoEmail
  NoUser = NoUser
  Sids = {s1}
  Requests = {r1, r2}
  RoleLists = {{}, {"super-admin"}}
  Offered = {"signup", "login", "createUserManually", "updateUser", "findById", "getUserRoles", "assignRoles", "addRoles", "removeRoles", "deleteUser"}
SYMMETRY Symmetry
INVARIANTS TypeOK EmailsUnique UndisturbedAtomic SessionCurrent
PROPERTIES RetainsRole DeletedStaysDeleted
\* Every account may be deleted and every user id used up.
CHECK_DEADLOCK FALSE
