------------------------------ MODULE Accounts ------------------------------
(***************************************************************************)
(* The accounts of src/users in MongoDB and the roles they hold, with the  *)
(* sessions that carry a copy of those roles (src/session), the guards     *)
(* that read the copy (src/common/guard), and the endpoints of             *)
(* UsersController and the sign-up of AuthService that write accounts.     *)
(*                                                                         *)
(* An action is the code from one awaited database call to the next. Every *)
(* operation of UsersService reads the account, then writes it, then reads *)
(* it again for the answer, and any other request may run in between.      *)
(***************************************************************************)
EXTENDS Errors, FiniteSets

CONSTANTS Users,     \* bound: the user ids ever drawn
          Emails,
          NoEmail,   \* of a user id that has no document, or not given
          NoUser,
          Sids,      \* bound: sessions alive at the same time
          Requests,  \* bound: requests served at the same time
          RoleLists, \* bound: the role lists clients send
          Offered    \* the operations clients call in this model

VARIABLES email,     \* email[u], NoEmail if u has no document
          roles,     \* roles[u]
          isActive,  \* isActive[u]
          session,   \* session[s]: the user and roles login put there
          req,       \* req[r]: the request in slot r
          sent,      \* the response sent in the last step, if any
          \* History, read by properties only:
          disturbed, \* requests whose account another request has written
                     \* since they read it
          outdated   \* sessions whose account has been written since their
                     \* login read it

docs == <<email, roles, isActive>>
hist == <<disturbed, outdated>>
vars == <<docs, session, req, sent, hist>>

----------------------------------------------------------------------------
(* Types *)

Role == {"viewer", "test", "engineer", "admin", "super-admin"}

\* What an array of roles may hold where no DTO asks for roles.
AnyRole == Role \cup {"other"}

RoleOps  == {"assignRoles", "addRoles", "removeRoles"}
Creates  == {"signup", "createUserManually"}
Updates  == {"updateUser", "updateUserProfile"}
Reads    == {"findById", "getUserRoles"}
Guarded  == RoleOps \cup Updates \cup Reads
              \cup {"createUserManually", "deleteUser"}
Op       == Guarded \cup {"signup", "login"}

\* The @Roles of each guarded endpoint.
Required(op) ==
  CASE op \in RoleOps \cup {"deleteUser"} -> {"super-admin"}
    [] op = "updateUserProfile" -> Role
    [] OTHER -> {"admin", "super-admin"}

\* A role list that the body leaves out.
NotGiven == {"not given"}

ASSUME AccountsAssumption ==
  /\ NoEmail \notin Emails /\ Emails # {}
  /\ NoUser \notin Users /\ Users # {}
  /\ RoleLists \subseteq SUBSET AnyRole
  /\ Offered \subseteq Op

\* What the validators let through. AssignRolesDto wants known roles, and at
\* least one; CreateUserDto and UpdateUserDto take any array, the empty one,
\* too, and an update may leave every field out.
AssignRolesDto == [email : {NoEmail},
                   roles : {l \in RoleLists \ {{}} : l \subseteq Role}]
CreateUserDto  == [email : Emails, roles : RoleLists]
UpdateUserDto  == [email : Emails \cup {NoEmail},
                   roles : RoleLists \cup {NotGiven}]
Body(op) ==
  CASE op \in RoleOps -> AssignRolesDto
    [] op = "createUserManually" -> CreateUserDto
    [] op \in Updates -> UpdateUserDto
    [] op = "signup" -> [email : Emails, roles : {{"viewer"}}]
    [] OTHER -> [email : {NoEmail}, roles : {NotGiven}]

Session == [userId : Users \cup {NoUser}, roles : SUBSET AnyRole]
NoSession == [userId |-> NoUser, roles |-> {}]

Step == {"idle", "find", "check", "insert", "write", "reread", "createSession"}

RoleArg == (SUBSET AnyRole) \cup {NotGiven}

Request ==
  [pc     : Step,
   op     : Op,
   userId : Users \cup {NoUser},        \* the account at hand
   email  : Emails \cup {NoEmail},      \* from the body
   roles  : RoleArg,                    \* from the body
   next   : RoleArg]                    \* the roles to be written

Idle == [pc |-> "idle", op |-> "login", userId |-> NoUser,
         email |-> NoEmail, roles |-> {}, next |-> {}]

NoResponse == [to |-> NoUser, is |-> success(0)]

TypeOK ==
  /\ email \in [Users -> Emails \cup {NoEmail}]
  /\ roles \in [Users -> SUBSET AnyRole]
  /\ isActive \in [Users -> BOOLEAN]
  /\ session \in [Sids -> Session]
  /\ req \in [Requests -> Request]
  /\ sent \in [to : Requests, is : Response] \cup {NoResponse}
  /\ disturbed \subseteq Requests
  /\ outdated \subseteq Sids

\* One account, entered in the database by hand, is the first super admin:
\* no endpoint can create the first one.
Init ==
  /\ \E u \in Users, e \in Emails :
       /\ email = [v \in Users |-> IF v = u THEN e ELSE NoEmail]
       /\ roles = [v \in Users |-> IF v = u THEN {"super-admin"} ELSE {}]
       /\ isActive = [v \in Users |-> v = u]
  /\ session = [s \in Sids |-> NoSession]
  /\ req = [r \in Requests |-> Idle]
  /\ sent = NoResponse
  /\ disturbed = {}
  /\ outdated = {}

----------------------------------------------------------------------------
(* Helpers *)

Exists(u) == email[u] # NoEmail

\* findOne({ userId, isActive: true })
Active(u) == Exists(u) /\ isActive[u]

\* findUserByEmail(e) # null
Known(e) == \E u \in Users : Active(u) /\ email[u] = e

\* Mutant: the columns are not unique (no synchronize).
duplicateUnchecked(e, u) == FALSE

\* The unique index on email, which knows deleted accounts too. MongoDB
\* refuses a write that would give u the email of another document.
duplicate(e, u) == \E v \in Users \ {u} : Exists(v) /\ email[v] = e

At(r, step) == req[r].pc = step

Goto(r, step) == req' = [req EXCEPT ![r].pc = step]

Answer(r, response) ==
  /\ req' = [req EXCEPT ![r] = Idle]
  /\ sent' = [to |-> r, is |-> response]

\* The step answers nobody.
Silent == sent' = NoResponse

\* Two creates never compete for the last user id (bound Users).
FreshUser ==
  Cardinality({r \in Requests : req[r].pc # "idle" /\ req[r].op \in Creates})
    < Cardinality({u \in Users : ~Exists(u)})

\* The roles an operation makes of those the account holds.
Applied(op, given, held) ==
  CASE op = "addRoles" -> held \cup given
    [] op = "removeRoles" -> held \ given
    [] OTHER -> given

\* A request has read its account and still works with what it read.
Holding == {"write", "reread", "createSession"}

\* History: r writes the document of u under the requests and sessions that
\* have read it; "over" says that r itself ends with it.
Writes(r, u, over) ==
  /\ disturbed' = (disturbed \ over) \cup
       {q \in Requests \ {r} : req[q].pc \in Holding /\ req[q].userId = u}
  /\ outdated' = outdated \cup {s \in Sids : session[s].userId = u}

\* History: r is over.
Settles(r) == disturbed' = disturbed \ {r} /\ UNCHANGED outdated
----------------------------------------------------------------------------
(* The guards *)

\* A request without a session of its own: signup and login.
Visit(r, op, u, body) ==
  /\ At(r, "idle") /\ op \in {"signup", "login"} \cap Offered
  /\ IF op = "login" THEN u \in Users /\ Active(u) ELSE u = NoUser /\ FreshUser
  /\ req' = [req EXCEPT ![r] =
       [pc |-> "find", op |-> op, userId |-> u, email |-> body.email,
        roles |-> body.roles, next |-> {}]]
  /\ Silent
  /\ UNCHANGED <<docs, session, hist>>

\* SessionAuthGuard hands the roles of session s to RolesGuard, which asks
\* for one of the roles of the endpoint. The profile endpoint acts on the
\* session's own account.
Call(r, op, s, u, body) ==
  /\ At(r, "idle") /\ op \in Guarded \cap Offered
  /\ op \in Creates => u = NoUser /\ FreshUser
  /\ op \notin Creates => u \in Users
  /\ op = "updateUserProfile" /\ session[s] # NoSession
       => u = session[s].userId
  /\ IF session[s].userId = NoUser THEN Answer(r, caught(Unauthorized))
     ELSE IF session[s].roles \cap Required(op) = {}
       THEN Answer(r, caught(Forbidden))
     ELSE /\ req' = [req EXCEPT ![r] =
               [pc |-> "find", op |-> op, userId |-> u,
                email |-> body.email, roles |-> body.roles, next |-> {}]]
          /\ Silent
  /\ UNCHANGED <<docs, session, hist>>

----------------------------------------------------------------------------
(* UsersService *)

\* createUserManually and signup: the email must not be that of an active
\* account.
findByEmail(r) ==
  /\ At(r, "find") /\ req[r].op \in Creates
  /\ IF Known(req[r].email)
       THEN Answer(r, caught(IF req[r].op = "signup" THEN EmailExists
                                                     ELSE Unauthorized))
       ELSE /\ Goto(r, IF req[r].op = "signup" THEN "check" ELSE "insert")
            /\ Silent
  /\ UNCHANGED <<docs, session, hist>>

\* createUser asks once more what signup has asked.
checkEmail(r) ==
  /\ At(r, "check")
  /\ IF Known(req[r].email) THEN Answer(r, caught(Unauthorized))
     ELSE Goto(r, "insert") /\ Silent
  /\ UNCHANGED <<docs, session, hist>>

\* save: a new document, unless the index knows the email.
insert(r) ==
  /\ At(r, "insert")
  /\ \E u \in {v \in Users : ~Exists(v)} :
       IF duplicate(req[r].email, u)
         THEN Answer(r, caught(DuplicateKey)) /\ UNCHANGED docs
         ELSE /\ email' = [email EXCEPT ![u] = req[r].email]
              /\ roles' = [roles EXCEPT ![u] = req[r].roles]
              /\ isActive' = [isActive EXCEPT ![u] = TRUE]
              /\ req' = [req EXCEPT ![r].pc = "reread", ![r].userId = u]
              /\ Silent
  /\ UNCHANGED <<session, hist>>

\* Mutant: removeRoles does not look at what is left.
findUnguarded(r) ==
  LET u == req[r].userId
      next == Applied(req[r].op, req[r].roles, roles[u]) IN
  /\ At(r, "find") /\ req[r].op \in RoleOps \cup Updates \cup {"deleteUser"}
  /\ IF ~Active(u) THEN Answer(r, caught(NotFound))
     ELSE /\ req' = [req EXCEPT ![r].pc = "write", ![r].next = next]
          /\ Silent
  /\ UNCHANGED <<docs, session, hist>>

\* The queries: an account that is not active is a 404 to getUserRoles, and
\* an empty answer to findById.
query(r) ==
  /\ At(r, "find") /\ req[r].op \in Reads
  /\ Answer(r, IF req[r].op = "findById" \/ Active(req[r].userId)
                 THEN success(200) ELSE caught(NotFound))
  /\ UNCHANGED <<docs, session, hist>>

\* Every other operation starts with the active account; the role
\* operations compute the new list from what they have just read, and
\* removeRoles refuses to leave none.
find(r) ==
  LET u == req[r].userId
      next == Applied(req[r].op, req[r].roles, roles[u]) IN
  /\ At(r, "find") /\ req[r].op \in RoleOps \cup Updates \cup {"deleteUser"}
  /\ IF ~Active(u) THEN Answer(r, caught(NotFound))
     ELSE IF req[r].op = "removeRoles" /\ next = {}
       THEN Answer(r, caught(Unauthorized))
     ELSE /\ req' = [req EXCEPT ![r].pc = "write", ![r].next = next]
          /\ Silent
  /\ UNCHANGED <<docs, session, hist>>

\* Mutant: addRoles stores the roles it was given.
writeGiven(r) ==
  LET u == req[r].userId IN
  /\ At(r, "write") /\ req[r].op \in RoleOps
  /\ roles' = [roles EXCEPT ![u] = req[r].roles]
  /\ Goto(r, "reread") /\ Silent
  /\ Writes(r, u, {})
  /\ UNCHANGED <<email, isActive, session>>

\* Mutant: the entity that was read is saved as a whole.
writeEntity(r) ==
  LET u == req[r].userId IN
  /\ At(r, "write") /\ req[r].op \in RoleOps
  /\ roles' = [roles EXCEPT ![u] = req[r].next]
  /\ isActive' = [isActive EXCEPT ![u] = TRUE]
  /\ Goto(r, "reread") /\ Silent
  /\ Writes(r, u, {})
  /\ UNCHANGED <<email, session>>

\* assignRoles, addRoles, removeRoles: update({ userId }, { roles }), which
\* asks neither what the roles are by now nor whether the account is active.
writeRoles(r) ==
  LET u == req[r].userId IN
  /\ At(r, "write") /\ req[r].op \in RoleOps
  /\ roles' = [roles EXCEPT ![u] = req[r].next]
  /\ Goto(r, "reread") /\ Silent
  /\ Writes(r, u, {})
  /\ UNCHANGED <<email, isActive, session>>

\* updateUser writes the fields it was given.
writeFields(r) ==
  LET u == req[r].userId IN
  /\ At(r, "write") /\ req[r].op \in Updates
  /\ IF req[r].email # NoEmail /\ duplicate(req[r].email, u)
       THEN /\ Answer(r, caught(DuplicateKey)) /\ Settles(r)
            /\ UNCHANGED docs
       ELSE /\ email' = [email EXCEPT ![u] =
                 IF req[r].email = NoEmail THEN @ ELSE req[r].email]
            /\ roles' = [roles EXCEPT ![u] =
                 IF req[r].next = NotGiven THEN @ ELSE req[r].next]
            /\ Goto(r, "reread")
            /\ IF req[r].next = NotGiven THEN UNCHANGED hist
                                        ELSE Writes(r, u, {})
            /\ Silent /\ UNCHANGED isActive
  /\ UNCHANGED session

\* deleteUser: a soft delete, answered at once.
writeDeleted(r) ==
  LET u == req[r].userId IN
  /\ At(r, "write") /\ req[r].op = "deleteUser"
  /\ isActive' = [isActive EXCEPT ![u] = FALSE]
  /\ Answer(r, success(200))
  /\ Writes(r, u, {r})
  /\ UNCHANGED <<email, roles, session>>

\* The status of a call that goes well: 201 for the POST routes.
done(op) ==
  success(IF op \in Creates \cup {"addRoles", "removeRoles"} THEN 201 ELSE 200)

\* The document is read again for the answer: the role operations want it
\* active still. A signup goes on to its session.
reread(r) ==
  LET u == req[r].userId IN
  /\ At(r, "reread")
  /\ IF req[r].op = "signup"
       THEN /\ req' = [req EXCEPT ![r].pc = "createSession",
                                  ![r].next = roles[u]]
            /\ Silent /\ UNCHANGED hist
       ELSE /\ Answer(r, IF req[r].op \in RoleOps /\ ~Active(u)
                           THEN caught(Forbidden) ELSE done(req[r].op))
            /\ Settles(r)
  /\ UNCHANGED <<docs, session>>

----------------------------------------------------------------------------
(* AuthService.login and createSession *)

\* Mutant: the account is not asked whether it is active.
loginFindAny(r) ==
  LET u == req[r].userId IN
  /\ At(r, "find") /\ req[r].op = "login"
  /\ req' = [req EXCEPT ![r].pc = "createSession", ![r].next = roles[u]]
  /\ Silent
  /\ UNCHANGED <<docs, session, hist>>

\* login reads the account; comparing the password takes its time.
loginFind(r) ==
  LET u == req[r].userId IN
  /\ At(r, "find") /\ req[r].op = "login"
  /\ IF Active(u)
       THEN /\ req' = [req EXCEPT ![r].pc = "createSession",
                                  ![r].next = roles[u]]
            /\ Silent
       ELSE Answer(r, caught(App(401, "INVALID_CREDENTIALS")))
  /\ UNCHANGED <<docs, session, hist>>

\* Mutant: the session gets the roles of the request's body.
createSessionFromBody(r) ==
  /\ At(r, "createSession")
  /\ \E s \in {t \in Sids : session[t] = NoSession} :
       /\ session' = [session EXCEPT ![s] =
            [userId |-> req[r].userId, roles |-> req[r].roles]]
       /\ outdated' = IF r \in disturbed THEN outdated \cup {s} ELSE outdated
  /\ Answer(r, success(201))
  /\ disturbed' = disturbed \ {r}
  /\ UNCHANGED docs

\* The session gets the roles of the account as it was read.
createSession(r) ==
  /\ At(r, "createSession")
  /\ \E s \in {t \in Sids : session[t] = NoSession} :
       /\ session' = [session EXCEPT ![s] =
            [userId |-> req[r].userId, roles |-> req[r].next]]
       /\ outdated' = IF r \in disturbed THEN outdated \cup {s} ELSE outdated
  /\ Answer(r, success(201))
  /\ disturbed' = disturbed \ {r}
  /\ UNCHANGED docs

\* Logout, invalidation or expiry of a session.
endSession(s) ==
  /\ session[s] # NoSession
  /\ session' = [session EXCEPT ![s] = NoSession]
  /\ outdated' = outdated \ {s}
  /\ Silent /\ UNCHANGED <<docs, req, disturbed>>

\* A database call is rejected, by the server or by the connection: the
\* request ends there and nothing is undone.
Fail(r) ==
  /\ ~At(r, "idle")
  /\ \E e \in {MongoServer("other"), OtherError} : Answer(r, caught(e))
  /\ Settles(r)
  /\ UNCHANGED <<docs, session>>
----------------------------------------------------------------------------

Handle(r) ==
  \/ findByEmail(r) \/ checkEmail(r) \/ insert(r)
  \/ query(r) \/ find(r) \/ writeRoles(r) \/ writeFields(r) \/ writeDeleted(r)
  \/ reread(r) \/ loginFind(r) \/ createSession(r)

Next ==
  \/ \E r \in Requests :
       \/ \E op \in {"signup", "login"}, u \in Users \cup {NoUser} :
            \E body \in Body(op) : Visit(r, op, u, body)
       \/ \E op \in Guarded, s \in Sids, u \in Users \cup {NoUser} :
            \E body \in Body(op) : Call(r, op, s, u, body)
       \/ Handle(r)
       \/ Fail(r)
  \/ \E s \in Sids : endSession(s)

Spec == Init /\ [][Next]_vars

----------------------------------------------------------------------------
(* Properties *)

\* No two documents have one email, whichever creates and updates run at the
\* same time: the checks of UsersService alone would let two through, so
\* this rests on the unique index of the entity.
EmailsUnique ==
  \A u, v \in Users : u # v /\ Exists(u) => email[u] # email[v]

\* A role operation acts as if it were one step, from its read to its
\* answer, unless another request writes the account in between: it stores
\* what it makes of the roles held now, and answers with what is stored. (One
\* that is disturbed may drop what an overlapping addRoles has added.)
UndisturbedAtomic ==
  \A r \in Requests \ disturbed : req[r].op \in RoleOps =>
    LET u == req[r].userId IN
    /\ At(r, "write") =>
         Active(u) /\ req[r].next = Applied(req[r].op, req[r].roles, roles[u])
    /\ At(r, "reread") => Active(u) /\ req[r].next = roles[u]

\* The guards judge by the copy of the roles in the session. It is true: the
\* account is active and holds just these roles, unless it has been written
\* since the login or signup read it. (From then on the copy stays wrong
\* until the session ends.)
SessionCurrent ==
  \A s \in Sids \ outdated : session[s] # NoSession =>
    Active(session[s].userId) /\ session[s].roles = roles[session[s].userId]

\* "User must have at least one role": however operations interleave, an
\* account is left without one only by a create or an update whose own body
\* has an empty list, which CreateUserDto and UpdateUserDto do not refuse.
\* What a role operation or a signup writes never is.
RetainsRole ==
  [][\A u \in Users :
       Exists(u)' /\ roles'[u] = {} /\ ~(Exists(u) /\ roles[u] = {}) =>
         \E r \in Requests :
           /\ req[r].op \in {"createUserManually"} \cup Updates
           /\ req[r].roles = {}
           /\ \/ At(r, "insert") /\ ~Exists(u)
              \/ At(r, "write") /\ req[r].userId = u]_vars

\* A deletion is final, though a request that has read the account before
\* may still write it and later answers as if it were there.
DeletedStaysDeleted ==
  [][\A u \in Users : Exists(u) /\ ~isActive[u] => ~isActive[u]']_vars
=============================================================================
