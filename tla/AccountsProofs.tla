--------------------------- MODULE AccountsProofs ---------------------------
(***************************************************************************)
(* Proofs about Accounts, for every number of users, emails, sessions and  *)
(* requests and every choice of role lists.                                *)
(***************************************************************************)
EXTENDS Accounts, TLAPS

\* What a request carries at each step.
RequestOK(r) ==
  /\ req[r].pc \in Holding =>
       req[r].userId \in Users /\ Exists(req[r].userId)
  /\ At(r, "find") /\ req[r].op \notin Creates => req[r].userId \in Users
  /\ At(r, "write") => req[r].op \in RoleOps \cup Updates \cup {"deleteUser"}
  /\ req[r].pc \in {"check", "insert"} => req[r].op \in Creates
  /\ req[r].op \in RoleOps => req[r].roles \in RoleLists \ {{}}
  /\ req[r].op \in Updates => req[r].roles \in RoleLists \cup {NotGiven}
  /\ req[r].op \in Creates =>
       req[r].email \in Emails /\ req[r].roles \in RoleLists \cup {{"viewer"}}
  /\ req[r].op = "signup" => req[r].roles # {}
  /\ At(r, "write") /\ req[r].op \in RoleOps =>
       req[r].next \in (SUBSET AnyRole) \ {{}}
  /\ At(r, "write") /\ req[r].op \in Updates => req[r].next = req[r].roles
  /\ At(r, "createSession") => req[r].next \in SUBSET AnyRole

\* A session belongs to a user.
SessionsOwned ==
  \A s \in Sids : session[s] # NoSession => session[s].userId \in Users

Base ==
  /\ TypeOK
  /\ \A r \in Requests : RequestOK(r)
  /\ SessionsOwned

\* What a request that nobody has disturbed knows of its account: it is as
\* it was read.
Knows(r) ==
  LET u == req[r].userId IN
  /\ At(r, "write") /\ req[r].op \in RoleOps =>
       Active(u) /\ req[r].next = Applied(req[r].op, req[r].roles, roles[u])
  /\ At(r, "reread") /\ req[r].op \in RoleOps =>
       Active(u) /\ req[r].next = roles[u]
  /\ At(r, "reread") /\ req[r].op = "signup" => Active(u)
  /\ At(r, "createSession") => Active(u) /\ req[r].next = roles[u]

Current == (\A r \in Requests \ disturbed : Knows(r)) /\ SessionCurrent

----------------------------------------------------------------------------
(* Lemmas *)

LEMMA NoRoleNotGiven == "not given" \notin AnyRole
BY DEF AnyRole, Role

LEMMA RoleListsType ==
  /\ \A l \in RoleLists : l \in SUBSET AnyRole /\ l # NotGiven
  /\ {"viewer"} \in SUBSET AnyRole
BY AccountsAssumption, NoRoleNotGiven DEF NotGiven, AnyRole, Role

LEMMA IdleType == Idle \in Request
BY DEF Idle, Request, Step, Op, Guarded, RoleArg

LEMMA NoSessionType == NoSession \in Session
BY DEF NoSession, Session

\* Every exception of the account code is mapped to a known response.
LEMMA Caught ==
  /\ caught(Unauthorized) \in Response
  /\ caught(Forbidden) \in Response
  /\ caught(NotFound) \in Response
  /\ caught(DuplicateKey) \in Response
  /\ caught(EmailExists) \in Response
  /\ caught(App(401, "INVALID_CREDENTIALS")) \in Response
  /\ caught(MongoServer("other")) \in Response
  /\ caught(OtherError) \in Response
BY DEF caught, Response, Unauthorized, Forbidden, NotFound, DuplicateKey,
       EmailExists, App, Http, MongoServer, OtherError

LEMMA Succeeded ==
  /\ \A status \in {0, 200, 201} : success(status) \in Response
  /\ \A op \in Op : done(op) \in Response
BY DEF done, success, Response

\* What a validated body carries.
LEMMA BodyType ==
  ASSUME NEW op \in Op, NEW body \in Body(op)
  PROVE  /\ body.email \in Emails \cup {NoEmail}
         /\ body.roles \in RoleArg
         /\ op \in RoleOps => body.roles \in RoleLists \ {{}}
         /\ op \in Updates => body.roles \in RoleLists \cup {NotGiven}
         /\ op \in Creates => body.email \in Emails
                /\ body.roles \in RoleLists \cup {{"viewer"}}
         /\ op = "signup" => body.roles # {}
<1>1. CASE op \in RoleOps
  BY <1>1, RoleListsType
     DEF Body, AssignRolesDto, RoleOps, Updates, Creates, RoleArg
<1>2. CASE op = "createUserManually"
  BY <1>2, RoleListsType
     DEF Body, CreateUserDto, RoleOps, Updates, Creates, RoleArg
<1>3. CASE op \in Updates
  BY <1>3, RoleListsType
     DEF Body, UpdateUserDto, RoleOps, Updates, Creates, RoleArg
<1>4. CASE op = "signup"
  BY <1>4, RoleListsType DEF Body, RoleOps, Updates, Creates, RoleArg
<1>5. CASE op \notin RoleOps \cup Updates \cup Creates
  BY <1>5, RoleListsType DEF Body, RoleOps, Updates, Creates, RoleArg
<1>6. QED
  BY <1>1, <1>2, <1>3, <1>4, <1>5 DEF Creates

\* Answering frees the slot.
LEMMA Answered ==
  ASSUME TypeOK, NEW r \in Requests, NEW x \in Response, Answer(r, x)
  PROVE  /\ req' \in [Requests -> Request]
         /\ sent' \in [to : Requests, is : Response] \cup {NoResponse}
         /\ req'[r] = Idle
         /\ \A q \in Requests \ {r} : req'[q] = req[q]
         /\ RequestOK(r)'
<1>1. /\ req' = [req EXCEPT ![r] = Idle]
      /\ sent' = [to |-> r, is |-> x]
  BY DEF Answer
<1>2. req'[r] = Idle
  BY <1>1 DEF TypeOK
<1>3. RequestOK(r)'
  BY <1>2 DEF RequestOK, Idle, At, Holding, RoleOps, Updates, Creates
<1>4. QED
  BY <1>1, <1>2, <1>3, IdleType DEF TypeOK

\* The requests that an action does not touch.
LEMMA OtherRequests ==
  ASSUME NEW r \in Requests, NEW q \in Requests \ {r}, RequestOK(q),
         req'[q] = req[q], \A u \in Users : Exists(u) => Exists(u)'
  PROVE  RequestOK(q)'
BY DEF RequestOK, At

\* A step of one request on the way, put together.
LEMMA OneRequest ==
  ASSUME Base, NEW r \in Requests, TypeOK', RequestOK(r)', SessionsOwned',
         \A q \in Requests \ {r} : req'[q] = req[q],
         \A u \in Users : Exists(u) => Exists(u)'
  PROVE  Base'
<1>1. ASSUME NEW q \in Requests \ {r} PROVE RequestOK(q)'
  BY <1>1, OtherRequests DEF Base
<1>2. QED
  BY <1>1 DEF Base

\* A step that answers and leaves the documents and sessions alone.
LEMMA OnlyAnswers ==
  ASSUME Base, NEW r \in Requests, NEW x \in Response, Answer(r, x),
         UNCHANGED <<docs, session>>,
         disturbed' \subseteq Requests, outdated' \subseteq Sids
  PROVE  Base'
<1>1. TypeOK
  BY DEF Base
<1>2. TypeOK'
  BY <1>1, Answered DEF TypeOK, docs
<1>3. SessionsOwned'
  BY DEF Base, SessionsOwned
<1>4. \A u \in Users : Exists(u) => Exists(u)'
  BY DEF Exists, docs
<1>5. QED
  BY <1>1, <1>2, <1>3, <1>4, Answered, OneRequest

\* A step that only takes the request on.
LEMMA OnlyGoesOn ==
  ASSUME Base, NEW r \in Requests, NEW x \in Request,
         req' = [req EXCEPT ![r] = x], RequestOK(r)', Silent,
         UNCHANGED <<docs, session>>,
         disturbed' \subseteq Requests, outdated' \subseteq Sids
  PROVE  Base'
<1>1. TypeOK
  BY DEF Base
<1>2. TypeOK'
  BY <1>1 DEF TypeOK, docs, Silent
<1>3. SessionsOwned'
  BY DEF Base, SessionsOwned
<1>4. \A u \in Users : Exists(u) => Exists(u)'
  BY DEF Exists, docs
<1>5. \A q \in Requests \ {r} : req'[q] = req[q]
  BY <1>1 DEF TypeOK
<1>6. QED
  BY <1>2, <1>3, <1>4, <1>5, OneRequest

LEMMA OnlyGoto ==
  ASSUME Base, NEW r \in Requests, NEW step \in Step, Goto(r, step),
         RequestOK(r)', Silent, UNCHANGED <<docs, session>>,
         disturbed' \subseteq Requests, outdated' \subseteq Sids
  PROVE  Base'
<1>1. PICK x \in Request : req' = [req EXCEPT ![r] = x]
  <2>1. /\ req' = [req EXCEPT ![r] = [req[r] EXCEPT !.pc = step]]
        /\ [req[r] EXCEPT !.pc = step] \in Request
    BY DEF Base, TypeOK, Goto, Request
  <2>2. QED
    BY <2>1
<1>2. QED
  BY <1>1, OnlyGoesOn

\* History stays within its type.
LEMMA HistoryType ==
  ASSUME TypeOK, NEW r \in Requests
  PROVE  /\ UNCHANGED hist =>
              disturbed' \subseteq Requests /\ outdated' \subseteq Sids
         /\ Settles(r) =>
              disturbed' \subseteq Requests /\ outdated' \subseteq Sids
         /\ \A u, over : Writes(r, u, over) =>
              disturbed' \subseteq Requests /\ outdated' \subseteq Sids
BY DEF TypeOK, hist, Settles, Writes

----------------------------------------------------------------------------
(* The invariant of the requests *)

LEMMA VisitBase ==
  ASSUME Base, NEW r \in Requests, NEW op \in {"signup", "login"},
         NEW u \in Users \cup {NoUser}, NEW body \in Body(op),
         Visit(r, op, u, body)
  PROVE  Base'
<1> DEFINE new == [pc |-> "find", op |-> op, userId |-> u,
                   email |-> body.email, roles |-> body.roles, next |-> {}]
<1>1. TypeOK
  BY DEF Base
<1>2. op \in Op
  BY DEF Op
<1>3. new \in Request
  BY <1>2, BodyType DEF Request, Step, RoleArg
<1>4. req' = [req EXCEPT ![r] = new] /\ req'[r] = new
  BY <1>1 DEF Visit, TypeOK
<1>5. op = "login" => u \in Users
  BY DEF Visit
<1>6. RequestOK(r)'
  BY <1>2, <1>4, <1>5, BodyType
     DEF RequestOK, At, Holding, RoleOps, Updates, Creates
<1> HIDE DEF new
<1>7. QED
  BY <1>1, <1>3, <1>4, <1>6, OnlyGoesOn, HistoryType DEF Visit

LEMMA CallBase ==
  ASSUME Base, NEW r \in Requests, NEW op \in Guarded, NEW s \in Sids,
         NEW u \in Users \cup {NoUser}, NEW body \in Body(op),
         Call(r, op, s, u, body)
  PROVE  Base'
<1> DEFINE new == [pc |-> "find", op |-> op, userId |-> u,
                   email |-> body.email, roles |-> body.roles, next |-> {}]
<1>1. TypeOK
  BY DEF Base
<1>2. op \in Op
  BY DEF Op
<1>3. CASE Answer(r, caught(Unauthorized)) \/ Answer(r, caught(Forbidden))
  BY <1>1, <1>3, OnlyAnswers, Caught, HistoryType DEF Call
<1>4. CASE req' = [req EXCEPT ![r] = new] /\ Silent
  <2>1. new \in Request
    BY <1>2, BodyType DEF Request, Step, RoleArg
  <2>2. req'[r] = new
    BY <1>1, <1>4 DEF TypeOK
  <2>3. op \notin Creates => u \in Users
    BY DEF Call
  <2>4. RequestOK(r)'
    BY <1>2, <2>2, <2>3, BodyType
       DEF RequestOK, At, Holding, RoleOps, Updates, Creates
  <2> HIDE DEF new
  <2>5. QED
    BY <1>1, <1>4, <2>1, <2>4, OnlyGoesOn, HistoryType DEF Call
<1>5. QED
  BY <1>3, <1>4 DEF Call

LEMMA FindByEmailBase ==
  ASSUME Base, NEW r \in Requests, findByEmail(r)
  PROVE  Base'
<1>1. TypeOK
  BY DEF Base
<1>2. CASE Known(req[r].email)
  BY <1>1, <1>2, OnlyAnswers, Caught, HistoryType DEF findByEmail
<1>3. CASE ~Known(req[r].email)
  <2>1. PICK step \in {"check", "insert"} : Goto(r, step) /\ Silent
    BY <1>3 DEF findByEmail
  <2>2. RequestOK(r)'
    BY <1>1, <2>1
       DEF Base, TypeOK, findByEmail, Goto, RequestOK, At, Holding
  <2>3. QED
    BY <1>1, <2>1, <2>2, OnlyGoto, HistoryType
       DEF findByEmail, Step
<1>4. QED
  BY <1>2, <1>3

LEMMA CheckEmailBase ==
  ASSUME Base, NEW r \in Requests, checkEmail(r)
  PROVE  Base'
<1>1. TypeOK
  BY DEF Base
<1>2. CASE Known(req[r].email)
  BY <1>1, <1>2, OnlyAnswers, Caught, HistoryType DEF checkEmail
<1>3. CASE ~Known(req[r].email)
  <2>1. Goto(r, "insert") /\ Silent
    BY <1>3 DEF checkEmail
  <2>2. RequestOK(r)'
    BY <1>1, <2>1
       DEF Base, TypeOK, checkEmail, Goto, RequestOK, At, Holding
  <2>3. QED
    BY <1>1, <2>1, <2>2, OnlyGoto, HistoryType
       DEF checkEmail, Step
<1>4. QED
  BY <1>2, <1>3

\* The one step that makes a document.
LEMMA InsertBase ==
  ASSUME Base, NEW r \in Requests, insert(r)
  PROVE  Base'
<1>1. TypeOK /\ RequestOK(r) /\ SessionsOwned
  BY DEF Base
<1>2. PICK u \in Users :
        /\ ~Exists(u)
        /\ IF duplicate(req[r].email, u)
             THEN Answer(r, caught(DuplicateKey)) /\ UNCHANGED docs
             ELSE /\ email' = [email EXCEPT ![u] = req[r].email]
                  /\ roles' = [roles EXCEPT ![u] = req[r].roles]
                  /\ isActive' = [isActive EXCEPT ![u] = TRUE]
                  /\ req' = [req EXCEPT ![r].pc = "reread", ![r].userId = u]
                  /\ Silent
  BY DEF insert
<1>3. CASE duplicate(req[r].email, u)
  BY <1>1, <1>2, <1>3, OnlyAnswers, Caught, HistoryType DEF insert
<1>4. CASE ~duplicate(req[r].email, u)
  <2>1. req[r].email \in Emails /\ req[r].roles \in SUBSET AnyRole
    BY <1>1, RoleListsType DEF insert, RequestOK, At
  <2>2. email' \in [Users -> Emails \cup {NoEmail}] /\ email'[u] # NoEmail
    BY <1>1, <1>2, <1>4, <2>1, AccountsAssumption DEF TypeOK
  <2>3. roles' \in [Users -> SUBSET AnyRole]
    BY <1>1, <1>2, <1>4, <2>1 DEF TypeOK
  <2>4. isActive' \in [Users -> BOOLEAN]
    BY <1>1, <1>2, <1>4 DEF TypeOK
  <2>5. /\ req' \in [Requests -> Request]
        /\ req'[r] = [req[r] EXCEPT !.pc = "reread", !.userId = u]
        /\ \A q \in Requests \ {r} : req'[q] = req[q]
    <3>1. [req[r] EXCEPT !.pc = "reread", !.userId = u] \in Request
      BY <1>1 DEF TypeOK, Request, Step
    <3>2. req' =
            [req EXCEPT ![r] = [req[r] EXCEPT !.pc = "reread", !.userId = u]]
      BY <1>2, <1>4
    <3>3. QED
      BY <1>1, <3>1, <3>2 DEF TypeOK
  <2>6. TypeOK'
    <3>1. sent' = NoResponse /\ UNCHANGED <<session, disturbed, outdated>>
      BY <1>2, <1>4 DEF insert, hist, Silent
    <3>2. QED
      BY <1>1, <2>2, <2>3, <2>4, <2>5, <3>1 DEF TypeOK
  <2>7. RequestOK(r)'
    <3>1. req[r].op \in Creates /\ req[r] \in Request
      BY <1>1 DEF insert, RequestOK, At, TypeOK
    <3>2. Exists(u)'
      BY <2>2 DEF Exists
    <3>3. /\ req'[r].pc = "reread" /\ req'[r].userId = u
          /\ req'[r].op = req[r].op /\ req'[r].email = req[r].email
          /\ req'[r].roles = req[r].roles
      BY <2>5, <3>1 DEF Request
    <3>4. QED
      BY <1>1, <3>1, <3>2, <3>3
         DEF RequestOK, At, Holding, Creates, RoleOps, Updates, Exists
  <2>8. \A v \in Users : Exists(v) => Exists(v)'
    BY <1>1, <1>2, <1>4, <2>2 DEF Exists, TypeOK
  <2>9. SessionsOwned'
    BY <1>1 DEF insert, SessionsOwned
  <2>10. QED
    BY <2>5, <2>6, <2>7, <2>8, <2>9, OneRequest
<1>5. QED
  BY <1>3, <1>4

LEMMA QueryBase ==
  ASSUME Base, NEW r \in Requests, query(r)
  PROVE  Base'
<1>1. TypeOK
  BY DEF Base
<1>2. PICK x \in Response : Answer(r, x)
  BY Caught, Succeeded DEF query
<1>3. QED
  BY <1>1, <1>2, OnlyAnswers, HistoryType DEF query

LEMMA FindBase ==
  ASSUME Base, NEW r \in Requests, find(r)
  PROVE  Base'
<1> DEFINE u == req[r].userId
           next == Applied(req[r].op, req[r].roles, roles[u])
           new == [req[r] EXCEPT !.pc = "write", !.next = next]
<1>1. TypeOK /\ RequestOK(r) /\ req[r] \in Request
  BY DEF Base, TypeOK
<1>2. CASE Answer(r, caught(NotFound)) \/ Answer(r, caught(Unauthorized))
  BY <1>1, <1>2, OnlyAnswers, Caught, HistoryType DEF find
<1>3. CASE /\ Active(u) /\ ~(req[r].op = "removeRoles" /\ next = {})
           /\ req' = [req EXCEPT ![r] = new] /\ Silent
  <2>1. u \in Users /\ Exists(u)
    BY <1>1, <1>3 DEF find, RequestOK, At, RoleOps, Updates, Creates, Active
  <2>2. roles[u] \in SUBSET AnyRole
    BY <1>1, <2>1 DEF TypeOK
  <2>3. req[r].op \in RoleOps => next \in (SUBSET AnyRole) \ {{}}
    <3>1. SUFFICES ASSUME req[r].op \in RoleOps
                   PROVE  next \in (SUBSET AnyRole) \ {{}}
      OBVIOUS
    <3>2. req[r].roles \in SUBSET AnyRole /\ req[r].roles # {}
      BY <1>1, <3>1, RoleListsType DEF RequestOK
    <3>3. QED
      BY <1>3, <2>2, <3>1, <3>2 DEF Applied, RoleOps
  <2>4. req[r].op \in Updates \cup {"deleteUser"} => next = req[r].roles
    BY DEF Applied, Updates
  <2>5. next \in RoleArg
    BY <1>1, <2>3, <2>4 DEF find, RoleArg, Request
  <2> HIDE DEF next
  <2>6. /\ new \in Request
        /\ new.pc = "write" /\ new.next = next /\ new.op = req[r].op
        /\ new.userId = u /\ new.roles = req[r].roles
        /\ new.email = req[r].email
    BY <1>1, <2>5 DEF Request, Step
  <2>7. req'[r] = new
    BY <1>1, <1>3 DEF TypeOK
  <2>8. email'[u] # NoEmail
    BY <2>1 DEF find, docs, Exists
  <2> HIDE DEF new, u
  <2>9. RequestOK(r)'
    BY <1>1, <2>1, <2>3, <2>4, <2>6, <2>7, <2>8
       DEF find, RequestOK, At, Holding, RoleOps, Updates, Creates, Exists
  <2>10. QED
    BY <1>1, <1>3, <2>6, <2>9, OnlyGoesOn, HistoryType DEF find
<1>4. QED
  BY <1>1, <1>2, <1>3 DEF find, TypeOK

LEMMA LoginFindBase ==
  ASSUME Base, NEW r \in Requests, loginFind(r)
  PROVE  Base'
<1> DEFINE u == req[r].userId
           new == [req[r] EXCEPT !.pc = "createSession", !.next = roles[u]]
<1>1. TypeOK /\ RequestOK(r) /\ req[r] \in Request
  BY DEF Base, TypeOK
<1>2. CASE ~Active(u)
  BY <1>1, <1>2, OnlyAnswers, Caught, HistoryType DEF loginFind
<1>3. CASE Active(u)
  <2>1. u \in Users /\ Exists(u)
    BY <1>1, <1>3 DEF loginFind, RequestOK, At, Creates, Active
  <2>2. roles[u] \in SUBSET AnyRole
    BY <1>1, <2>1 DEF TypeOK
  <2>3. /\ new \in Request
        /\ new.pc = "createSession" /\ new.next = roles[u]
        /\ new.op = req[r].op /\ new.userId = u
    BY <1>1, <2>2 DEF Request, Step, RoleArg
  <2>4. req' = [req EXCEPT ![r] = new] /\ req'[r] = new /\ Silent
    BY <1>1, <1>3 DEF loginFind, TypeOK
  <2>5. email'[u] # NoEmail
    BY <2>1 DEF loginFind, docs, Exists
  <2> HIDE DEF new, u
  <2>6. RequestOK(r)'
    BY <2>1, <2>2, <2>3, <2>4, <2>5
       DEF loginFind, RequestOK, At, Holding, RoleOps, Updates, Creates, Exists
  <2>7. QED
    BY <1>1, <1>3, <2>3, <2>4, <2>6, OnlyGoesOn, HistoryType DEF loginFind
<1>4. QED
  BY <1>2, <1>3

\* The three writes that do not make a document leave its existence alone.
LEMMA WriteRolesBase ==
  ASSUME Base, NEW r \in Requests, writeRoles(r)
  PROVE  Base'
<1>1. TypeOK /\ RequestOK(r) /\ SessionsOwned
  BY DEF Base
<1>2. req[r].next \in SUBSET AnyRole
  BY <1>1 DEF writeRoles, RequestOK, At
<1>3. roles' \in [Users -> SUBSET AnyRole]
  BY <1>1, <1>2 DEF writeRoles, TypeOK
<1>4. /\ req' \in [Requests -> Request]
      /\ req'[r] = [req[r] EXCEPT !.pc = "reread"]
      /\ \A q \in Requests \ {r} : req'[q] = req[q]
  <2>1. [req[r] EXCEPT !.pc = "reread"] \in Request
    BY <1>1 DEF TypeOK, Request, Step
  <2>2. req' = [req EXCEPT ![r] = [req[r] EXCEPT !.pc = "reread"]]
    BY DEF writeRoles, Goto
  <2>3. QED
    BY <1>1, <2>1, <2>2 DEF TypeOK
<1>5. sent' = NoResponse /\ UNCHANGED <<email, isActive, session>>
  BY DEF writeRoles, Silent
<1>6. disturbed' \subseteq Requests /\ outdated' \subseteq Sids
  BY <1>1, HistoryType DEF writeRoles
<1>7. TypeOK'
  BY <1>1, <1>3, <1>4, <1>5, <1>6 DEF TypeOK
<1>8. \A u \in Users : Exists(u) => Exists(u)'
  BY <1>5 DEF Exists
<1>9. RequestOK(r)'
  BY <1>1, <1>4, <1>5
     DEF writeRoles, TypeOK, Request, RequestOK, At, Holding, RoleOps,
         Updates, Creates, Exists
<1>10. SessionsOwned'
  BY <1>1, <1>5 DEF SessionsOwned
<1>11. QED
  BY <1>4, <1>7, <1>8, <1>9, <1>10, OneRequest

LEMMA WriteFieldsBase ==
  ASSUME Base, NEW r \in Requests, writeFields(r)
  PROVE  Base'
<1> DEFINE u == req[r].userId
<1>1. TypeOK /\ RequestOK(r) /\ SessionsOwned /\ req[r] \in Request
  BY DEF Base, TypeOK
<1>2. CASE req[r].email # NoEmail /\ duplicate(req[r].email, u)
  BY <1>1, <1>2, OnlyAnswers, Caught, HistoryType DEF writeFields
<1>3. CASE ~(req[r].email # NoEmail /\ duplicate(req[r].email, u))
  <2>1. u \in Users /\ email[u] # NoEmail
    BY <1>1 DEF writeFields, RequestOK, At, Holding, Exists
  <2>2. /\ email' = [email EXCEPT ![u] =
               IF req[r].email = NoEmail THEN email[u] ELSE req[r].email]
        /\ roles' = [roles EXCEPT ![u] =
               IF req[r].next = NotGiven THEN roles[u] ELSE req[r].next]
        /\ Goto(r, "reread")
        /\ UNCHANGED hist \/ Writes(r, u, {})
        /\ Silent /\ UNCHANGED <<isActive, session>>
    BY <1>3 DEF writeFields
  <2>3. req[r].next \in (SUBSET AnyRole) \cup {NotGiven}
    BY <1>1, RoleListsType DEF writeFields, RequestOK, At
  <2>4. email' \in [Users -> Emails \cup {NoEmail}] /\ email'[u] # NoEmail
    BY <1>1, <2>1, <2>2 DEF TypeOK, Request
  <2>5. roles' \in [Users -> SUBSET AnyRole]
    BY <1>1, <2>2, <2>3 DEF TypeOK
  <2>6. /\ req' \in [Requests -> Request]
        /\ req'[r] = [req[r] EXCEPT !.pc = "reread"]
        /\ \A q \in Requests \ {r} : req'[q] = req[q]
    <3>1. [req[r] EXCEPT !.pc = "reread"] \in Request
      BY <1>1 DEF Request, Step
    <3>2. req' = [req EXCEPT ![r] = [req[r] EXCEPT !.pc = "reread"]]
      BY <2>2 DEF Goto
    <3>3. QED
      BY <1>1, <3>1, <3>2 DEF TypeOK
  <2>7. disturbed' \subseteq Requests /\ outdated' \subseteq Sids
    BY <1>1, <2>2, HistoryType
  <2>8. TypeOK'
    BY <1>1, <2>2, <2>4, <2>5, <2>6, <2>7 DEF TypeOK, Silent
  <2>9. \A v \in Users : Exists(v) => Exists(v)'
    BY <1>1, <2>2, <2>4 DEF Exists, TypeOK
  <2> HIDE DEF u
  <2>10. req'[r].userId = u /\ req'[r].pc = "reread"
         /\ req'[r].op = req[r].op /\ req'[r].roles = req[r].roles
         /\ req'[r].email = req[r].email
    BY <1>1, <2>6 DEF Request, u
  <2>11. RequestOK(r)'
    BY <1>1, <2>1, <2>4, <2>10
       DEF writeFields, RequestOK, At, Holding, RoleOps, Updates, Creates,
           Exists
  <2>12. SessionsOwned'
    BY <1>1, <2>2 DEF SessionsOwned
  <2>13. QED
    BY <2>6, <2>8, <2>9, <2>11, <2>12, OneRequest
<1>4. QED
  BY <1>2, <1>3

LEMMA WriteDeletedBase ==
  ASSUME Base, NEW r \in Requests, writeDeleted(r)
  PROVE  Base'
<1>1. TypeOK /\ SessionsOwned
  BY DEF Base
<1>2. Answer(r, success(200)) /\ success(200) \in Response
  BY Succeeded DEF writeDeleted
<1>3. isActive' \in [Users -> BOOLEAN] /\ UNCHANGED <<email, roles, session>>
  BY <1>1 DEF writeDeleted, TypeOK
<1>4. disturbed' \subseteq Requests /\ outdated' \subseteq Sids
  BY <1>1, HistoryType DEF writeDeleted
<1>5. /\ req' \in [Requests -> Request]
      /\ sent' \in [to : Requests, is : Response] \cup {NoResponse}
      /\ \A q \in Requests \ {r} : req'[q] = req[q]
      /\ RequestOK(r)'
  BY <1>1, <1>2, Answered
<1>6. TypeOK'
  BY <1>1, <1>3, <1>4, <1>5 DEF TypeOK
<1>7. /\ SessionsOwned'
      /\ \A u \in Users : Exists(u) => Exists(u)'
  BY <1>1, <1>3 DEF SessionsOwned, Exists
<1>8. QED
  BY <1>5, <1>6, <1>7, OneRequest

LEMMA RereadBase ==
  ASSUME Base, NEW r \in Requests, reread(r)
  PROVE  Base'
<1> DEFINE u == req[r].userId
           new == [req[r] EXCEPT !.pc = "createSession", !.next = roles[u]]
<1>1. TypeOK /\ RequestOK(r) /\ req[r] \in Request
  BY DEF Base, TypeOK
<1>2. CASE req[r].op # "signup"
  <2>1. PICK x \in Response : Answer(r, x)
    BY <1>1, <1>2, Caught, Succeeded DEF reread, Request
  <2>2. QED
    BY <1>1, <1>2, <2>1, OnlyAnswers, HistoryType DEF reread
<1>3. CASE req[r].op = "signup"
  <2>1. u \in Users /\ Exists(u)
    BY <1>1, <1>3 DEF reread, RequestOK, At, Holding
  <2>2. roles[u] \in SUBSET AnyRole
    BY <1>1, <2>1 DEF TypeOK
  <2>3. /\ new \in Request
        /\ new.pc = "createSession" /\ new.next = roles[u]
        /\ new.op = "signup" /\ new.userId = u
        /\ new.email = req[r].email /\ new.roles = req[r].roles
    BY <1>1, <1>3, <2>2 DEF Request, Step, RoleArg
  <2>4. req' = [req EXCEPT ![r] = new] /\ req'[r] = new /\ Silent
    BY <1>1, <1>3 DEF reread, TypeOK
  <2>5. email'[u] # NoEmail
    BY <2>1 DEF reread, docs, Exists
  <2> HIDE DEF new, u
  <2>6. RequestOK(r)'
    BY <1>1, <1>3, <2>1, <2>2, <2>3, <2>4, <2>5
       DEF reread, RequestOK, At, Holding, RoleOps, Updates, Creates, Exists
  <2>7. QED
    BY <1>1, <1>3, <2>3, <2>4, <2>6, OnlyGoesOn, HistoryType DEF reread
<1>4. QED
  BY <1>2, <1>3

LEMMA CreateSessionBase ==
  ASSUME Base, NEW r \in Requests, createSession(r)
  PROVE  Base'
<1>1. TypeOK /\ RequestOK(r) /\ SessionsOwned
  BY DEF Base
<1>2. PICK s \in Sids :
        /\ session' = [session EXCEPT ![s] =
             [userId |-> req[r].userId, roles |-> req[r].next]]
        /\ outdated' = IF r \in disturbed THEN outdated \cup {s} ELSE outdated
  BY DEF createSession
<1>3. req[r].userId \in Users /\ req[r].next \in SUBSET AnyRole
  BY <1>1 DEF createSession, RequestOK, At, Holding
<1>4. session' \in [Sids -> Session] /\ SessionsOwned'
  BY <1>1, <1>2, <1>3 DEF TypeOK, Session, SessionsOwned
<1>5. Answer(r, success(201)) /\ success(201) \in Response
  BY Succeeded DEF createSession
<1>6. /\ req' \in [Requests -> Request]
      /\ sent' \in [to : Requests, is : Response] \cup {NoResponse}
      /\ \A q \in Requests \ {r} : req'[q] = req[q]
      /\ RequestOK(r)'
  BY <1>1, <1>5, Answered
<1>7. /\ disturbed' \subseteq Requests /\ outdated' \subseteq Sids
      /\ UNCHANGED docs
  BY <1>1, <1>2 DEF createSession, TypeOK
<1>8. TypeOK'
  BY <1>1, <1>4, <1>6, <1>7 DEF TypeOK, docs
<1>9. \A u \in Users : Exists(u) => Exists(u)'
  BY <1>7 DEF docs, Exists
<1>10. QED
  BY <1>4, <1>6, <1>8, <1>9, OneRequest

LEMMA FailBase ==
  ASSUME Base, NEW r \in Requests, Fail(r)
  PROVE  Base'
<1>1. TypeOK
  BY DEF Base
<1>2. PICK x \in Response : Answer(r, x)
  BY Caught DEF Fail
<1>3. QED
  BY <1>1, <1>2, OnlyAnswers, HistoryType DEF Fail

LEMMA EndSessionBase ==
  ASSUME Base, NEW s \in Sids, endSession(s)
  PROVE  Base'
<1>1. /\ session' = [session EXCEPT ![s] = NoSession]
      /\ outdated' \subseteq outdated /\ sent' = NoResponse
      /\ UNCHANGED <<email, roles, isActive, req, disturbed>>
  BY DEF endSession, Silent, docs
<1>2. TypeOK' /\ SessionsOwned'
  BY <1>1, NoSessionType DEF Base, TypeOK, SessionsOwned
<1>3. ASSUME NEW r \in Requests PROVE RequestOK(r)'
  BY <1>1 DEF Base, RequestOK, At, Exists
<1>4. QED
  BY <1>2, <1>3 DEF Base

LEMMA InitBase == Init => Base
<1> SUFFICES ASSUME Init PROVE Base
  OBVIOUS
<1>1. PICK u \in Users, e \in Emails :
        /\ email = [v \in Users |-> IF v = u THEN e ELSE NoEmail]
        /\ roles = [v \in Users |-> IF v = u THEN {"super-admin"} ELSE {}]
        /\ isActive = [v \in Users |-> v = u]
  BY DEF Init
<1>2. TypeOK
  BY <1>1, IdleType, NoSessionType DEF Init, TypeOK, AnyRole, Role
<1>3. \A r \in Requests : RequestOK(r)
  BY DEF Init, RequestOK, Idle, At, Holding, RoleOps, Updates, Creates
<1>4. SessionsOwned
  BY DEF Init, SessionsOwned
<1>5. QED
  BY <1>2, <1>3, <1>4 DEF Base

LEMMA StutterBase == Base /\ UNCHANGED vars => Base'
BY DEF Base, vars, docs, hist, TypeOK, RequestOK, At, Exists, SessionsOwned

LEMMA NextBase == Base /\ [Next]_vars => Base'
<1> SUFFICES ASSUME Base, Next PROVE Base'
  BY StutterBase
<1>1. CASE \E r \in Requests : Handle(r) \/ Fail(r)
  BY <1>1, FindByEmailBase, CheckEmailBase, InsertBase, QueryBase, FindBase,
     WriteRolesBase, WriteFieldsBase, WriteDeletedBase, RereadBase,
     LoginFindBase, CreateSessionBase, FailBase DEF Handle
<1>2. CASE \E s \in Sids : endSession(s)
  BY <1>2, EndSessionBase
<1>3. QED
  BY <1>1, <1>2, VisitBase, CallBase DEF Next

----------------------------------------------------------------------------
(* Accounts *)

\* A document's email is kept, or replaced by one no other document has.
LEMMA EmailChange ==
  ASSUME Base, Next
  PROVE  \/ email' = email
         \/ \E u \in Users, e \in Emails :
              email' = [email EXCEPT ![u] = e] /\ ~duplicate(e, u)
<1>1. ASSUME NEW r \in Requests, insert(r), email' # email
      PROVE  \E u \in Users, e \in Emails :
               email' = [email EXCEPT ![u] = e] /\ ~duplicate(e, u)
  <2>1. req[r].email \in Emails
    BY <1>1 DEF Base, RequestOK, insert, At
  <2>2. QED
    BY <1>1, <2>1 DEF insert, docs
<1>2. ASSUME NEW r \in Requests, writeFields(r), email' # email
      PROVE  \E u \in Users, e \in Emails :
               email' = [email EXCEPT ![u] = e] /\ ~duplicate(e, u)
  <2>1. req[r].userId \in Users /\ req[r].email \in Emails \cup {NoEmail}
    BY <1>2 DEF Base, TypeOK, Request, RequestOK, writeFields, At, Holding
  <2>2. email' = [email EXCEPT ![req[r].userId] =
                   IF req[r].email = NoEmail THEN email[req[r].userId]
                                             ELSE req[r].email]
    BY <1>2 DEF writeFields, docs
  <2>3. req[r].email # NoEmail
    BY <1>2, <2>2 DEF Base, TypeOK
  <2>4. ~duplicate(req[r].email, req[r].userId)
    BY <1>2, <2>3 DEF writeFields, docs
  <2>5. QED
    BY <2>1, <2>2, <2>3, <2>4
<1>3. ASSUME NEW r \in Requests, Handle(r) \/ Fail(r), email' # email
      PROVE  insert(r) \/ writeFields(r)
  BY <1>3
     DEF Handle, Fail, findByEmail, checkEmail, query, find, writeRoles,
         writeDeleted, reread, loginFind, createSession, docs
<1>4. QED
  BY <1>1, <1>2, <1>3 DEF Next, Visit, Call, endSession, docs

LEMMA EmailsStep == Base /\ EmailsUnique /\ [Next]_vars => EmailsUnique'
<1> SUFFICES ASSUME Base, EmailsUnique, Next PROVE EmailsUnique'
  BY DEF vars, docs, EmailsUnique, Exists
<1>1. CASE email' = email
  BY <1>1 DEF EmailsUnique, Exists
<1>2. ASSUME NEW u \in Users, NEW e \in Emails,
             email' = [email EXCEPT ![u] = e], ~duplicate(e, u)
      PROVE  EmailsUnique'
  BY <1>2, AccountsAssumption
     DEF Base, TypeOK, EmailsUnique, Exists, duplicate
<1>3. QED
  BY <1>1, <1>2, EmailChange

\* Only a new document becomes active.
LEMMA DeletedStep ==
  ASSUME Base, [Next]_vars, NEW u \in Users, Exists(u), ~isActive[u]
  PROVE  ~isActive'[u]
<1>1. CASE isActive' = isActive
  BY <1>1
<1>2. ASSUME NEW r \in Requests, insert(r) PROVE ~isActive'[u]
  BY <1>2 DEF insert, docs, Base, TypeOK
<1>3. ASSUME NEW r \in Requests, writeDeleted(r) PROVE ~isActive'[u]
  BY <1>3 DEF writeDeleted, Base, TypeOK
<1>4. ASSUME NEW r \in Requests, Handle(r) \/ Fail(r), isActive' # isActive
      PROVE  insert(r) \/ writeDeleted(r)
  BY <1>4
     DEF Handle, Fail, findByEmail, checkEmail, query, find, writeRoles,
         writeFields, reread, loginFind, createSession, docs
<1>5. QED
  BY <1>1, <1>2, <1>3, <1>4 DEF Next, Visit, Call, endSession, docs, vars

----------------------------------------------------------------------------
(* Roles *)

\* What a step may leave without a role, and by which request.
LEMMA RetainsStep ==
  ASSUME Base, [Next]_vars, NEW u \in Users,
         Exists(u)', roles'[u] = {}, ~(Exists(u) /\ roles[u] = {})
  PROVE  \E r \in Requests :
           /\ req[r].op \in {"createUserManually"} \cup Updates
           /\ req[r].roles = {}
           /\ \/ At(r, "insert") /\ ~Exists(u)
              \/ At(r, "write") /\ req[r].userId = u
<1> DEFINE Empties(r) ==
      /\ req[r].op \in {"createUserManually"} \cup Updates
      /\ req[r].roles = {}
      /\ \/ At(r, "insert") /\ ~Exists(u)
         \/ At(r, "write") /\ req[r].userId = u
<1>1. ~UNCHANGED <<email, roles>>
  BY DEF Exists
<1>2. ASSUME NEW r \in Requests, insert(r) PROVE Empties(r)
  <2>1. PICK v \in Users :
          /\ ~Exists(v)
          /\ email' = [email EXCEPT ![v] = req[r].email]
          /\ roles' = [roles EXCEPT ![v] = req[r].roles]
    BY <1>1, <1>2 DEF insert, docs
  <2>2. v = u /\ req[r].roles = {}
    BY <2>1 DEF Base, TypeOK, Exists
  <2>3. req[r].op = "createUserManually"
    BY <1>2, <2>2 DEF Base, RequestOK, insert, At, Creates
  <2>4. QED
    BY <1>2, <2>1, <2>2, <2>3 DEF insert
<1>3. ASSUME NEW r \in Requests, writeRoles(r) PROVE FALSE
  <2>1. req[r].next # {}
    BY <1>3 DEF Base, RequestOK, writeRoles, At
  <2>2. QED
    BY <1>3, <2>1 DEF writeRoles, Base, TypeOK, Exists
<1>4. ASSUME NEW r \in Requests, writeFields(r) PROVE Empties(r)
  <2>1. /\ req[r].userId \in Users /\ Exists(req[r].userId)
        /\ req[r].next = req[r].roles /\ At(r, "write")
        /\ req[r].op \in Updates
    BY <1>4 DEF Base, RequestOK, writeFields, At, Holding
  <2>2. /\ \A v \in Users \ {req[r].userId} :
               email'[v] = email[v] /\ roles'[v] = roles[v]
        /\ roles'[req[r].userId] \in {roles[req[r].userId], req[r].next}
    BY <1>1, <1>4, <2>1 DEF writeFields, Base, TypeOK, docs
  <2>3. req[r].userId = u /\ req[r].next = {}
    BY <2>1, <2>2 DEF Exists
  <2>4. QED
    BY <2>1, <2>3
<1>5. ASSUME NEW r \in Requests, Handle(r) \/ Fail(r)
      PROVE  insert(r) \/ writeRoles(r) \/ writeFields(r)
  BY <1>1, <1>5
     DEF Handle, Fail, findByEmail, checkEmail, query, find, writeDeleted,
         reread, loginFind, createSession, docs
<1>6. PICK r \in Requests : Handle(r) \/ Fail(r)
  BY <1>1 DEF Next, Visit, Call, endSession, docs, vars
<1>7. Empties(r)
  BY <1>2, <1>3, <1>4, <1>5, <1>6
<1>8. QED
  BY <1>7

----------------------------------------------------------------------------
(* What requests and sessions have read *)

\* A step of request r that changes the document of u at most, and records
\* who has read it: what the others know stays true.
LEMMA OthersKnow ==
  ASSUME Base, Current, NEW r \in Requests, NEW u \in Users \cup {NoUser},
         \A q \in Requests \ {r} : req'[q] = req[q],
         \A v \in Users \ {u} :
           (Active(v)' <=> Active(v)) /\ roles'[v] = roles[v],
         UNCHANGED session,
         disturbed \ {r} \subseteq disturbed', outdated \subseteq outdated',
         \A q \in Requests \ (disturbed' \cup {r}) :
           req[q].pc \in Holding => req[q].userId # u,
         \A s \in Sids \ outdated' :
           session[s] # NoSession => session[s].userId # u
  PROVE  /\ \A q \in Requests \ (disturbed' \cup {r}) : Knows(q)'
         /\ SessionCurrent'
<1>1. ASSUME NEW q \in Requests \ (disturbed' \cup {r}) PROVE Knows(q)'
  <2>1. Knows(q) /\ RequestOK(q) /\ req'[q] = req[q]
    BY DEF Current, Base
  <2>2. CASE req[q].pc \in Holding
    <3>1. req[q].userId \in Users \ {u}
      BY <2>1, <2>2 DEF RequestOK
    <3>2. /\ Active(req[q].userId)' <=> Active(req[q].userId)
          /\ roles'[req[q].userId] = roles[req[q].userId]
      BY <2>1, <3>1 DEF Active, Exists
    <3>3. QED
      BY <2>1, <3>2 DEF Knows, At
  <2>3. CASE req[q].pc \notin Holding
    BY <2>1, <2>3 DEF Knows, At, Holding
  <2>4. QED
    BY <2>2, <2>3
<1>2. ASSUME NEW s \in Sids \ outdated', session'[s] # NoSession
      PROVE  /\ Active(session[s].userId)'
             /\ session'[s].roles = roles'[session'[s].userId]
  <2>1. session[s] # NoSession /\ session[s].userId \in Users \ {u}
    BY <1>2 DEF Base, SessionsOwned
  <2>2. /\ Active(session[s].userId)
        /\ session[s].roles = roles[session[s].userId]
    BY <1>2, <2>1 DEF Current, SessionCurrent
  <2>3. QED
    BY <2>1, <2>2 DEF Active, Exists
<1>3. QED
  BY <1>1, <1>2 DEF SessionCurrent

\* A step of request r that changes no document and no session.
LEMMA OnlyOneKnows ==
  ASSUME Base, Current, NEW r \in Requests,
         \A q \in Requests \ {r} : req'[q] = req[q],
         UNCHANGED <<docs, session, outdated>>,
         disturbed \ {r} \subseteq disturbed',
         r \notin disturbed' => Knows(r)'
  PROVE  Current'
<1>1. \A v \in Users \ {NoUser} :
        (Active(v)' <=> Active(v)) /\ roles'[v] = roles[v]
  BY DEF docs, Active, Exists
<1>2. \A q \in Requests : req[q].pc \in Holding => req[q].userId # NoUser
  BY AccountsAssumption DEF Base, RequestOK
<1>3. \A s \in Sids : session[s] # NoSession => session[s].userId # NoUser
  BY AccountsAssumption DEF Base, SessionsOwned
<1>4. /\ \A q \in Requests \ (disturbed' \cup {r}) : Knows(q)'
      /\ SessionCurrent'
  BY <1>1, <1>2, <1>3, OthersKnow
<1>5. QED
  BY <1>4 DEF Current

\* A request that is not between its read and its answer knows nothing.
LEMMA KnowsNothing ==
  ASSUME NEW r \in Requests, req'[r].pc \notin Holding
  PROVE  Knows(r)'
BY DEF Knows, At, Holding

LEMMA AnswerCurrent ==
  ASSUME Base, Current, NEW r \in Requests, NEW x \in Response, Answer(r, x),
         UNCHANGED <<docs, session>>, UNCHANGED hist \/ Settles(r)
  PROVE  Current'
<1>1. req'[r].pc \notin Holding
  BY Answered DEF Base, Idle, Holding
<1>2. \A q \in Requests \ {r} : req'[q] = req[q]
  BY Answered DEF Base
<1>3. UNCHANGED outdated /\ disturbed \ {r} \subseteq disturbed'
  BY DEF hist, Settles
<1>4. QED
  BY <1>1, <1>2, <1>3, KnowsNothing, OnlyOneKnows

LEMMA GoesOnCurrent ==
  ASSUME Base, Current, NEW r \in Requests, NEW x,
         req' = [req EXCEPT ![r] = x],
         UNCHANGED <<docs, session, hist>>,
         r \notin disturbed => Knows(r)'
  PROVE  Current'
<1>1. \A q \in Requests \ {r} : req'[q] = req[q]
  BY DEF Base, TypeOK
<1>2. UNCHANGED <<outdated, disturbed>>
  BY DEF hist
<1>3. QED
  BY <1>1, <1>2, OnlyOneKnows

LEMMA ArriveCurrent ==
  ASSUME Base, Current, NEW r \in Requests,
         NEW op \in Op,
         NEW u \in Users \cup {NoUser}, NEW body \in Body(op),
         Visit(r, op, u, body) \/ \E s \in Sids : Call(r, op, s, u, body)
  PROVE  Current'
<1> DEFINE new == [pc |-> "find", op |-> op, userId |-> u,
                   email |-> body.email, roles |-> body.roles, next |-> {}]
<1>1. CASE req' = [req EXCEPT ![r] = new]
  <2>1. req'[r].pc \notin Holding
    BY <1>1 DEF Base, TypeOK, Holding
  <2> HIDE DEF new
  <2>2. QED
    BY <1>1, <2>1, KnowsNothing, GoesOnCurrent DEF Visit, Call
<1>2. CASE Answer(r, caught(Unauthorized)) \/ Answer(r, caught(Forbidden))
  BY <1>2, Caught, AnswerCurrent DEF Visit, Call
<1>3. QED
  BY <1>1, <1>2 DEF Visit, Call

LEMMA LookCurrent ==
  ASSUME Base, Current, NEW r \in Requests,
         findByEmail(r) \/ checkEmail(r) \/ query(r) \/ Fail(r)
  PROVE  Current'
<1>1. CASE \E x \in Response : Answer(r, x)
  BY <1>1, AnswerCurrent DEF findByEmail, checkEmail, query, Fail
<1>2. ASSUME NEW step \in {"check", "insert"}, Goto(r, step),
             findByEmail(r) \/ checkEmail(r)
      PROVE  Current'
  <2>1. PICK x : x = [req[r] EXCEPT !.pc = step]
    OBVIOUS
  <2>2. req' = [req EXCEPT ![r] = x]
    BY <1>2, <2>1 DEF Goto
  <2>3. req'[r].pc \notin Holding
    BY <1>2 DEF Goto, Base, TypeOK, Request, Holding
  <2>4. QED
    BY <1>2, <2>2, <2>3, KnowsNothing, GoesOnCurrent
       DEF findByEmail, checkEmail
<1>3. QED
  BY <1>1, <1>2, Caught, Succeeded DEF findByEmail, checkEmail, query, Fail

LEMMA FindCurrent ==
  ASSUME Base, Current, NEW r \in Requests, find(r)
  PROVE  Current'
<1> DEFINE u == req[r].userId
           next == Applied(req[r].op, req[r].roles, roles[u])
           new == [req[r] EXCEPT !.pc = "write", !.next = next]
<1>1. TypeOK /\ req[r] \in Request
  BY DEF Base, TypeOK
<1>2. CASE Answer(r, caught(NotFound)) \/ Answer(r, caught(Unauthorized))
  BY <1>2, Caught, AnswerCurrent DEF find
<1>3. CASE Active(u) /\ req' = [req EXCEPT ![r] = new]
  <2>1. req'[r] = new
    BY <1>1, <1>3 DEF TypeOK
  <2>2. /\ new.pc = "write" /\ new.next = next /\ new.op = req[r].op
        /\ new.userId = u /\ new.roles = req[r].roles
    BY <1>1 DEF Request
  <2>3. UNCHANGED <<email, roles, isActive>>
    BY DEF find, docs
  <2> HIDE DEF new
  <2>4. Knows(r)'
    BY <1>3, <2>1, <2>2, <2>3 DEF Knows, At, Active, Exists
  <2>5. QED
    BY <1>3, <2>4, GoesOnCurrent DEF find
<1>4. QED
  BY <1>2, <1>3 DEF find

LEMMA LoginFindCurrent ==
  ASSUME Base, Current, NEW r \in Requests, loginFind(r)
  PROVE  Current'
<1> DEFINE u == req[r].userId
           new == [req[r] EXCEPT !.pc = "createSession", !.next = roles[u]]
<1>1. TypeOK /\ req[r] \in Request
  BY DEF Base, TypeOK
<1>2. CASE ~Active(u)
  BY <1>2, Caught, AnswerCurrent DEF loginFind
<1>3. CASE Active(u)
  <2>1. req' = [req EXCEPT ![r] = new] /\ req'[r] = new
    BY <1>1, <1>3 DEF loginFind, TypeOK
  <2>2. /\ new.pc = "createSession" /\ new.next = roles[u]
        /\ new.userId = u
    BY <1>1 DEF Request
  <2>3. UNCHANGED <<email, roles, isActive>>
    BY DEF loginFind, docs
  <2> HIDE DEF new
  <2>4. Knows(r)'
    BY <1>3, <2>1, <2>2, <2>3 DEF Knows, At, Active, Exists
  <2>5. QED
    BY <2>1, <2>4, GoesOnCurrent DEF loginFind
<1>4. QED
  BY <1>2, <1>3

\* Nobody has read a document that is only now made.
LEMMA InsertCurrent ==
  ASSUME Base, Current, NEW r \in Requests, insert(r)
  PROVE  Current'
<1>1. TypeOK /\ RequestOK(r) /\ req[r] \in Request
  BY DEF Base, TypeOK
<1>2. PICK u \in Users :
        /\ ~Exists(u)
        /\ IF duplicate(req[r].email, u)
             THEN Answer(r, caught(DuplicateKey)) /\ UNCHANGED docs
             ELSE /\ email' = [email EXCEPT ![u] = req[r].email]
                  /\ roles' = [roles EXCEPT ![u] = req[r].roles]
                  /\ isActive' = [isActive EXCEPT ![u] = TRUE]
                  /\ req' = [req EXCEPT ![r].pc = "reread", ![r].userId = u]
                  /\ Silent
  BY DEF insert
<1>3. CASE duplicate(req[r].email, u)
  BY <1>2, <1>3, Caught, AnswerCurrent DEF insert
<1>4. CASE ~duplicate(req[r].email, u)
  <2>1. /\ req'[r].pc = "reread" /\ req'[r].userId = u
        /\ req'[r].op = req[r].op
        /\ \A q \in Requests \ {r} : req'[q] = req[q]
    BY <1>1, <1>2, <1>4 DEF TypeOK, Request
  <2>2. \A v \in Users \ {u} :
          (Active(v)' <=> Active(v)) /\ roles'[v] = roles[v]
    BY <1>1, <1>2, <1>4 DEF TypeOK, Active, Exists
  <2>3. Active(u)'
    BY <1>1, <1>2, <1>4, AccountsAssumption
       DEF insert, RequestOK, At, TypeOK, Active, Exists
  <2>4. req[r].op \in Creates
    BY <1>1 DEF insert, RequestOK, At
  <2>5. Knows(r)'
    BY <2>1, <2>3, <2>4 DEF Knows, At, Creates, RoleOps
  <2>6. \A q \in Requests : req[q].pc \in Holding => req[q].userId # u
    BY <1>2 DEF Base, RequestOK
  <2>7. ASSUME NEW s \in Sids \ outdated, session[s] # NoSession
        PROVE  session[s].userId # u
    BY <1>2, <2>7 DEF Current, SessionCurrent, Active
  <2>8. UNCHANGED <<session, disturbed, outdated>>
    BY DEF insert, hist
  <2>9. /\ \A q \in Requests \ (disturbed' \cup {r}) : Knows(q)'
        /\ SessionCurrent'
    BY <2>1, <2>2, <2>6, <2>7, <2>8, OthersKnow
  <2>10. QED
    BY <2>5, <2>9 DEF Current
<1>5. QED
  BY <1>3, <1>4

\* Whoever has read the document that r writes is disturbed or outdated.
LEMMA WritesCurrent ==
  ASSUME Base, Current, NEW r \in Requests, NEW over \in SUBSET {r},
         Writes(r, req[r].userId, over), req[r].userId \in Users,
         \A q \in Requests \ {r} : req'[q] = req[q],
         \A v \in Users \ {req[r].userId} :
           (Active(v)' <=> Active(v)) /\ roles'[v] = roles[v],
         UNCHANGED session,
         r \notin disturbed' => Knows(r)'
  PROVE  Current'
<1> DEFINE u == req[r].userId
<1>1. /\ disturbed \ {r} \subseteq disturbed'
      /\ outdated \subseteq outdated'
  BY DEF Writes
<1>2. \A q \in Requests \ (disturbed' \cup {r}) :
        req[q].pc \in Holding => req[q].userId # u
  BY DEF Writes
<1>3. \A s \in Sids \ outdated' : session[s] # NoSession
        => session[s].userId # u
  BY DEF Writes
<1> HIDE DEF u
<1>4. u \in Users /\ \A v \in Users \ {u} :
        (Active(v)' <=> Active(v)) /\ roles'[v] = roles[v]
  BY DEF u
<1>5. /\ \A q \in Requests \ (disturbed' \cup {r}) : Knows(q)'
      /\ SessionCurrent'
  BY <1>1, <1>2, <1>3, <1>4, OthersKnow
<1>6. QED
  BY <1>5 DEF Current

LEMMA WriteRolesCurrent ==
  ASSUME Base, Current, NEW r \in Requests, writeRoles(r)
  PROVE  Current'
<1>1. TypeOK /\ RequestOK(r) /\ req[r] \in Request
  BY DEF Base, TypeOK
<1>2. req[r].userId \in Users
  BY <1>1 DEF writeRoles, RequestOK, At, Holding
<1>3. /\ req'[r].pc = "reread" /\ req'[r].userId = req[r].userId
      /\ req'[r].op = req[r].op /\ req'[r].next = req[r].next
      /\ \A q \in Requests \ {r} : req'[q] = req[q]
  BY <1>1 DEF writeRoles, Goto, TypeOK, Request
<1>4. /\ roles' = [roles EXCEPT ![req[r].userId] = req[r].next]
      /\ UNCHANGED <<email, isActive, session>>
      /\ Writes(r, req[r].userId, {})
  BY DEF writeRoles
<1>5. \A v \in Users \ {req[r].userId} :
        (Active(v)' <=> Active(v)) /\ roles'[v] = roles[v]
  BY <1>1, <1>4 DEF TypeOK, Active, Exists
<1>6. r \notin disturbed' => Knows(r)'
  <2>1. SUFFICES ASSUME r \notin disturbed' PROVE Knows(r)'
    OBVIOUS
  <2>2. Knows(r)
    BY <1>4, <2>1 DEF Writes, Current
  <2>3. Active(req[r].userId) /\ req[r].op \in RoleOps
    BY <2>2 DEF writeRoles, Knows
  <2>4. Active(req[r].userId)' /\ roles'[req[r].userId] = req[r].next
    BY <1>1, <1>2, <1>3, <1>4, <2>3 DEF Active, Exists, TypeOK
  <2>5. QED
    BY <1>3, <1>4, <2>3, <2>4 DEF Knows, At, Active, Exists, RoleOps
<1>7. QED
  BY <1>2, <1>3, <1>4, <1>5, <1>6, WritesCurrent

LEMMA WriteFieldsCurrent ==
  ASSUME Base, Current, NEW r \in Requests, writeFields(r)
  PROVE  Current'
<1>1. TypeOK /\ RequestOK(r) /\ req[r] \in Request
  BY DEF Base, TypeOK
<1>2. req[r].userId \in Users /\ Exists(req[r].userId)
  BY <1>1 DEF writeFields, RequestOK, At, Holding
<1>3. CASE Answer(r, caught(DuplicateKey)) /\ Settles(r) /\ UNCHANGED docs
  BY <1>3, Caught, AnswerCurrent DEF writeFields
<1>4. CASE Goto(r, "reread")
  <2>1. /\ req'[r].pc = "reread" /\ req'[r].op = req[r].op
        /\ \A q \in Requests \ {r} : req'[q] = req[q]
    BY <1>1, <1>4 DEF Goto, TypeOK, Request
  <2>2. Knows(r)'
    BY <2>1 DEF writeFields, Knows, At, Updates, RoleOps
  <2>3. ~Answer(r, caught(DuplicateKey))
    BY <1>1, <2>1, Answered, Caught DEF Idle
  <2>4. /\ email' = [email EXCEPT ![req[r].userId] =
               IF req[r].email = NoEmail THEN email[req[r].userId]
                                         ELSE req[r].email]
        /\ roles' = [roles EXCEPT ![req[r].userId] =
               IF req[r].next = NotGiven THEN roles[req[r].userId]
                                         ELSE req[r].next]
        /\ IF req[r].next = NotGiven THEN UNCHANGED hist
                                    ELSE Writes(r, req[r].userId, {})
        /\ UNCHANGED <<isActive, session>>
    BY <2>3 DEF writeFields
  <2>5. \A v \in Users : Active(v)' <=> Active(v)
    BY <1>1, <1>2, <2>4 DEF TypeOK, Active, Exists
  <2>6. CASE req[r].next = NotGiven
    <3>1. \A v \in Users \ {NoUser} :
            (Active(v)' <=> Active(v)) /\ roles'[v] = roles[v]
      BY <1>1, <2>4, <2>5, <2>6 DEF TypeOK
    <3>2. \A q \in Requests : req[q].pc \in Holding => req[q].userId # NoUser
      BY AccountsAssumption DEF Base, RequestOK
    <3>3. \A s \in Sids : session[s] # NoSession
            => session[s].userId # NoUser
      BY AccountsAssumption DEF Base, SessionsOwned
    <3>4. UNCHANGED <<session, disturbed, outdated>>
      BY <2>4, <2>6 DEF hist
    <3>5. /\ \A q \in Requests \ (disturbed' \cup {r}) : Knows(q)'
          /\ SessionCurrent'
      BY <2>1, <3>1, <3>2, <3>3, <3>4, OthersKnow
    <3>6. QED
      BY <2>2, <3>5 DEF Current
  <2>7. CASE req[r].next # NotGiven
    <3>1. \A v \in Users \ {req[r].userId} :
            (Active(v)' <=> Active(v)) /\ roles'[v] = roles[v]
      BY <1>1, <2>4, <2>5 DEF TypeOK
    <3>2. QED
      BY <1>2, <2>1, <2>2, <2>4, <2>7, <3>1, WritesCurrent
  <2>8. QED
    BY <2>6, <2>7
<1>5. QED
  BY <1>3, <1>4 DEF writeFields

LEMMA WriteDeletedCurrent ==
  ASSUME Base, Current, NEW r \in Requests, writeDeleted(r)
  PROVE  Current'
<1>1. TypeOK /\ RequestOK(r)
  BY DEF Base
<1>2. req[r].userId \in Users
  BY <1>1 DEF writeDeleted, RequestOK, At, Holding
<1>3. Answer(r, success(200)) /\ success(200) \in Response
  BY Succeeded DEF writeDeleted
<1>4. /\ \A q \in Requests \ {r} : req'[q] = req[q]
      /\ req'[r].pc \notin Holding
  BY <1>1, <1>3, Answered DEF Idle, Holding
<1>5. \A v \in Users \ {req[r].userId} :
        (Active(v)' <=> Active(v)) /\ roles'[v] = roles[v]
  BY <1>1 DEF writeDeleted, TypeOK, Active, Exists
<1>6. Writes(r, req[r].userId, {r}) /\ UNCHANGED session
  BY DEF writeDeleted
<1>7. QED
  BY <1>2, <1>4, <1>5, <1>6, KnowsNothing, WritesCurrent

LEMMA RereadCurrent ==
  ASSUME Base, Current, NEW r \in Requests, reread(r)
  PROVE  Current'
<1> DEFINE u == req[r].userId
           new == [req[r] EXCEPT !.pc = "createSession", !.next = roles[u]]
<1>1. TypeOK /\ req[r] \in Request
  BY DEF Base, TypeOK
<1>2. CASE req[r].op # "signup"
  <2>1. PICK x \in Response : Answer(r, x)
    BY <1>1, <1>2, Caught, Succeeded DEF reread, Request
  <2>2. QED
    BY <1>2, <2>1, AnswerCurrent DEF reread
<1>3. CASE req[r].op = "signup"
  <2>1. req' = [req EXCEPT ![r] = new] /\ req'[r] = new
    BY <1>1, <1>3 DEF reread, TypeOK
  <2>2. /\ new.pc = "createSession" /\ new.next = roles[u]
        /\ new.userId = u
    BY <1>1 DEF Request
  <2>3. UNCHANGED <<email, roles, isActive>>
    BY DEF reread, docs
  <2> HIDE DEF new
  <2>4. r \notin disturbed => Active(u)
    BY <1>3 DEF reread, Current, Knows
  <2>5. r \notin disturbed => Knows(r)'
    BY <2>1, <2>2, <2>3, <2>4 DEF Knows, At, Active, Exists
  <2>6. QED
    BY <1>3, <2>1, <2>5, GoesOnCurrent DEF reread
<1>4. QED
  BY <1>2, <1>3

LEMMA CreateSessionCurrent ==
  ASSUME Base, Current, NEW r \in Requests, createSession(r)
  PROVE  Current'
<1> DEFINE u == req[r].userId
<1>1. TypeOK
  BY DEF Base
<1>2. PICK s \in Sids :
        /\ session' = [session EXCEPT ![s] =
             [userId |-> u, roles |-> req[r].next]]
        /\ outdated' = IF r \in disturbed THEN outdated \cup {s} ELSE outdated
  BY DEF createSession
<1>3. Answer(r, success(201)) /\ success(201) \in Response
  BY Succeeded DEF createSession
<1>4. /\ \A q \in Requests \ {r} : req'[q] = req[q]
      /\ req'[r].pc \notin Holding
  BY <1>1, <1>3, Answered DEF Idle, Holding
<1>5. disturbed' = disturbed \ {r} /\ UNCHANGED <<email, roles, isActive>>
  BY DEF createSession, docs
<1>6. ASSUME NEW q \in Requests \ disturbed' PROVE Knows(q)'
  <2>1. CASE q = r
    BY <1>4, <2>1, KnowsNothing
  <2>2. CASE q # r
    <3>1. Knows(q) /\ req'[q] = req[q]
      BY <1>4, <1>5, <2>2 DEF Current
    <3>2. QED
      BY <1>5, <3>1 DEF Knows, At, Active, Exists
  <2>3. QED
    BY <2>1, <2>2
<1>7. ASSUME NEW t \in Sids \ outdated', session'[t] # NoSession
      PROVE  /\ Active(session[t].userId)'
             /\ session'[t].roles = roles'[session'[t].userId]
  <2>1. CASE t = s
    <3>1. r \notin disturbed
      BY <1>2, <1>7, <2>1
    <3>2. Active(u) /\ req[r].next = roles[u]
      BY <3>1 DEF createSession, Current, Knows
    <3>3. session'[t].userId = u /\ session'[t].roles = req[r].next
      BY <1>1, <1>2, <2>1 DEF TypeOK
    <3> HIDE DEF u
    <3>4. QED
      BY <1>5, <3>2, <3>3 DEF Active, Exists
  <2>2. CASE t # s
    <3>1. session'[t] = session[t] /\ t \notin outdated
      BY <1>1, <1>2, <1>7, <2>2 DEF TypeOK
    <3>2. /\ Active(session[t].userId)
          /\ session[t].roles = roles[session[t].userId]
      BY <1>7, <3>1 DEF Current, SessionCurrent
    <3>3. QED
      BY <1>5, <3>1, <3>2 DEF Active, Exists
  <2>3. QED
    BY <2>1, <2>2
<1>8. QED
  BY <1>6, <1>7 DEF Current, SessionCurrent

LEMMA EndSessionCurrent ==
  ASSUME Base, Current, NEW s \in Sids, endSession(s)
  PROVE  Current'
<1>1. /\ session' = [session EXCEPT ![s] = NoSession]
      /\ outdated' = outdated \ {s}
      /\ UNCHANGED <<email, roles, isActive, req, disturbed>>
  BY DEF endSession, docs
<1>2. ASSUME NEW r \in Requests \ disturbed' PROVE Knows(r)'
  BY <1>1 DEF Current, Knows, At, Active, Exists
<1>3. ASSUME NEW t \in Sids \ outdated', session'[t] # NoSession
      PROVE  /\ Active(session[t].userId)'
             /\ session'[t].roles = roles'[session'[t].userId]
  <2>1. session'[t] = session[t] /\ t \notin outdated
    BY <1>1, <1>3 DEF Base, TypeOK
  <2>2. /\ Active(session[t].userId)
        /\ session[t].roles = roles[session[t].userId]
    BY <1>3, <2>1 DEF Current, SessionCurrent
  <2>3. QED
    BY <1>1, <2>1, <2>2 DEF Active, Exists
<1>4. QED
  BY <1>2, <1>3 DEF Current, SessionCurrent

LEMMA CurrentStep == Base /\ Current /\ [Next]_vars => Current'
<1>1. ASSUME Base, Current, Next PROVE Current'
  <2>1. CASE \E r \in Requests : Handle(r) \/ Fail(r)
    BY <1>1, <2>1, LookCurrent, InsertCurrent, FindCurrent,
       WriteRolesCurrent, WriteFieldsCurrent, WriteDeletedCurrent,
       RereadCurrent, LoginFindCurrent, CreateSessionCurrent DEF Handle
  <2>2. CASE \E s \in Sids : endSession(s)
    BY <1>1, <2>2, EndSessionCurrent
  <2>3. QED
    BY <1>1, <2>1, <2>2, ArriveCurrent DEF Next, Op
<1>2. Current /\ UNCHANGED vars => Current'
  BY DEF Current, Knows, SessionCurrent, At, Active, Exists, vars, docs, hist
<1>3. QED
  BY <1>1, <1>2

----------------------------------------------------------------------------
(* Theorems *)

LEMMA InitCurrent == Init => EmailsUnique /\ Current
<1> SUFFICES ASSUME Init PROVE EmailsUnique /\ Current
  OBVIOUS
<1>1. PICK u \in Users, e \in Emails :
        /\ email = [v \in Users |-> IF v = u THEN e ELSE NoEmail]
  BY DEF Init
<1>2. EmailsUnique
  BY <1>1, AccountsAssumption DEF EmailsUnique, Exists
<1>3. Current
  BY DEF Init, Current, Knows, SessionCurrent, Idle, At
<1>4. QED
  BY <1>2, <1>3

\* The strengthening that is inductive. It is needed because what a request
\* stores was decided at an earlier step.
IInv == Base /\ EmailsUnique /\ Current

LEMMA Invariance == Spec => []IInv
<1>1. Init => IInv
  BY InitBase, InitCurrent DEF IInv
<1>2. IInv /\ [Next]_vars => IInv'
  BY NextBase, EmailsStep, CurrentStep DEF IInv
<1>3. QED
  BY <1>1, <1>2, PTL DEF Spec

\* The variables keep their types, whatever requests the endpoints serve.
THEOREM TypeCorrect == Spec => []TypeOK
<1>1. IInv => TypeOK
  BY DEF IInv, Base
<1>2. QED
  BY <1>1, Invariance, PTL

\* No two documents have one email: createUser, createUserManually and
\* updateUser may all pass their checks, and the index refuses.
THEOREM EmailsTheorem == Spec => []EmailsUnique
<1>1. IInv => EmailsUnique
  BY DEF IInv
<1>2. QED
  BY <1>1, Invariance, PTL

\* assignRoles, addRoles and removeRoles are atomic unless another request
\* writes the account between their steps.
THEOREM AtomicTheorem == Spec => []UndisturbedAtomic
<1>1. IInv => UndisturbedAtomic
  BY DEF IInv, Base, TypeOK, Current, Knows, UndisturbedAtomic
<1>2. QED
  BY <1>1, Invariance, PTL

\* The roles that RolesGuard reads from a session are those of the account
\* until the account is written.
THEOREM SessionTheorem == Spec => []SessionCurrent
<1>1. IInv => SessionCurrent
  BY DEF IInv, Current
<1>2. QED
  BY <1>1, Invariance, PTL

\* Only the empty list of a create or an update leaves an account without a
\* role: no interleaving of assignRoles, addRoles and removeRoles does, nor
\* a signup, whatever lists the clients send.
THEOREM RetainsTheorem == Spec => RetainsRole
<1>1. IInv /\ [Next]_vars =>
        [\A u \in Users :
           Exists(u)' /\ roles'[u] = {} /\ ~(Exists(u) /\ roles[u] = {}) =>
             \E r \in Requests :
               /\ req[r].op \in {"createUserManually"} \cup Updates
               /\ req[r].roles = {}
               /\ \/ At(r, "insert") /\ ~Exists(u)
                  \/ At(r, "write") /\ req[r].userId = u]_vars
  BY RetainsStep DEF IInv
<1>2. QED
  BY <1>1, Invariance, PTL DEF Spec, RetainsRole

\* deleteUser is final, whatever requests still write the account.
THEOREM DeletedTheorem == Spec => DeletedStaysDeleted
<1>1. IInv /\ [Next]_vars =>
        [\A u \in Users : Exists(u) /\ ~isActive[u] => ~isActive[u]']_vars
  BY DeletedStep DEF IInv
<1>2. QED
  BY <1>1, Invariance, PTL DEF Spec, DeletedStaysDeleted
=============================================================================
