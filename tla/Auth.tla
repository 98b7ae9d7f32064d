-------------------------------- MODULE Auth --------------------------------
(***************************************************************************)
(* AuthService, SessionService, SessionAuthGuard and the account writes of *)
(* UsersService, as requests that run concurrently on the Node event loop. *)
(* An action is the code from one awaited Redis or MongoDB call that       *)
(* touches shared state to the next; between two actions of a request any  *)
(* other request may run, and Redis may expire keys.                       *)
(*                                                                         *)
(* A call may fail (Fail), which ends the request with an error response;  *)
(* a crash of the process is a failure of every request in flight.         *)
(*                                                                         *)
(* Passwords are terms: [secret |-> p, rounds |-> n] is p hashed n times.  *)
(***************************************************************************)
EXTENDS SessionStore

CONSTANTS Requests,   \* bound: requests served at the same time
          Passwords,  \* plain passwords
          NoPassword, \* the password of an account that does not exist
          Offered     \* the operations clients call in this model

ASSUME AuthAssumption ==
  /\ NoPassword \notin Passwords
  /\ Offered \subseteq {"signup", "login", "access", "logout",
                        "changePassword", "updateProfile", "deleteUser"}

VARIABLES status,     \* status[u]: the account's document in MongoDB
          password,   \* password[u]: its password column
          req,        \* req[r]: the request in slot r
          \* History, read by properties only:
          owner,      \* owner[s]: whom session id s was issued to
          overlapped, \* sessions a key of which was removed while a request
                      \* was about to write that session's keys
          torn        \* sessions whose writer failed between its two keys

db   == <<status, password>>
hist == <<owner, overlapped, torn>>
vars == <<redis, db, req, hist>>

----------------------------------------------------------------------------
(* Types *)

\* Operations behind SessionAuthGuard; "access" is any endpoint whose
\* handler touches neither sessions nor accounts.
Guarded == {"access", "logout", "changePassword", "updateProfile"}

Step == {"idle", "createPut", "createTrack", "guardGet", "extendGet",
         "extendPut", "extendTrack", "destroyGet", "destroyDel",
         "destroyUntrack", "findUser", "updateFind", "updateWrite", "scan",
         "invalidateDel", "invalidateUntrack"}

Password == [secret : Passwords \cup {NoPassword}, rounds : 0..2]

Request ==
  [pc     : Step,
   op     : Guarded \cup {"signup", "login"},
   sid    : Sids \cup {0},           \* the session at hand
   userId : Users \cup {NoUser},
   secret : Password,                \* the password in the request
   keys   : SUBSET Sids,             \* SCAN results still to be deleted
   cursor : 0..MaxSid,
   goal   : SUBSET Sids]             \* history: the sessions to invalidate

Blank == [secret |-> NoPassword, rounds |-> 0]

Idle == [pc |-> "idle", op |-> "access", sid |-> 0, userId |-> NoUser,
         secret |-> Blank, keys |-> {}, cursor |-> 0, goal |-> {}]

TypeOK ==
  /\ StoreTypeOK
  /\ status \in [Users -> {"none", "active", "deleted"}]
  /\ password \in [Users -> Password]
  /\ req \in [Requests -> Request]
  /\ owner \in [Sids -> Users \cup {NoUser}]
  /\ overlapped \subseteq Sids
  /\ torn \subseteq Sids

Init ==
  /\ StoreInit
  /\ status = [u \in Users |-> "none"]
  /\ password = [u \in Users |-> Blank]
  /\ req = [r \in Requests |-> Idle]
  /\ owner = [s \in Sids |-> NoUser]
  /\ overlapped = {}
  /\ torn = {}

----------------------------------------------------------------------------
(* Helpers *)

plain(p) == [secret |-> p, rounds |-> 0]

\* EncryptService.hash and compareHash.
hash(x) == [x EXCEPT !.rounds = @ + 1]

compareHash(stored, given) == stored = hash(given)

At(r, step) == req[r].pc = step

Goto(r, step) == req' = [req EXCEPT ![r].pc = step]

Finish(r) == req' = [req EXCEPT ![r] = Idle]

\* Between the first and the second setex of createSession or extendSession.
Between(r, s) ==
  /\ req[r].sid = s
  /\ req[r].pc \in {"createTrack", "extendTrack"}

\* A request holds data of session s that it is about to write to Redis.
Writing(r, s) ==
  \/ Between(r, s)
  \/ req[r].sid = s /\ req[r].pc = "extendPut"

Written(s) == \E r \in Requests : Writing(r, s)

\* History: a key of each session in S is being removed.
Removed(S) == overlapped' = overlapped \cup {s \in S : Written(s)}

\* A session id is left for one more createSession (bound MaxSid).
FreshSid ==
  Cardinality({r \in Requests : At(r, "createPut")})
    < Cardinality({s \in Sids : owner[s] = NoUser})

----------------------------------------------------------------------------
(* AuthService.signup and login, SessionService.createSession *)

\* signup: a new account with the password hashed once; the session comes
\* next. (Two signups racing for one email are two user ids here.)
signup(r, u, p) ==
  /\ At(r, "idle") /\ "signup" \in Offered /\ FreshSid
  /\ status[u] = "none"
  /\ status' = [status EXCEPT ![u] = "active"]
  /\ password' = [password EXCEPT ![u] = hash(plain(p))]
  /\ req' = [req EXCEPT ![r] = [Idle EXCEPT !.pc = "createPut",
                                            !.op = "signup",
                                            !.userId = u,
                                            !.secret = plain(p)]]
  /\ UNCHANGED <<redis, hist>>

\* login: the account is read, its hash compared; a wrong password or an
\* unknown or deleted account is a 401 that changes nothing.
login(r, u, p) ==
  /\ At(r, "idle") /\ "login" \in Offered /\ FreshSid
  /\ status[u] = "active"
  /\ compareHash(password[u], plain(p))
  /\ req' = [req EXCEPT ![r] = [Idle EXCEPT !.pc = "createPut",
                                            !.op = "login",
                                            !.userId = u,
                                            !.secret = plain(p)]]
  /\ UNCHANGED <<redis, db, hist>>

\* Mutant: the id drawn may be that of an earlier session.
createPutReused(r) ==
  /\ At(r, "createPut")
  /\ \E s \in {t \in Sids : ~Live(t)} :
       /\ setexSession(s, req[r].userId)
       /\ owner' = [owner EXCEPT ![s] = req[r].userId]
       /\ req' = [req EXCEPT ![r].pc = "createTrack", ![r].sid = s]
  /\ UNCHANGED <<track, db, overlapped, torn>>

\* createSession, first setex: a fresh uuid and the session key.
createPut(r) ==
  /\ At(r, "createPut")
  /\ \E s \in {t \in Sids : owner[t] = NoUser} :
       /\ setexSession(s, req[r].userId)
       /\ owner' = [owner EXCEPT ![s] = req[r].userId]
       /\ req' = [req EXCEPT ![r].pc = "createTrack", ![r].sid = s]
  /\ UNCHANGED <<track, db, overlapped, torn>>

\* createSession, second setex: the tracking key; the cookie goes out.
createTrack(r) ==
  /\ At(r, "createTrack")
  /\ setexTracking(req[r].userId, req[r].sid)
  /\ Finish(r)
  /\ UNCHANGED <<session, db, hist>>

----------------------------------------------------------------------------
(* SessionAuthGuard.canActivate, SessionService.extendSession *)

\* A request arrives at a guarded endpoint with the cookie of session s,
\* and, where the endpoint takes one, a new password.
Arrive(r, op, s, p) ==
  /\ At(r, "idle") /\ op \in Offered
  /\ owner[s] # NoUser
  /\ op \in {"access", "logout"} => p = NoPassword
  /\ op \notin {"access", "logout"} => p # NoPassword
  /\ req' = [req EXCEPT ![r] = [Idle EXCEPT !.pc = "guardGet",
                                            !.op = op,
                                            !.sid = s,
                                            !.secret = plain(p)]]
  /\ UNCHANGED <<redis, db, hist>>

\* The guard's own getSession: a missing session is a 401.
guardGet(r) ==
  /\ At(r, "guardGet")
  /\ IF Live(req[r].sid) THEN Goto(r, "extendGet") ELSE Finish(r)
  /\ UNCHANGED <<redis, db, hist>>

\* Mutant: extendSession trusts the session the guard has read.
extendGetUnchecked(r) ==
  /\ At(r, "extendGet")
  /\ req' = [req EXCEPT ![r].pc = "extendPut",
                        ![r].userId = owner[req[r].sid]]
  /\ UNCHANGED <<redis, db, hist>>

\* extendSession reads the session a second time.
extendGet(r) ==
  /\ At(r, "extendGet")
  /\ IF Live(req[r].sid)
       THEN req' = [req EXCEPT ![r].pc = "extendPut",
                               ![r].userId = session[req[r].sid].userId]
       ELSE Finish(r)
  /\ UNCHANGED <<redis, db, hist>>

\* ... and writes it back with a fresh ttl, whatever happened meanwhile.
extendPut(r) ==
  /\ At(r, "extendPut")
  /\ setexSession(req[r].sid, req[r].userId)
  /\ Goto(r, "extendTrack")
  /\ UNCHANGED <<track, db, hist>>

\* Mutant: the tracking key keeps its old time to live.
extendTrackStale(r) ==
  /\ At(r, "extendTrack")
  /\ CASE req[r].op = "logout" -> Goto(r, "destroyGet")
       [] req[r].op = "changePassword" -> Goto(r, "findUser")
       [] req[r].op = "updateProfile" -> Goto(r, "updateFind")
       [] OTHER -> Finish(r)
  /\ UNCHANGED <<redis, db, hist>>

\* The tracking key; then the guard lets the request through to its handler.
extendTrack(r) ==
  /\ At(r, "extendTrack")
  /\ setexTracking(req[r].userId, req[r].sid)
  /\ CASE req[r].op = "logout" -> Goto(r, "destroyGet")
       [] req[r].op = "changePassword" -> Goto(r, "findUser")
       [] req[r].op = "updateProfile" -> Goto(r, "updateFind")
       [] OTHER -> Finish(r)
  /\ UNCHANGED <<session, db, hist>>

----------------------------------------------------------------------------
(* AuthService.logout, SessionService.destroySession *)

destroyGet(r) ==
  /\ At(r, "destroyGet")
  /\ IF Live(req[r].sid)
       THEN req' = [req EXCEPT ![r].pc = "destroyDel",
                               ![r].userId = session[req[r].sid].userId]
       ELSE Finish(r)
  /\ UNCHANGED <<redis, db, hist>>

destroyDel(r) ==
  /\ At(r, "destroyDel")
  /\ delSession(req[r].sid)
  /\ Removed({req[r].sid})
  /\ Goto(r, "destroyUntrack")
  /\ UNCHANGED <<track, db, owner, torn>>

destroyUntrack(r) ==
  /\ At(r, "destroyUntrack")
  /\ delTracking(req[r].userId, req[r].sid)
  /\ Removed({req[r].sid})
  /\ Finish(r)
  /\ UNCHANGED <<session, db, owner, torn>>

----------------------------------------------------------------------------
(* AuthService.changePassword, UsersService.updateUser and deleteUser *)

\* changePassword finds the account, checks the old password (old) and
\* hashes the new one; otherwise it answers with an error.
findUser(r) ==
  /\ At(r, "findUser")
  /\ \/ /\ status[req[r].userId] = "active"
        /\ \E old \in Passwords :
             compareHash(password[req[r].userId], plain(old))
        /\ req' = [req EXCEPT ![r].pc = "updateFind", ![r].secret = hash(@)]
     \/ Finish(r)
  /\ UNCHANGED <<redis, db, hist>>

\* updateUser: the account must be active ...
updateFind(r) ==
  /\ At(r, "updateFind")
  /\ IF status[req[r].userId] = "active"
       THEN Goto(r, "updateWrite") ELSE Finish(r)
  /\ UNCHANGED <<redis, db, hist>>

\* ... and it hashes the password it is given and stores it. changePassword
\* goes on to invalidateUserSessions.
updateWrite(r) ==
  LET u == req[r].userId IN
  /\ At(r, "updateWrite")
  /\ password' = [password EXCEPT ![u] = hash(req[r].secret)]
  /\ IF req[r].op = "changePassword"
       THEN req' = [req EXCEPT
              ![r].pc = "scan",
              ![r].goal = {s \in Sids : /\ Live(s)
                                        /\ session[s].userId = u
                                        /\ Tracked(u, s)}]
       ELSE Finish(r)
  /\ UNCHANGED <<redis, status, hist>>

\* DELETE /users/delete/:id by an administrator: a soft delete.
deleteUser(u) ==
  /\ "deleteUser" \in Offered
  /\ status[u] = "active"
  /\ status' = [status EXCEPT ![u] = "deleted"]
  /\ UNCHANGED <<redis, password, req, hist>>

----------------------------------------------------------------------------
(* SessionService.invalidateUserSessions *)

\* Mutant: the cursor, a string, is compared with the number 0.
ResumeForever(r, keys, cursor) ==
  req' = [req EXCEPT ![r] =
    IF keys # {} THEN [@ EXCEPT !.pc = "invalidateDel",
                                !.keys = keys, !.cursor = cursor]
    ELSE [@ EXCEPT !.pc = "scan", !.keys = {}, !.cursor = cursor]]

\* The do-while loop: more keys of this batch, another SCAN, or the end.
Resume(r, keys, cursor) ==
  req' = [req EXCEPT ![r] =
    IF keys # {} THEN [@ EXCEPT !.pc = "invalidateDel",
                                !.keys = keys, !.cursor = cursor]
    ELSE IF cursor # 0 THEN [@ EXCEPT !.pc = "scan",
                                      !.keys = {}, !.cursor = cursor]
    ELSE Idle]

scan(r) ==
  /\ At(r, "scan")
  /\ Resume(r, scanKeys(req[r].userId, req[r].cursor),
               scanCursor(req[r].cursor))
  /\ UNCHANGED <<redis, db, hist>>

invalidateDel(r) ==
  /\ At(r, "invalidateDel")
  /\ \E s \in req[r].keys :
       /\ delSession(s)
       /\ Removed({s})
       /\ req' = [req EXCEPT ![r].pc = "invalidateUntrack", ![r].sid = s]
  /\ UNCHANGED <<track, db, owner, torn>>

invalidateUntrack(r) ==
  /\ At(r, "invalidateUntrack")
  /\ delTracking(req[r].userId, req[r].sid)
  /\ Removed({req[r].sid})
  /\ Resume(r, req[r].keys \ {req[r].sid}, req[r].cursor)
  /\ UNCHANGED <<session, db, owner, torn>>

----------------------------------------------------------------------------
(* The environment, and the specification *)

\* The call a request waits for is rejected: every handler answers with an
\* error and undoes nothing.
Fail(r) ==
  /\ ~At(r, "idle")
  /\ torn' = torn \cup {s \in Sids : Between(r, s)}
  /\ Finish(r)
  /\ UNCHANGED <<redis, db, owner, overlapped>>

\* Time passes.
Tick ==
  /\ \E s \in Sids : Live(s) \/ \E u \in Users : Tracked(u, s)
  /\ Expire
  /\ Removed({s \in Sids : \/ session[s].ttl = 1
                           \/ \E u \in Users : track[u][s] = 1})
  /\ UNCHANGED <<db, req, owner, torn>>

Handle(r) ==
  \/ createPut(r) \/ createTrack(r)
  \/ guardGet(r) \/ extendGet(r) \/ extendPut(r) \/ extendTrack(r)
  \/ destroyGet(r) \/ destroyDel(r) \/ destroyUntrack(r)
  \/ findUser(r) \/ updateFind(r) \/ updateWrite(r)
  \/ scan(r) \/ invalidateDel(r) \/ invalidateUntrack(r)

Next ==
  \/ \E r \in Requests :
       \/ \E u \in Users, p \in Passwords : signup(r, u, p) \/ login(r, u, p)
       \/ \E op \in Guarded, s \in Sids, p \in Passwords \cup {NoPassword} :
            Arrive(r, op, s, p)
       \/ Handle(r)
       \/ Fail(r)
  \/ \E u \in Users : deleteUser(u)
  \/ Tick

Spec == Init /\ [][Next]_vars

\* Node runs every request that can go on, and Redis and MongoDB answer or
\* reject every call. Clients owe nothing.
FairSpec == Spec /\ \A r \in Requests : WF_vars(Handle(r) \/ Fail(r))

----------------------------------------------------------------------------
(* Properties *)

\* r's invalidateUserSessions returns: its last key is gone and the walk is
\* over. (A failed one is recognised by what it leaves undone.)
Invalidated(r) ==
  /\ req[r].op = "changePassword"
  /\ req'[r] = Idle
  /\ scan(r) \/ invalidateUntrack(r)

\* createSession, extendSession and the deletions keep this: a live session
\* has a tracking key that lasts at least as long as it, so that
\* invalidateUserSessions can find it, unless a request is between its two
\* writes, a write failed between the two, or a deletion or expiry hit a
\* session that was being written back.
SessionsTracked ==
  \A s \in Sids \ (overlapped \cup torn) :
    Live(s) => \/ \E r \in Requests : Between(r, s)
               \/ track[session[s].userId][s] >= session[s].ttl

\* A session belongs to the user it was issued to, in the session key and
\* in the tracking key, however often it was written back.
SessionsOwned ==
  \A s \in Sids :
    /\ Live(s) => session[s].userId = owner[s]
    /\ \A u \in Users : Tracked(u, s) => u = owner[s]

\* Logout, invalidation and expiry are final for a session no write-back of
\* which was under way when its key went: it is never there again.
NoResurrection ==
  [][\A s \in Sids \ overlapped :
       ~Live(s) /\ Live(s)' => owner[s] = NoUser]_vars

\* The life of each session id as SessionLife sees it.
life == [s \in Sids |-> CASE s \in overlapped -> "contested"
                          [] s \notin overlapped /\ Live(s) -> "live"
                          [] OTHER -> IF owner[s] = NoUser THEN "unborn"
                                      ELSE "ended"]

Life == INSTANCE SessionLife

\* The service implements the life cycle of SessionLife: created once, ended
\* once, and contested only by a removal that meets a write-back while the
\* session is live.
ImplementsSessionLife == Life!Spec

\* When invalidateUserSessions returns, every session of the user that was
\* there when the password was stored is gone, with the exceptions of
\* SessionsTracked, though keys came and went during the SCAN loop.
InvalidationComplete ==
  [][\A r \in Requests : Invalidated(r) =>
       \A s \in req[r].goal \ (overlapped' \cup torn) : ~Live(s)']_vars

\* invalidateUserSessions of one user never takes another user's session
\* away: the pattern of its SCAN and the keys it splits agree with the owner.
InvalidationSelective ==
  [][\A r \in Requests :
       invalidateDel(r) => owner[req'[r].sid] = req[r].userId]_vars

\* Every request gets an answer; the do-while loop over SCAN ends.
RequestsAnswered ==
  \A r \in Requests : ~At(r, "idle") ~> At(r, "idle")

\* The longest way from a step to the loop or to the answer.
stage ==
  [createPut |-> 2, createTrack |-> 1, guardGet |-> 7, extendGet |-> 6,
   extendPut |-> 5, extendTrack |-> 4, destroyGet |-> 3, destroyDel |-> 2,
   destroyUntrack |-> 1, findUser |-> 3, updateFind |-> 2, updateWrite |-> 1]

\* The calls request r may still wait for: those up to the loop or the
\* answer, and in the loop one SCAN for each bucket left, and two deletions
\* for each key.
loopCalls(cursor) == 3 * (MaxSid - cursor) + 1

Calls(r) ==
  LET rest == IF req[r].cursor = 0 THEN 0 ELSE loopCalls(req[r].cursor) IN
  CASE At(r, "idle") -> 0
    [] At(r, "scan") -> loopCalls(req[r].cursor)
    [] At(r, "invalidateDel") -> 2 * Cardinality(req[r].keys) + rest
    [] At(r, "invalidateUntrack") -> 2 * Cardinality(req[r].keys) - 1 + rest
    [] OTHER -> stage[req[r].pc] + loopCalls(0)

\* Whatever other requests do to the keys that SCAN walks over, each call
\* brings a request nearer to its answer, and nobody else's sets it back: an
\* answer takes at most 8 calls and three for each bucket.
RequestsAdvance ==
  [][\A r \in Requests : ~At(r, "idle") =>
       IF Handle(r) \/ Fail(r) THEN Calls(r)' \in 0 .. (Calls(r) - 1)
                              ELSE Calls(r)' = Calls(r)]_vars

\* Session s has been issued, and no request has it at hand.
Unused(s) == owner[s] # NoUser /\ \A r \in Requests : req[r].sid # s

\* The keys of session s get no more time in this step.
NoLonger(s) ==
  /\ session'[s].ttl <= session[s].ttl
  /\ \A u \in Users : track'[u][s] <= track[u][s]

\* The keys of session s that are there get less time in this step.
Shorter(s) ==
  /\ Live(s) => session'[s].ttl < session[s].ttl
  /\ \A u \in Users : Tracked(u, s) => track'[u][s] < track[u][s]

\* Only a request that has a session at hand gives its keys more time: both
\* keys of an unused one age at every tick, whatever requests do to other
\* sessions and whatever a logout or an invalidation that raced or failed half
\* way has left of the two. So SessionTimeout ticks after its last use a
\* session is gone, tracking key included.
UnusedSessionsAge ==
  [][/\ \A s \in Sids : Unused(s) => NoLonger(s)
     /\ Tick => \A s \in Sids : Shorter(s)]_vars

\* "Invalidates all sessions when password changes": when changePassword
\* returns, no session the user had before is left.
PasswordChangeInvalidates ==
  [][\A r \in Requests : Invalidated(r) =>
       \A s \in req[r].goal : ~Live(s)']_vars

\* "Password changed successfully. Please login again.": when changePassword
\* returns, one login with the new password would succeed.
NewPasswordWorks ==
  [][\A r \in Requests : Invalidated(r) =>
       \E p \in Passwords :
         compareHash(password[req[r].userId], plain(p))]_vars
=============================================================================
