------------------------------ MODULE AuthProofs ------------------------------
(***************************************************************************)
(* Proofs about Auth, for every number of users, sessions and requests,    *)
(* every session timeout and every SCAN batch size.                        *)
(***************************************************************************)
EXTENDS Auth, FiniteSetTheorems, TLAPS

\* What a request knows about its session and user at each step.
RequestOK(r) ==
  /\ req[r].pc \in {"guardGet", "extendGet", "destroyGet"} =>
       req[r].sid \in Sids /\ owner[req[r].sid] # NoUser
  /\ req[r].pc \in {"createTrack", "extendPut", "extendTrack", "destroyDel",
                    "destroyUntrack", "invalidateUntrack"} =>
       req[r].sid \in Sids /\ owner[req[r].sid] = req[r].userId
  /\ req[r].pc \notin {"idle", "guardGet", "extendGet"} =>
       req[r].userId \in Users
  /\ \A s \in req[r].keys \cup req[r].goal : owner[s] = req[r].userId
  /\ req[r].pc \notin {"scan", "invalidateDel", "invalidateUntrack"} =>
       req[r].goal = {} /\ req[r].keys = {} /\ req[r].cursor = 0

\* Only updateUser is handed a hash to hash again.
SecretOK(r) ==
  /\ req[r].secret.rounds <= 1
  /\ req[r].pc \notin {"updateFind", "updateWrite", "scan", "invalidateDel",
                       "invalidateUntrack"} => req[r].secret.rounds = 0

\* A request about to write a session back, or half way through, has not
\* seen the session's end, unless the end has been recorded.
WriterSeesEnd ==
  \A r \in Requests, s \in Sids \ overlapped : Writing(r, s) => Live(s)

\* A request about to delete a tracking key has deleted the session.
UntrackAfterDel ==
  \A r \in Requests :
    /\ req[r].pc \in {"destroyUntrack", "invalidateUntrack"}
    /\ req[r].sid \notin overlapped
    => ~Live(req[r].sid)

\* What a request's loop over SCAN still has to do: a session to be
\* invalidated is gone, or among the keys at hand, or in a bucket ahead.
Ahead(r, s) ==
  CASE req[r].pc = "scan" -> s > req[r].cursor
    [] req[r].pc \in {"invalidateDel", "invalidateUntrack"} ->
         s \in req[r].keys \/ (req[r].cursor # 0 /\ s > req[r].cursor)
    [] OTHER -> TRUE

ScanOK ==
  \A r \in Requests : \A s \in req[r].goal \ (overlapped \cup torn) :
    Live(s) => Tracked(req[r].userId, s) /\ Ahead(r, s)

\* Sessions and their users.
LiveOwned == \A s \in Sids : Live(s) => session[s].userId \in Users

\* Only an issued session is ever contested.
OverlappedIssued == \A s \in overlapped : owner[s] # NoUser

IInv ==
  /\ TypeOK
  /\ OverlappedIssued
  /\ LiveOwned
  /\ SessionsOwned
  /\ \A r \in Requests : RequestOK(r) /\ SecretOK(r)
  /\ WriterSeesEnd
  /\ UntrackAfterDel
  /\ SessionsTracked
  /\ ScanOK

----------------------------------------------------------------------------

\* An idle request slot is a well-formed request.
LEMMA IdleType == Idle \in Request
  BY StoreAssumption DEF Idle, Request, Blank, Password, Step, Guarded

\* The value of a key that Redis does not hold is well-formed.
LEMMA AbsentType == Absent \in ISessionData
  BY StoreAssumption DEF Absent, ISessionData, Ttl

\* What Removed records are sessions.
LEMMA RemovedType ==
  ASSUME NEW S \in SUBSET Sids, overlapped \subseteq Sids, Removed(S)
  PROVE  overlapped' \subseteq Sids
  BY DEF Removed

\* Writing and deleting a tracking key.
LEMMA TrackType ==
  ASSUME StoreTypeOK, NEW u \in Users, NEW s \in Sids,
         setexTracking(u, s) \/ delTracking(u, s)
  PROVE  track' \in [Users -> [Sids -> Ttl]]
<1>1. SessionTimeout \in Ttl /\ 0 \in Ttl
  BY StoreAssumption DEF Ttl
<1>2. \A t \in Ttl : [track[u] EXCEPT ![s] = t] \in [Sids -> Ttl]
  BY DEF StoreTypeOK
<1> QED
  BY <1>1, <1>2 DEF StoreTypeOK, setexTracking, delTracking

\* SCAN returns sessions and a cursor within the buckets.
LEMMA ScanType ==
  ASSUME NEW u \in Users, NEW c \in 0..MaxSid
  PROVE  scanKeys(u, c) \subseteq Sids /\ scanCursor(c) \in 0..MaxSid
  BY StoreAssumption DEF scanKeys, scanCursor, Sids

\* The loop of invalidateUserSessions leaves a well-formed request.
LEMMA ResumeType ==
  ASSUME NEW r \in Requests, req \in [Requests -> Request],
         NEW K \in SUBSET Sids, NEW c \in 0..MaxSid, Resume(r, K, c)
  PROVE  req' \in [Requests -> Request]
<1>1. /\ [req[r] EXCEPT !.pc = "invalidateDel", !.keys = K, !.cursor = c]
           \in Request
      /\ [req[r] EXCEPT !.pc = "scan", !.keys = {}, !.cursor = c] \in Request
  BY ZenonT(60) DEF Request, Step
<1> QED
  BY <1>1, IdleType DEF Resume

\* Going on to another step, and ending, leave a well-formed request.
LEMMA GotoType ==
  ASSUME NEW r \in Requests, req \in [Requests -> Request],
         NEW step \in Step, Goto(r, step)
  PROVE  req' \in [Requests -> Request]
<1>1. [req[r] EXCEPT !.pc = step] \in Request
  BY DEF Request
<1> QED
  BY <1>1 DEF Goto

LEMMA FinishType ==
  ASSUME NEW r \in Requests, req \in [Requests -> Request], Finish(r)
  PROVE  req' \in [Requests -> Request]
  BY IdleType DEF Finish

\* A step that changes the requests only keeps the types of the rest.
LEMMA RequestOnlyType ==
  ASSUME TypeOK, UNCHANGED <<redis, db, hist>>, req' \in [Requests -> Request]
  PROVE  TypeOK'
  BY DEF TypeOK, StoreTypeOK, redis, db, hist

\* Type correctness of each step, from what IInv says of the request.
LEMMA TypeStep == IInv /\ [Next]_vars => TypeOK'
<1> SUFFICES ASSUME IInv, [Next]_vars PROVE TypeOK'
  OBVIOUS
<1> USE StoreAssumption, AuthAssumption, IdleType
<1>0. TypeOK /\ \A r \in Requests : RequestOK(r) /\ SecretOK(r)
  BY DEF IInv
<1>1. CASE UNCHANGED vars
  BY <1>0, <1>1 DEF vars, redis, db, hist, TypeOK, StoreTypeOK
<1>2. ASSUME NEW r \in Requests, NEW u \in Users, NEW p \in Passwords,
             signup(r, u, p)
      PROVE  TypeOK'
  <2>1. hash(plain(p)) \in Password
    BY DEF hash, plain, Password
  <2>2. [Idle EXCEPT !.pc = "createPut", !.op = "signup", !.userId = u,
                     !.secret = plain(p)] \in Request
    BY DEF Idle, Blank, Request, plain, Password, Step, Guarded
  <2> QED
    BY <1>0, <1>2, <2>1, <2>2 DEF signup, TypeOK, StoreTypeOK, redis, hist
<1>3. ASSUME NEW r \in Requests, NEW u \in Users, NEW p \in Passwords,
             login(r, u, p)
      PROVE  TypeOK'
  <2>1. [Idle EXCEPT !.pc = "createPut", !.op = "login", !.userId = u,
                     !.secret = plain(p)] \in Request
    BY DEF Idle, Blank, Request, plain, Password, Step, Guarded
  <2> QED
    BY <1>0, <1>3, <2>1 DEF login, TypeOK, StoreTypeOK, redis, db, hist
<1>4. ASSUME NEW r \in Requests, NEW op \in Guarded, NEW s \in Sids,
             NEW p \in Passwords \cup {NoPassword}, Arrive(r, op, s, p)
      PROVE  TypeOK'
  <2>1. [Idle EXCEPT !.pc = "guardGet", !.op = op, !.sid = s,
                     !.secret = plain(p)] \in Request
    BY DEF Idle, Blank, Request, plain, Password, Step, Guarded
  <2> QED
    BY <1>0, <1>4, <2>1 DEF Arrive, TypeOK, StoreTypeOK, redis, db, hist
<1>5. ASSUME NEW r \in Requests, createPut(r) PROVE TypeOK'
  <2> PICK s \in Sids : createPut(r)!2!(s)
    BY <1>5 DEF createPut
  <2>1. req[r].userId \in Users
    BY <1>0, <1>5 DEF RequestOK, createPut, At
  <2>2. [req[r] EXCEPT !.pc = "createTrack", !.sid = s] \in Request
    BY ZenonT(60), <1>0 DEF TypeOK, Request, Step
  <2> QED
    BY <1>0, <1>5, <2>1, <2>2
    DEF createPut, TypeOK, StoreTypeOK, db, setexSession, ISessionData, Ttl
<1>6. ASSUME NEW r \in Requests, createTrack(r) PROVE TypeOK'
  <2>1. req[r].userId \in Users /\ req[r].sid \in Sids
    BY <1>0, <1>6 DEF RequestOK, createTrack, At
  <2> QED
    BY <1>0, <1>6, <2>1, TrackType
    DEF createTrack, TypeOK, StoreTypeOK, db, hist, Finish
<1>7. ASSUME NEW r \in Requests, guardGet(r) \/ updateFind(r) PROVE TypeOK'
  <2>1. "extendGet" \in Step /\ "updateWrite" \in Step
    BY DEF Step
  <2>2. Goto(r, "extendGet") \/ Goto(r, "updateWrite") \/ Finish(r)
    BY <1>7 DEF guardGet, updateFind
  <2>3. req' \in [Requests -> Request]
    BY <1>0, <2>1, <2>2, GotoType, FinishType DEF TypeOK
  <2>4. UNCHANGED <<redis, db, hist>>
    BY <1>7 DEF guardGet, updateFind
  <2> QED
    BY <1>0, <2>3, <2>4, RequestOnlyType
<1>8. ASSUME NEW r \in Requests, extendGet(r) \/ destroyGet(r) PROVE TypeOK'
  <2>1. req[r].sid \in Sids
    BY <1>0, <1>8 DEF RequestOK, extendGet, destroyGet, At
  <2>2. session[req[r].sid].userId \in Users \cup {NoUser}
    BY <1>0, <2>1 DEF TypeOK, StoreTypeOK, ISessionData
  <2>3. /\ [req[r] EXCEPT !.pc = "extendPut",
                          !.userId = session[req[r].sid].userId] \in Request
        /\ [req[r] EXCEPT !.pc = "destroyDel",
                          !.userId = session[req[r].sid].userId] \in Request
    BY ZenonT(60), <1>0, <2>2 DEF TypeOK, Request, Step
  <2> QED
    BY ZenonT(60), <1>0, <1>8, <2>3
    DEF extendGet, destroyGet, TypeOK, StoreTypeOK, redis, db, hist, Finish
<1>9. ASSUME NEW r \in Requests, extendPut(r) PROVE TypeOK'
  <2>1. req[r].userId \in Users /\ req[r].sid \in Sids
    BY <1>0, <1>9 DEF RequestOK, extendPut, At
  <2>2. [req[r] EXCEPT !.pc = "extendTrack"] \in Request
    BY <1>0 DEF TypeOK, Request, Step
  <2> QED
    BY <1>0, <1>9, <2>1, <2>2
    DEF extendPut, TypeOK, StoreTypeOK, db, hist, setexSession,
        ISessionData, Ttl, Goto
<1>10. ASSUME NEW r \in Requests, extendTrack(r) PROVE TypeOK'
  <2>0. req[r].userId \in Users /\ req[r].sid \in Sids
    BY <1>0, <1>10 DEF RequestOK, extendTrack, At
  <2>1. /\ [req[r] EXCEPT !.pc = "destroyGet"] \in Request
        /\ [req[r] EXCEPT !.pc = "findUser"] \in Request
        /\ [req[r] EXCEPT !.pc = "updateFind"] \in Request
    BY <1>0 DEF TypeOK, Request, Step
  <2>2. req' \in [Requests -> Request]
    BY <1>0, <1>10, <2>1 DEF extendTrack, TypeOK, Goto, Finish
  <2> QED
    BY <1>0, <1>10, <2>0, <2>2, TrackType
    DEF extendTrack, TypeOK, StoreTypeOK, db, hist
<1>11. ASSUME NEW r \in Requests, destroyDel(r) PROVE TypeOK'
  <2>0. req[r].sid \in Sids
    BY <1>0, <1>11 DEF RequestOK, destroyDel, At
  <2>1. [req[r] EXCEPT !.pc = "destroyUntrack"] \in Request
    BY <1>0 DEF TypeOK, Request, Step
  <2> QED
    BY <1>0, <1>11, <2>0, <2>1, AbsentType, RemovedType
    DEF destroyDel, TypeOK, StoreTypeOK, db, delSession, Goto
<1>12. ASSUME NEW r \in Requests, destroyUntrack(r) PROVE TypeOK'
  <2>1. req[r].userId \in Users /\ req[r].sid \in Sids
    BY <1>0, <1>12 DEF RequestOK, destroyUntrack, At
  <2> QED
    BY <1>0, <1>12, <2>1, TrackType, RemovedType
    DEF destroyUntrack, TypeOK, StoreTypeOK, db, Finish
<1>13. ASSUME NEW r \in Requests, findUser(r) PROVE TypeOK'
  <2>1. hash(req[r].secret) \in Password
    BY <1>0, <1>13 DEF SecretOK, findUser, At, hash, TypeOK, Request, Password
  <2> DEFINE h == hash(req[r].secret)
  <2>2. [req[r] EXCEPT !.pc = "updateFind", !.secret = h] \in Request
    BY ZenonT(60), <1>0, <2>1 DEF TypeOK, Request, Step
  <2>3. \/ Finish(r)
        \/ req' = [req EXCEPT ![r] =
             [req[r] EXCEPT !.pc = "updateFind", !.secret = h]]
    BY <1>0, <1>13 DEF findUser, TypeOK
  <2>4. req' \in [Requests -> Request]
    <3> HIDE DEF h
    <3> QED BY <1>0, <2>2, <2>3 DEF TypeOK, Finish
  <2> QED
    BY <1>0, <1>13, <2>4
    DEF findUser, TypeOK, StoreTypeOK, redis, db, hist
<1>14. ASSUME NEW r \in Requests, updateWrite(r) PROVE TypeOK'
  <2> DEFINE G == {s \in Sids : /\ Live(s)
                                /\ session[s].userId = req[r].userId
                                /\ Tracked(req[r].userId, s)}
  <2>1. hash(req[r].secret) \in Password
    BY <1>0, <1>14
    DEF SecretOK, updateWrite, At, hash, TypeOK, Request, Password
  <2>2. [req[r] EXCEPT !.pc = "scan", !.goal = G] \in Request
    BY ZenonT(60), <1>0 DEF TypeOK, Request, Step
  <2> QED
    BY ZenonT(60), <1>0, <1>14, <2>1, <2>2
    DEF updateWrite, TypeOK, StoreTypeOK, redis, hist, Finish
<1>15. ASSUME NEW u \in Users, deleteUser(u) PROVE TypeOK'
  BY <1>0, <1>15 DEF deleteUser, TypeOK, StoreTypeOK, redis, hist
<1>16. ASSUME NEW r \in Requests, scan(r) PROVE TypeOK'
  <2>1. req[r].userId \in Users /\ req[r].cursor \in 0..MaxSid
    BY <1>0, <1>16 DEF RequestOK, scan, At, TypeOK, Request
  <2> DEFINE K == scanKeys(req[r].userId, req[r].cursor)
             c == scanCursor(req[r].cursor)
  <2>2. K \in SUBSET Sids /\ c \in 0..MaxSid
    BY <2>1, ScanType
  <2>3. Resume(r, K, c)
    BY <1>16 DEF scan
  <2>4. req' \in [Requests -> Request]
    <3> HIDE DEF K, c
    <3> QED BY <1>0, <2>2, <2>3, ResumeType DEF TypeOK
  <2> QED
    BY <1>0, <1>16, <2>4 DEF scan, TypeOK, StoreTypeOK, redis, db, hist
<1>17. ASSUME NEW r \in Requests, invalidateDel(r) PROVE TypeOK'
  <2> PICK s \in req[r].keys : invalidateDel(r)!2!(s)
    BY <1>17 DEF invalidateDel
  <2>1. s \in Sids
    BY <1>0 DEF TypeOK, Request
  <2>2. [req[r] EXCEPT !.pc = "invalidateUntrack", !.sid = s] \in Request
    BY ZenonT(60), <1>0, <2>1 DEF TypeOK, Request, Step
  <2> QED
    BY <1>0, <1>17, <2>1, <2>2, AbsentType, RemovedType
    DEF invalidateDel, TypeOK, StoreTypeOK, db, delSession
<1>18. ASSUME NEW r \in Requests, invalidateUntrack(r) PROVE TypeOK'
  <2>0. req[r].userId \in Users /\ req[r].sid \in Sids
    BY <1>0, <1>18 DEF RequestOK, invalidateUntrack, At
  <2>1. req[r].keys \ {req[r].sid} \subseteq Sids /\ req[r].cursor \in 0..MaxSid
    BY <1>0 DEF TypeOK, Request
  <2> QED
    BY <1>0, <1>18, <2>0, <2>1, TrackType, ResumeType, RemovedType
    DEF invalidateUntrack, TypeOK, StoreTypeOK, db
<1>19. ASSUME NEW r \in Requests, Fail(r) PROVE TypeOK'
  BY <1>0, <1>19 DEF Fail, TypeOK, StoreTypeOK, redis, db, Finish
<1>20. CASE Tick
  <2>1. \A s \in Sids : session'[s] \in ISessionData
    <3> TAKE s \in Sids
    <3>1. CASE session[s].ttl > 1
      <4>1. session[s] \in ISessionData
        BY <1>0 DEF TypeOK, StoreTypeOK
      <4>2. session[s].ttl - 1 \in Ttl
        BY <3>1, <4>1 DEF ISessionData, Ttl
      <4>3. [session[s] EXCEPT !.ttl = session[s].ttl - 1] \in ISessionData
        BY <4>1, <4>2 DEF ISessionData
      <4> QED
        BY <1>20, <3>1, <4>3 DEF Tick, Expire
    <3>2. CASE ~(session[s].ttl > 1)
      BY <1>20, <3>2, AbsentType DEF Tick, Expire
    <3> QED
      BY <3>1, <3>2
  <2>2. \A u \in Users : \A s \in Sids : track'[u][s] \in Ttl
    BY <1>0, <1>20 DEF Tick, Expire, TypeOK, StoreTypeOK, Ttl
  <2>3. StoreTypeOK'
    BY <1>20, <2>1, <2>2 DEF Tick, Expire, StoreTypeOK
  <2> QED
    BY <1>0, <1>20, <2>3, RemovedType DEF Tick, TypeOK, db
<1> QED
  BY <1>1, <1>2, <1>3, <1>4, <1>5, <1>6, <1>7, <1>8, <1>9, <1>10, <1>11,
     <1>12, <1>13, <1>14, <1>15, <1>16, <1>17, <1>18, <1>19, <1>20
  DEF Next, Handle

----------------------------------------------------------------------------
(* What a request knows of its session. *)

RequestsOK == \A r \in Requests : RequestOK(r) /\ SecretOK(r)

\* A step of request r leaves the others what they knew.
LEMMA Frame ==
  ASSUME TypeOK, RequestsOK, NEW r \in Requests,
         \A q \in Requests \ {r} : req'[q] = req[q],
         \A s \in Sids : owner[s] # NoUser => owner'[s] = owner[s],
         RequestOK(r)', SecretOK(r)'
  PROVE  RequestsOK'
<1> SUFFICES ASSUME NEW q \in Requests, q # r
             PROVE  RequestOK(q)' /\ SecretOK(q)'
  BY DEF RequestsOK
<1>1. req'[q] = req[q] /\ RequestOK(q) /\ SecretOK(q) /\ req[q] \in Request
  BY DEF RequestsOK, TypeOK
<1>2. SecretOK(q)'
  BY <1>1 DEF SecretOK
<1>3. RequestOK(q)'
  BY <1>1, StoreAssumption DEF RequestOK, Request, Step
<1> QED
  BY <1>2, <1>3

\* What a request knows of its session, its user and its SCAN holds after
\* every step of it and of the others.
LEMMA RequestsStep == IInv /\ [Next]_vars => RequestsOK'
<1> SUFFICES ASSUME IInv, [Next]_vars PROVE RequestsOK'
  OBVIOUS
<1> USE StoreAssumption
<1>0. TypeOK /\ RequestsOK /\ LiveOwned /\ SessionsOwned
  BY DEF IInv, RequestsOK
<1>1. CASE UNCHANGED vars
  BY <1>0, <1>1
  DEF vars, redis, db, hist, RequestsOK, RequestOK, SecretOK
<1>2. ASSUME NEW r \in Requests, NEW u \in Users, NEW p \in Passwords,
             signup(r, u, p)
      PROVE  RequestsOK'
  <2>1. /\ \A q \in Requests \ {r} : req'[q] = req[q]
        /\ \A t \in Sids : owner[t] # NoUser => owner'[t] = owner[t]
    BY <1>0, <1>2 DEF signup, Finish, Goto, TypeOK, hist
  <2>2. RequestOK(r)
    BY <1>0 DEF RequestsOK
  <2>3. SecretOK(r) /\ req[r].secret.rounds \in 0..2
    BY <1>0 DEF RequestsOK, TypeOK, Request, Password
  <2>4. RequestOK(r)'
    BY <1>0, <1>2, <2>2 DEF RequestOK, signup, At, Finish, Goto, Idle, TypeOK,
       Request, hist, plain
  <2>5. SecretOK(r)'
    BY <1>0, <1>2, <2>3 DEF SecretOK, signup, At, Finish, Goto, Idle, Blank,
       TypeOK, Request, plain
  <2> QED
    BY <1>0, <2>1, <2>4, <2>5, Frame
<1>3. ASSUME NEW r \in Requests, NEW u \in Users, NEW p \in Passwords,
             login(r, u, p)
      PROVE  RequestsOK'
  <2>1. /\ \A q \in Requests \ {r} : req'[q] = req[q]
        /\ \A t \in Sids : owner[t] # NoUser => owner'[t] = owner[t]
    BY <1>0, <1>3 DEF login, Finish, Goto, TypeOK, hist
  <2>2. RequestOK(r)
    BY <1>0 DEF RequestsOK
  <2>3. SecretOK(r) /\ req[r].secret.rounds \in 0..2
    BY <1>0 DEF RequestsOK, TypeOK, Request, Password
  <2>4. RequestOK(r)'
    BY <1>0, <1>3, <2>2 DEF RequestOK, login, At, Finish, Goto, Idle, TypeOK,
       Request, hist, plain
  <2>5. SecretOK(r)'
    BY <1>0, <1>3, <2>3 DEF SecretOK, login, At, Finish, Goto, Idle, Blank,
       TypeOK, Request, plain
  <2> QED
    BY <1>0, <2>1, <2>4, <2>5, Frame
<1>4. ASSUME NEW r \in Requests, NEW op \in Guarded, NEW s \in Sids, NEW p \in Passwords \cup {NoPassword},
             Arrive(r, op, s, p)
      PROVE  RequestsOK'
  <2>1. /\ \A q \in Requests \ {r} : req'[q] = req[q]
        /\ \A t \in Sids : owner[t] # NoUser => owner'[t] = owner[t]
    BY <1>0, <1>4 DEF Arrive, Finish, Goto, TypeOK, hist
  <2>2. RequestOK(r)
    BY <1>0 DEF RequestsOK
  <2>3. SecretOK(r) /\ req[r].secret.rounds \in 0..2
    BY <1>0 DEF RequestsOK, TypeOK, Request, Password
  <2>4. RequestOK(r)'
    BY <1>0, <1>4, <2>2 DEF RequestOK, Arrive, At, Finish, Goto, Idle, TypeOK,
       Request, hist, plain
  <2>5. SecretOK(r)'
    BY <1>0, <1>4, <2>3 DEF SecretOK, Arrive, At, Finish, Goto, Idle, Blank,
       TypeOK, Request, plain
  <2> QED
    BY <1>0, <2>1, <2>4, <2>5, Frame
<1>5. ASSUME NEW r \in Requests, createPut(r) PROVE RequestsOK'
  <2>1. /\ \A q \in Requests \ {r} : req'[q] = req[q]
        /\ \A t \in Sids : owner[t] # NoUser => owner'[t] = owner[t]
    BY <1>0, <1>5 DEF createPut, Finish, Goto, TypeOK, hist
  <2>2. RequestOK(r)
    BY <1>0 DEF RequestsOK
  <2>3. SecretOK(r) /\ req[r].secret.rounds \in 0..2
    BY <1>0 DEF RequestsOK, TypeOK, Request, Password
  <2>4. RequestOK(r)'
    BY <1>0, <1>5, <2>2 DEF RequestOK, createPut, At, Finish, Goto, Idle, TypeOK,
       Request, hist
  <2>5. SecretOK(r)'
    BY <1>0, <1>5, <2>3 DEF SecretOK, createPut, At, Finish, Goto, Idle, Blank,
       TypeOK, Request
  <2> QED
    BY <1>0, <2>1, <2>4, <2>5, Frame
<1>6. ASSUME NEW r \in Requests, createTrack(r) PROVE RequestsOK'
  <2>1. /\ \A q \in Requests \ {r} : req'[q] = req[q]
        /\ \A t \in Sids : owner[t] # NoUser => owner'[t] = owner[t]
    BY <1>0, <1>6 DEF createTrack, Finish, Goto, TypeOK, hist
  <2>2. RequestOK(r)
    BY <1>0 DEF RequestsOK
  <2>3. SecretOK(r) /\ req[r].secret.rounds \in 0..2
    BY <1>0 DEF RequestsOK, TypeOK, Request, Password
  <2>4. RequestOK(r)'
    BY <1>0, <1>6, <2>2 DEF RequestOK, createTrack, At, Finish, Goto, Idle, TypeOK,
       Request, hist
  <2>5. SecretOK(r)'
    BY <1>0, <1>6, <2>3 DEF SecretOK, createTrack, At, Finish, Goto, Idle, Blank,
       TypeOK, Request
  <2> QED
    BY <1>0, <2>1, <2>4, <2>5, Frame
<1>7. ASSUME NEW r \in Requests, guardGet(r) PROVE RequestsOK'
  <2>1. /\ \A q \in Requests \ {r} : req'[q] = req[q]
        /\ \A t \in Sids : owner[t] # NoUser => owner'[t] = owner[t]
    BY <1>0, <1>7 DEF guardGet, Finish, Goto, TypeOK, hist
  <2>2. RequestOK(r)
    BY <1>0 DEF RequestsOK
  <2>3. SecretOK(r) /\ req[r].secret.rounds \in 0..2
    BY <1>0 DEF RequestsOK, TypeOK, Request, Password
  <2>4. RequestOK(r)'
    BY <1>0, <1>7, <2>2 DEF RequestOK, guardGet, At, Finish, Goto, Idle, TypeOK,
       Request, hist
  <2>5. SecretOK(r)'
    BY <1>0, <1>7, <2>3 DEF SecretOK, guardGet, At, Finish, Goto, Idle, Blank,
       TypeOK, Request
  <2> QED
    BY <1>0, <2>1, <2>4, <2>5, Frame
<1>8. ASSUME NEW r \in Requests, extendGet(r) PROVE RequestsOK'
  <2>1. /\ \A q \in Requests \ {r} : req'[q] = req[q]
        /\ \A t \in Sids : owner[t] # NoUser => owner'[t] = owner[t]
    BY <1>0, <1>8 DEF extendGet, Finish, Goto, TypeOK, hist
  <2>2. RequestOK(r)
    BY <1>0 DEF RequestsOK
  <2>3. SecretOK(r) /\ req[r].secret.rounds \in 0..2
    BY <1>0 DEF RequestsOK, TypeOK, Request, Password
  <2>4. RequestOK(r)'
    BY <1>0, <1>8, <2>2 DEF RequestOK, extendGet, At, Finish, Goto, Idle, TypeOK,
       Request, hist, SessionsOwned, LiveOwned
  <2>5. SecretOK(r)'
    BY <1>0, <1>8, <2>3 DEF SecretOK, extendGet, At, Finish, Goto, Idle, Blank,
       TypeOK, Request, SessionsOwned, LiveOwned
  <2> QED
    BY <1>0, <2>1, <2>4, <2>5, Frame
<1>9. ASSUME NEW r \in Requests, extendPut(r) PROVE RequestsOK'
  <2>1. /\ \A q \in Requests \ {r} : req'[q] = req[q]
        /\ \A t \in Sids : owner[t] # NoUser => owner'[t] = owner[t]
    BY <1>0, <1>9 DEF extendPut, Finish, Goto, TypeOK, hist
  <2>2. RequestOK(r)
    BY <1>0 DEF RequestsOK
  <2>3. SecretOK(r) /\ req[r].secret.rounds \in 0..2
    BY <1>0 DEF RequestsOK, TypeOK, Request, Password
  <2>4. RequestOK(r)'
    BY <1>0, <1>9, <2>2 DEF RequestOK, extendPut, At, Finish, Goto, Idle, TypeOK,
       Request, hist
  <2>5. SecretOK(r)'
    BY <1>0, <1>9, <2>3 DEF SecretOK, extendPut, At, Finish, Goto, Idle, Blank,
       TypeOK, Request
  <2> QED
    BY <1>0, <2>1, <2>4, <2>5, Frame
<1>10. ASSUME NEW r \in Requests, extendTrack(r) PROVE RequestsOK'
  <2>1. /\ \A q \in Requests \ {r} : req'[q] = req[q]
        /\ \A t \in Sids : owner[t] # NoUser => owner'[t] = owner[t]
    BY <1>0, <1>10 DEF extendTrack, Finish, Goto, TypeOK, hist
  <2>2. RequestOK(r)
    BY <1>0 DEF RequestsOK
  <2>3. SecretOK(r) /\ req[r].secret.rounds \in 0..2
    BY <1>0 DEF RequestsOK, TypeOK, Request, Password
  <2>4. RequestOK(r)'
    BY <1>0, <1>10, <2>2 DEF RequestOK, extendTrack, At, Finish, Goto, Idle, TypeOK,
       Request, hist
  <2>5. SecretOK(r)'
    BY <1>0, <1>10, <2>3 DEF SecretOK, extendTrack, At, Finish, Goto, Idle, Blank,
       TypeOK, Request
  <2> QED
    BY <1>0, <2>1, <2>4, <2>5, Frame
<1>11. ASSUME NEW r \in Requests, destroyGet(r) PROVE RequestsOK'
  <2>1. /\ \A q \in Requests \ {r} : req'[q] = req[q]
        /\ \A t \in Sids : owner[t] # NoUser => owner'[t] = owner[t]
    BY <1>0, <1>11 DEF destroyGet, Finish, Goto, TypeOK, hist
  <2>2. RequestOK(r)
    BY <1>0 DEF RequestsOK
  <2>3. SecretOK(r) /\ req[r].secret.rounds \in 0..2
    BY <1>0 DEF RequestsOK, TypeOK, Request, Password
  <2>4. RequestOK(r)'
    BY <1>0, <1>11, <2>2 DEF RequestOK, destroyGet, At, Finish, Goto, Idle, TypeOK,
       Request, hist, SessionsOwned, LiveOwned
  <2>5. SecretOK(r)'
    BY <1>0, <1>11, <2>3 DEF SecretOK, destroyGet, At, Finish, Goto, Idle, Blank,
       TypeOK, Request, SessionsOwned, LiveOwned
  <2> QED
    BY <1>0, <2>1, <2>4, <2>5, Frame
<1>12. ASSUME NEW r \in Requests, destroyDel(r) PROVE RequestsOK'
  <2>1. /\ \A q \in Requests \ {r} : req'[q] = req[q]
        /\ \A t \in Sids : owner[t] # NoUser => owner'[t] = owner[t]
    BY <1>0, <1>12 DEF destroyDel, Finish, Goto, TypeOK, hist
  <2>2. RequestOK(r)
    BY <1>0 DEF RequestsOK
  <2>3. SecretOK(r) /\ req[r].secret.rounds \in 0..2
    BY <1>0 DEF RequestsOK, TypeOK, Request, Password
  <2>4. RequestOK(r)'
    BY <1>0, <1>12, <2>2 DEF RequestOK, destroyDel, At, Finish, Goto, Idle, TypeOK,
       Request, hist
  <2>5. SecretOK(r)'
    BY <1>0, <1>12, <2>3 DEF SecretOK, destroyDel, At, Finish, Goto, Idle, Blank,
       TypeOK, Request
  <2> QED
    BY <1>0, <2>1, <2>4, <2>5, Frame
<1>13. ASSUME NEW r \in Requests, destroyUntrack(r) PROVE RequestsOK'
  <2>1. /\ \A q \in Requests \ {r} : req'[q] = req[q]
        /\ \A t \in Sids : owner[t] # NoUser => owner'[t] = owner[t]
    BY <1>0, <1>13 DEF destroyUntrack, Finish, Goto, TypeOK, hist
  <2>2. RequestOK(r)
    BY <1>0 DEF RequestsOK
  <2>3. SecretOK(r) /\ req[r].secret.rounds \in 0..2
    BY <1>0 DEF RequestsOK, TypeOK, Request, Password
  <2>4. RequestOK(r)'
    BY <1>0, <1>13, <2>2 DEF RequestOK, destroyUntrack, At, Finish, Goto, Idle, TypeOK,
       Request, hist
  <2>5. SecretOK(r)'
    BY <1>0, <1>13, <2>3 DEF SecretOK, destroyUntrack, At, Finish, Goto, Idle, Blank,
       TypeOK, Request
  <2> QED
    BY <1>0, <2>1, <2>4, <2>5, Frame
<1>14. ASSUME NEW r \in Requests, findUser(r) PROVE RequestsOK'
  <2>1. /\ \A q \in Requests \ {r} : req'[q] = req[q]
        /\ \A t \in Sids : owner[t] # NoUser => owner'[t] = owner[t]
    BY <1>0, <1>14 DEF findUser, Finish, Goto, TypeOK, hist
  <2>2. RequestOK(r)
    BY <1>0 DEF RequestsOK
  <2>3. SecretOK(r) /\ req[r].secret.rounds \in 0..2
    BY <1>0 DEF RequestsOK, TypeOK, Request, Password
  <2>4. RequestOK(r)'
    BY <1>0, <1>14, <2>2 DEF RequestOK, findUser, At, Finish, Goto, Idle, TypeOK,
       Request, hist, hash
  <2>5. SecretOK(r)'
    BY <1>0, <1>14, <2>3 DEF SecretOK, findUser, At, Finish, Goto, Idle, Blank,
       TypeOK, Request, hash
  <2> QED
    BY <1>0, <2>1, <2>4, <2>5, Frame
<1>15. ASSUME NEW r \in Requests, updateFind(r) PROVE RequestsOK'
  <2>1. /\ \A q \in Requests \ {r} : req'[q] = req[q]
        /\ \A t \in Sids : owner[t] # NoUser => owner'[t] = owner[t]
    BY <1>0, <1>15 DEF updateFind, Finish, Goto, TypeOK, hist
  <2>2. RequestOK(r)
    BY <1>0 DEF RequestsOK
  <2>3. SecretOK(r) /\ req[r].secret.rounds \in 0..2
    BY <1>0 DEF RequestsOK, TypeOK, Request, Password
  <2>4. RequestOK(r)'
    BY <1>0, <1>15, <2>2 DEF RequestOK, updateFind, At, Finish, Goto, Idle, TypeOK,
       Request, hist
  <2>5. SecretOK(r)'
    BY <1>0, <1>15, <2>3 DEF SecretOK, updateFind, At, Finish, Goto, Idle, Blank,
       TypeOK, Request
  <2> QED
    BY <1>0, <2>1, <2>4, <2>5, Frame
<1>16. ASSUME NEW r \in Requests, updateWrite(r) PROVE RequestsOK'
  <2>1. /\ \A q \in Requests \ {r} : req'[q] = req[q]
        /\ \A t \in Sids : owner[t] # NoUser => owner'[t] = owner[t]
    BY <1>0, <1>16 DEF updateWrite, Finish, Goto, TypeOK, hist
  <2>2. RequestOK(r)
    BY <1>0 DEF RequestsOK
  <2>3. SecretOK(r) /\ req[r].secret.rounds \in 0..2
    BY <1>0 DEF RequestsOK, TypeOK, Request, Password
  <2>4. RequestOK(r)'
    BY <1>0, <1>16, <2>2 DEF RequestOK, updateWrite, At, Finish, Goto, Idle, TypeOK,
       Request, hist, Live, SessionsOwned
  <2>5. SecretOK(r)'
    BY <1>0, <1>16, <2>3 DEF SecretOK, updateWrite, At, Finish, Goto, Idle, Blank,
       TypeOK, Request, Live, SessionsOwned
  <2> QED
    BY <1>0, <2>1, <2>4, <2>5, Frame
<1>17. ASSUME NEW r \in Requests, scan(r) PROVE RequestsOK'
  <2>1. /\ \A q \in Requests \ {r} : req'[q] = req[q]
        /\ \A t \in Sids : owner[t] # NoUser => owner'[t] = owner[t]
    BY <1>0, <1>17 DEF scan, Resume, TypeOK, hist
  <2>2. RequestOK(r)
    BY <1>0 DEF RequestsOK
  <2>3. SecretOK(r) /\ req[r].secret.rounds \in 0..2
    BY <1>0 DEF RequestsOK, TypeOK, Request, Password
  <2>4. RequestOK(r)'
    BY <1>0, <1>17, <2>2 DEF RequestOK, scan, At, Resume, Idle, TypeOK,
       Request, hist, scanKeys, Tracked, SessionsOwned
  <2>5. SecretOK(r)'
    BY <1>0, <1>17, <2>3 DEF SecretOK, scan, At, Resume, Idle, Blank,
       TypeOK, Request, scanKeys, Tracked, SessionsOwned
  <2> QED
    BY <1>0, <2>1, <2>4, <2>5, Frame
<1>18. ASSUME NEW r \in Requests, invalidateDel(r) PROVE RequestsOK'
  <2>1. /\ \A q \in Requests \ {r} : req'[q] = req[q]
        /\ \A t \in Sids : owner[t] # NoUser => owner'[t] = owner[t]
    BY <1>0, <1>18 DEF invalidateDel, Finish, Goto, TypeOK, hist
  <2>2. RequestOK(r)
    BY <1>0 DEF RequestsOK
  <2>3. SecretOK(r) /\ req[r].secret.rounds \in 0..2
    BY <1>0 DEF RequestsOK, TypeOK, Request, Password
  <2>4. RequestOK(r)'
    BY <1>0, <1>18, <2>2 DEF RequestOK, invalidateDel, At, Finish, Goto, Idle, TypeOK,
       Request, hist
  <2>5. SecretOK(r)'
    BY <1>0, <1>18, <2>3 DEF SecretOK, invalidateDel, At, Finish, Goto, Idle, Blank,
       TypeOK, Request
  <2> QED
    BY <1>0, <2>1, <2>4, <2>5, Frame
<1>19. ASSUME NEW r \in Requests, invalidateUntrack(r) PROVE RequestsOK'
  <2>1. /\ \A q \in Requests \ {r} : req'[q] = req[q]
        /\ \A t \in Sids : owner[t] # NoUser => owner'[t] = owner[t]
    BY <1>0, <1>19 DEF invalidateUntrack, Resume, TypeOK, hist
  <2>2. RequestOK(r)
    BY <1>0 DEF RequestsOK
  <2>3. SecretOK(r) /\ req[r].secret.rounds \in 0..2
    BY <1>0 DEF RequestsOK, TypeOK, Request, Password
  <2>4. RequestOK(r)'
    BY <1>0, <1>19, <2>2 DEF RequestOK, invalidateUntrack, At, Resume, Idle, TypeOK,
       Request, hist
  <2>5. SecretOK(r)'
    BY <1>0, <1>19, <2>3 DEF SecretOK, invalidateUntrack, At, Resume, Idle, Blank,
       TypeOK, Request
  <2> QED
    BY <1>0, <2>1, <2>4, <2>5, Frame
<1>20. ASSUME NEW r \in Requests, Fail(r) PROVE RequestsOK'
  <2>1. /\ \A q \in Requests \ {r} : req'[q] = req[q]
        /\ \A t \in Sids : owner[t] # NoUser => owner'[t] = owner[t]
    BY <1>0, <1>20 DEF Fail, Finish, Goto, TypeOK, hist
  <2>2. RequestOK(r)
    BY <1>0 DEF RequestsOK
  <2>3. SecretOK(r) /\ req[r].secret.rounds \in 0..2
    BY <1>0 DEF RequestsOK, TypeOK, Request, Password
  <2>4. RequestOK(r)'
    BY <1>0, <1>20, <2>2 DEF RequestOK, Fail, At, Finish, Goto, Idle, TypeOK,
       Request, hist
  <2>5. SecretOK(r)'
    BY <1>0, <1>20, <2>3 DEF SecretOK, Fail, At, Finish, Goto, Idle, Blank,
       TypeOK, Request
  <2> QED
    BY <1>0, <2>1, <2>4, <2>5, Frame
<1>21. CASE Tick \/ \E u \in Users : deleteUser(u)
  BY <1>0, <1>21 DEF Tick, deleteUser, hist, RequestsOK, RequestOK, SecretOK
<1> QED
  BY <1>1, <1>2, <1>3, <1>4, <1>5, <1>6, <1>7, <1>8, <1>9, <1>10, <1>11, <1>12, <1>13, <1>14, <1>15, <1>16, <1>17, <1>18, <1>19, <1>20, <1>21
  DEF Next, Handle

----------------------------------------------------------------------------
(* Sessions keep their owner. *)

\* The steps that touch neither Redis nor the owners.
LEMMA Quiet ==
  ASSUME NEW r \in Requests,
         \/ guardGet(r) \/ extendGet(r) \/ destroyGet(r) \/ findUser(r)
         \/ updateFind(r) \/ updateWrite(r) \/ scan(r)
  PROVE  UNCHANGED <<redis, hist>>
BY DEF guardGet, extendGet, destroyGet, findUser, updateFind, updateWrite,
       scan, hist

OwnedOK == LiveOwned /\ SessionsOwned

\* Every write of a session or tracking key, and every handler that goes on
\* with data it read before, keeps the key with the user it was issued to.
LEMMA OwnedStep == IInv /\ [Next]_vars => OwnedOK'
<1> SUFFICES ASSUME IInv, [Next]_vars PROVE OwnedOK'
  OBVIOUS
<1> USE StoreAssumption DEF OwnedOK, LiveOwned, SessionsOwned, Live, Tracked
<1>0. TypeOK /\ OwnedOK /\ \A r \in Requests : RequestOK(r)
  BY DEF IInv
<1>1. ASSUME UNCHANGED <<redis, owner>> PROVE OwnedOK'
  BY <1>0, <1>1 DEF redis
<1>2. ASSUME NEW r \in Requests, createPut(r) PROVE OwnedOK'
  <2> PICK s \in Sids : owner[s] = NoUser /\ createPut(r)!2!(s)
    BY <1>2 DEF createPut
  <2>1. req[r].userId \in Users
    BY <1>0, <1>2 DEF RequestOK, createPut, At
  <2>2. \A u \in Users : track[u][s] = 0
    BY <1>0 DEF TypeOK, StoreTypeOK, Ttl
  <2> QED
    BY <1>0, <1>2, <2>1, <2>2
    DEF createPut, setexSession, TypeOK, StoreTypeOK, Ttl
<1>3. ASSUME NEW r \in Requests, createTrack(r) \/ extendTrack(r)
      PROVE  OwnedOK'
  <2>1. /\ req[r].userId \in Users /\ req[r].sid \in Sids
        /\ owner[req[r].sid] = req[r].userId
    BY <1>0, <1>3 DEF RequestOK, createTrack, extendTrack, At
  <2> QED
    BY <1>0, <1>3, <2>1
    DEF createTrack, extendTrack, setexTracking, hist, TypeOK, StoreTypeOK
<1>4. ASSUME NEW r \in Requests, extendPut(r) PROVE OwnedOK'
  <2>1. /\ req[r].userId \in Users /\ req[r].sid \in Sids
        /\ owner[req[r].sid] = req[r].userId
    BY <1>0, <1>4 DEF RequestOK, extendPut, At
  <2> QED
    BY <1>0, <1>4, <2>1
    DEF extendPut, setexSession, hist, TypeOK, StoreTypeOK
<1>5. ASSUME NEW r \in Requests, destroyDel(r) \/ invalidateDel(r)
      PROVE  OwnedOK'
  <2> PICK s \in Sids : delSession(s)
    BY <1>0, <1>5
    DEF RequestOK, destroyDel, invalidateDel, At, TypeOK, Request
  <2> QED
    BY <1>0, <1>5
    DEF destroyDel, invalidateDel, delSession, Absent, TypeOK, StoreTypeOK
<1>6. ASSUME NEW r \in Requests, destroyUntrack(r) \/ invalidateUntrack(r)
      PROVE  OwnedOK'
  <2> PICK u \in Users, s \in Sids : delTracking(u, s)
    BY <1>0, <1>6 DEF RequestOK, destroyUntrack, invalidateUntrack, At
  <2> QED
    BY <1>0, <1>6
    DEF destroyUntrack, invalidateUntrack, delTracking, TypeOK, StoreTypeOK
<1>7. CASE Tick
  <2>1. \A s \in Sids : Live(s)' => Live(s) /\ session'[s].userId = session[s].userId
    BY <1>0, <1>7, <1>0 DEF Tick, Expire, Absent, TypeOK, StoreTypeOK, ISessionData, Ttl
  <2>2. \A s \in Sids, u \in Users : Tracked(u, s)' => Tracked(u, s)
    BY <1>0, <1>7 DEF Tick, Expire, TypeOK, StoreTypeOK, Ttl
  <2> QED
    BY <1>0, <1>7, <2>1, <2>2 DEF Tick
<1> QED
  <2>1. ASSUME NEW r \in Requests, NEW u \in Users, NEW p \in Passwords,
               signup(r, u, p) \/ login(r, u, p)
        PROVE  OwnedOK'
    BY <1>1, <2>1 DEF signup, login, hist
  <2>2. ASSUME NEW r \in Requests, NEW op \in Guarded, NEW s \in Sids,
               NEW p \in Passwords \cup {NoPassword}, Arrive(r, op, s, p)
        PROVE  OwnedOK'
    BY <1>1, <2>2 DEF Arrive, hist
  <2>3. ASSUME NEW r \in Requests, Fail(r) PROVE OwnedOK'
    BY <1>1, <2>3 DEF Fail
  <2>4. ASSUME NEW u \in Users, deleteUser(u) PROVE OwnedOK'
    BY <1>1, <2>4 DEF deleteUser, hist
  <2>5. CASE UNCHANGED vars
    BY <1>1, <2>5 DEF vars, hist
  <2>6. ASSUME NEW r \in Requests, Handle(r) PROVE OwnedOK'
    BY <1>1, <1>2, <1>3, <1>4, <1>5, <1>6, <2>6, Quiet DEF Handle, hist
  <2> QED
    BY <1>7, <2>1, <2>2, <2>3, <2>4, <2>5, <2>6 DEF Next

----------------------------------------------------------------------------
(* Write-backs and removals. *)

\* What a step does to the write-backs under way: it starts one for a live
\* session, or creates a session.
LEMMA WritingStep ==
  ASSUME IInv, Next, NEW q \in Requests, NEW t \in Sids, Writing(q, t)'
  PROVE  \/ Writing(q, t)
         \/ Live(t) /\ UNCHANGED <<redis, hist>>
         \/ Live(t)' /\ owner[t] = NoUser
<1> USE DEF Writing, Between, At, Goto, Finish
<1>0. TypeOK
  BY DEF IInv
<1> USE <1>0 DEF TypeOK
<1>1. ASSUME NEW r \in Requests, NEW u \in Users, NEW p \in Passwords,
             signup(r, u, p) \/ login(r, u, p)
      PROVE  Writing(q, t)
  BY ZenonT(60), <1>1 DEF signup, login, Idle
<1>2. ASSUME NEW r \in Requests, NEW op \in Guarded, NEW s \in Sids,
             NEW p \in Passwords \cup {NoPassword}, Arrive(r, op, s, p)
      PROVE  Writing(q, t)
  BY <1>2 DEF Arrive, Idle
<1>3. ASSUME NEW r \in Requests, createPut(r)
      PROVE  Writing(q, t) \/ (Live(t)' /\ owner[t] = NoUser)
  BY <1>3, StoreAssumption
  DEF createPut, setexSession, Live, StoreTypeOK, Request
<1>4. ASSUME NEW r \in Requests, extendGet(r)
      PROVE  Writing(q, t) \/ (Live(t) /\ UNCHANGED <<redis, hist>>)
  <2>1. UNCHANGED <<redis, hist>>
    BY <1>4 DEF extendGet
  <2>2. CASE q = r
    <3>1. CASE Live(req[r].sid)
      <4>1. req'[r].sid = req[r].sid
        BY <1>4, <3>1 DEF extendGet, Request
      <4> QED
        BY <2>1, <2>2, <3>1, <4>1
    <3>2. CASE ~Live(req[r].sid)
      BY <1>4, <2>2, <3>2 DEF extendGet, Idle
    <3> QED
      BY <3>1, <3>2
  <2>3. CASE q # r
    <3>1. req'[q] = req[q]
      BY <1>4, <2>3 DEF extendGet
    <3> QED
      BY <3>1
  <2> QED
    BY <2>2, <2>3
<1>5. ASSUME NEW r \in Requests, scan(r) \/ invalidateUntrack(r)
      PROVE  Writing(q, t)
  <2> PICK K, c : Resume(r, K, c)
    BY <1>5 DEF scan, invalidateUntrack
  <2>1. q # r => req'[q] = req[q]
    BY DEF Resume
  <2>2. req'[r].pc \in {"invalidateDel", "scan", "idle"}
    BY DEF Resume, Idle, Request
  <2> QED
    BY <2>1, <2>2
<1>6. ASSUME NEW r \in Requests,
             \/ createTrack(r) \/ guardGet(r) \/ extendPut(r) \/ extendTrack(r)
             \/ destroyGet(r) \/ destroyDel(r) \/ destroyUntrack(r)
             \/ findUser(r) \/ updateFind(r) \/ updateWrite(r)
             \/ invalidateDel(r) \/ Fail(r)
      PROVE  Writing(q, t)
  <2>1. CASE createTrack(r) \/ extendTrack(r) \/ destroyUntrack(r) \/ Fail(r)
    BY <2>1
    DEF createTrack, extendTrack, destroyUntrack, Fail, Idle, Request
  <2>2. CASE guardGet(r) \/ extendPut(r)
    BY <2>2 DEF guardGet, extendPut, Idle, Request
  <2>3. CASE destroyGet(r) \/ destroyDel(r)
    BY <2>3 DEF destroyGet, destroyDel, Idle, Request
  <2>4. CASE findUser(r) \/ updateFind(r)
    BY <2>4 DEF findUser, updateFind, Idle, Request
  <2>5. CASE updateWrite(r)
    BY <2>5 DEF updateWrite, Idle, Request
  <2>6. CASE invalidateDel(r)
    BY <2>6 DEF invalidateDel, Idle, Request
  <2> QED
    BY <1>6, <2>1, <2>2, <2>3, <2>4, <2>5, <2>6
<1>7. CASE Tick \/ \E u \in Users : deleteUser(u)
  BY <1>7 DEF Tick, deleteUser
<1> QED
  BY <1>1, <1>2, <1>3, <1>4, <1>5, <1>6, <1>7 DEF Next, Handle

\* A session ends, or loses its tracking key, only under the eyes of Removed.
LEMMA RemovalStep ==
  ASSUME IInv, Next, NEW s \in Sids, s \notin overlapped',
         \/ Live(s) /\ ~Live(s)'
         \/ \E u \in Users : Tracked(u, s) /\ ~Tracked(u, s)'
  PROVE  ~Written(s)
<1>0. TypeOK /\ \A r \in Requests : RequestOK(r)
  BY DEF IInv
<1> USE <1>0 DEF TypeOK, StoreTypeOK, Live, Tracked
<1>1. ASSUME UNCHANGED redis PROVE FALSE
  BY <1>1 DEF redis
<1>2. ASSUME NEW r \in Requests, createPut(r) \/ extendPut(r) PROVE FALSE
  <2>1. track' = track
    BY <1>2 DEF createPut, extendPut
  <2> PICK t \in Sids : \E u : setexSession(t, u)
    BY <1>2 DEF createPut, extendPut, RequestOK, At
  <2>2. Live(s) => Live(s)'
    BY StoreAssumption DEF setexSession
  <2> QED
    BY <2>1, <2>2
<1>3. ASSUME NEW r \in Requests, createTrack(r) \/ extendTrack(r)
      PROVE  FALSE
  <2>1. session' = session
    BY <1>3 DEF createTrack, extendTrack
  <2> PICK t \in Sids, u \in Users : setexTracking(u, t)
    BY <1>3 DEF createTrack, extendTrack, RequestOK, At
  <2>2. \A v \in Users : Tracked(v, s) => Tracked(v, s)'
    BY StoreAssumption DEF setexTracking
  <2> QED
    BY <2>1, <2>2
<1>4. ASSUME NEW r \in Requests, destroyDel(r) PROVE ~Written(s)
  BY <1>4 DEF destroyDel, delSession, Removed
<1>5. ASSUME NEW r \in Requests, invalidateDel(r) PROVE ~Written(s)
  BY <1>5 DEF invalidateDel, delSession, Removed, Request
<1>6. ASSUME NEW r \in Requests, destroyUntrack(r) PROVE ~Written(s)
  BY <1>6 DEF destroyUntrack, delTracking, Removed, RequestOK, At
<1>7. ASSUME NEW r \in Requests, invalidateUntrack(r) PROVE ~Written(s)
  BY <1>7 DEF invalidateUntrack, delTracking, Removed, RequestOK, At
<1>8. CASE Tick
  <2>1. \/ session[s].ttl = 1
        \/ \E u \in Users : track[u][s] = 1
    BY <1>8 DEF Tick, Expire, ISessionData, Ttl
  <2> QED
    BY <1>8, <2>1 DEF Tick, Removed
<1> QED
  <2>1. ASSUME NEW r \in Requests, NEW u \in Users, NEW p \in Passwords,
               signup(r, u, p) \/ login(r, u, p)
        PROVE  FALSE
    BY <1>1, <2>1 DEF signup, login
  <2>2. ASSUME NEW r \in Requests, NEW op \in Guarded, NEW t \in Sids,
               NEW p \in Passwords \cup {NoPassword}, Arrive(r, op, t, p)
        PROVE  FALSE
    BY <1>1, <2>2 DEF Arrive
  <2>3. ASSUME NEW r \in Requests, Fail(r) PROVE FALSE
    BY <1>1, <2>3 DEF Fail
  <2>4. ASSUME NEW u \in Users, deleteUser(u) PROVE FALSE
    BY <1>1, <2>4 DEF deleteUser
  <2>5. ASSUME NEW r \in Requests, Handle(r) PROVE ~Written(s)
    BY <1>1, <1>2, <1>3, <1>4, <1>5, <1>6, <1>7, <2>5, Quiet DEF Handle
  <2> QED
    BY <1>8, <2>1, <2>2, <2>3, <2>4, <2>5 DEF Next

\* What is recorded stays recorded.
LEMMA HistoryStep ==
  ASSUME IInv, Next
  PROVE  /\ overlapped \subseteq overlapped'
         /\ torn \subseteq torn'
         /\ \A s \in Sids : owner[s] # NoUser => owner'[s] = owner[s]
<1> USE DEF hist, Removed
<1>0. TypeOK
  BY DEF IInv
<1>1. ASSUME NEW r \in Requests, Handle(r)
      PROVE  /\ overlapped \subseteq overlapped' /\ UNCHANGED torn
             /\ \A s \in Sids : owner[s] # NoUser => owner'[s] = owner[s]
  BY <1>0, <1>1, Quiet
  DEF Handle, createPut, createTrack, extendPut, extendTrack, destroyDel,
      destroyUntrack, invalidateDel, invalidateUntrack, TypeOK
<1> QED
  BY <1>1 DEF Next, signup, login, Arrive, Fail, deleteUser, Tick

\* A session that no request may contest comes to life once.
LEMMA BirthStep ==
  ASSUME IInv, Next, NEW s \in Sids, s \notin overlapped, ~Live(s), Live(s)'
  PROVE  owner[s] = NoUser
<1>0. TypeOK /\ WriterSeesEnd /\ \A r \in Requests : RequestOK(r)
  BY DEF IInv
<1> USE <1>0 DEF TypeOK, StoreTypeOK, Live
<1>1. ASSUME session' = session PROVE FALSE
  BY <1>1
<1>2. ASSUME NEW r \in Requests, createPut(r) PROVE owner[s] = NoUser
  BY <1>2 DEF createPut, setexSession
<1>3. ASSUME NEW r \in Requests, extendPut(r) PROVE FALSE
  <2>1. req[r].sid = s /\ Writing(r, s)
    BY <1>3 DEF extendPut, setexSession, Writing, At
  <2> QED
    BY <2>1 DEF WriterSeesEnd
<1>4. ASSUME NEW r \in Requests, destroyDel(r) \/ invalidateDel(r)
      PROVE  FALSE
  <2> PICK t : delSession(t)
    BY <1>4 DEF destroyDel, invalidateDel
  <2> QED
    BY DEF delSession, Absent
<1>5. ASSUME Tick PROVE FALSE
  BY <1>5 DEF Tick, Expire, Absent, ISessionData, Ttl
<1> QED
  <2>1. ASSUME NEW r \in Requests, Handle(r) PROVE owner[s] = NoUser
    BY <1>1, <1>2, <1>3, <1>4, <2>1, Quiet
    DEF Handle, createTrack, extendTrack, destroyUntrack, invalidateUntrack,
        redis
  <2>2. ASSUME NEW r \in Requests, Fail(r) PROVE FALSE
    BY <1>1, <2>2 DEF Fail, redis
  <2> QED
    BY <1>1, <1>5, <2>1, <2>2
    DEF Next, signup, login, Arrive, deleteUser, redis

\* WriterSeesEnd from the lemmas above.
LEMMA WriterStep == IInv /\ [Next]_vars => WriterSeesEnd'
<1> SUFFICES ASSUME IInv, [Next]_vars PROVE WriterSeesEnd'
  OBVIOUS
<1>0. TypeOK /\ WriterSeesEnd
  BY DEF IInv
<1>1. CASE UNCHANGED vars
  BY <1>0, <1>1
  DEF vars, redis, hist, WriterSeesEnd, Writing, Between, Live
<1>2. CASE Next
  <2> SUFFICES ASSUME NEW q \in Requests, NEW t \in Sids, t \notin overlapped',
                      Writing(q, t)', ~Live(t)'
               PROVE  FALSE
    BY DEF WriterSeesEnd
  <2>1. t \notin overlapped
    BY <1>2, HistoryStep
  <2>2. CASE Writing(q, t)
    BY <1>0, <1>2, <2>1, <2>2, RemovalStep DEF WriterSeesEnd, Written
  <2>3. CASE Live(t) /\ UNCHANGED <<redis, hist>>
    BY <2>3 DEF redis, Live
  <2> QED
    BY <1>2, <2>2, <2>3, WritingStep
<1> QED
  BY <1>1, <1>2

----------------------------------------------------------------------------
(* Deleters. *)

\* A request changes by its own steps only.
LEMMA Mover ==
  ASSUME TypeOK, Next, NEW q \in Requests, req'[q] # req[q]
  PROVE  req'[q].pc \in {"createPut", "guardGet", "idle"} \/ Handle(q)
<1> USE DEF TypeOK
<1>1. ASSUME NEW r \in Requests, NEW u \in Users, NEW p \in Passwords,
             signup(r, u, p) \/ login(r, u, p)
      PROVE  req'[q].pc = "createPut"
  <2>1. CASE signup(r, u, p)
    BY <2>1 DEF signup, Idle
  <2>2. CASE login(r, u, p)
    BY <2>2 DEF login, Idle
  <2> QED
    BY <1>1, <2>1, <2>2
<1>2. ASSUME NEW r \in Requests, NEW op \in Guarded, NEW s \in Sids,
             NEW p \in Passwords \cup {NoPassword}, Arrive(r, op, s, p)
      PROVE  req'[q].pc = "guardGet"
  BY <1>2 DEF Arrive, Idle
<1>3. ASSUME NEW r \in Requests, Fail(r) PROVE req'[q].pc = "idle"
  BY <1>3 DEF Fail, Finish, Idle
<1>4. ASSUME NEW r \in Requests, r # q, Handle(r) PROVE FALSE
  BY <1>4
  DEF Handle, createPut, createTrack, guardGet, extendGet, extendPut,
      extendTrack, destroyGet, destroyDel, destroyUntrack, findUser,
      updateFind, updateWrite, scan, invalidateDel, invalidateUntrack,
      Finish, Goto, Resume
<1>5. CASE Tick \/ \E u \in Users : deleteUser(u)
  BY <1>5 DEF Tick, deleteUser
<1> QED
  BY <1>1, <1>2, <1>3, <1>4, <1>5 DEF Next

\* Between deleting a session and deleting its tracking key, a request that
\* writes the session back is on record as contesting it.
LEMMA UntrackStep == IInv /\ [Next]_vars => UntrackAfterDel'
<1> SUFFICES ASSUME IInv, [Next]_vars PROVE UntrackAfterDel'
  OBVIOUS
<1>0. TypeOK /\ UntrackAfterDel /\ \A r \in Requests : RequestOK(r)
  BY DEF IInv
<1>1. CASE UNCHANGED vars
  BY <1>0, <1>1 DEF vars, redis, hist, UntrackAfterDel, Live
<1>2. CASE Next
  <2> SUFFICES ASSUME NEW q \in Requests, NEW t, t = req'[q].sid,
                      req'[q].pc \in {"destroyUntrack", "invalidateUntrack"},
                      t \notin overlapped', Live(t)'
               PROVE  FALSE
    BY DEF UntrackAfterDel, Live
  <2>1. t \notin overlapped
    BY <1>2, HistoryStep
  <2>2. CASE req'[q] = req[q]
    <3>1. t \in Sids /\ owner[t] # NoUser
      BY <1>0, <2>2, StoreAssumption DEF RequestOK
    <3>2. ~Live(t)
      BY <1>0, <2>1, <2>2 DEF UntrackAfterDel
    <3> QED
      BY <1>2, <2>1, <3>1, <3>2, BirthStep
  <2>3. CASE req'[q] # req[q]
    <3>1. Handle(q)
      BY <1>0, <1>2, <2>3, Mover
    <3>2. destroyDel(q) \/ invalidateDel(q)
      <4> USE <1>0 DEF TypeOK, Request, Finish, Goto, Idle
      <4>1. ~(createPut(q) \/ createTrack(q) \/ guardGet(q) \/ extendGet(q))
        BY DEF createPut, createTrack, guardGet, extendGet
      <4>2. ~(extendPut(q) \/ extendTrack(q) \/ destroyGet(q))
        BY DEF extendPut, extendTrack, destroyGet
      <4>3. ~(destroyUntrack(q) \/ findUser(q) \/ updateFind(q))
        BY DEF destroyUntrack, findUser, updateFind
      <4>4. ~updateWrite(q)
        BY DEF updateWrite
      <4>5. ASSUME NEW K, NEW c, Resume(q, K, c)
            PROVE  req'[q].pc \in {"invalidateDel", "scan", "idle"}
        BY <4>5 DEF Resume
      <4>6. ~(scan(q) \/ invalidateUntrack(q))
        BY <4>5 DEF scan, invalidateUntrack
      <4> QED
        BY <3>1, <4>1, <4>2, <4>3, <4>4, <4>6 DEF Handle
    <3>3. CASE destroyDel(q)
      BY <1>0, <3>3
      DEF destroyDel, delSession, Absent, Live, Goto, TypeOK, StoreTypeOK,
          Request, RequestOK, At
    <3>4. CASE invalidateDel(q)
      <4> PICK s \in req[q].keys : invalidateDel(q)!2!(s)
        BY <3>4 DEF invalidateDel
      <4>1. s \in Sids /\ t = s
        BY <1>0 DEF TypeOK, Request
      <4>2. ~Live(s)'
        BY <1>0, <4>1 DEF delSession, Absent, Live, TypeOK, StoreTypeOK
      <4> QED
        BY <4>1, <4>2
    <3> QED
      BY <3>2, <3>3, <3>4
  <2> QED
    BY <2>2, <2>3
<1> QED
  BY <1>1, <1>2

----------------------------------------------------------------------------
(* Live sessions are tracked. *)

\* A request between its two writes makes the second, or fails on record.
LEMMA BetweenStep ==
  ASSUME IInv, Next, NEW q \in Requests, NEW s \in Sids, Between(q, s)
  PROVE  Between(q, s)' \/ createTrack(q) \/ extendTrack(q) \/ s \in torn'
<1>0. TypeOK
  BY DEF IInv
<1>1. CASE req'[q] = req[q]
  BY <1>1 DEF Between
<1>2. CASE req'[q] # req[q]
  <2> USE DEF Between, At
  <2>1. ASSUME NEW r \in Requests, NEW u \in Users, NEW p \in Passwords,
               signup(r, u, p) \/ login(r, u, p)
        PROVE  FALSE
    BY <1>0, <1>2, <2>1 DEF signup, login, TypeOK
  <2>2. ASSUME NEW r \in Requests, NEW op \in Guarded, NEW t \in Sids,
               NEW p \in Passwords \cup {NoPassword}, Arrive(r, op, t, p)
        PROVE  FALSE
    BY <1>0, <1>2, <2>2 DEF Arrive, TypeOK
  <2>3. ASSUME NEW r \in Requests, Fail(r) PROVE s \in torn'
    BY <1>0, <1>2, <2>3 DEF Fail, Finish, TypeOK
  <2>4. ASSUME NEW r \in Requests, r # q, Handle(r) PROVE FALSE
    BY <1>0, <1>2, <2>4
    DEF TypeOK, Handle, createPut, createTrack, guardGet, extendGet,
        extendPut, extendTrack, destroyGet, destroyDel, destroyUntrack,
        findUser, updateFind, updateWrite, scan, invalidateDel,
        invalidateUntrack, Finish, Goto, Resume
  <2>5. ASSUME Handle(q) PROVE createTrack(q) \/ extendTrack(q)
    BY <2>5
    DEF Handle, createPut, guardGet, extendGet, extendPut, destroyGet,
        destroyDel, destroyUntrack, findUser, updateFind, updateWrite, scan,
        invalidateDel, invalidateUntrack
  <2>6. ~Tick /\ ~\E u \in Users : deleteUser(u)
    BY <1>2 DEF Tick, deleteUser
  <2> QED
    BY <2>1, <2>2, <2>3, <2>4, <2>5, <2>6 DEF Next
<1> QED
  BY <1>1, <1>2

\* The tracking key of s covers the session.
Covered(s) == track[session[s].userId][s] >= session[s].ttl

\* No step parts a live session from its tracking key but off the record of
\* overlapped and torn.
LEMMA TrackedStep == IInv /\ [Next]_vars => SessionsTracked'
<1> SUFFICES ASSUME IInv, [Next]_vars PROVE SessionsTracked'
  OBVIOUS
<1>0. /\ TypeOK /\ LiveOwned /\ SessionsOwned /\ UntrackAfterDel
      /\ SessionsTracked /\ \A r \in Requests : RequestOK(r)
  BY DEF IInv
<1>1. CASE UNCHANGED vars
  BY <1>0, <1>1 DEF vars, redis, hist, SessionsTracked, Between, Live
<1>2. CASE Next
  <2> SUFFICES ASSUME NEW s \in Sids, s \notin overlapped', s \notin torn',
                      Live(s)', \A r \in Requests : ~Between(r, s)'
               PROVE  Covered(s)'
    BY DEF SessionsTracked, Covered
  <2>0. s \notin overlapped /\ s \notin torn
    BY <1>2, HistoryStep
  \* Either s was covered, or its writer makes its second write now.
  <2>1. \/ ~Live(s)
        \/ Covered(s)
        \/ \E q \in Requests : Between(q, s) /\ (createTrack(q) \/ extendTrack(q))
    BY <1>0, <1>2, <2>0, BetweenStep DEF SessionsTracked, Covered
  <2>2. ASSUME NEW q \in Requests, Between(q, s), createTrack(q) \/ extendTrack(q)
        PROVE  Covered(s)'
    <3>1. /\ req[q].sid = s /\ req[q].userId \in Users
          /\ owner[s] = req[q].userId
      BY <1>0, <2>2 DEF RequestOK, Between, createTrack, extendTrack, At
    <3>2. session' = session /\ setexTracking(req[q].userId, s)
      BY <2>2, <3>1 DEF createTrack, extendTrack
    <3>3. session[s].userId = req[q].userId
      BY <1>0, <3>1, <3>2 DEF SessionsOwned, Live
    <3>4. session[s].ttl <= SessionTimeout
      BY <1>0, StoreAssumption DEF TypeOK, StoreTypeOK, ISessionData, Ttl
    <3> QED
      BY <1>0, <3>1, <3>2, <3>3, <3>4
      DEF Covered, setexTracking, TypeOK, StoreTypeOK
  <2> SUFFICES ASSUME Live(s) => Covered(s) PROVE Covered(s)'
    BY <2>1, <2>2
  <2> USE <1>0 DEF Covered, Live, TypeOK, StoreTypeOK
  <2>3. ASSUME UNCHANGED redis PROVE Covered(s)'
    BY <2>3 DEF redis
  <2>4. ASSUME NEW r \in Requests, createPut(r) PROVE Covered(s)'
    BY <2>4 DEF createPut, setexSession, Between, Request
  <2>5. ASSUME NEW r \in Requests, extendPut(r) PROVE Covered(s)'
    <3>1. req[r].sid # s
      BY <2>5 DEF extendPut, Between, Goto, Request
    <3> QED
      BY <2>5, <3>1 DEF extendPut, setexSession
  <2>6. ASSUME NEW r \in Requests, createTrack(r) \/ extendTrack(r)
        PROVE  Covered(s)'
    <3>1. req[r].sid # s \/ Between(r, s)
      BY <2>6 DEF createTrack, extendTrack, Between, At
    <3>2. ASSUME req[r].sid # s PROVE Covered(s)'
      <4>1. session' = session /\ setexTracking(req[r].userId, req[r].sid)
        BY <2>6 DEF createTrack, extendTrack
      <4>2. \A v \in Users : track'[v][s] = track[v][s]
        BY <3>2, <4>1 DEF setexTracking
      <4> QED
        BY <4>1, <4>2 DEF LiveOwned
    <3> QED
      BY <2>2, <2>6, <3>1, <3>2
  <2>7. ASSUME NEW r \in Requests, destroyDel(r) \/ invalidateDel(r)
        PROVE  Covered(s)'
    <3> PICK t : delSession(t) /\ UNCHANGED track
      BY <2>7 DEF destroyDel, invalidateDel
    <3> QED
      BY DEF delSession, Absent
  <2>8. ASSUME NEW r \in Requests, destroyUntrack(r) \/ invalidateUntrack(r)
        PROVE  Covered(s)'
    <3>1. session' = session /\ req[r].sid # s
      BY <2>0, <2>8
      DEF destroyUntrack, invalidateUntrack, UntrackAfterDel, At
    <3> QED
      BY <2>8, <3>1
      DEF destroyUntrack, invalidateUntrack, delTracking, RequestOK, At,
          LiveOwned
  <2>9. CASE Tick
    <3>1. session[s].ttl > 1 /\ session'[s].ttl = session[s].ttl - 1
      BY <2>9 DEF Tick, Expire, Absent, ISessionData, Ttl
    <3>2. session'[s].userId = session[s].userId
      BY <2>9, <3>1 DEF Tick, Expire, ISessionData
    <3> QED
      BY <2>9, <3>1, <3>2
      DEF Tick, Expire, LiveOwned, ISessionData, Ttl
  <2> QED
    <3>1. ASSUME NEW r \in Requests, Handle(r) PROVE Covered(s)'
      BY <2>3, <2>4, <2>5, <2>6, <2>7, <2>8, <3>1, Quiet DEF Handle
    <3> QED
      BY <1>2, <2>3, <2>9, <3>1
      DEF Next, signup, login, Arrive, Fail, deleteUser
<1> QED
  BY <1>1, <1>2

----------------------------------------------------------------------------
(* The SCAN loop. *)

\* What is still ahead when the loop resumes.
LEMMA ResumeAhead ==
  ASSUME req \in [Requests -> Request], NEW r \in Requests, NEW s \in Sids,
         NEW K \in SUBSET Sids, NEW c \in 0..MaxSid, Resume(r, K, c),
         s \in K \/ (c # 0 /\ s > c)
  PROVE  req'[r] # Idle /\ Ahead(r, s)'
<1>1. CASE K # {}
  <2>1. req'[r] = [req[r] EXCEPT !.pc = "invalidateDel", !.keys = K,
                                 !.cursor = c]
    BY <1>1 DEF Resume
  <2>2. /\ req'[r].pc = "invalidateDel"
        /\ req'[r].keys = K
        /\ req'[r].cursor = c
    BY <2>1 DEF Request
  <2> QED
    BY <2>2 DEF Ahead, Idle
<1>2. CASE K = {}
  <2>1. req'[r] = [req[r] EXCEPT !.pc = "scan", !.keys = {}, !.cursor = c]
    BY <1>2 DEF Resume
  <2>2. req'[r].pc = "scan" /\ req'[r].cursor = c
    BY <2>1 DEF Request
  <2> QED
    BY <1>2, <2>2 DEF Ahead, Idle
<1> QED
  BY <1>1, <1>2

\* The loop does not pass over a session that is to be invalidated.
LEMMA LoopAhead ==
  ASSUME IInv, Next, NEW q \in Requests, scan(q) \/ invalidateUntrack(q),
         NEW s \in req[q].goal, s \notin overlapped', s \notin torn', Live(s)'
  PROVE  req'[q] # Idle /\ Ahead(q, s)'
<1>0. TypeOK /\ ScanOK /\ UntrackAfterDel /\ RequestOK(q)
  BY DEF IInv
<1>1. s \in Sids /\ req[q].cursor \in 0..MaxSid /\ req[q].keys \subseteq Sids
  BY <1>0 DEF TypeOK, Request
<1>2. s \notin overlapped /\ s \notin torn
  BY HistoryStep
<1>3. req[q].userId \in Users /\ owner[s] = req[q].userId
  BY <1>0 DEF RequestOK, scan, invalidateUntrack, At
<1>4. Live(s)
  BY <1>1, <1>2, <1>3, BirthStep, StoreAssumption
<1>5. Tracked(req[q].userId, s) /\ Ahead(q, s)
  BY <1>0, <1>2, <1>4 DEF ScanOK
<1>6. CASE scan(q)
  <2> DEFINE K == scanKeys(req[q].userId, req[q].cursor)
             c == scanCursor(req[q].cursor)
  <2>1. K \in SUBSET Sids /\ c \in 0..MaxSid
    BY <1>1, <1>3, ScanType
  <2>2. s > req[q].cursor
    BY <1>5, <1>6 DEF Ahead, scan, At
  <2>3. s \in K \/ (c # 0 /\ s > c)
    BY <1>1, <1>5, <2>2, StoreAssumption DEF scanKeys, scanCursor, Sids
  <2>4. Resume(q, K, c)
    BY <1>6 DEF scan
  <2> QED
    <3> HIDE DEF K, c
    <3> QED BY <1>0, <1>1, <2>1, <2>3, <2>4, ResumeAhead DEF TypeOK
<1>7. CASE invalidateUntrack(q)
  <2> DEFINE K == req[q].keys \ {req[q].sid}
             c == req[q].cursor
  <2>1. s # req[q].sid
    BY <1>0, <1>2, <1>4, <1>7 DEF UntrackAfterDel, invalidateUntrack, At
  <2>2. s \in K \/ (c # 0 /\ s > c)
    BY <1>5, <1>7, <2>1 DEF Ahead, invalidateUntrack, At
  <2>3. Resume(q, K, c) /\ K \in SUBSET Sids /\ c \in 0..MaxSid
    BY <1>1, <1>7 DEF invalidateUntrack
  <2> QED
    <3> HIDE DEF K, c
    <3> QED BY <1>0, <1>1, <2>2, <2>3, ResumeAhead DEF TypeOK
<1> QED
  BY <1>6, <1>7

\* A live, uncontested session keeps its tracking key.
LEMMA KeepsTracking ==
  ASSUME IInv, Next, NEW s \in Sids, NEW u \in Users, owner[s] = u,
         s \notin overlapped', s \notin torn', Live(s), Live(s)', Tracked(u, s)
  PROVE  Tracked(u, s)'
<1>0. TypeOK' /\ SessionsTracked' /\ SessionsOwned' /\ owner'[s] = u
  BY TypeStep, TrackedStep, OwnedStep, HistoryStep, StoreAssumption DEF OwnedOK
<1> SUFFICES ASSUME ~Tracked(u, s)' PROVE FALSE
  OBVIOUS
<1>1. ~Written(s)
  BY RemovalStep
<1>2. track'[u][s] = 0
  BY <1>0 DEF Tracked, TypeOK, StoreTypeOK, Ttl
<1>3. session'[s].userId = u /\ session'[s].ttl > 0 /\ session'[s].ttl \in Nat
  BY <1>0 DEF SessionsOwned, Live, TypeOK, StoreTypeOK, ISessionData, Ttl
<1>4. PICK q \in Requests : Between(q, s)'
  BY <1>0, <1>2, <1>3 DEF SessionsTracked
<1>5. Writing(q, s)'
  BY <1>4 DEF Writing
<1>6. ~UNCHANGED redis
  BY DEF redis, Tracked
<1> QED
  BY <1>1, <1>5, <1>6, WritingStep, StoreAssumption DEF Written

\* The steps that leave a request in the SCAN loop.
LEMMA ScanSteps ==
  ASSUME TypeOK, NEW q \in Requests, Handle(q),
         req'[q].pc \in {"scan", "invalidateDel", "invalidateUntrack"}
  PROVE  updateWrite(q) \/ scan(q) \/ invalidateUntrack(q) \/ invalidateDel(q)
<1> USE DEF TypeOK, Request, Finish, Goto, Idle
<1>1. ~(createPut(q) \/ createTrack(q) \/ guardGet(q) \/ extendGet(q))
  BY DEF createPut, createTrack, guardGet, extendGet
<1>2. ~(extendPut(q) \/ extendTrack(q) \/ destroyGet(q) \/ destroyDel(q))
  BY DEF extendPut, extendTrack, destroyGet, destroyDel
<1>3. ~(destroyUntrack(q) \/ findUser(q) \/ updateFind(q))
  BY DEF destroyUntrack, findUser, updateFind
<1> QED
  BY <1>1, <1>2, <1>3 DEF Handle

\* A session invalidateUserSessions is to end is ahead of it in the walk,
\* or already gone.
LEMMA ScanStep == IInv /\ [Next]_vars => ScanOK'
<1> SUFFICES ASSUME IInv, [Next]_vars PROVE ScanOK'
  OBVIOUS
<1>0. /\ TypeOK /\ ScanOK /\ \A r \in Requests : RequestOK(r)
      /\ TypeOK' /\ RequestsOK' /\ SessionsTracked' /\ SessionsOwned'
  BY TypeStep, RequestsStep, TrackedStep, OwnedStep DEF IInv, OwnedOK
<1>1. CASE UNCHANGED vars
  BY <1>0, <1>1 DEF vars, redis, hist, ScanOK, Ahead, Live, Tracked
<1>2. CASE Next
  <2> SUFFICES ASSUME NEW q \in Requests, NEW s \in req'[q].goal,
                      s \notin overlapped', s \notin torn', Live(s)'
               PROVE  Tracked(req[q].userId, s)' /\ Ahead(q, s)'
    BY DEF ScanOK
  <2>1. s \in Sids /\ s \notin overlapped /\ s \notin torn
    BY <1>0, <1>2, HistoryStep DEF TypeOK, Request
  <2>2. req'[q].pc \in {"scan", "invalidateDel", "invalidateUntrack"}
    BY <1>0 DEF RequestsOK, RequestOK
  <2>3. CASE updateWrite(q)
    <3>1. /\ Tracked(req[q].userId, s)
          /\ req'[q].pc = "scan" /\ req'[q].cursor = req[q].cursor
          /\ req'[q].userId = req[q].userId
      BY <1>0, <2>3 DEF updateWrite, Finish, Idle, TypeOK, Request
    <3>2. req[q].cursor = 0
      BY <1>0, <2>3 DEF updateWrite, At, RequestOK
    <3> QED
      BY <2>1, <2>3, <3>1, <3>2 DEF updateWrite, redis, Tracked, Ahead, Sids
  <2>4. CASE ~updateWrite(q)
    <3>1. CASE req'[q] = req[q]
      <4>1. owner[s] = req[q].userId /\ req[q].userId \in Users
        BY <1>0, <2>2, <3>1 DEF RequestOK
      <4>2. Live(s)
        BY <1>2, <2>1, <4>1, BirthStep, StoreAssumption
      <4>3. Tracked(req[q].userId, s) /\ Ahead(q, s)
        BY <1>0, <2>1, <3>1, <4>2 DEF ScanOK
      <4> QED
        BY <1>2, <2>1, <3>1, <4>1, <4>2, <4>3, KeepsTracking DEF Ahead
    <3>2. CASE req'[q] # req[q]
      <4>1. Handle(q)
        BY <1>0, <1>2, <2>2, <3>2, Mover
      <4>2. scan(q) \/ invalidateUntrack(q) \/ invalidateDel(q)
        BY <1>0, <2>2, <2>4, <4>1, ScanSteps
      <4>3. req'[q].goal = req[q].goal /\ req'[q].userId = req[q].userId
        <5>1. ASSUME NEW K, NEW c, Resume(q, K, c)
              PROVE  /\ req'[q].goal = req[q].goal
                     /\ req'[q].userId = req[q].userId
          BY <1>0, <2>2, <5>1 DEF Resume, Idle, TypeOK, Request
        <5>2. CASE invalidateDel(q)
          BY <1>0, <5>2 DEF invalidateDel, TypeOK, Request
        <5> QED
          BY <4>2, <5>1, <5>2 DEF scan, invalidateUntrack
      <4>4. owner[s] = req[q].userId /\ req[q].userId \in Users
        BY <1>0, <4>2, <4>3
        DEF RequestOK, scan, invalidateUntrack, invalidateDel, At
      <4>5. Live(s)
        BY <1>2, <2>1, <4>4, BirthStep, StoreAssumption
      <4>6. Tracked(req[q].userId, s) /\ Ahead(q, s)
        BY <1>0, <2>1, <4>3, <4>5 DEF ScanOK
      <4>7. Tracked(req[q].userId, s)'
        BY <1>2, <2>1, <4>3, <4>4, <4>5, <4>6, KeepsTracking
      <4>8. Ahead(q, s)'
        <5>1. CASE scan(q) \/ invalidateUntrack(q)
          BY <1>2, <4>3, <5>1, LoopAhead
        <5>2. CASE invalidateDel(q)
          <6>1. /\ req'[q].pc = "invalidateUntrack"
                /\ req'[q].keys = req[q].keys /\ req'[q].cursor = req[q].cursor
            BY <1>0, <5>2 DEF invalidateDel, TypeOK, Request
          <6> QED
            BY <4>6, <5>2, <6>1 DEF Ahead, invalidateDel, At
        <5> QED
          BY <4>2, <5>1, <5>2
      <4> QED
        BY <4>7, <4>8
    <3> QED
      BY <3>1, <3>2
  <2> QED
    BY <2>3, <2>4
<1> QED
  BY <1>1, <1>2

----------------------------------------------------------------------------
(* Contested sessions. *)

\* A session is contested by the removal of a key while it is written.
LEMMA ContestStep ==
  ASSUME Next, NEW s \in overlapped', s \notin overlapped
  PROVE  Written(s)
<1> USE DEF Removed, hist
<1>1. ASSUME NEW r \in Requests, Handle(r) PROVE Written(s)
  BY <1>1, Quiet
  DEF Handle, createPut, createTrack, extendPut, extendTrack, destroyDel,
      destroyUntrack, invalidateDel, invalidateUntrack
<1> QED
  BY <1>1 DEF Next, signup, login, Arrive, Fail, deleteUser, Tick

\* Only a session id that was issued can be contested.
LEMMA OverlappedIssuedStep == IInv /\ [Next]_vars => OverlappedIssued'
<1> SUFFICES ASSUME IInv, [Next]_vars, NEW s \in overlapped'
             PROVE  owner'[s] # NoUser
  BY DEF OverlappedIssued
<1>0. /\ TypeOK /\ TypeOK' /\ OverlappedIssued
      /\ \A r \in Requests : RequestOK(r)
  BY TypeStep DEF IInv
<1>1. CASE UNCHANGED vars
  BY <1>0, <1>1 DEF vars, hist, OverlappedIssued
<1>2. CASE Next
  <2>1. s \in Sids
    BY <1>0 DEF TypeOK
  <2>2. s \in overlapped \/ Written(s)
    BY <1>2, ContestStep
  <2>3. owner[s] # NoUser
    BY <1>0, <2>2, StoreAssumption
    DEF OverlappedIssued, Written, Writing, Between, RequestOK
  <2> QED
    BY <1>2, <2>1, <2>3, HistoryStep
<1> QED
  BY <1>1, <1>2

----------------------------------------------------------------------------
(* The theorems. *)

\* With no session, no account and every slot idle, IInv holds.
LEMMA InitIInv == Init => IInv
<1> SUFFICES ASSUME Init PROVE IInv
  OBVIOUS
<1> USE StoreAssumption, IdleType, AbsentType
    DEF Init, StoreInit, Live, Tracked, Absent
<1>1. TypeOK
  <2>1. session \in [Sids -> ISessionData]
    BY DEF ISessionData, Ttl
  <2>2. track \in [Users -> [Sids -> Ttl]]
    BY DEF Ttl
  <2>3. password \in [Users -> Password]
    BY DEF Blank, Password
  <2> QED
    BY <2>1, <2>2, <2>3 DEF TypeOK, StoreTypeOK
<1>2. LiveOwned /\ SessionsOwned /\ SessionsTracked
  BY DEF LiveOwned, SessionsOwned, SessionsTracked
<1>3. \A r \in Requests : RequestOK(r) /\ SecretOK(r)
  BY DEF RequestOK, SecretOK, Idle, Blank
<1>4. WriterSeesEnd /\ UntrackAfterDel /\ ScanOK
  BY DEF WriterSeesEnd, Writing, Between, UntrackAfterDel, ScanOK, Idle
<1>5. OverlappedIssued
  BY DEF OverlappedIssued
<1> QED
  BY <1>1, <1>2, <1>3, <1>4, <1>5 DEF IInv

\* Every step of the service, of Redis and of the clients preserves IInv.
LEMMA StepIInv == IInv /\ [Next]_vars => IInv'
BY TypeStep, RequestsStep, OwnedStep, WriterStep, UntrackStep, TrackedStep,
   ScanStep, OverlappedIssuedStep
DEF IInv, RequestsOK, OwnedOK

\* IInv is an inductive invariant of Auth.
THEOREM Invariance == Spec => []IInv
BY InitIInv, StepIInv, PTL DEF Spec

\* Type correctness: every request, key and account has the shape the code
\* gives it, a password is hashed twice at most.
THEOREM TypeCorrect == Spec => []TypeOK
<1>1. IInv => TypeOK
  BY DEF IInv
<1> QED
  BY <1>1, Invariance, PTL

\* invalidateUserSessions can find every live session, but for those whose
\* writer is half way, failed half way, or met a removal.
THEOREM TrackedTheorem == Spec => []SessionsTracked
<1>1. IInv => SessionsTracked
  BY DEF IInv
<1> QED
  BY <1>1, Invariance, PTL

\* No write-back by extendSession gives a session to another user.
THEOREM OwnedTheorem == Spec => []SessionsOwned
<1>1. IInv => SessionsOwned
  BY DEF IInv
<1> QED
  BY <1>1, Invariance, PTL

\* Logout, invalidation and expiry are final unless contested.
THEOREM FinalTheorem == Spec => NoResurrection
<1> DEFINE A == \A s \in Sids \ overlapped :
                  ~Live(s) /\ Live(s)' => owner[s] = NoUser
<1>1. IInv /\ [Next]_vars => [A]_vars
  BY BirthStep
<1> QED
  BY <1>1, Invariance, PTL DEF Spec, NoResurrection

\* When changePassword returns, the user's earlier sessions are gone, but
\* for those of TrackedTheorem, however SCAN's batches fell.
THEOREM InvalidationTheorem == Spec => InvalidationComplete
<1> DEFINE A == \A r \in Requests : Invalidated(r) =>
                  \A s \in req[r].goal \ (overlapped' \cup torn) : ~Live(s)'
<1>1. IInv /\ [Next]_vars => [A]_vars
  <2> SUFFICES ASSUME IInv, Next, NEW r \in Requests, Invalidated(r),
                      NEW s \in req[r].goal, s \notin overlapped',
                      s \notin torn, Live(s)'
               PROVE  FALSE
    OBVIOUS
  <2>1. s \notin torn'
    BY DEF Invalidated, scan, invalidateUntrack, hist
  <2>2. req'[r] # Idle
    BY <2>1, LoopAhead DEF Invalidated
  <2> QED
    BY <2>2 DEF Invalidated
<1> QED
  BY <1>1, Invariance, PTL DEF Spec, InvalidationComplete

\* invalidateUserSessions takes away sessions of its own user only, though the
\* session ids come from the keys that SCAN reported.
THEOREM SelectiveTheorem == Spec => InvalidationSelective
<1> DEFINE A == \A r \in Requests :
                  invalidateDel(r) => owner[req'[r].sid] = req[r].userId
<1>1. IInv /\ [Next]_vars => [A]_vars
  <2> SUFFICES ASSUME IInv, NEW r \in Requests, invalidateDel(r)
               PROVE  owner[req'[r].sid] = req[r].userId
    OBVIOUS
  <2>1. PICK s \in req[r].keys :
          req' = [req EXCEPT ![r].pc = "invalidateUntrack", ![r].sid = s]
    BY DEF invalidateDel
  <2>2. req'[r].sid = s
    BY <2>1 DEF IInv, TypeOK, Request
  <2> QED
    BY <2>2 DEF IInv, RequestOK
<1> QED
  BY <1>1, Invariance, PTL DEF Spec, InvalidationSelective

----------------------------------------------------------------------------
(* Unused sessions age. *)

\* The keys of a session are given time by requests that have it at hand.
LEMMA UnusedStep ==
  ASSUME IInv, Next, NEW s \in Sids, Unused(s)
  PROVE  NoLonger(s)
<1>0. TypeOK /\ \A r \in Requests : RequestOK(r)
  BY DEF IInv
<1>a. session[s].ttl \in Int /\ \A u \in Users : track[u][s] \in Int
  BY <1>0, StoreAssumption DEF TypeOK, StoreTypeOK, ISessionData, Ttl
<1>1. ASSUME UNCHANGED redis PROVE NoLonger(s)
  BY <1>1, <1>a DEF redis, NoLonger
<1>2. ASSUME track' = track, session'[s] = session[s] PROVE NoLonger(s)
  BY <1>2, <1>a DEF NoLonger
<1>3. ASSUME session' = session,
             \A u \in Users : track'[u][s] = track[u][s] \/ track'[u][s] = 0
      PROVE  NoLonger(s)
  <2>1. \A u \in Users : 0 <= track[u][s]
    BY <1>0, StoreAssumption DEF TypeOK, StoreTypeOK, Ttl
  <2> QED BY <1>3, <1>a, <2>1 DEF NoLonger
<1>4. ASSUME NEW r \in Requests, createPut(r) PROVE NoLonger(s)
  <2>1. PICK t \in Sids : owner[t] = NoUser /\ setexSession(t, req[r].userId)
    BY <1>4 DEF createPut
  <2>2. s # t
    BY <2>1 DEF Unused
  <2> QED
    BY <1>2, <1>4, <2>1, <2>2, <1>0
    DEF createPut, setexSession, TypeOK, StoreTypeOK
<1>5. ASSUME NEW r \in Requests, extendPut(r) PROVE NoLonger(s)
  BY <1>2, <1>5, <1>0
  DEF extendPut, setexSession, Unused, TypeOK, StoreTypeOK
<1>6. ASSUME NEW r \in Requests, createTrack(r) \/ extendTrack(r)
      PROVE  NoLonger(s)
  <2>1. \A u \in Users : track'[u][s] = track[u][s]
    <3>1. /\ setexTracking(req[r].userId, req[r].sid)
          /\ req[r].userId \in Users /\ req[r].sid # s
      BY <1>6, <1>0 DEF createTrack, extendTrack, RequestOK, At, Unused
    <3> QED BY <3>1, <1>0 DEF setexTracking, TypeOK, StoreTypeOK
  <2>2. session' = session
    BY <1>6 DEF createTrack, extendTrack
  <2> QED BY <1>3, <2>1, <2>2
<1>7. ASSUME NEW r \in Requests, destroyDel(r) \/ invalidateDel(r)
      PROVE  NoLonger(s)
  <2>1. PICK t : delSession(t)
    BY <1>7 DEF destroyDel, invalidateDel
  <2>2. track' = track
    BY <1>7 DEF destroyDel, invalidateDel
  <2>3. session'[s] = session[s] \/ session'[s] = Absent
    BY <2>1, <1>0 DEF delSession, TypeOK, StoreTypeOK
  <2>4. session[s].ttl >= 0
    BY <1>0, StoreAssumption DEF TypeOK, StoreTypeOK, ISessionData, Ttl
  <2> QED BY <1>a, <2>2, <2>3, <2>4 DEF NoLonger, Absent
<1>8. ASSUME NEW r \in Requests, destroyUntrack(r) \/ invalidateUntrack(r)
      PROVE  NoLonger(s)
  <2>1. /\ delTracking(req[r].userId, req[r].sid) /\ session' = session
        /\ req[r].userId \in Users
    BY <1>8, <1>0 DEF destroyUntrack, invalidateUntrack, RequestOK, At
  <2>2. \A u \in Users : track'[u][s] = track[u][s] \/ track'[u][s] = 0
    BY <2>1, <1>0 DEF delTracking, TypeOK, StoreTypeOK
  <2> QED BY <1>3, <2>1, <2>2
<1>9. CASE Tick
  <2>1. session'[s].ttl <= session[s].ttl
    BY <1>9, <1>0, StoreAssumption
    DEF Tick, Expire, Absent, TypeOK, StoreTypeOK, ISessionData, Ttl
  <2>2. \A u \in Users : track'[u][s] <= track[u][s]
    BY <1>9, <1>0, StoreAssumption
    DEF Tick, Expire, TypeOK, StoreTypeOK, Ttl
  <2> QED BY <2>1, <2>2 DEF NoLonger
<1> QED
  <2>1. ASSUME NEW r \in Requests, Handle(r) PROVE NoLonger(s)
    BY <1>1, <1>4, <1>5, <1>6, <1>7, <1>8, <2>1, Quiet DEF Handle
  <2>2. ASSUME NEW r \in Requests, Fail(r) PROVE NoLonger(s)
    BY <1>1, <2>2 DEF Fail
  <2>3. ASSUME NEW r \in Requests, NEW u \in Users, NEW p \in Passwords,
               signup(r, u, p) \/ login(r, u, p)
        PROVE  NoLonger(s)
    BY <1>1, <2>3 DEF signup, login
  <2>4. ASSUME NEW r \in Requests, NEW op \in Guarded, NEW t \in Sids,
               NEW p \in Passwords \cup {NoPassword}, Arrive(r, op, t, p)
        PROVE  NoLonger(s)
    BY <1>1, <2>4 DEF Arrive
  <2>5. ASSUME NEW u \in Users, deleteUser(u) PROVE NoLonger(s)
    BY <1>1, <2>5 DEF deleteUser
  <2> QED
    BY <1>9, <2>1, <2>2, <2>3, <2>4, <2>5 DEF Next

\* Every tick takes its share of every key that is there.
LEMMA TickStep ==
  ASSUME TypeOK, Tick, NEW s \in Sids
  PROVE  Shorter(s)
<1>1. Live(s) => session'[s].ttl < session[s].ttl
  BY StoreAssumption
  DEF Tick, Expire, Absent, TypeOK, StoreTypeOK, ISessionData, Ttl, Live
<1>2. \A u \in Users : Tracked(u, s) => track'[u][s] < track[u][s]
  BY StoreAssumption DEF Tick, Expire, TypeOK, StoreTypeOK, Ttl, Tracked
<1> QED BY <1>1, <1>2 DEF Shorter

\* No request gives time to a session it does not have at hand, and time
\* takes its share of every key: what an interrupted logout or invalidation
\* leaves of a session is gone SessionTimeout ticks later.
THEOREM AgeTheorem == Spec => UnusedSessionsAge
<1> DEFINE A == /\ \A s \in Sids : Unused(s) => NoLonger(s)
                /\ Tick => \A s \in Sids : Shorter(s)
<1>1. IInv /\ [Next]_vars => [A]_vars
  BY UnusedStep, TickStep DEF IInv
<1> QED
  BY <1>1, Invariance, PTL DEF Spec, UnusedSessionsAge

----------------------------------------------------------------------------
(* A request gets nearer to its answer. *)

\* The loop of invalidateUserSessions deletes a key only while it has one.
KeysAtHand ==
  \A r \in Requests :
    /\ At(r, "invalidateDel") => req[r].keys # {}
    /\ At(r, "invalidateUntrack") => req[r].sid \in req[r].keys

\* A set of session ids is finite.
LEMMA SidsFinite ==
  ASSUME NEW K \in SUBSET Sids
  PROVE  IsFiniteSet(K) /\ Cardinality(K) \in Nat
<1>1. IsFiniteSet(Sids)
  <2>1. IsFiniteSet(1..MaxSid)
    BY FS_Interval, StoreAssumption
  <2> QED
    BY <2>1 DEF Sids
<1>2. IsFiniteSet(K)
  BY <1>1, FS_Subset
<1> QED
  BY <1>2, FS_CardinalityType

\* The part of Calls behind the keys at hand.
rest(c) == IF c = 0 THEN 0 ELSE loopCalls(c)

\* A step that is not r's leaves r alone.
LEMMA OthersStep ==
  ASSUME TypeOK, [Next]_vars, NEW r \in Requests, ~At(r, "idle"),
         ~Handle(r), ~Fail(r)
  PROVE  req'[r] = req[r]
<1>1. CASE UNCHANGED vars
  BY <1>1 DEF vars
<1>2. ASSUME NEW q \in Requests, q # r, Handle(q) PROVE req'[r] = req[r]
  BY <1>2
  DEF TypeOK, Handle, createPut, createTrack, guardGet, extendGet, extendPut,
      extendTrack, destroyGet, destroyDel, destroyUntrack, findUser,
      updateFind, updateWrite, scan, invalidateDel, invalidateUntrack,
      Resume, Goto, Finish
<1>3. ASSUME NEW q \in Requests, q # r, Fail(q) PROVE req'[r] = req[r]
  BY <1>3 DEF TypeOK, Fail, Finish
<1>4. ASSUME NEW q \in Requests, NEW u \in Users, NEW p \in Passwords,
             signup(q, u, p) \/ login(q, u, p)
      PROVE  req'[r] = req[r]
  BY <1>4 DEF TypeOK, signup, login, At
<1>5. ASSUME NEW q \in Requests, NEW op \in Guarded, NEW s \in Sids,
             NEW p \in Passwords \cup {NoPassword}, Arrive(q, op, s, p)
      PROVE  req'[r] = req[r]
  BY <1>5 DEF TypeOK, Arrive, At
<1>6. ASSUME NEW u \in Users, deleteUser(u) PROVE req'[r] = req[r]
  BY <1>6 DEF deleteUser
<1>7. CASE Tick
  BY <1>7 DEF Tick
<1> QED
  BY <1>1, <1>2, <1>3, <1>4, <1>5, <1>6, <1>7 DEF Next

\* Every step keeps a key at hand for the deletions of the loop.
LEMMA KeysAtHandStep == TypeOK /\ KeysAtHand /\ [Next]_vars => KeysAtHand'
<1> SUFFICES ASSUME TypeOK, KeysAtHand, [Next]_vars, NEW r \in Requests
             PROVE  /\ At(r, "invalidateDel")' => req'[r].keys # {}
                    /\ At(r, "invalidateUntrack")' => req'[r].sid \in req'[r].keys
  BY DEF KeysAtHand
<1>1. CASE req'[r] = req[r]
  BY <1>1 DEF KeysAtHand, At
<1>2. CASE scan(r) \/ invalidateUntrack(r)
  <2>1. PICK K, c : Resume(r, K, c)
    BY <1>2 DEF scan, invalidateUntrack
  <2>2. \/ req'[r].pc = "invalidateDel" /\ req'[r].keys = K /\ K # {}
        \/ req'[r].pc \in {"scan", "idle"}
    BY <2>1 DEF Resume, TypeOK, Request, Idle
  <2> QED
    BY <2>2 DEF At
<1>3. CASE invalidateDel(r)
  BY <1>3 DEF invalidateDel, TypeOK, Request, At
<1>4. CASE updateWrite(r)
  <2>1. req'[r].pc \in {"scan", "idle"}
    BY <1>4 DEF updateWrite, Finish, TypeOK, Request, Idle
  <2> QED
    BY <2>1 DEF At
<1>5. ASSUME \/ createPut(r) \/ createTrack(r) \/ guardGet(r) \/ extendGet(r)
             \/ extendPut(r) \/ extendTrack(r) \/ destroyGet(r)
             \/ destroyDel(r) \/ destroyUntrack(r)
             \/ findUser(r) \/ updateFind(r) \/ Fail(r)
      PROVE  ~At(r, "invalidateDel")' /\ ~At(r, "invalidateUntrack")'
  BY <1>5
  DEF createPut, createTrack, guardGet, extendGet, extendPut, extendTrack,
      destroyGet, destroyDel, destroyUntrack, findUser, updateFind, Fail,
      Goto, Finish, TypeOK, Request, At, Idle
<1>6. CASE req'[r].pc \in {"createPut", "guardGet", "idle"}
  BY <1>6 DEF At
<1> QED
  BY <1>1, <1>2, <1>3, <1>4, <1>5, <1>6, Mover DEF Handle, vars

\* What Resume leaves to be done.
LEMMA ResumeCalls ==
  ASSUME TypeOK, NEW r \in Requests, NEW K \in SUBSET Sids,
         NEW c \in 0..MaxSid, Resume(r, K, c)
  PROVE  Calls(r)' = 2 * Cardinality(K) + rest(c)
<1> USE DEF TypeOK, Request, Resume, Calls, At, rest, Idle
<1>0. Cardinality({}) = 0 /\ rest(c) \in Int
  BY FS_EmptySet, StoreAssumption DEF loopCalls
<1>1. CASE K # {}
  <2>1. /\ req'[r].pc = "invalidateDel"
        /\ req'[r].keys = K /\ req'[r].cursor = c
    BY <1>1
  <2> QED
    BY <2>1
<1>2. CASE K = {} /\ c # 0
  <2>1. req'[r].pc = "scan" /\ req'[r].cursor = c
    BY <1>2
  <2>2. Calls(r)' = loopCalls(c)
    BY <2>1
  <2> QED
    BY <1>0, <1>2, <2>2
<1>3. CASE K = {} /\ c = 0
  <2>1. req'[r].pc = "idle"
    BY <1>3
  <2>2. Calls(r)' = 0
    BY <2>1
  <2> QED
    BY <1>0, <1>3, <2>2
<1> QED
  BY <1>1, <1>2, <1>3

\* SCAN reports at most one key of a user for each bucket it visits.
LEMMA ScanBatch ==
  ASSUME NEW u \in Users, NEW c \in 0..MaxSid
  PROVE  /\ IsFiniteSet(scanKeys(u, c))
         /\ Cardinality(scanKeys(u, c)) \in 0 .. (MaxSid - c)
         /\ Cardinality(scanKeys(u, c)) <= ScanCount
<1> USE StoreAssumption
<1>1. ASSUME NEW n \in Nat, scanKeys(u, c) \subseteq (c + 1) .. (c + n)
      PROVE  /\ IsFiniteSet(scanKeys(u, c))
             /\ Cardinality(scanKeys(u, c)) \in 0 .. n
  <2>1. /\ IsFiniteSet((c + 1) .. (c + n))
        /\ Cardinality((c + 1) .. (c + n)) = n
    BY FS_Interval
  <2>2. /\ IsFiniteSet(scanKeys(u, c))
        /\ Cardinality(scanKeys(u, c)) <= n
    BY <1>1, <2>1, FS_Subset
  <2> QED
    BY <2>2, FS_CardinalityType
<1>2. scanKeys(u, c) \subseteq (c + 1) .. (c + ScanCount)
  BY DEF scanKeys, Sids
<1>3. scanKeys(u, c) \subseteq (c + 1) .. (c + (MaxSid - c))
  BY DEF scanKeys, Sids
<1> QED
  BY <1>1, <1>2, <1>3

\* A request that is not idle waits for at least one call.
LEMMA CallsPositive ==
  ASSUME TypeOK, KeysAtHand, NEW r \in Requests, ~At(r, "idle")
  PROVE  Calls(r) \in Nat \ {0}
<1> USE StoreAssumption
<1>1. req[r].cursor \in 0..MaxSid /\ req[r].keys \in SUBSET Sids /\ req[r].pc \in Step
  BY DEF TypeOK, Request
<1>2. loopCalls(req[r].cursor) \in Nat \ {0} /\ loopCalls(0) \in Nat \ {0}
  BY <1>1 DEF loopCalls
<1>3. CASE At(r, "invalidateDel") \/ At(r, "invalidateUntrack")
  <2>1. IsFiniteSet(req[r].keys) /\ req[r].keys # {}
    BY <1>1, <1>3, SidsFinite DEF KeysAtHand
  <2>2. Cardinality(req[r].keys) \in Nat \ {0}
    BY <2>1, FS_CardinalityType, FS_EmptySet
  <2> QED
    BY <1>2, <1>3, <2>2 DEF Calls, At
<1>4. CASE At(r, "scan")
  BY <1>2, <1>4 DEF Calls, At
<1>5. CASE /\ ~At(r, "scan") /\ ~At(r, "invalidateDel")
           /\ ~At(r, "invalidateUntrack")
  <2>1. Calls(r) = stage[req[r].pc] + loopCalls(0)
    BY <1>5 DEF Calls, At
  <2>2. stage[req[r].pc] \in Nat
    BY <1>1, <1>5 DEF stage, Step, At
  <2> QED
    BY <1>2, <2>1, <2>2
<1> QED
  BY <1>3, <1>4, <1>5

\* Outside the loop, a request goes from a step to one of a lower stage.
LEMMA StageStep ==
  ASSUME TypeOK, NEW r \in Requests, ~At(r, "idle"),
         \/ createPut(r) \/ guardGet(r) \/ extendGet(r) \/ extendPut(r)
         \/ extendTrack(r) \/ destroyGet(r) \/ destroyDel(r)
         \/ findUser(r) \/ updateFind(r)
  PROVE  \/ req'[r].pc = "idle"
         \/ /\ req[r].pc \in DOMAIN stage /\ req'[r].pc \in DOMAIN stage
            /\ stage[req'[r].pc] < stage[req[r].pc]
BY DEF createPut, guardGet, extendGet, extendPut, extendTrack, destroyGet,
       destroyDel, findUser, updateFind, Goto, Finish, Idle, At, stage,
       TypeOK, Request

\* Each call that returns or is rejected brings the request nearer to its
\* answer.
LEMMA CallAdvances ==
  ASSUME IInv, KeysAtHand, NEW r \in Requests, ~At(r, "idle"),
         Handle(r) \/ Fail(r)
  PROVE  Calls(r)' \in 0 .. (Calls(r) - 1)
<1> USE StoreAssumption
<1>0. /\ TypeOK /\ RequestOK(r)
      /\ req[r].cursor \in 0..MaxSid /\ req[r].keys \in SUBSET Sids
  BY DEF IInv, TypeOK, Request
<1>1. Calls(r) \in Nat \ {0} /\ rest(req[r].cursor) \in Nat
  BY <1>0, CallsPositive DEF rest, loopCalls
<1>2. CASE req'[r].pc = "idle"
  BY <1>1, <1>2 DEF Calls, At
<1>3. CASE \/ createPut(r) \/ guardGet(r) \/ extendGet(r) \/ extendPut(r)
           \/ extendTrack(r) \/ destroyGet(r) \/ destroyDel(r)
           \/ findUser(r) \/ updateFind(r)
  <2> SUFFICES ASSUME req'[r].pc # "idle"
               PROVE  Calls(r)' \in 0 .. (Calls(r) - 1)
    BY <1>2
  <2>1. /\ req[r].pc \in DOMAIN stage /\ req'[r].pc \in DOMAIN stage
        /\ stage[req'[r].pc] < stage[req[r].pc]
    BY <1>0, <1>3, StageStep
  <2>2. /\ Calls(r) = stage[req[r].pc] + loopCalls(0)
        /\ Calls(r)' = stage[req'[r].pc] + loopCalls(0)
    BY <2>1 DEF Calls, At, stage
  <2>3. /\ stage[req[r].pc] \in Nat /\ stage[req'[r].pc] \in Nat
        /\ loopCalls(0) \in Nat
    BY <2>1 DEF stage, loopCalls
  <2> QED
    BY <2>1, <2>2, <2>3
<1>4. CASE updateWrite(r)
  <2> SUFFICES ASSUME req'[r].pc # "idle"
               PROVE  Calls(r)' \in 0 .. (Calls(r) - 1)
    BY <1>2
  <2>1. req[r].pc = "updateWrite" /\ req[r].cursor = 0
    BY <1>0, <1>4 DEF updateWrite, At, RequestOK
  <2>2. req'[r].pc = "scan" /\ req'[r].cursor = 0
    BY <1>0, <1>4, <2>1 DEF updateWrite, Finish, Idle, TypeOK, Request
  <2>3. /\ Calls(r) = 1 + loopCalls(0)
        /\ Calls(r)' = loopCalls(0)
    BY <2>1, <2>2 DEF Calls, At, stage
  <2> QED
    BY <2>3 DEF loopCalls
<1>5. CASE scan(r)
  <2> DEFINE c == req[r].cursor
             K == scanKeys(req[r].userId, c)
             d == scanCursor(c)
  <2>1. req[r].userId \in Users /\ Calls(r) = loopCalls(c)
    BY <1>0, <1>5 DEF scan, At, RequestOK, Calls
  <2>2. K \in SUBSET Sids /\ d \in 0..MaxSid
    BY <1>0, <2>1, ScanType
  <2>3. Calls(r)' = 2 * Cardinality(K) + rest(d)
    BY <1>0, <1>5, <2>2, ResumeCalls DEF scan
  <2>4. Cardinality(K) \in 0 .. (MaxSid - c) /\ Cardinality(K) <= ScanCount
    BY <1>0, <2>1, ScanBatch
  <2>5. d = 0 \/ (d = c + ScanCount /\ c + ScanCount < MaxSid)
    BY <1>0 DEF scanCursor
  <2>6. c \in 0..MaxSid
    BY <1>0
  <2> HIDE DEF c, K, d
  <2> QED
    BY <2>1, <2>3, <2>4, <2>5, <2>6 DEF rest, loopCalls
<1>6. CASE invalidateDel(r)
  <2>1. /\ req[r].pc = "invalidateDel" /\ req'[r].pc = "invalidateUntrack"
        /\ req'[r].keys = req[r].keys /\ req'[r].cursor = req[r].cursor
    BY <1>0, <1>6 DEF invalidateDel, At, TypeOK, Request
  <2>2. Cardinality(req[r].keys) \in Nat
    BY <1>0, SidsFinite
  <2>3. /\ Calls(r) = 2 * Cardinality(req[r].keys) + rest(req[r].cursor)
        /\ Calls(r)' = 2 * Cardinality(req[r].keys) - 1 + rest(req[r].cursor)
    BY <2>1 DEF Calls, At, rest
  <2> QED
    BY <1>1, <2>2, <2>3
<1>7. CASE invalidateUntrack(r)
  <2> DEFINE K == req[r].keys
             s == req[r].sid
             c == req[r].cursor
  <2>1. s \in K /\ req[r].pc = "invalidateUntrack"
    BY <1>7 DEF KeysAtHand, invalidateUntrack, At
  <2>2. IsFiniteSet(K)
    BY <1>0, SidsFinite
  <2>3. /\ Cardinality(K) \in Nat /\ Cardinality(K \ {s}) \in Nat
        /\ Cardinality(K \ {s}) = Cardinality(K) - 1
    BY <2>1, <2>2, FS_RemoveElement, FS_CardinalityType
  <2>4. Calls(r)' = 2 * Cardinality(K \ {s}) + rest(c)
    BY <1>0, <1>7, ResumeCalls DEF invalidateUntrack
  <2>5. Calls(r) = 2 * Cardinality(K) - 1 + rest(c)
    BY <2>1 DEF Calls, At, rest
  <2> HIDE DEF K, s, c
  <2>6. rest(c) \in Nat
    BY <1>1 DEF c
  <2> QED
    BY <2>3, <2>4, <2>5, <2>6
<1>8. CASE createTrack(r) \/ destroyUntrack(r) \/ Fail(r)
  BY <1>0, <1>2, <1>8
  DEF createTrack, destroyUntrack, Fail, Finish, Idle, TypeOK
<1> QED
  BY <1>3, <1>4, <1>5, <1>6, <1>7, <1>8 DEF Handle

\* With every slot idle there is no key to delete.
LEMMA AdvanceInvariance == Spec => []KeysAtHand
<1>1. Init => KeysAtHand
  BY DEF Init, KeysAtHand, At, Idle
<1>2. IInv => TypeOK
  BY DEF IInv
<1> QED
  BY <1>1, <1>2, KeysAtHandStep, Invariance, PTL DEF Spec

\* Every call of a request that returns or is rejected brings the request
\* nearer to its answer by the measure Calls, and no other step of the
\* system sets it back: the do-while loop over SCAN ends whatever keys the
\* others add and remove meanwhile.
THEOREM AdvanceTheorem == Spec => RequestsAdvance
<1> DEFINE A == \A r \in Requests : ~At(r, "idle") =>
                  IF Handle(r) \/ Fail(r)
                    THEN Calls(r)' \in 0 .. (Calls(r) - 1)
                    ELSE Calls(r)' = Calls(r)
<1>1. IInv /\ KeysAtHand /\ [Next]_vars => [A]_vars
  <2> SUFFICES ASSUME IInv, KeysAtHand, [Next]_vars,
                      NEW r \in Requests, ~At(r, "idle")
               PROVE  IF Handle(r) \/ Fail(r)
                        THEN Calls(r)' \in 0 .. (Calls(r) - 1)
                        ELSE Calls(r)' = Calls(r)
    OBVIOUS
  <2>1. CASE Handle(r) \/ Fail(r)
    BY <2>1, CallAdvances
  <2>2. CASE ~(Handle(r) \/ Fail(r))
    <3>1. req'[r] = req[r]
      BY <2>2, OthersStep DEF IInv
    <3> QED
      BY <2>2, <3>1 DEF Calls, At
  <2> QED
    BY <2>1, <2>2
<1> QED
  BY <1>1, Invariance, AdvanceInvariance, PTL DEF Spec, RequestsAdvance

----------------------------------------------------------------------------
(* Auth implements SessionLife. *)

\* At start no session id has been issued: SessionLife's initial state.
LEMMA LifeInit == Init => Life!Init
BY DEF Init, StoreInit, Life!Init, life, Live, Absent

\* createSession is the birth of a session.
LEMMA LifeCreate ==
  ASSUME IInv, NEW r \in Requests, createPut(r) PROVE Life!Next
<1>0. TypeOK /\ TypeOK' /\ OverlappedIssued /\ SessionsOwned /\ LiveOwned
  BY TypeStep DEF IInv, Next, Handle
<1> PICK s \in Sids : owner[s] = NoUser /\ createPut(r)!2!(s)
  BY DEF createPut
<1>1. life[s] = "unborn"
  BY <1>0, StoreAssumption
  DEF life, OverlappedIssued, SessionsOwned, LiveOwned
<1>2. overlapped' = overlapped /\ s \notin overlapped
  BY <1>0 DEF createPut, OverlappedIssued
<1>3. life'[s] = "live"
  BY <1>0, <1>2, StoreAssumption
  DEF life, Live, setexSession, TypeOK, StoreTypeOK
<1>4. \A t \in Sids \ {s} : life'[t] = life[t]
  BY <1>0, <1>2 DEF life, Live, setexSession, TypeOK, StoreTypeOK
<1>5. life' = [life EXCEPT ![s] = "live"]
  BY <1>3, <1>4 DEF life
<1> QED
  BY <1>1, <1>5 DEF Life!Next, Life!Create

\* Any other step ends or contests live sessions, or changes no life.
LEMMA LifeEnd ==
  ASSUME IInv, Next, \A r \in Requests : ~createPut(r) PROVE Life!Next
<1> DEFINE C == overlapped' \ overlapped
           E == {s \in Sids \ overlapped' : Live(s) /\ ~Live(s)'}
<1>0. TypeOK /\ TypeOK' /\ WriterSeesEnd
  BY TypeStep DEF IInv
<1>1. overlapped \subseteq overlapped' /\ C \in SUBSET Sids /\ E \in SUBSET Sids
  BY <1>0, HistoryStep DEF TypeOK
<1>2. \A s \in C : Live(s)
  BY <1>0, <1>1, ContestStep DEF Written, WriterSeesEnd
<1>3. \A s \in E \cup C : life[s] = "live"
  BY <1>1, <1>2 DEF life
<1>4. owner' = owner
  BY Quiet
  DEF Next, Handle, signup, login, Arrive, createTrack, extendPut,
      extendTrack, destroyDel, destroyUntrack, invalidateDel,
      invalidateUntrack, Fail, deleteUser, Tick, hist
<1>5. ASSUME NEW s \in Sids
      PROVE  life'[s] = IF s \in C THEN "contested"
                        ELSE IF s \in E THEN "ended" ELSE life[s]
  <2>1. CASE s \in overlapped'
    BY <1>1, <2>1 DEF life
  <2>2. CASE s \notin overlapped' /\ ~Live(s)
    <3>1. ~Live(s)' \/ owner[s] = NoUser
      BY <1>1, <2>2, BirthStep
    <3>2. ~Live(s)'
      BY <3>1, <1>0, <1>4, OwnedStep, StoreAssumption
      DEF OwnedOK, SessionsOwned, LiveOwned
    <3> QED
      BY <1>1, <1>4, <2>2, <3>2 DEF life
  <2>3. CASE s \notin overlapped' /\ Live(s)
    <3>1. owner[s] # NoUser
      BY <1>0, <2>3, StoreAssumption DEF IInv, SessionsOwned, LiveOwned
    <3> QED
      BY <1>1, <1>4, <2>3, <3>1 DEF life
  <2> QED
    BY <2>1, <2>2, <2>3
<1>6. life' = [s \in Sids |-> IF s \in C THEN "contested"
                              ELSE IF s \in E THEN "ended" ELSE life[s]]
  BY <1>5 DEF life
<1>7. Life!End(E, C)
  BY <1>3, <1>6 DEF Life!End
<1> QED
  BY <1>1, <1>7 DEF Life!Next

\* The service implements the life cycle of SessionLife.
THEOREM LifeTheorem == Spec => ImplementsSessionLife
<1>1. IInv /\ [Next]_vars => [Life!Next]_life
  <2>1. CASE UNCHANGED vars
    BY <2>1 DEF vars, redis, hist, life, Live
  <2> QED
    BY <2>1, LifeCreate, LifeEnd
<1> QED
  BY <1>1, LifeInit, Invariance, PTL DEF Spec, Life!Spec, ImplementsSessionLife
=============================================================================
