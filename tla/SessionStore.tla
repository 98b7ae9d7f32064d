---------------------------- MODULE SessionStore ----------------------------
(***************************************************************************)
(* The keys SessionService keeps in Redis (src/session, src/redis):        *)
(*                                                                         *)
(*   session:{sid}             the session data, with a time to live       *)
(*   user:sessions:{uid}:{sid} a tracking key, only there so that          *)
(*                             invalidateUserSessions can find the session *)
(*                                                                         *)
(* A session id is the number of the hash bucket its tracking key falls    *)
(* in, so that SCAN, which walks the buckets, is a walk over 1..MaxSid.    *)
(***************************************************************************)
EXTENDS Integers, FiniteSets

CONSTANTS Users,           \* user ids
          NoUser,          \* the value of a key that is not there
          MaxSid,          \* bound: the number of session ids ever drawn
          SessionTimeout,  \* SESSION_TIMEOUT, in ticks
          ScanCount        \* buckets one SCAN call visits (COUNT)

ASSUME StoreAssumption ==
  /\ NoUser \notin Users
  /\ MaxSid \in Nat
  /\ SessionTimeout \in Nat \ {0}
  /\ ScanCount \in Nat \ {0}

VARIABLES session,   \* session[s]: data and remaining ttl of session:{s}
          track      \* track[u][s]: remaining ttl of user:sessions:{u}:{s}

redis == <<session, track>>

Sids == 1..MaxSid
Ttl  == 0..SessionTimeout       \* 0: the key is not there

\* ISessionData, of which only the owner matters to the session's life.
ISessionData == [userId : Users \cup {NoUser}, ttl : Ttl]

Absent == [userId |-> NoUser, ttl |-> 0]

StoreTypeOK ==
  /\ session \in [Sids -> ISessionData]
  /\ track \in [Users -> [Sids -> Ttl]]

StoreInit ==
  /\ session = [s \in Sids |-> Absent]
  /\ track = [u \in Users |-> [s \in Sids |-> 0]]

\* getSession(s) # null
Live(s) == session[s].ttl > 0

Tracked(u, s) == track[u][s] > 0

\* The Redis calls of the service, each atomic in Redis.
setexSession(s, u) ==
  session' = [session EXCEPT ![s] = [userId |-> u, ttl |-> SessionTimeout]]

setexTracking(u, s) ==
  track' = [track EXCEPT ![u][s] = SessionTimeout]

delSession(s) == session' = [session EXCEPT ![s] = Absent]

delTracking(u, s) == track' = [track EXCEPT ![u][s] = 0]

\* Mutant: the pattern of the SCAN leaves the user out.
scanKeysOfAnyone(u, cursor) ==
  {s \in Sids : /\ cursor < s /\ s <= cursor + ScanCount
                /\ \E v \in Users : Tracked(v, s)}

\* Mutant: one SCAN call is taken for the whole walk.
scanCursorOnce(cursor) == 0

\* Mutant: the walk goes on past its end.
scanCursorPastEnd(cursor) == cursor + ScanCount

\* Mutant: the tracking key is stored with SET, without a time to live.
ExpireUntracked ==
  /\ session' = [s \in Sids |->
       IF session[s].ttl > 1
         THEN [session[s] EXCEPT !.ttl = @ - 1] ELSE Absent]
  /\ UNCHANGED track

\* SCAN cursor MATCH user:sessions:{u}:*: the keys in the next ScanCount
\* buckets, and the cursor to go on from (0 when the walk is over).
scanKeys(u, cursor) ==
  {s \in Sids : cursor < s /\ s <= cursor + ScanCount /\ Tracked(u, s)}

scanCursor(cursor) ==
  IF cursor + ScanCount >= MaxSid THEN 0 ELSE cursor + ScanCount

\* Redis ages every key; one whose ttl runs out is gone.
Expire ==
  /\ session' = [s \in Sids |->
       IF session[s].ttl > 1
         THEN [session[s] EXCEPT !.ttl = @ - 1] ELSE Absent]
  /\ track' = [u \in Users |-> [s \in Sids |->
       IF track[u][s] > 1 THEN track[u][s] - 1 ELSE 0]]
=============================================================================
