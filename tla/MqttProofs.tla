----------------------------- MODULE MqttProofs -----------------------------
(***************************************************************************)
(* Proofs about MqttClient, for any number of clients and topics.          *)
(*                                                                         *)
(* isConnectedState and connectionAttempts are written by the callbacks of *)
(* every client. Both invariants hold step by step because each callback   *)
(* that adds (Connect) accounts for its own client, and each that resets   *)
(* (Close, ended, disconnect) does so for all of them. NeverStranded holds *)
(* although calls of updateConfiguration overlap, because whoever is the   *)
(* first to end a client waits for just that client and then replaces it,  *)
(* and whoever comes later goes on to replace it at once.                  *)
(***************************************************************************)
EXTENDS MqttClient, FiniteSetTheorems, TLAPS

\* The clients connectionAttempts counts beyond its maximum.
Counted == {c \in Clients : link[c] \in {"online", "ending"}}

\* A call of updateConfiguration waits for each client that is ending, and a
\* call that is elsewhere waits for none.
EndingAwaited ==
  /\ \A c \in Clients :
       link[c] \in {"ending", "silent"} => \E u \in Updates : config[u].ends = c
  /\ \A u \in Updates : config[u].at # "end" => config[u].ends = NoClient

IInv ==
  TypeOK /\ FlagBacked /\ EndingAwaited /\ AttemptsBounded /\ NeverStranded

----------------------------------------------------------------------------
(* Type correctness *)

\* A callback that is not there is well-formed.
LEMMA NoCallbackType == NoCallback \in ConnectCallback
  BY DEF NoCallback, ConnectCallback

\* A new adapter, or the end of the process, keeps the types it writes.
LEMMA InitConnectionType ==
  ASSUME TypeOK, NEW c \in Clients, initConnection(c)
  PROVE  /\ current' \in Clients \cup {NoClient}
         /\ link' \in [Clients -> Links]
         /\ subs' \in [Clients -> SUBSET Topics]
         /\ declined' \subseteq Clients
  BY DEF TypeOK, initConnection, Links

\* A call of updateConfiguration that is elsewhere is well-formed, and so are
\* all of them when one goes on.
LEMMA GotoType ==
  ASSUME TypeOK, NEW u \in Updates,
         NEW a \in {"none", "list", "end", "init"}
  PROVE  /\ [NoUpdate EXCEPT !.at = a] \in Update
         /\ Goto(u, a) => config' \in [Updates -> Update]
<1>1. [NoUpdate EXCEPT !.at = a] \in Update
  BY DEF NoUpdate, Update
<1> QED BY <1>1 DEF Goto, TypeOK

\* They are when the calls that wait for a client go on.
LEMMA ResumeType ==
  ASSUME TypeOK, NEW c \in Clients, Resume(c, "init")
  PROVE  config' \in [Updates -> Update]
<1>1. [NoUpdate EXCEPT !.at = "init"] \in Update
  BY DEF NoUpdate, Update
<1> QED BY <1>1 DEF Resume, TypeOK

\* The end of the process leaves every variable but the topics, which it
\* does not write, at a value of its type.
LEMMA DownType ==
  ASSUME TypeOK, Down, repo' = repo,
         faults' \in 0..MaxFaults, ops' \in 0..MaxOps
  PROVE  TypeOK'
<1>1. NoUpdate \in Update
  BY DEF NoUpdate, Update
<1> QED BY <1>1, NoCallbackType DEF TypeOK, Down, Links

\* What a fault or a request counts stays within its bound.
LEMMA BudgetType ==
  ASSUME TypeOK
  PROVE  /\ Fault => faults' \in 0..MaxFaults
         /\ Request => ops' \in 0..MaxOps
  BY MqttAssumption DEF TypeOK, Fault, Request

\* Every event, callback and request keeps the types.
LEMMA TypeStep == TypeOK /\ [Next]_vars => TypeOK'
<1> SUFFICES ASSUME TypeOK, [Next]_vars PROVE TypeOK'
  OBVIOUS
<1>1. ASSUME NEW c \in Clients, Start(c) PROVE TypeOK'
  BY <1>1, InitConnectionType DEF TypeOK, Start
<1>2. ASSUME NEW c \in Clients, Connect(c) PROVE TypeOK'
  <2>1. callback' \in [Clients -> ConnectCallback]
    BY <1>2 DEF TypeOK, Connect, ConnectCallback
  <2> QED BY <1>2, <2>1 DEF TypeOK, Connect, Links, history
<1>3. ASSUME NEW c \in Clients, Close(c) PROVE TypeOK'
  <2>1. CASE Awaited(c)
    BY <1>3, <2>1, DownType, BudgetType DEF Close, TypeOK
  <2>2. CASE ~Awaited(c)
    <3>1. faults' \in 0..MaxFaults
      BY <1>3, BudgetType DEF Close
    <3>2. /\ link' = [link EXCEPT ![c] = "waiting"]
          /\ flag' = FALSE /\ attempts' = 0 /\ unheard' = 0
          /\ UNCHANGED <<up, current, subs, callback, pending, config, declined,
                         repo, ops>>
      BY <1>3, <2>2 DEF Close, Reset
    <3> QED BY <3>1, <3>2 DEF TypeOK, Links
  <2> QED BY <2>1, <2>2
<1>4. ASSUME NEW c \in Clients, Reconnect(c) PROVE TypeOK'
  BY <1>4 DEF TypeOK, Reconnect, Links, history
<1>5. ASSUME NEW c \in Clients, Callback(c) PROVE TypeOK'
  <2>1. CASE callbackFind(c)
    <3>1. callback' \in [Clients -> ConnectCallback]
      BY <2>1 DEF TypeOK, callbackFind, ConnectCallback
    <3> QED BY <2>1, <3>1 DEF TypeOK, callbackFind, history
  <2>2. CASE callbackSave(c)
    <3>1. CASE repo[Broadcast] = "absent"
      <4>1. callback' \in [Clients -> ConnectCallback]
        BY <2>2, <3>1 DEF TypeOK, callbackSave, ConnectCallback
      <4>2. repo' \in [Topics -> {"absent", "subscribed", "unsubscribed"}]
        BY <2>2, <3>1 DEF TypeOK, callbackSave, history
      <4> QED BY <2>2, <3>1, <4>1, <4>2 DEF TypeOK, callbackSave, history
    <3>2. CASE repo[Broadcast] # "absent"
      BY <2>2, <3>2, DownType DEF callbackSave, TypeOK
    <3> QED BY <3>1, <3>2
  <2>3. CASE callbackList(c)
    <3>1. CASE SubscribedTopics # {}
      <4>1. SubscribedTopics \in SUBSET Topics
        BY DEF SubscribedTopics
      <4>2. callback' \in [Clients -> ConnectCallback]
        BY <2>3, <3>1, <4>1 DEF TypeOK, callbackList, ConnectCallback
      <4> QED BY <2>3, <3>1, <4>2 DEF TypeOK, callbackList, history
    <3>2. CASE SubscribedTopics = {}
      BY <2>3, <3>2, DownType DEF callbackList, TypeOK
    <3> QED BY <3>1, <3>2
  <2>4. CASE callbackSubscribe(c)
    <3>1. CASE flag /\ Connected
      <4>1. callback' \in [Clients -> ConnectCallback]
        BY <2>4, <3>1 DEF TypeOK, callbackSubscribe, ConnectCallback
      <4>2. subs' \in [Clients -> SUBSET Topics]
        BY <2>4, <3>1
           DEF TypeOK, callbackSubscribe, ConnectCallback, Topics, Connected
      <4> QED BY <2>4, <3>1, <4>1, <4>2 DEF TypeOK, callbackSubscribe
    <3>2. CASE ~(flag /\ Connected)
      BY <2>4, <3>2, DownType DEF callbackSubscribe, TypeOK
    <3> QED BY <3>1, <3>2
  <2>5. CASE callbackSuback(c)
    BY <2>5, NoCallbackType DEF TypeOK, callbackSuback, history
  <2> QED BY <1>5, <2>1, <2>2, <2>3, <2>4, <2>5 DEF Callback
<1>6. ASSUME Configuring PROVE TypeOK'
  <2>1. ASSUME NEW u \in Updates, disconnect(u) PROVE TypeOK'
    <3>1. pending' \subseteq Topics
      BY <2>1 DEF TypeOK, disconnect, SubscribedTopics
    <3>2. flag' = flag \/ flag' = FALSE
      BY <2>1 DEF disconnect
    <3>3. flag' \in BOOLEAN
      BY <3>2 DEF TypeOK
    <3>4. UNCHANGED <<up, current, subs, callback, declined, repo, faults, ops>>
      BY <2>1 DEF disconnect
    <3>5. /\ link' \in [Clients -> Links] /\ config' \in [Updates -> Update]
          /\ attempts' \in Nat /\ unheard' \in Nat
      <4>1. CASE SubscribedTopics = {}
        BY <2>1, <4>1, GotoType DEF TypeOK, disconnect
      <4>2. CASE endIdle(u)
        <5>1. config' \in [Updates -> Update]
          BY <4>2, GotoType DEF endIdle
        <5>2. link' = [link EXCEPT ![current] = "unused"]
          BY <4>2 DEF endIdle
        <5>3. link' \in [Clients -> Links]
          BY <5>2 DEF TypeOK, Links
        <5>4. attempts' \in Nat /\ unheard' \in Nat
          BY <4>2 DEF TypeOK, endIdle, Reset
        <5> QED BY <5>1, <5>3, <5>4
      <4>3. CASE endOnline(u)
        <5>1. [at |-> "end", ends |-> current] \in Update
          BY DEF TypeOK, Update
        <5> QED BY <4>3, <5>1 DEF TypeOK, endOnline, Links
      <4>4. CASE endEnding(u)
        <5>1. config' \in [Updates -> Update]
          BY <4>4, GotoType DEF endEnding
        <5>2. link' = [link EXCEPT ![current] = "silent"]
          BY <4>4 DEF endEnding
        <5>3. link' \in [Clients -> Links]
          BY <5>2 DEF TypeOK, Links
        <5>4. attempts' \in Nat /\ unheard' \in Nat
          BY <4>4 DEF TypeOK, endEnding
        <5> QED BY <5>1, <5>3, <5>4
      <4>5. CASE endNothing(u)
        BY <4>5, GotoType DEF TypeOK, endNothing
      <4> QED BY <2>1, <4>1, <4>2, <4>3, <4>4, <4>5 DEF disconnect
    <3> QED BY <3>1, <3>3, <3>4, <3>5 DEF TypeOK
  <2>2. ASSUME NEW t \in Topics, updateTopic(t) PROVE TypeOK'
    BY <2>2 DEF TypeOK, updateTopic, history
  <2>3. ASSUME NEW c \in Clients, ended(c) PROVE TypeOK'
    <3>1. config' \in [Updates -> Update]
      BY <2>3, ResumeType DEF ended
    <3>2. /\ link' \in [Clients -> Links] /\ flag' \in BOOLEAN
          /\ attempts' \in Nat /\ unheard' \in Nat
      <4>1. link' = [link EXCEPT ![c] = "unused"]
        BY <2>3 DEF ended
      <4>2. link' \in [Clients -> Links]
        BY <4>1 DEF TypeOK, Links
      <4>3. CASE link[c] = "ending"
        <5>1. flag' = FALSE /\ attempts' = 0 /\ unheard' = 0
          BY <2>3, <4>3 DEF ended, Reset
        <5> QED BY <4>2, <5>1
      <4>4. CASE link[c] # "ending"
        <5>1. UNCHANGED <<flag, attempts, unheard>>
          BY <2>3, <4>4 DEF ended
        <5> QED BY <4>2, <5>1 DEF TypeOK
      <4> QED BY <4>3, <4>4
    <3>3. UNCHANGED <<up, current, subs, callback, pending, declined, repo,
                      faults, ops>>
      BY <2>3 DEF ended
    <3> QED BY <3>1, <3>2, <3>3 DEF TypeOK
  <2>4. ASSUME NEW u \in Updates, NEW c \in Clients, configInit(u, c)
        PROVE  TypeOK'
    BY <2>4, InitConnectionType, GotoType DEF TypeOK, configInit
  <2> QED BY <1>6, <2>1, <2>2, <2>3, <2>4 DEF Configuring
<1>7. ASSUME Requested PROVE TypeOK'
  <2>1. ASSUME NEW c \in Clients, connect(c) \/ reconnect(c) PROVE TypeOK'
    BY <2>1, InitConnectionType, BudgetType DEF TypeOK, connect, reconnect
  <2>2. ASSUME NEW t \in Topics, subscribe(t) \/ unsubscribe(t) PROVE TypeOK'
    <3>1. current \in Clients
      BY <2>2 DEF TypeOK, subscribe, unsubscribe, Connected
    <3>2. subs' \in [Clients -> SUBSET Topics] /\ declined' \subseteq Clients
      BY <2>2, <3>1 DEF TypeOK, subscribe, unsubscribe
    <3> QED
      BY <2>2, <3>2, BudgetType DEF TypeOK, subscribe, unsubscribe
  <2>3. ASSUME NEW t \in DeviceTopics, createTopic(t) PROVE TypeOK'
    BY <2>3, BudgetType DEF TypeOK, createTopic, process, history, Topics
  <2>4. ASSUME NEW u \in Updates, updateConfiguration(u) PROVE TypeOK'
    BY <2>4, BudgetType, GotoType DEF TypeOK, updateConfiguration, history
  <2> QED BY <1>7, <2>1, <2>2, <2>3, <2>4 DEF Requested
<1>8. CASE Crash
  BY <1>8, DownType, BudgetType DEF Crash, TypeOK
<1>9. CASE UNCHANGED vars
  BY <1>9 DEF TypeOK, vars, process, history
<1> QED BY <1>1, <1>2, <1>3, <1>4, <1>5, <1>6, <1>7, <1>8, <1>9 DEF Next

----------------------------------------------------------------------------
(* The flag and the count *)

\* isConnectedState becomes true with a client that connects, and a client
\* is not connected any more only when the flag is made false as well.
LEMMA FlagStep == TypeOK /\ FlagBacked /\ [Next]_vars => FlagBacked'
<1> SUFFICES ASSUME TypeOK, FlagBacked, [Next]_vars PROVE FlagBacked'
  OBVIOUS
<1>1. ASSUME NEW c \in Clients, initConnection(c), flag' = flag
      PROVE  FlagBacked'
  BY <1>1 DEF FlagBacked, Online, initConnection, TypeOK
<1>2. ASSUME link' = link, flag' = flag PROVE FlagBacked'
  BY <1>2 DEF FlagBacked, Online
<1>3. CASE flag' = FALSE
  BY <1>3 DEF FlagBacked
<1>4. ASSUME NEW c \in Clients,
             Start(c) \/ Connect(c) \/ Close(c) \/ Reconnect(c)
      PROVE  FlagBacked'
  <2>1. CASE Start(c)
    BY <2>1, <1>1 DEF Start
  <2>2. CASE Connect(c)
    BY <2>2 DEF Connect, FlagBacked, Online, TypeOK
  <2>3. CASE Close(c)
    BY <2>3, <1>3 DEF Close, Down
  <2>4. CASE Reconnect(c)
    BY <2>4 DEF Reconnect, FlagBacked, Online, TypeOK
  <2> QED BY <1>4, <2>1, <2>2, <2>3, <2>4
<1>5. ASSUME NEW c \in Clients, Callback(c) PROVE FlagBacked'
  BY <1>5, <1>2, <1>3 DEF Callback, callbackFind, callbackSave, callbackList,
     callbackSubscribe, callbackSuback, Down
<1>6. CASE Configuring
  <2>1. ASSUME NEW u \in Updates, disconnect(u) PROVE FlagBacked'
    BY <2>1, <1>2, <1>3 DEF disconnect
  <2>2. ASSUME NEW t \in Topics, updateTopic(t) PROVE FlagBacked'
    BY <2>2, <1>2 DEF updateTopic
  <2>3. ASSUME NEW c \in Clients, ended(c) PROVE FlagBacked'
    <3>1. CASE link[c] = "ending"
      BY <2>3, <3>1, <1>3 DEF ended
    <3>2. CASE link[c] = "silent"
      BY <2>3, <3>2 DEF ended, FlagBacked, Online, TypeOK
    <3> QED BY <2>3, <3>1, <3>2 DEF ended
  <2>4. ASSUME NEW u \in Updates, NEW c \in Clients, configInit(u, c)
        PROVE  FlagBacked'
    BY <2>4, <1>1 DEF configInit
  <2> QED BY <1>6, <2>1, <2>2, <2>3, <2>4 DEF Configuring
<1>7. CASE Requested
  BY <1>7, <1>1, <1>2 DEF Requested, connect, reconnect, subscribe,
     unsubscribe, createTopic, process, updateConfiguration
<1>8. CASE Crash
  BY <1>8, <1>3 DEF Crash, Down
<1>9. CASE UNCHANGED vars
  BY <1>9, <1>2 DEF vars, process
<1> QED BY <1>4, <1>5, <1>6, <1>7, <1>8, <1>9 DEF Next

\* The calls that wait, when call u, which does not, goes on, and when those
\* that wait for c do.
LEMMA GotoEnds ==
  ASSUME TypeOK, EndingAwaited, NEW u \in Updates, config[u].at # "end",
         NEW a \in {"none", "list", "init"}, Goto(u, a)
  PROVE  /\ \A v \in Updates : config'[v].ends = config[v].ends
         /\ \A v \in Updates : config'[v].at # "end" =>
                                 config'[v].ends = NoClient
<1>1. config'[u] = [at |-> a, ends |-> NoClient]
  BY DEF Goto, NoUpdate, TypeOK
<1>2. \A v \in Updates \ {u} : config'[v] = config[v]
  BY DEF Goto, TypeOK
<1> QED BY <1>1, <1>2 DEF EndingAwaited

LEMMA ResumeEnds ==
  ASSUME TypeOK, EndingAwaited, NEW c \in Clients, Resume(c, "init")
  PROVE  /\ \A v \in Updates : config[v].ends = c => config'[v].at = "init"
         /\ \A v \in Updates : config[v].ends # c => config'[v] = config[v]
         /\ \A v \in Updates : config'[v].at # "end" =>
                                 config'[v].ends = NoClient
<1>1. \A v \in Updates : config[v].ends = c =>
                           config'[v] = [at |-> "init", ends |-> NoClient]
  BY DEF Resume, NoUpdate
<1>2. \A v \in Updates : config[v].ends # c => config'[v] = config[v]
  BY DEF Resume
<1> QED BY <1>1, <1>2 DEF EndingAwaited

\* Whoever tells a client to end first waits for it, until it has ended.
LEMMA EndingStep == TypeOK /\ EndingAwaited /\ [Next]_vars => EndingAwaited'
<1> SUFFICES ASSUME TypeOK, EndingAwaited, [Next]_vars PROVE EndingAwaited'
  OBVIOUS
<1>1. ASSUME NEW c \in Clients, initConnection(c), config' = config
      PROVE  EndingAwaited'
  BY <1>1 DEF EndingAwaited, initConnection, TypeOK
<1>2. ASSUME link' = link, config' = config PROVE EndingAwaited'
  BY <1>2 DEF EndingAwaited
<1>3. CASE Down
  BY <1>3 DEF EndingAwaited, Down, NoUpdate
<1>4. ASSUME NEW c \in Clients,
             Start(c) \/ Connect(c) \/ Close(c) \/ Reconnect(c)
      PROVE  EndingAwaited'
  <2>1. CASE Start(c)
    BY <2>1, <1>1 DEF Start
  <2>2. ASSUME NEW l \in {"online", "waiting", "trying"},
               link' = [link EXCEPT ![c] = l], config' = config
        PROVE  EndingAwaited'
    BY <2>2 DEF EndingAwaited, TypeOK
  <2>3. CASE Connect(c)
    BY <2>3, <2>2 DEF Connect
  <2>4. CASE Close(c)
    BY <2>4, <2>2, <1>3 DEF Close
  <2>5. CASE Reconnect(c)
    BY <2>5, <2>2 DEF Reconnect
  <2> QED BY <1>4, <2>1, <2>3, <2>4, <2>5
<1>5. ASSUME NEW c \in Clients, Callback(c) PROVE EndingAwaited'
  BY <1>5, <1>2, <1>3 DEF Callback, callbackFind, callbackSave, callbackList,
     callbackSubscribe, callbackSuback
<1>6. CASE Configuring
  <2>1. ASSUME NEW u \in Updates, disconnect(u) PROVE EndingAwaited'
    <3>1. config[u].at = "list"
      BY <2>1 DEF disconnect
    <3>2. ASSUME \/ link' = link
                 \/ link' = [link EXCEPT ![current] = "unused"]
                 \/ /\ link[current] = "ending"
                    /\ link' = [link EXCEPT ![current] = "silent"],
                 NEW a \in {"none", "init"}, Goto(u, a)
          PROVE  EndingAwaited'
      <4>1. \A c \in Clients : link'[c] \in {"ending", "silent"} =>
                                 link[c] \in {"ending", "silent"}
        BY <3>2 DEF TypeOK
      <4> QED BY <3>1, <3>2, <4>1, GotoEnds DEF EndingAwaited
    <3>3. CASE endOnline(u)
      <4>1. config'[u] = [at |-> "end", ends |-> current]
        BY <3>3 DEF endOnline, TypeOK
      <4>2. \A v \in Updates \ {u} : config'[v] = config[v]
        BY <3>3 DEF endOnline, TypeOK
      <4>3. \A c \in Clients : c = current \/ link'[c] = link[c]
        BY <3>3 DEF endOnline, TypeOK
      <4>4. \A c \in Clients : config[u].ends # c
        BY <3>1, MqttAssumption DEF EndingAwaited
      <4> QED BY <4>1, <4>2, <4>3, <4>4 DEF EndingAwaited
    <3> QED
      BY <2>1, <3>2, <3>3 DEF disconnect, endIdle, endEnding, endNothing
  <2>2. ASSUME NEW t \in Topics, updateTopic(t) PROVE EndingAwaited'
    BY <2>2, <1>2 DEF updateTopic
  <2>3. ASSUME NEW c \in Clients, ended(c) PROVE EndingAwaited'
    <3>1. Resume(c, "init") /\ link' = [link EXCEPT ![c] = "unused"]
      BY <2>3 DEF ended
    <3>2. \A d \in Clients : link'[d] \in {"ending", "silent"} =>
                               d # c /\ link[d] \in {"ending", "silent"}
      BY <3>1 DEF TypeOK
    <3> QED BY <3>1, <3>2, ResumeEnds DEF EndingAwaited
  <2>4. ASSUME NEW u \in Updates, NEW c \in Clients, configInit(u, c)
        PROVE  EndingAwaited'
    <3>1. config[u].at = "init" /\ Goto(u, "none")
      BY <2>4 DEF configInit
    <3>2. \A d \in Clients : link'[d] \in {"ending", "silent"} =>
                               link[d] \in {"ending", "silent"}
      BY <2>4 DEF configInit, initConnection, TypeOK
    <3> QED BY <3>1, <3>2, GotoEnds DEF EndingAwaited
  <2> QED BY <1>6, <2>1, <2>2, <2>3, <2>4 DEF Configuring
<1>7. CASE Requested
  <2>1. ASSUME NEW u \in Updates, updateConfiguration(u) PROVE EndingAwaited'
    <3>1. /\ config[u].at = "none" /\ link' = link
          /\ \E a \in {"list", "init"} : Goto(u, a)
      BY <2>1 DEF updateConfiguration
    <3> QED BY <3>1, GotoEnds DEF EndingAwaited
  <2> QED
    BY <1>7, <2>1, <1>1, <1>2 DEF Requested, connect, reconnect, subscribe,
       unsubscribe, createTopic, process
<1>8. CASE Crash
  BY <1>8, <1>3 DEF Crash
<1>9. CASE UNCHANGED vars
  BY <1>9, <1>2 DEF vars, process
<1> QED BY <1>4, <1>5, <1>6, <1>7, <1>8, <1>9 DEF Next

\* The clients counted are finitely many.
LEMMA CountedFinite ==
  /\ IsFiniteSet(Counted)
  /\ Cardinality(Counted) \in Nat
<1>1. IsFiniteSet(Counted)
  BY MqttAssumption, FS_Subset DEF Counted
<1> QED BY <1>1, FS_CardinalityType

\* The same holds after a step.
LEMMA CountedFiniteNext ==
  /\ IsFiniteSet(Counted')
  /\ Cardinality(Counted') \in Nat
<1>1. Counted' \subseteq Clients
  BY DEF Counted
<1>2. IsFiniteSet(Counted')
  BY <1>1, MqttAssumption, FS_Subset
<1> QED BY <1>2, FS_CardinalityType

\* AttemptsBounded in terms of Counted.
LEMMA BoundedCounted ==
  /\ AttemptsBounded <=>
       attempts <= MaxAttempts + unheard + Cardinality(Counted)
  /\ AttemptsBounded' <=>
       attempts' <= MaxAttempts + unheard' + Cardinality(Counted')
  BY DEF AttemptsBounded, Counted

\* Every connect event is paid for by its client, and every reconnect event
\* by the maximum; a client stops counting only at a reset of the count, or
\* goes on counting as one that was not heard.
LEMMA AttemptsStep == IInv /\ [Next]_vars => AttemptsBounded'
<1> SUFFICES ASSUME IInv, [Next]_vars PROVE AttemptsBounded'
  OBVIOUS
<1> USE MqttAssumption, BoundedCounted, CountedFinite, CountedFiniteNext
<1>0. TypeOK /\ attempts \in Nat /\ unheard \in Nat /\ AttemptsBounded
  BY DEF IInv, TypeOK
<1>1. ASSUME Counted' = Counted, UNCHANGED <<attempts, unheard>>
      PROVE  AttemptsBounded'
  BY <1>1, <1>0
<1>2. CASE attempts' = 0 /\ unheard' = 0
  BY <1>2
<1>3. ASSUME UNCHANGED <<link, attempts, unheard>> PROVE AttemptsBounded'
  BY <1>3, <1>1 DEF Counted
<1>4. ASSUME NEW c \in Clients, initConnection(c),
             UNCHANGED <<attempts, unheard>>
      PROVE  AttemptsBounded'
  <2>1. Counted' = Counted
    BY <1>4, <1>0 DEF initConnection, Counted, TypeOK
  <2> QED BY <1>4, <2>1, <1>1
<1>5. ASSUME NEW c \in Clients, Connect(c) PROVE AttemptsBounded'
  <2>1. c \notin Counted /\ Counted' = Counted \cup {c}
    BY <1>5, <1>0 DEF Connect, Counted, TypeOK
  <2>2. Cardinality(Counted') = Cardinality(Counted) + 1
    BY <2>1, FS_AddElement
  <2>3. attempts' = attempts + 1 /\ unheard' = unheard
    BY <1>5 DEF Connect, history
  <2> QED BY <1>0, <2>2, <2>3
<1>6. ASSUME NEW c \in Clients, Reconnect(c) PROVE AttemptsBounded'
  <2>1. Counted' = Counted
    BY <1>6, <1>0 DEF Reconnect, Counted, TypeOK
  <2>2. /\ \/ attempts' = attempts
           \/ attempts < MaxAttempts /\ attempts' = attempts + 1
        /\ unheard' = unheard
    BY <1>6 DEF Reconnect, history
  <2> QED BY <1>0, <2>1, <2>2
<1>7. ASSUME NEW c \in Clients, Start(c) \/ Close(c) PROVE AttemptsBounded'
  <2>1. CASE Start(c)
    BY <2>1, <1>4 DEF Start
  <2>2. CASE Close(c)
    BY <2>2, <1>2 DEF Close, Down, Reset
  <2> QED BY <1>7, <2>1, <2>2
<1>8. ASSUME NEW c \in Clients, Callback(c) PROVE AttemptsBounded'
  BY <1>8, <1>2, <1>3 DEF Callback, callbackFind, callbackSave, callbackList,
     callbackSubscribe, callbackSuback, Down, history
<1>9. CASE Configuring
  <2>1. ASSUME NEW u \in Updates, disconnect(u) PROVE AttemptsBounded'
    <3>1. CASE SubscribedTopics = {}
      BY <2>1, <3>1, <1>3 DEF disconnect
    <3>2. CASE endIdle(u)
      <4>1. CASE attempts' = 0 /\ unheard' = 0
        BY <4>1, <1>2
      <4>2. CASE UNCHANGED <<attempts, unheard>>
        <5>1. Counted' = Counted
          BY <3>2, <1>0 DEF endIdle, Counted, TypeOK
        <5> QED BY <4>2, <5>1, <1>1
      <4> QED BY <3>2, <4>1, <4>2 DEF endIdle, Reset
    <3>3. CASE endOnline(u)
      <4>1. Counted' = Counted
        BY <3>3, <1>0 DEF endOnline, Counted, TypeOK
      <4> QED BY <3>3, <4>1, <1>1 DEF endOnline
    <3>4. CASE endEnding(u)
      <4>1. attempts' = attempts /\ unheard' = unheard + 1
        BY <3>4 DEF endEnding
      <4>2. Counted' = Counted \ {current}
        BY <3>4, <1>0 DEF endEnding, Counted, TypeOK
      <4>3. Cardinality(Counted') >= Cardinality(Counted) - 1
        BY <4>2, FS_RemoveElement
      <4> QED BY <1>0, <4>1, <4>3
    <3>5. CASE endNothing(u)
      BY <3>5, <1>3 DEF endNothing
    <3> QED BY <2>1, <3>1, <3>2, <3>3, <3>4, <3>5 DEF disconnect
  <2>2. ASSUME NEW t \in Topics, updateTopic(t) PROVE AttemptsBounded'
    BY <2>2, <1>3 DEF updateTopic, history
  <2>3. ASSUME NEW c \in Clients, ended(c) PROVE AttemptsBounded'
    <3>1. CASE link[c] = "ending"
      BY <2>3, <3>1, <1>2 DEF ended, Reset
    <3>2. CASE link[c] = "silent"
      <4>1. Counted' = Counted
        BY <2>3, <3>2, <1>0 DEF ended, Counted, TypeOK
      <4> QED BY <2>3, <3>2, <4>1, <1>1 DEF ended
    <3> QED BY <2>3, <3>1, <3>2 DEF ended
  <2>4. ASSUME NEW u \in Updates, NEW c \in Clients, configInit(u, c)
        PROVE  AttemptsBounded'
    BY <2>4, <1>4 DEF configInit
  <2> QED BY <1>9, <2>1, <2>2, <2>3, <2>4 DEF Configuring
<1>10. CASE Requested
  BY <1>10, <1>3, <1>4 DEF Requested, connect, reconnect, subscribe,
     unsubscribe, createTopic, process, updateConfiguration, history
<1>11. CASE Crash
  BY <1>11, <1>2 DEF Crash, Down
<1>12. CASE UNCHANGED vars
  BY <1>12, <1>3 DEF vars, process, history
<1> QED
  BY <1>5, <1>6, <1>7, <1>8, <1>9, <1>10, <1>11, <1>12 DEF Next

----------------------------------------------------------------------------
(* The way back *)

\* Where the connect callback of a client that has yet to subscribe may be.
BeforeSuback == {"find", "save", "list", "subscribe"}

\* No call of updateConfiguration that waits for the end of this.mqtt's
\* client, or is about to replace it, is lost.
StillReplaced ==
  \A u \in Updates : /\ Replaces(u) => Replaces(u)'
                     /\ config[u].ends = current => config'[u].ends = current

\* A step that leaves the client of this.mqtt and its callback alone, and its
\* subscription to the broadcast topic but for an operator's, leaves its way
\* back open, as long as whoever is to replace it still is.
LEMMA Untouched ==
  ASSUME NeverStranded, up' => up, current' = current,
         link'[current] = link[current],
         Broadcast \in subs[current] \/ current \in declined =>
           Broadcast \in subs'[current] \/ current \in declined',
         callback'[current].at = callback[current].at,
         StillReplaced
  PROVE  NeverStranded'
  BY DEF NeverStranded, Connected, StillReplaced

\* A step that leaves the clients and updateConfiguration alone does so.
LEMMA Kept ==
  ASSUME NeverStranded, up' => up,
         UNCHANGED <<current, link, subs, callback, config, declined>>
  PROVE  NeverStranded'
<1>1. StillReplaced
  BY DEF StillReplaced, Replaces
<1> QED BY <1>1, Untouched

\* When call u, which neither waits nor is about to, goes on, the others do.
LEMMA OthersReplace ==
  ASSUME TypeOK, EndingAwaited, NEW u \in Updates,
         config[u].at \in {"none", "list"},
         NEW a \in {"none", "list", "init"}, Goto(u, a)
  PROVE  /\ StillReplaced
         /\ a = "init" => Replaces(u)'
<1>1. \A v \in Updates : config'[v].ends = config[v].ends
  BY GotoEnds
<1>2. \A v \in Updates \ {u} : config'[v] = config[v]
  BY DEF Goto, TypeOK
<1>3. config'[u].at = a
  BY DEF Goto, NoUpdate, TypeOK
<1> QED BY <1>1, <1>2, <1>3 DEF StillReplaced, Replaces

\* A new adapter is connecting.
LEMMA NewAdapter ==
  ASSUME TypeOK, NEW c \in Clients, initConnection(c)
  PROVE  NeverStranded'
<1>1. current' = c /\ c # NoClient
  BY MqttAssumption DEF initConnection
<1>2. link'[c] = "trying"
  BY DEF initConnection, TypeOK
<1> QED BY <1>1, <1>2 DEF NeverStranded, Connected

\* Every connect, close and reconnect, every await of a callback and every
\* step of updateConfiguration leaves the service a way back.
LEMMA StrandedStep == IInv /\ [Next]_vars => NeverStranded'
<1> SUFFICES ASSUME IInv, [Next]_vars, up' PROVE NeverStranded'
  BY DEF NeverStranded
<1>0. TypeOK /\ EndingAwaited /\ NeverStranded
  BY DEF IInv
<1>1. CASE Down
  BY <1>1 DEF Down
<1>2. ASSUME NEW c \in Clients, Start(c) PROVE NeverStranded'
  BY <1>0, <1>2, NewAdapter DEF Start
<1>r. ASSUME UNCHANGED <<current, config>> PROVE StillReplaced
  BY <1>r DEF StillReplaced, Replaces
<1>3. ASSUME NEW c \in Clients, Connect(c) PROVE NeverStranded'
  <2>1. CASE c = current
    <3>1. link'[c] = "online" /\ callback'[c].at = "find" /\ current' = c
      BY <1>0, <1>3, <2>1 DEF Connect, TypeOK, ConnectCallback
    <3>2. c # NoClient
      BY MqttAssumption
    <3> QED BY <3>1, <3>2 DEF NeverStranded, Connected
  <2>2. CASE c # current
    <3>1. /\ link'[current] = link[current]
          /\ callback'[current] = callback[current]
      BY <1>0, <1>3, <2>2 DEF Connect, TypeOK
    <3> QED
      BY <1>0, <1>3, <1>r, <3>1, Untouched DEF Connect, history
  <2> QED BY <2>1, <2>2
<1>4. ASSUME NEW c \in Clients, Close(c) \/ Reconnect(c) PROVE NeverStranded'
  <2>1. CASE Down
    BY <2>1, <1>1
  <2>2. CASE ~Down
    <3>1. /\ UNCHANGED <<up, current, subs, callback, config, declined>>
          /\ \E l \in {"waiting", "trying"} : link' = [link EXCEPT ![c] = l]
      BY <1>4, <2>2 DEF Close, Reconnect, history
    <3>2. CASE c = current
      <4>1. link'[current] \in {"waiting", "trying"}
        BY <1>0, <3>1, <3>2 DEF TypeOK
      <4> QED BY <1>0, <3>1, <4>1 DEF NeverStranded, Connected
    <3>3. CASE c # current
      <4>1. link'[current] = link[current]
        BY <1>0, <3>1, <3>3 DEF TypeOK
      <4> QED BY <1>0, <1>r, <3>1, <4>1, Untouched
    <3> QED BY <3>2, <3>3
  <2> QED BY <2>1, <2>2
<1>5. ASSUME NEW c \in Clients, Callback(c) PROVE NeverStranded'
  <2>1. CASE Down
    BY <2>1, <1>1
  <2>2. ASSUME UNCHANGED <<up, current, link, subs, config, declined>>,
               NEW a \in BeforeSuback,
               callback' = [callback EXCEPT ![c].at = a] \/
               callback' = [callback EXCEPT ![c].at = a,
                              ![c].storedTopics = SubscribedTopics],
               callback[c].at \in BeforeSuback
        PROVE  NeverStranded'
    <3>1. CASE c = current
      <4>1. callback'[c].at \in BeforeSuback
        BY <2>2, <1>0 DEF TypeOK, ConnectCallback
      <4>2. Connected' = Connected /\ (\A u : Replaces(u)' = Replaces(u))
        BY <2>2 DEF Connected, Replaces
      <4> QED BY <1>0, <2>2, <3>1, <4>1, <4>2 DEF NeverStranded, BeforeSuback
    <3>2. CASE c # current
      <4>1. callback'[current] = callback[current]
        BY <2>2, <3>2, <1>0 DEF TypeOK, NeverStranded
      <4> QED BY <1>0, <1>r, <2>2, <4>1, Untouched
    <3> QED BY <3>1, <3>2
  <2>3. CASE callbackFind(c)
    <3>1. \E a \in BeforeSuback : callback' = [callback EXCEPT ![c].at = a]
      BY <2>3 DEF callbackFind, BeforeSuback
    <3> QED BY <2>3, <2>2, <3>1 DEF callbackFind, BeforeSuback, history
  <2>4. CASE callbackSave(c)
    BY <2>4, <2>1, <2>2 DEF callbackSave, BeforeSuback, history
  <2>5. CASE callbackList(c)
    BY <2>5, <2>1, <2>2 DEF callbackList, BeforeSuback, history
  <2>6. CASE callbackSubscribe(c) /\ ~Down
    <3>1. /\ Connected
          /\ subs' = [subs EXCEPT ![current] =
                        @ \cup callback[c].storedTopics \cup {Broadcast}]
          /\ UNCHANGED <<up, current, link, config>>
      BY <2>6 DEF callbackSubscribe
    <3>2. current \in Clients /\ Broadcast \in subs'[current]
      BY <3>1, <1>0 DEF Connected, TypeOK
    <3>3. Connected' = Connected /\ (\A u : Replaces(u)' = Replaces(u))
      BY <3>1 DEF Connected, Replaces
    <3> QED BY <1>0, <3>1, <3>2, <3>3 DEF NeverStranded
  <2>7. CASE callbackSuback(c)
    <3>1. CASE c = current
      <4>1. Connected' = Connected /\ (\A u : Replaces(u)' = Replaces(u))
        BY <2>7 DEF callbackSuback, Connected, Replaces
      <4> QED
        BY <2>7, <3>1, <4>1, <1>0 DEF callbackSuback, NeverStranded, history
    <3>2. CASE c # current
      <4>1. callback'[current] = callback[current]
        BY <2>7, <3>2, <1>0 DEF callbackSuback, TypeOK, NeverStranded
      <4> QED
        BY <1>0, <1>r, <2>7, <4>1, Untouched DEF callbackSuback, history
    <3> QED BY <3>1, <3>2
  <2> QED BY <1>5, <2>1, <2>3, <2>4, <2>5, <2>6, <2>7 DEF Callback
<1>6. CASE Configuring
  <2>1. ASSUME NEW u \in Updates, disconnect(u) PROVE NeverStranded'
    <3>1. /\ config[u].at = "list" /\ up
          /\ UNCHANGED <<up, current, subs, callback, declined>>
      BY <2>1 DEF disconnect
    <3>2. current \in Clients /\ current # NoClient
      BY <3>1, <1>0 DEF NeverStranded, TypeOK
    <3>3. CASE SubscribedTopics = {}
      <4>1. Goto(u, "none") /\ link' = link
        BY <2>1, <3>3 DEF disconnect
      <4> QED BY <1>0, <3>1, <4>1, OthersReplace, Untouched
    <3>4. CASE endIdle(u) \/ endEnding(u) \/ endNothing(u)
      <4>1. Goto(u, "init")
        BY <3>4 DEF endIdle, endEnding, endNothing
      <4>2. Replaces(u)'
        BY <1>0, <3>1, <4>1, OthersReplace
      <4>3. link'[current] \in {"unused", "silent"}
        BY <1>0, <3>2, <3>4 DEF endIdle, endEnding, endNothing, TypeOK
      <4> QED BY <3>1, <3>2, <4>2, <4>3 DEF NeverStranded, Connected
    <3>5. CASE endOnline(u)
      <4>1. config'[u].ends = current /\ link'[current] = "ending"
        BY <1>0, <3>2, <3>5 DEF endOnline, TypeOK
      <4> QED BY <3>1, <3>2, <4>1 DEF NeverStranded, Connected
    <3> QED BY <2>1, <3>3, <3>4, <3>5 DEF disconnect
  <2>2. ASSUME NEW t \in Topics, updateTopic(t) PROVE NeverStranded'
    BY <2>2, <1>0, Kept DEF updateTopic, history
  <2>3. ASSUME NEW c \in Clients, ended(c) PROVE NeverStranded'
    <3>1. /\ UNCHANGED <<up, current, subs, callback, declined>>
          /\ link' = [link EXCEPT ![c] = "unused"] /\ Resume(c, "init")
      BY <2>3 DEF ended
    <3>2. CASE c = current
      <4>1. \E u \in Updates : config[u].ends = c
        BY <1>0, <2>3 DEF ended, EndingAwaited
      <4>2. \E u \in Updates : Replaces(u)'
        BY <1>0, <3>1, <4>1, ResumeEnds DEF Replaces
      <4>3. link'[current] = "unused" /\ current # NoClient
        BY <1>0, <3>1, <3>2, MqttAssumption DEF TypeOK
      <4> QED BY <3>1, <4>2, <4>3 DEF NeverStranded, Connected
    <3>3. CASE c # current
      <4>1. \A u \in Updates : Replaces(u) => config[u].ends # c
        BY <1>0, MqttAssumption DEF EndingAwaited, Replaces
      <4>2. StillReplaced
        BY <1>0, <3>1, <3>3, <4>1, ResumeEnds DEF StillReplaced, Replaces
      <4>3. link'[current] = link[current]
        BY <1>0, <3>1, <3>3 DEF TypeOK
      <4> QED BY <1>0, <3>1, <4>2, <4>3, Untouched
    <3> QED BY <3>2, <3>3
  <2>4. ASSUME NEW u \in Updates, NEW c \in Clients, configInit(u, c)
        PROVE  NeverStranded'
    BY <2>4, <1>0, NewAdapter DEF configInit
  <2> QED BY <1>6, <2>1, <2>2, <2>3, <2>4 DEF Configuring
<1>7. CASE Requested
  <2>1. ASSUME NEW c \in Clients, connect(c) \/ reconnect(c)
        PROVE  NeverStranded'
    BY <2>1, <1>0, NewAdapter DEF connect, reconnect
  <2>2. ASSUME NEW t \in Topics, subscribe(t) \/ unsubscribe(t)
        PROVE  NeverStranded'
    <3>1. /\ current \in Clients
          /\ UNCHANGED <<up, current, link, callback, config>>
      BY <2>2, <1>0 DEF subscribe, unsubscribe, Connected, TypeOK
    <3>2. Broadcast \in subs[current] \/ current \in declined =>
            Broadcast \in subs'[current] \/ current \in declined'
      BY <2>2, <3>1, <1>0 DEF subscribe, unsubscribe, TypeOK
    <3> QED BY <1>0, <1>r, <3>1, <3>2, Untouched
  <2>3. ASSUME NEW t \in DeviceTopics, createTopic(t) PROVE NeverStranded'
    BY <2>3, <1>0, Kept DEF createTopic, process, history
  <2>4. ASSUME NEW u \in Updates, updateConfiguration(u)
        PROVE  NeverStranded'
    <3>1. /\ UNCHANGED <<up, current, link, subs, callback, declined>>
          /\ config[u].at = "none" /\ \E a \in {"list", "init"} : Goto(u, a)
      BY <2>4 DEF updateConfiguration, history
    <3> QED BY <1>0, <3>1, OthersReplace, Untouched
  <2> QED BY <1>7, <2>1, <2>2, <2>3, <2>4 DEF Requested
<1>8. CASE Crash
  BY <1>8, <1>1 DEF Crash
<1>9. CASE UNCHANGED vars
  BY <1>9, <1>0, Kept DEF vars, process, history
<1> QED BY <1>2, <1>3, <1>4, <1>5, <1>6, <1>7, <1>8, <1>9 DEF Next

----------------------------------------------------------------------------
(* The theorems *)

\* Before the process starts nothing is connected and nothing is counted.
LEMMA InitIInv == Init => IInv
<1> SUFFICES ASSUME Init PROVE IInv
  OBVIOUS
<1>1. TypeOK
  <2>1. callback \in [Clients -> ConnectCallback]
    BY NoCallbackType DEF Init
  <2>2. config \in [Updates -> Update]
    BY DEF Init, NoUpdate, Update
  <2>3. faults \in 0..MaxFaults /\ ops \in 0..MaxOps /\ attempts \in Nat
    BY MqttAssumption DEF Init
  <2> QED BY <2>1, <2>2, <2>3 DEF Init, TypeOK, Links
<1>2. FlagBacked
  BY DEF Init, FlagBacked
<1>3. AttemptsBounded
  BY MqttAssumption, BoundedCounted, CountedFinite DEF Init
<1>4. EndingAwaited
  BY DEF Init, EndingAwaited, NoUpdate
<1>5. NeverStranded
  BY DEF Init, NeverStranded
<1> QED BY <1>1, <1>2, <1>3, <1>4, <1>5 DEF IInv

\* IInv is an inductive invariant of MqttClient.
THEOREM Invariance == Spec => []IInv
<1>1. IInv /\ [Next]_vars => IInv'
  BY TypeStep, FlagStep, EndingStep, AttemptsStep, StrandedStep DEF IInv
<1> QED BY InitIInv, <1>1, PTL DEF Spec

\* Every variable keeps its type: no callback, fault or request takes the
\* service, its clients or the topics to a state that is not one.
THEOREM TypeCorrect == Spec => []TypeOK
  BY Invariance, PTL DEF IInv

\* The service never takes itself for connected when no client is.
THEOREM FlagTheorem == Spec => []FlagBacked
  BY Invariance, PTL DEF IInv

\* connectionAttempts passes its maximum by at most one a connected client,
\* and one a client whose close overlapping reconfigurations left unheard,
\* however many clients reconfigurations and reconnects have left alive.
THEOREM AttemptsTheorem == Spec => []AttemptsBounded
  BY Invariance, PTL DEF IInv

\* A running service always has a way back to its broadcast topic, unless an
\* operator has unsubscribed it: no order of reconnects, overlapping
\* reconfigurations and losses leaves it with an ended client that nothing
\* replaces, or connected with no callback left to subscribe.
THEOREM StrandedTheorem == Spec => []NeverStranded
  BY Invariance, PTL DEF IInv
=============================================================================
