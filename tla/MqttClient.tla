----------------------------- MODULE MqttClient -----------------------------
(***************************************************************************)
(* MqttClientService, MqttClientAdapter and the topics TopicService keeps. *)
(*                                                                         *)
(* Every initConnection makes a new adapter with an mqtt.js client of its  *)
(* own, which connects, loses its connection and retries by itself, and    *)
(* calls back into the one service: the callbacks of every client that     *)
(* was ever made and not ended write the same isConnectedState and         *)
(* connectionAttempts, and use the adapter the service holds at that time. *)
(*                                                                         *)
(* The connect callback is asynchronous and nobody awaits it, nor the      *)
(* updateTopic calls of disconnect: Node ends the process when one of them *)
(* is rejected. Only the topics survive that.                              *)
(***************************************************************************)
EXTENDS Integers, FiniteSets

CONSTANTS Clients,        \* bound: mqtt.js clients that exist at one time
          NoClient,
          Broadcast,      \* the broadcast topic of 'Mqtt_Broker'
          DeviceTopics,   \* the topics of devices
          Updates,        \* bound: calls of updateConfiguration under way
          MaxAttempts,    \* MAX_RECONNECTION_ATTEMPTS
          MaxFaults,      \* bound: connections lost or refused, and crashes
          MaxOps          \* bound: requests of operators and devices

ASSUME MqttAssumption ==
  /\ NoClient \notin Clients
  /\ IsFiniteSet(Clients)
  /\ Broadcast \notin DeviceTopics
  /\ MaxAttempts \in Nat
  /\ MaxFaults \in Nat
  /\ MaxOps \in Nat

VARIABLES up,       \* the process runs
          current,  \* this.mqtt: the client of the adapter it holds
          link,     \* link[c]: the connection of mqtt.js client c
          subs,     \* subs[c]: topics c is subscribed to, again after it
                    \* reconnects (resubscribe)
          flag,     \* isConnectedState
          attempts, \* connectionAttempts
          repo,     \* repo[t]: topic t in MongoDB, with its isSubscribed
          callback, \* callback[c]: the connect callback of c
          pending,  \* topics an updateTopic of disconnect is under way for
          config,   \* config[u]: where call u of updateConfiguration is
          declined, \* clients an operator has unsubscribed from the
                    \* broadcast topic since they last subscribed to it
          unheard,  \* clients whose close nobody was left to hear since
                    \* connectionAttempts last started again
          faults,   \* the number of faults so far
          ops       \* the number of requests so far

\* What the code does not keep; the properties tell it apart.
history == <<declined, unheard>>
process == <<current, link, subs, flag, attempts, callback, pending, config,
             history>>
vars    == <<up, process, repo, faults, ops>>

Topics == {Broadcast} \cup DeviceTopics

ConnectCallback ==
  [at : {"none", "find", "save", "list", "subscribe", "suback"},
   storedTopics : SUBSET Topics,
   target : Clients \cup {NoClient}]   \* whose SUBACK it waits for

NoCallback == [at |-> "none", storedTopics |-> {}, target |-> NoClient]

Links == {"unused", "trying", "online", "waiting", "ending",
          "silent"}                    \* ending, its listeners removed

Update ==
  [at : {"none", "list", "end", "init"},
   ends : Clients \cup {NoClient}]     \* the client whose end it waits for

NoUpdate == [at |-> "none", ends |-> NoClient]

TypeOK ==
  /\ up \in BOOLEAN
  /\ current \in Clients \cup {NoClient}
  /\ link \in [Clients -> Links]
  /\ subs \in [Clients -> SUBSET Topics]
  /\ flag \in BOOLEAN
  /\ attempts \in Nat
  /\ repo \in [Topics -> {"absent", "subscribed", "unsubscribed"}]
  /\ callback \in [Clients -> ConnectCallback]
  /\ pending \subseteq Topics
  /\ config \in [Updates -> Update]
  /\ declined \subseteq Clients
  /\ unheard \in Nat
  /\ faults \in 0..MaxFaults
  /\ ops \in 0..MaxOps

\* The process is down: nothing but the topics is left.
Init ==
  /\ up = FALSE
  /\ current = NoClient
  /\ link = [c \in Clients |-> "unused"]
  /\ subs = [c \in Clients |-> {}]
  /\ flag = FALSE
  /\ attempts = 0
  /\ repo = [t \in Topics |-> "absent"]
  /\ callback = [c \in Clients |-> NoCallback]
  /\ pending = {}
  /\ config = [u \in Updates |-> NoUpdate]
  /\ declined = {}
  /\ unheard = 0
  /\ faults = 0
  /\ ops = 0

----------------------------------------------------------------------------
(* Helpers *)

Online(c) == link[c] = "online"

\* The adapter's own test: this.client and this.client.connected.
Connected == current # NoClient /\ link[current] = "online"

\* getAllSubscribedTopics; it throws when there is none.
SubscribedTopics == {t \in Topics : repo[t] = "subscribed"}

Request == ops < MaxOps /\ ops' = ops + 1

Fault == faults < MaxFaults /\ faults' = faults + 1

\* A connect callback waits for a SUBACK to client c.
Awaited(c) == \E d \in Clients : callback[d].target = c

\* A new adapter with a new mqtt.js client c becomes this.mqtt. The client
\* it replaces is left alone.
initConnection(c) ==
  /\ link[c] = "unused" /\ callback[c].at = "none"
  /\ link' = [link EXCEPT ![c] = "trying"]
  /\ subs' = [subs EXCEPT ![c] = {}]
  /\ declined' = declined \ {c}
  /\ current' = c

\* connectionAttempts starts again.
Reset == attempts' = 0 /\ unheard' = 0

\* The process ends.
Down ==
  /\ up' = FALSE
  /\ current' = NoClient
  /\ link' = [c \in Clients |-> "unused"]
  /\ subs' = [c \in Clients |-> {}]
  /\ flag' = FALSE
  /\ attempts' = 0
  /\ callback' = [c \in Clients |-> NoCallback]
  /\ pending' = {}
  /\ config' = [u \in Updates |-> NoUpdate]
  /\ declined' = {}
  /\ unheard' = 0

----------------------------------------------------------------------------
(* The process *)

\* onModuleInit.
Start(c) ==
  /\ ~up
  /\ up' = TRUE
  /\ initConnection(c)
  /\ UNCHANGED <<flag, attempts, callback, pending, config, unheard, repo,
                 faults, ops>>

\* The process is killed, or a rejection nobody handles ends it: a failing
\* call to MongoDB, or a message whose payload is not JSON.
Crash ==
  /\ up /\ Fault
  /\ Down
  /\ UNCHANGED <<repo, ops>>

----------------------------------------------------------------------------
(* The events of mqtt.js *)

\* 'connect': onConnect's synchronous part, then its first await. The
\* callback of a connection ends before the client's next connection
\* (reconnectPeriod is 2 s).
Connect(c) ==
  /\ link[c] = "trying" /\ callback[c].at = "none"
  /\ link' = [link EXCEPT ![c] = "online"]
  /\ flag' = TRUE
  /\ attempts' = attempts + 1
  /\ callback' = [callback EXCEPT ![c].at = "find"]
  /\ UNCHANGED <<up, current, subs, pending, config, history, repo, faults,
                 ops>>

\* Mutant: a close leaves isConnectedState as it is.
CloseKeepsFlag(c) ==
  /\ link[c] \in {"trying", "online"} /\ Fault
  /\ link' = [link EXCEPT ![c] = "waiting"]
  /\ Reset
  /\ UNCHANGED <<up, current, subs, flag, callback, pending, config, declined,
                 repo, ops>>

\* Mutant: a close takes one attempt back.
CloseCountsDown(c) ==
  /\ link[c] \in {"trying", "online"} /\ Fault
  /\ link' = [link EXCEPT ![c] = "waiting"]
  /\ flag' = FALSE
  /\ attempts' = attempts - 1
  /\ UNCHANGED <<up, current, subs, callback, pending, config, history, repo,
                 ops>>

\* 'close', of an open connection or of an attempt to connect. A subscribe
\* that waits for its SUBACK is rejected, which ends the process.
Close(c) ==
  /\ link[c] \in {"trying", "online"} /\ Fault
  /\ IF Awaited(c)
       THEN Down
       ELSE /\ link' = [link EXCEPT ![c] = "waiting"]
            /\ flag' = FALSE
            /\ Reset
            /\ UNCHANGED <<up, current, subs, callback, pending, config,
                           declined>>
  /\ UNCHANGED <<repo, ops>>

\* Mutant: attempts are counted without looking at the maximum.
ReconnectUncapped(c) ==
  /\ link[c] = "waiting"
  /\ link' = [link EXCEPT ![c] = "trying"]
  /\ attempts' = attempts + 1
  /\ UNCHANGED <<up, current, subs, flag, callback, pending, config, history,
                 repo, faults, ops>>

\* 'reconnect': the client tries again.
Reconnect(c) ==
  /\ link[c] = "waiting"
  /\ link' = [link EXCEPT ![c] = "trying"]
  /\ attempts' = IF attempts < MaxAttempts THEN attempts + 1 ELSE attempts
  /\ UNCHANGED <<up, current, subs, flag, callback, pending, config, history,
                 repo, faults, ops>>

----------------------------------------------------------------------------
(* The rest of onConnect's callback, one await at a time *)

\* createTopic and storeTopic look the broadcast topic up.
callbackFind(c) ==
  /\ callback[c].at = "find"
  /\ callback' = [callback EXCEPT ![c].at =
       IF repo[Broadcast] = "absent" THEN "save" ELSE "list"]
  /\ UNCHANGED <<up, current, link, subs, flag, attempts, pending, config,
                 history, repo, faults, ops>>

\* storeTopic saves it. Topic names are unique: if another callback has
\* saved it meanwhile, this save is rejected, and the process ends.
callbackSave(c) ==
  /\ callback[c].at = "save"
  /\ IF repo[Broadcast] = "absent"
       THEN /\ repo' = [repo EXCEPT ![Broadcast] = "subscribed"]
            /\ callback' = [callback EXCEPT ![c].at = "list"]
            /\ UNCHANGED <<up, current, link, subs, flag, attempts, pending,
                           config, history>>
       ELSE Down /\ UNCHANGED repo
  /\ UNCHANGED <<faults, ops>>

\* getAllSubscribedTopics: its NotFoundException ends the process.
callbackList(c) ==
  /\ callback[c].at = "list"
  /\ IF SubscribedTopics # {}
       THEN /\ callback' = [callback EXCEPT ![c].at = "subscribe",
                                           ![c].storedTopics = SubscribedTopics]
            /\ UNCHANGED <<up, current, link, subs, flag, attempts, pending,
                           config, history>>
       ELSE Down
  /\ UNCHANGED <<repo, faults, ops>>

\* Mutant: the broadcast topic is subscribed only when nothing is stored.
callbackSubscribeStored(c) ==
  /\ callback[c].at = "subscribe"
  /\ IF flag /\ Connected
       THEN /\ subs' = [subs EXCEPT ![current] =
                          @ \cup callback[c].storedTopics]
            /\ callback' = [callback EXCEPT ![c].at = "suback",
                                           ![c].target = current]
            /\ UNCHANGED <<up, current, link, flag, attempts, pending, config,
                           history>>
       ELSE Down
  /\ UNCHANGED <<repo, faults, ops>>

\* this.subscribe: it throws when isConnectedState is false or the client
\* of this.mqtt is not connected, which ends the process.
callbackSubscribe(c) ==
  /\ callback[c].at = "subscribe"
  /\ IF flag /\ Connected
       THEN /\ subs' = [subs EXCEPT ![current] =
                          @ \cup callback[c].storedTopics \cup {Broadcast}]
            /\ callback' = [callback EXCEPT ![c].at = "suback",
                                           ![c].target = current]
            /\ declined' = declined \ {current}
            /\ UNCHANGED <<up, current, link, flag, attempts, pending, config,
                           unheard>>
       ELSE Down
  /\ UNCHANGED <<repo, faults, ops>>

\* The broker acknowledges.
callbackSuback(c) ==
  /\ callback[c].at = "suback"
  /\ callback' = [callback EXCEPT ![c] = NoCallback]
  /\ UNCHANGED <<up, current, link, subs, flag, attempts, pending, config,
                 history, repo, faults, ops>>

----------------------------------------------------------------------------
(* Requests *)

\* GET /mqtt/connect/:broker.
connect(c) ==
  /\ up /\ Request
  /\ initConnection(c)
  /\ UNCHANGED <<up, flag, attempts, callback, pending, config, unheard, repo,
                 faults>>

\* reconnect: a new connection unless isConnectedState.
reconnect(c) ==
  /\ up /\ Request
  /\ ~flag
  /\ initConnection(c)
  /\ UNCHANGED <<up, flag, attempts, callback, pending, config, unheard, repo,
                 faults>>

\* subscribe and unsubscribe leave the topics in MongoDB alone. The
\* controller passes any topic on, the broadcast topic too.
subscribe(t) ==
  /\ up /\ Request
  /\ flag /\ Connected
  /\ subs' = [subs EXCEPT ![current] = @ \cup {t}]
  /\ declined' = IF t = Broadcast THEN declined \ {current} ELSE declined
  /\ UNCHANGED <<up, current, link, flag, attempts, callback, pending, config,
                 unheard, repo, faults>>

unsubscribe(t) ==
  /\ up /\ Request
  /\ flag /\ Connected
  /\ subs' = [subs EXCEPT ![current] = @ \ {t}]
  /\ declined' = IF t = Broadcast THEN declined \cup {current} ELSE declined
  /\ UNCHANGED <<up, current, link, flag, attempts, callback, pending, config,
                 unheard, repo, faults>>

\* A device is discovered: createTopic of its topics.
createTopic(t) ==
  /\ up /\ Request
  /\ repo[t] = "absent"
  /\ repo' = [repo EXCEPT ![t] = "subscribed"]
  /\ UNCHANGED <<up, process, faults>>

----------------------------------------------------------------------------
(* updateConfiguration: nothing keeps two calls of it apart *)

\* Call u goes on at a.
Goto(u, a) == config' = [config EXCEPT ![u] = [NoUpdate EXCEPT !.at = a]]

\* Without a connection it goes straight to initConnection.
updateConfiguration(u) ==
  /\ up /\ Request
  /\ config[u].at = "none"
  /\ Goto(u, IF current # NoClient /\ flag THEN "list" ELSE "init")
  /\ UNCHANGED <<up, current, link, subs, flag, attempts, callback, pending,
                 history, repo, faults>>

\* A client is told to end with nothing on its way: a connection it is
\* opening closes before its listeners are removed, or after.
endIdle(u) ==
  /\ link[current] \in {"trying", "waiting"}
  /\ link' = [link EXCEPT ![current] = "unused"]
  /\ Goto(u, "init")
  /\ \/ link[current] = "trying" /\ Reset
     \/ UNCHANGED <<attempts, unheard>>

\* An open connection ends later: the call waits for that.
endOnline(u) ==
  /\ link[current] = "online"
  /\ link' = [link EXCEPT ![current] = "ending"]
  /\ config' = [config EXCEPT ![u] = [at |-> "end", ends |-> current]]
  /\ UNCHANGED <<attempts, unheard>>

\* Told to end once more, a client calls back at once, and the adapter
\* removes its listeners: nobody will hear its close.
endEnding(u) ==
  /\ link[current] = "ending"
  /\ link' = [link EXCEPT ![current] = "silent"]
  /\ unheard' = unheard + 1
  /\ Goto(u, "init")
  /\ UNCHANGED attempts

\* The adapter has no client any more.
endNothing(u) ==
  /\ link[current] \in {"silent", "unused"}
  /\ Goto(u, "init")
  /\ UNCHANGED <<link, attempts, unheard>>

\* disconnect: every subscribed topic is to be marked unsubscribed, which
\* is not awaited, and the client of this.mqtt is told to end. When no topic
\* is subscribed it fails, and so does the request.
disconnect(u) ==
  /\ config[u].at = "list"
  /\ IF SubscribedTopics = {}
       THEN /\ Goto(u, "none")
            /\ UNCHANGED <<pending, flag, link, attempts, unheard>>
       ELSE /\ pending' = pending \cup SubscribedTopics
            /\ flag' = FALSE
            /\ endIdle(u) \/ endOnline(u) \/ endEnding(u) \/ endNothing(u)
  /\ UNCHANGED <<up, current, subs, callback, declined, repo, faults, ops>>

\* updateTopic is carried out.
updateTopic(t) ==
  /\ t \in pending
  /\ repo' = [repo EXCEPT ![t] = "unsubscribed"]
  /\ pending' = pending \ {t}
  /\ UNCHANGED <<up, current, link, subs, flag, attempts, callback, config,
                 history, faults, ops>>

\* The calls that wait for the end of c go on at a.
Resume(c, a) ==
  config' = [u \in Updates |-> IF config[u].ends = c
                                 THEN [NoUpdate EXCEPT !.at = a]
                                 ELSE config[u]]

\* Mutant: the callback of end takes the reconfiguration no further.
endedAndDone(c) ==
  /\ link[c] \in {"ending", "silent"} /\ ~Awaited(c)
  /\ link' = [link EXCEPT ![c] = "unused"]
  /\ IF link[c] = "ending"
       THEN flag' = FALSE /\ Reset
       ELSE UNCHANGED <<flag, attempts, unheard>>
  /\ Resume(c, "none")
  /\ UNCHANGED <<up, current, subs, callback, pending, declined, repo, faults,
                 ops>>

\* The SUBACKs that c waits for are in; 'close', unless nobody listens, then
\* the callback of end.
ended(c) ==
  /\ link[c] \in {"ending", "silent"} /\ ~Awaited(c)
  /\ link' = [link EXCEPT ![c] = "unused"]
  /\ IF link[c] = "ending"
       THEN flag' = FALSE /\ Reset
       ELSE UNCHANGED <<flag, attempts, unheard>>
  /\ Resume(c, "init")
  /\ UNCHANGED <<up, current, subs, callback, pending, declined, repo, faults,
                 ops>>

\* initConnection with the environment's settings, whatever the request said.
configInit(u, c) ==
  /\ config[u].at = "init"
  /\ initConnection(c)
  /\ Goto(u, "none")
  /\ UNCHANGED <<up, flag, attempts, callback, pending, unheard, repo, faults,
                 ops>>

----------------------------------------------------------------------------
(* The specification *)

Callback(c) ==
  \/ callbackFind(c) \/ callbackSave(c) \/ callbackList(c)
  \/ callbackSubscribe(c) \/ callbackSuback(c)

Configuring ==
  \/ \E u \in Updates : disconnect(u) \/ \E c \in Clients : configInit(u, c)
  \/ \E t \in Topics : updateTopic(t)
  \/ \E c \in Clients : ended(c)

Requested ==
  \/ \E c \in Clients : connect(c) \/ reconnect(c)
  \/ \E t \in Topics : subscribe(t) \/ unsubscribe(t)
  \/ \E t \in DeviceTopics : createTopic(t)
  \/ \E u \in Updates : updateConfiguration(u)

Next ==
  \/ \E c \in Clients : Start(c) \/ Connect(c) \/ Close(c) \/ Reconnect(c)
  \/ \E c \in Clients : Callback(c)
  \/ Configuring
  \/ Requested
  \/ Crash

Spec == Init /\ [][Next]_vars

\* The process is started again when it has ended (the deployment's part);
\* mqtt.js tries again after every close and a broker that does not refuse
\* lets it in; callbacks and disconnect go on. Requests and faults need not
\* happen.
FairSpec ==
  /\ Spec
  /\ WF_vars(\E c \in Clients : Start(c))
  /\ \A c \in Clients :
       WF_vars(Connect(c)) /\ WF_vars(Reconnect(c)) /\ WF_vars(Callback(c))
  /\ WF_vars(Configuring)

----------------------------------------------------------------------------
(* Properties *)

\* isConnectedState is true only while some client made by initConnection is
\* connected, though the callbacks of all of them write it.
FlagBacked == flag => \E c \in Clients : Online(c)

\* connectionAttempts exceeds its maximum by no more than one for each
\* client that is connected or ending, and one for each client two calls of
\* updateConfiguration ended at once: only a connect event adds without
\* looking at the maximum, and a close that is heard starts the count again.
AttemptsBounded ==
  attempts <=
    MaxAttempts + unheard
      + Cardinality({c \in Clients : link[c] \in {"online", "ending"}})

\* Call u of updateConfiguration has yet to make a new client.
Replaces(u) == config[u].at = "init"

\* A running service is never left without a way back to its broadcast topic,
\* unless an operator unsubscribes it. Whatever abandoned clients and
\* overlapping reconfigurations do, this.mqtt's client is connecting; or has
\* been ended, and a call of updateConfiguration that waits for just this end,
\* or goes on already, is still to replace it; or is connected and has the
\* broadcast topic, or a connect callback of its own (not that of another
\* client) that has yet to subscribe it.
NeverStranded ==
  up => /\ current # NoClient
        /\ link[current] \in {"ending", "silent"} =>
             \E u \in Updates : config[u].ends = current \/ Replaces(u)
        /\ link[current] = "unused" => \E u \in Updates : Replaces(u)
        /\ Connected => \/ Broadcast \in subs[current]
                        \/ current \in declined
                        \/ callback[current].at \in
                             {"find", "save", "list", "subscribe"}

\* The client the service uses is connected and receives the broadcast topic,
\* or an operator does not want it to.
Recovered ==
  up /\ Connected /\ (Broadcast \in subs[current] \/ current \in declined)

\* After the last fault and request the service gets back to the broadcast
\* topic, as long as some topic stays recorded as subscribed: no sequence of
\* losses, crashes, reconnects and reconfigurations leaves it unsubscribed
\* but an operator's own unsubscribe.
RecoversWhileSubscribed ==
  <>[](SubscribedTopics # {}) => <>[]Recovered

\* "Automatically subscribes to the broadcast topic on successful
\* connection", whatever updateConfiguration recorded.
BroadcastSubscribed == <>[]Recovered
=============================================================================
