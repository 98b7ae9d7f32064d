------------------------- MODULE ProvisioningProofs -------------------------
(***************************************************************************)
(* Proofs about Provisioning, for any number of devices, tasks, ids and    *)
(* topics.                                                                 *)
(***************************************************************************)
EXTENDS Provisioning, TLAPS

\* Lemma: update writes every record of a device and forgets none.
LEMMA UpdateKeeps ==
  ASSUME NEW s \in Seq(Sensor), NEW b \in BOOLEAN,
         NEW x, x \in {[i \in DOMAIN s |-> [s[i] EXCEPT !.state = "assigned"]],
                       [i \in DOMAIN s |-> [s[i] EXCEPT !.isDeleted = b]]}
  PROVE  /\ x \in Seq(Sensor)
         /\ Len(x) = Len(s)
         /\ DOMAIN x = DOMAIN s
         /\ x = <<>> <=> s = <<>>
<1>1. DOMAIN s = 1..Len(s) /\ Len(s) \in Nat /\ \A i \in 1..Len(s) : s[i] \in Sensor
  OBVIOUS
<1>2. DOMAIN x = 1..Len(s) /\ \A i \in 1..Len(s) : x[i] \in Sensor
  BY <1>1 DEF Sensor
<1>3. x = [i \in 1..Len(s) |-> x[i]]
  BY <1>1
<1>4. x \in Seq(Sensor) /\ Len(x) = Len(s)
  BY <1>1, <1>2, <1>3
<1> QED
  BY <1>1, <1>2, <1>4

-----------------------------------------------------------------------------
(* What a step is made of *)

\* A step that only looks, or writes Redis, for a call that is no discovery.
Quiet(t) ==
  /\ UNCHANGED <<mongo, hist>>
  /\ task' \in [Tasks -> Call]
  /\ task[t].role = "none" /\ task'[t].role = "none"
  /\ \A u \in Tasks \ {t} : task'[u] = task[u]

\* Lemma: a saved record comes after those there were.
LEMMA SaveAppends ==
  ASSUME NEW s \in Seq(Sensor)
  PROVE  LET x == Append(s, [state |-> "discovered", isDeleted |-> FALSE])
         IN  /\ x \in Seq(Sensor) /\ x # <<>> /\ Len(x) = Len(s) + 1
             /\ \A i \in DOMAIN s : i \in DOMAIN x /\ x[i] = s[i]
             /\ DOMAIN x = 1..(Len(s) + 1)
             /\ x[Len(s) + 1] = [state |-> "discovered", isDeleted |-> FALSE]
<1> DEFINE r == [state |-> "discovered", isDeleted |-> FALSE]
<1>1. r \in Sensor
  BY DEF Sensor
<1> HIDE DEF r
<1>2. Append(s, r) \in Seq(Sensor) /\ Len(Append(s, r)) = Len(s) + 1
  BY <1>1
<1>3. Append(s, r) # <<>>
  <2>1. Len(s) \in Nat /\ Len(<<>>) = 0
    OBVIOUS
  <2>2. Len(s) + 1 # 0
    BY <2>1
  <2> QED
    BY <1>2, <2>1, <2>2
<1>4. \A i \in DOMAIN s : i \in DOMAIN Append(s, r) /\ Append(s, r)[i] = s[i]
  BY <1>1
<1>5. /\ DOMAIN Append(s, r) = 1..(Len(s) + 1)
      /\ Append(s, r)[Len(s) + 1] = r
  BY <1>1
<1> QED
  BY <1>2, <1>3, <1>4, <1>5 DEF r

\* Lemma: the table of calls is well-formed when one entry is replaced.
LEMMA TaskUpdate ==
  ASSUME task \in [Tasks -> Call], NEW t \in Tasks, NEW c \in Call,
         task' = [task EXCEPT ![t] = c]
  PROVE  /\ task' \in [Tasks -> Call]
         /\ task'[t] = c
         /\ \A u \in Tasks \ {t} : task'[u] = task[u]
  OBVIOUS

\* Lemma: the call that has ended is a call.
LEMMA IdleCall == Idle \in Call
  BY ProvisioningAssumption DEF Idle, Call, Steps, Kinds

\* Lemma: End frees one task.
LEMMA EndTask ==
  ASSUME task \in [Tasks -> Call], NEW t \in Tasks, End(t)
  PROVE  /\ task' \in [Tasks -> Call]
         /\ task'[t].pc = "idle" /\ task'[t].role = "none"
         /\ task'[t].code = "none"
         /\ \A u \in Tasks \ {t} : task'[u] = task[u]
  BY IdleCall, TaskUpdate DEF End, Idle

\* Lemma: Goto moves one task and leaves its other fields alone.
LEMMA GotoTask ==
  ASSUME task \in [Tasks -> Call], NEW t \in Tasks, NEW pc \in Steps,
         Goto(t, pc)
  PROVE  /\ task' \in [Tasks -> Call]
         /\ task'[t] = [task[t] EXCEPT !.pc = pc]
         /\ \A u \in Tasks \ {t} : task'[u] = task[u]
<1>1. [task[t] EXCEPT !.pc = pc] \in Call
  BY DEF Call
<1>2. task' = [task EXCEPT ![t] = [task[t] EXCEPT !.pc = pc]]
  BY DEF Goto
<1> QED
  BY <1>1, <1>2, TaskUpdate

\* Lemma: nextTopic moves one task.
LEMMA NextTopicTask ==
  ASSUME task \in [Tasks -> Call], NEW t \in Tasks, nextTopic(t)
  PROVE  /\ task' \in [Tasks -> Call]
         /\ task'[t] = afterTopic(task[t])
         /\ \A u \in Tasks \ {t} : task'[u] = task[u]
<1>1. task[t] \in Call
  OBVIOUS
<1>2. [task[t] EXCEPT !.pc = "respond"] \in Call
  BY <1>1 DEF Call, Steps
<1>3. [task[t] EXCEPT !.pc = "save"] \in Call
  BY <1>1 DEF Call, Steps
<1>4. ASSUME task[t].next # LastTopic
      PROVE  [task[t] EXCEPT !.pc = "topic find", !.next = task[t].next + 1]
               \in Call
  <2>1. task[t].next + 1 \in 0..LastTopic
    BY <1>1, <1>4, ProvisioningAssumption DEF Call
  <2> QED
    BY <1>1, <2>1 DEF Call, Steps
<1>5. afterTopic(task[t]) \in Call
  BY <1>2, <1>3, <1>4 DEF afterTopic
<1> QED
  BY <1>5, TaskUpdate DEF nextTopic

-----------------------------------------------------------------------------
(* The inductive invariant *)

Discovering ==
  {"revive", "topic find", "topic store", "save", "subscribe", "respond"}

\* The steps whose task is about a device.
Placed == Discovering \cup {"discovery validate", "find", "assign",
  "assignValidate", "assignUpdate", "hardware", "hardwareTopic",
  "hardwareStore"}

\* The steps of a request that has an id of its own.
Asking == Kinds \cup {"listen", "assignValidate", "assignUpdate",
                      "hardwareTopic", "hardwareStore", "hardwarePublish"}

\* What the step a task is at says of the task itself.
CallOK(c) ==
  /\ c.pc \in Asking => c.req \in Requests
  /\ c.pc \in Placed => c.dev \in Devices
  /\ c.pc = "strict" => c.code = "text"
  /\ c.pc \in Discovering <=> c.role # "none"
  /\ c.role = "new" => c.pc \in {"topic find", "topic store", "save"}
  /\ c.role \in {"new", "known"} => c.next = 0
  /\ c.role = "known" =>
       c.pc \in {"revive", "topic find", "topic store", "respond"}
  /\ c.role = "creator" =>
       c.pc \in {"subscribe", "topic find", "topic store", "respond"}
  /\ c.pc = "save" => c.role = "new"
  /\ c.pc \in {"discovery validate", "find", "subscribe"} => c.next = 0

\* What the records and topics of device d are by then.
DeviceOK(c, d) ==
  /\ c.pc \in {"assignValidate", "assignUpdate"} => AssignTopic \in topics[d]
  /\ c.pc = "save" => 0 \in topics[d]
  /\ c.role = "known" => Stored(d)
  /\ c.role = "creator" =>
       /\ Stored(d)
       /\ \A n \in 0..LastTopic : n < c.next => n \in topics[d]
       /\ c.pc = "respond" => AllTopics(d)

TaskOK(t) ==
  /\ CallOK(task[t])
  /\ \A d \in Devices : task[t].dev = d => DeviceOK(task[t], d)

TasksOK == \A t \in Tasks : TaskOK(t)

\* A recorded device has its base topic.
BaseTopic == \A d \in Devices : Stored(d) => 0 \in topics[d]

\* Without an overlap there is one handler that may still record d, and only
\* while d has no record.
Recording ==
  \A d \in Devices \ overlapped :
    /\ Len(sensors[d]) <= 1
    /\ \A t, u \in Tasks : Unaware(t, d) /\ Unaware(u, d) => t = u
    /\ \A t \in Tasks : Unaware(t, d) => ~Stored(d)

\* A creator that will not meet a topic that has been stored behind its back.
Leads(t, d) ==
  /\ Creating(t, d)
  /\ task[t].pc = "topic store" => task[t].next \notin topics[d]

\* While topics of d are missing, some creator is ahead of all others.
Leader ==
  \A d \in Devices \ (torn \cup polled) :
    Stored(d) => AllTopics(d) \/ \E t \in Tasks : Leads(t, d)

IInv ==
  TypeOK /\ TasksOK /\ BaseTopic /\ Recording /\ Leader /\ AssignedReachable

-----------------------------------------------------------------------------
(* The steps of calls that are no discovery *)

\* Lemma: answers, requests that only look, and heartbeats are quiet.
LEMMA QuietStep ==
  ASSUME TypeOK, TasksOK, NEW t \in Tasks,
         \/ \E d \in Devices : \/ Delete(t, d)
                               \/ \E k \in Kinds : Ask(t, k, d)
                               \/ \E r \in Requests :
                                    \E k \in Kinds \cup {"heartbeat"} :
                                      Answer(t, d, r, k)
         \/ discoverDevicesBroadcast(t) \/ subscribeBroadcast(t)
         \/ discoverDeviceUnicast(t) \/ assignTopic(t) \/ assignValidate(t)
         \/ hardwareFind(t) \/ hardwareTopic(t) \/ hardwarePublish(t)
         \/ getDeviceTelemetry(t) \/ validate(t) \/ heartbeat(t)
         \/ handleStrict(t)
  PROVE  Quiet(t)
<1> USE DEF TypeOK
<1>0. task[t] \in Call /\ CallOK(task[t]) /\ Idle \in Call
  BY IdleCall DEF TasksOK, TaskOK
<1>1. ASSUME NEW d \in Devices, Delete(t, d) PROVE Quiet(t)
  <2>1. [Idle EXCEPT !.pc = "delete", !.dev = d] \in Call
    BY <1>0 DEF Call, Steps
  <2> QED
    BY <1>0, <1>1, <2>1, TaskUpdate
    DEF Delete, Quiet, mongo, hist, At, CallOK, Discovering, Idle
<1>2. ASSUME NEW d \in Devices, NEW k \in Kinds, Ask(t, k, d) PROVE Quiet(t)
  <2> PICK r \in Requests :
        task' = [task EXCEPT ![t] = [Idle EXCEPT !.pc = k, !.req = r,
                     !.dev = IF k = "discovery" THEN NoDevice ELSE d]]
    BY <1>2 DEF Ask
  <2>1. [Idle EXCEPT !.pc = k, !.req = r,
             !.dev = IF k = "discovery" THEN NoDevice ELSE d] \in Call
    BY ZenonT(60), <1>0 DEF Call, Steps
  <2> QED
    BY <1>0, <1>2, <2>1, TaskUpdate
    DEF Ask, Quiet, mongo, hist, At, CallOK, Discovering, Idle
<1>3. ASSUME NEW d \in Devices, NEW r \in Requests,
             NEW k \in Kinds \cup {"heartbeat"}, Answer(t, d, r, k)
      PROVE  Quiet(t)
  <2> DEFINE c == IF entry(route(topicOf(k, d))) = "idle" THEN Idle
                  ELSE [Idle EXCEPT !.pc = entry(route(topicOf(k, d))),
                                    !.dev = d, !.req = r]
  <2>1. entry(route(topicOf(k, d))) \in Steps
    BY DEF entry, Steps
  <2>2. c \in Call
    BY <1>0, <2>1 DEF Call
  <2>3. c.role = "none"
    BY DEF Idle
  <2> HIDE DEF c
  <2>4. task' = [task EXCEPT ![t] = c]
    BY <1>3 DEF c, Answer
  <2> QED
    BY <1>0, <1>3, <2>2, <2>3, <2>4, TaskUpdate
    DEF Answer, Quiet, mongo, hist, At, CallOK, Discovering
<1>4. ASSUME NEW pc \in Steps \ Discovering, Goto(t, pc),
             UNCHANGED <<mongo, hist>>, task[t].role = "none"
      PROVE  Quiet(t)
  <2>1. /\ task' \in [Tasks -> Call]
        /\ task'[t] = [task[t] EXCEPT !.pc = pc]
        /\ \A u \in Tasks \ {t} : task'[u] = task[u]
    BY <1>4, GotoTask
  <2>2. task'[t].role = task[t].role
    BY <1>0, <2>1 DEF Call
  <2> QED
    BY <1>4, <2>1, <2>2 DEF Quiet
<1>5. ASSUME End(t), UNCHANGED <<mongo, hist>>, task[t].role = "none"
      PROVE  Quiet(t)
  BY <1>5, EndTask DEF Quiet
<1>6. CASE discoverDevicesBroadcast(t) \/ subscribeBroadcast(t)
             \/ discoverDeviceUnicast(t)
  BY <1>0, <1>4, <1>5, <1>6
  DEF discoverDevicesBroadcast, subscribeBroadcast, discoverDeviceUnicast,
      At, CallOK, Discovering, Steps, Kinds
<1>7. CASE assignTopic(t) \/ assignValidate(t)
  BY <1>0, <1>4, <1>5, <1>7
  DEF assignTopic, assignValidate, At, CallOK, Discovering, Steps, Kinds,
      redis
<1>8. CASE hardwareFind(t) \/ hardwareTopic(t) \/ hardwarePublish(t)
  BY <1>0, <1>4, <1>5, <1>8
  DEF hardwareFind, hardwareTopic, hardwarePublish, At, CallOK, Discovering,
      Steps, Kinds
<1>9. CASE getDeviceTelemetry(t) \/ heartbeat(t)
  BY <1>0, <1>5, <1>9
  DEF getDeviceTelemetry, heartbeat, At, CallOK, Discovering, Kinds
<1>10. CASE validate(t)
  <2>1. task[t].role = "none" /\ UNCHANGED <<mongo, hist>>
    BY <1>0, <1>10 DEF validate, At, CallOK, Discovering
  <2>2. \/ Goto(t, "find") \/ Goto(t, "heartbeat") \/ End(t)
        \/ \E code \in {"number", "text"} :
             task' = [task EXCEPT ![t].pc = "strict", ![t].code = code]
    BY <1>10 DEF validate
  <2>3. ASSUME NEW code \in {"number", "text"},
               task' = [task EXCEPT ![t].pc = "strict", ![t].code = code]
        PROVE  Quiet(t)
    <3> DEFINE c == [task[t] EXCEPT !.pc = "strict", !.code = code]
    <3>1. c \in Call /\ c.role = task[t].role
      BY <1>0 DEF Call, Steps
    <3>2. task' = [task EXCEPT ![t] = c]
      BY <2>3
    <3> HIDE DEF c
    <3> QED
      BY <1>0, <2>1, <3>1, <3>2, TaskUpdate DEF Quiet
  <2> QED
    BY <1>4, <1>5, <2>1, <2>2, <2>3 DEF Steps, Discovering
<1>11. CASE handleStrict(t)
  <2>1. UNCHANGED <<mongo, hist>> /\ task[t].role = "none"
    BY <1>0, <1>11 DEF handleStrict, At, CallOK, Discovering, mongo
  <2> QED
    BY <1>5, <1>11, <2>1 DEF handleStrict
<1> QED
  BY <1>1, <1>2, <1>3, <1>6, <1>7, <1>8, <1>9, <1>10, <1>11

-----------------------------------------------------------------------------
(* Types *)

\* The steps that write a record or a topic, or belong to a discovery.
Loud(t) ==
  \/ assignUpdate(t) \/ hardwareStore(t) \/ deleteSensor(t)
  \/ discoveryFind(t) \/ revive(t) \/ topicFind(t) \/ topicStore(t)
  \/ saveSensor(t) \/ subscribe(t) \/ respond(t) \/ Fail(t)

\* Lemma: every step is quiet, loud, or the expiry of an id.
LEMMA StepCases ==
  ASSUME TypeOK, TasksOK, Next
  PROVE  \/ \E t \in Tasks : Quiet(t)
         \/ \E t \in Tasks : Loud(t)
         \/ UNCHANGED <<mongo, hist, task>>
<1>1. ASSUME NEW t \in Tasks, Work(t) PROVE Quiet(t) \/ Loud(t)
  BY <1>1, QuietStep DEF Work, Loud
<1>2. ASSUME NEW t \in Tasks, Fail(t) PROVE Loud(t)
  BY <1>2 DEF Loud
<1>3. ASSUME NEW t \in Tasks, NEW d \in Devices, Delete(t, d) PROVE Quiet(t)
  BY <1>3, QuietStep
<1>4. ASSUME NEW t \in Tasks, NEW d \in Devices, NEW k \in Kinds, Ask(t, k, d)
      PROVE  Quiet(t)
  BY <1>4, QuietStep
<1>5. ASSUME NEW t \in Tasks, NEW d \in Devices, NEW r \in Requests,
             NEW k \in Kinds \cup {"heartbeat"}, Answer(t, d, r, k)
      PROVE  Quiet(t)
  BY <1>5, QuietStep
<1>6. ASSUME NEW r \in Requests, Expire(r) PROVE UNCHANGED <<mongo, hist, task>>
  BY <1>6 DEF Expire
<1> QED
  BY <1>1, <1>2, <1>3, <1>4, <1>5, <1>6 DEF Next

\* Lemma: what Redis and the broker hold keeps its type, because only a task
\* that has an id of its own makes it pending or publishes it.
LEMMA RedisType ==
  ASSUME TypeOK, TasksOK, Next
  PROVE  /\ asked' \subseteq Requests
         /\ pending' \subseteq Requests /\ published' \subseteq Requests
         /\ listening' \in BOOLEAN
<1> USE DEF TypeOK
<1>0. \A t \in Tasks : task[t].pc \in Asking => task[t].req \in Requests
  BY DEF TasksOK, TaskOK, CallOK
<1>1. ASSUME NEW t \in Tasks, NEW d \in Devices, NEW k \in Kinds, Ask(t, k, d)
      PROVE  asked' \subseteq Requests
             /\ UNCHANGED <<pending, published, listening>>
  BY <1>1 DEF Ask
<1>2. ASSUME NEW t \in Tasks,
             \/ discoverDevicesBroadcast(t) \/ subscribeBroadcast(t)
             \/ discoverDeviceUnicast(t) \/ assignTopic(t)
             \/ assignValidate(t) \/ assignUpdate(t)
      PROVE  /\ UNCHANGED asked /\ listening' \in BOOLEAN
             /\ pending' \subseteq Requests /\ published' \subseteq Requests
  <2>1. task[t].pc \in Asking => task[t].req \in Requests
    BY <1>0
  <2>2. CASE discoverDevicesBroadcast(t) \/ subscribeBroadcast(t)
               \/ discoverDeviceUnicast(t)
    BY <2>1, <2>2
    DEF discoverDevicesBroadcast, subscribeBroadcast, discoverDeviceUnicast,
        At, Asking, Kinds, setCache, publish
  <2>3. CASE assignTopic(t) \/ assignValidate(t)
    BY <2>1, <2>3
    DEF assignTopic, assignValidate, At, Asking, setCache, redis
  <2>4. CASE assignUpdate(t)
    BY <2>1, <2>4 DEF assignUpdate, At, Asking, publish
  <2> QED
    BY <1>2, <2>2, <2>3, <2>4
<1>3. ASSUME NEW t \in Tasks,
             \/ hardwareFind(t) \/ hardwareTopic(t) \/ hardwareStore(t)
             \/ hardwarePublish(t) \/ getDeviceTelemetry(t) \/ deleteSensor(t)
      PROVE  /\ UNCHANGED <<asked, listening>>
             /\ pending' \subseteq Requests /\ published' \subseteq Requests
  BY <1>0, <1>3
  DEF hardwareFind, hardwareTopic, hardwareStore, hardwarePublish,
      getDeviceTelemetry, deleteSensor, At, Asking, Kinds, setCache, publish,
      redis
<1>4. ASSUME NEW t \in Tasks,
             \/ validate(t) \/ discoveryFind(t) \/ revive(t) \/ topicFind(t)
             \/ topicStore(t) \/ saveSensor(t) \/ subscribe(t) \/ Fail(t)
             \/ \E d \in Devices : Delete(t, d)
             \/ \E d \in Devices, r \in Requests,
                   k \in Kinds \cup {"heartbeat"} : Answer(t, d, r, k)
      PROVE  UNCHANGED redis
  BY <1>4
  DEF validate, discoveryFind, revive, topicFind, topicStore, saveSensor,
      subscribe, Fail, Delete, Answer
<1>5. ASSUME NEW t \in Tasks, respond(t) \/ heartbeat(t) \/ handleStrict(t)
      PROVE  UNCHANGED <<asked, published, listening>>
             /\ pending' \subseteq Requests
  BY <1>5 DEF respond, heartbeat, handleStrict
<1>6. ASSUME NEW r \in Requests, Expire(r)
      PROVE  UNCHANGED <<asked, published, listening>>
             /\ pending' \subseteq Requests
  BY <1>6 DEF Expire
<1> QED
  BY <1>1, <1>2, <1>3, <1>4, <1>5, <1>6 DEF Next, Work, redis

\* Lemma: a loud step keeps the types of records, topics and tasks.
LEMMA LoudType ==
  ASSUME TypeOK, TasksOK, NEW t \in Tasks, Loud(t)
  PROVE  /\ sensors' \in [Devices -> Seq(Sensor)]
         /\ topics' \in [Devices -> SUBSET (0..LastTopic)]
         /\ task' \in [Tasks -> Call]
         /\ \A u \in Tasks \ {t} : task'[u] = task[u]
<1> USE DEF TypeOK
<1>0. task[t] \in Call /\ CallOK(task[t])
  BY DEF TasksOK, TaskOK
<1>1. ASSUME NEW d, updateState(d) PROVE sensors' \in [Devices -> Seq(Sensor)]
  <2>1. \A e \in Devices :
          [i \in DOMAIN sensors[e] |-> [sensors[e][i] EXCEPT !.state = "assigned"]]
            \in Seq(Sensor)
    BY UpdateKeeps
  <2> QED
    BY <1>1, <2>1 DEF updateState
<1>2. ASSUME NEW d, NEW b \in BOOLEAN, updateDeleted(d, b)
      PROVE  sensors' \in [Devices -> Seq(Sensor)]
  <2>1. \A e \in Devices :
          [i \in DOMAIN sensors[e] |-> [sensors[e][i] EXCEPT !.isDeleted = b]]
            \in Seq(Sensor)
    BY UpdateKeeps
  <2> QED
    BY <1>2, <2>1 DEF updateDeleted
<1>3. ASSUME NEW d, save(d) PROVE sensors' \in [Devices -> Seq(Sensor)]
  <2>1. [state |-> "discovered", isDeleted |-> FALSE] \in Sensor
    BY DEF Sensor
  <2>2. \A e \in Devices :
          Append(sensors[e], [state |-> "discovered", isDeleted |-> FALSE])
            \in Seq(Sensor)
    BY <2>1
  <2> QED
    BY <1>3, <2>2 DEF save
<1>4. ASSUME NEW d, NEW n \in 0..LastTopic, storeTopic(d, n)
      PROVE  topics' \in [Devices -> SUBSET (0..LastTopic)]
  BY <1>4 DEF storeTopic
<1>5. CASE assignUpdate(t)
  BY <1>1, <1>5, EndTask DEF assignUpdate
<1>6. CASE hardwareStore(t)
  <2>1. HardwareTopic \in 0..LastTopic
    BY ProvisioningAssumption
  <2> QED
    BY <1>4, <1>6, <2>1, EndTask, GotoTask DEF hardwareStore, Steps
<1>7. CASE deleteSensor(t)
  BY <1>2, <1>7, EndTask DEF deleteSensor
<1>8. CASE discoveryFind(t)
  <2> DEFINE c == [task[t] EXCEPT
                     !.role = IF Stored(task[t].dev) THEN "known" ELSE "new",
                     !.pc = IF Stored(task[t].dev)
                               /\ sensors[task[t].dev][1].isDeleted
                            THEN "revive" ELSE "topic find"]
  <2>1. c \in Call
    BY <1>0 DEF Call, Steps
  <2>2. task' = [task EXCEPT ![t] = c] /\ UNCHANGED mongo
    BY <1>8 DEF discoveryFind
  <2> QED
    BY <2>1, <2>2, TaskUpdate DEF mongo
<1>9. CASE revive(t)
  BY <1>2, <1>9, GotoTask DEF revive, Steps
<1>10. CASE topicFind(t)
  BY <1>10, GotoTask, NextTopicTask DEF topicFind, Steps, mongo
<1>11. CASE topicStore(t)
  <2>1. task[t].next \in 0..LastTopic
    BY <1>0 DEF Call
  <2> QED
    BY <1>4, <1>11, <2>1, EndTask, NextTopicTask DEF topicStore
<1>12. CASE saveSensor(t)
  <2>1. [task[t] EXCEPT !.pc = "subscribe", !.role = "creator"] \in Call
    BY <1>0 DEF Call, Steps
  <2>2. task' = [task EXCEPT ![t] =
                   [task[t] EXCEPT !.pc = "subscribe", !.role = "creator"]]
    BY <1>12 DEF saveSensor
  <2> QED
    BY <1>3, <1>12, <2>1, <2>2, TaskUpdate DEF saveSensor
<1>13. CASE subscribe(t)
  BY <1>13, GotoTask DEF subscribe, Steps, mongo
<1>14. CASE respond(t) \/ Fail(t)
  BY <1>14, EndTask DEF respond, Fail, mongo
<1> QED
  BY <1>5, <1>6, <1>7, <1>8, <1>9, <1>10, <1>11, <1>12, <1>13, <1>14 DEF Loud

-----------------------------------------------------------------------------
(* Records and topics only grow, and so do the histories *)

\* Lemma: no step forgets a topic, or the last record of a device.
LEMMA MongoGrows ==
  ASSUME TypeOK, TasksOK, Next, NEW d \in Devices
  PROVE  topics[d] \subseteq topics'[d] /\ (Stored(d) => Stored(d)')
<1> USE DEF TypeOK, Stored
<1>1. ASSUME NEW e, updateState(e) PROVE Stored(d) => Stored(d)'
  <2>1. [i \in DOMAIN sensors[d] |-> [sensors[d][i] EXCEPT !.state = "assigned"]]
          = <<>> <=> sensors[d] = <<>>
    BY UpdateKeeps
  <2> QED
    BY <1>1, <2>1 DEF updateState
<1>2. ASSUME NEW e, NEW b \in BOOLEAN, updateDeleted(e, b)
      PROVE  Stored(d) => Stored(d)'
  <2>1. [i \in DOMAIN sensors[d] |-> [sensors[d][i] EXCEPT !.isDeleted = b]]
          = <<>> <=> sensors[d] = <<>>
    BY UpdateKeeps
  <2> QED
    BY <1>2, <2>1 DEF updateDeleted
<1>3. ASSUME NEW e, save(e) PROVE Stored(d) => Stored(d)'
  <2>1. Append(sensors[d], [state |-> "discovered", isDeleted |-> FALSE]) # <<>>
    BY SaveAppends
  <2> QED
    BY <1>3, <2>1 DEF save
<1>4. ASSUME NEW e, NEW n, storeTopic(e, n) PROVE topics[d] \subseteq topics'[d]
  BY <1>4 DEF storeTopic
<1>5. ASSUME NEW t \in Tasks, Loud(t)
      PROVE  topics[d] \subseteq topics'[d] /\ (Stored(d) => Stored(d)')
  <2>1. CASE assignUpdate(t)
    BY <1>1, <2>1 DEF assignUpdate
  <2>2. CASE deleteSensor(t) \/ revive(t)
    BY <1>2, <2>2 DEF deleteSensor, revive
  <2>3. CASE hardwareStore(t)
    BY <1>4, <2>3 DEF hardwareStore
  <2>4. CASE topicStore(t)
    BY <1>4, <2>4 DEF topicStore
  <2>5. CASE saveSensor(t)
    BY <1>3, <2>5 DEF saveSensor
  <2>6. CASE discoveryFind(t) \/ topicFind(t) \/ subscribe(t) \/ respond(t)
               \/ Fail(t)
    BY <2>6 DEF discoveryFind, topicFind, subscribe, respond, Fail, mongo
  <2> QED
    BY <1>5, <2>1, <2>2, <2>3, <2>4, <2>5, <2>6 DEF Loud
<1>6. ASSUME UNCHANGED mongo
      PROVE  topics[d] \subseteq topics'[d] /\ (Stored(d) => Stored(d)')
  BY <1>6 DEF mongo
<1> QED
  BY <1>5, <1>6, StepCases DEF Quiet

\* Lemma: the histories name devices.
LEMMA HistType ==
  ASSUME TypeOK, TasksOK, Next
  PROVE  overlapped' \subseteq Devices /\ torn' \subseteq Devices
         /\ polled' \subseteq Devices
<1> USE DEF TypeOK, hist
<1>1. ASSUME NEW t \in Tasks, Loud(t)
      PROVE  overlapped' \subseteq Devices /\ torn' \subseteq Devices
             /\ polled' \subseteq Devices
  <2>0. CallOK(task[t])
    BY DEF TasksOK, TaskOK
  <2>1. CASE hardwareStore(t)
    BY <2>0, <2>1 DEF hardwareStore, CallOK, Placed, At
  <2>2. CASE discoveryFind(t)
    BY <2>0, <2>2 DEF discoveryFind, CallOK, Placed, At
  <2>3. CASE Fail(t)
    BY <2>0, <2>3 DEF Fail, CallOK, Placed, Discovering
  <2>4. CASE assignUpdate(t) \/ deleteSensor(t) \/ revive(t) \/ topicFind(t)
               \/ topicStore(t) \/ saveSensor(t) \/ subscribe(t) \/ respond(t)
    BY <2>4 DEF assignUpdate, deleteSensor, revive, topicFind, topicStore,
                saveSensor, subscribe, respond
  <2> QED
    BY <1>1, <2>1, <2>2, <2>3, <2>4 DEF Loud
<1> QED
  BY <1>1, StepCases DEF Quiet

\* Lemma: every step keeps every type.
LEMMA TypeStep ==
  ASSUME TypeOK, TasksOK, Next
  PROVE  TypeOK'
<1>1. /\ sensors' \in [Devices -> Seq(Sensor)]
      /\ topics' \in [Devices -> SUBSET (0..LastTopic)]
      /\ task' \in [Tasks -> Call]
  <2>1. ASSUME NEW t \in Tasks, Quiet(t) PROVE <1>1
    BY <2>1 DEF Quiet, TypeOK, mongo
  <2>2. ASSUME NEW t \in Tasks, Loud(t) PROVE <1>1
    BY <2>2, LoudType
  <2>3. ASSUME UNCHANGED <<mongo, hist, task>> PROVE <1>1
    BY <2>3 DEF TypeOK, mongo
  <2> QED
    BY <2>1, <2>2, <2>3, StepCases
<1> QED
  BY <1>1, RedisType, HistType DEF TypeOK

-----------------------------------------------------------------------------
(* What each step knows *)

\* Lemma: a task that has ended knows nothing.
LEMMA EndOK ==
  ASSUME TypeOK, NEW t \in Tasks, End(t)
  PROVE  TaskOK(t)'
<1>1. task'[t].pc = "idle" /\ task'[t].role = "none"
  BY EndTask DEF TypeOK
<1> QED
  BY <1>1
  DEF TaskOK, CallOK, DeviceOK, Asking, Placed, Discovering, Kinds

\* Lemma: a quiet task that moves on to one of the steps that presuppose
\* nothing of records and topics, with a device and an id if the step needs
\* them.
LEMMA QuietOK ==
  ASSUME NEW t \in Tasks, Quiet(t),
         task'[t].pc \notin Discovering \cup {"strict", "assignValidate",
                                              "assignUpdate"},
         task'[t].pc \in Asking => task'[t].req \in Requests,
         task'[t].pc \in Placed => task'[t].dev \in Devices,
         task'[t].pc \in {"discovery validate", "find"} => task'[t].next = 0
  PROVE  TaskOK(t)'
  BY DEF TaskOK, CallOK, DeviceOK, Quiet, Discovering

\* Lemma: a task that has just been given a call.
LEMMA StartOK ==
  ASSUME TypeOK, TasksOK, NEW t \in Tasks, NEW d \in Devices,
         \/ Delete(t, d)
         \/ \E k \in Kinds : Ask(t, k, d)
         \/ \E r \in Requests, k \in Kinds \cup {"heartbeat"} : Answer(t, d, r, k)
  PROVE  TaskOK(t)'
<1>0. task \in [Tasks -> Call] /\ Quiet(t)
  BY QuietStep DEF TypeOK
<1>1. CASE Delete(t, d)
  <2>1. task'[t].pc = "delete"
    BY <1>0, <1>1 DEF Delete, Idle
  <2> QED
    BY <1>0, <2>1, QuietOK DEF Discovering, Asking, Placed, Kinds
<1>2. ASSUME NEW k \in Kinds, Ask(t, k, d) PROVE TaskOK(t)'
  <2>1. /\ task'[t].pc = k /\ task'[t].req \in Requests
        /\ k # "discovery" => task'[t].dev = d
    <3> PICK r \in Requests :
          task' = [task EXCEPT ![t] = [Idle EXCEPT !.pc = k, !.req = r,
                     !.dev = IF k = "discovery" THEN NoDevice ELSE d]]
      BY <1>2 DEF Ask
    <3>1. task'[t] = [Idle EXCEPT !.pc = k, !.req = r,
                        !.dev = IF k = "discovery" THEN NoDevice ELSE d]
      BY <1>0
    <3> QED
      BY ZenonT(60), <3>1 DEF Idle
  <2> QED
    BY <1>0, <2>1, QuietOK DEF Discovering, Placed, Kinds
<1>3. ASSUME NEW r \in Requests, NEW k \in Kinds \cup {"heartbeat"},
             Answer(t, d, r, k)
      PROVE  TaskOK(t)'
  <2>1. entry(route(topicOf(k, d))) \in
          {"idle", "discovery validate", "heartbeat validate",
           "strict validate"}
    BY DEF entry
  <2>2. \/ task'[t] = Idle
        \/ /\ task'[t].dev = d
           /\ task'[t].pc \in {"discovery validate", "heartbeat validate",
                               "strict validate"}
           /\ task'[t].next = 0
    <3> DEFINE pc == entry(route(topicOf(k, d)))
    <3>0. task' = [task EXCEPT ![t] =
            IF pc = "idle" THEN Idle
            ELSE [Idle EXCEPT !.pc = pc, !.dev = d, !.req = r]]
      BY <1>3 DEF Answer
    <3> HIDE DEF pc
    <3>1. task'[t] = IF pc = "idle" THEN Idle
            ELSE [Idle EXCEPT !.pc = pc, !.dev = d, !.req = r]
      BY <1>0, <3>0
    <3>2. pc \in {"idle", "discovery validate", "heartbeat validate",
                  "strict validate"}
      BY <2>1 DEF pc
    <3>3. CASE pc = "idle"
      BY <3>1, <3>3
    <3>4. ASSUME pc # "idle"
          PROVE  task'[t].dev = d /\ task'[t].pc = pc /\ task'[t].next = 0
      <4>1. task'[t] = [Idle EXCEPT !.pc = pc, !.dev = d, !.req = r]
        BY <3>1, <3>4
      <4>2. task'[t] = [pc |-> pc, dev |-> d, req |-> r, code |-> "none",
                        role |-> "none", next |-> 0]
        BY ZenonT(60), <4>1 DEF Idle
      <4>3. task'[t].dev = d
        BY <4>2
      <4>5. task'[t].pc = pc
        BY <4>2
      <4>4. task'[t].next = 0
        <5>1. [pc |-> pc, dev |-> d, req |-> r, code |-> "none",
               role |-> "none", next |-> 0].next = 0
          OBVIOUS
        <5> QED
          BY <4>2, <5>1, Zenon
      <4> QED
        BY <4>3, <4>4, <4>5
    <3> QED
      BY <3>2, <3>3, <3>4
  <2>3. Idle.pc = "idle"
    BY DEF Idle
  <2> QED
    BY <1>0, <2>2, <2>3, QuietOK DEF Discovering, Placed, Asking, Kinds
<1> QED
  BY <1>1, <1>2, <1>3

\* Lemma: the steps of an operator's request.
LEMMA RequestOK ==
  ASSUME TypeOK, TasksOK, NEW t \in Tasks,
         \/ discoverDevicesBroadcast(t) \/ subscribeBroadcast(t)
         \/ discoverDeviceUnicast(t) \/ assignTopic(t) \/ assignValidate(t)
         \/ assignUpdate(t) \/ hardwareFind(t) \/ hardwareTopic(t)
         \/ hardwareStore(t) \/ hardwarePublish(t) \/ getDeviceTelemetry(t)
         \/ deleteSensor(t)
  PROVE  TaskOK(t)'
<1> USE DEF TypeOK
<1>0. task[t] \in Call /\ TaskOK(t)
  BY DEF TasksOK
<1>1. ASSUME NEW pc \in Steps, Goto(t, pc)
      PROVE  /\ task'[t].pc = pc
             /\ task'[t].dev = task[t].dev /\ task'[t].req = task[t].req
             /\ task'[t].role = task[t].role /\ task'[t].next = task[t].next
             /\ task'[t].code = task[t].code
  <2>1. task'[t] = [task[t] EXCEPT !.pc = pc]
    BY <1>1, GotoTask
  <2> QED
    BY <1>0, <2>1 DEF Call
<1>2. CASE discoverDevicesBroadcast(t) \/ subscribeBroadcast(t)
             \/ discoverDeviceUnicast(t)
  <2>1. CASE discoverDevicesBroadcast(t)
    <3>1. task'[t].pc = "listen" /\ task'[t].req = task[t].req
      BY <1>1, <2>1 DEF discoverDevicesBroadcast, Steps
    <3>2. task[t].req \in Requests
      BY <1>0, <2>1
      DEF discoverDevicesBroadcast, TaskOK, CallOK, Asking, Kinds, At
    <3>3. Quiet(t)
      BY <2>1, QuietStep
    <3> QED
      BY <3>1, <3>2, <3>3, QuietOK DEF Discovering, Placed
  <2> QED
    BY <1>2, <2>1, EndOK DEF subscribeBroadcast, discoverDeviceUnicast
<1>3. CASE assignTopic(t) /\ ~End(t)
  <2>1. /\ task[t].pc = "assign" /\ AssignTopic \in topics[task[t].dev]
        /\ topics' = topics /\ sensors' = sensors
        /\ Goto(t, "assignValidate")
    BY <1>3 DEF assignTopic, At, mongo
  <2>2. task'[t].pc = "assignValidate"
    BY <1>1, <2>1 DEF Steps
  <2>3. task'[t].dev = task[t].dev /\ task'[t].req = task[t].req
        /\ task'[t].role = task[t].role
    BY <1>1, <2>1 DEF Steps
  <2> QED
    BY <1>0, <2>1, <2>2, <2>3
    DEF TaskOK, CallOK, DeviceOK, Discovering, Asking, Placed, Kinds
<1>4. CASE assignValidate(t) /\ ~End(t)
  <2>1. /\ task[t].pc = "assignValidate"
        /\ topics' = topics /\ sensors' = sensors
        /\ Goto(t, "assignUpdate")
    BY <1>4 DEF assignValidate, At, mongo
  <2>2. task'[t].pc = "assignUpdate"
    BY <1>1, <2>1 DEF Steps
  <2>3. task'[t].dev = task[t].dev /\ task'[t].req = task[t].req
        /\ task'[t].role = task[t].role
    BY <1>1, <2>1 DEF Steps
  <2> QED
    BY <1>0, <2>1, <2>2, <2>3
    DEF TaskOK, CallOK, DeviceOK, Discovering, Asking, Placed, Kinds
<1>5. CASE (hardwareFind(t) \/ hardwareTopic(t) \/ hardwareStore(t)) /\ ~End(t)
  <2>1. \E pc \in {"hardwareTopic", "hardwareStore", "hardwarePublish"} :
          Goto(t, pc)
    BY <1>5 DEF hardwareFind, hardwareTopic, hardwareStore
  <2>2. /\ task'[t].pc \in {"hardwareTopic", "hardwareStore", "hardwarePublish"}
        /\ task'[t].dev = task[t].dev /\ task'[t].req = task[t].req
        /\ task'[t].role = task[t].role
    BY <1>1, <2>1 DEF Steps
  <2>3. /\ task[t].req \in Requests /\ task[t].dev \in Devices
        /\ task[t].role = "none"
    BY <1>0, <1>5
    DEF hardwareFind, hardwareTopic, hardwareStore, At, TaskOK, CallOK, Asking,
        Placed, Discovering, Kinds
  <2> QED
    BY <2>2, <2>3
    DEF TaskOK, CallOK, DeviceOK, Discovering, Asking, Placed, Kinds
<1>6. CASE assignUpdate(t) \/ hardwarePublish(t) \/ getDeviceTelemetry(t)
             \/ deleteSensor(t) \/ End(t)
  BY <1>6, EndOK
  DEF assignUpdate, hardwarePublish, getDeviceTelemetry, deleteSensor
<1> QED
  BY <1>2, <1>3, <1>4, <1>5, <1>6


\* Lemma: the steps of the handlers of answers.
LEMMA HandlerOK ==
  ASSUME TypeOK, TasksOK, NEW t \in Tasks,
         \/ validate(t) \/ discoveryFind(t) \/ revive(t) \/ topicFind(t)
         \/ topicStore(t) \/ saveSensor(t) \/ subscribe(t) \/ respond(t)
         \/ heartbeat(t) \/ handleStrict(t) \/ Fail(t),
         \A d \in Devices : Stored(d) => Stored(d)'
  PROVE  TaskOK(t)'
<1> USE DEF TypeOK
<1>0. task[t] \in Call /\ CallOK(task[t]) /\ TaskOK(t)
  BY DEF TasksOK, TaskOK
<1>1. ASSUME NEW pc \in Steps, Goto(t, pc)
      PROVE  /\ task'[t].pc = pc
             /\ task'[t].dev = task[t].dev /\ task'[t].req = task[t].req
             /\ task'[t].role = task[t].role /\ task'[t].next = task[t].next
  <2>1. task'[t] = [task[t] EXCEPT !.pc = pc]
    BY <1>1, GotoTask
  <2> QED
    BY <1>0, <2>1 DEF Call
<1>2. CASE validate(t) /\ ~End(t)
  <2>1. \/ /\ task[t].pc = "discovery validate" /\ Goto(t, "find")
        \/ /\ task[t].pc = "heartbeat validate" /\ Goto(t, "heartbeat")
        \/ /\ task[t].pc = "strict validate"
           /\ task' = [task EXCEPT ![t].pc = "strict", ![t].code = "text"]
    BY <1>2 DEF validate, transformAndValidate, At
  <2>2. CASE task[t].pc = "discovery validate" /\ Goto(t, "find")
    <3>1. task'[t].pc = "find" /\ task'[t].dev = task[t].dev
          /\ task'[t].role = task[t].role /\ task'[t].next = task[t].next
      BY <1>1, <2>2 DEF Steps
    <3> QED
      BY <1>0, <2>2, <3>1
      DEF TaskOK, CallOK, DeviceOK, Discovering, Asking, Placed, Kinds
  <2>3. CASE task[t].pc = "heartbeat validate" /\ Goto(t, "heartbeat")
    <3>1. task'[t].pc = "heartbeat" /\ task'[t].role = task[t].role
      BY <1>1, <2>3 DEF Steps
    <3> QED
      BY <1>0, <2>3, <3>1
      DEF TaskOK, CallOK, DeviceOK, Discovering, Asking, Placed, Kinds
  <2>4. CASE /\ task[t].pc = "strict validate"
             /\ task' = [task EXCEPT ![t].pc = "strict", ![t].code = "text"]
    <3>1. task'[t].pc = "strict" /\ task'[t].role = task[t].role
          /\ task'[t].code = "text"
      BY <1>0, <2>4 DEF Call
    <3> QED
      BY <1>0, <2>4, <3>1
      DEF TaskOK, CallOK, DeviceOK, Discovering, Asking, Placed, Kinds
  <2> QED
    BY <2>1, <2>2, <2>3, <2>4
<1>3. CASE discoveryFind(t)
  <2>1. task[t].pc = "find" /\ sensors' = sensors
    BY <1>3 DEF discoveryFind, At, mongo
  <2>2. task[t].dev \in Devices /\ task[t].next = 0
    BY <1>0, <2>1 DEF CallOK, Placed
  <2>3. task'[t] = [task[t] EXCEPT
           !.role = IF Stored(task[t].dev) THEN "known" ELSE "new",
           !.pc = IF Stored(task[t].dev) /\ sensors[task[t].dev][1].isDeleted
                  THEN "revive" ELSE "topic find"]
    BY <1>3 DEF discoveryFind
  <2>4. /\ task'[t].dev = task[t].dev /\ task'[t].next = 0
        /\ \/ /\ Stored(task[t].dev) /\ task'[t].role = "known"
              /\ task'[t].pc \in {"revive", "topic find"}
           \/ task'[t].role = "new" /\ task'[t].pc = "topic find"
    BY <1>0, <2>2, <2>3 DEF Call
  <2> QED
    BY <2>1, <2>2, <2>4
    DEF TaskOK, CallOK, DeviceOK, Discovering, Asking, Placed, Kinds, Stored
<1>4. CASE revive(t) \/ subscribe(t)
  <2>1. /\ task'[t].pc = "topic find" /\ task'[t].dev = task[t].dev
        /\ task'[t].role = task[t].role /\ task'[t].next = task[t].next
        /\ task[t].pc \in {"revive", "subscribe"} /\ topics' = topics
    BY <1>1, <1>4 DEF revive, subscribe, Steps, At, mongo
  <2> QED
    BY <1>0, <2>1
    DEF TaskOK, CallOK, DeviceOK, Discovering, Asking, Placed, Kinds
<1>5. ASSUME nextTopic(t), task[t].pc \in {"topic find", "topic store"},
             topics' = [topics EXCEPT ![task[t].dev] = @ \cup {task[t].next}],
             topics'[task[t].dev] \subseteq 0..LastTopic
      PROVE  TaskOK(t)'
  <2>a. /\ task[t].dev \in Devices /\ task[t].next \in 0..LastTopic
        /\ task[t].role \in {"new", "known", "creator"}
    BY <1>0, <1>5 DEF CallOK, Placed, Discovering, Call
  <2> PICK d \in Devices : d = task[t].dev
    BY <2>a
  <2>1. /\ d = task[t].dev /\ task[t].next \in 0..LastTopic
        /\ task[t].role \in {"new", "known", "creator"}
    BY <2>a
  <2>0. DeviceOK(task[t], d)
    BY <1>0, <2>1 DEF TaskOK
  <2>2. topics'[d] = topics[d] \cup {task[t].next}
    BY <1>5, <2>1
  <2>3. task'[t] = afterTopic(task[t])
    BY <1>5, NextTopicTask
  <2>4. CASE task[t].role = "known"
    <3>1. /\ task'[t].pc = "respond" /\ task'[t].dev = d
          /\ task'[t].role = "known" /\ task'[t].next = task[t].next
      BY <1>0, <2>3, <2>4 DEF afterTopic, Call
    <3>2. Stored(d)'
      BY <2>0, <2>1, <2>4 DEF DeviceOK
    <3>3. task[t].next = 0
      BY <1>0, <2>4 DEF CallOK
    <3> QED
      BY <2>1, <3>1, <3>2, <3>3
      DEF TaskOK, CallOK, DeviceOK, Discovering, Asking, Placed, Kinds
  <2>5. CASE task[t].role = "new"
    <3>1. /\ task'[t].pc = "save" /\ task'[t].dev = d
          /\ task'[t].role = "new" /\ task'[t].next = task[t].next
      BY <1>0, <2>3, <2>5 DEF afterTopic, Call
    <3>2. task[t].next = 0 /\ 0 \in topics'[d]
      BY <1>0, <2>2, <2>5 DEF CallOK
    <3> QED
      BY <2>1, <3>1, <3>2
      DEF TaskOK, CallOK, DeviceOK, Discovering, Asking, Placed, Kinds
  <2>6. CASE task[t].role = "creator"
    <3>0. /\ Stored(d)
          /\ \A n \in 0..LastTopic : n < task[t].next => n \in topics[d]
      BY <2>0, <2>6 DEF DeviceOK
    <3>1. /\ Stored(d)'
          /\ \A n \in 0..LastTopic : n <= task[t].next => n \in topics'[d]
      <4>1. Stored(d)'
        BY <2>1, <3>0
      <4>2. \A n \in 0..LastTopic :
              n <= task[t].next => n < task[t].next \/ n = task[t].next
        BY <2>1
      <4> QED
        BY <2>2, <3>0, <4>1, <4>2
    <3>2. CASE task[t].next = LastTopic
      <4>1. /\ task'[t].pc = "respond" /\ task'[t].dev = d
            /\ task'[t].role = "creator" /\ task'[t].next = LastTopic
        BY <1>0, <2>3, <2>6, <3>2 DEF afterTopic, Call
      <4>2. topics'[d] = 0..LastTopic
        <5>1. \A n \in 0..LastTopic : n <= LastTopic
          OBVIOUS
        <5>2. 0..LastTopic \subseteq topics'[d]
          BY <3>1, <3>2, <5>1
        <5> QED
          BY <1>5, <5>2
      <4> QED
        BY <2>1, <3>1, <4>1, <4>2
        DEF TaskOK, CallOK, DeviceOK, Discovering, Asking, Placed, Kinds,
            AllTopics
    <3>3. CASE task[t].next # LastTopic
      <4>1. /\ task'[t].pc = "topic find" /\ task'[t].dev = d
            /\ task'[t].role = "creator" /\ task'[t].next = task[t].next + 1
        BY <1>0, <2>3, <2>6, <3>3 DEF afterTopic, Call
      <4>2. \A n \in 0..LastTopic : n < task'[t].next => n \in topics'[d]
        <5>1. \A n \in 0..LastTopic :
                n < task[t].next + 1 => n <= task[t].next
          BY <2>1
        <5> QED
          BY <3>1, <4>1, <5>1
      <4> QED
        BY <2>1, <3>1, <4>1, <4>2
        DEF TaskOK, CallOK, DeviceOK, Discovering, Asking, Placed, Kinds
    <3> QED
      BY <3>2, <3>3
  <2> QED
    BY <2>1, <2>4, <2>5, <2>6
<1>6. CASE topicFind(t)
  <2>1. topics' = topics /\ sensors' = sensors /\ task[t].pc = "topic find"
    BY <1>6 DEF topicFind, At, mongo
  <2>2. task[t].dev \in Devices
    BY <1>0, <2>1 DEF CallOK, Placed, Discovering
  <2>3. CASE task[t].next \in topics[task[t].dev]
    <3>1. topics' = [topics EXCEPT ![task[t].dev] = @ \cup {task[t].next}]
      BY <2>1, <2>3
    <3> QED
      BY <1>5, <1>6, <2>1, <2>2, <2>3, <3>1 DEF topicFind
  <2>4. CASE task[t].next \notin topics[task[t].dev]
    <3>1. /\ task'[t].pc = "topic store" /\ task'[t].dev = task[t].dev
          /\ task'[t].role = task[t].role /\ task'[t].next = task[t].next
      BY <1>1, <1>6, <2>4 DEF topicFind, Steps
    <3> QED
      BY <1>0, <2>1, <3>1
      DEF TaskOK, CallOK, DeviceOK, Discovering, Asking, Placed, Kinds
  <2> QED
    BY <2>3, <2>4
<1>7. CASE topicStore(t) /\ ~End(t)
  <2>1. /\ nextTopic(t) /\ task[t].pc = "topic store"
        /\ topics' = [topics EXCEPT ![task[t].dev] = @ \cup {task[t].next}]
    BY <1>7 DEF topicStore, At, storeTopic
  <2>2. task[t].dev \in Devices /\ task[t].next \in 0..LastTopic
    BY <1>0, <2>1 DEF CallOK, Placed, Discovering, Call
  <2> QED
    BY <1>5, <2>1, <2>2
<1>8. CASE saveSensor(t)
  <2>1. task[t].pc = "save" /\ topics' = topics /\ save(task[t].dev)
    BY <1>8 DEF saveSensor, At
  <2>a. task[t].dev \in Devices /\ task[t].next = 0
    BY <1>0, <2>1 DEF CallOK, Placed, Discovering
  <2> PICK d \in Devices : d = task[t].dev
    BY <2>a
  <2>2. d = task[t].dev /\ task[t].next = 0
    BY <2>a
  <2>3. task'[t] = [task[t] EXCEPT !.pc = "subscribe", !.role = "creator"]
    BY <1>8 DEF saveSensor
  <2>4. /\ task'[t].pc = "subscribe" /\ task'[t].role = "creator"
        /\ task'[t].dev = d /\ task'[t].next = 0
    BY <1>0, <2>2, <2>3 DEF Call
  <2>5. Stored(d)'
    <3>1. sensors'[d] = Append(sensors[d],
                          [state |-> "discovered", isDeleted |-> FALSE])
      BY <2>1, <2>2 DEF save
    <3>2. sensors[d] \in Seq(Sensor)
      OBVIOUS
    <3> QED
      BY <3>1, <3>2, SaveAppends DEF Stored
  <2> QED
    BY <2>2, <2>4, <2>5
    DEF TaskOK, CallOK, DeviceOK, Discovering, Asking, Placed, Kinds
<1>9. CASE End(t)
  BY <1>9, EndOK
<1> QED
  BY <1>2, <1>3, <1>4, <1>6, <1>7, <1>8, <1>9
  DEF respond, heartbeat, handleStrict, Fail

\* Lemma: a task that does not move knows what it knew.
LEMMA OtherOK ==
  ASSUME TypeOK, TasksOK, Next, NEW u \in Tasks, task'[u] = task[u]
  PROVE  TaskOK(u)'
<1>1. CallOK(task[u])
  BY DEF TasksOK, TaskOK
<1>2. CallOK(task[u])'
  BY <1>1 DEF CallOK
<1>3. ASSUME NEW d \in Devices, task[u].dev = d PROVE DeviceOK(task[u], d)'
  <2>1. DeviceOK(task[u], d)
    BY <1>3 DEF TasksOK, TaskOK
  <2>2. topics[d] \subseteq topics'[d] /\ (Stored(d) => Stored(d)')
    BY MongoGrows
  <2>3. topics'[d] \subseteq 0..LastTopic
    BY TypeStep DEF TypeOK
  <2>4. AllTopics(d) => AllTopics(d)'
    BY <2>2, <2>3 DEF AllTopics
  <2> QED
    BY <2>1, <2>2, <2>4 DEF DeviceOK
<1> QED
  BY <1>2, <1>3 DEF TaskOK

\* Lemma: the task that moves knows what its next step presupposes.
LEMMA MoverOK ==
  ASSUME TypeOK, TasksOK, Next, NEW t \in Tasks,
         \/ Work(t) \/ Fail(t)
         \/ \E d \in Devices :
              \/ Delete(t, d)
              \/ \E k \in Kinds : Ask(t, k, d)
              \/ \E r \in Requests, k \in Kinds \cup {"heartbeat"} :
                   Answer(t, d, r, k)
  PROVE  TaskOK(t)' /\ \A u \in Tasks \ {t} : task'[u] = task[u]
<1>1. CASE Work(t) \/ Fail(t)
  <2>1. \A d \in Devices : Stored(d) => Stored(d)'
    BY MongoGrows
  <2>2. TaskOK(t)'
    BY <1>1, <2>1, RequestOK, HandlerOK DEF Work
  <2>3. Quiet(t) \/ Loud(t)
    BY <1>1, QuietStep DEF Work, Loud
  <2> QED
    BY <2>2, <2>3, LoudType DEF Quiet
<1>2. ASSUME NEW d \in Devices,
             \/ Delete(t, d)
             \/ \E k \in Kinds : Ask(t, k, d)
             \/ \E r \in Requests, k \in Kinds \cup {"heartbeat"} :
                  Answer(t, d, r, k)
      PROVE  TaskOK(t)' /\ \A u \in Tasks \ {t} : task'[u] = task[u]
  <2>1. TaskOK(t)'
    BY <1>2, StartOK
  <2>2. Quiet(t)
    BY <1>2, QuietStep
  <2> QED
    BY <2>1, <2>2 DEF Quiet
<1> QED
  BY <1>1, <1>2

\* Lemma: every task goes on knowing what its step presupposes.
LEMMA TasksStep ==
  ASSUME TypeOK, TasksOK, Next
  PROVE  TasksOK'
<1>1. ASSUME NEW t \in Tasks,
             TaskOK(t)' /\ \A u \in Tasks \ {t} : task'[u] = task[u]
      PROVE  TasksOK'
  BY <1>1, OtherOK DEF TasksOK
<1>2. ASSUME NEW r \in Requests, Expire(r) PROVE TasksOK'
  BY <1>2, OtherOK DEF TasksOK, Expire
<1> QED
  BY <1>1, <1>2, MoverOK DEF Next

-----------------------------------------------------------------------------
(* Who writes what *)

\* Lemma: the four ways the records change.
LEMMA RecordSteps ==
  ASSUME TypeOK, TasksOK, Next
  PROVE  \/ sensors' = sensors
         \/ \E t \in Tasks : saveSensor(t)
         \/ \E t \in Tasks : assignUpdate(t)
         \/ \E e, b : b \in BOOLEAN /\ updateDeleted(e, b)
<1>1. ASSUME NEW t \in Tasks, Loud(t)
      PROVE  \/ sensors' = sensors \/ saveSensor(t) \/ assignUpdate(t)
             \/ \E e, b : b \in BOOLEAN /\ updateDeleted(e, b)
  <2>1. CASE hardwareStore(t) \/ topicStore(t)
    BY <2>1 DEF hardwareStore, topicStore
  <2>2. CASE discoveryFind(t) \/ topicFind(t) \/ subscribe(t) \/ respond(t)
               \/ Fail(t)
    BY <2>2 DEF discoveryFind, topicFind, subscribe, respond, Fail, mongo
  <2>3. CASE deleteSensor(t) \/ revive(t)
    BY <2>3 DEF deleteSensor, revive
  <2> QED
    BY <1>1, <2>1, <2>2, <2>3 DEF Loud
<1> QED
  BY <1>1, StepCases DEF Quiet, mongo

\* Lemma: a handler saves the record of a device whose base topic it knows to
\* be there, and has not saved one before.
LEMMA SaveStep ==
  ASSUME TypeOK, TasksOK, NEW t \in Tasks, saveSensor(t)
  PROVE  \E d \in Devices :
           /\ task[t].dev = d /\ save(d)
           /\ 0 \in topics[d] /\ topics' = topics
           /\ Unaware(t, d)
           /\ task'[t].dev = d /\ task'[t].role = "creator"
           /\ task'[t].pc = "subscribe"
<1>1. task[t] \in Call /\ CallOK(task[t]) /\ task[t].pc = "save"
  BY DEF TypeOK, TasksOK, TaskOK, saveSensor, At
<1> PICK d \in Devices : d = task[t].dev
  BY <1>1 DEF CallOK, Placed, Discovering
<1>2. DeviceOK(task[t], d)
  BY DEF TasksOK, TaskOK
<1>3. task'[t] = [task[t] EXCEPT !.pc = "subscribe", !.role = "creator"]
  BY DEF saveSensor, TypeOK
<1>4. /\ task'[t].dev = d /\ task'[t].role = "creator"
      /\ task'[t].pc = "subscribe"
  BY <1>1, <1>3 DEF Call
<1>5. 0 \in topics[d] /\ task[t].role = "new"
  BY <1>1, <1>2 DEF DeviceOK, CallOK
<1> QED
  BY <1>4, <1>5 DEF saveSensor, Unaware

\* Lemma: what a step makes of the records of one device.
LEMMA RecordsOf ==
  ASSUME TypeOK, TasksOK, Next, NEW d \in Devices
  PROVE  \/ sensors'[d] = sensors[d]
         \/ /\ \E t \in Tasks : saveSensor(t) /\ task[t].dev = d
            /\ sensors'[d] = Append(sensors[d],
                               [state |-> "discovered", isDeleted |-> FALSE])
         \/ /\ \E t \in Tasks : assignUpdate(t) /\ task[t].dev = d
            /\ sensors'[d] = [i \in DOMAIN sensors[d] |->
                                [sensors[d][i] EXCEPT !.state = "assigned"]]
         \/ \E b \in BOOLEAN :
              sensors'[d] = [i \in DOMAIN sensors[d] |->
                               [sensors[d][i] EXCEPT !.isDeleted = b]]
<1> USE DEF TypeOK
<1>1. ASSUME NEW t \in Tasks, saveSensor(t)
      PROVE  \/ sensors'[d] = sensors[d]
             \/ /\ task[t].dev = d
                /\ sensors'[d] = Append(sensors[d],
                               [state |-> "discovered", isDeleted |-> FALSE])
  BY <1>1 DEF saveSensor, save
<1>2. ASSUME NEW t \in Tasks, assignUpdate(t)
      PROVE  \/ sensors'[d] = sensors[d]
             \/ /\ task[t].dev = d
                /\ sensors'[d] = [i \in DOMAIN sensors[d] |->
                                [sensors[d][i] EXCEPT !.state = "assigned"]]
  BY <1>2 DEF assignUpdate, updateState
<1>3. ASSUME NEW e, NEW b \in BOOLEAN, updateDeleted(e, b)
      PROVE  \/ sensors'[d] = sensors[d]
             \/ sensors'[d] = [i \in DOMAIN sensors[d] |->
                                 [sensors[d][i] EXCEPT !.isDeleted = b]]
  BY <1>3 DEF updateDeleted
<1> QED
  BY <1>1, <1>2, <1>3, RecordSteps

\* Lemma: a device that gets its first record gets it from saveSensor.
LEMMA FirstRecord ==
  ASSUME TypeOK, TasksOK, Next, NEW d \in Devices, ~Stored(d), Stored(d)'
  PROVE  \E t \in Tasks : saveSensor(t) /\ task[t].dev = d
<1>1. sensors[d] = <<>> /\ sensors'[d] # <<>> /\ sensors[d] \in Seq(Sensor)
  BY DEF Stored, TypeOK
<1>2. [i \in DOMAIN sensors[d] |->
         [sensors[d][i] EXCEPT !.state = "assigned"]] = <<>>
  BY <1>1, UpdateKeeps
<1>3. ASSUME NEW b \in BOOLEAN
      PROVE  [i \in DOMAIN sensors[d] |->
                [sensors[d][i] EXCEPT !.isDeleted = b]] = <<>>
  BY <1>1, UpdateKeeps
<1> QED
  BY <1>1, <1>2, <1>3, RecordsOf

\* Lemma: a recorded device has its base topic after every step.
LEMMA BaseStep ==
  ASSUME TypeOK, TasksOK, BaseTopic, Next
  PROVE  BaseTopic'
<1> SUFFICES ASSUME NEW d \in Devices, Stored(d)' PROVE 0 \in topics'[d]
  BY DEF BaseTopic
<1>1. topics[d] \subseteq topics'[d]
  BY MongoGrows
<1>2. CASE Stored(d)
  BY <1>1, <1>2 DEF BaseTopic
<1>3. CASE ~Stored(d)
  BY <1>1, <1>3, FirstRecord, SaveStep
<1> QED
  BY <1>2, <1>3

\* Lemma: a device is only ever made assigned with its topic there.
LEMMA ReachStep ==
  ASSUME TypeOK, TasksOK, AssignedReachable, Next
  PROVE  AssignedReachable'
<1> SUFFICES ASSUME NEW d \in Devices,
                    NEW i \in DOMAIN sensors'[d],
                    sensors'[d][i].state = "assigned"
             PROVE  AssignTopic \in topics'[d]
  BY DEF AssignedReachable
<1>1. topics[d] \subseteq topics'[d]
  BY MongoGrows
<1>2. sensors[d] \in Seq(Sensor)
  BY DEF TypeOK
<1> SUFFICES ASSUME AssignTopic \notin topics[d] PROVE FALSE
  BY <1>1
<1>3. \A j \in DOMAIN sensors[d] : sensors[d][j].state # "assigned"
  BY DEF AssignedReachable
<1>4. CASE sensors'[d] = sensors[d]
  BY <1>3, <1>4
<1>5. CASE sensors'[d] = Append(sensors[d],
                           [state |-> "discovered", isDeleted |-> FALSE])
  <2>1. i \in 1..(Len(sensors[d]) + 1)
    BY <1>2, <1>5, SaveAppends
  <2>2. Len(sensors[d]) \in Nat /\ DOMAIN sensors[d] = 1..Len(sensors[d])
    BY <1>2
  <2>3. i \in DOMAIN sensors[d] \/ i = Len(sensors[d]) + 1
    BY <2>1, <2>2
  <2>4. CASE i \in DOMAIN sensors[d]
    BY <1>2, <1>3, <1>5, <2>4, SaveAppends
  <2>5. CASE i = Len(sensors[d]) + 1
    BY <1>2, <1>5, <2>5, SaveAppends
  <2> QED
    BY <2>3, <2>4, <2>5
<1>6. ASSUME NEW t \in Tasks, assignUpdate(t), task[t].dev = d PROVE FALSE
  BY <1>6 DEF TasksOK, TaskOK, DeviceOK, assignUpdate, At
<1>7. ASSUME NEW b \in BOOLEAN,
             sensors'[d] = [j \in DOMAIN sensors[d] |->
                              [sensors[d][j] EXCEPT !.isDeleted = b]]
      PROVE  FALSE
  <2>1. i \in DOMAIN sensors[d]
    BY <1>7
  <2>2. sensors[d][i] \in Sensor
    BY <1>2, <2>1
  <2>3. sensors'[d][i].state = sensors[d][i].state
    BY <1>7, <2>1, <2>2 DEF Sensor
  <2> QED
    BY <1>3, <2>1, <2>3
<1> QED
  BY <1>4, <1>5, <1>6, <1>7, RecordsOf

-----------------------------------------------------------------------------
(* One record for each device *)

\* Lemma: a task learns that d is unknown only by looking it up.
LEMMA UnawareStep ==
  ASSUME TypeOK, TasksOK, Next, NEW d \in Devices, NEW t \in Tasks,
         Unaware(t, d)', ~Unaware(t, d)
  PROVE  /\ discoveryFind(t) /\ task[t].dev = d /\ ~Stored(d)
         /\ sensors' = sensors
<1>0. task[t] \in Call /\ CallOK(task[t])
  BY DEF TypeOK, TasksOK, TaskOK
<1>1. task'[t] # task[t] /\ task'[t].role = "new" /\ task'[t].dev = d
  BY DEF Unaware
<1>2. Loud(t)
  <2>1. ASSUME NEW u \in Tasks, Quiet(u) PROVE FALSE
    BY <1>1, <2>1 DEF Quiet
  <2>2. ASSUME NEW u \in Tasks, Loud(u) PROVE u = t
    BY <1>1, <2>2, LoudType
  <2> QED
    BY <1>1, <2>1, <2>2, StepCases
<1>3. ASSUME NEW pc \in Steps, Goto(t, pc) PROVE FALSE
  <2>1. task'[t] = [task[t] EXCEPT !.pc = pc]
    BY <1>3, GotoTask DEF TypeOK
  <2>2. task'[t].role = task[t].role /\ task'[t].dev = task[t].dev
    BY <1>0, <2>1 DEF Call
  <2> QED
    BY <1>1, <2>2 DEF Unaware
<1>4. ASSUME nextTopic(t) PROVE FALSE
  <2>1. task'[t] = afterTopic(task[t])
    BY <1>4, NextTopicTask DEF TypeOK
  <2>2. task'[t].role = task[t].role /\ task'[t].dev = task[t].dev
    BY <1>0, <2>1 DEF Call, afterTopic
  <2> QED
    BY <1>1, <2>2 DEF Unaware
<1>5. ~End(t)
  BY <1>1, EndTask DEF TypeOK
<1>6. ~saveSensor(t)
  BY <1>1, SaveStep
<1>7. discoveryFind(t)
  <2>1. ~(assignUpdate(t) \/ deleteSensor(t) \/ respond(t) \/ Fail(t))
    BY <1>5 DEF assignUpdate, deleteSensor, respond, Fail
  <2>2. ~(revive(t) \/ subscribe(t) \/ hardwareStore(t))
    BY <1>3, <1>5 DEF revive, subscribe, hardwareStore, Steps
  <2>3. ~(topicFind(t) \/ topicStore(t))
    BY <1>3, <1>4, <1>5 DEF topicFind, topicStore, Steps
  <2> QED
    BY <1>2, <1>6, <2>1, <2>2, <2>3 DEF Loud
<1>8. task'[t] = [task[t] EXCEPT
           !.role = IF Stored(task[t].dev) THEN "known" ELSE "new",
           !.pc = IF Stored(task[t].dev) /\ sensors[task[t].dev][1].isDeleted
                  THEN "revive" ELSE "topic find"]
  BY <1>7 DEF discoveryFind, TypeOK
<1>9. task'[t].dev = task[t].dev
      /\ task'[t].role = IF Stored(task[t].dev) THEN "known" ELSE "new"
  BY <1>0, <1>8 DEF Call
<1>10. task[t].dev = d /\ ~Stored(task[t].dev)
  BY <1>1, <1>9
<1>11. sensors' = sensors
  BY <1>7 DEF discoveryFind, mongo
<1> QED
  BY <1>7, <1>10, <1>11

\* Lemma: an overlap is remembered, and only an unaware task saves.
LEMMA RecordingStep ==
  ASSUME TypeOK, TasksOK, Recording, Next
  PROVE  Recording'
<1> SUFFICES ASSUME NEW d \in Devices \ overlapped'
             PROVE  /\ Len(sensors'[d]) <= 1
                    /\ \A t, u \in Tasks :
                         Unaware(t, d)' /\ Unaware(u, d)' => t = u
                    /\ \A t \in Tasks : Unaware(t, d)' => ~Stored(d)'
  BY DEF Recording
<1>1. d \notin overlapped
  <2>1. ASSUME NEW t \in Tasks, Loud(t) PROVE overlapped \subseteq overlapped'
    <3>1. CASE discoveryFind(t)
      BY <3>1 DEF discoveryFind
    <3>2. CASE hardwareStore(t) \/ Fail(t)
      BY <3>2 DEF hardwareStore, Fail
    <3>3. CASE assignUpdate(t) \/ deleteSensor(t) \/ revive(t) \/ topicFind(t)
               \/ topicStore(t) \/ saveSensor(t) \/ subscribe(t) \/ respond(t)
      BY <3>3 DEF assignUpdate, deleteSensor, revive, topicFind, topicStore,
                  saveSensor, subscribe, respond, hist
    <3> QED
      BY <2>1, <3>1, <3>2, <3>3 DEF Loud
  <2> QED
    BY <2>1, StepCases DEF Quiet, hist
<1>2. /\ Len(sensors[d]) <= 1
      /\ \A t, u \in Tasks : Unaware(t, d) /\ Unaware(u, d) => t = u
      /\ \A t \in Tasks : Unaware(t, d) => ~Stored(d)
  BY <1>1 DEF Recording
<1>3. sensors[d] \in Seq(Sensor)
  BY DEF TypeOK
<1>4. Len(sensors'[d]) <= 1
  <2>1. ASSUME NEW t \in Tasks, saveSensor(t), task[t].dev = d,
               sensors'[d] = Append(sensors[d],
                               [state |-> "discovered", isDeleted |-> FALSE])
        PROVE  Len(sensors'[d]) <= 1
    <3>1. sensors[d] = <<>>
      BY <1>2, <2>1, SaveStep DEF Stored, Unaware
    <3> QED
      BY <1>3, <2>1, <3>1, SaveAppends
  <2>2. ASSUME sensors'[d] = [i \in DOMAIN sensors[d] |->
                                [sensors[d][i] EXCEPT !.state = "assigned"]]
        PROVE  Len(sensors'[d]) <= 1
    BY <1>2, <1>3, <2>2, UpdateKeeps
  <2>3. ASSUME NEW b \in BOOLEAN,
               sensors'[d] = [i \in DOMAIN sensors[d] |->
                                [sensors[d][i] EXCEPT !.isDeleted = b]]
        PROVE  Len(sensors'[d]) <= 1
    BY <1>2, <1>3, <2>3, UpdateKeeps
  <2> QED
    BY <1>2, <2>1, <2>2, <2>3, RecordsOf
<1>5. ASSUME NEW t \in Tasks, NEW u \in Tasks, Unaware(t, d)', ~Unaware(t, d),
             Unaware(u, d)'
      PROVE  t = u
  <2> SUFFICES ASSUME t # u PROVE FALSE
    OBVIOUS
  <2>1. discoveryFind(t) /\ task[t].dev = d /\ ~Stored(d)
    BY <1>5, UnawareStep
  <2>2. task'[u] = task[u]
    BY <2>1, LoudType DEF Loud
  <2>3. Unaware(u, d)
    BY <1>5, <2>2 DEF Unaware
  <2> QED
    BY <2>1, <2>3 DEF discoveryFind
<1>6. \A t, u \in Tasks : Unaware(t, d)' /\ Unaware(u, d)' => t = u
  BY <1>2, <1>5
<1>7. ASSUME NEW t \in Tasks, Unaware(t, d)', Stored(d)' PROVE FALSE
  <2>1. CASE Stored(d)
    <3>1. ~Unaware(t, d)
      BY <1>2, <2>1
    <3> QED
      BY <1>7, <2>1, <3>1, UnawareStep
  <2>2. CASE ~Stored(d)
    <3> PICK u \in Tasks : saveSensor(u) /\ task[u].dev = d
      BY <1>7, <2>2, FirstRecord
    <3>1. Unaware(u, d) /\ task'[u].role = "creator"
      BY SaveStep DEF Unaware
    <3>2. Unaware(t, d)
      <4> SUFFICES ASSUME ~Unaware(t, d) PROVE FALSE
        OBVIOUS
      <4>1. sensors' = sensors
        BY <1>7, UnawareStep
      <4> QED
        BY <1>7, <2>2, <4>1 DEF Stored
    <3>3. t = u
      BY <1>2, <3>1, <3>2
    <3> QED
      BY <1>7, <3>1, <3>3 DEF Unaware
  <2> QED
    BY <2>1, <2>2
<1> QED
  BY <1>4, <1>6, <1>7

-----------------------------------------------------------------------------
(* All topics of a device *)

\* Lemma: a topic is stored by getHardwareStatus or by a discovery handler
\* that has come to it.
LEMMA TopicOf ==
  ASSUME TypeOK, TasksOK, Next, NEW d \in Devices, NEW n,
         n \in topics'[d], n \notin topics[d]
  PROVE  \/ d \in polled' /\ n = HardwareTopic
         \/ \E u \in Tasks : /\ topicStore(u) /\ nextTopic(u)
                            /\ task[u].dev = d /\ task[u].next = n
<1> USE DEF TypeOK
<1>1. ASSUME NEW u \in Tasks, Loud(u)
      PROVE  \/ d \in polled' /\ n = HardwareTopic
             \/ /\ topicStore(u) /\ nextTopic(u)
                /\ task[u].dev = d /\ task[u].next = n
  <2>1. CASE hardwareStore(u)
    BY <2>1 DEF hardwareStore, storeTopic
  <2>2. CASE topicStore(u)
    <3>1. storeTopic(task[u].dev, task[u].next) /\ nextTopic(u)
      BY <2>2 DEF topicStore
    <3>2. topics'[d] = topics[d] \/
          (task[u].dev = d /\ topics'[d] = topics[d] \cup {task[u].next})
      BY <3>1 DEF storeTopic
    <3> QED
      BY <2>2, <3>1, <3>2
  <2>3. CASE assignUpdate(u) \/ discoveryFind(u) \/ deleteSensor(u) \/ revive(u)
             \/ topicFind(u) \/ saveSensor(u) \/ subscribe(u) \/ respond(u)
             \/ Fail(u)
    BY <2>3 DEF assignUpdate, discoveryFind, deleteSensor, revive, topicFind,
                saveSensor, subscribe, respond, Fail, mongo
  <2> QED
    BY <1>1, <2>1, <2>2, <2>3 DEF Loud
<1> QED
  BY <1>1, StepCases DEF Quiet, mongo

\* Lemma: a creator that is done with a topic leads, or was at the last one.
LEMMA CreatorMoves ==
  ASSUME TypeOK, TasksOK, NEW d \in Devices, NEW t \in Tasks,
         nextTopic(t), task[t].role = "creator", task[t].dev = d, TaskOK(t)'
  PROVE  Leads(t, d)' \/ AllTopics(d)'
<1>1. task[t] \in Call
  BY DEF TypeOK
<1>2. task'[t] = afterTopic(task[t])
  BY NextTopicTask DEF TypeOK
<1>3. /\ task'[t].role = "creator" /\ task'[t].dev = d
      /\ task'[t].pc \in {"topic find", "respond"}
  BY <1>1, <1>2 DEF afterTopic, Call
<1>4. CASE task'[t].pc = "topic find"
  BY <1>3, <1>4 DEF Leads, Creating
<1>5. CASE task'[t].pc = "respond"
  <2>1. DeviceOK(task[t], d)'
    BY <1>3 DEF TaskOK
  <2> QED
    BY <1>3, <1>5, <2>1 DEF DeviceOK
<1> QED
  BY <1>3, <1>4, <1>5

\* Lemma: the leader moves, and leads on unless it fails by itself or has
\* stored the last topic.
LEMMA LeaderMoves ==
  ASSUME TypeOK, TasksOK, Next, NEW d \in Devices, NEW t \in Tasks, Leads(t, d),
         task'[t] # task[t], d \notin torn'
  PROVE  Leads(t, d)' \/ AllTopics(d)'
<1>0. /\ task[t] \in Call /\ task[t].role = "creator" /\ task[t].dev = d
      /\ task[t].pc \in {"subscribe", "topic find", "topic store"}
  BY DEF TypeOK, Leads, Creating
<1>1. Loud(t)
  <2>1. ASSUME NEW u \in Tasks, Quiet(u) PROVE FALSE
    BY <1>0, <2>1 DEF Quiet
  <2>2. ASSUME NEW u \in Tasks, Loud(u) PROVE u = t
    BY <2>2, LoudType
  <2> QED
    BY <2>1, <2>2, StepCases
<1>2. TaskOK(t)'
  BY TasksStep DEF TasksOK
<1>3. subscribe(t) \/ topicFind(t) \/ topicStore(t)
  <2>1. ~Fail(t)
    BY <1>0 DEF Fail
  <2> QED
    BY <1>0, <1>1, <2>1
    DEF Loud, assignUpdate, hardwareStore, deleteSensor, discoveryFind, revive,
        saveSensor, respond, At
<1>4. ASSUME NEW pc \in Steps, Goto(t, pc)
      PROVE  /\ task'[t].pc = pc /\ task'[t].dev = d
             /\ task'[t].role = "creator" /\ task'[t].next = task[t].next
  <2>1. task'[t] = [task[t] EXCEPT !.pc = pc]
    BY <1>4, GotoTask DEF TypeOK
  <2> QED
    BY <1>0, <2>1 DEF Call
<1>5. CASE subscribe(t)
  <2>1. Goto(t, "topic find") /\ "topic find" \in Steps
    BY <1>5 DEF subscribe, Steps
  <2>2. task'[t].pc = "topic find" /\ task'[t].dev = d
        /\ task'[t].role = "creator"
    BY <1>4, <2>1
  <2> QED
    BY <2>2 DEF Leads, Creating
<1>6. CASE topicFind(t) /\ ~nextTopic(t)
  <2>1. Goto(t, "topic store") /\ task[t].next \notin topics[d]
        /\ topics' = topics
    BY <1>0, <1>6 DEF topicFind, mongo
  <2>2. task'[t].pc = "topic store" /\ task'[t].dev = d
        /\ task'[t].role = "creator" /\ task'[t].next \notin topics'[d]
    BY <1>4, <2>1 DEF Steps
  <2> QED
    BY <2>2 DEF Leads, Creating
<1>7. CASE topicStore(t)
  <2>1. nextTopic(t)
    BY <1>0, <1>7 DEF topicStore, Leads, At
  <2> QED
    BY <1>0, <1>2, <2>1, CreatorMoves
<1> QED
  BY <1>0, <1>2, <1>3, <1>5, <1>6, <1>7, CreatorMoves

\* Lemma: what the histories have recorded stays recorded.
LEMMA TornGrows ==
  ASSUME TypeOK, TasksOK, Next
  PROVE  torn \subseteq torn' /\ polled \subseteq polled'
<1>1. ASSUME NEW t \in Tasks, Loud(t)
      PROVE  torn \subseteq torn' /\ polled \subseteq polled'
  <2>1. CASE hardwareStore(t) \/ Fail(t) \/ discoveryFind(t)
    BY <2>1 DEF hardwareStore, Fail, discoveryFind
  <2>2. CASE assignUpdate(t) \/ deleteSensor(t) \/ revive(t) \/ topicFind(t)
             \/ topicStore(t) \/ saveSensor(t) \/ subscribe(t) \/ respond(t)
    BY <2>2 DEF assignUpdate, deleteSensor, revive, topicFind, topicStore,
                saveSensor, subscribe, respond, hist
  <2> QED
    BY <1>1, <2>1, <2>2 DEF Loud
<1> QED
  BY <1>1, StepCases DEF Quiet, hist

\* Lemma: a handler that stores the topic its leader is about to store takes
\* the lead.
LEMMA LeaderStep ==
  ASSUME TypeOK, TasksOK, BaseTopic, Leader, Next
  PROVE  Leader'
<1> SUFFICES ASSUME NEW d \in Devices \ (torn' \cup polled'), Stored(d)'
             PROVE  AllTopics(d)' \/ \E t \in Tasks : Leads(t, d)'
  BY DEF Leader
<1>1. d \notin torn /\ d \notin polled
  BY TornGrows
<1>2. topics[d] \subseteq topics'[d] /\ topics'[d] \subseteq 0..LastTopic
  BY MongoGrows, TypeStep DEF TypeOK
<1>3. CASE ~Stored(d)
  <2> PICK t \in Tasks : saveSensor(t) /\ task[t].dev = d
    BY <1>3, FirstRecord
  <2>1. task'[t].dev = d /\ task'[t].role = "creator"
        /\ task'[t].pc = "subscribe"
    BY SaveStep
  <2> QED
    BY <2>1 DEF Leads, Creating
<1>4. CASE AllTopics(d)
  BY <1>2, <1>4 DEF AllTopics
<1>5. ASSUME Stored(d), NEW t \in Tasks, Leads(t, d)
      PROVE  AllTopics(d)' \/ \E u \in Tasks : Leads(u, d)'
  <2>1. CASE task'[t] # task[t]
    BY <1>5, <2>1, LeaderMoves
  <2>2. CASE task'[t] = task[t] /\ Leads(t, d)'
    BY <2>2
  <2>3. CASE task'[t] = task[t] /\ ~Leads(t, d)'
    <3>1. /\ task[t].next \in topics'[d] /\ task[t].next \notin topics[d]
      BY <1>5, <2>3 DEF Leads, Creating
    <3> PICK u \in Tasks : /\ topicStore(u) /\ nextTopic(u)
                           /\ task[u].dev = d /\ task[u].next = task[t].next
      BY <3>1, TopicOf
    <3>2. CallOK(task[u]) /\ task[u].pc = "topic store"
      BY DEF TasksOK, TaskOK, topicStore, At
    <3>3. task[t].next # 0
      BY <1>5, <3>1 DEF BaseTopic
    <3>4. task[u].role = "creator"
      BY <3>2, <3>3 DEF CallOK, Discovering, TypeOK, Call
    <3>5. TaskOK(u)'
      BY TasksStep DEF TasksOK
    <3> QED
      BY <3>4, <3>5, CreatorMoves
  <2> QED
    BY <2>1, <2>2, <2>3
<1> QED
  BY <1>1, <1>3, <1>4, <1>5 DEF Leader

-----------------------------------------------------------------------------
(* The invariant *)

\* Lemma: the process starts in the invariant.
LEMMA InitInv ==
  ASSUME Init
  PROVE  IInv
<1> PICK known \in SUBSET Devices :
      /\ sensors = [d \in Devices |->
            IF d \in known
            THEN <<[state |-> "assigned", isDeleted |-> FALSE]>> ELSE <<>>]
      /\ topics = [d \in Devices |->
                     IF d \in known THEN 0..LastTopic ELSE {}]
  BY DEF Init
<1> DEFINE r == [state |-> "assigned", isDeleted |-> FALSE]
<1>1. r \in Sensor
  BY DEF Sensor
<1>2. \A d \in Devices :
        \/ sensors[d] = <<r>> /\ topics[d] = 0..LastTopic
        \/ sensors[d] = <<>> /\ topics[d] = {}
  OBVIOUS
<1>3. sensors = [d \in Devices |-> IF d \in known THEN <<r>> ELSE <<>>]
  OBVIOUS
<1> HIDE DEF r
<1>4. /\ <<r>> \in Seq(Sensor) /\ <<>> \in Seq(Sensor)
      /\ Len(<<r>>) = 1 /\ Len(<<>>) = 0
  BY <1>1
<1>5. /\ \A t \in Tasks : task[t] = Idle
      /\ task = [t \in Tasks |-> Idle]
  BY DEF Init
<1>6. TypeOK
  <2>1. sensors \in [Devices -> Seq(Sensor)]
    BY <1>3, <1>4
  <2>2. topics \in [Devices -> SUBSET (0..LastTopic)]
    OBVIOUS
  <2> QED
    BY <1>5, <2>1, <2>2, IdleCall DEF Init, TypeOK
<1>7. TasksOK
  <2>1. Idle.pc = "idle" /\ Idle.role = "none"
    BY DEF Idle
  <2> QED
    BY <1>5, <2>1
    DEF TasksOK, TaskOK, CallOK, DeviceOK, Asking, Placed, Discovering, Kinds
<1>8. BaseTopic
  BY <1>2, ProvisioningAssumption DEF BaseTopic, Stored
<1>9. Recording
  <2>1. \A d \in Devices : Len(sensors[d]) <= 1
    BY <1>2, <1>4
  <2>2. \A t \in Tasks : task[t].role = "none"
    BY <1>5 DEF Idle
  <2> QED
    BY <2>1, <2>2 DEF Recording, Unaware
<1>10. Leader
  BY <1>2 DEF Leader, Stored, AllTopics
<1>11. AssignedReachable
  <2>1. AssignTopic \in 0..LastTopic
    BY ProvisioningAssumption
  <2>2. DOMAIN <<>> = {}
    OBVIOUS
  <2> QED
    BY <1>2, <2>1, <2>2 DEF AssignedReachable
<1> QED
  BY <1>6, <1>7, <1>8, <1>9, <1>10, <1>11 DEF IInv

\* Lemma: every step keeps the invariant.
LEMMA StepInv ==
  ASSUME IInv, [Next]_vars
  PROVE  IInv'
<1>1. CASE Next
  BY <1>1, TypeStep, TasksStep, BaseStep, RecordingStep, LeaderStep, ReachStep
  DEF IInv
<1>2. CASE UNCHANGED vars
  <2>1. UNCHANGED <<asked, pending, published, listening, sensors, topics,
                    task, overlapped, torn, polled>>
    BY <1>2 DEF vars, redis, mongo, hist
  <2>2. TypeOK'
    BY <2>1 DEF IInv, TypeOK
  <2>3. TasksOK'
    <3> SUFFICES ASSUME NEW t \in Tasks PROVE TaskOK(t)'
      BY DEF TasksOK
    <3>1. TaskOK(t) /\ UNCHANGED <<sensors, topics, task>>
      BY <2>1 DEF IInv, TasksOK
    <3>2. CallOK(task[t])'
      BY <3>1 DEF TaskOK, CallOK
    <3>3. ASSUME NEW d \in Devices, task'[t].dev = d PROVE DeviceOK(task[t], d)'
      BY <3>1, <3>3 DEF TaskOK, DeviceOK, Stored, AllTopics
    <3> QED
      BY <3>2, <3>3 DEF TaskOK
  <2>4. BaseTopic' /\ AssignedReachable'
    BY <2>1 DEF IInv, BaseTopic, Stored, AssignedReachable
  <2>5. Recording'
    BY <2>1 DEF IInv, Recording, Unaware, Stored
  <2>6. Leader'
    BY <2>1 DEF IInv, Leader, Leads, Creating, Stored, AllTopics
  <2> QED
    BY <2>2, <2>3, <2>4, <2>5, <2>6 DEF IInv
<1> QED
  BY <1>1, <1>2

\* Theorem: IInv holds in every state the process reaches.
THEOREM Invariance == Spec => []IInv
BY InitInv, StepInv, PTL DEF Spec

\* Theorem: the variables keep their types.
THEOREM TypeCorrect == Spec => []TypeOK
<1>1. IInv => TypeOK
  BY DEF IInv
<1> QED
  BY <1>1, Invariance, PTL

\* Theorem: a device has one record unless two handlers of its answers looked
\* it up before either had saved it.
THEOREM RecordTheorem == Spec => []OneRecord
<1>1. IInv => OneRecord
  BY DEF IInv, Recording, OneRecord
<1> QED
  BY <1>1, Invariance, PTL

\* Theorem: handlers of one device that collide on its topics never all fail.
THEOREM TopicsTheorem == Spec => []TopicsComplete
<1>1. IInv => TopicsComplete
  BY DEF IInv, Leader, Leads, TopicsComplete
<1> QED
  BY <1>1, Invariance, PTL

\* Theorem: an assigned device has the topic its functions are assigned over.
THEOREM ReachableTheorem == Spec => []AssignedReachable
<1>1. IInv => AssignedReachable
  BY DEF IInv
<1> QED
  BY <1>1, Invariance, PTL

-----------------------------------------------------------------------------
(* A device that was found unknown is recorded *)

\* A base topic without a record has a handler that is about to save it.
Saving ==
  \A d \in Devices \ torn :
    ~Stored(d) /\ 0 \in topics[d]
      => \E t \in Tasks : Unaware(t, d) /\ At(t, "save")

\* Lemma: a handler that has yet to record d moves to its save, saves, or
\* fails because another one's save is next.
LEMMA UnawareMoves ==
  ASSUME TypeOK, TasksOK, Next, NEW d \in Devices \ torn', ~Stored(d)',
         NEW t \in Tasks, Unaware(t, d), task'[t] # task[t]
  PROVE  /\ ~At(t, "save")
         /\ \/ Unaware(t, d)'
            \/ At(t, "topic store") /\ 0 \in topics[d]
<1>1. /\ task[t] \in Call /\ CallOK(task[t])
      /\ task[t].dev = d /\ task[t].role = "new" /\ task[t].next = 0
      /\ task[t].pc \in {"topic find", "topic store", "save"}
  BY DEF TypeOK, TasksOK, TaskOK, Unaware, CallOK
<1>2. Loud(t)
  <2>1. ASSUME NEW u \in Tasks, Quiet(u) PROVE FALSE
    BY <1>1, <2>1 DEF Quiet
  <2>2. ASSUME NEW u \in Tasks, Loud(u) PROVE u = t
    BY <2>2, LoudType
  <2> QED
    BY <2>1, <2>2, StepCases
<1>3. ~Fail(t)
  BY <1>1 DEF Fail
<1>4. ~saveSensor(t)
  <2> SUFFICES ASSUME saveSensor(t) PROVE FALSE
    OBVIOUS
  <2>1. save(d)
    BY <1>1 DEF saveSensor
  <2>2. sensors'[d] = Append(sensors[d],
                             [state |-> "discovered", isDeleted |-> FALSE])
    BY <2>1 DEF save, TypeOK
  <2>3. sensors[d] \in Seq(Sensor)
    BY DEF TypeOK
  <2> QED
    BY <2>2, <2>3, SaveAppends DEF Stored
<1>5. topicFind(t) \/ topicStore(t)
  BY <1>1, <1>2, <1>3, <1>4
  DEF Loud, assignUpdate, hardwareStore, deleteSensor, discoveryFind, revive,
      subscribe, respond, At
<1>6. ~At(t, "save")
  BY <1>5 DEF topicFind, topicStore, At
<1>7. ASSUME nextTopic(t) PROVE Unaware(t, d)'
  <2>1. task'[t] = [task[t] EXCEPT !.pc = "save"]
    BY <1>1, <1>7, NextTopicTask DEF afterTopic, TypeOK
  <2> QED
    BY <1>1, <2>1 DEF Unaware, Call
<1>8. ASSUME Goto(t, "topic store") PROVE Unaware(t, d)'
  <2>1. task'[t] = [task[t] EXCEPT !.pc = "topic store"]
    BY <1>8, GotoTask DEF TypeOK, Steps
  <2> QED
    BY <1>1, <2>1 DEF Unaware, Call
<1> QED
  BY <1>1, <1>5, <1>6, <1>7, <1>8 DEF topicFind, topicStore, At

\* Lemma: only the save itself, or a failure, ends a handler's way to it.
LEMMA SavingStep ==
  ASSUME TypeOK, TasksOK, Saving, Next
  PROVE  Saving'
<1> SUFFICES ASSUME NEW d \in Devices \ torn', ~Stored(d)', 0 \in topics'[d]
             PROVE  \E t \in Tasks : Unaware(t, d)' /\ At(t, "save")'
  BY DEF Saving
<1>1. d \notin torn /\ ~Stored(d)
  BY MongoGrows, TornGrows
<1>2. CASE 0 \in topics[d]
  <2> PICK t \in Tasks : Unaware(t, d) /\ At(t, "save")
    BY <1>1, <1>2 DEF Saving
  <2>1. task'[t] = task[t]
    BY UnawareMoves
  <2> QED
    BY <2>1 DEF Unaware, At
<1>3. CASE 0 \notin topics[d]
  <2>0. HardwareTopic # 0
    BY ProvisioningAssumption
  <2> PICK u \in Tasks : /\ topicStore(u) /\ nextTopic(u)
                         /\ task[u].dev = d /\ task[u].next = 0
    BY <1>3, <2>0, TopicOf
  <2>1. /\ task[u] \in Call /\ CallOK(task[u]) /\ DeviceOK(task[u], d)
        /\ task[u].pc = "topic store"
    BY DEF TypeOK, TasksOK, TaskOK, topicStore, At
  <2>2. task[u].role = "new"
    BY <1>1, <2>1 DEF CallOK, DeviceOK, Discovering, Call
  <2>3. task'[u] = [task[u] EXCEPT !.pc = "save"]
    BY <2>2, NextTopicTask DEF afterTopic, TypeOK
  <2> QED
    BY <2>1, <2>2, <2>3 DEF Unaware, At, Call
<1> QED
  BY <1>2, <1>3

\* Theorem: a device that was found unknown is recorded, or still about to be,
\* however many handlers of its answers collide on its base topic.
THEOREM FoundTheorem == Spec => FoundIsKept
<1> DEFINE A == \A d \in Devices \ torn' :
                  (\E t \in Tasks : Unaware(t, d))
                    => Stored(d)' \/ \E t \in Tasks : Unaware(t, d)'
<1>1. Init => Saving
  <2> SUFFICES ASSUME Init, NEW d \in Devices, ~Stored(d), 0 \in topics[d]
               PROVE  FALSE
    BY DEF Saving
  <2> PICK known \in SUBSET Devices :
        /\ sensors = [e \in Devices |->
              IF e \in known
              THEN <<[state |-> "assigned", isDeleted |-> FALSE]>> ELSE <<>>]
        /\ topics = [e \in Devices |->
                       IF e \in known THEN 0..LastTopic ELSE {}]
    BY DEF Init
  <2>1. d \in known
    OBVIOUS
  <2>2. sensors[d] = <<[state |-> "assigned", isDeleted |-> FALSE]>>
    BY <2>1
  <2> QED
    BY <2>2 DEF Stored
<1>2. IInv /\ Saving /\ [Next]_vars => Saving'
  <2>1. CASE UNCHANGED vars
    BY <2>1 DEF vars, mongo, hist, Saving, Stored, Unaware, At
  <2> QED
    BY <2>1, SavingStep DEF IInv
<1>3. IInv /\ Saving /\ [Next]_vars => [A]_vars
  <2> SUFFICES ASSUME IInv, Saving, Next, NEW d \in Devices \ torn',
                      NEW t \in Tasks, Unaware(t, d), ~Stored(d)'
               PROVE  \E u \in Tasks : Unaware(u, d)'
    OBVIOUS
  <2>0. TypeOK /\ TasksOK /\ d \notin torn /\ ~Stored(d)
    BY MongoGrows, TornGrows DEF IInv
  <2>1. CASE task'[t] = task[t]
    BY <2>1 DEF Unaware
  <2>2. CASE task'[t] # task[t] /\ ~Unaware(t, d)'
    <3>1. At(t, "topic store") /\ 0 \in topics[d]
      BY <2>0, <2>2, UnawareMoves
    <3> PICK u \in Tasks : Unaware(u, d) /\ At(u, "save")
      BY <2>0, <3>1 DEF Saving
    <3>2. task'[u] = task[u]
      BY <2>0, UnawareMoves
    <3> QED
      BY <3>2 DEF Unaware
  <2> QED
    BY <2>1, <2>2
<1> QED
  BY <1>1, <1>2, <1>3, Invariance, PTL DEF Spec, FoundIsKept

-----------------------------------------------------------------------------
(* Provisioning implements DeviceLife *)

\* Lemma: the devices that are known at the start have a function.
LEMMA LifeInit == Init => Life!Init
<1> SUFFICES ASSUME Init PROVE Life!Init
  OBVIOUS
<1>1. ASSUME NEW d \in Devices
      PROVE  life[d] \in {"unknown", "discovered", "assigned"}
  <2>1. \/ sensors[d] = <<[state |-> "assigned", isDeleted |-> FALSE]>>
        \/ sensors[d] = <<>>
    BY DEF Init
  <2> QED
    BY <2>1 DEF life, Stored
<1> QED
  BY <1>1 DEF Life!Init, life

\* Lemma: the first record of a device changes from unknown to discovered, and
\* from discovered to assigned.
LEMMA LifeOne ==
  ASSUME TypeOK, TasksOK, Next, NEW d \in Devices
  PROVE  \/ life'[d] = life[d]
         \/ life[d] = "unknown" /\ life'[d] = "discovered"
         \/ life[d] = "discovered" /\ life'[d] = "assigned"
<1>1. sensors[d] \in Seq(Sensor)
  BY DEF TypeOK
<1>2. /\ life[d] = IF sensors[d] # <<>> THEN sensors[d][1].state ELSE "unknown"
      /\ life'[d] = IF sensors'[d] # <<>> THEN sensors'[d][1].state
                    ELSE "unknown"
  BY DEF life, Stored
<1>3. ASSUME sensors[d] # <<>>
      PROVE  1 \in DOMAIN sensors[d] /\ sensors[d][1] \in Sensor
  BY <1>1, <1>3
<1>4. CASE sensors'[d] = sensors[d]
  BY <1>2, <1>4
<1>5. CASE sensors'[d] = Append(sensors[d],
                           [state |-> "discovered", isDeleted |-> FALSE])
  <2>1. CASE sensors[d] = <<>>
    <3>1. sensors'[d] # <<>> /\ sensors'[d][1].state = "discovered"
      BY <1>5, <2>1
    <3> QED
      BY <1>2, <2>1, <3>1
  <2>2. CASE sensors[d] # <<>>
    <3>1. sensors'[d] # <<>> /\ sensors'[d][1] = sensors[d][1]
      BY <1>1, <1>3, <1>5, <2>2, SaveAppends
    <3> QED
      BY <1>2, <2>2, <3>1
  <2> QED
    BY <2>1, <2>2
<1>6. ASSUME NEW x \in Seq(Sensor), sensors'[d] = x, x = <<>> <=> sensors[d] = <<>>,
             sensors[d] # <<>> =>
               x[1].state \in {sensors[d][1].state, "assigned"}
      PROVE  \/ life'[d] = life[d]
             \/ life[d] = "discovered" /\ life'[d] = "assigned"
  BY <1>2, <1>3, <1>6 DEF Sensor
<1>7. CASE sensors'[d] = [i \in DOMAIN sensors[d] |->
                            [sensors[d][i] EXCEPT !.state = "assigned"]]
  <2> DEFINE x == [i \in DOMAIN sensors[d] |->
                     [sensors[d][i] EXCEPT !.state = "assigned"]]
  <2>1. x \in Seq(Sensor) /\ (x = <<>> <=> sensors[d] = <<>>)
    BY <1>1, UpdateKeeps
  <2>2. sensors[d] # <<>> => x[1].state = "assigned"
    BY <1>3 DEF Sensor
  <2> HIDE DEF x
  <2>3. sensors'[d] = x
    BY <1>7 DEF x
  <2> QED
    BY <1>6, <2>1, <2>2, <2>3
<1>8. ASSUME NEW b \in BOOLEAN,
             sensors'[d] = [i \in DOMAIN sensors[d] |->
                              [sensors[d][i] EXCEPT !.isDeleted = b]]
      PROVE  \/ life'[d] = life[d]
             \/ life[d] = "discovered" /\ life'[d] = "assigned"
  <2> DEFINE x == [i \in DOMAIN sensors[d] |->
                     [sensors[d][i] EXCEPT !.isDeleted = b]]
  <2>1. x \in Seq(Sensor) /\ (x = <<>> <=> sensors[d] = <<>>)
    BY <1>1, UpdateKeeps
  <2>2. sensors[d] # <<>> => x[1].state = sensors[d][1].state
    BY <1>3 DEF Sensor
  <2> HIDE DEF x
  <2>3. sensors'[d] = x
    BY <1>8 DEF x
  <2> QED
    BY <1>6, <2>1, <2>2, <2>3
<1> QED
  BY <1>4, <1>5, <1>7, <1>8, RecordsOf

\* Lemma: no step writes the records of two devices.
LEMMA LifeOthers ==
  ASSUME TypeOK, TasksOK, Next, NEW d \in Devices, life'[d] # life[d]
  PROVE  \A e \in Devices \ {d} : life'[e] = life[e]
<1>1. sensors'[d] # sensors[d]
  BY DEF life, Stored
<1>2. ASSUME NEW e \in Devices \ {d} PROVE sensors'[e] = sensors[e]
  <2>1. ASSUME NEW f, updateState(f) PROVE sensors'[e] = sensors[e]
    BY <1>1, <2>1 DEF updateState, TypeOK
  <2>2. ASSUME NEW f, NEW b, updateDeleted(f, b) PROVE sensors'[e] = sensors[e]
    BY <1>1, <2>2 DEF updateDeleted, TypeOK
  <2>3. ASSUME NEW f, save(f) PROVE sensors'[e] = sensors[e]
    BY <1>1, <2>3 DEF save, TypeOK
  <2> QED
    BY <1>1, <2>1, <2>2, <2>3, RecordSteps DEF assignUpdate, saveSensor
<1> QED
  BY <1>2 DEF life, Stored

\* Theorem: what the handlers of late, repeated and overlapping answers write
\* takes back neither a discovery nor an assignment.
THEOREM LifeTheorem == Spec => ImplementsDeviceLife
<1>1. ASSUME IInv, [Next]_vars PROVE [Life!Next]_life
  <2>1. CASE UNCHANGED vars
    BY <2>1 DEF vars, mongo, life, Stored
  <2>2. CASE Next
    <3>0. TypeOK /\ TasksOK /\ Next
      BY <1>1, <2>2 DEF IInv
    <3>1. CASE \A d \in Devices : life'[d] = life[d]
      <4>1. life' = life
        BY <3>1 DEF life
      <4> QED
        BY <4>1
    <3>2. ASSUME NEW d \in Devices, life'[d] # life[d]
          PROVE  Life!Next
      <4>1. life' = [life EXCEPT ![d] = life'[d]]
        <5>1. \A e \in Devices \ {d} : life'[e] = life[e]
          BY <3>0, <3>2, LifeOthers
        <5>2. life' = [e \in Devices |-> life'[e]]
              /\ life = [e \in Devices |-> life[e]]
          BY DEF life
        <5> QED
          BY <5>1, <5>2
      <4>2. \/ life[d] = "unknown" /\ life'[d] = "discovered"
            \/ life[d] = "discovered" /\ life'[d] = "assigned"
        BY <3>0, <3>2, LifeOne
      <4> QED
        BY <4>1, <4>2 DEF Life!Next, Life!Discover, Life!Assign
    <3> QED
      BY <3>1, <3>2
  <2> QED
    BY <1>1, <2>1, <2>2
<1> QED
  BY <1>1, LifeInit, Invariance, PTL DEF Spec, Life!Spec, ImplementsDeviceLife
=============================================================================
