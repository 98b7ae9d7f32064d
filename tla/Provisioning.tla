---------------------------- MODULE Provisioning ----------------------------
(***************************************************************************)
(* DeviceService, ListenerService and ResponserService: devices are asked  *)
(* over MQTT, answer when and as often as they like, and are recorded and  *)
(* given topics in MongoDB by the handlers of their answers.               *)
(*                                                                         *)
(* A task is one running call of the Node process: an operator's request   *)
(* or the handler of one incoming message. Each step of a task is what it  *)
(* does between two awaits, so tasks interleave at every await.            *)
(***************************************************************************)
EXTENDS Naturals, Sequences, FiniteSets, Router

CONSTANTS Devices, NoDevice,
          Tasks,          \* bound: calls that run at one time
          Requests,       \* bound: the ids uuid() makes, numbered as they are
                          \* made: nothing depends on which one it is
          NoRequest,
          LastTopic,      \* a device's topics are 0..LastTopic: its base topic
                          \* and those of TopicUseCase, in the enum's order
          AssignTopic,    \* TopicUseCase.ASSIGN_DEVICE_FUNCTION
          HardwareTopic,  \* TopicUseCase.HARDWARE_STATUS
          TelemetryTopic  \* TopicUseCase.TELEMETRY

ASSUME ProvisioningAssumption ==
  /\ NoDevice \notin Devices
  /\ Requests \subseteq Nat /\ NoRequest \notin Requests
  /\ LastTopic \in Nat
  /\ {AssignTopic, HardwareTopic, TelemetryTopic} \subseteq 1..LastTopic

VARIABLES
  asked,       \* ids that uuid() has made for an operator's request
  pending,     \* ids under `pending:` in Redis
  published,   \* ids of the messages the broker has passed to devices
  listening,   \* the broadcast discovery topic is subscribed
  sensors,     \* device id -> its records in MongoDB, oldest first
  topics,      \* device id -> its topics in MongoDB
  task,        \* task -> the call it runs
  overlapped,  \* history: devices two handlers found unknown at one time
  torn,        \* history: devices the handler of whose discovery failed
  polled       \* history: devices that got a topic from getHardwareStatus

redis == <<asked, pending, published, listening>>
mongo == <<sensors, topics>>
hist  == <<overlapped, torn, polled>>
vars  == <<redis, mongo, task, hist>>

Kinds == {"discovery", "unicast", "assign", "hardware", "telemetry"}

Sensor == [state : {"discovered", "assigned"}, isDeleted : BOOLEAN]

Steps == Kinds \cup
  {"idle", "listen", "assignValidate", "assignUpdate", "hardwareTopic",
   "hardwareStore", "hardwarePublish", "delete", "discovery validate",
   "heartbeat validate", "strict validate", "find", "revive", "topic find",
   "topic store", "save", "subscribe", "respond", "heartbeat", "strict"}

\* role: what a discovery handler knows of its device. It found no record
\* ("new") or one ("known"), or it has saved the record itself ("creator").
\* next: the topic the task looks up or stores.
Call == [pc : Steps, dev : Devices \cup {NoDevice},
         req : Requests \cup {NoRequest}, code : {"none", "number", "text"},
         role : {"none", "new", "known", "creator"}, next : 0..LastTopic]

Idle == [pc |-> "idle", dev |-> NoDevice, req |-> NoRequest,
         code |-> "none", role |-> "none", next |-> 0]

\* The process starts with the devices it has recorded and assigned before.
Init ==
  /\ asked = {} /\ pending = {} /\ published = {} /\ listening = FALSE
  /\ \E known \in SUBSET Devices :
       /\ sensors = [d \in Devices |->
            IF d \in known
            THEN <<[state |-> "assigned", isDeleted |-> FALSE]>> ELSE <<>>]
       /\ topics = [d \in Devices |->
                      IF d \in known THEN 0..LastTopic ELSE {}]
  /\ task = [t \in Tasks |-> Idle]
  /\ overlapped = {} /\ torn = {} /\ polled = {}

-----------------------------------------------------------------------------
(* Records and topics *)

\* findOne({deviceId}), and findOne({deviceId, isDeleted: false}).
Stored(d) == sensors[d] # <<>>
Listed(d) == \E i \in DOMAIN sensors[d] : ~sensors[d][i].isDeleted

\* Mutant: the new record replaces the old ones.
saveOver(d) ==
  sensors' = [sensors EXCEPT ![d] =
                <<[state |-> "discovered", isDeleted |-> FALSE]>>]

\* sensorRepo.save of a new record: deviceId is no key.
save(d) ==
  sensors' = [sensors EXCEPT ![d] =
                Append(@, [state |-> "discovered", isDeleted |-> FALSE])]

\* sensorRepo.update({deviceId}, ...) writes every record of the device.
updateState(d) ==
  sensors' = [sensors EXCEPT ![d] =
                [i \in DOMAIN @ |-> [@[i] EXCEPT !.state = "assigned"]]]
updateDeleted(d, b) ==
  sensors' = [sensors EXCEPT ![d] =
                [i \in DOMAIN @ |-> [@[i] EXCEPT !.isDeleted = b]]]

AllTopics(d) == topics[d] = 0..LastTopic

\* storeTopic saves under a unique name.
storeTopic(d, n) == topics' = [topics EXCEPT ![d] = @ \cup {n}]

-----------------------------------------------------------------------------
(* Tasks *)

At(t, pc) == task[t].pc = pc
Goto(t, pc) == task' = [task EXCEPT ![t].pc = pc]
End(t) == task' = [task EXCEPT ![t] = Idle]

\* An operator's request for a device, over HTTP or a WebSocket.
Ask(t, k, d) ==
  /\ At(t, "idle")
  /\ \E r \in Requests :
       /\ r \notin asked
       /\ \A q \in Requests : q < r => q \in asked
       /\ asked' = asked \cup {r}
       /\ task' = [task EXCEPT ![t] = [Idle EXCEPT !.pc = k, !.req = r,
                     !.dev = IF k = "discovery" THEN NoDevice ELSE d]]
  /\ UNCHANGED <<pending, published, listening, mongo, hist>>

setCache(r) == pending' = pending \cup {r}
publish(r)  == published' = published \cup {r}

\* The request goes out before its topic is subscribed.
discoverDevicesBroadcast(t) ==
  /\ At(t, "discovery")
  /\ setCache(task[t].req) /\ publish(task[t].req)
  /\ Goto(t, "listen")
  /\ UNCHANGED <<asked, listening, mongo, hist>>

subscribeBroadcast(t) ==
  /\ At(t, "listen")
  /\ listening' = TRUE
  /\ End(t)
  /\ UNCHANGED <<asked, pending, published, mongo, hist>>

\* Published to `${broadcastTopic}/discovery`, where broadcastTopic is the
\* entity and not its name: to a topic no device knows.
discoverDeviceUnicast(t) ==
  /\ At(t, "unicast")
  /\ setCache(task[t].req)
  /\ End(t)
  /\ UNCHANGED <<asked, published, listening, mongo, hist>>

\* Mutant: the topic is not looked up.
assignTopicUnchecked(t) ==
  /\ At(t, "assign")
  /\ Goto(t, "assignValidate")
  /\ UNCHANGED <<redis, mongo, hist>>

\* getDeviceTopicByUseCase, then validateSensorTypes and setCache.
assignTopic(t) ==
  /\ At(t, "assign")
  /\ IF AssignTopic \in topics[task[t].dev]
     THEN Goto(t, "assignValidate") ELSE End(t)
  /\ UNCHANGED <<redis, mongo, hist>>

assignValidate(t) ==
  /\ At(t, "assignValidate")
  /\ IF Listed(task[t].dev)
     THEN setCache(task[t].req) /\ Goto(t, "assignUpdate")
     ELSE UNCHANGED pending /\ End(t)
  /\ UNCHANGED <<asked, published, listening, mongo, hist>>

\* The state is written before the device has been asked; nobody awaits the
\* publish, which may fail.
assignUpdate(t) ==
  /\ At(t, "assignUpdate")
  /\ updateState(task[t].dev)
  /\ publish(task[t].req) \/ UNCHANGED published
  /\ End(t)
  /\ UNCHANGED <<asked, pending, listening, topics, hist>>

hardwareFind(t) ==
  /\ At(t, "hardware")
  /\ IF Listed(task[t].dev) THEN Goto(t, "hardwareTopic") ELSE End(t)
  /\ UNCHANGED <<redis, mongo, hist>>

\* createTopic: findOne, then storeTopic if there was none.
hardwareTopic(t) ==
  /\ At(t, "hardwareTopic")
  /\ Goto(t, IF HardwareTopic \in topics[task[t].dev]
             THEN "hardwarePublish" ELSE "hardwareStore")
  /\ UNCHANGED <<redis, mongo, hist>>

hardwareStore(t) ==
  LET d == task[t].dev
  IN  /\ At(t, "hardwareStore")
      /\ IF HardwareTopic \in topics[d]
         THEN End(t) /\ UNCHANGED <<topics, polled>>
         ELSE /\ storeTopic(d, HardwareTopic)
              /\ polled' = polled \cup {d}
              /\ Goto(t, "hardwarePublish")
      /\ UNCHANGED <<redis, sensors, overlapped, torn>>

hardwarePublish(t) ==
  /\ At(t, "hardwarePublish")
  /\ setCache(task[t].req) /\ publish(task[t].req)
  /\ End(t)
  /\ UNCHANGED <<asked, listening, mongo, hist>>

\* setCache is given the class, not the request: its id is not pending.
getDeviceTelemetry(t) ==
  LET d == task[t].dev
  IN  /\ At(t, "telemetry")
      /\ \/ UNCHANGED published
         \/ /\ \E i \in DOMAIN sensors[d] :
                 sensors[d][i] = [state |-> "assigned", isDeleted |-> FALSE]
            /\ TelemetryTopic \in topics[d]
            /\ publish(task[t].req)
      /\ End(t)
      /\ UNCHANGED <<asked, pending, listening, mongo, hist>>
-----------------------------------------------------------------------------
(* deleteSensor *)

Delete(t, d) ==
  /\ At(t, "idle")
  /\ Listed(d)
  /\ task' = [task EXCEPT ![t] = [Idle EXCEPT !.pc = "delete", !.dev = d]]
  /\ UNCHANGED <<redis, mongo, hist>>

deleteSensor(t) ==
  /\ At(t, "delete")
  /\ updateDeleted(task[t].dev, TRUE)
  /\ End(t)
  /\ UNCHANGED <<redis, topics, hist>>

-----------------------------------------------------------------------------
(* Answers. A device answers on a topic of its own or of its kind. Its     *)
(* responseCode has the type the DTO documents ("number") or the one it    *)
(* checks ("text"); which, is left open until the validation reads it.     *)

topicOf(k, d) ==
  CASE k = "discovery" -> <<"base", "Mqtt_Broker", "broadcast", "discovery">>
    [] k = "assign"    -> <<"base", d, "assign">>
    [] k = "hardware"  -> <<"base", d, "hardware-status">>
    [] k = "telemetry" -> <<"base", d, "telemetry">>
    [] k = "heartbeat" -> <<"base", d, "heartbeat">>
    [] k = "unicast"   -> <<"[object Object]", "discovery">>

\* The step a message's event leads to: an unknown one is dropped.
entry(event) ==
  CASE event = "discovery" -> "discovery validate"
    [] event = "heartbeat" -> "heartbeat validate"
    [] event = "unknown"   -> "idle"
    [] OTHER               -> "strict validate"

\* A device answers under a published id, any number of times: no handler
\* compares the kind of the answer, or its device, with what was asked.
Answer(t, d, r, k) ==
  /\ At(t, "idle")
  /\ r \in published
  /\ k = "discovery" => listening
  /\ task' = [task EXCEPT ![t] =
       IF entry(route(topicOf(k, d))) = "idle" THEN Idle
       ELSE [Idle EXCEPT !.pc = entry(route(topicOf(k, d))), !.dev = d,
                         !.req = r]]
  /\ UNCHANGED <<redis, mongo, hist>>

\* ResponseCodeProperty is an IsString; then the id must be pending.
transformAndValidate(t, code) == code = "text" /\ task[t].req \in pending

\* The strict handlers read the code again.
validate(t) ==
  /\ \E code \in {"number", "text"} :
       \/ /\ At(t, "discovery validate")
          /\ IF transformAndValidate(t, code) THEN Goto(t, "find") ELSE End(t)
       \/ /\ At(t, "heartbeat validate")
          /\ IF transformAndValidate(t, code)
             THEN Goto(t, "heartbeat") ELSE End(t)
       \/ /\ At(t, "strict validate")
          /\ IF transformAndValidate(t, code)
             THEN task' = [task EXCEPT ![t].pc = "strict", ![t].code = code]
             ELSE End(t)
  /\ UNCHANGED <<redis, mongo, hist>>

\* A task looked d up, found nothing, and has not saved a record yet.
Unaware(t, d) == task[t].dev = d /\ task[t].role = "new"

\* Mutant: every discovery is taken for the first.
discoveryFindNew(t) ==
  /\ At(t, "find")
  /\ task' = [task EXCEPT ![t].role = "new", ![t].pc = "topic find"]
  /\ UNCHANGED <<redis, mongo, hist>>

discoveryFind(t) ==
  LET d == task[t].dev
  IN  /\ At(t, "find")
      /\ task' = [task EXCEPT
           ![t].role = IF Stored(d) THEN "known" ELSE "new",
           ![t].pc = IF Stored(d) /\ sensors[d][1].isDeleted
                     THEN "revive" ELSE "topic find"]
      /\ overlapped' = IF ~Stored(d) /\ \E u \in Tasks : Unaware(u, d)
                       THEN overlapped \cup {d} ELSE overlapped
      /\ UNCHANGED <<redis, mongo, torn, polled>>

revive(t) ==
  /\ At(t, "revive")
  /\ updateDeleted(task[t].dev, FALSE)
  /\ Goto(t, "topic find")
  /\ UNCHANGED <<redis, topics, hist>>

\* Mutants: the creator goes one topic too far, or stops one short.
afterTopicFar(c) ==
  CASE c.role = "known" -> [c EXCEPT !.pc = "respond"]
    [] c.role = "new"   -> [c EXCEPT !.pc = "save"]
    [] OTHER -> IF c.next = LastTopic + 1
                THEN [c EXCEPT !.pc = "respond"]
                ELSE [c EXCEPT !.pc = "topic find", !.next = c.next + 1]
afterTopicShort(c) ==
  CASE c.role = "known" -> [c EXCEPT !.pc = "respond"]
    [] c.role = "new"   -> [c EXCEPT !.pc = "save"]
    [] OTHER -> IF c.next = LastTopic - 1
                THEN [c EXCEPT !.pc = "respond"]
                ELSE [c EXCEPT !.pc = "topic find", !.next = c.next + 1]

\* Mutant: the first discovery answers without saving the record.
afterTopicUnsaved(c) ==
  CASE c.role \in {"known", "new"} -> [c EXCEPT !.pc = "respond"]
    [] OTHER -> IF c.next = LastTopic
                THEN [c EXCEPT !.pc = "respond"]
                ELSE [c EXCEPT !.pc = "topic find", !.next = c.next + 1]

\* Where a handler goes when topic next is there: createDeviceBaseTopic is
\* called alone first, and by the creator again before the other topics.
afterTopic(c) ==
  CASE c.role = "known" -> [c EXCEPT !.pc = "respond"]
    [] c.role = "new"   -> [c EXCEPT !.pc = "save"]
    [] OTHER -> IF c.next = LastTopic
                THEN [c EXCEPT !.pc = "respond"]
                ELSE [c EXCEPT !.pc = "topic find", !.next = c.next + 1]

nextTopic(t) == task' = [task EXCEPT ![t] = afterTopic(task[t])]

\* Mutant: a topic is stored whether it is there or not.
topicFindBlind(t) ==
  /\ At(t, "topic find")
  /\ Goto(t, "topic store")
  /\ UNCHANGED <<redis, mongo, hist>>

topicFind(t) ==
  /\ At(t, "topic find")
  /\ IF task[t].next \in topics[task[t].dev]
     THEN nextTopic(t) ELSE Goto(t, "topic store")
  /\ UNCHANGED <<redis, mongo, hist>>

\* A topic stored in the meantime is a duplicate name, and the handler fails.
topicStore(t) ==
  /\ At(t, "topic store")
  /\ IF task[t].next \in topics[task[t].dev]
     THEN End(t) /\ UNCHANGED topics
     ELSE storeTopic(task[t].dev, task[t].next) /\ nextTopic(t)
  /\ UNCHANGED <<redis, sensors, hist>>

saveSensor(t) ==
  /\ At(t, "save")
  /\ save(task[t].dev)
  /\ task' = [task EXCEPT ![t].pc = "subscribe", ![t].role = "creator"]
  /\ UNCHANGED <<redis, topics, hist>>

subscribe(t) ==
  /\ At(t, "subscribe")
  /\ Goto(t, "topic find")
  /\ UNCHANGED <<redis, mongo, hist>>

\* The device says whether its answer is to a broadcast.
respond(t) ==
  /\ At(t, "respond")
  /\ pending' \in {pending, pending \ {task[t].req}}
  /\ End(t)
  /\ UNCHANGED <<asked, published, listening, mongo, hist>>

\* handleDeviceHeartbeat compares loosely; any pending id will do.
heartbeat(t) ==
  /\ At(t, "heartbeat")
  /\ IF Stored(task[t].dev) THEN pending' = pending \ {task[t].req}
                            ELSE UNCHANGED pending
  /\ End(t)
  /\ UNCHANGED <<asked, published, listening, mongo, hist>>

\* The other handlers compare responseCode with a number, by !==. Of what
\* they would write, only the assigned state is modelled, which one of them
\* writes.
handleStrict(t) ==
  /\ At(t, "strict")
  /\ IF task[t].code = "number"
     THEN /\ pending' = pending \ {task[t].req}
          /\ \/ Listed(task[t].dev) /\ updateState(task[t].dev)
             \/ UNCHANGED sensors
     ELSE UNCHANGED <<pending, sensors>>
  /\ End(t)
  /\ UNCHANGED <<asked, published, listening, topics, hist>>
-----------------------------------------------------------------------------
(* Redis drops a pending id after REDIS_TTL. A call to MongoDB, Redis or    *)
(* the broker fails, or the process ends: the task is gone, what it wrote   *)
(* stays.                                                                   *)

Expire(r) ==
  /\ r \in pending
  /\ pending' = pending \ {r}
  /\ UNCHANGED <<asked, published, listening, mongo, task, hist>>

Fail(t) ==
  /\ ~At(t, "idle")
  /\ End(t)
  /\ torn' = IF task[t].role \in {"new", "creator"}
             THEN torn \cup {task[t].dev} ELSE torn
  /\ UNCHANGED <<redis, mongo, overlapped, polled>>

Work(t) ==
  \/ discoverDevicesBroadcast(t) \/ subscribeBroadcast(t)
  \/ discoverDeviceUnicast(t)
  \/ assignTopic(t) \/ assignValidate(t) \/ assignUpdate(t)
  \/ hardwareFind(t) \/ hardwareTopic(t) \/ hardwareStore(t)
  \/ hardwarePublish(t) \/ getDeviceTelemetry(t) \/ deleteSensor(t)
  \/ validate(t) \/ discoveryFind(t) \/ revive(t)
  \/ topicFind(t) \/ topicStore(t) \/ saveSensor(t) \/ subscribe(t)
  \/ respond(t) \/ heartbeat(t) \/ handleStrict(t)

Next ==
  \/ \E t \in Tasks :
       \/ Work(t)
       \/ Fail(t)
       \/ \E d \in Devices :
            \/ Delete(t, d)
            \/ \E k \in Kinds : Ask(t, k, d)
            \/ \E r \in Requests, k \in Kinds \cup {"heartbeat"} :
                 Answer(t, d, r, k)
  \/ \E r \in Requests : Expire(r)

Spec == Init /\ [][Next]_vars

\* Node runs every call on, and every await ends in an answer or an error.
FairSpec == Spec /\ \A t \in Tasks : WF_vars(Work(t))

-----------------------------------------------------------------------------
(* Properties *)

\* The variables keep their types.
TypeOK ==
  /\ asked \subseteq Requests /\ pending \subseteq Requests
  /\ published \subseteq Requests
  /\ listening \in BOOLEAN
  /\ sensors \in [Devices -> Seq(Sensor)]
  /\ topics \in [Devices -> SUBSET (0..LastTopic)]
  /\ task \in [Tasks -> Call]
  /\ overlapped \subseteq Devices /\ torn \subseteq Devices
  /\ polled \subseteq Devices

\* A device has one record, though deviceId is no key of the collection,
\* unless two handlers of its answers overlapped while it was unknown.
OneRecord == \A d \in Devices \ overlapped : Len(sensors[d]) <= 1

\* The handler that saved d's record and is still creating its topics.
Creating(t, d) ==
  /\ task[t].dev = d /\ task[t].role = "creator"
  /\ task[t].pc \in {"subscribe", "topic find", "topic store"}

\* A recorded device has all its topics or a handler that is creating them:
\* handlers that meet on a topic fail, but never all of them. Exempt are
\* devices whose handler failed by itself, or that getHardwareStatus gave a
\* topic.
TopicsComplete ==
  \A d \in Devices \ (torn \cup polled) :
    Stored(d) => AllTopics(d) \/ \E t \in Tasks : Creating(t, d)

\* An assigned device has the topic its functions are assigned over, whatever
\* became of the handlers that discovered it.
AssignedReachable ==
  \A d \in Devices :
    (\E i \in DOMAIN sensors[d] : sensors[d][i].state = "assigned")
      => AssignTopic \in topics[d]

\* The life of a device as its first record, the one findOne returns, tells it.
life == [d \in Devices |->
           IF Stored(d) THEN sensors[d][1].state ELSE "unknown"]

Life == INSTANCE DeviceLife WITH provisionState <- life

\* Late, repeated and overlapping answers never take back a discovery or an
\* assignment.
ImplementsDeviceLife == Life!Spec

\* A device that was found unknown is never dropped: handlers that overlap on
\* its base topic fail on the duplicate name, but one of them goes on to save
\* the record, unless a call of a handler failed by itself.
FoundIsKept ==
  [][\A d \in Devices \ torn' :
       (\E t \in Tasks : Unaware(t, d))
         => Stored(d)' \/ \E t \in Tasks : Unaware(t, d)']_vars

\* A device a handler found unknown ends up with all its topics, unless the
\* handler failed by itself or getHardwareStatus gave the device a topic.
DiscoveryCompletes ==
  \A d \in Devices :
    (\E t \in Tasks : Unaware(t, d))
      ~> (AllTopics(d) /\ Stored(d)) \/ d \in torn \/ d \in polled

\* Topics are generated for every device that is recorded, when no call
\* fails: TopicService promises all of those required.
TopicsGenerated ==
  \A d \in Devices \ torn :
    Stored(d) => AllTopics(d) \/ \E t \in Tasks : Creating(t, d)
=============================================================================
