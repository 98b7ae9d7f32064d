---------------------------- MODULE DeviceData -----------------------------
(***************************************************************************)
(* What operators and devices can make of a device's record: the bodies of *)
(* DeviceController's requests and of the devices' answers, what validates *)
(* them, and what DeviceService and ResponserService write of them.        *)
(*                                                                         *)
(* One device is modelled, and every handler is one step: how handlers     *)
(* interleave is the subject of Provisioning.                              *)
(***************************************************************************)
EXTENDS Schemas

VARIABLES
  sensor,     \* the device's record in MongoDB
  supplied,   \* history: columns of it the device's discovery filled
  pending,    \* id under `pending:` in Redis -> the user it is kept with
  wire,       \* requests the broker has passed to the device
  crashed     \* history: handlers that a validated body ended in a TypeError

vars == <<sensor, supplied, pending, wire, crashed>>

\* The columns that requests and answers write.
Columns == DOMAIN SensorDto \cup {"configuration"}
NoSensor == [c \in Columns |-> Undefined]
Recorded == sensor # NoSensor
Listed   == Recorded /\ sensor.isDeleted = False

NoUser == "none"

ASSUME DeviceDataAssumption == NoUser \notin Users

Init ==
  /\ sensor = NoSensor /\ supplied = {}
  /\ pending = [r \in Requests |-> NoUser]
  /\ wire = {}
  /\ crashed = {}

\* uuid(): an id nobody has seen.
Fresh(r) == \A m \in wire : m.requestId # Text(r)

\* by: the user whose session asked for it, where the service takes it.
publish(dto, body, by) ==
  wire' = wire \cup {[dto |-> dto, userId |-> body.userId,
                     requestId |-> body.requestId, by |-> by]}

\* A body goes out as the client sent it, with the ids it names: a user, and
\* an id that may be another request's. The service is given no user.
publishOwn(body) ==
  \E u \in Users, r \in Requests :
    publish("own", Spread(body, [userId |-> Text(u), requestId |-> Text(r)]),
            NoUser)

\* setCache keeps the id with the user.
setCache(body) ==
  pending' = [r \in Requests |->
                IF body.requestId = Text(r)
                THEN CHOOSE u \in Users : body.userId = Text(u)
                ELSE pending[r]]

-----------------------------------------------------------------------------
(* Requests of a user u *)

Stamp(u, r) == [userId |-> Text(u), requestId |-> Text(r)]

\* Of bodies that are all alike to a handler, one: it reads only xs of them.
Read(bodies, xs) == {[x \in xs |-> Get(b, x)] : b \in bodies}

discoverDevicesBroadcast(u) ==
  /\ \E r \in Requests :
       /\ Fresh(r)
       /\ setCache(Stamp(u, r)) /\ publish("discovery", Stamp(u, r), u)
  /\ UNCHANGED <<sensor, supplied, crashed>>

getHardwareStatus(u) ==
  /\ Listed
  /\ \E r \in Requests :
       /\ Fresh(r)
       /\ setCache(Stamp(u, r)) /\ publish("hardware", Stamp(u, r), u)
  /\ UNCHANGED <<sensor, supplied, crashed>>

\* `capabilities.includes` is there for text too, and for nothing else.
Includes(capabilities, functionality) ==
  /\ capabilities.is \in {"array", "string"} \/ functionality.of = {}
  /\ functionality.of \subseteq capabilities.of

\* Mutant: one capability that the device has is enough.
validateSensorTypesSome(functionality) ==
  IF functionality.of \cap sensor.capabilities.of # {} THEN "valid"
  ELSE "invalid"

\* A filter of functionality by what capabilities includes.
validateSensorTypes(functionality) ==
  CASE \/ functionality.is # "array"
       \/ /\ functionality.of # {}
          /\ sensor.capabilities.is \notin {"array", "string"} -> "crash"
    [] OTHER -> IF Includes(sensor.capabilities, functionality)
                THEN "valid" ELSE "invalid"

Assigned(functionality) ==
  [sensor EXCEPT !.assignedFunctionality = functionality,
                 !.provisionState = Text("assigned")]

AssignBodies ==
  LET right == Spread(Right(PublishSensorFunctionalityDto),
                 [deviceId |-> Text("d1"),
                  requestCode |-> Text("REQUEST_ASSIGN_DEVICE_FUNCTION")])
      bodies == UNION {Bodies([right EXCEPT !.functionality = List(S)], {})
                         : S \in SUBSET DeviceCapabilities}
  IN  Read({b \in bodies : Accepts(b, PublishSensorFunctionalityDto)},
           {"deviceId", "requestCode", "functionality"})

\* Mutant: what the client sent comes last.
AssignPayloadOwn(u, r, body) == Spread(Stamp(u, r), body)

\* {...provisionData, userId, requestCode, requestId}
AssignPayload(u, r, body) == Spread(body, Stamp(u, r))

\* The body names a user of its own.
AssignDeviceFunction(u) ==
  \E body \in AssignBodies, by \in Users :
    /\ body.requestCode = Text("REQUEST_ASSIGN_DEVICE_FUNCTION")
    /\ body.deviceId = Text("d1") /\ Listed
    /\ LET outcome == validateSensorTypes(body.functionality)
       IN  \/ /\ outcome = "crash"
              /\ crashed' = crashed \cup {"assign"}
              /\ UNCHANGED <<sensor, supplied, pending, wire>>
           \/ /\ outcome = "valid"
              /\ \E r \in Requests :
                   LET payload == AssignPayload(u, r,
                                    Spread(body, [userId |-> Text(by)]))
                   IN  /\ Fresh(r)
                       /\ setCache(payload)
                       /\ publish("assign", payload, u)
              /\ sensor' = Assigned(body.functionality)
              /\ supplied' = supplied \ {"assignedFunctionality"}
              /\ UNCHANGED crashed

TelemetryBodies ==
  LET right == Spread(Right(PublishTelemetryDto),
                 [deviceId |-> Text("d1"),
                  requestCode |-> Text("REQUEST_TELEMETRY_DATA")])
  IN  Read({b \in Bodies(right, {}) : Accepts(b, PublishTelemetryDto)},
           {"deviceId", "requestCode"})

\* The id it goes out under is not made pending: setCache is given the
\* class, not the body.
getDeviceTelemetry ==
  /\ \E body \in TelemetryBodies :
       /\ body.requestCode = Text("REQUEST_TELEMETRY_DATA")
       /\ body.deviceId = Text("d1")
       /\ publishOwn(body)
  /\ Listed /\ sensor.provisionState = Text("assigned")
  /\ UNCHANGED <<sensor, supplied, pending, crashed>>

ConfigBodies == Bodies(Spread(Right(PublishSetDeviceConfigDto),
                              [deviceId |-> Text("d1")]), {"configuration"})

\* The whole body is published, and stored as the configuration.
setDeviceConfiguration(body) ==
  /\ Accepts(body, PublishSetDeviceConfigDto)
  /\ body.deviceId = Text("d1") /\ Listed
  /\ publishOwn(body)
  /\ sensor' = [sensor EXCEPT !.configuration = Object]
  /\ UNCHANGED <<supplied, pending, crashed>>

deleteSensor ==
  /\ Listed
  /\ sensor' = [sensor EXCEPT !.isDeleted = True]
  /\ UNCHANGED <<supplied, pending, wire, crashed>>

-----------------------------------------------------------------------------
(* Answers *)

\* The DTO of each kind of answer that the handlers after it compare with a
\* numeric code by !==.
StrictDto ==
  [assign |-> SensorFunctionalityResponseDto, ack |-> AckResponseDto,
   upgrade |-> FwUpgradeResponseDto, reboot |-> DeviceRebootResponseDto,
   telemetry |-> TelemetryResponseDto, hardware |-> HardwareStatusResponseDto]

Valid(Dto)  == {b \in Bodies(Right(Dto), {}) : Satisfies(b, Dto)}
Heartbeats  == Read(Valid(HeartbeatDto), {"connectionState"})
Discoveries == Read(Valid(DiscoveryResponseDto), {"sensorData", "isBroadcast"})
Strict      == [k \in DOMAIN StrictDto |->
                  Read(Valid(StrictDto[k]),
                       {"responseCode", "status", "functionality"})]

\* transformAndValidate, after the DTO: the id is pending for the user.
Known(u, r) == pending[r] # NoUser /\ pending[r] = u

\* Mutant: the ids that are left are copied.
deleteCacheCopy(r) == pending' = [q \in Requests \ {r} |-> pending[q]]

deleteCache(r) == pending' = [pending EXCEPT ![r] = NoUser]

\* What a device may say of itself: the columns it fills are not checked.
SensorData ==
  LET right == [capabilities |-> List(DeviceCapabilities),
                assignedFunctionality |-> Undefined,
                provisionState |-> Undefined,
                connectionState |-> Text("online"), isDeleted |-> Undefined,
                configuration |-> Undefined]
  IN  {right}
      \cup {[right EXCEPT !.capabilities = List({c})]
              : c \in DeviceCapabilities}
      \cup {[right EXCEPT ![c] = v] :
              c \in Columns, v \in {Undefined, Text("other"),
                                    List({"other"})}}

\* create({...sensorData, provisionState, isActuator, isDeleted})
created(data) ==
  Spread(data, [provisionState |-> Text("discovered"), isDeleted |-> False])

\* A discovery without sensorData is valid, and cannot be taken apart.
handleDiscoveryResponse(u, r) ==
  \E body \in Discoveries :
    /\ Known(u, r)
    /\ \/ /\ body.sensorData # Object
          /\ crashed' = crashed \cup {"discovery"}
          /\ UNCHANGED <<sensor, supplied, pending>>
       \/ /\ body.sensorData = Object
          /\ IF Recorded
             THEN /\ sensor' = [sensor EXCEPT !.isDeleted = False]
                  /\ UNCHANGED supplied
             ELSE /\ \E data \in SensorData : sensor' = created(data)
                  /\ supplied' = {"capabilities", "configuration",
                                  "assignedFunctionality", "connectionState"}
          /\ IF body.isBroadcast = False THEN deleteCache(r)
             ELSE UNCHANGED pending
          /\ UNCHANGED crashed
    /\ UNCHANGED wire

\* The code is compared by !=, but an answer to any request will do.
handleDeviceHeartbeat(u, r) ==
  \E body \in Heartbeats :
    /\ Known(u, r) /\ Recorded
    /\ sensor' = [sensor EXCEPT !.connectionState = body.connectionState]
    /\ supplied' = supplied \ {"connectionState"}
    /\ deleteCache(r)
    /\ UNCHANGED <<wire, crashed>>

\* What the handlers ask after the code, before they write.
GoesOn(k, body) ==
  CASE k = "assign" -> body.status = Text("accepted") /\ Listed
    [] k = "upgrade" -> body.status = Text("success")
    [] k = "hardware" -> Listed
    [] k = "ack" -> FALSE                    \* not implemented
    [] OTHER -> TRUE

\* handleAssignResponse and its like: throw or return unless the code is a
\* number. Of what they write, only the functions are modelled.
handleStrict(k, u, r) ==
  \E body \in Strict[k] :
    /\ Known(u, r)
    /\ LET outcome ==
             IF body.responseCode \notin IsNumber \/ ~GoesOn(k, body)
             THEN "invalid"
             ELSE IF k = "assign" THEN validateSensorTypes(body.functionality)
             ELSE "valid"
       IN  /\ crashed' = IF outcome = "crash" THEN crashed \cup {"assign"}
                         ELSE crashed
           /\ sensor' = IF outcome = "valid" /\ k = "assign"
                        THEN Assigned(body.functionality) ELSE sensor
           /\ IF outcome = "valid" THEN deleteCache(r) ELSE UNCHANGED pending
    /\ UNCHANGED <<supplied, wire>>

Expire(r) ==
  /\ pending[r] # NoUser
  /\ deleteCache(r)
  /\ UNCHANGED <<sensor, supplied, wire, crashed>>

Next ==
  \/ \E u \in Users :
       \/ discoverDevicesBroadcast(u) \/ getHardwareStatus(u)
       \/ AssignDeviceFunction(u)
       \/ \E r \in Requests :
            \/ handleDiscoveryResponse(u, r) \/ handleDeviceHeartbeat(u, r)
            \/ \E k \in DOMAIN StrictDto : handleStrict(k, u, r)
  \/ getDeviceTelemetry \/ deleteSensor
  \/ \E body \in ConfigBodies : setDeviceConfiguration(body)
  \/ \E r \in Requests : Expire(r)

Spec == Init /\ [][Next]_vars

-----------------------------------------------------------------------------
(* Properties *)

\* The variables keep their types.
TypeOK ==
  /\ DOMAIN sensor = Columns /\ \A c \in Columns : sensor[c] \in Values
  /\ supplied \subseteq Columns
  /\ pending \in [Requests -> Users \cup {NoUser}]
  /\ \A m \in wire : m.userId \in Values /\ m.requestId \in Values
                    /\ m.by \in Users \cup {NoUser}
  /\ crashed \subseteq {"assign", "discovery"}

\* A column that its device's discovery did not fill holds what SensorDto
\* documents, whatever bodies and answers come, in whatever order.
ColumnsDocumented ==
  Recorded => \A c \in DOMAIN SensorDto \ supplied : sensor[c] \in SensorDto[c]

\* A device is assigned only functions it has said it is capable of, unless
\* its discovery named them itself.
AssignedWithin ==
  "assignedFunctionality" \notin supplied =>
    sensor.assignedFunctionality.of \subseteq sensor.capabilities.of

\* An assignment ends in a TypeError only where a device has described its
\* capabilities as neither an array nor text. (A discovery does whenever it
\* leaves out sensorData, which its DTO allows.)
CrashOnlyRaw ==
  "assign" \in crashed => sensor.capabilities.is \notin {"array", "string"}

\* Answers are credited to the one who asked: an id is pending only for a
\* user whose session sent a request under it, and such a request names that
\* user. Telemetry and configuration are exempt from naming anybody: their
\* bodies go out under ids of the client's choice, which are never pending.
Accountable ==
  /\ \A r \in Requests : pending[r] # NoUser =>
       \E m \in wire : m.requestId = Text(r) /\ m.by = pending[r]
  /\ \A m \in wire : m.dto # "own" =>
       /\ m.userId = Text(m.by)
       /\ \A r \in Requests :
            m.requestId = Text(r) => pending[r] \in {m.by, NoUser}

\* A body with all that is required of it is not refused for the
\* configuration it brings: reconfigureDevice is there to store it.
ConfigurationAccepted ==
  \A body \in ConfigBodies :
    Satisfies(body, PublishSetDeviceConfigDto) /\ body.deviceId = Text("d1")
      /\ Listed => ENABLED setDeviceConfiguration(body)
=============================================================================
