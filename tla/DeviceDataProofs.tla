-------------------------- MODULE DeviceDataProofs --------------------------
(***************************************************************************)
(* Proofs about DeviceData, for any users, request ids and functions that  *)
(* devices may have. Bodies enter them only through the DTOs they satisfy. *)
(***************************************************************************)
EXTENDS DeviceData, SchemaProofs

-----------------------------------------------------------------------------
(* What the DTOs let through *)

\* What is read of a body that has it.
LEMMA ReadIs ==
  ASSUME NEW bodies, NEW xs, NEW x \in xs, NEW seen \in Read(bodies, xs)
  PROVE  \E body \in bodies : seen[x] = Get(body, x)
  BY DEF Read

LEMMA AssignBody ==
  ASSUME NEW body \in AssignBodies
  PROVE  /\ body.functionality \in Each(IsEnum(DeviceCapabilities))
         /\ body.functionality \in Arrays
<1> DEFINE Dto == PublishSensorFunctionalityDto
<1>1. \E B : /\ \A b \in B : Satisfies(b, Dto)
             /\ body \in Read(B, {"deviceId", "requestCode",
                                  "functionality"})
  BY DEF AssignBodies, Accepts
<1>2. /\ "functionality" \in DOMAIN Dto
      /\ Dto["functionality"]
           = Each(IsEnum(DeviceCapabilities)) \cap IsArray \cap IsNotEmpty
  BY DEF PublishSensorFunctionalityDto, Spread
<1>3. \E b : Satisfies(b, Dto) /\ body.functionality = Get(b, "functionality")
  BY <1>1, ReadIs
<1>4. QED
  BY <1>2, <1>3 DEF Satisfies, IsArray

LEMMA HeartbeatBody ==
  ASSUME NEW body \in Heartbeats
  PROVE  body.connectionState \in IsEnum(ConnectionState)
<1>1. PICK b : /\ Satisfies(b, HeartbeatDto)
               /\ body.connectionState = Get(b, "connectionState")
  BY ReadIs DEF Heartbeats, Valid
<1>2. /\ "connectionState" \in DOMAIN HeartbeatDto
      /\ HeartbeatDto["connectionState"] = IsEnum(ConnectionState)
  BY DEF HeartbeatDto, Spread
<1>3. QED
  BY <1>1, <1>2 DEF Satisfies

\* The code of an answer is text: no handler that compares it with a number
\* goes on.
LEMMA StrictBody ==
  ASSUME NEW k \in DOMAIN StrictDto, NEW body \in Strict[k]
  PROVE  body.responseCode \notin IsNumber
<1>1. PICK b : /\ Satisfies(b, StrictDto[k])
               /\ body.responseCode = Get(b, "responseCode")
  BY ReadIs DEF Strict, Valid
<1>2. /\ "responseCode" \in DOMAIN StrictDto[k]
      /\ StrictDto[k]["responseCode"] = ResponseCodeProperty
  <2>1. /\ "responseCode" \in DOMAIN Response
        /\ Response["responseCode"] = ResponseCodeProperty
    BY DEF Response
  <2>2. \A f, g : "responseCode" \in DOMAIN f /\ "responseCode" \notin DOMAIN g
          => /\ "responseCode" \in DOMAIN Spread(f, g)
             /\ Spread(f, g)["responseCode"] = f["responseCode"]
    BY DEF Spread
  <2>3. /\ "responseCode" \in DOMAIN Spread(Response, ForDevice)
        /\ Spread(Response, ForDevice)["responseCode"] = ResponseCodeProperty
    BY <2>1, <2>2 DEF ForDevice
  <2>4. /\ "responseCode" \in DOMAIN Timed
        /\ Timed["responseCode"] = ResponseCodeProperty
    BY <2>2, <2>3 DEF Timed
  <2>5. CASE k = "assign"
    BY <2>2, <2>3, <2>5 DEF StrictDto, SensorFunctionalityResponseDto
  <2>6. CASE k = "ack"
    BY <2>2, <2>4, <2>6 DEF StrictDto, AckResponseDto
  <2>7. CASE k = "upgrade"
    BY <2>2, <2>4, <2>7 DEF StrictDto, FwUpgradeResponseDto
  <2>8. CASE k = "reboot"
    BY <2>2, <2>4, <2>8 DEF StrictDto, DeviceRebootResponseDto
  <2>9. CASE k = "telemetry"
    BY <2>2, <2>4, <2>9 DEF StrictDto, TelemetryResponseDto
  <2>10. CASE k = "hardware"
    BY <2>2, <2>4, <2>10 DEF StrictDto, HardwareStatusResponseDto
  <2>11. QED
    BY <2>5, <2>6, <2>7, <2>8, <2>9, <2>10 DEF StrictDto
<1>3. ResponseCodeProperty \subseteq Strings
  BY DEF ResponseCodeProperty, RequiredStringApiProperty, IsString
<1>4. Strings \cap IsNumber = {}
  BY Kinds DEF Strings, IsNumber
<1>5. QED
  BY <1>1, <1>2, <1>3, <1>4 DEF Satisfies

-----------------------------------------------------------------------------
(* The inductive invariant *)

\* The columns that a discovery fills.
Raw == {"capabilities", "configuration", "assignedFunctionality",
        "connectionState"}

Typed ==
  /\ sensor \in [Columns -> Values]
  /\ supplied \subseteq Raw
  /\ pending \in [Requests -> Users \cup {NoUser}]
  /\ \A m \in wire : m.userId \in Values /\ m.requestId \in Values
                    /\ m.by \in Users \cup {NoUser}
  /\ crashed \subseteq {"assign", "discovery"}

\* An assignment needs a record; its device described the capabilities once
\* and for all.
CrashedRecorded ==
  "assign" \in crashed =>
    Recorded /\ sensor.capabilities.is \notin {"array", "string"}

IInv ==
  Typed /\ ColumnsDocumented /\ AssignedWithin /\ CrashedRecorded
        /\ Accountable

LEMMA ColumnsAre ==
  /\ Columns = {"capabilities", "assignedFunctionality", "provisionState",
                "connectionState", "isDeleted", "configuration"}
  /\ DOMAIN SensorDto = Columns \ {"configuration"}
  BY DEF Columns, SensorDto

\* What SensorDto documents of the columns that requests and answers write.
LEMMA Documents ==
  /\ {True, False} = SensorDto["isDeleted"]
  /\ Text("assigned") \in SensorDto["provisionState"]
  /\ Text("discovered") \in SensorDto["provisionState"]
  /\ IsEnum(ConnectionState) = SensorDto["connectionState"]
  /\ Each(IsEnum(DeviceCapabilities)) \subseteq
       SensorDto["assignedFunctionality"]
<1>1. {True, False} = SensorDto["isDeleted"]
  <2>1. ASSUME NEW v \in {True, False}
        PROVE  v \in Values /\ v \notin {Undefined, Null, Text("")}
    <3>1. v.is = "boolean"
      BY Kinds
    <3>2. Text("").is = "string"
      BY Kinds
    <3>3. QED
      BY <3>1, <3>2, AreValues, Kinds
  <2>2. {True, False} \subseteq IsNotEmpty
    BY <2>1 DEF IsNotEmpty
  <2>3. QED
    BY <2>2 DEF SensorDto, IsBoolean
<1>2. {Text("assigned"), Text("discovered")} \subseteq
        IsEnum(ProvisionState) \cap IsNotEmpty
  <2>1. {Text("assigned"), Text("discovered")} \subseteq
          IsEnum(ProvisionState) \cap Values
    BY AreValues, AreWords DEF IsEnum, ProvisionState
  <2>2. Text("assigned") # Text("") /\ Text("discovered") # Text("")
    BY TextInjective
  <2>3. \A w : Text(w) # Undefined /\ Text(w) # Null
    BY Kinds
  <2>4. QED
    BY <2>1, <2>2, <2>3 DEF IsNotEmpty
<1>3. QED
  BY <1>1, <1>2 DEF SensorDto, IsOptional

LEMMA Initially == Init => IInv
<1> SUFFICES ASSUME Init PROVE IInv
  OBVIOUS
<1> USE DEF Init
<1>1. Typed
  BY AreValues DEF Typed, NoSensor
<1>2. ~Recorded
  BY DEF Recorded
<1>3. AssignedWithin
  BY ColumnsAre, Kinds DEF AssignedWithin, NoSensor
<1>4. QED
  BY <1>1, <1>2, <1>3
     DEF IInv, ColumnsDocumented, CrashedRecorded, Accountable

-----------------------------------------------------------------------------
(* Requests on the wire *)

\* The id of a request is new, and kept with the user who asks.
LEMMA AskStep ==
  ASSUME IInv, NEW u \in Users, NEW r \in Requests, NEW dto, NEW body,
         body.userId = Text(u), body.requestId = Text(r),
         Fresh(r), setCache(body), publish(dto, body, u)
  PROVE  /\ pending' \in [Requests -> Users \cup {NoUser}]
         /\ \A m \in wire' : m.userId \in Values /\ m.requestId \in Values
                            /\ m.by \in Users \cup {NoUser}
         /\ Accountable'
<1>1. (CHOOSE v \in Users : body.userId = Text(v)) = u
  BY TextInjective
<1>2. pending' = [q \in Requests |-> IF q = r THEN u ELSE pending[q]]
  BY <1>1, TextInjective DEF setCache
<1>3. wire' = wire \cup {[dto |-> dto, userId |-> Text(u),
                          requestId |-> Text(r), by |-> u]}
  BY DEF publish
<1>4. Text(u) \in Values /\ Text(r) \in Values
  BY AreValues, AreWords
<1>5. \A q \in Requests : Text(r) = Text(q) => q = r
  BY TextInjective
<1>6. \A m \in wire : m.requestId # Text(r)
  BY DEF Fresh
<1>7. ASSUME NEW m \in wire', m.dto # "own"
      PROVE  /\ m.userId = Text(m.by)
             /\ \A q \in Requests : m.requestId = Text(q) =>
                  pending'[q] \in {m.by, NoUser}
  <2>1. CASE m \in wire
    BY <1>2, <1>6, <1>7, <2>1 DEF IInv, Accountable
  <2>2. CASE m \notin wire
    BY <1>2, <1>3, <1>5, <2>2
  <2>3. QED
    BY <2>1, <2>2
<1>8. ASSUME NEW q \in Requests, pending'[q] # NoUser
      PROVE  \E m \in wire' : m.requestId = Text(q) /\ m.by = pending'[q]
  <2>1. CASE q = r
    <3>1. pending'[q] = u
      BY <1>2, <2>1
    <3>2. [dto |-> dto, userId |-> Text(u), requestId |-> Text(r),
           by |-> u] \in wire'
      BY <1>3
    <3>3. QED
      BY <2>1, <3>1, <3>2
  <2>2. CASE q # r
    BY <1>2, <1>3, <1>8, <2>2 DEF IInv, Accountable
  <2>3. QED
    BY <2>1, <2>2
<1>9. QED
  BY <1>2, <1>3, <1>4, <1>7, <1>8 DEF IInv, Typed, Accountable

\* A body that goes out as it came leaves every id with whom it is kept for.
LEMMA OwnStep ==
  ASSUME IInv, NEW body, publishOwn(body), UNCHANGED pending
  PROVE  /\ \A m \in wire' : m.userId \in Values /\ m.requestId \in Values
                            /\ m.by \in Users \cup {NoUser}
         /\ Accountable'
<1>1. PICK u \in Users, r \in Requests :
        publish("own",
          Spread(body, [userId |-> Text(u), requestId |-> Text(r)]), NoUser)
  BY DEF publishOwn
<1>2. wire' = wire \cup {[dto |-> "own", userId |-> Text(u),
                          requestId |-> Text(r), by |-> NoUser]}
  BY <1>1 DEF publish, Spread
<1>3. Text(u) \in Values /\ Text(r) \in Values
  BY AreValues, AreWords
<1>4. QED
  BY <1>2, <1>3 DEF IInv, Typed, Accountable

\* An id that is pending no more is pending for nobody else.
LEMMA CacheStep ==
  ASSUME IInv, UNCHANGED wire,
         (\E r \in Requests : deleteCache(r)) \/ UNCHANGED pending
  PROVE  /\ pending' \in [Requests -> Users \cup {NoUser}]
         /\ \A m \in wire' : m.userId \in Values /\ m.requestId \in Values
                            /\ m.by \in Users \cup {NoUser}
         /\ Accountable'
<1>1. /\ pending' \in [Requests -> Users \cup {NoUser}]
      /\ \A q \in Requests : pending'[q] \in {pending[q], NoUser}
  BY DEF deleteCache, IInv, Typed
<1>2. QED
  BY <1>1 DEF IInv, Typed, Accountable

-----------------------------------------------------------------------------
(* The record *)

\* What a step may do to the record so that it stays as documented: each
\* column stays, is documented, or is from then on the discovery's own.
LEMMA RecordStep ==
  ASSUME IInv, sensor' \in [Columns -> Values],
         supplied' \subseteq Raw, crashed' \subseteq {"assign", "discovery"}, Recorded',
         \A c \in DOMAIN SensorDto \ supplied' :
           \/ Recorded /\ c \notin supplied /\ sensor'[c] = sensor[c]
           \/ sensor'[c] \in SensorDto[c],
         AssignedWithin',
         "assign" \in crashed' =>
           \/ /\ Recorded /\ "assign" \in crashed
              /\ sensor'.capabilities = sensor.capabilities
           \/ sensor'.capabilities.is \notin {"array", "string"}
  PROVE  /\ sensor' \in [Columns -> Values] /\ supplied' \subseteq Raw
         /\ crashed' \subseteq {"assign", "discovery"}
         /\ ColumnsDocumented' /\ AssignedWithin' /\ CrashedRecorded'
<1>1. ColumnsDocumented'
  BY DEF IInv, ColumnsDocumented
<1>2. CrashedRecorded'
  BY DEF IInv, CrashedRecorded
<1>3. QED
  BY <1>1, <1>2

\* A record that is written to stays one: it is deleted, or it is not.
LEMMA StaysRecorded ==
  ASSUME sensor' \in [Columns -> Values],
         sensor'.isDeleted \in {True, False}
  PROVE  Recorded'
<1>1. NoSensor.isDeleted = Undefined
  BY ColumnsAre DEF NoSensor
<1>2. QED
  BY <1>1, Kinds DEF Recorded, NoSensor

LEMMA RecordedIs ==
  ASSUME IInv, Recorded
  PROVE  sensor.isDeleted \in {True, False}
<1>1. "isDeleted" \in DOMAIN SensorDto \ supplied
  BY ColumnsAre DEF IInv, Typed, Raw
<1>2. QED
  BY <1>1, Documents DEF IInv, ColumnsDocumented

LEMMA AssignStep ==
  ASSUME IInv, NEW u \in Users, AssignDeviceFunction(u)
  PROVE  IInv'
<1>1. PICK body \in AssignBodies, by \in Users :
        /\ Listed
        /\ LET outcome == validateSensorTypes(body.functionality)
           IN  \/ /\ outcome = "crash"
                  /\ crashed' = crashed \cup {"assign"}
                  /\ UNCHANGED <<sensor, supplied, pending, wire>>
               \/ /\ outcome = "valid"
                  /\ \E r \in Requests :
                       LET payload == AssignPayload(u, r,
                                        Spread(body, [userId |-> Text(by)]))
                       IN  /\ Fresh(r)
                           /\ setCache(payload)
                           /\ publish("assign", payload, u)
                  /\ sensor' = Assigned(body.functionality)
                  /\ supplied' = supplied \ {"assignedFunctionality"}
                  /\ UNCHANGED crashed
  BY DEF AssignDeviceFunction
<1> DEFINE f == body.functionality
<1>2. f \in Each(IsEnum(DeviceCapabilities)) /\ f \in Arrays
  BY AssignBody
<1>3. f.is = "array" /\ f \in Values
  BY <1>2, Kinds DEF Arrays, Values
<1>4. Recorded
  BY <1>1 DEF Listed
<1>5. CASE /\ validateSensorTypes(f) = "crash"
           /\ crashed' = crashed \cup {"assign"}
           /\ UNCHANGED <<sensor, supplied, pending, wire>>
  <2>1. sensor.capabilities.is \notin {"array", "string"}
    BY <1>3, <1>5 DEF validateSensorTypes
  <2>2. QED
    BY <1>4, <1>5, <2>1
       DEF IInv, Typed, ColumnsDocumented, AssignedWithin, CrashedRecorded,
           Accountable, Recorded
<1>6. CASE /\ validateSensorTypes(f) = "valid"
           /\ \E r \in Requests :
                LET payload == AssignPayload(u, r,
                                 Spread(body, [userId |-> Text(by)]))
                IN  /\ Fresh(r)
                    /\ setCache(payload)
                    /\ publish("assign", payload, u)
           /\ sensor' = Assigned(f)
           /\ supplied' = supplied \ {"assignedFunctionality"}
           /\ UNCHANGED crashed
  <2>1. PICK r \in Requests :
          LET payload == AssignPayload(u, r,
                           Spread(body, [userId |-> Text(by)]))
          IN  /\ Fresh(r)
              /\ setCache(payload)
              /\ publish("assign", payload, u)
    BY <1>6
  <2>2. \A g : /\ AssignPayload(u, r, g).userId = Text(u)
               /\ AssignPayload(u, r, g).requestId = Text(r)
    BY DEF AssignPayload, Spread, Stamp
  <2>3. /\ pending' \in [Requests -> Users \cup {NoUser}]
        /\ \A m \in wire' : m.userId \in Values /\ m.requestId \in Values
                           /\ m.by \in Users \cup {NoUser}
        /\ Accountable'
    BY <2>1, <2>2, AskStep
  <2>4. /\ sensor' \in [Columns -> Values]
        /\ sensor'.assignedFunctionality = f
        /\ sensor'.provisionState = Text("assigned")
        /\ \A c \in Columns \ {"assignedFunctionality", "provisionState"} :
             sensor'[c] = sensor[c]
    BY <1>3, <1>6, ColumnsAre, AreValues, AreWords
       DEF Assigned, IInv, Typed, ProvisionState
  <2>5. Recorded'
    BY <1>4, <2>4, RecordedIs, StaysRecorded, ColumnsAre
  <2>6. f.of \subseteq sensor.capabilities.of
    BY <1>6 DEF validateSensorTypes, Includes
  <2>7. AssignedWithin'
    BY <2>4, <2>6, ColumnsAre DEF AssignedWithin
  <2>8. \A c \in DOMAIN SensorDto \ supplied' :
          \/ Recorded /\ c \notin supplied /\ sensor'[c] = sensor[c]
          \/ sensor'[c] \in SensorDto[c]
    BY <1>2, <1>4, <1>6, <2>4, ColumnsAre, Documents
  <2>9. /\ supplied' \subseteq Raw /\ crashed' \subseteq {"assign", "discovery"}
        /\ sensor'.capabilities = sensor.capabilities
    BY <1>6, <2>4, ColumnsAre DEF IInv, Typed
  <2>10. /\ ColumnsDocumented' /\ AssignedWithin' /\ CrashedRecorded'
    BY <1>4, <1>6, <2>4, <2>5, <2>7, <2>8, <2>9, RecordStep
  <2>11. QED
    BY <2>3, <2>4, <2>9, <2>10 DEF IInv, Typed
<1>7. QED
  BY <1>1, <1>5, <1>6

\* The other requests: two ask with a new id, one with an old one, and two
\* write one column.
LEMMA RequestStep ==
  ASSUME IInv, NEW u \in Users,
         discoverDevicesBroadcast(u) \/ getHardwareStatus(u)
  PROVE  IInv'
<1>1. /\ UNCHANGED <<sensor, supplied, crashed>>
      /\ \E r \in Requests, dto \in {"discovery", "hardware"} :
           Fresh(r) /\ setCache(Stamp(u, r)) /\ publish(dto, Stamp(u, r), u)
  BY DEF discoverDevicesBroadcast, getHardwareStatus
<1>2. \A r : Stamp(u, r).userId = Text(u) /\ Stamp(u, r).requestId = Text(r)
  BY DEF Stamp
<1>3. /\ pending' \in [Requests -> Users \cup {NoUser}]
      /\ \A m \in wire' : m.userId \in Values /\ m.requestId \in Values
                         /\ m.by \in Users \cup {NoUser}
      /\ Accountable'
  BY <1>1, <1>2, AskStep
<1>4. QED
  BY <1>1, <1>3 DEF IInv, Typed, ColumnsDocumented, AssignedWithin,
                    CrashedRecorded, Recorded

LEMMA TelemetryStep ==
  ASSUME IInv, getDeviceTelemetry
  PROVE  IInv'
<1>1. UNCHANGED <<sensor, supplied, pending, crashed>>
  BY DEF getDeviceTelemetry
<1>2. \E body : publishOwn(body)
  BY DEF getDeviceTelemetry
<1>3. QED
  BY <1>1, <1>2, OwnStep
     DEF IInv, Typed, ColumnsDocumented, AssignedWithin, CrashedRecorded,
         Recorded

\* A write of one column that is not the capabilities, nor the functions.
LEMMA WriteStep ==
  ASSUME IInv, Recorded,
         NEW c \in {"configuration", "isDeleted", "connectionState"},
         NEW v \in Values,
         sensor' = [sensor EXCEPT ![c] = v],
         c # "configuration" => v \in SensorDto[c],
         supplied' = supplied \ {c} \/ UNCHANGED supplied,
         \/ /\ (\E r \in Requests : deleteCache(r)) \/ UNCHANGED pending
            /\ UNCHANGED wire
         \/ (\E body : publishOwn(body)) /\ UNCHANGED pending,
         UNCHANGED crashed
  PROVE  IInv'
<1>1. /\ sensor' \in [Columns -> Values]
      /\ sensor'[c] = v
      /\ \A d \in Columns \ {c} : sensor'[d] = sensor[d]
  BY ColumnsAre DEF IInv, Typed
<1>2. sensor'.isDeleted \in {True, False}
  BY <1>1, RecordedIs, Documents, ColumnsAre
<1>3. Recorded'
  BY <1>1, <1>2, StaysRecorded
<1>4. /\ sensor'.capabilities = sensor.capabilities
      /\ sensor'.assignedFunctionality = sensor.assignedFunctionality
      /\ "assignedFunctionality" \in supplied
           <=> "assignedFunctionality" \in supplied'
  BY <1>1, ColumnsAre
<1>5. AssignedWithin'
  BY <1>4 DEF AssignedWithin, IInv
<1>6. \A d \in DOMAIN SensorDto \ supplied' :
        \/ Recorded /\ d \notin supplied /\ sensor'[d] = sensor[d]
        \/ sensor'[d] \in SensorDto[d]
  BY <1>1, ColumnsAre
<1>7. supplied' \subseteq Raw /\ crashed' \subseteq {"assign", "discovery"}
  BY DEF IInv, Typed
<1>8. ColumnsDocumented' /\ AssignedWithin' /\ CrashedRecorded'
  BY <1>1, <1>3, <1>4, <1>5, <1>6, <1>7, RecordStep
<1>9. /\ pending' \in [Requests -> Users \cup {NoUser}]
      /\ \A m \in wire' : m.userId \in Values /\ m.requestId \in Values
                         /\ m.by \in Users \cup {NoUser}
      /\ Accountable'
  BY CacheStep, OwnStep DEF IInv, Typed
<1>10. QED
  BY <1>1, <1>7, <1>8, <1>9 DEF IInv, Typed

LEMMA SmallStep ==
  ASSUME IInv,
         \/ deleteSensor
         \/ \E body \in ConfigBodies : setDeviceConfiguration(body)
         \/ \E u \in Users, r \in Requests : handleDeviceHeartbeat(u, r)
  PROVE  IInv'
<1>1. CASE deleteSensor
  BY <1>1, WriteStep, AreValues, Documents DEF deleteSensor, Listed
<1>2. CASE \E body \in ConfigBodies : setDeviceConfiguration(body)
  BY <1>2, WriteStep, AreValues DEF setDeviceConfiguration, Listed
<1>3. CASE \E u \in Users, r \in Requests : handleDeviceHeartbeat(u, r)
  <2>1. PICK r \in Requests, body \in Heartbeats :
          /\ Recorded
          /\ sensor' = [sensor EXCEPT !.connectionState = body.connectionState]
          /\ supplied' = supplied \ {"connectionState"}
          /\ deleteCache(r)
          /\ UNCHANGED <<wire, crashed>>
    BY <1>3 DEF handleDeviceHeartbeat
  <2>2. /\ body.connectionState \in SensorDto["connectionState"]
        /\ body.connectionState \in Values
    BY HeartbeatBody, Documents, AreValues, AreWords DEF IsEnum
  <2>3. QED
    BY <2>1, <2>2, WriteStep
<1>4. QED
  BY <1>1, <1>2, <1>3

\* An id expires, or is dropped with an answer that changes nothing else, or
\* a discovery cannot be taken apart.
LEMMA DropStep ==
  ASSUME IInv, UNCHANGED <<sensor, supplied, wire>>,
         UNCHANGED crashed \/ crashed' = crashed \cup {"discovery"},
         (\E r \in Requests : deleteCache(r)) \/ UNCHANGED pending
  PROVE  IInv'
  BY CacheStep DEF IInv, Typed, ColumnsDocumented, AssignedWithin,
                   CrashedRecorded, Recorded

LEMMA StrictStep ==
  ASSUME IInv, NEW k \in DOMAIN StrictDto, NEW u \in Users, NEW r \in Requests,
         handleStrict(k, u, r)
  PROVE  IInv'
<1>1. UNCHANGED <<sensor, supplied, pending, wire, crashed>>
  BY StrictBody DEF handleStrict
<1>2. QED
  BY <1>1, DropStep

LEMMA RawValues ==
  ASSUME NEW data \in SensorData
  PROVE  data \in [Columns -> Values]
<1>1. /\ Text("online") \in Values /\ Text("other") \in Values
      /\ List(DeviceCapabilities) \in Values /\ List({"other"}) \in Values
      /\ Undefined \in Values
      /\ \A c \in DeviceCapabilities : List({c}) \in Values
  BY AreValues, AreWords DEF ConnectionState
<1> DEFINE right == [capabilities |-> List(DeviceCapabilities),
                     assignedFunctionality |-> Undefined,
                     provisionState |-> Undefined,
                     connectionState |-> Text("online"),
                     isDeleted |-> Undefined,
                     configuration |-> Undefined]
<1>2. right \in [Columns -> Values]
  BY <1>1, ColumnsAre
<1>3. \/ data = right
      \/ \E c \in DeviceCapabilities :
           data = [right EXCEPT !.capabilities = List({c})]
      \/ \E c \in Columns, v \in {Undefined, Text("other"), List({"other"})} :
           data = [right EXCEPT ![c] = v]
  BY DEF SensorData
<1> HIDE DEF right
<1>4. QED
  BY <1>1, <1>2, <1>3

LEMMA DiscoveryStep ==
  ASSUME IInv, NEW u \in Users, NEW r \in Requests,
         handleDiscoveryResponse(u, r)
  PROVE  IInv'
<1>1. \/ /\ crashed' = crashed \cup {"discovery"}
         /\ UNCHANGED <<sensor, supplied, pending, wire>>
      \/ /\ IF Recorded
            THEN /\ sensor' = [sensor EXCEPT !.isDeleted = False]
                 /\ UNCHANGED supplied
            ELSE /\ \E data \in SensorData : sensor' = created(data)
                 /\ supplied' = {"capabilities", "configuration",
                                 "assignedFunctionality", "connectionState"}
         /\ deleteCache(r) \/ UNCHANGED pending
         /\ UNCHANGED <<wire, crashed>>
  BY DEF handleDiscoveryResponse
<1>2. CASE /\ crashed' = crashed \cup {"discovery"}
           /\ UNCHANGED <<sensor, supplied, pending, wire>>
  BY <1>2, DropStep
<1>3. CASE /\ Recorded
           /\ sensor' = [sensor EXCEPT !.isDeleted = False]
           /\ UNCHANGED supplied
           /\ deleteCache(r) \/ UNCHANGED pending
           /\ UNCHANGED <<wire, crashed>>
  BY <1>3, WriteStep, AreValues, Documents
<1>4. CASE /\ ~Recorded
           /\ \E data \in SensorData : sensor' = created(data)
           /\ supplied' = {"capabilities", "configuration",
                           "assignedFunctionality", "connectionState"}
           /\ deleteCache(r) \/ UNCHANGED pending
           /\ UNCHANGED <<wire, crashed>>
  <2>1. PICK data \in SensorData : sensor' = created(data)
    BY <1>4
  <2>2. /\ sensor' \in [Columns -> Values]
        /\ sensor'.provisionState = Text("discovered")
        /\ sensor'.isDeleted = False
    <3>1. data \in [Columns -> Values]
      BY RawValues
    <3>2. Text("discovered") \in Values /\ False \in Values
      BY AreValues, AreWords DEF ProvisionState
    <3>3. QED
      BY <2>1, <3>1, <3>2, ColumnsAre DEF created, Spread
  <2>3. Recorded'
    BY <2>2, StaysRecorded
  <2>4. DOMAIN SensorDto \ supplied' = {"provisionState", "isDeleted"}
    BY <1>4, ColumnsAre DEF Raw
  <2>5. "assign" \notin crashed'
    BY <1>4 DEF IInv, CrashedRecorded
  <2>6. AssignedWithin'
    BY <1>4 DEF AssignedWithin
  <2>7. ColumnsDocumented' /\ CrashedRecorded'
    BY <2>2, <2>4, <2>5, Documents DEF ColumnsDocumented, CrashedRecorded
  <2>8. QED
    BY <1>4, <2>2, <2>6, <2>7, CacheStep DEF IInv, Typed, Raw
<1>5. QED
  BY <1>1, <1>2, <1>3, <1>4

LEMMA Invariance == Spec => []IInv
<1>1. IInv /\ [Next]_vars => IInv'
  <2> SUFFICES ASSUME IInv, [Next]_vars PROVE IInv'
    OBVIOUS
  <2>1. CASE \E u \in Users :
               discoverDevicesBroadcast(u) \/ getHardwareStatus(u)
    BY <2>1, RequestStep
  <2>2. CASE \E u \in Users : AssignDeviceFunction(u)
    BY <2>2, AssignStep
  <2>3. CASE \E u \in Users, r \in Requests : handleDiscoveryResponse(u, r)
    BY <2>3, DiscoveryStep
  <2>4. CASE \E u \in Users, r \in Requests, k \in DOMAIN StrictDto :
               handleStrict(k, u, r)
    BY <2>4, StrictStep
  <2>5. CASE getDeviceTelemetry
    BY <2>5, TelemetryStep
  <2>6. CASE \/ deleteSensor
             \/ \E body \in ConfigBodies : setDeviceConfiguration(body)
             \/ \E u \in Users, r \in Requests : handleDeviceHeartbeat(u, r)
    BY <2>6, SmallStep
  <2>7. CASE \E r \in Requests : Expire(r)
    BY <2>7, DropStep DEF Expire
  <2>8. CASE UNCHANGED vars
    BY <2>8, DropStep DEF vars
  <2>9. QED
    BY <2>1, <2>2, <2>3, <2>4, <2>5, <2>6, <2>7, <2>8 DEF Next
<1>2. QED
  BY Initially, <1>1, PTL DEF Spec

-----------------------------------------------------------------------------
(* Theorems *)

\* The record has the columns of the Sensor entity, with values of the
\* types JavaScript knows; an id is pending for a user or for nobody.
THEOREM TypeCorrect == Spec => []TypeOK
<1>1. IInv => TypeOK
  BY DEF IInv, Typed, TypeOK, Raw, Columns, SensorDto
<1>2. QED
  BY <1>1, Invariance, PTL

\* Whatever operators send and devices answer, a column is as SensorDto
\* documents it once a handler has written it: what the DTOs of heartbeats
\* and assignments let through is enough for that.
THEOREM ColumnsTheorem == Spec => []ColumnsDocumented
<1>1. IInv => ColumnsDocumented
  BY DEF IInv
<1>2. QED
  BY <1>1, Invariance, PTL

\* validateSensorTypes keeps a device's functions within its capabilities.
THEOREM AssignedTheorem == Spec => []AssignedWithin
<1>1. IInv => AssignedWithin
  BY DEF IInv
<1>2. QED
  BY <1>1, Invariance, PTL

\* AssignDeviceFunction throws a TypeError only on raw capabilities: what
\* its DTO lets through as functions never makes validateSensorTypes do so.
THEOREM CrashTheorem == Spec => []CrashOnlyRaw
<1>1. IInv => CrashOnlyRaw
  BY DEF IInv, CrashedRecorded, CrashOnlyRaw
<1>2. QED
  BY <1>1, Invariance, PTL

\* The payload that DeviceService puts together names the user of the session,
\* whatever user and id the body names, and its id is kept with that user.
\* What goes out as the client sent it never makes an id pending.
THEOREM AccountableTheorem == Spec => []Accountable
<1>1. IInv => Accountable
  BY DEF IInv
<1>2. QED
  BY <1>1, Invariance, PTL
=============================================================================
