------------------------------ MODULE Schemas ------------------------------
(***************************************************************************)
(* The DTO classes as class-validator reads them: for every decorated      *)
(* property, the values its decorators accept together.                    *)
(*                                                                         *)
(* Of a value only what the decorators and the handlers tell apart is      *)
(* kept: its JavaScript type and, for text, numbers and arrays, what it    *)
(* holds. A property that is not there has the value undefined.            *)
(***************************************************************************)
EXTENDS Integers, FiniteSets

CONSTANTS Users,               \* bound: user ids
          Requests,            \* bound: request ids
          DeviceCapabilities,  \* the enum of a device's functions
          Numbers,             \* bound: the numbers a body may hold
          Epochs               \* those that are times up to now

ASSUME SchemasAssumption ==
  Numbers \subseteq Int /\ Epochs \subseteq Numbers \cap Nat

\* What is of the JavaScript type k, holding the things in S.
Value(k, S) == [is |-> k, of |-> S]
Undefined == Value("undefined", {})
Null      == Value("null", {})
True      == Value("boolean", {"true"})
False     == Value("boolean", {"false"})
Object    == Value("object", {})
Text(w)   == Value("string", {w})
List(S)   == Value("array", S)
Number(n) == [is |-> "number", of |-> {}, value |-> n]

\* Two members stand for each enum that handlers take apart, one for others.
ConnectionState    == {"online", "offline"}
ProvisionState     == {"discovered", "assigned"}
AckStatus          == {"accepted", "rejected"}
UpgradeStatus      == {"success", "processing"}
RebootStatus       == {"success", "scheduled"}
TelemetryMetric    == {"temperature"}

RequestCodes == {"REQUEST_ASSIGN_DEVICE_FUNCTION", "REQUEST_TELEMETRY_DATA"}

Words == {"", "other", "d1"} \cup Users \cup Requests \cup RequestCodes
         \cup DeviceCapabilities \cup ConnectionState \cup ProvisionState
         \cup AckStatus \cup UpgradeStatus \cup RebootStatus
         \cup TelemetryMetric \cup {"mqtt", "carrier pigeon"}

Strings == {Text(w) : w \in Words}
Arrays  == {List(S) : S \in SUBSET (DeviceCapabilities \cup {"other"})}
Values  == Strings \cup Arrays
           \cup {Undefined, Null, True, False, Object}
           \cup {Number(n) : n \in Numbers}

-----------------------------------------------------------------------------
(* Decorators: sets of the values they accept *)

IsString   == Strings
IsNumber   == {Number(n) : n \in Numbers}
IsBoolean  == {True, False}
IsObject   == {Object}
IsArray    == Arrays
IsNotEmpty == Values \ {Undefined, Null, Text("")}    \* [] is not empty
IsOptional(P) == P \cup {Undefined, Null}
IsEnum(E)  == {Text(w) : w \in E}
\* `each: true` asks every element of an array, and a value that is none.
Each(P)    == P \cup {List(S) : S \in {T \in SUBSET (DeviceCapabilities
                                         \cup {"other"}) :
                                         \A w \in T : Text(w) \in P}}

RequiredStringApiProperty == IsString \cap IsNotEmpty
RequiredNumberApiProperty == IsNumber \cap IsNotEmpty
OptionalStringApiProperty == IsOptional(IsString)
OptionalNumberApiProperty == IsOptional(IsNumber)
TimeStampProperty  == IsNumber       \* the range check is commented out
IsValidEpochMillis == {Number(n) : n \in Epochs}
\* Min and Max beside the decorators P, which ask for a number. Where they
\* have IsOptional, what is not there passes the bounds, too.
AtLeast(k, P) == {v \in P : v \in IsNumber => v.value >= k}
AtMost(k, P)  == {v \in P : v \in IsNumber => v.value <= k}

UserIdProperty       == RequiredStringApiProperty
DeviceIdProperty     == RequiredStringApiProperty
RequestIdProperty    == RequiredStringApiProperty
RequestCodeProperty  == RequiredStringApiProperty
ResponseIdProperty   == RequiredStringApiProperty
ResponseCodeProperty == RequiredStringApiProperty    \* not a number

-----------------------------------------------------------------------------
(* Validation *)

\* {...f, ...g}
Spread(f, g) == [x \in DOMAIN f \cup DOMAIN g |->
                   IF x \in DOMAIN g THEN g[x] ELSE f[x]]

Get(body, x) == IF x \in DOMAIN body THEN body[x] ELSE Undefined

\* validate(plainToInstance(Dto, body)).
Satisfies(body, Dto) == \A x \in DOMAIN Dto : Get(body, x) \in Dto[x]

\* ValidationPipe with whitelist and forbidNonWhitelisted, for HTTP bodies.
Accepts(body, Dto) == DOMAIN body \subseteq DOMAIN Dto /\ Satisfies(body, Dto)

\* A right body, those with one wrong property, and those with one more
\* property that no decorator is on.
Right(Dto) == [x \in DOMAIN Dto |->
                 CHOOSE v \in Dto[x] : v \notin {Undefined, Null}]
Faults == {Undefined, Null, True, False, Object,
           Text(""), Text("other"), List({}), List({"other"})} \cup IsNumber
OneWrong(right) == {[right EXCEPT ![x] = v] : x \in DOMAIN right, v \in Faults}
OneMore(right, extra) == {Spread(right, [x \in {y} |-> Object]) : y \in extra}
Bodies(right, extra) == {right} \cup OneWrong(right) \cup OneMore(right, extra)

-----------------------------------------------------------------------------
(* Requests *)

Publish == [userId |-> UserIdProperty, requestId |-> RequestIdProperty,
            requestCode |-> RequestCodeProperty,
            timestamp |-> TimeStampProperty]
ForDevice == [deviceId |-> DeviceIdProperty]

PublishTelemetryDto == Spread(Publish, ForDevice)
\* configuration carries ApiProperty and Expose, and no validator.
PublishSetDeviceConfigDto == Spread(Publish, ForDevice)

\* Mutant: functionality may be anything that is not empty.
FunctionalityUnlisted ==
  Spread(Spread(Publish, ForDevice),
    [functionality |-> IsNotEmpty,
     publishTopic |-> RequiredStringApiProperty,
     interval |-> RequiredNumberApiProperty,
     highSetPoint |-> IsNotEmpty, lowSetPoint |-> IsNotEmpty,
     ackRequired |-> IsBoolean \cap IsNotEmpty, signature |-> IsString])

PublishSensorFunctionalityDto ==
  Spread(Spread(Publish, ForDevice),
    [functionality |->
       Each(IsEnum(DeviceCapabilities)) \cap IsArray \cap IsNotEmpty,
     publishTopic |-> RequiredStringApiProperty,
     interval |-> RequiredNumberApiProperty,
     highSetPoint |-> IsNotEmpty, lowSetPoint |-> IsNotEmpty,
     ackRequired |-> IsBoolean \cap IsNotEmpty, signature |-> IsString])

-----------------------------------------------------------------------------
(* Answers *)

Response == [userId |-> UserIdProperty, responseId |-> ResponseIdProperty,
             responseCode |-> ResponseCodeProperty,
             requestId |-> RequestIdProperty]
Timed == Spread(Spread(Response, ForDevice), [timestamp |-> TimeStampProperty])

DiscoveryResponseDto ==
  Spread(Response,
    [timestamp |-> TimeStampProperty,
     isBroadcast |-> IsBoolean \cap IsNotEmpty,
     sensorData |-> IsOptional(IsObject),      \* what it holds is not checked
     uptime |-> IsValidEpochMillis,
     additionalInfo |-> IsOptional(IsObject)])

SensorFunctionalityResponseDto ==
  Spread(Spread(Response, ForDevice),
    [functionality |-> IsArray \cap IsNotEmpty, status |-> IsEnum(AckStatus)])

AckResponseDto ==
  Spread(Timed, [ackStatus |-> IsEnum(AckStatus) \cap IsNotEmpty,
                 details |-> RequiredStringApiProperty])

FwUpgradeResponseDto ==
  Spread(Timed, [status |-> IsEnum(UpgradeStatus), progress |-> IsNumber])

\* Mutant: any text is a connection state.
HeartbeatFree ==
  Spread(Timed, [connectionState |-> IsString, uptime |-> IsValidEpochMillis,
                 wifiRssi |-> RequiredNumberApiProperty])

HeartbeatDto ==
  Spread(Timed, [connectionState |-> IsEnum(ConnectionState),
                 uptime |-> IsValidEpochMillis,
                 wifiRssi |-> RequiredNumberApiProperty])

DeviceRebootResponseDto ==
  Spread(Timed, [status |-> IsEnum(RebootStatus),
                 message |-> OptionalStringApiProperty])

TelemetryResponseDto ==
  Spread(Timed, [metric |-> IsEnum(TelemetryMetric), value |-> IsNumber,
                 meta |-> IsOptional(IsObject)])

HardwareStatusResponseDto ==
  Spread(Timed, [memoryUsage |-> RequiredNumberApiProperty,
                 cpuUsage |-> RequiredNumberApiProperty,
                 uptime |-> IsValidEpochMillis,
                 internalTemp |-> RequiredNumberApiProperty,
                 wifiRssi |-> RequiredNumberApiProperty])

-----------------------------------------------------------------------------
(* What SensorDto documents of a record, to the clients that read it *)

SensorDto ==
  [capabilities |-> Each(IsEnum(DeviceCapabilities)) \cap IsNotEmpty,
   assignedFunctionality |-> IsOptional(Each(IsEnum(DeviceCapabilities))),
   provisionState |-> IsEnum(ProvisionState) \cap IsNotEmpty,
   connectionState |-> IsEnum(ConnectionState),
   isDeleted |-> IsBoolean \cap IsNotEmpty]

-----------------------------------------------------------------------------
(* The broker's configuration *)

\* Mutant: one port too many.
MqttConfigOffByOne ==
  [host |-> RequiredStringApiProperty,
   port |-> AtLeast(1, AtMost(65536, RequiredNumberApiProperty)),
   protocol |-> OptionalStringApiProperty,
   keepalive |-> AtLeast(1, OptionalNumberApiProperty),
   connectTimeout |-> AtLeast(1000, OptionalNumberApiProperty),
   reconnectPeriod |-> AtLeast(1000, OptionalNumberApiProperty),
   clean |-> IsOptional(IsBoolean)]

\* The properties testConnection and validateConfiguration read.
MqttConfigDto ==
  [host |-> RequiredStringApiProperty,
   port |-> AtLeast(1, AtMost(65535, RequiredNumberApiProperty)),
   protocol |-> OptionalStringApiProperty,
   keepalive |-> AtLeast(1, OptionalNumberApiProperty),
   connectTimeout |-> AtLeast(1000, OptionalNumberApiProperty),
   reconnectPeriod |-> AtLeast(1000, OptionalNumberApiProperty),
   clean |-> IsOptional(IsBoolean)]
=============================================================================
