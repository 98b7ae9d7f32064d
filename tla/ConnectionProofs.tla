-------------------------- MODULE ConnectionProofs --------------------------
(***************************************************************************)
(* Proofs about ConnectionTest, for any number of tests side by side.      *)
(***************************************************************************)
EXTENDS ConnectionTest, SchemaProofs

\* What the variables hold, configurations aside.
Typed ==
  /\ timer \in [Tests -> Timers]
  /\ client \in [Tests -> Clients]
  /\ answer \in [Tests -> Answers]

\* A client exists only once its test has begun.
Started == \A t \in Tests : client[t] # "null" => answer[t] # "none"

IInv == Typed /\ Started /\ TryingIsTimed /\ WaitingIsTimed

LEMMA TestStep ==
  ASSUME IInv, NEW t \in Tests, testConnection(t)
  PROVE  IInv'
<1>1. answer[t] = "none"
  BY DEF testConnection
<1>2. CASE connect(t)
  BY <1>1, <1>2 DEF IInv, Typed, Started, TryingIsTimed, WaitingIsTimed,
                    connect, Timers, Clients, Answers
<1>3. CASE connectThrows(t)
  BY <1>1, <1>3 DEF IInv, Typed, Started, TryingIsTimed, WaitingIsTimed,
                    connectThrows, Timers, Clients, Answers
<1>4. CASE /\ answer' = [answer EXCEPT ![t] = "refused"]
           /\ UNCHANGED <<timer, client>>
  BY <1>1, <1>4 DEF IInv, Typed, Started, TryingIsTimed, WaitingIsTimed,
                    Answers
<1>5. QED
  BY <1>2, <1>3, <1>4 DEF testConnection

\* The three callbacks: each settles the promise and ends the client.
LEMMA CallbackStep ==
  ASSUME IInv, NEW t \in Tests,
         Timeout(t) \/ onConnect(t) \/ onError(t)
  PROVE  IInv'
<1>1. PICK a \in {"timeout", "success", "error"} :
        answer' = IF answer[t] = "waiting" THEN [answer EXCEPT ![t] = a]
                                           ELSE answer
  BY DEF Timeout, onConnect, onError, Settle
<1>2. client' = IF client[t] = "null" THEN client
                ELSE [client EXCEPT ![t] = "ending"]
  BY DEF Timeout, onConnect, onError, disconnect
<1>3. /\ \A u \in Tests \ {t} : timer'[u] = timer[u]
      /\ timer' \in [Tests -> Timers]
      /\ timer'[t] # "set"
  BY DEF Timeout, onConnect, onError, clearTimeout, IInv, Typed, Timers
<1>4. answer[t] # "none"
  BY DEF Timeout, onConnect, onError, IInv, Started, WaitingIsTimed
<1>5. Typed'
  BY <1>1, <1>2, <1>3 DEF IInv, Typed, Clients, Answers
<1>6. Started'
  BY <1>1, <1>2, <1>4 DEF IInv, Typed, Started
<1>7. TryingIsTimed'
  BY <1>2, <1>3 DEF IInv, Typed, TryingIsTimed
<1>8. WaitingIsTimed'
  BY <1>1, <1>3 DEF IInv, Typed, WaitingIsTimed
<1>9. QED
  BY <1>5, <1>6, <1>7, <1>8 DEF IInv

LEMMA Invariance == Spec => []IInv
<1>1. Init => IInv
  BY DEF Init, IInv, Typed, Started, TryingIsTimed, WaitingIsTimed,
         Timers, Clients, Answers
<1>2. IInv /\ [Next]_vars => IInv'
  <2>1. ASSUME IInv, NEW t \in Tests, Ended(t) PROVE IInv'
    BY <2>1 DEF IInv, Typed, Started, TryingIsTimed, WaitingIsTimed,
                Ended, Clients
  <2>2. IInv /\ UNCHANGED vars => IInv'
    BY DEF IInv, Typed, Started, TryingIsTimed, WaitingIsTimed, vars
  <2>3. QED
    BY <2>1, <2>2, TestStep, CallbackStep DEF Next
<1>3. QED
  BY <1>1, <1>2, PTL DEF Spec

-----------------------------------------------------------------------------
(* Configurations *)

\* The configuration of a test that went on has passed the DTO.
Configured ==
  /\ DOMAIN config = Tests
  /\ \A t \in Tests :
       /\ \A x \in DOMAIN config[t] : config[t][x] \in Values
       /\ answer[t] \notin {"none", "refused"}
            => Accepts(config[t], MqttConfigDto)

LEMMA ConfigProperties ==
  /\ DOMAIN MqttConfigDto = {"host", "port", "protocol", "keepalive",
                             "connectTimeout", "reconnectPeriod", "clean"}
  /\ MqttConfigDto["host"] = RequiredStringApiProperty
  /\ MqttConfigDto["port"]
       = AtLeast(1, AtMost(65535, RequiredNumberApiProperty))
  /\ MqttConfigDto["protocol"] = OptionalStringApiProperty
  /\ MqttConfigDto["keepalive"] = AtLeast(1, OptionalNumberApiProperty)
  /\ \A x \in {"connectTimeout", "reconnectPeriod"} :
       MqttConfigDto[x] = AtLeast(1000, OptionalNumberApiProperty)
  /\ MqttConfigDto["clean"] = IsOptional(IsBoolean)
  BY DEF MqttConfigDto

\* What the DTO lets through, the service's own check lets through: the
\* bounds that are stated twice agree. Only the protocol is not the DTO's.
LEMMA AcceptedIsValid ==
  ASSUME NEW c, Accepts(c, MqttConfigDto)
  PROVE  validateConfiguration([c EXCEPT !.protocol = Text("mqtt")])
<1> DEFINE d == [c EXCEPT !.protocol = Text("mqtt")]
<1>1. \A x \in DOMAIN MqttConfigDto \ {"protocol"} :
        Get(d, x) \in MqttConfigDto[x]
  BY DEF Accepts, Satisfies, Get
<1>2. Get(d, "protocol") \in {Text("mqtt"), Undefined}
  BY DEF Get
<1> HIDE DEF d
<1>3. ~Falsy(Get(d, "host"))
  <2>1. Get(d, "host") \in RequiredStringApiProperty
    BY <1>1, ConfigProperties
  <2>2. \A v \in RequiredStringApiProperty :
          v.is = "string" /\ v \notin {Undefined, Null, Text("")}
    BY Kinds DEF RequiredStringApiProperty, IsString, Strings, IsNotEmpty
  <2>3. QED
    BY <2>1, <2>2, Kinds DEF Falsy
<1>4. /\ ~Falsy(Get(d, "port"))
      /\ ~Below(Get(d, "port"), 1) /\ ~Above(Get(d, "port"), 65535)
  <2>1. /\ Get(d, "port") \in IsNumber
        /\ Get(d, "port").value >= 1 /\ Get(d, "port").value <= 65535
    BY <1>1, ConfigProperties
       DEF AtLeast, AtMost, RequiredNumberApiProperty
  <2>2. PICK n \in Numbers : Get(d, "port") = Number(n)
    BY <2>1 DEF IsNumber
  <2>3. n \in Int /\ n >= 1 /\ n <= 65535
    BY <2>1, <2>2, Kinds, SchemasAssumption
  <2>4. ~(n < 1) /\ ~(n > 65535) /\ n # 0
    BY <2>3
  <2>5. ~Falsy(Number(n))
    <3>1. Number(n) # Number(0)
      BY <2>4, NumberIs
    <3>2. /\ Number(n) # Text("")
          /\ Number(n) \notin {Undefined, Null, False}
      BY NumberIs
    <3>3. QED
      BY <3>1, <3>2 DEF Falsy
  <2>6. QED
    BY <2>2, <2>4, <2>5, Kinds DEF Below, Above
<1>5. Falsy(Get(d, "protocol")) \/ Get(d, "protocol") \in Protocols
  BY <1>2 DEF Falsy, Protocols
<1>6. \A k \in Int : \A v \in AtLeast(k, OptionalNumberApiProperty) :
        ~Below(v, k)
  <2> SUFFICES ASSUME NEW k \in Int,
                      NEW v \in AtLeast(k, OptionalNumberApiProperty),
                      v \in IsNumber
               PROVE  ~(v.value < k)
    BY DEF Below
  <2>1. v.value >= k
    BY DEF AtLeast
  <2>2. v.value \in Int
    <3>1. PICK n \in Numbers : v = Number(n)
      BY DEF IsNumber
    <3>2. v.value = n
      BY <3>1, Zenon DEF Number
    <3>3. QED
      BY <3>2, SchemasAssumption
  <2>3. QED
    BY <2>1, <2>2
<1>7. ~Below(Get(d, "keepalive"), 1)
  BY <1>1, <1>6, ConfigProperties
<1>8. \A x \in {"connectTimeout", "reconnectPeriod"} : ~Below(Get(d, x), 1000)
  BY <1>1, <1>6, ConfigProperties
<1>9. QED
  BY <1>3, <1>4, <1>5, <1>7, <1>8 DEF validateConfiguration, d

\* The right configuration consists of values: no property of the DTO asks
\* for what is not there.
LEMMA RightValues ==
  ASSUME NEW x \in DOMAIN MqttConfigDto
  PROVE  Right(MqttConfigDto)[x] \in Values
<1>1. \A S : S \in {RequiredStringApiProperty, OptionalStringApiProperty}
        => Text("other") \in S
  <2>1. Text("other") \in Strings
    BY AreWords DEF Strings
  <2>2. Text("other") \notin {Undefined, Null, Text("")}
    BY Kinds, TextInjective
  <2>3. QED
    BY <2>1, <2>2, AreValues, AreWords
       DEF RequiredStringApiProperty, OptionalStringApiProperty, IsString,
           IsNotEmpty, IsOptional
<1>2. PICK n \in Numbers : 1000 <= n /\ n <= 65535
  BY ConnectionTestAssumption
<1>3. /\ Number(n) \in AtLeast(1, AtMost(65535, RequiredNumberApiProperty))
      /\ Number(n) \in AtLeast(1, OptionalNumberApiProperty)
      /\ Number(n) \in AtLeast(1000, OptionalNumberApiProperty)
  <2>1. /\ Number(n).value >= 1 /\ Number(n).value >= 1000
        /\ Number(n).value <= 65535
    <3>1. n \in Int /\ n >= 1 /\ n >= 1000 /\ n <= 65535
      BY <1>2, SchemasAssumption
    <3>2. QED
      BY <3>1, Kinds
  <2>2. Number(n) \notin {Undefined, Null, Text("")}
    BY NumberIs
  <2>3. Number(n) \in IsNumber \cap Values
    BY AreValues DEF IsNumber
  <2>4. /\ Number(n) \in RequiredNumberApiProperty
        /\ Number(n) \in OptionalNumberApiProperty
    BY <2>2, <2>3
       DEF RequiredNumberApiProperty, OptionalNumberApiProperty, IsNotEmpty,
           IsOptional
  <2>5. QED
    BY <2>1, <2>4 DEF AtLeast, AtMost
<1>4. True \in IsOptional(IsBoolean)
  BY DEF IsOptional, IsBoolean
<1>5. \E v \in MqttConfigDto[x] : v \notin {Undefined, Null}
  <2>1. \A v \in {Text("other"), Number(n), True} : v \notin {Undefined, Null}
    BY Kinds, NumberIs
  <2>2. QED
    BY <1>1, <1>3, <1>4, <2>1, ConfigProperties
<1>6. MqttConfigDto[x] \subseteq Values
  BY ConfigProperties, DecoratorsAccept DEF AtLeast, AtMost
<1>7. QED
  BY <1>5, <1>6, RightIs

LEMMA ConfigValues ==
  ASSUME NEW c \in Configs, NEW x \in DOMAIN c
  PROVE  c[x] \in Values
<1> DEFINE right == [Right(MqttConfigDto) EXCEPT !.protocol = Text("mqtt")]
<1>1. Right(MqttConfigDto) \in [DOMAIN MqttConfigDto -> Values]
  BY RightValues DEF Right
<1>2. Text("mqtt") \in Values /\ Text("carrier pigeon") \in Values
  BY AreValues, AreWords
<1>3. right \in [DOMAIN MqttConfigDto -> Values]
  BY <1>1, <1>2
<1>4. \/ c \in Bodies(right, {"extra"})
      \/ c = [right EXCEPT !.protocol = Text("carrier pigeon")]
  BY DEF Configs
<1> HIDE DEF right
<1>5. QED
  BY <1>2, <1>3, <1>4, BodiesValued

LEMMA ConfiguredInvariance == Spec => []Configured
<1>1. Init => Configured
  <2>1. DOMAIN Right(MqttConfigDto) = DOMAIN MqttConfigDto
    BY DEF Right
  <2>2. QED
    BY <2>1, RightValues DEF Init, Configured
<1>2. IInv /\ Configured /\ [Next]_vars => Configured'
  <2>1. ASSUME IInv, Configured, NEW t \in Tests, testConnection(t)
        PROVE  Configured'
    <3>1. PICK c \in Configs :
            /\ config' = [config EXCEPT ![t] = c]
            /\ \/ Accepts(c, MqttConfigDto)
               \/ answer' = [answer EXCEPT ![t] = "refused"]
            /\ \A u \in Tests \ {t} : answer'[u] = answer[u]
            /\ answer' \in [Tests -> Answers]
      BY <2>1 DEF testConnection, connect, connectThrows, IInv, Typed,
                  Answers
    <3>2. QED
      BY <2>1, <3>1, ConfigValues DEF Configured, IInv, Typed
  <2>2. ASSUME IInv, Configured, NEW t \in Tests,
               Timeout(t) \/ onConnect(t) \/ onError(t) \/ Ended(t)
        PROVE  Configured'
    <3>1. /\ UNCHANGED config
          /\ \A u \in Tests : answer'[u] # answer[u]
                                => answer[u] \notin {"none", "refused"}
      BY <2>2 DEF Timeout, onConnect, onError, Ended, Settle, IInv, Typed
    <3>2. QED
      BY <2>2, <3>1 DEF Configured
  <2>3. Configured /\ UNCHANGED vars => Configured'
    BY DEF Configured, vars
  <2>4. QED
    BY <2>1, <2>2, <2>3 DEF Next
<1>3. QED
  BY <1>1, <1>2, Invariance, PTL DEF Spec

-----------------------------------------------------------------------------
(* Theorems *)

\* The state of every test's timer, client and promise is one the code
\* knows, and its configuration consists of values.
THEOREM TypeCorrect == Spec => []TypeOK
<1>1. IInv /\ Configured => TypeOK
  BY DEF IInv, Typed, Configured, TypeOK
<1>2. QED
  BY <1>1, Invariance, ConfiguredInvariance, PTL

\* validateConfiguration never refuses what MqttConfigDto has let through,
\* but for the protocol: the bounds its comparisons state are no narrower
\* than those of the decorators.
THEOREM TestedTheorem == Spec => []TestedIsValid
<1>1. Configured => TestedIsValid
  BY AcceptedIsValid DEF Configured, TestedIsValid
<1>2. QED
  BY <1>1, ConfiguredInvariance, PTL

\* A client that testConnection leaves trying has a timer that will end it:
\* whichever of timer, connect and error comes first ends the client, too.
THEOREM TimedTheorem == Spec => []TryingIsTimed
<1>1. IInv => TryingIsTimed
  BY DEF IInv
<1>2. QED
  BY <1>1, Invariance, PTL

\* A test's promise waits exactly as long as its timer is set.
THEOREM WaitingTheorem == Spec => []WaitingIsTimed
<1>1. IInv => WaitingIsTimed
  BY DEF IInv
<1>2. QED
  BY <1>1, Invariance, PTL
=============================================================================
