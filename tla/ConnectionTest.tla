--------------------------- MODULE ConnectionTest ---------------------------
(***************************************************************************)
(* MqttClientService.testConnection: a promise, a timer and the callbacks  *)
(* of an MQTT client of its own, which keeps trying to connect until it is *)
(* ended. Tests run side by side, each with the configuration of its body. *)
(***************************************************************************)
EXTENDS Schemas

CONSTANT Tests    \* bound: requests for a test

\* Some number is right for every property of a configuration.
ASSUME ConnectionTestAssumption ==
  \E n \in Numbers : 1000 <= n /\ n <= 65535

VARIABLES
  config,     \* test -> its body
  timer,      \* test -> its setTimeout
  client,     \* test -> the state of its adapter's client
  answer      \* test -> what its promise is settled with

vars == <<config, timer, client, answer>>

Timers  == {"none", "set", "cleared", "fired"}
Clients == {"null", "trying", "ending"}
Answers == {"none", "waiting", "refused", "success", "timeout", "error",
            "failed"}

\* A port may be out of range, a protocol unknown, and so on.
Configs ==
  LET right == [Right(MqttConfigDto) EXCEPT !.protocol = Text("mqtt")]
  IN  Bodies(right, {"extra"})
      \cup {[right EXCEPT !.protocol = Text("carrier pigeon")]}

Init ==
  /\ config \in [Tests -> {Right(MqttConfigDto)}]
  /\ timer  = [t \in Tests |-> "none"]
  /\ client = [t \in Tests |-> "null"]
  /\ answer = [t \in Tests |-> "none"]

-----------------------------------------------------------------------------
(* validateConfiguration: what the service itself asks of a configuration  *)

Protocols == {Text("mqtt")}
Falsy(v) == v \in {Undefined, Null, False, Text(""), Number(0)}
Below(v, k) == v \in IsNumber /\ v.value < k
Above(v, k) == v \in IsNumber /\ v.value > k

validateConfiguration(c) ==
  /\ ~Falsy(Get(c, "host"))
  /\ ~Falsy(Get(c, "port"))
  /\ ~Below(Get(c, "port"), 1) /\ ~Above(Get(c, "port"), 65535)
  /\ Falsy(Get(c, "protocol")) \/ Get(c, "protocol") \in Protocols
  /\ Falsy(Get(c, "keepalive")) \/ ~Below(Get(c, "keepalive"), 1)
  /\ \A x \in {"connectTimeout", "reconnectPeriod"} :
       Falsy(Get(c, x)) \/ ~Below(Get(c, x), 1000)

-----------------------------------------------------------------------------
(* The test *)

\* The first settling of a promise is the one that counts.
Settle(t, a) == answer' = IF answer[t] = "waiting"
                          THEN [answer EXCEPT ![t] = a] ELSE answer
clearTimeout(t) == timer' = IF timer[t] = "set"
                            THEN [timer EXCEPT ![t] = "cleared"] ELSE timer
\* Mutant: what is left open is left open.
disconnectNot(t) == UNCHANGED client
\* end(), unless the adapter has no client.
disconnect(t) == client' = IF client[t] = "null" THEN client
                           ELSE [client EXCEPT ![t] = "ending"]

\* Mutant: the timer of a test that could not begin goes on.
connectThrowsTimed(t) ==
  /\ answer' = [answer EXCEPT ![t] = "failed"]
  /\ timer' = [timer EXCEPT ![t] = "set"]
  /\ UNCHANGED client

\* The client library throws on a URL it cannot read: no client is there.
connectThrows(t) ==
  /\ answer' = [answer EXCEPT ![t] = "failed"]
  /\ timer' = [timer EXCEPT ![t] = "cleared"]
  /\ UNCHANGED client

connect(t) ==
  /\ answer' = [answer EXCEPT ![t] = "waiting"]
  /\ timer' = [timer EXCEPT ![t] = "set"]
  /\ client' = [client EXCEPT ![t] = "trying"]

\* POST config/test-connection
testConnection(t) ==
  /\ answer[t] = "none"
  /\ \E c \in Configs :
       /\ config' = [config EXCEPT ![t] = c]
       /\ IF Accepts(c, MqttConfigDto)
          THEN connect(t) \/ connectThrows(t)
          ELSE /\ answer' = [answer EXCEPT ![t] = "refused"]
               /\ UNCHANGED <<timer, client>>

\* The timer's callback.
Timeout(t) ==
  /\ timer[t] = "set"
  /\ timer' = [timer EXCEPT ![t] = "fired"]
  /\ disconnect(t)
  /\ Settle(t, "timeout")
  /\ UNCHANGED config

\* CONNACK: once, or again after the connection was lost and made anew. It
\* may come after end() was called and before end has removed the callbacks.
onConnect(t) ==
  /\ client[t] \in {"trying", "ending"}
  /\ clearTimeout(t)
  /\ disconnect(t)
  /\ Settle(t, "success")
  /\ UNCHANGED config

\* Mutant: a refusal is waited out.
onErrorWaits(t) ==
  /\ client[t] \in {"trying", "ending"}
  /\ clearTimeout(t)
  /\ UNCHANGED <<config, client, answer>>

\* A refusal. Without one, a client that reaches nobody tries again.
onError(t) ==
  /\ client[t] \in {"trying", "ending"}
  /\ clearTimeout(t)
  /\ disconnect(t)
  /\ Settle(t, "error")
  /\ UNCHANGED config

\* Mutant: the adapter keeps the client that has ended.
EndedKeeps(t) ==
  /\ client[t] = "ending"
  /\ client' = [client EXCEPT ![t] = "ended"]
  /\ UNCHANGED <<config, timer, answer>>

\* end()'s callback removes the listeners and the client.
Ended(t) ==
  /\ client[t] = "ending"
  /\ client' = [client EXCEPT ![t] = "null"]
  /\ UNCHANGED <<config, timer, answer>>

Next == \E t \in Tests :
          \/ testConnection(t) \/ Timeout(t) \/ onConnect(t) \/ onError(t)
          \/ Ended(t)

\* A timer that is set fires, and end() calls back. No broker need answer.
Spec == /\ Init /\ [][Next]_vars
        /\ \A t \in Tests : WF_vars(Timeout(t)) /\ WF_vars(Ended(t))

-----------------------------------------------------------------------------
(* Properties *)

\* The variables keep their types.
TypeOK ==
  /\ \A t \in Tests : \A x \in DOMAIN config[t] : config[t][x] \in Values
  /\ timer \in [Tests -> Timers] /\ client \in [Tests -> Clients]
  /\ answer \in [Tests -> Answers]

\* A test waits for its answer as long as its timer is set: none waits that
\* nothing will end, and no timer of a test that is over ends a client later.
WaitingIsTimed ==
  \A t \in Tests : (answer[t] = "waiting") <=> (timer[t] = "set")

\* A client that goes on trying has a timer that will end it.
TryingIsTimed == \A t \in Tests : client[t] = "trying" => timer[t] = "set"

\* What is accepted for a test satisfies validateConfiguration, but for the
\* protocol, which the DTO does not name.
TestedIsValid ==
  \A t \in Tests : answer[t] \notin {"none", "refused"} =>
    validateConfiguration([config[t] EXCEPT !.protocol = Text("mqtt")])

\* Every test is answered, and no client is left behind.
TestsEnd ==
  \A t \in Tests :
    (answer[t] = "waiting") ~> (answer[t] # "waiting" /\ client[t] = "null")
=============================================================================
