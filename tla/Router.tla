------------------------------- MODULE Router -------------------------------
(***************************************************************************)
(* MqttMessageRouter: which event an incoming message is emitted as.       *)
(*                                                                         *)
(* A topic is the sequence of its segments. The handlers stand in the      *)
(* order MqttClientService registers them; each accepts the topics that    *)
(* end with its suffix.                                                    *)
(***************************************************************************)
EXTENDS Naturals, Sequences
LOCAL INSTANCE SequencesExt

Handler(suffix, priority, event) ==
  [topicSuffix |-> suffix, priority |-> priority, event |-> event]

handlers ==
  << Handler(<<"discovery">>,       10, "discovery"),
     Handler(<<"assign">>,          10, "assign"),
     Handler(<<"config", "get">>,   10, "config/get"),
     Handler(<<"config", "set">>,   10, "config/set"),
     Handler(<<"ack">>,             10, "ack"),
     Handler(<<"upgrade">>,         10, "upgrade"),
     Handler(<<"heartbeat">>,        5, "heartbeat"),
     Handler(<<"reboot">>,          10, "reboot"),
     Handler(<<"telemetry">>,        8, "telemetry"),
     Handler(<<"hardware_status">>,  8, "hardware-status"),
     Handler(<<"alert">>,           15, "alert") >>

\* topic.endsWith of '/' and the suffix: a segment precedes the slash.
canHandle(h, topic) ==
  /\ Len(topic) > Len(h.topicSuffix)
  /\ IsSuffix(h.topicSuffix, topic)

\* The stable sort puts i before j.
Before(i, j) ==
  \/ handlers[i].priority > handlers[j].priority
  \/ handlers[i].priority = handlers[j].priority /\ i < j

\* The first handler, in descending priority, that accepts the topic.
route(topic) ==
  LET able == {i \in DOMAIN handlers : canHandle(handlers[i], topic)}
  IN  IF able = {}
      THEN "unknown"
      ELSE handlers[CHOOSE i \in able :
                      \A j \in able \ {i} : Before(i, j)].event
=============================================================================
