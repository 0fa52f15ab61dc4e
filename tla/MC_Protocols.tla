---------------------------- MODULE MC_Protocols ----------------------------
(***************************************************************************)
(* Small instances of the two protocols whose handlers the user registers: *)
(* a connection of the HTTP server and the MQTT client.  Each owns its     *)
(* variables: a behaviour uses one of them, chosen at the beginning.  Of   *)
(* the topics, both patterns match one, only the wildcard matches the      *)
(* other.                                                                  *)
(***************************************************************************)
EXTENDS HttpConnection, MqttClient

CONSTANTS exact, wildcard, topic, other
MCUrls == {<<"a">>, <<"a", Variable>>, <<"a", "c">>, Wildcard}
MCRequestUrls == {<<"a">>, <<"a", "b">>, <<"d">>}
MCPatterns == {exact, wildcard}
MCTopics == {topic, other}
MCMatches == {<<exact, topic>>, <<wildcard, topic>>, <<wildcard, other>>}

VARIABLE uses  \* what the behaviour uses

allVars == <<uses, httpVars, mqttVars>>

MCInit == uses \in {"http", "mqtt"} /\ HttpInit /\ MqttInit

HttpStep == uses = "http" /\ HttpNext /\ UNCHANGED <<uses, mqttVars>>
MqttStep == uses = "mqtt" /\ MqttNext /\ UNCHANGED <<uses, httpVars>>

(* The connection is gone, or the process with it. *)
Finished ==
    /\ uses = "http" /\ phase \in {"closed", "crashed"}
    /\ UNCHANGED allVars

MCNext == HttpStep \/ MqttStep \/ Finished

MCSpec ==
    /\ MCInit /\ [][MCNext]_allVars
    /\ uses = "http" => HttpFairness
    /\ uses = "mqtt" => WF_mqttVars(AttemptEnds)
=============================================================================
