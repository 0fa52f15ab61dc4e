---------------------------- MODULE MC_MqttClient ----------------------------
(* A small instance of MqttClient: one topic that both patterns match, one *)
(* that only the wildcard matches.                                         *)
EXTENDS MqttClient

CONSTANTS exact, wildcard, topic, other
MCPatterns == {exact, wildcard}
MCTopics == {topic, other}
MCMatches == {<<exact, topic>>, <<wildcard, topic>>, <<wildcard, other>>}
=============================================================================
