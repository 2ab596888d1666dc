---------------------------- MODULE MCEventBroker ----------------------------
\* Two clients: one asks for both topics, one for one of them.
EXTENDS EventBroker, TLC
CONSTANTS a, b
MCClients == {a, b}
MCTopics  == {"library.changed", "upscale.stats"}
MCWants   == a :> MCTopics @@ b :> {"library.changed"}
=============================================================================
