----------------------- MODULE MCClassifierOrchestrator -----------------------
(* Two providers: an external one that awaits the network, and the local one, whose *)
(* promise is settled when it returns.                                              *)
EXTENDS ClassifierOrchestrator

Cloud == [id |-> "cloud", locality |-> "external", valid |-> TRUE, capable |-> TRUE, immediate |-> FALSE]
OnDevice == [id |-> "device", locality |-> "local", valid |-> TRUE, capable |-> TRUE, immediate |-> TRUE]

MCRegistry == <<Cloud, OnDevice>>
==============================================================================
