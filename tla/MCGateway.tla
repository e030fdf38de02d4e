----------------------------- MODULE MCGateway -----------------------------
(* Gateway on small instances: which disturbances a run admits.            *)
EXTENDS GatewayInvariants

\* Everything the model knows.
AnyFault == AllFaults

\* Everything but an ACK that takes longer than a heartbeat interval.
PromptAcks == AllFaults \ {"lateAck"}

\* Disturbances of the connection from which the client means to recover.
Recoverable == {"close", "drop", "reconnect", "invalid", "beat"}
=============================================================================
