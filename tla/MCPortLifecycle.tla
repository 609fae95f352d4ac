-------------------------- MODULE MCPortLifecycle --------------------------
(* Two calls of CreatePort or CreateGateway for one identifier.            *)
EXTENDS PortLifecycle

CONSTANTS t1, t2

Two(a, b) == [t \in Transports |-> IF t = t1 THEN a ELSE b]
MCKinds == {Two("client", "server"), Two("client", "gateway"), Two("gateway", "gateway")}
MCAutoRemove == [t \in Transports |-> TRUE]
=============================================================================
