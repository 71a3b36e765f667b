------------------------------ MODULE MCBroker ------------------------------
EXTENDS Broker
CONSTANTS w1, w2, q1
OwnIds == [w \in Wrappers |-> w]
=============================================================================
