---------------------------- MODULE MCHandshake ----------------------------
EXTENDS Handshake, TLC

CONSTANTS e1, e2

OneEndpoint == <<e1>>
TwoEndpoints == <<e1, e2>>
=============================================================================
