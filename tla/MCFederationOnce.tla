-------------------------- MODULE MCFederationOnce --------------------------
(* Model-checking instance of FederationOnce.                              *)
EXTENDS FederationOnce

CONSTANTS c1, c2, c3

MCCallers == {c1, c2, c3}
MCCallers2 == {c1, c2}
=============================================================================
