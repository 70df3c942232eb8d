-------------------------- MODULE MCObjectServers --------------------------
(* Model-checking instance of ObjectServers.                               *)
EXTENDS ObjectServers

CONSTANTS s1, s2, bad, badPri

MCServers == {s1, s2}
MCPris == {1, 2}
=============================================================================
