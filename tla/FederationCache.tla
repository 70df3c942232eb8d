-------------------------- MODULE FederationCache --------------------------
(***************************************************************************)
(* What GetFederation promises its callers (config/config.go, its doc     *)
(* comment): the federation metadata of a process is computed at most     *)
(* once, and every call returns that one value, error included.  Who     *)
(* computes it, and how callers wait for it, is left open.                *)
(***************************************************************************)
CONSTANTS
    Callers,  \* goroutines calling GetFederation
    Values,   \* what the computation may yield (metadata and error)
    None      \* not computed yet / no call returned yet

VARIABLES
    value,    \* the process's federation metadata and error
    got       \* [Callers -> what the caller's last call returned]

Init == value = None /\ got = [c \in Callers |-> None]

(* The metadata is computed, with no caller returning yet.                *)
Compute ==
    /\ value = None /\ value' # None /\ value' \in Values
    /\ UNCHANGED got

(* A call computes the metadata and returns it.                           *)
ComputeAndReturn(c) ==
    /\ value = None /\ value' # None /\ value' \in Values
    /\ got' = [got EXCEPT ![c] = value']

(* A call returns the metadata computed before.                           *)
Return(c) ==
    /\ value # None
    /\ got' = [got EXCEPT ![c] = value]
    /\ UNCHANGED value

Next == Compute \/ \E c \in Callers : ComputeAndReturn(c) \/ Return(c)

Spec == Init /\ [][Next]_<<value, got>>
=============================================================================
