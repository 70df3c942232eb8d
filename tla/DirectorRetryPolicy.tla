------------------------- MODULE DirectorRetryPolicy -------------------------
(***************************************************************************)
(* What a client's director lookup promises (spec.md 4.10 step 3, 5, 8    *)
(* property 5, and scenario 5): requests with one method, each sent only  *)
(* after a transient answer, at most N of them; a transient answer is     *)
(* retried until the N requests are spent, a final one ends the lookup;   *)
(* a DELETE that an older director answers with a 404 "page not found"  *)
(* is re-issued once as PUT; after cancellation no answer arrives, only   *)
(* the failure of the next request.  A request that fails without an      *)
(* answer ends the lookup (the code's behaviour; spec 7 wants it retried). *)
(* How long the client waits between requests, and what it makes of the  *)
(* last answer, is left open.                                             *)
(***************************************************************************)
EXTENDS Naturals

CONSTANTS
    N,        \* requests per method
    Verbs,    \* HTTP methods
    Answers   \* what a request may get: records with a "kind" field

VARIABLES
    qVerb,     \* the method being sent
    qPhase,    \* "idle", "query", "done"
    qSent,     \* [Verbs -> requests sent with that method]
    qLast,     \* what the last request got
    qCancelled \* the caller cancelled

qvars == <<qVerb, qPhase, qSent, qLast, qCancelled>>

(* Spec 4.10 step 3: 404/500/502 from a server that is not a pelican      *)
(* process, and 429 from a pelican process, are transient.               *)
IsTransient(a) ==
    /\ a.kind = "answer"
    /\ \/ ~a.pelican /\ a.status \in {404, 500, 502}
       \/ a.pelican /\ a.status = 429

(* Scenario 5: an older director's answer to a DELETE it does not serve.  *)
PageNotFound(a) ==
    a.kind = "answer" /\ a.status = 404 /\ a.text = "pageNotFound" /\ a.format # "badjson"

(* The requests with this method are over: the last got a final answer,  *)
(* or a transient one with no request left.                               *)
Over == ~IsTransient(qLast) \/ qSent[qVerb] = N

PInit ==
    /\ qVerb = "GET" /\ qPhase = "idle"
    /\ qSent = [v \in Verbs |-> 0]
    /\ qLast = [kind |-> "none"]
    /\ qCancelled = FALSE

Begin(v) ==
    /\ qPhase = "idle"
    /\ qVerb' = v /\ qPhase' = "query"
    /\ UNCHANGED <<qSent, qLast, qCancelled>>

(* The lookup fails before any request (no director is known).           *)
BeginNoRequest(v) ==
    /\ qPhase = "idle"
    /\ qVerb' = v /\ qPhase' = "done"
    /\ UNCHANGED <<qSent, qLast, qCancelled>>

(* The first request with a method, or a retry after a transient answer. *)
Send(a) ==
    /\ qPhase = "query"
    /\ qSent[qVerb] = 0 \/ IsTransient(qLast)
    /\ qSent[qVerb] < N
    /\ qCancelled => a.kind = "transport"
    /\ qSent' = [qSent EXCEPT ![qVerb] = @ + 1]
    /\ qLast' = a
    /\ qPhase' = IF a.kind = "answer" THEN "query" ELSE "done"
    /\ UNCHANGED <<qVerb, qCancelled>>

(* Scenario 5: the DELETE is re-issued once, as PUT.                      *)
Reissue ==
    /\ qPhase = "query" /\ qVerb = "DELETE" /\ qSent[qVerb] > 0
    /\ Over /\ PageNotFound(qLast)
    /\ qVerb' = "PUT"
    /\ UNCHANGED <<qPhase, qSent, qLast, qCancelled>>

Finish ==
    /\ qPhase = "query" /\ qSent[qVerb] > 0
    /\ Over /\ ~(qVerb = "DELETE" /\ PageNotFound(qLast))
    /\ qPhase' = "done"
    /\ UNCHANGED <<qVerb, qSent, qLast, qCancelled>>

Cancel ==
    /\ qPhase # "done" /\ ~qCancelled
    /\ qCancelled' = TRUE
    /\ UNCHANGED <<qVerb, qPhase, qSent, qLast>>

PNext ==
    \/ \E v \in Verbs : Begin(v) \/ BeginNoRequest(v)
    \/ \E a \in Answers : Send(a)
    \/ Reissue \/ Finish \/ Cancel

PSpec == PInit /\ [][PNext]_qvars
=============================================================================
