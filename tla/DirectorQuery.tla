---------------------------- MODULE DirectorQuery ----------------------------
(***************************************************************************)
(* The client's query to the director (client/director.go):              *)
(* GetDirectorInfoForPath -> queryDirector, with its retry loop, the       *)
(* classification of the final response and the DELETE -> PUT fallback   *)
(* for older directors.                                                   *)
(*                                                                         *)
(* Whatever answers the request (the director itself, or an ingress proxy *)
(* in front of it while it reboots) is the environment: each attempt gets *)
(* any response from Responses, or a transport error.  The caller's ctx   *)
(* may be cancelled at any time.  Durations are seconds.                  *)
(***************************************************************************)
EXTENDS Naturals, Sequences

CONSTANTS
    DirectorRetries,  \* Client.DirectorRetries as configured
    Verbs,            \* HTTP methods the client queries with
    Statuses          \* status codes an answer may carry

ASSUME /\ DirectorRetries \in Nat
       /\ Verbs \subseteq {"GET", "PUT", "DELETE", "PROPFIND"}
       /\ Statuses \subseteq {207, 307, 403, 404, 405, 429, 500, 502}

(* numRetries: a value below 1 falls back to a single attempt.            *)
NumRetries == IF DirectorRetries < 1 THEN 1 ELSE DirectorRetries

(* An answer: its status, whether its Server header names a pelican       *)
(* process, its body format, and the message it carries (the JSON "msg",  *)
(* or the body text): "pageNotFound" for a body containing "page not      *)
(* found", "objectNotFound" for the director's two object-not-found        *)
(* messages.  "transport" and "read" are a failed client.Do and a failed  *)
(* io.ReadAll of the body.                                                 *)
Responses ==
    [kind: {"answer"}, status: Statuses, pelican: BOOLEAN,
     format: {"text", "json", "badjson"},
     text: {"pageNotFound", "objectNotFound", "other"}]
    \cup [kind: {"transport", "read"}]

Results == {"none", "noDirector", "redirect", "propfind", "notFound", "status", "status405",
            "transportErr", "readErr", "jsonErr"}

VARIABLES
    verb,      \* method of the current queryDirector call
    origVerb,  \* method GetDirectorInfoForPath was called with
    idx,       \* loop index of the retry loop
    pc,        \* "idle", "call", "sleep", "after", "done"
    resp,      \* last response (or transport error)
    attempts,  \* [Verbs -> number of requests sent with that verb]
    sleeps,    \* sleeps of the current call, in seconds, in order
    ctxDone,   \* the caller's ctx is cancelled
    result     \* what GetDirectorInfoForPath returns

vars == <<verb, origVerb, idx, pc, resp, attempts, sleeps, ctxDone, result>>

NoResp == [kind |-> "none"]

TypeOK ==
    /\ verb \in Verbs /\ origVerb \in Verbs
    /\ idx \in 0..NumRetries
    /\ pc \in {"idle", "call", "sleep", "after", "done"}
    /\ resp \in Responses \cup {NoResp}
    /\ attempts \in [Verbs -> Nat]
    /\ sleeps \in Seq(3..(3 * (NumRetries - 1) + 3))
    /\ ctxDone \in BOOLEAN
    /\ result \in Results

-----------------------------------------------------------------------------
(* fromPelican: the Server header starts with "pelican/".                 *)
FromPelican(r) == r.pelican

(* Mutant: a pelican process's 404 (the object is not found) is retried  *)
(* like an ingress proxy's.                                               *)
RetryablePelican404(r) ==
    \/ ~FromPelican(r) /\ r.status \in {502, 404, 500}
    \/ FromPelican(r) /\ r.status \in {429, 404}

(* The loop sleeps and retries on 404/500/502 from something that is not *)
(* a pelican process, and on 429 from a pelican process.                  *)
Retryable(r) ==
    \/ ~FromPelican(r) /\ r.status \in {502, 404, 500}
    \/ FromPelican(r) /\ r.status = 429

(* One pass of the loop body up to its decision: build and send the       *)
(* request, read the body, then sleep-and-retry or break.  A cancelled    *)
(* ctx makes client.Do fail at once.                                      *)
Attempt ==
    /\ pc = "call"
    /\ \E r \in Responses :
          /\ ctxDone => r.kind = "transport"
          /\ resp' = r
          /\ attempts' = [attempts EXCEPT ![verb] = @ + 1]
          /\ CASE r.kind = "transport" -> pc' = "done" /\ result' = "transportErr"
               [] r.kind = "read"      -> pc' = "done" /\ result' = "readErr"
               [] Retryable(r)        -> pc' = "sleep" /\ UNCHANGED result
               [] OTHER               -> pc' = "after" /\ UNCHANGED result
    /\ UNCHANGED <<verb, origVerb, idx, sleeps, ctxDone>>

(* Mutant: the backoff drops its 3-second base.                          *)
SleepNoBase ==
    /\ pc = "sleep"
    /\ sleeps' = Append(sleeps, 3 * idx)
    /\ idx' = idx + 1
    /\ pc' = IF idx + 1 < NumRetries THEN "call" ELSE "after"
    /\ UNCHANGED <<verb, origVerb, resp, attempts, ctxDone, result>>

(* time.Sleep(3*idx+3 s + jitter): not interrupted by the ctx.  The loop  *)
(* then moves on to its next index, or ends.                             *)
Sleep ==
    /\ pc = "sleep"
    /\ sleeps' = Append(sleeps, 3 * idx + 3)
    /\ idx' = idx + 1
    /\ pc' = IF idx + 1 < NumRetries THEN "call" ELSE "after"
    /\ UNCHANGED <<verb, origVerb, resp, attempts, ctxDone, result>>

(* After the loop: a non-307 JSON body counts as from the director and    *)
(* its msg replaces the body text; a PROPFIND answered 207 is proxied;    *)
(* a DELETE answered 404 "page not found" is re-issued with PUT; a 404    *)
(* from the director with an object-not-found message is a NotFound;      *)
(* anything else but a 307 is an error.  GetDirectorInfoForPath then maps *)
(* an error on PUT/DELETE whose response is 405 to its own message.       *)
Classify(r, v) ==
    LET json == r.status # 307 /\ r.format # "text"
        fromDirector == FromPelican(r) \/ json
    IN CASE json /\ r.format = "badjson"                      -> "jsonErr"
         [] r.status = 207 /\ v = "PROPFIND"                   -> "propfind"
         [] r.status = 307                                     -> "redirect"
         [] r.status = 404 /\ fromDirector /\ r.text = "objectNotFound" -> "notFound"
         [] OTHER                                              -> "status"

Fallback(r, v) ==
    /\ r.status = 404 /\ v = "DELETE" /\ r.text = "pageNotFound"
    /\ r.format # "badjson"

AfterLoop ==
    /\ pc = "after"
    /\ IF Fallback(resp, verb)
          THEN /\ verb' = "PUT" /\ idx' = 0 /\ sleeps' = <<>> /\ pc' = "call"
               /\ UNCHANGED result
          ELSE /\ pc' = "done"
               /\ result' =
                    LET c == Classify(resp, verb) IN
                    IF c \in {"status", "jsonErr"} /\ origVerb \in {"PUT", "DELETE"}
                          /\ resp.status = 405
                       THEN "status405" ELSE c
               /\ UNCHANGED <<verb, idx, sleeps>>
    /\ UNCHANGED <<origVerb, resp, attempts, ctxDone>>

(* GetDirectorInfoForPath on a URL whose metadata names a director.       *)
Start ==
    /\ pc = "idle"
    /\ \E v \in Verbs : verb' = v /\ origVerb' = v
    /\ pc' = "call"
    /\ UNCHANGED <<idx, resp, attempts, sleeps, ctxDone, result>>

(* The URL's federation metadata names no director: fail before querying. *)
StartNoDirector ==
    /\ pc = "idle"
    /\ \E v \in Verbs : verb' = v /\ origVerb' = v
    /\ pc' = "done"
    /\ result' = "noDirector"
    /\ UNCHANGED <<idx, resp, attempts, sleeps, ctxDone>>

CancelCtx ==
    /\ ~ctxDone /\ pc # "done"
    /\ ctxDone' = TRUE
    /\ UNCHANGED <<verb, origVerb, idx, pc, resp, attempts, sleeps, result>>

Init ==
    /\ verb = "GET" /\ origVerb = "GET"
    /\ idx = 0
    /\ pc = "idle"
    /\ resp = NoResp
    /\ attempts = [v \in Verbs |-> 0]
    /\ sleeps = <<>>
    /\ ctxDone = FALSE
    /\ result = "none"

Next == Start \/ StartNoDirector \/ Attempt \/ Sleep \/ AfterLoop \/ CancelCtx

Spec == Init /\ [][Next]_vars

-----------------------------------------------------------------------------
(* GetDirectorInfoForPath implements the client's retry policy: with the  *)
(* loop index and the backoff hidden, and the phase read off pc, every    *)
(* step of the retry loop, the fallback and the ctx is a step of          *)
(* DirectorRetryPolicy.  It rules out, among others, a request sent after *)
(* a final answer (the director's own 404 is not retried), a request past *)
(* the bound, a loop that ends on a transient answer with requests left,  *)
(* an answer received after cancellation, and a second fallback.         *)
Policy == INSTANCE DirectorRetryPolicy WITH
              N <- NumRetries, Answers <- Responses,
              qVerb <- verb, qSent <- attempts, qLast <- resp, qCancelled <- ctxDone,
              qPhase <- CASE pc = "idle" -> "idle" [] pc = "done" -> "done" [] OTHER -> "query"

PolicyRefined == Policy!PSpec

=============================================================================
