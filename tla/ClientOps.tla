----------------------------- MODULE ClientOps -----------------------------
(***************************************************************************)
(* The client's entry points (client/main.go) on top of the director      *)
(* query: DoStat, DoList, DoDelete, GetObjectServerHostnames, DoCacheInfo, *)
(* DoGet, DoPut and DoCopy, with handleSchemelessIfNeeded.  One operation *)
(* runs per behaviour, as one CLI command does.  The collaborators that   *)
(* are not in src (pelican_url.Parse, the transfer engine, the token      *)
(* generator, statHttp/listHttp/deleteHttp, fetchChecksum) succeed or     *)
(* fail nondeterministically; the director query is DirectorQuery's.     *)
(***************************************************************************)
EXTENDS DirectorQuery, SequencesExt

CONSTANTS
    MaxObjServers,  \* bound on the director's object-server list
    TokenOutcomes   \* what token.get() may return: "ok", "err", "empty" (empty, nil error)

ASSUME TokenOutcomes \subseteq {"ok", "err", "empty"}

Ops == {"stat", "list", "delete", "hostnames", "cacheinfo", "get", "put", "copy"}

(* What the caller sees: no error, an error errors.As finds a             *)
(* StatusCodeError 404 in, a bare TransferAttemptError, or another error. *)
Errs == {"none", "notFound", "attempt", "other"}

(* One element of the transfer results: no error, a TransferErrors with a *)
(* single TransferAttemptError, with a single other error, or with more.  *)
ResultErrs == {"ok", "oneAttempt", "oneOther", "many"}

VARIABLES
    op,        \* the operation
    cpc,       \* where the operation is
    cerr,      \* the error it returns
    failed,    \* some collaborator it consulted failed
    fetches,   \* checksum fetches DoStat has left to make
    lastErr    \* DoStat's lastErr is set

cvars == <<op, cpc, cerr, failed, fetches, lastErr>>

ClientTypeOK ==
    /\ op \in Ops \cup {"none"}
    /\ cpc \in {"begin", "urlparse", "fed", "parse", "engine", "director", "token",
                "action", "checksums", "transfer", "done"}
    /\ cerr \in Errs
    /\ failed \in BOOLEAN
    /\ fetches \in 0..3
    /\ lastErr \in BOOLEAN

(* The method each operation queries the director with.                   *)
OpVerb == [o \in {"stat", "list", "hostnames"} |-> "GET"] @@ ("delete" :> "DELETE")

DirOps == DOMAIN OpVerb

Fail(kind) == cpc' = "done" /\ cerr' = kind /\ failed' = TRUE

(* The operation reaches its end without error.                          *)
Succeed == cpc' = "done" /\ UNCHANGED <<cerr, failed>>

-----------------------------------------------------------------------------
(* URL schemes as url.Parse reports them.                                 *)
Schemes == {"", "file", "pelican"}

(* DoCopy: a PUT when the destination has a scheme and the source has none *)
(* or "file"; a GET when the destination has none or "file" and the       *)
(* source has one; otherwise an error.                                    *)
Begin ==
    /\ cpc = "begin"
    /\ \E o \in Ops, src, dst \in Schemes :
          LET isPut == dst # "" /\ src \in {"", "file"}
              isGet == dst \in {"", "file"} /\ src # ""
          IN CASE o # "copy" -> op' = o /\ cpc' = "urlparse" /\ UNCHANGED <<cerr, failed>>
               [] isPut     -> op' = "put" /\ cpc' = "urlparse" /\ UNCHANGED <<cerr, failed>>
               [] isGet     -> op' = "get" /\ cpc' = "urlparse" /\ UNCHANGED <<cerr, failed>>
               [] OTHER     -> op' = "copy" /\ Fail("other")
    /\ UNCHANGED <<fetches, lastErr>>

(* url.Parse of the remote path; a path without a scheme goes through     *)
(* handleSchemelessIfNeeded.                                              *)
URLParse ==
    /\ cpc = "urlparse"
    /\ \/ Fail("other")
       \/ \E schemeless \in BOOLEAN :
             cpc' = (IF schemeless THEN "fed" ELSE "parse") /\ UNCHANGED <<cerr, failed>>
    /\ UNCHANGED <<op, fetches, lastErr>>

(* handleSchemelessIfNeeded: GetFederation, then the configured discovery *)
(* endpoint, or else the director endpoint, if set and parsable.          *)
Schemeless ==
    /\ cpc = "fed"
    /\ \E fedOk, discUsable, dirUsable \in BOOLEAN :
          IF fedOk /\ (discUsable \/ dirUsable)
             THEN cpc' = "parse" /\ UNCHANGED <<cerr, failed>>
             ELSE Fail("other")
    /\ UNCHANGED <<op, fetches, lastErr>>

(* pelican_url.Parse (with discovery for ParseRemoteAsPUrl).              *)
Parse ==
    /\ cpc = "parse"
    /\ \/ Fail("other")
       \/ cpc' = (IF op \in {"delete", "hostnames"} THEN "director" ELSE "engine")
          /\ UNCHANGED <<cerr, failed>>
    /\ UNCHANGED <<op, fetches, lastErr>>

(* NewTransferEngine.                                                     *)
Engine ==
    /\ cpc = "engine"
    /\ \/ Fail("other")
       \/ cpc' = (IF op \in {"stat", "list"} THEN "director" ELSE "transfer")
          /\ UNCHANGED <<cerr, failed>>
    /\ UNCHANGED <<op, fetches, lastErr>>

(* GetDirectorInfoForPath with the operation's method: the query itself   *)
(* is DirectorQuery's Start (or StartNoDirector) and the loop after it.   *)
QueryStart ==
    /\ cpc = "director" /\ pc = "idle"
    /\ Start \/ StartNoDirector
    /\ verb' = OpVerb[op]
    /\ UNCHANGED cvars

(* The query's error is wrapped and returned; a success is parsed by      *)
(* ParseDirectorInfo (headers and Link), which may fail.                  *)
AfterDirector ==
    /\ cpc = "director" /\ pc = "done"
    /\ IF result \in {"redirect", "propfind"}
          THEN \/ Fail("other")
               \/ cpc' = (IF op = "hostnames" THEN "done" ELSE "token")
                  /\ UNCHANGED <<cerr, failed>>
          ELSE Fail(IF result = "notFound" THEN "notFound" ELSE "other")
    /\ UNCHANGED <<op, fetches, lastErr>>

(* DoStat and DoList get a token only when the namespace requires one;   *)
(* DoDelete always does.  An error or an empty token returns              *)
(* errors.Wrap(err, ...), which is nil when err is nil.                   *)
Token ==
    /\ cpc = "token"
    /\ \E required \in BOOLEAN, t \in TokenOutcomes :
          CASE ~required /\ op # "delete" -> cpc' = "action" /\ UNCHANGED <<cerr, failed>>
            [] t = "ok"                   -> cpc' = "action" /\ UNCHANGED <<cerr, failed>>
            [] t = "err"                  -> Fail("other")
            [] OTHER                      -> cpc' = "done" /\ failed' = TRUE /\ UNCHANGED cerr
    /\ UNCHANGED <<op, fetches, lastErr>>

(* Mutant: the loop over object servers breaks one index late.           *)
StatUrlsOffByOne(n) == IF n = 0 THEN 1 ELSE IF n > 4 THEN 4 ELSE n

(* The URLs DoStat fetches checksums from, given n object servers: the     *)
(* first three (the loop breaks at idx > 2), or the object's own URL.     *)
StatUrls(n) == IF n = 0 THEN 1 ELSE IF n > 3 THEN 3 ELSE n

(* statHttp / listHttp / deleteHttp.  DoStat then fetches checksums, if   *)
(* requested, from the first three object servers, or from the URL       *)
(* itself when there are none.                                           *)
Action ==
    /\ cpc = "action"
    /\ \/ Fail("other") /\ UNCHANGED fetches
       \/ /\ op # "stat"
          /\ Succeed /\ UNCHANGED fetches
       \/ /\ op = "stat"
          /\ \E wantSums \in BOOLEAN, n \in 0..MaxObjServers :
                IF wantSums
                   THEN cpc' = "checksums" /\ fetches' = StatUrls(n)
                        /\ UNCHANGED <<cerr, failed>>
                   ELSE Succeed /\ UNCHANGED fetches
    /\ UNCHANGED <<op, lastErr>>

(* One fetchChecksum; a failure sets lastErr and the loop goes on.  After *)
(* the loop, a set lastErr fails DoStat.                                  *)
Checksum ==
    /\ cpc = "checksums"
    /\ IF fetches > 0
          THEN \E ok \in BOOLEAN :
                  /\ fetches' = fetches - 1
                  /\ lastErr' = (lastErr \/ ~ok)
                  /\ failed' = (failed \/ ~ok)
                  /\ UNCHANGED <<cpc, cerr>>
          ELSE /\ cpc' = "done"
               /\ cerr' = (IF lastErr THEN "other" ELSE cerr)
               /\ UNCHANGED <<fetches, lastErr, failed>>
    /\ UNCHANGED op

(* Mutant: DoGet reports success without looking at the job's lookup     *)
(* error.                                                                 *)
GetOutcomeNoLookup(shutErr, lookupErr, results) ==
    LET firstErr == SelectSeq(results, LAMBDA r : r # "ok")
        err == IF shutErr THEN "other"
               ELSE IF firstErr # <<>> THEN firstErr[1] ELSE "none"
    IN CASE err = "none"       -> "none"
         [] err = "oneAttempt" -> "attempt"
         [] OTHER              -> "other"

(* DoGet after tc.Shutdown(): a Shutdown error, else the job's lookup     *)
(* error, else the first failed result; a TransferErrors holding a single *)
(* TransferAttemptError is returned unwrapped.                           *)
GetOutcome(shutErr, lookupErr, results) ==
    LET firstErr == SelectSeq(results, LAMBDA r : r # "ok")
        err == IF shutErr \/ lookupErr THEN "other"
               ELSE IF firstErr # <<>> THEN firstErr[1] ELSE "none"
    IN CASE err = "none"       -> "none"
         [] err = "oneAttempt" -> "attempt"
         [] OTHER              -> "other"

(* DoPut after client.Shutdown(): the lookup error overrides a Shutdown   *)
(* error; else the first failed result's error, as it is.                 *)
PutOutcome(shutErr, lookupErr, results) ==
    IF shutErr \/ lookupErr \/ \E i \in 1..Len(results) : results[i] # "ok"
       THEN "other" ELSE "none"

(* DoCacheInfo: the transfer engine's NewClient, then CacheInfo on the   *)
(* object's raw URL; either error is returned as is.                      *)
CacheInfo ==
    /\ cpc = "transfer" /\ op = "cacheinfo"
    /\ Fail("other") \/ Succeed
    /\ UNCHANGED <<op, fetches, lastErr>>

(* DoGet / DoPut: NewClient, NewTransferJob and Submit, each returned as   *)
(* is when it fails; then Shutdown, the job's lookup error and the        *)
(* results decide the error, as GetOutcome or PutOutcome says.            *)
TransferJob(o) ==
    \/ Fail("other")
    \/ \E shutErr, lookupErr \in BOOLEAN, results \in BoundedSeq(ResultErrs, 2) :
          /\ cpc' = "done"
          /\ cerr' = IF o = "get" THEN GetOutcome(shutErr, lookupErr, results)
                     ELSE PutOutcome(shutErr, lookupErr, results)
          /\ failed' = (shutErr \/ lookupErr \/ \E i \in 1..Len(results) : results[i] # "ok")

TransferGet ==
    /\ cpc = "transfer" /\ op = "get"
    /\ TransferJob("get")
    /\ UNCHANGED <<op, fetches, lastErr>>

TransferPut ==
    /\ cpc = "transfer" /\ op = "put"
    /\ TransferJob("put")
    /\ UNCHANGED <<op, fetches, lastErr>>

ClientInit ==
    /\ Init
    /\ op = "none" /\ cpc = "begin" /\ cerr = "none" /\ failed = FALSE
    /\ fetches = 0 /\ lastErr = FALSE

ClientNext ==
    \/ (Attempt \/ Sleep \/ AfterLoop \/ CancelCtx) /\ UNCHANGED cvars
    \/ QueryStart
    \/ /\ \/ Begin \/ URLParse \/ Schemeless \/ Parse \/ Engine \/ AfterDirector
          \/ Token \/ Action \/ Checksum \/ CacheInfo \/ TransferGet \/ TransferPut
       /\ UNCHANGED vars

ClientSpec == ClientInit /\ [][ClientNext]_<<vars, cvars>>

-----------------------------------------------------------------------------
(* No silent failure: an operation that returns no error consulted no     *)
(* collaborator that failed (a failed checksum fetch, a job lookup error, *)
(* a failed transfer result, a director error).                          *)
NoFalseSuccess == (cpc = "done" /\ cerr = "none") => ~failed

=============================================================================
