------------------------------ MODULE Connect ------------------------------
(***************************************************************************)
(* MCPClient.detect_and_connect: choosing a transport for a target, one or *)
(* two connection attempts, each on an exit stack of its own, and the      *)
(* classification of what went wrong.                                      *)
(*                                                                         *)
(* An attempt can observe HTTP responses in three places: in the exception *)
(* it raised, in the teardown of its transport, and, for Streamable HTTP,  *)
(* in a recovery request.  A response carries the place it was observed in *)
(* so that a property can say which response a diagnosis speaks of.        *)
(*                                                                         *)
(* A component: AuditRun initializes it, and takes its steps Detect and    *)
(* Cleanup.                                                                *)
(*                                                                         *)
(* Abstractions: statuses are told apart only as far as the code does; a   *)
(* refused redirect is one the same-origin policy leaves unfollowed; the   *)
(* launch of a stdio server (module StdioLaunch) is one attempt here.      *)
(*                                                                         *)
(* A definition whose name ends in _<Fault> is a faulty variant of the one *)
(* that follows it, kept to show that the properties notice the fault.     *)
(***************************************************************************)
EXTENDS Naturals, Sequences

CONSTANT Targets     \* the kinds of target the model starts from

VARIABLES
    target,       \* what was asked for
    phase,        \* where detect_and_connect stands
    attempt,      \* transport of the current or last attempt
    raised,       \* the exception of the current attempt and its response
    pending,      \* _pending_http_status with _pending_refused_redirect
    open,         \* transports whose contexts are entered
    owned,        \* transports on the client's exit stack
    session,      \* transport of the established session
    lastError,    \* last_connection_error
    httpFailure,  \* the failure of the first of two attempts
    stdioParams,  \* stdio_params is set
    recorded      \* history: every failure recorded, in order

vars == <<target, phase, attempt, raised, pending, open, owned, session,
          lastError, httpFailure, stdioParams, recorded>>

Statuses == {"401", "403", "3xx", "other"}
Places == {"raised", "teardown", "recovery"}
Transports == {"stdio", "http", "sse"}

Responses ==
    { r \in [status : Statuses, refused : BOOLEAN, attempt : {"http", "sse"},
             place : Places] : r.refused => r.status = "3xx" }
NoResponse == [status |-> "none", refused |-> FALSE, attempt |-> "none", place |-> "none"]

(* _REASON_RANK                                                            *)
Rank(reason) ==
    CASE reason = "UNKNOWN" -> 0
      [] reason = "NOT_MCP" -> 1
      [] reason = "HTTP_ERROR" -> 2
      [] reason = "INVALID_URL" -> 3
      [] reason \in {"UNREACHABLE", "TIMEOUT"} -> 4
      [] reason = "REDIRECTED" -> 5
      [] reason \in {"FORBIDDEN", "UNAUTHORIZED"} -> 6

(* ConnectionFailure: where its status and its redirect target come from,  *)
(* and (history) the attempt it diagnoses.                                 *)
Failure(reason, statusOf, locationOf) ==
    [reason |-> reason, statusOf |-> statusOf, locationOf |-> locationOf, of |-> attempt]
NoFailure ==
    [reason |-> "none", statusOf |-> NoResponse, locationOf |-> NoResponse, of |-> "none"]

Init ==
    /\ target \in Targets
    /\ phase = "start"
    /\ attempt = "none"
    /\ raised = [kind |-> "none", response |-> NoResponse]
    /\ pending = NoResponse
    /\ open = {} /\ owned = {} /\ session = "none"
    /\ lastError = NoFailure /\ httpFailure = NoFailure
    /\ stdioParams = FALSE
    /\ recorded = <<>>

----------------------------------------------------------------------------
Record(failure) ==
    /\ lastError' = failure
    /\ recorded' = Append(recorded, failure)

(* Targets no attempt is made for.                                         *)
RejectTarget ==
    /\ phase = "start"
    /\ target \in {"missing_script", "invalid"}
    /\ Record(Failure(IF target = "invalid" THEN "INVALID_URL" ELSE "UNREACHABLE",
                      NoResponse, NoResponse))
    /\ phase' = "failed"
    /\ UNCHANGED <<target, attempt, raised, pending, open, owned, session,
                   httpFailure, stdioParams>>

(* _establish_session starts an attempt by forgetting what the teardown of *)
(* an earlier one observed.                                                *)
ForgetTeardown_Not == UNCHANGED pending

ForgetTeardown == pending' = NoResponse

Enter(transport) ==
    /\ attempt' = transport
    /\ raised' = [kind |-> "none", response |-> NoResponse]
    /\ ForgetTeardown
    /\ open' = open \cup {transport}
    /\ phase' = "handshake"

FirstTransport == IF target = "url" THEN "http" ELSE "stdio"

FirstAttempt ==
    /\ phase = "start"
    /\ target \in {"url", "script", "command"}
    /\ Enter(FirstTransport)
    /\ stdioParams' = (target # "url")
    /\ UNCHANGED <<target, owned, session, lastError, httpFailure, recorded>>

(* The handshake completed: the contexts move to the client's exit stack.  *)
SessionEstablished ==
    /\ phase = "handshake"
    /\ owned' = owned \cup {attempt}
    /\ session' = attempt
    /\ lastError' = NoFailure
    /\ phase' = "connected"
    /\ UNCHANGED <<target, attempt, raised, pending, open, httpFailure,
                   stdioParams, recorded>>

NetworkErrors == {"connect_error", "httpx_timeout", "status_error", "timeout",
                  "leaked_cancel", "cancelled", "exception"}

(* What comes of launching a server: the spawn is refused with one of the  *)
(* errnos told apart or with any other (spawn_error: ENOTDIR, E2BIG, ...), *)
(* and then nothing ran; or the process was started and its handshake      *)
(* failed.  Only the stderr of a script that mcpscore picked the           *)
(* interpreter for can explain that.                                       *)
RefusedSpawns == {"ENOENT", "EACCES", "ENOEXEC", "spawn_error"}
HandshakeErrors == {"timeout", "leaked_cancel", "cancelled", "exception"}

LaunchErrors ==
    RefusedSpawns \cup HandshakeErrors \cup (IF target = "script" THEN {"explained"} ELSE {})

(* What an exception of the current attempt may carry.                     *)
Carried(kind) ==
    LET here == { r \in Responses : r.attempt = attempt /\ r.place = "raised" }
    IN  CASE kind = "status_error" -> here
          [] kind = "exception" /\ attempt # "stdio" -> here \cup {NoResponse}
          [] OTHER -> {NoResponse}

HandshakeFails ==
    /\ phase = "handshake"
    /\ \E kind \in IF attempt = "stdio" THEN LaunchErrors ELSE NetworkErrors :
           \E response \in Carried(kind) :
               raised' = [kind |-> kind, response |-> response]
    /\ phase' = "teardown"
    /\ UNCHANGED <<target, attempt, pending, open, owned, session, lastError,
                   httpFailure, stdioParams, recorded>>

(* _discard_attempt: the attempt's own stack is closed; what its transport *)
(* raises while closing may carry a response.                              *)
CloseAttempt_Deferred == UNCHANGED open

CloseAttempt == open' = open \ {attempt}

Discard ==
    /\ phase = "teardown"
    /\ CloseAttempt
    /\ \E r \in { x \in Responses : x.attempt = attempt /\ x.place = "teardown" }
                    \cup {NoResponse} :
           pending' = IF r = NoResponse THEN pending ELSE r
    /\ phase' = IF raised.kind = "cancelled" THEN "cancelled" ELSE "classify"
    /\ UNCHANGED <<target, attempt, raised, owned, session, lastError,
                   httpFailure, stdioParams, recorded>>

----------------------------------------------------------------------------
(* _record_status_failure                                                  *)
StatusFailure(r) ==
    IF r.refused THEN Failure("REDIRECTED", r, r)
    ELSE Failure(CASE r.status = "401" -> "UNAUTHORIZED"
                   [] r.status = "403" -> "FORBIDDEN"
                   [] OTHER -> "HTTP_ERROR", r, NoResponse)

Plain(reason) == Failure(reason, NoResponse, NoResponse)

(* _observed_status: the teardown's response wins over the exception's.    *)
Observed == IF pending # NoResponse THEN pending ELSE raised.response

ObservedFailure_MixesResponses ==
    IF Observed = NoResponse THEN Plain("UNKNOWN")
    ELSE IF raised.response.refused
         THEN Failure("REDIRECTED", Observed, raised.response)
         ELSE StatusFailure(Observed)

(* _record_unclassified_failure                                            *)
ObservedFailure ==
    IF Observed = NoResponse THEN Plain("UNKNOWN") ELSE StatusFailure(Observed)

(* _record_handshake_failure: the transport went away under the handshake. *)
HandshakeFailure ==
    IF pending # NoResponse THEN StatusFailure(pending) ELSE Plain("NOT_MCP")

(* The spawns _connect_with_stdio_client has a diagnosis for.              *)
Diagnosed_NoFormatCheck == {"ENOENT", "EACCES"}

Diagnosed == {"ENOENT", "EACCES", "ENOEXEC"}

Classified ==
    CASE raised.kind \in {"connect_error", "explained"} \cup Diagnosed -> Plain("UNREACHABLE")
      [] raised.kind \in {"httpx_timeout", "timeout"} -> Plain("TIMEOUT")
      [] raised.kind = "status_error" -> StatusFailure(raised.response)
      [] raised.kind = "leaked_cancel" -> HandshakeFailure
      [] OTHER -> ObservedFailure

(* Streamable HTTP asks once more when the exception says nothing.         *)
NeedsRecovery ==
    attempt = "http" /\ raised.kind = "exception" /\ Observed = NoResponse

Classify ==
    /\ phase = "classify"
    /\ ~NeedsRecovery
    /\ Record(Classified)
    /\ phase' = "attempt_failed"
    /\ UNCHANGED <<target, attempt, raised, pending, open, owned, session,
                   httpFailure, stdioParams>>

(* Only an authentication challenge or a refused redirect is trusted of    *)
(* the recovery request, which is not the request that failed.             *)
Trusted(r) == r # NoResponse /\ (r.status \in {"401", "403"} \/ r.refused)

Recover ==
    /\ phase = "classify"
    /\ NeedsRecovery
    /\ \E r \in { x \in Responses : x.attempt = attempt /\ x.place = "recovery" }
                    \cup {NoResponse} :
           Record(IF Trusted(r) THEN StatusFailure(r) ELSE Plain("UNKNOWN"))
    /\ phase' = "attempt_failed"
    /\ UNCHANGED <<target, attempt, raised, pending, open, owned, session,
                   httpFailure, stdioParams>>

(* Ctrl-C while the recovery request is awaited.                           *)
CancelRecovery ==
    /\ phase = "classify"
    /\ NeedsRecovery
    /\ phase' = "cancelled"
    /\ UNCHANGED <<target, attempt, raised, pending, open, owned, session,
                   lastError, httpFailure, stdioParams, recorded>>

----------------------------------------------------------------------------
Gate == {"UNAUTHORIZED", "FORBIDDEN"}

(* Streamable HTTP failed without an authentication challenge: try SSE.    *)
FallBackToSSE ==
    /\ phase = "attempt_failed"
    /\ attempt = "http"
    /\ lastError.reason \notin Gate
    /\ httpFailure' = lastError
    /\ Enter("sse")
    /\ UNCHANGED <<target, owned, session, lastError, stdioParams, recorded>>

(* _preferred_failure, with the first attempt's failure on a tie.          *)
Preferred_Last(first, second) ==
    IF first = NoFailure THEN second
    ELSE IF Rank(second.reason) >= Rank(first.reason) THEN second ELSE first

Preferred(first, second) ==
    IF first = NoFailure THEN second
    ELSE IF Rank(second.reason) > Rank(first.reason) THEN second ELSE first

GiveUp ==
    /\ phase = "attempt_failed"
    /\ attempt = "http" => lastError.reason \in Gate
    /\ lastError' = IF attempt = "sse" THEN Preferred(httpFailure, lastError) ELSE lastError
    /\ phase' = "failed"
    /\ UNCHANGED <<target, attempt, raised, pending, open, owned, session,
                   httpFailure, stdioParams, recorded>>

(* MCPClient.cleanup closes the client's exit stack.                       *)
Ended == {"connected", "failed", "cancelled"}

Cleanup ==
    /\ phase \in Ended
    /\ open' = open \ owned
    /\ owned' = {}
    /\ phase' = "closed"
    /\ UNCHANGED <<target, attempt, raised, pending, session, lastError,
                   httpFailure, stdioParams, recorded>>

Detect ==
    \/ RejectTarget \/ FirstAttempt
    \/ SessionEstablished \/ HandshakeFails \/ Discard
    \/ Classify \/ Recover \/ CancelRecovery
    \/ FallBackToSSE \/ GiveUp

----------------------------------------------------------------------------
(* A reported status and the redirect reported with it were observed in    *)
(* one response (docstring of _observed_status), that response belongs to  *)
(* the attempt the failure diagnoses, and the reason is the one its status *)
(* stands for.  A failure without a response claims neither.               *)
DiagnosisFromOneResponse ==
    \A i \in 1 .. Len(recorded) :
        LET f == recorded[i] IN
        /\ f.locationOf # NoResponse => f.locationOf = f.statusOf
        /\ f.statusOf # NoResponse => f.statusOf.attempt = f.of
        /\ f.reason = "REDIRECTED" <=> f.statusOf.refused
        /\ f.reason = "UNAUTHORIZED" <=> f.statusOf.status = "401"
        /\ f.reason = "FORBIDDEN" <=> f.statusOf.status = "403"

(* A failed attempt leaves no transport open and no session behind; what   *)
(* is open belongs to the attempt in progress or to the client, and        *)
(* nothing stays open after cleanup.                                       *)
NoAttemptLeaks ==
    /\ open \subseteq owned \cup (IF phase \in {"handshake", "teardown"} THEN {attempt} ELSE {})
    /\ phase = "connected" => open = {session} /\ owned = {session}
    /\ phase \in {"failed", "cancelled"} => open = {} /\ session = "none"
    /\ phase = "closed" => open = {}

(* What the caller reads in last_connection_error describes the outcome:   *)
(* nothing after a success, even one that follows a failed attempt; after  *)
(* a failure the most informative of the recorded ones, the earliest among *)
(* equals; and once an attempt met an authentication challenge no other    *)
(* transport is tried, so the challenge is always what is reported.        *)
OutcomeReported ==
    /\ phase = "connected" => lastError = NoFailure
    /\ phase = "failed" =>
           \E i \in 1 .. Len(recorded) :
               /\ lastError = recorded[i]
               /\ \A j \in 1 .. Len(recorded) :
                      \/ Rank(recorded[j].reason) < Rank(lastError.reason)
                      \/ Rank(recorded[j].reason) = Rank(lastError.reason) /\ i <= j
    /\ \A i \in 1 .. Len(recorded) - 1 : recorded[i].reason \notin Gate

============================================================================
