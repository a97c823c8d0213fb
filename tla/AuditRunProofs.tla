---------------------------- MODULE AuditRunProofs ----------------------------
(***************************************************************************)
(* What one invocation of the command line guarantees, for any target and  *)
(* any options: what it reports of the connection, what it leaves behind,  *)
(* and what its exit code means.                                           *)
(***************************************************************************)
EXTENDS AuditRun, TLAPS, SequenceTheorems

----------------------------------------------------------------------------
(* The connection.  Every response that is held was observed by the        *)
(* current attempt.                                                        *)
NoneOr(S) == S \cup {Client!NoResponse}

Errors ==
    Client!NetworkErrors \cup Client!RefusedSpawns \cup Client!HandshakeErrors \cup {"explained"}

OfThisAttempt(r) == r \in NoneOr({ x \in Client!Responses : x.attempt = attempt })

ResponsesHeld ==
    /\ attempt \in {"none", "stdio", "http", "sse"}
    /\ OfThisAttempt(pending)
    /\ phase \in {"teardown", "classify"} =>
           /\ raised.kind \in Errors
           /\ OfThisAttempt(raised.response)
           /\ raised.kind = "status_error" => raised.response # Client!NoResponse
    /\ phase = "classify" => raised.kind # "cancelled"

(* What a server did whose failure is left unexplained.                    *)
UnknownIsUnexplained ==
    phase \in {"attempt_failed", "failed"} /\ attempt = "stdio" /\ lastError.reason = "UNKNOWN" =>
        raised.kind \in {"exception", "spawn_error"}

(* A failure that is recorded is a diagnosis of one response.              *)
Reasons ==
    {"UNKNOWN", "NOT_MCP", "HTTP_ERROR", "INVALID_URL", "UNREACHABLE", "TIMEOUT",
     "REDIRECTED", "FORBIDDEN", "UNAUTHORIZED"}

OneResponse(f) ==
    /\ f.locationOf # Client!NoResponse => f.locationOf = f.statusOf
    /\ f.statusOf # Client!NoResponse => f.statusOf.attempt = f.of
    /\ f.reason = "REDIRECTED" <=> f.statusOf.refused
    /\ f.reason = "UNAUTHORIZED" <=> f.statusOf.status = "401"
    /\ f.reason = "FORBIDDEN" <=> f.statusOf.status = "403"

Diagnoses ==
    { f \in [reason : Reasons, statusOf : NoneOr(Client!Responses),
             locationOf : NoneOr(Client!Responses), of : {"none", "stdio", "http", "sse"}] :
        OneResponse(f) }

(* What is recorded, by where the attempts stand.                          *)
FailuresRecorded ==
    /\ recorded \in Seq(Diagnoses)
    /\ Len(recorded) <= 2
    /\ Len(recorded) = 2 => recorded[1].reason \notin Client!Gate
    /\ attempt # "sse" => Len(recorded) <= 1
    /\ phase = "start" => attempt = "none"
    /\ phase \in {"start", "handshake", "teardown", "classify"} =>
           Len(recorded) = IF attempt = "sse" THEN 1 ELSE 0
    /\ phase \in {"handshake", "teardown", "classify", "attempt_failed"} =>
           /\ attempt # "none"
           /\ attempt = "sse" =>
                  /\ httpFailure = recorded[1]
                  /\ httpFailure.reason \notin Client!Gate
    /\ phase = "attempt_failed" =>
           /\ Len(recorded) = IF attempt = "sse" THEN 2 ELSE 1
           /\ lastError = recorded[Len(recorded)]

(* What is open, by where the attempts stand.                              *)
TransportsHeld ==
    /\ phase \in {"start", "classify", "attempt_failed", "failed", "cancelled", "closed"} =>
           open = {} /\ owned = {}
    /\ phase \in {"handshake", "teardown"} => open = {attempt} /\ owned = {}
    /\ phase = "connected" => open = {session} /\ owned = {session}
    /\ phase \notin {"connected", "closed"} => session = "none"

Phases ==
    {"start", "handshake", "teardown", "classify", "attempt_failed", "connected",
     "failed", "cancelled", "closed"}

ConnectionInv ==
    /\ phase \in Phases
    /\ ResponsesHeld
    /\ UnknownIsUnexplained
    /\ FailuresRecorded
    /\ TransportsHeld
    /\ OutcomeReported

LEMMA StatusFailureIsDiagnosis ==
    ASSUME NEW r \in Client!Responses, r.attempt = attempt
    PROVE  Client!StatusFailure(r) \in Diagnoses
BY DEF Client!StatusFailure, Client!Failure, Client!Responses, Client!Statuses, Client!NoResponse,
       Diagnoses, OneResponse, Reasons, NoneOr

LEMMA PlainIsDiagnosis ==
    ASSUME NEW reason \in Reasons \ {"REDIRECTED", "UNAUTHORIZED", "FORBIDDEN"},
           attempt \in {"none", "stdio", "http", "sse"}
    PROVE  Client!Failure(reason, Client!NoResponse, Client!NoResponse) \in Diagnoses
BY DEF Client!Failure, Client!NoResponse, Diagnoses, OneResponse, Reasons, NoneOr

(* Whatever an attempt raised and its teardown observed.                   *)
LEMMA ClassifiedIsDiagnosis ==
    ASSUME ResponsesHeld, phase = "classify"
    PROVE  Client!Classified \in Diagnoses
<1> USE DEF ResponsesHeld, Reasons, Client!Plain
<1>1. CASE raised.kind \in {"connect_error", "explained", "httpx_timeout", "timeout"} \cup Client!Diagnosed
  BY <1>1, PlainIsDiagnosis DEF Client!Classified, Client!Diagnosed
<1>2. CASE raised.kind = "status_error"
  BY <1>2, StatusFailureIsDiagnosis DEF Client!Classified, OfThisAttempt, NoneOr
<1>3. CASE raised.kind = "leaked_cancel"
  BY <1>3, StatusFailureIsDiagnosis, PlainIsDiagnosis
  DEF Client!Classified, Client!HandshakeFailure, OfThisAttempt, NoneOr
<1>4. CASE raised.kind \in {"exception", "spawn_error"}
  BY <1>4, StatusFailureIsDiagnosis, PlainIsDiagnosis
  DEF Client!Classified, Client!Diagnosed, Client!ObservedFailure, Client!Observed, OfThisAttempt,
      NoneOr
<1> QED
  BY <1>1, <1>2, <1>3, <1>4 DEF Errors, Client!NetworkErrors, Client!RefusedSpawns,
     Client!HandshakeErrors, Client!Diagnosed

(* Only these two are left unexplained.                                    *)
LEMMA ClassifiedUnknown ==
    ASSUME ResponsesHeld, phase = "classify", Client!Classified.reason = "UNKNOWN"
    PROVE  raised.kind \in {"exception", "spawn_error"}
<1> USE DEF ResponsesHeld, Client!Plain, Client!Failure
<1>1. raised.kind \notin {"connect_error", "explained"} \cup Client!Diagnosed
  BY DEF Client!Classified, Client!Diagnosed
<1>2. raised.kind \notin {"httpx_timeout", "timeout"}
  BY DEF Client!Classified, Client!Diagnosed
<1>3. raised.kind # "status_error"
  BY DEF Client!Classified, Client!Diagnosed, Client!StatusFailure
<1>4. raised.kind # "leaked_cancel"
  BY DEF Client!Classified, Client!Diagnosed, Client!HandshakeFailure, Client!StatusFailure
<1> QED
  BY <1>1, <1>2, <1>3, <1>4 DEF Errors, Client!NetworkErrors, Client!RefusedSpawns,
     Client!HandshakeErrors, Client!Diagnosed

LEMMA ConnectionInit == Client!Init => ConnectionInv
BY EmptySeq DEF Client!Init, ConnectionInv, Phases, ResponsesHeld, UnknownIsUnexplained, FailuresRecorded, TransportsHeld,
   OutcomeReported, Client!OutcomeReported, OfThisAttempt, NoneOr

(* A diagnosis that is recorded becomes the last of those recorded.        *)
LEMMA RecordExtends ==
    ASSUME ConnectionInv, NEW f \in Diagnoses, Client!Record(f)
    PROVE  /\ recorded' \in Seq(Diagnoses)
           /\ Len(recorded') = Len(recorded) + 1 /\ Len(recorded) \in Nat
           /\ recorded'[Len(recorded')] = f
           /\ \A i \in 1 .. Len(recorded) : recorded'[i] = recorded[i]
           /\ lastError' = f
BY AppendProperties, LenProperties DEF Client!Record, ConnectionInv, FailuresRecorded

(* An attempt is entered: nothing is held of the one before it.            *)
LEMMA EnterStep ==
    ASSUME ConnectionInv, Client!FirstAttempt \/ Client!FallBackToSSE
    PROVE  ConnectionInv'
<1> USE DEF ConnectionInv
<1>1. /\ attempt' \in {"stdio", "http", "sse"} /\ phase' = "handshake"
      /\ pending' = Client!NoResponse /\ open' = open \cup {attempt'}
      /\ UNCHANGED <<owned, session, lastError, recorded>>
  BY DEF Client!FirstAttempt, Client!FallBackToSSE, Client!Enter, Client!FirstTransport,
         Client!ForgetTeardown
<1>2. phase \in {"start", "attempt_failed"}
  BY DEF Client!FirstAttempt, Client!FallBackToSSE
<1>3. ResponsesHeld'
  BY <1>1 DEF ResponsesHeld, OfThisAttempt, NoneOr, Client!Responses, Client!NoResponse
<1>4. FailuresRecorded'
  <2>1. CASE Client!FirstAttempt
    <3>1. attempt' \in {"stdio", "http"} /\ phase = "start"
      BY <2>1 DEF Client!FirstAttempt, Client!Enter, Client!FirstTransport
    <3> QED
      BY <1>1, <3>1 DEF FailuresRecorded
  <2>2. CASE Client!FallBackToSSE
    <3>1. /\ attempt = "http" /\ attempt' = "sse" /\ phase = "attempt_failed"
          /\ lastError.reason \notin Client!Gate /\ httpFailure' = lastError
      BY <2>2 DEF Client!FallBackToSSE, Client!Enter
    <3> QED
      BY <1>1, <3>1 DEF FailuresRecorded, Client!Gate
  <2> QED
    BY <2>1, <2>2
<1>5. TransportsHeld'
  BY <1>1, <1>2 DEF TransportsHeld
<1>6. OutcomeReported'
  BY <1>1 DEF OutcomeReported, Client!OutcomeReported, Client!Gate
<1> QED
  BY <1>1, <1>3, <1>4, <1>5, <1>6 DEF Phases, UnknownIsUnexplained

(* An attempt goes on, fails, or ends in a session.                        *)
LEMMA AttemptStep ==
    ASSUME ConnectionInv,
           Client!SessionEstablished \/ Client!HandshakeFails \/ Client!Discard
               \/ Client!CancelRecovery
    PROVE  ConnectionInv'
<1> USE DEF ConnectionInv
<1>1. UNCHANGED <<attempt, recorded, httpFailure>>
  BY DEF Client!SessionEstablished, Client!HandshakeFails, Client!Discard, Client!CancelRecovery
<1>2. /\ phase' \in Phases \ {"start", "attempt_failed", "failed", "closed"}
      /\ phase \in {"handshake", "teardown", "classify"}
  BY DEF Client!SessionEstablished, Client!HandshakeFails, Client!Discard, Client!CancelRecovery,
         Phases
<1>3. ResponsesHeld'
  <2>1. CASE Client!HandshakeFails
    <3>1. raised'.kind \in Errors /\ raised'.response \in Client!Carried(raised'.kind)
      BY <2>1 DEF Client!HandshakeFails, Client!LaunchErrors, Errors
    <3>2. /\ raised'.response \in NoneOr({ x \in Client!Responses : x.attempt = attempt })
          /\ raised'.kind = "status_error" => raised'.response # Client!NoResponse
      BY <3>1 DEF Client!Carried, NoneOr, Client!Responses, Client!NoResponse
    <3> QED
      BY <1>1, <2>1, <3>1, <3>2
      DEF Client!HandshakeFails, ResponsesHeld, OfThisAttempt, NoneOr
  <2>2. CASE Client!Discard
    BY <1>1, <2>2 DEF Client!Discard, ResponsesHeld, OfThisAttempt, NoneOr
  <2>3. CASE Client!SessionEstablished \/ Client!CancelRecovery
    BY <1>1, <2>3 DEF Client!SessionEstablished, Client!CancelRecovery, ResponsesHeld,
       OfThisAttempt, NoneOr
  <2> QED
    BY <2>1, <2>2, <2>3
<1>4. FailuresRecorded'
  BY <1>1, <1>2 DEF FailuresRecorded, Phases
<1>5. TransportsHeld'
  <2>1. CASE Client!SessionEstablished
    BY <1>1, <2>1 DEF TransportsHeld, Client!SessionEstablished
  <2>2. CASE Client!HandshakeFails
    BY <1>1, <2>2 DEF TransportsHeld, Client!HandshakeFails
  <2>3. CASE Client!Discard
    <3>1. /\ phase = "teardown" /\ phase' \in {"classify", "cancelled"}
          /\ open' = open \ {attempt} /\ UNCHANGED <<owned, session>>
      BY <2>3 DEF Client!Discard, Client!CloseAttempt
    <3> QED
      BY <3>1 DEF TransportsHeld
  <2>4. CASE Client!CancelRecovery
    BY <1>1, <2>4 DEF TransportsHeld, Client!CancelRecovery
  <2> QED
    BY <2>1, <2>2, <2>3, <2>4
<1>6. OutcomeReported'
  <2>1. phase' = "connected" => lastError' = Client!NoFailure
    BY DEF Client!SessionEstablished, Client!HandshakeFails, Client!Discard, Client!CancelRecovery
  <2> QED
    BY <1>1, <1>2, <2>1 DEF OutcomeReported, Client!OutcomeReported, Phases
<1> QED
  BY <1>2, <1>3, <1>4, <1>5, <1>6 DEF Phases, UnknownIsUnexplained

(* A failure is recorded: of an attempt, or of a target that allows none.  *)
LEMMA RecordStep ==
    ASSUME ConnectionInv, Client!RejectTarget \/ Client!Classify \/ Client!Recover
    PROVE  ConnectionInv'
<1> USE DEF ConnectionInv
<1>1. PICK f \in Diagnoses : Client!Record(f)
  <2>1. CASE Client!RejectTarget
    BY <2>1, PlainIsDiagnosis DEF Client!RejectTarget, ResponsesHeld, Reasons
  <2>2. CASE Client!Classify
    BY <2>2, ClassifiedIsDiagnosis DEF Client!Classify
  <2>3. CASE Client!Recover
    <3>1. PICK r \in { x \in Client!Responses : x.attempt = attempt } \cup {Client!NoResponse} :
              Client!Record(IF Client!Trusted(r) THEN Client!StatusFailure(r)
                            ELSE Client!Plain("UNKNOWN"))
      BY <2>3 DEF Client!Recover
    <3>2. CASE Client!Trusted(r)
      BY <3>1, <3>2, StatusFailureIsDiagnosis DEF Client!Trusted
    <3>3. CASE ~Client!Trusted(r)
      BY <3>1, <3>3, PlainIsDiagnosis DEF Client!Plain, ResponsesHeld, Reasons
    <3> QED
      BY <3>2, <3>3
  <2> QED
    BY <2>1, <2>2, <2>3
<1>2. /\ UNCHANGED <<attempt, raised, pending, open, owned, session, httpFailure>>
      /\ \/ phase = "start" /\ phase' = "failed"
         \/ phase = "classify" /\ phase' = "attempt_failed"
  BY DEF Client!RejectTarget, Client!Classify, Client!Recover
<1>3. ResponsesHeld'
  BY <1>2 DEF ResponsesHeld, OfThisAttempt, NoneOr
<1>4. /\ recorded' \in Seq(Diagnoses)
      /\ Len(recorded') = Len(recorded) + 1 /\ Len(recorded) \in Nat
      /\ recorded'[Len(recorded')] = f
      /\ \A i \in 1 .. Len(recorded) : recorded'[i] = recorded[i]
      /\ lastError' = f
  BY <1>1, RecordExtends
<1>5. Len(recorded) = IF attempt = "sse" THEN 1 ELSE 0
  BY <1>2 DEF FailuresRecorded
<1>6. attempt = "sse" => httpFailure = recorded[1] /\ httpFailure.reason \notin Client!Gate
  BY <1>2 DEF FailuresRecorded
<1>7. FailuresRecorded'
  BY <1>2, <1>4, <1>5, <1>6 DEF FailuresRecorded, Client!Gate
<1>8. TransportsHeld'
  BY <1>2 DEF TransportsHeld
<1>9. OutcomeReported'
  <2>1. \A i \in 1 .. Len(recorded') - 1 : recorded'[i].reason \notin Client!Gate
    BY <1>4, <1>5, <1>6
  <2>2. phase' = "failed" =>
            \E i \in 1 .. Len(recorded') :
                /\ f = recorded'[i]
                /\ \A j \in 1 .. Len(recorded') : j = i
    BY <1>2, <1>4, <1>5 DEF FailuresRecorded
  <2> QED
    BY <1>2, <1>4, <2>1, <2>2 DEF OutcomeReported, Client!OutcomeReported, Client!Gate
<1>10. UnknownIsUnexplained'
  <2>1. CASE Client!RejectTarget
    BY <1>2, <2>1 DEF Client!RejectTarget, FailuresRecorded, UnknownIsUnexplained
  <2>2. CASE Client!Classify
    <3>1. lastError' = Client!Classified /\ phase = "classify"
      BY <2>2 DEF Client!Classify, Client!Record
    <3> QED
      BY <1>2, <3>1, ClassifiedUnknown DEF UnknownIsUnexplained
  <2>3. CASE Client!Recover
    BY <1>2, <2>3 DEF Client!Recover, Client!NeedsRecovery, UnknownIsUnexplained
  <2> QED
    BY <2>1, <2>2, <2>3
<1> QED
  BY <1>2, <1>3, <1>7, <1>8, <1>9, <1>10 DEF Phases

(* The best of one failure, or of two, is reported.                        *)
LEMMA GiveUpStep ==
    ASSUME ConnectionInv, Client!GiveUp
    PROVE  ConnectionInv'
<1> USE DEF ConnectionInv
<1>1. /\ phase = "attempt_failed" /\ phase' = "failed"
      /\ UNCHANGED <<attempt, raised, pending, open, owned, session, httpFailure, recorded>>
      /\ lastError' = IF attempt = "sse" THEN Client!Preferred(httpFailure, lastError) ELSE lastError
  BY DEF Client!GiveUp
<1>2. ResponsesHeld'
  BY <1>1 DEF ResponsesHeld, OfThisAttempt, NoneOr
<1>3. FailuresRecorded' /\ TransportsHeld'
  BY <1>1 DEF FailuresRecorded, TransportsHeld
<1>4. \E i \in 1 .. Len(recorded) :
          /\ lastError' = recorded[i]
          /\ \A j \in 1 .. Len(recorded) :
                 \/ Client!Rank(recorded[j].reason) < Client!Rank(lastError'.reason)
                 \/ Client!Rank(recorded[j].reason) = Client!Rank(lastError'.reason) /\ i <= j
  <2>1. \A d \in Diagnoses : Client!Rank(d.reason) \in Nat /\ d # Client!NoFailure
    BY DEF Client!Rank, Diagnoses, Reasons, Client!NoFailure
  <2>2. CASE attempt # "sse"
    <3>1. Len(recorded) = 1 /\ lastError' = recorded[1]
      BY <1>1, <2>2 DEF FailuresRecorded
    <3> QED
      BY <3>1
  <2>3. CASE attempt = "sse"
    <3>1. /\ Len(recorded) = 2 /\ httpFailure = recorded[1] /\ lastError = recorded[2]
          /\ recorded[1] \in Diagnoses /\ recorded[2] \in Diagnoses
      <4>1. phase = "attempt_failed"
        BY <1>1
      <4>2. Len(recorded) = 2 /\ httpFailure = recorded[1] /\ lastError = recorded[2]
        BY <2>3, <4>1 DEF FailuresRecorded
      <4>3. recorded \in Seq(Diagnoses)
        BY DEF FailuresRecorded
      <4> QED
        BY <4>2, <4>3, ElementOfSeq
    <3>2. lastError' = IF Client!Rank(recorded[2].reason) > Client!Rank(recorded[1].reason)
                       THEN recorded[2] ELSE recorded[1]
      <4>1. recorded[1] # Client!NoFailure
        BY <2>1, <3>1
      <4>2. lastError' = Client!Preferred(recorded[1], recorded[2])
        BY <1>1, <2>3, <3>1
      <4> HIDE DEF ConnectionInv
      <4> QED
        BY <4>1, <4>2 DEF Client!Preferred
    <3>3. /\ Client!Rank(recorded[1].reason) \in Nat
          /\ Client!Rank(recorded[2].reason) \in Nat
      BY <2>1, <3>1
    <3>4. \A j \in 1 .. Len(recorded) : j = 1 \/ j = 2
      BY <3>1
    <3> HIDE DEF ConnectionInv
    <3>5. CASE Client!Rank(recorded[2].reason) > Client!Rank(recorded[1].reason)
      <4>1. lastError' = recorded[2] /\ 2 \in 1 .. Len(recorded)
        BY <3>1, <3>2, <3>5
      <4> QED
        BY <3>3, <3>4, <3>5, <4>1
    <3>6. CASE ~(Client!Rank(recorded[2].reason) > Client!Rank(recorded[1].reason))
      <4>1. lastError' = recorded[1] /\ 1 \in 1 .. Len(recorded)
        BY <3>1, <3>2, <3>6
      <4> QED
        BY <3>3, <3>4, <3>6, <4>1
    <3> QED
      BY <3>5, <3>6
  <2> QED
    BY <2>2, <2>3
<1>5. OutcomeReported'
  <2>1. \A i \in 1 .. Len(recorded) - 1 : recorded[i].reason \notin Client!Gate
    BY DEF OutcomeReported, Client!OutcomeReported
  <2> HIDE DEF ConnectionInv
  <2> QED
    BY <1>1, <1>4, <2>1 DEF OutcomeReported, Client!OutcomeReported
<1>6. UnknownIsUnexplained'
  BY <1>1 DEF UnknownIsUnexplained
<1> QED
  BY <1>1, <1>2, <1>3, <1>5, <1>6 DEF Phases

LEMMA CleanupStep ==
    ASSUME ConnectionInv, Client!Cleanup
    PROVE  ConnectionInv'
<1> USE DEF ConnectionInv
<1>1. /\ phase \in Client!Ended /\ phase' = "closed"
      /\ open' = open \ owned /\ owned' = {}
      /\ UNCHANGED <<attempt, raised, pending, session, lastError, httpFailure, recorded>>
  BY DEF Client!Cleanup
<1>2. ResponsesHeld'
  BY <1>1 DEF ResponsesHeld, OfThisAttempt, NoneOr
<1>3. FailuresRecorded'
  BY <1>1 DEF FailuresRecorded
<1>4. TransportsHeld'
  BY <1>1 DEF TransportsHeld, Client!Ended
<1>5. OutcomeReported'
  BY <1>1 DEF OutcomeReported, Client!OutcomeReported, Client!Gate
<1> QED
  BY <1>1, <1>2, <1>3, <1>4, <1>5 DEF Phases, UnknownIsUnexplained

LEMMA ConnectionKept ==
    ASSUME ConnectionInv, UNCHANGED clientVars
    PROVE  ConnectionInv'
<1>1. UNCHANGED <<phase, attempt, raised, pending, open, owned, session, lastError, httpFailure,
                  recorded>>
  BY DEF clientVars
<1>2. ResponsesHeld'
  BY <1>1 DEF ConnectionInv, ResponsesHeld, OfThisAttempt, NoneOr
<1>3. FailuresRecorded' /\ TransportsHeld' /\ UnknownIsUnexplained'
  BY <1>1 DEF ConnectionInv, FailuresRecorded, TransportsHeld, UnknownIsUnexplained
<1>4. OutcomeReported'
  BY <1>1 DEF ConnectionInv, OutcomeReported, Client!OutcomeReported
<1> QED
  BY <1>1, <1>2, <1>3, <1>4 DEF ConnectionInv

LEMMA DetectStep ==
    ASSUME ConnectionInv, Client!Detect
    PROVE  ConnectionInv'
BY EnterStep, AttemptStep, RecordStep, GiveUpStep DEF Client!Detect

----------------------------------------------------------------------------
(* The run.  Where the connection stands, by where the run does: a run     *)
(* that leaves has a client to stop, unless it never connected.            *)
Before == {"parsing", "reading_registry", "preparing"}
Reporting == {"reporting", "writing_sarif", "gating"}
Closing == {"stopping_server", "removing_filesystem", "stopping_network", "exited"}

Course ==
    /\ options \in Options
    /\ cli \in Before \cup Reporting \cup Closing
               \cup {"connecting", "fallback", "declined", "auditing", "smoking"}
    /\ cli \in Before => phase = "start"
    /\ cli = "connecting" => phase # "closed"
    /\ cli \in {"auditing", "smoking"} => phase = "connected"
    /\ cli \in {"fallback", "declined"} => phase = "failed"
    /\ cli \in Reporting => options.package \/ phase \in {"connected", "failed"}
    /\ cli = "stopping_server" => phase \in {"start", "connected", "failed", "cancelled"}
    /\ cli \in Closing \ {"stopping_server"} => phase \in {"start", "closed"}
    /\ cli = "reading_registry" => options.package
    /\ options.package =>
           phase = "start" /\ cli \in {"parsing", "reading_registry", "exited"} \cup Reporting

FixturesHeld ==
    /\ fixtures \subseteq {"filesystem", "network"}
    /\ cli \in {"parsing", "reading_registry", "exited"} \/ options.package => fixtures = {}
    /\ cli \in {"connecting", "fallback"} => fixtures = options.fixtures
    /\ cli = "stopping_network" => "filesystem" \notin fixtures

(* Which audit ran, and what it saw.                                       *)
AuditsRun ==
    /\ cli \in Before \cup {"connecting", "fallback", "declined", "auditing"} => audit = "none"
    /\ cli = "smoking" => audit = "full"
    /\ cli \in Reporting => audit # "none"
    /\ probed.gate \in {"none", "401", "403"}
    /\ BlameIsEarned

(* Nothing but the probes launches a server a second time.                 *)
Launched ==
    /\ launches \in Nat
    /\ cli \in Before \cup {"connecting", "fallback"} =>
           launches = IF attempt = "stdio" THEN 1 ELSE 0

(* What was written when the run decides on its exit code.                 *)
Json == IF options.json THEN {"json"} ELSE {}

Written ==
    /\ cli \notin Closing => exit = Running /\ breached = {}
    /\ cli \notin Closing \cup {"writing_sarif", "gating"} => documents = {}
    /\ cli = "writing_sarif" => documents = Json
    /\ cli = "gating" => documents = Requested

ExitClaims ==
    /\ exit \in {0, 3, 4} => audit # "none" /\ documents = Requested
    /\ exit = 0 =>
           /\ breached = {} /\ smoke # "failed"
           /\ audit = "partial" => "fail_under" \notin options.gates
    /\ exit = 3 => breached # {}
    /\ exit = 4 => breached = {} /\ smoke = "failed"
    /\ exit = 2 => audit = "none" /\ documents = {}

IInv ==
    /\ ConnectionInv /\ Course /\ FixturesHeld
    /\ AuditsRun /\ Launched /\ Written /\ ExitClaims

LEMMA RunInit == Init => IInv
<1> SUFFICES ASSUME Init PROVE IInv
  OBVIOUS
<1>1. ConnectionInv
  BY ConnectionInit DEF Init
<1>2. /\ phase = "start" /\ attempt = "none" /\ cli = "parsing" /\ options \in Options
      /\ fixtures = {} /\ launches = 0 /\ probed = NotProbed /\ audit = "none"
      /\ documents = {} /\ breached = {} /\ exit = Running
  BY OptionAssumption DEF Init, Client!Init
<1>3. Course /\ FixturesHeld
  BY <1>2 DEF Course, FixturesHeld, Before, Reporting, Closing
<1>4. AuditsRun /\ Launched
  BY <1>2 DEF AuditsRun, Launched, Before, Reporting, NotProbed, BlameIsEarned
<1>5. Written /\ ExitClaims
  BY <1>2 DEF Written, ExitClaims, Closing, Running
<1> QED
  BY <1>1, <1>3, <1>4, <1>5 DEF IInv

(* The client moves only while it connects, and when it is stopped.        *)
LEMMA ConnectionStep == IInv /\ [Next]_vars => ConnectionInv'
<1> SUFFICES ASSUME IInv, [Next]_vars PROVE ConnectionInv'
  OBVIOUS
<1>1. CASE Connecting
  BY <1>1, DetectStep DEF Connecting, IInv
<1>2. CASE StopServer
  BY <1>2, CleanupStep, ConnectionKept DEF StopServer, IInv
<1>3. CASE UNCHANGED clientVars
  BY <1>3, ConnectionKept DEF IInv
<1> QED
  BY <1>1, <1>2, <1>3
  DEF Next, RejectUsage, AcceptUsage, AuditPackage, PrepareFixture, Prepared, Connected,
      AuditModernOnly, NoModernTarget, AuditPartial, CannotConnect, AuditSession, RunSmokePhase,
      Abort, EmitJson, EmitSarif, ApplyGates, RemoveFixtures, RemoveFixture, Done, vars

(* The run takes its course, whichever way it leaves.                      *)
LEMMA CourseStep == IInv /\ [Next]_vars => Course'
<1> SUFFICES ASSUME IInv, [Next]_vars PROVE Course'
  OBVIOUS
<1> USE DEF IInv, Course, Before, Reporting, Closing
<1>1. CASE RejectUsage
  BY <1>1 DEF RejectUsage, clientVars
<1>2. CASE AcceptUsage
  BY <1>2 DEF AcceptUsage, clientVars
<1>3. CASE AuditPackage
  BY <1>3 DEF AuditPackage, Leave, CleanupStart, clientVars
<1>4. CASE PrepareFixture
  BY <1>4 DEF PrepareFixture, Leave, CleanupStart, clientVars
<1>5. CASE Prepared
  BY <1>5 DEF Prepared, clientVars
<1>6. CASE Connected
  BY <1>6 DEF Connected, Leave, CleanupStart, clientVars
<1>7. CASE AuditModernOnly
  BY <1>7 DEF AuditModernOnly, clientVars
<1>8. CASE NoModernTarget
  BY <1>8 DEF NoModernTarget, clientVars
<1>9. CASE AuditPartial
  BY <1>9 DEF AuditPartial, clientVars
<1>10. CASE CannotConnect
  BY <1>10 DEF CannotConnect, Leave, CleanupStart, clientVars
<1>11. CASE AuditSession
  BY <1>11 DEF AuditSession, clientVars
<1>12. CASE RunSmokePhase
  BY <1>12 DEF RunSmokePhase, clientVars
<1>13. CASE Abort
  BY <1>13 DEF Abort, Leave, CleanupStart, clientVars
<1>14. CASE EmitJson
  BY <1>14 DEF EmitJson, clientVars
<1>15. CASE EmitSarif
  BY <1>15 DEF EmitSarif, Leave, CleanupStart, clientVars
<1>16. CASE ApplyGates
  BY <1>16 DEF ApplyGates, Leave, CleanupStart, clientVars
<1>17. CASE Connecting
  <2>1. phase' # "closed"
    BY <1>17 DEF Connecting, Client!Detect, Client!RejectTarget, Client!FirstAttempt,
       Client!SessionEstablished, Client!HandshakeFails, Client!Discard, Client!Classify,
       Client!Recover, Client!CancelRecovery, Client!FallBackToSSE, Client!GiveUp, Client!Enter
  <2> QED
    BY <1>17, <2>1 DEF Connecting
<1>18. CASE StopServer
  <2>1. phase' \in {"start", "closed"}
    BY <1>18 DEF StopServer, Client!Cleanup, clientVars
  <2> QED
    BY <1>18, <2>1 DEF StopServer, AfterServer
<1>19. CASE RemoveFixtures
  BY <1>19 DEF RemoveFixtures, RemoveFixture, clientVars
<1>20. CASE Done \/ UNCHANGED vars
  BY <1>20 DEF Done, vars, clientVars
<1> QED
  BY <1>1, <1>2, <1>3, <1>4, <1>5, <1>6, <1>7, <1>8, <1>9, <1>10, <1>11,
     <1>12, <1>13, <1>14, <1>15, <1>16, <1>17, <1>18, <1>19, <1>20
  DEF Next

(* A fixture is removed in one place, and only after the server.           *)
LEMMA FixturesStep == IInv /\ [Next]_vars => FixturesHeld'
<1> SUFFICES ASSUME IInv, [Next]_vars PROVE FixturesHeld'
  OBVIOUS
<1> USE DEF IInv, Course, FixturesHeld, Before, Reporting, Closing
<1>1. CASE PrepareFixture
  <2>1. NextFixture \in {"filesystem", "network"}
    BY DEF NextFixture
  <2>2. /\ cli = "preparing" /\ UNCHANGED options
        /\ cli' \in {"preparing", "stopping_server", "exited"}
        /\ cli' = "exited" => options.package
        /\ fixtures' = fixtures \cup {NextFixture} \/ fixtures' = fixtures
    BY <1>1 DEF PrepareFixture, Leave, CleanupStart
  <2> QED
    BY <2>1, <2>2
<1>2. CASE RemoveFixtures
  BY <1>2 DEF RemoveFixtures, RemoveFixture
<1>3. CASE UNCHANGED <<fixtures, options>> /\ ~PrepareFixture /\ ~RemoveFixtures
  <2>1. cli' \in {"parsing", "reading_registry", "exited"} \/ cli' = "stopping_network" =>
            \/ cli' = cli \/ cli = "parsing"
            \/ cli' = "exited" /\ options.package
    BY <1>3 DEF Next, RejectUsage, AcceptUsage, AuditPackage, Prepared, Connecting, Connected,
       AuditModernOnly, NoModernTarget, AuditPartial, CannotConnect, AuditSession,
       RunSmokePhase, Abort, EmitJson, EmitSarif, ApplyGates, StopServer, AfterServer,
       Done, vars, Leave, CleanupStart
  <2>2. cli' \in {"connecting", "fallback"} => cli' = cli \/ cli = "connecting" \/ options.fixtures = fixtures
    BY <1>3 DEF Next, RejectUsage, AcceptUsage, AuditPackage, Prepared, Connecting, Connected,
       AuditModernOnly, NoModernTarget, AuditPartial, CannotConnect, AuditSession,
       RunSmokePhase, Abort, EmitJson, EmitSarif, ApplyGates, StopServer, AfterServer,
       Done, vars, Leave, CleanupStart
  <2> QED
    BY <1>3, <2>1, <2>2
<1> QED
  BY <1>1, <1>2, <1>3
  DEF Next, RejectUsage, AcceptUsage, AuditPackage, Prepared, Connecting, Connected,
      AuditModernOnly, NoModernTarget, AuditPartial, CannotConnect, AuditSession, RunSmokePhase,
      Abort, EmitJson, EmitSarif, ApplyGates, StopServer, Done, vars

(* The failure that is reported is a gate if any that was recorded is.     *)
LEMMA GateIsReported ==
    ASSUME ConnectionInv, phase = "failed", NEW i \in 1 .. Len(recorded),
           recorded[i].statusOf.status \in {"401", "403"}
    PROVE  SessionGated
<1>1. PICK k \in 1 .. Len(recorded) :
          /\ lastError = recorded[k]
          /\ \A j \in 1 .. Len(recorded) :
                 \/ Client!Rank(recorded[j].reason) < Client!Rank(lastError.reason)
                 \/ Client!Rank(recorded[j].reason) = Client!Rank(lastError.reason) /\ k <= j
  BY DEF ConnectionInv, OutcomeReported, Client!OutcomeReported
<1>2. recorded[i] \in Diagnoses /\ lastError \in Diagnoses
  BY <1>1, ElementOfSeq DEF ConnectionInv, FailuresRecorded
<1>3. recorded[i].reason \in Client!Gate
  BY <1>2 DEF Diagnoses, OneResponse, Client!Gate
<1>4. Client!Rank(recorded[i].reason) = 6
  BY <1>3 DEF Client!Rank, Client!Gate
<1>5. lastError.reason \in Reasons
  BY <1>2 DEF Diagnoses
<1>6. Client!Rank(lastError.reason) >= 6
  <2>1. Client!Rank(lastError.reason) \in Nat
    BY <1>5 DEF Client!Rank, Reasons
  <2> QED
    BY <1>1, <1>4, <2>1
<1>7. lastError.reason \in {"REDIRECTED", "FORBIDDEN", "UNAUTHORIZED"}
  BY <1>5, <1>6 DEF Client!Rank, Reasons
<1>8. lastError.reason # "REDIRECTED"
  BY <1>6 DEF Client!Rank
<1> QED
  BY <1>7, <1>8 DEF SessionGated, Client!Gate

(* A partial audit blames by what was recorded.                            *)
LEMMA PartialBlame ==
    ASSUME IInv, AuditPartial
    PROVE  BlameIsEarned'
<1> DEFINE refusedWith(s) == \E i \in 1 .. Len(recorded) : recorded[i].statusOf.status = s
<1>1. /\ phase = "failed" /\ UNCHANGED <<options, recorded, probed>>
      /\ partial' = [status |-> GateStatus, blame |-> Blame]
      /\ SessionGated \/ probed.gate # "none"
      /\ probed.gate \in {"none", "401", "403"}
  BY DEF IInv, Course, AuditsRun, AuditPartial, clientVars, GateObserved
<1>2. SessionGated =>
          /\ lastError.statusOf.status \in {"401", "403"}
          /\ refusedWith(lastError.statusOf.status)
  <2>1. PICK k \in 1 .. Len(recorded) : lastError = recorded[k]
    BY <1>1 DEF IInv, ConnectionInv, OutcomeReported, Client!OutcomeReported
  <2>2. lastError \in Diagnoses
    BY <2>1, ElementOfSeq DEF IInv, ConnectionInv, FailuresRecorded
  <2> QED
    BY <2>1, <2>2 DEF SessionGated, Client!Gate, Diagnoses, OneResponse
<1>3. ~SessionGated => ~refusedWith("401") /\ ~refusedWith("403")
  BY <1>1, GateIsReported DEF IInv
<1>4. /\ partial'.status \in {"401", "403"}
      /\ refusedWith(partial'.status) \/ probed.gate = partial'.status
  BY <1>1, <1>2 DEF GateStatus
<1>5. partial'.blame = "rejected" => options.credential /\ refusedWith(partial'.status)
  BY <1>1, <1>2 DEF GateStatus, Blame
<1>6. partial'.blame = "not_exercised" => ~refusedWith("401") /\ ~refusedWith("403")
  BY <1>1, <1>3 DEF Blame
<1> QED
  BY <1>1, <1>4, <1>5, <1>6 DEF BlameIsEarned

LEMMA AuditsStep == IInv /\ [Next]_vars => AuditsRun'
<1> SUFFICES ASSUME IInv, [Next]_vars PROVE AuditsRun'
  OBVIOUS
<1> USE DEF IInv, Course, AuditsRun, Before, Reporting, Closing
<1>1. CASE AuditPartial
  <2>1. cli' = "reporting" /\ audit' = "partial" /\ UNCHANGED probed
    BY <1>1 DEF AuditPartial
  <2> QED
    BY <1>1, <2>1, PartialBlame
<1>2. CASE AuditModernOnly
  <2>1. /\ probed'.gate \in {"none", "401", "403"}
        /\ \/ audit' = "modern" /\ cli' = "reporting"
           \/ audit' = "none" /\ cli' = "declined"
    BY <1>2 DEF AuditModernOnly
  <2> QED
    BY <2>1 DEF BlameIsEarned
<1>3. CASE AuditPackage \/ AuditSession
  <2>1. /\ UNCHANGED probed
        /\ \/ audit' = "package" /\ cli' = "reporting"
           \/ audit' = "full" /\ cli' \in {"smoking", "reporting"}
           \/ UNCHANGED audit /\ cli' \in Closing /\ audit = "none"
    BY <1>3 DEF AuditPackage, AuditSession, Leave, CleanupStart
  <2> QED
    BY <2>1 DEF BlameIsEarned
<1>4. CASE Connecting
  <2>1. UNCHANGED <<cli, audit, probed>> /\ audit = "none"
    BY <1>4 DEF Connecting, outcomeVars
  <2> QED
    BY <2>1 DEF BlameIsEarned
<1>5. CASE UNCHANGED <<audit, partial, probed, recorded, options>>
  <2>1. BlameIsEarned'
    BY <1>5 DEF BlameIsEarned
  <2>2. /\ cli' \in Before \cup {"connecting", "fallback", "declined", "auditing"} => audit = "none"
        /\ cli' = "smoking" => audit = "full"
        /\ cli' \in Reporting => audit # "none"
    BY <1>5 DEF Next, RejectUsage, AcceptUsage, AuditPackage, PrepareFixture, Prepared, Connecting,
       Connected, AuditModernOnly, NoModernTarget, AuditPartial, CannotConnect, AuditSession,
       RunSmokePhase, Abort, EmitJson, EmitSarif, ApplyGates, StopServer, AfterServer,
       RemoveFixtures, RemoveFixture, Done, vars, Leave, CleanupStart
  <2> QED
    BY <1>5, <2>1, <2>2
<1> QED
  BY <1>1, <1>2, <1>3, <1>4, <1>5
  DEF Next, RejectUsage, AcceptUsage, PrepareFixture, Prepared, Connected, NoModernTarget,
      CannotConnect, RunSmokePhase, Abort, EmitJson, EmitSarif, ApplyGates, StopServer,
      Client!Cleanup, RemoveFixtures, RemoveFixture, Done, vars, clientVars, outcomeVars

(* The client launches at most one server.                                 *)
LEMMA LaunchesStep == IInv /\ [Next]_vars => Launched'
<1> SUFFICES ASSUME IInv, [Next]_vars PROVE Launched'
  OBVIOUS
<1> USE DEF IInv, Course, Launched, Before
<1>1. CASE Connecting
  <2>1. attempt' = attempt \/ attempt = "none" \/ (attempt = "http" /\ attempt' = "sse")
    BY <1>1 DEF Connecting, Client!Detect, Client!RejectTarget, Client!FirstAttempt,
       Client!SessionEstablished, Client!HandshakeFails, Client!Discard, Client!Classify,
       Client!Recover, Client!CancelRecovery, Client!FallBackToSSE, Client!GiveUp, Client!Enter,
       ConnectionInv, FailuresRecorded
  <2> QED
    BY <1>1, <2>1 DEF Connecting
<1>2. CASE AuditModernOnly
  BY <1>2 DEF AuditModernOnly
<1>3. CASE UNCHANGED <<launches, recorded, attempt>>
  <2>1. cli' \in Before \cup {"connecting", "fallback"} => cli \in Before \cup {"connecting"} \/ cli' = cli
    BY <1>3 DEF Next, RejectUsage, AcceptUsage, AuditPackage, PrepareFixture, Prepared, Connecting,
       Connected, AuditModernOnly, NoModernTarget, AuditPartial, CannotConnect, AuditSession,
       RunSmokePhase, Abort, EmitJson, EmitSarif, ApplyGates, StopServer, AfterServer,
       RemoveFixtures, RemoveFixture, Done, vars, Leave, CleanupStart
  <2> QED
    BY <1>3, <2>1
<1> QED
  BY <1>1, <1>2, <1>3
  DEF Next, RejectUsage, AcceptUsage, AuditPackage, PrepareFixture, Prepared, Connected,
      NoModernTarget, AuditPartial, CannotConnect, AuditSession, RunSmokePhase, Abort, EmitJson,
      EmitSarif, ApplyGates, StopServer, Client!Cleanup, RemoveFixtures, RemoveFixture, Done,
      vars, clientVars

(* The exit code is decided once, after the documents; stopping the server *)
(* can only replace it by the interpreter's.                               *)
LEMMA ExitStep == IInv /\ [Next]_vars => Written' /\ ExitClaims'
<1> SUFFICES ASSUME IInv, [Next]_vars PROVE Written' /\ ExitClaims'
  OBVIOUS
<1> USE DEF IInv, Course, Written, ExitClaims, Before, Reporting, Closing, Running, Raised
<1>1. CASE RejectUsage \/ AcceptUsage \/ PrepareFixture \/ Prepared \/ Connecting \/ Connected
  BY <1>1 DEF RejectUsage, AcceptUsage, PrepareFixture, Prepared, Connecting, Connected, Leave,
     CleanupStart
<1>2. CASE AuditPackage \/ CannotConnect
  BY <1>2 DEF AuditPackage, CannotConnect, AuditsRun, Leave, CleanupStart, outcomeVars
<1>3. CASE AuditModernOnly \/ NoModernTarget \/ AuditPartial \/ AuditSession \/ RunSmokePhase
  BY <1>3 DEF AuditModernOnly, NoModernTarget, AuditPartial, AuditSession, RunSmokePhase
<1>4. CASE Abort
  BY <1>4 DEF Abort, Leave, CleanupStart
<1>5. CASE EmitJson \/ EmitSarif
  BY <1>5 DEF EmitJson, EmitSarif, Leave, CleanupStart, Json, Requested
<1>6. CASE ApplyGates
  <2>1. PICK missed \in SUBSET options.gates :
            /\ Unmeetable \subseteq missed /\ breached' = missed
            /\ exit' = IF missed # {} THEN 3 ELSE IF smoke = "failed" THEN 4 ELSE 0
            /\ cli' \in Closing
    BY <1>6 DEF ApplyGates, Leave, CleanupStart
  <2>2. /\ cli = "gating" /\ UNCHANGED <<options, audit, smoke, documents>>
        /\ audit # "none" /\ documents = Requested /\ Requested' = Requested
    BY <1>6 DEF ApplyGates, outcomeVars, AuditsRun, Requested
  <2>3. missed = {} /\ audit = "partial" => "fail_under" \notin options.gates
    BY <2>1 DEF Unmeetable
  <2> QED
    BY <2>1, <2>2, <2>3
<1>7. CASE StopServer \/ RemoveFixtures
  <2>1. /\ UNCHANGED <<options, audit, smoke, documents, breached>> /\ Requested' = Requested
        /\ cli \in Closing /\ cli' \in Closing
        /\ exit' \in {exit, Raised}
    BY <1>7 DEF StopServer, AfterServer, RemoveFixtures, RemoveFixture, outcomeVars, Requested
  <2> QED
    BY <2>1
<1>8. CASE Done \/ UNCHANGED vars
  BY <1>8 DEF Done, vars, outcomeVars, Requested, Json
<1> QED
  BY <1>1, <1>2, <1>3, <1>4, <1>5, <1>6, <1>7, <1>8 DEF Next

LEMMA RunStep == IInv /\ [Next]_vars => IInv'
BY ConnectionStep, CourseStep, FixturesStep, AuditsStep, LaunchesStep, ExitStep DEF IInv

----------------------------------------------------------------------------
LEMMA Inductive == Spec => []IInv
BY RunInit, RunStep, PTL DEF Spec

(* A reported status, redirect and reason are one response's, of the       *)
(* attempt that the failure diagnoses.                                     *)
THEOREM DiagnosesAreSound == Spec => []DiagnosisFromOneResponse
<1>1. IInv => DiagnosisFromOneResponse
  <2> SUFFICES ASSUME IInv, NEW i \in 1 .. Len(recorded)
               PROVE  OneResponse(recorded[i])
    BY DEF DiagnosisFromOneResponse, Client!DiagnosisFromOneResponse, OneResponse
  <2> QED
    BY ElementOfSeq DEF IInv, ConnectionInv, FailuresRecorded, Diagnoses
<1> QED
  BY <1>1, Inductive, PTL

(* The failure that is left in last_connection_error is the most           *)
(* informative, and none is left by a success.                             *)
THEOREM OutcomeIsReported == Spec => []OutcomeReported
<1>1. IInv => OutcomeReported
  BY DEF IInv, ConnectionInv
<1> QED
  BY <1>1, Inductive, PTL

(* No failed attempt leaves a transport open, and no way out of the run    *)
(* leaves a transport or a fixture.                                        *)
THEOREM NothingIsLeft == Spec => []NothingLeftBehind
<1>1. IInv => NothingLeftBehind
  <2> SUFFICES ASSUME IInv PROVE NothingLeftBehind
    OBVIOUS
  <2>1. Client!NoAttemptLeaks
    BY DEF IInv, ConnectionInv, TransportsHeld, Phases, Client!NoAttemptLeaks
  <2>2. cli = "exited" => open = {} /\ fixtures = {}
    BY DEF IInv, ConnectionInv, TransportsHeld, Course, FixturesHeld, Closing
  <2> QED
    BY <2>1, <2>2 DEF NothingLeftBehind
<1> QED
  BY <1>1, Inductive, PTL

(* No fixture is taken from under a server that runs.                      *)
THEOREM ServerStopsFirst == Spec => FixturesOutliveServer
<1>1. IInv /\ [Next]_vars => [fixtures \ fixtures' # {} => open = {}]_vars
  <2> SUFFICES ASSUME IInv, [Next]_vars, fixtures \ fixtures' # {} PROVE open = {}
    OBVIOUS
  <2>1. RemoveFixtures
    BY DEF Next, RejectUsage, AcceptUsage, AuditPackage, PrepareFixture, Prepared, Connecting,
       Connected, AuditModernOnly, NoModernTarget, AuditPartial, CannotConnect, AuditSession,
       RunSmokePhase, Abort, EmitJson, EmitSarif, ApplyGates, StopServer, Done, vars
  <2> QED
    BY <2>1 DEF RemoveFixtures, RemoveFixture, IInv, Course, Closing, ConnectionInv, TransportsHeld
<1> QED
  BY <1>1, Inductive, PTL DEF Spec, FixturesOutliveServer

(* Credentials are blamed only for an answer to an attempt that had them.  *)
THEOREM BlameIsSound == Spec => []BlameIsEarned
<1>1. IInv => BlameIsEarned
  BY DEF IInv, AuditsRun
<1> QED
  BY <1>1, Inductive, PTL

(* A command is launched with its fixtures and not beside itself, and      *)
(* again only after a handshake that failed, or a spawn that was refused,  *)
(* with nothing to explain it.                                             *)
THEOREM LaunchIsNeeded == Spec => RelaunchOnlyIfUnexplained
<1>1. ASSUME IInv, Connecting, launches' > launches
      PROVE  open = {} /\ fixtures = options.fixtures /\ launches = 0
  <2>1. cli = "connecting" /\ attempt' = "stdio" /\ attempt # "stdio" /\ Client!Detect
    BY <1>1 DEF Connecting, IInv, Launched
  <2>2. Client!FirstAttempt
    BY <2>1 DEF Client!Detect, Client!RejectTarget, Client!FirstAttempt,
       Client!SessionEstablished, Client!HandshakeFails, Client!Discard, Client!Classify,
       Client!Recover, Client!CancelRecovery, Client!FallBackToSSE, Client!GiveUp, Client!Enter
  <2>3. open = {}
    BY <1>1, <2>2 DEF Client!FirstAttempt, IInv, ConnectionInv, TransportsHeld
  <2> QED
    BY <1>1, <2>1, <2>3 DEF IInv, FixturesHeld, Launched
<1>2. ASSUME IInv, AuditModernOnly, launches' > launches
      PROVE  /\ open = {} /\ fixtures = options.fixtures
             /\ launches > 0 => raised.kind \in {"exception", "spawn_error"}
  <2>1. /\ cli = "fallback" /\ phase = "failed" /\ target # "url" /\ StdioFallbackAllowed
        /\ launches = IF attempt = "stdio" THEN 1 ELSE 0
    BY <1>2 DEF AuditModernOnly, HasModernTarget, IInv, Course, Launched
  <2>2. lastError.reason = "UNKNOWN"
    <3>1. PICK k \in 1 .. Len(recorded) : lastError = recorded[k]
      BY <1>2, <2>1 DEF IInv, ConnectionInv, OutcomeReported, Client!OutcomeReported
    <3>2. lastError \in Diagnoses
      BY <1>2, <3>1, ElementOfSeq DEF IInv, ConnectionInv, FailuresRecorded
    <3>3. lastError # Client!NoFailure
      BY <3>2 DEF Diagnoses, Reasons, Client!NoFailure
    <3> QED
      BY <2>1, <3>3 DEF StdioFallbackAllowed
  <2>3. open = {} /\ fixtures = options.fixtures
    BY <1>2, <2>1 DEF IInv, ConnectionInv, TransportsHeld, FixturesHeld
  <2>4. launches > 0 => attempt = "stdio"
    BY <2>1
  <2> QED
    BY <1>2, <2>1, <2>2, <2>3, <2>4 DEF IInv, ConnectionInv, UnknownIsUnexplained
<1>3. ASSUME IInv, [Next]_vars, launches' > launches
      PROVE  Connecting \/ AuditModernOnly
  <2>1. launches' # launches
    BY <1>3 DEF IInv, Launched
  <2> QED
    BY <1>3, <2>1 DEF Next, RejectUsage, AcceptUsage, AuditPackage, PrepareFixture, Prepared, Connected,
       NoModernTarget, AuditPartial, CannotConnect, AuditSession, RunSmokePhase, Abort, EmitJson,
       EmitSarif, ApplyGates, StopServer, RemoveFixtures, RemoveFixture, Done, vars
<1>4. IInv /\ [Next]_vars =>
          [launches' > launches =>
               /\ open = {}
               /\ fixtures = options.fixtures
               /\ launches > 0 => raised.kind \in {"exception", "spawn_error"}]_vars
  BY <1>1, <1>2, <1>3
<1> QED
  BY <1>4, Inductive, PTL DEF Spec, RelaunchOnlyIfUnexplained

(* The exit code means what the documentation says of it.                  *)
THEOREM ExitCodeIsTrue == Spec => []ExitCodeTells
<1>1. IInv => ExitCodeTells
  BY DEF IInv, ExitClaims, ExitCodeTells
<1> QED
  BY <1>1, Inductive, PTL

===============================================================================
