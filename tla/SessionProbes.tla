---------------------------- MODULE SessionProbes ----------------------------
(***************************************************************************)
(* The probes of probes.py whose subject is access or a legacy session.    *)
(* They send several requests, of which an initialize may mint a session   *)
(* at the server.  `close` of a step says that the session of the last     *)
(* handshake is ended first (end_session: a DELETE whose failure is        *)
(* ignored).  Requests in ClosedOnFailure end a session themselves when    *)
(* the server answered with one and the body then failed.                  *)
(***************************************************************************)
EXTENDS ProbeAnswers

CONSTANTS
    Addresses           \* the non-loopback addresses of the host, a sequence

Handshakes == {"badTokenInit", "anonymousInit", "queryInit", "strippedInit", "controlInit",
               "spoofedInit", "replayInit", "initialize"}
ClosedOnFailure_NotControls == Handshakes \ {"controlInit", "replayInit", "spoofedInit"}
ClosedOnFailure == Handshakes

\* A client error that is about the request: it may not know the method.
PlainRefusal(a) == a.status \in 400..499 /\ ~Inconclusive(a)

\* The invalid token is sent on a stateless request and then, if the server
\* does not know those, on an initialize: its answer counts only against that
\* of the same request without a token (_judge_served_initialize).
InvalidToken(log) ==
  IF log = <<>> THEN Ask("badTokenList")
  ELSE IF Raised(Heard(log)) THEN Failed
  ELSE LET a == Heard(log) IN
  ClosingThen(
    IF Asked(log) = "anonymousInit"
    THEN IF TokenRefused(a) THEN Unsupported ELSE NotApplicable
    ELSE IF TokenRefused(a) THEN Supported
    ELSE IF Ok(a)
    THEN IF Asked(log) = "badTokenInit" THEN Ask("anonymousInit") ELSE Unsupported
    ELSE IF ~Redirect(a) /\ PlainRefusal(a) /\ Asked(log) = "badTokenList"
    THEN Ask("badTokenInit")
    ELSE NotApplicable)

\* The same request with the credential of the URL's query and without it.
QueryCredential(log) ==
  LET a == Heard(log)
      given == log[Len(log) - 1].ans
      served(x) == Ok(x) /\ x.body = "result"
      plain == PlainRefusal(given) /\ ~TokenRefused(given) /\ PlainRefusal(a)
  IN  IF log = <<>> THEN Ask("queryList")
      ELSE IF Raised(a) THEN Failed
      ELSE ClosingThen(
        IF Asked(log) = "queryList" THEN Ask("strippedList")
        ELSE IF Asked(log) = "queryInit" THEN Ask("strippedInit")
        ELSE IF served(given) /\ TokenRefused(a) THEN Unsupported
        ELSE IF Asked(log) = "strippedList" /\ served(given) /\ served(a) THEN Supported
        ELSE IF Asked(log) = "strippedList" /\ plain THEN Ask("queryInit")
        ELSE NotApplicable)

-----------------------------------------------------------------------------
(* A request the server accepts, to be repeated with one header spoofed.   *)

\* Whether an accepted control was found, or what ends the probe without one.
\* `next` is what follows once it was (_accepted_control).
WithControl_NeverRefused(log, next) ==
  LET a == Heard(log)
      init == HasAsked(log, "controlInit")
      member == IF init THEN "protocolVersion" ELSE "supportedVersions"
      ended(step) == IF init THEN ClosingThen(step) ELSE step
  IN  IF Raised(a) \/ a.unread # "" THEN ended(Failed)
      ELSE IF ~init /\ ~Gated(a) /\ ~(Ok(a) /\ Serves(a, member)) THEN Ask("controlInit")
      ELSE IF Gated(a) THEN ended(NotApplicable)
      ELSE ended(next)

WithControl(log, next) ==
  LET a == Heard(log)
      init == HasAsked(log, "controlInit")
      member == IF init THEN "protocolVersion" ELSE "supportedVersions"
      ended(step) == IF init THEN ClosingThen(step) ELSE step
  IN  IF Raised(a) \/ a.unread # "" THEN ended(Failed)
      ELSE IF ~init /\ ~Gated(a) /\ ~(Ok(a) /\ Serves(a, member)) THEN Ask("controlInit")
      ELSE IF Gated(a) \/ ~(Ok(a) /\ Serves(a, member)) THEN ended(NotApplicable)
      ELSE ended(next)

\* The spoofed request has the shape of the control, whose session is over by then.
Spoof(log, modern) == Ask(IF HasAsked(log, "controlInit") THEN "spoofedInit" ELSE modern)

OriginValidation(log) ==
  IF log = <<>> THEN Ask("control")
  ELSE IF Asked(log) \in {"control", "controlInit"} THEN WithControl(log, Spoof(log, "spoofed"))
  ELSE IF Raised(Heard(log)) THEN Failed
  ELSE ClosingThen(Judged(Heard(log).status = 403))

HostValidation_RateLimitIsRefusal(log) ==
  IF log = <<>> THEN Ask("control")
  ELSE IF Asked(log) \in {"control", "controlInit"} THEN WithControl(log, Spoof(log, "spoofed"))
  ELSE IF Raised(Heard(log)) THEN Failed
  ELSE ClosingThen(Judged(Heard(log).status \in 400..499))

HostValidation(log) ==
  IF log = <<>> THEN Ask("control")
  ELSE IF Asked(log) \in {"control", "controlInit"} THEN WithControl(log, Spoof(log, "spoofed"))
  ELSE IF Raised(Heard(log)) THEN Failed
  ELSE ClosingThen(IF Inconclusive(Heard(log)) THEN Failed
                   ELSE Judged(Heard(log).status \in 400..499))

\* What the same request came to at another address of the host (_replay_control).
\* An exception after a status was seen, or a body that was not read, is
\* inconclusive; a refused connection is a closed port.
Replay(a, member) ==
  IF Raised(a) THEN IF a.status # NoStatus THEN "inconclusive"
                    ELSE IF a.raised = "refused" THEN "closed" ELSE "unknown"
  ELSE IF Ok(a) /\ Serves(a, member) THEN "served"
  ELSE IF Inconclusive(a) \/ a.unread # "" THEN "inconclusive"
  ELSE "refused"

\* Every address in turn; one that serves fails, one that is not known forbids a pass.
LocalBind(log) ==
  LET init == HasAsked(log, "controlInit")
      member == IF init THEN "protocolVersion" ELSE "supportedVersions"
      replay == IF init THEN "replayInit" ELSE "replay"
      replays == PlacesOf(log, replay)
      seen == {Replay(log[i].ans, member) : i \in replays}
  IN  IF log = <<>> THEN IF Addresses = <<>> THEN NotApplicable ELSE Ask("control")
      ELSE IF Asked(log) \in {"control", "controlInit"} THEN WithControl(log, Ask(replay))
      ELSE ClosingThen(IF Cardinality(replays) < Len(Addresses) THEN Ask(replay)
                       ELSE IF "served" \in seen THEN Unsupported
                       ELSE IF seen \cap {"inconclusive", "unknown"} # {} THEN Failed
                       ELSE Supported)

-----------------------------------------------------------------------------
(* A legacy session: initialize, then the initialized notification.        *)

Handshake(a) == Ok(a) /\ Serves(a, "protocolVersion")

\* The handshake as far as it goes; `then` with a session, `else` without one.
\* A session that was opened and not used is ended (_open_legacy_session,
\* _incomplete_handshake).
InSession(log, then, else) ==
  LET a == Heard(log)
  IN  IF log = <<>> THEN Ask("initialize")
      ELSE IF Raised(a) THEN IF Asked(log) = "initialize" THEN Failed ELSE ClosingThen(Failed)
      ELSE IF Asked(log) = "initialize"
           THEN IF Handshake(a) THEN Ask("initialized") ELSE ClosingThen(else)
      ELSE IF Asked(log) = "initialized" /\ ~Ok(a) THEN ClosingThen(NotApplicable)
      ELSE then

\* No session and no evidence that another shape would be judged fairly.
Unavailable(a) == Gated(a) \/ a.unread # ""

\* A session without an id cannot be gone (_session_gone).
HasId(log) == AnswerTo(log, "initialize").session

NotificationOutcome(a) ==
  IF Redirect(a) \/ (a.status = 202 /\ a.unread # "") THEN NotApplicable
  ELSE IF a.status = 202 THEN Judged(a.body = "none")
  ELSE Judged(a.status >= 400)

\* Here the notification of the handshake is the one that is judged.
NotificationAccepted(log) ==
  LET a == Heard(log)
  IN  IF log = <<>> THEN Ask("initialize")
      ELSE IF Raised(a) THEN IF Asked(log) = "initialized" THEN ClosingThen(Failed) ELSE Failed
      ELSE IF Asked(log) = "initialize"
           THEN IF Handshake(a) THEN Ask("initialized")
                ELSE ClosingThen(IF Unavailable(a) THEN NotApplicable ELSE Ask("notification"))
      ELSE IF Asked(log) = "initialized" THEN ClosingThen(NotificationOutcome(a))
      ELSE IF Gated(a) THEN NotApplicable ELSE NotificationOutcome(a)

\* The answer to a request whose method is a number (_judge_invalid_answer).
JudgeInvalidAnswer(a) ==
  IF Gated(a) \/ Redirect(a) THEN NotApplicable
  ELSE IF a.unread # ""
  THEN IF a.status >= 400 THEN Judged(a.status < 500) ELSE NotApplicable
  ELSE Judged(a.body # "result" /\ a.status < 500 /\ (a.body = "error" \/ a.status >= 400))

\* The valid request shows that the shape is served; a time-out counts only if
\* the valid request is served again, a 404 only if the session is still there.
InvalidRequest(log) ==
  LET a == Heard(log)
      session == HasAsked(log, "initialized")
      continue ==
        CASE Asked(log) \in {"initialize", "initialized"} -> Ask("validRequest")
          [] Asked(log) = "validRequest" ->
               IF Gated(a) \/ a.body # "result" THEN ClosingThen(NotApplicable)
               ELSE Ask("invalidRequest")
          [] Asked(log) = "invalidRequest" ->
               IF session /\ a.status = 404 /\ HasId(log) THEN Ask("ping")
               ELSE ClosingThen(JudgeInvalidAnswer(a))
          [] Asked(log) = "validAgain" ->
               ClosingThen(IF a.body = "result" THEN Unsupported ELSE Failed)
          [] Asked(log) = "ping" ->
               ClosingThen(IF a.status = 404 THEN NotApplicable
                           ELSE JudgeInvalidAnswer(AnswerTo(log, "invalidRequest")))
  IN  IF log # <<>> /\ a.raised = "timeout" /\ Asked(log) = "invalidRequest"
      THEN Ask("validAgain")
      ELSE InSession(log, continue, IF Unavailable(a) THEN NotApplicable ELSE continue)

GetStream(log) ==
  LET a == Heard(log)
      judge(x) == IF Gated(x) \/ Redirect(x) THEN NotApplicable
                  ELSE Judged(x.status = 405 \/ (Ok(x) /\ "stream" \in x.has))
      continue ==
        CASE Asked(log) = "initialized" -> Ask("openStream")
          [] Asked(log) = "openStream" ->
               IF a.status = 404 /\ HasId(log) THEN Ask("ping") ELSE ClosingThen(judge(a))
          [] Asked(log) = "ping" ->
               ClosingThen(IF a.status = 404 THEN NotApplicable
                           ELSE judge(AnswerTo(log, "openStream")))
  IN  InSession(log, continue, NotApplicable)

JudgeAfterDelete(a) ==
  IF \/ Gated(a) \/ Redirect(a)
     \/ a.unread # "" /\ Ok(a)
     \/ a.body = "result"
  THEN NotApplicable
  ELSE Judged(a.status = 404)

\* The probe's own DELETE ends the session: it is ended again only where that
\* is not known to have worked (`closed` of _observe_session_delete).
SessionDelete(log) ==
  LET a == Heard(log)
      continue ==
        CASE Asked(log) = "initialized" -> IF HasId(log) THEN Ask("delete") ELSE NotApplicable
          [] Asked(log) = "delete" ->
               IF Gated(a) \/ Redirect(a) THEN ClosingThen(NotApplicable)
               ELSE IF a.status = 405 THEN Supported
               ELSE IF a.status = 404 THEN Ask("ping")
               ELSE IF ~Ok(a) THEN ClosingThen(Unsupported)
               ELSE Ask("afterDelete")
          [] Asked(log) = "ping" ->
               IF a.status = 404 THEN NotApplicable ELSE ClosingThen(Unsupported)
          [] Asked(log) = "afterDelete" ->
               IF a.status = 404 THEN JudgeAfterDelete(a) ELSE ClosingThen(JudgeAfterDelete(a))
  IN  InSession(log, continue, NotApplicable)
=============================================================================
