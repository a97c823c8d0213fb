------------------------------- MODULE Probing -------------------------------
(***************************************************************************)
(* run_all_probes of probes.py over HTTP, one probe of it in full: its     *)
(* requests, whatever the server answers to each, the sessions it leaves   *)
(* at the server, its outcome, and the verdicts of the rules on it.  The   *)
(* probes share nothing but the server, whose answers are free, so that    *)
(* the others are represented by the results of the gateway probes, which  *)
(* are free as well.  The three probes of authorization discovery depend   *)
(* on one another and are one probe here, "auth".                          *)
(***************************************************************************)
EXTENDS ProbeRules, AuthDiscovery, ProbeServers, FiniteSets

CONSTANTS
    Subjects            \* the probes to consider

VARIABLES
    queue,              \* the probes still to run, the current one first
    log,                \* the exchanges of the current probe
    live,               \* handshakes of the log whose session was not ended
    results,            \* the results of the probes that are done
    seen                \* what the rules know besides, once the probe is done

NotRun   == [outcome |-> "none", log |-> <<>>]
Unjudged == [discover |-> NotRun, list |-> NotRun, session |-> NoVersion,
             newest |-> NoVersion, target |-> "", capabilities |-> Undeclared]

ProbeIds ==
  {"discover", "list", "malformedMeta", "headerMismatch", "noVersion", "noMethod", "nameMismatch",
   "getStreamRemoved", "unknownVersion", "missingResource", "toolsCursor", "templatesCursor",
   "sessionEcho", "removedMethod", "unknownMethod", "malformedJson", "pagination", "comparison",
   "origin", "host", "localBind", "notification", "invalidRequest", "getStream", "sessionDelete",
   "queryCredential", "auth"}

\* A host has any number of addresses, a target one or two locations, an issuer two or three.
ASSUME ProbingAssumption ==
  /\ Subjects \subseteq ProbeIds
  /\ Surfaces \in Seq(Lists) /\ MaxPages \in Nat \ {0}
  /\ Addresses \in Seq(STRING)
  /\ WellKnown \in Seq(ResourcePlaces) \ {<<>>} /\ IssuerLocations \in Seq(IssuerPlaces)
  /\ Latest \in Nat /\ ForbiddenFrom \in Nat

\* The probe of an id, with the HTTP or the transport-agnostic ones (_HTTP_PROBES).
Probe(id, exchanges) ==
  CASE id = "discover"        -> Discover(exchanges)
    [] id = "list"            -> StatelessList(exchanges)
    [] id = "malformedMeta"   -> MalformedMeta(exchanges)
    [] id = "headerMismatch"  -> HeaderMismatch(exchanges)
    [] id = "noVersion"       -> MissingProtocolVersion(exchanges)
    [] id = "noMethod"        -> MissingMethodHeader(exchanges)
    [] id = "nameMismatch"    -> NameHeaderMismatch(exchanges)
    [] id = "getStreamRemoved" -> GetStreamRemoved(exchanges)
    [] id = "unknownVersion"  -> UnknownVersion(exchanges)
    [] id = "missingResource" -> MissingResource(exchanges)
    [] id = "toolsCursor"     -> InvalidCursor(exchanges, "tools")
    [] id = "templatesCursor" -> InvalidCursor(exchanges, "templates")
    [] id = "sessionEcho"     -> SessionIdEcho(exchanges)
    [] id = "removedMethod"   -> RemovedMethod(exchanges)
    [] id = "unknownMethod"   -> UnknownMethod(exchanges)
    [] id = "malformedJson"   -> MalformedJson(exchanges)
    [] id = "pagination"      -> PaginationCacheScope(exchanges)
    [] id = "comparison"      -> CatalogConnectionIndependence(exchanges)
    [] id = "origin"          -> OriginValidation(exchanges)
    [] id = "host"            -> HostValidation(exchanges)
    [] id = "localBind"       -> LocalBind(exchanges)
    [] id = "notification"    -> NotificationAccepted(exchanges)
    [] id = "invalidRequest"  -> InvalidRequest(exchanges)
    [] id = "getStream"       -> GetStream(exchanges)
    [] id = "sessionDelete"   -> SessionDelete(exchanges)
    [] id = "queryCredential" -> QueryCredential(exchanges)
    [] id = "auth"            -> AuthDiscovery(exchanges)

Step == Probe(Head(queue), log)
Exchange(request, answer) == Append(log, [req |-> request, ans |-> answer])

-----------------------------------------------------------------------------
(* Sessions at the server.                                                 *)

\* A request opens a session when the server mints one for it; a body that then
\* fails is answered by the client's own DELETE if the request is one of those
\* that do so.  The DELETE of a probe counts as an end, whatever its answer.
Opens(request, answer) ==
  request \in Handshakes /\ answer.session /\ ~(Raised(answer) /\ request \in ClosedOnFailure)

\* end_session is of the last handshake.
LastHandshake == {i \in DOMAIN log : log[i].req \in Handshakes
                    /\ \A j \in DOMAIN log : j > i => log[j].req \notin Handshakes}
Ended(step) == IF step.close \/ step.ask = "delete" THEN LastHandshake ELSE {}

Request ==
  /\ queue # <<>> /\ Step.ask # ""
  /\ \E answer \in Answers(Step.ask) :
       /\ log' = Exchange(Step.ask, answer)
       /\ live' = (live \ Ended(Step)) \cup (IF Opens(Step.ask, answer) THEN {Len(log) + 1} ELSE {})
  /\ UNCHANGED <<queue, results, seen>>

\* Probes whose rules ask for modern support, for the transport, for capabilities.
ForModern == {"discover", "list", "malformedMeta", "headerMismatch", "noVersion", "noMethod",
              "nameMismatch", "getStreamRemoved", "unknownVersion", "missingResource",
              "sessionEcho", "removedMethod", "unknownMethod"}
ForTransport    == {"notification", "invalidRequest", "getStream", "sessionDelete"}
ForCapabilities == {"missingResource", "toolsCursor", "templatesCursor"}

\* The results the gateway probes may have when a third is judged: the modern
\* answers, a legacy server's stateless list, refusals and failures.
GatewayLog(request, answer) == <<[req |-> request, ans |-> answer]>>
ResultOf(id, exchanges) == [outcome |-> Probe(id, exchanges).outcome, log |-> exchanges]
GatewayResults(id) ==
  {ResultOf(id, GatewayLog(id, a)) :
     a \in {Result(200, Members(id)), Result(200, {"tools", "supportedVersions"}), Raises("timeout"),
            Error(404, "method_not_found")}}

\* What a rule of the probe reads of it.  The version of the audit is read by the
\* rules on discover and on the foreign origin.
ForVersion == {"discover", "origin"}
Contexts(id, result) ==
  [discover : IF id = "discover" THEN {result}
              ELSE IF id \in ForModern \cup ForVersion THEN GatewayResults("discover") ELSE {NotRun},
   list : IF id = "list" THEN {result} ELSE IF id \in ForModern THEN GatewayResults("list") ELSE {NotRun},
   session : IF id \in ForModern \cup ForVersion THEN {NoVersion, ForbiddenFrom - 1, Latest} ELSE {NoVersion},
   newest : IF id \in ForVersion THEN {ForbiddenFrom - 1, Latest} ELSE {NoVersion},
   target : IF id \in ForTransport THEN {"http", "sse"} ELSE {"http"},
   capabilities : IF id \in ForCapabilities THEN {Undeclared, {"tools"}, {"tools", "resources", "logging"}}
                  ELSE {Undeclared}]

\* run_one records the result; nothing of it depends on the other probes.
Conclude ==
  /\ queue # <<>> /\ Step.ask = ""
  /\ LET result == [outcome |-> Step.outcome, log |-> log]
     IN  /\ results' = [id \in {Head(queue)} |-> result]
         /\ seen' \in Contexts(Head(queue), result)
  /\ live' = live \ Ended(Step)
  /\ queue' = Tail(queue)
  /\ log' = <<>>

-----------------------------------------------------------------------------
(* The verdicts on the probe that was run.                                 *)

Verdicts(id) ==
  LET r == results[id]
      chain == r.log
  IN  CASE id = "discover" -> {ServerDiscover(r), SupportedVersions(r, seen), CacheMetadata(seen),
                               ResultType(seen), ResponseContentType(seen), LatestVersion(seen),
                               SupportedVersionsIncludeNegotiated(seen), StreamableHTTPTransport(seen.target)}
        [] id = "list" -> {StatelessRequest(r), CacheMetadata(seen), ResultType(seen),
                           ResponseContentType(seen)}
        [] id = "malformedMeta"  -> {MetaValidation(r, seen)}
        [] id = "headerMismatch" -> {HeaderValidation(r, seen)}
        [] id = "noVersion"      -> {MissingProtocolVersionHeader(r, seen)}
        [] id \in {"noMethod", "nameMismatch"} -> {HeaderRequirement(r, seen)}
        [] id = "getStreamRemoved" -> {NoGetStream(r, seen)}
        [] id = "unknownVersion" -> {UnsupportedVersionError(r, seen)}
        [] id = "missingResource" -> {ErrorCodeMigration(r, seen)}
        [] id = "toolsCursor"    -> {InvalidCursorRejected(r, "tools", seen)}
        [] id = "templatesCursor" -> {InvalidCursorRejected(r, "resources", seen)}
        [] id = "sessionEcho"    -> {NoSessionId(r, seen)}
        [] id = "removedMethod"  -> {RemovedMethods(r, seen)}
        [] id = "unknownMethod"  -> {UnknownMethodError(r, seen)}
        [] id = "pagination"     -> {PaginationCacheScopeConsistent(r)}
        [] id = "comparison"     -> {CatalogConnectionIndependent(r)}
        [] id = "notification"   -> {NotificationRule(r, seen)}
        [] id = "invalidRequest" -> {InvalidRequestRule(r, seen), InvalidRequestErrorCode(r, seen)}
        [] id = "getStream"      -> {GetStreamRule(r, seen)}
        [] id = "sessionDelete"  -> {SessionDeleteRule(r, seen)}
        [] id = "queryCredential" -> {TokenNotInQuery(chain, r.outcome, TRUE)}
        [] id = "auth" -> {WwwAuthenticate(chain), ProtectedResourceMetadata(chain),
                           AuthorizationServersHttps(chain), MetadataHttps(chain),
                           ScopesAdvertised(chain), ServerMetadataPresent(chain), ServerPkce(chain),
                           ClientRegistrationAdvertised(chain), IssParameterSupported(chain),
                           ChallengeReferencesMetadata(chain, TRUE), InvalidTokenRejected(chain)}
        [] id = "malformedJson"  -> {MalformedRequestHandling(r, seen)}
        [] id = "origin"         -> {OriginHeaderValidation(r, seen)}
        [] id \in {"host", "localBind"} -> {LocalExposure(r, seen)}

Judging == {id \in DOMAIN results : queue = <<>> /\ id \in Subjects /\ results[id].log # <<>>}
Fails(id)  == "fail" \in Verdicts(id)
Exchanges(id) == ToSet(results[id].log)

\* The rules on the gateways read both.
Told(id) ==
  Exchanges(id) \cup
    (IF id \in {"discover", "list"} THEN UNION {ToSet(g.log) : g \in Gateways(seen)} ELSE {})

-----------------------------------------------------------------------------
\* Every session that a probe's handshake opened at the server was asked to end
\* by the time the probe is done, on every way out of it (end_session,
\* close_session_on_failure).
SessionsEnded == \A id \in DOMAIN results : live = {}

\* A server that conforms, on a network that may fail, is never failed by a rule
\* on a probe, whatever else was seen of it (ProbeOutcome: a network failure
\* becomes ERROR "so dependent rules can degrade" instead of failing it).  Only an
\* invalid request that hangs between two served ones is a failure of the server.
ConformingIsNotBlamed ==
  \A id \in Judging \ {"auth", "queryCredential"} :
    (\A e \in Told(id) : e.ans \in Right(e.req) \/ (Raised(e.ans) /\ e.req # "invalidRequest")) => ~Fails(id)

\* Blame needs evidence.  A refusal is a failure only beside a request of the same
\* shape that was served, since the server may otherwise refuse the caller, or not
\* know the method; the acceptance of an invalid token, only if a request without
\* a token fares differently; missing metadata, only if one of its locations
\* answered ("an unreachable host is unverified, not proof that the server
\* publishes no metadata", _probe_auth_metadata); a breach of what only a modern
\* server promises, only if the server is one, or both (detect_era).
Accepted(e) == Ok(e.ans) /\ e.ans.body = "result"
Controls(id) ==
  CASE id \in {"origin", "host", "localBind"} -> {"control", "controlInit"}
    [] id = "invalidRequest" -> {"validRequest"}
    [] id \in {"getStream", "sessionDelete"} -> {"initialize"}
    [] id = "queryCredential" -> {"queryList", "queryInit"}
    [] OTHER -> {}
BlameNeedsEvidence ==
  \A id \in Judging :
    /\ Controls(id) # {} /\ Fails(id) => \E e \in Exchanges(id) : e.req \in Controls(id) /\ Accepted(e)
    /\ id = "auth" /\ InvalidTokenRejected(results[id].log) = "fail" =>
         \/ \E e \in Exchanges(id) : e.req = "badTokenList" /\ Ok(e.ans)
         \/ \E e \in Exchanges(id) : e.req = "anonymousInit" /\ TokenRefused(e.ans)
    /\ id = "auth" /\ ProtectedResourceMetadata(results[id].log) = "fail" =>
         \E e \in Exchanges(id) : e.req \in ToSet(WellKnown) \cup {"reference"} /\ ~Raised(e.ans)
    /\ id \in ForModern \ {"discover", "list"} /\ Fails(id) =>
         DetectEra(seen, IF id = "unknownVersion" THEN results[id] ELSE NotRun) \in {"modern", "dual"}

\* Where a server is credited with a refusal, it refused: each request that it
\* must refuse was turned down as such, and not by a server that was busy, by a
\* redirect, or by no answer.  At another address of the host, what does not
\* serve the request is another program; but one that was busy, or whose answer
\* was not read, is not known to be (the docstrings of the security probes).  An
\* audit at an old version is credited with any 4xx to a foreign origin.
TurnedDown(a) ==
  \/ a.raised = "refused"
  \/ ~Raised(a) /\ a.body # "result" /\ a.status \in 400..499 /\ ~Inconclusive(a)
NotServed(a) == a.raised \in {"", "refused"} /\ ~Inconclusive(a) /\ a.unread = ""
PassIsARefusal ==
  \A id \in Judging \cap {"origin", "host", "localBind", "auth", "malformedMeta", "headerMismatch",
                          "noMethod", "nameMismatch", "removedMethod", "unknownMethod"} :
    LET credited == IF id = "auth" THEN InvalidTokenRejected(results[id].log) = "pass"
                    ELSE "pass" \in Verdicts(id)
                         /\ (id = "origin" => RequiresForbidden(results[id], seen))
        refused(a) == IF id = "localBind" THEN NotServed(a) ELSE TurnedDown(a)
    IN  credited => \A e \in Exchanges(id) : MustRefuse(e.req) => refused(e.ans)

\* A server that only ever conforms or answers that it is busy is not failed.
BusyIsNoEvidence ==
  \A id \in Judging \ {"auth", "queryCredential"} :
    (\A e \in Told(id) : e.ans \in Busy \cup Right(e.req)) => ~Fails(id)
=============================================================================
