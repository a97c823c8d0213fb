------------------------------ MODULE ProbeRules ------------------------------
(***************************************************************************)
(* What the rules make of the probes: rules/readiness.py, transport.py,    *)
(* pagination.py, catalog_stability.py, security.py and                    *)
(* protocol_version.py, as far as they judge by a probe.  A rule           *)
(* passes, fails, or is skipped for a reason; it reads the result of its   *)
(* own probe and `seen`, what else the audit knows:                        *)
(*   discover, list  the results of the gateway probes                     *)
(*   session         the version a session negotiated, NoVersion without   *)
(*   newest          the newest version that server/discover listed        *)
(*   target          the transport of the audit                            *)
(*   capabilities    what the server declared, Undeclared if not known     *)
(* A result is the outcome of a probe and its exchanges.                   *)
(***************************************************************************)
EXTENDS RequestProbes

CONSTANTS
    Latest,             \* spec.LATEST, as a number that orders the versions
    ForbiddenFrom       \* the first version to ask for a 403 (FORBIDDEN_REQUIRED_FROM)

NoVersion == 0
Undeclared == {"undeclared"}

Rated(passed) == IF passed THEN "pass" ELSE "fail"
Passes(result) == Rated(result.outcome = "supported")
ToldBy(result) == Heard(result.log)

\* A result that does not tell: the probe was not run, failed, or does not apply.
SkipOf(result) ==
  IF result.outcome = "not_applicable" THEN "not_applicable"
  ELSE IF result.outcome \in {"none", "error"} THEN "insufficient" ELSE ""

Unless(skip, verdict) == IF skip # "" THEN skip ELSE verdict

-----------------------------------------------------------------------------
(* Which lifecycles a server has.                                          *)

\* has_modern_support: a legacy server may answer a stateless list as well,
\* but only a modern one adds a member of the modern result.
HasModernSupport(discover, list) ==
  \/ discover.outcome = "supported"
  \/ /\ list.outcome = "supported"
     /\ ToldBy(list).has \cap {"complete", "ttl", "scope"} # {}

Modern(seen) == HasModernSupport(seen.discover, seen.list)
Gateways(seen) == {seen.discover, seen.list}
Observed(seen) == \E g \in Gateways(seen) : SkipOf(g) = ""

\* detect_era; `unknown` is the result of the unknown-version probe.
DetectEra(seen, unknown) ==
  LET modern == \/ Modern(seen)
                \/ unknown.outcome = "supported"
                \/ unknown.log # <<>> /\ ToldBy(unknown).code = "unsupported_version"
      legacy == seen.session # NoVersion
  IN  IF modern /\ legacy THEN "dual" ELSE IF modern THEN "modern"
      ELSE IF legacy THEN "legacy" ELSE "unknown"

-----------------------------------------------------------------------------
(* Readiness.  Most rules are their probe's outcome, for a server with     *)
(* modern support (ProbeBackedReadinessRule).                              *)

Backed(result, seen) ==
  Unless(SkipOf(result),
    IF Modern(seen) THEN Passes(result) ELSE "requires_modern")

\* The two gateways are what modern support is seen by.
ServerDiscover(result)   == Unless(SkipOf(result), Passes(result))
StatelessRequest(result) == Unless(SkipOf(result), Passes(result))

\* A legacy lifecycle, where a session is negotiated, permits what these forbid.
BackedIfModernOnly(result, seen) ==
  LET verdict == Backed(result, seen)
  IN  IF verdict \in {"pass", "fail"} /\ seen.session # NoVersion THEN "not_applicable" ELSE verdict

MetaValidation(result, seen)      == Backed(result, seen)
HeaderValidation(result, seen)    == Backed(result, seen)
UnknownMethodError(result, seen)  == Backed(result, seen)
UnsupportedVersionError(result, seen) == Backed(result, seen)
NoSessionId(result, seen)         == Backed(result, seen)
RemovedMethods(result, seen)      == Backed(result, seen)
HeaderRequirement(result, seen)   == Backed(result, seen)
MissingProtocolVersionHeader(result, seen) == BackedIfModernOnly(result, seen)
NoGetStream(result, seen)         == BackedIfModernOnly(result, seen)

SupportedVersions(result, seen) ==
  LET verdict == Backed(result, seen)
  IN  IF verdict = "fail" THEN "insufficient"
      ELSE IF verdict = "pass" THEN Rated("versions" \in ToldBy(result).has) ELSE verdict

ErrorCodeMigration(result, seen) ==
  LET verdict == Backed(result, seen)
  IN  IF verdict \in {"pass", "fail"} /\ seen.capabilities # Undeclared
         /\ "resources" \notin seen.capabilities
      THEN "not_applicable" ELSE verdict

\* Rules on every gateway that answered.
OnGateways(seen, Good(_)) ==
  IF ~Observed(seen) THEN "insufficient"
  ELSE IF ~Modern(seen) THEN "requires_modern"
  ELSE Rated(\A g \in Gateways(seen) : g.outcome = "supported" => Good(ToldBy(g).has))

CacheMetadata(seen) == LET G(has) == {"ttl", "scope"} \subseteq has IN OnGateways(seen, G)
ResultType(seen)    == LET G(has) == "complete" \in has IN OnGateways(seen, G)
ResponseContentType(seen) ==
  LET G(has) == has \cap {"json", "stream"} # {}
  IN  IF seen.target = "stdio" THEN "not_applicable" ELSE OnGateways(seen, G)

-----------------------------------------------------------------------------
(* The other groups.                                                       *)

StreamableHTTPTransport(target) ==
  CASE target = "stdio" -> "not_applicable" [] target = "" -> "insufficient"
    [] OTHER -> Rated(target = "http")

\* _TransportProbeRule, of which the four are instances.
TransportProbe(result, seen) ==
  IF seen.target \in {"stdio", "sse"} THEN "not_applicable" ELSE Unless(SkipOf(result), Passes(result))

NotificationRule(result, seen)   == TransportProbe(result, seen)
InvalidRequestRule(result, seen) == TransportProbe(result, seen)
GetStreamRule(result, seen)      == TransportProbe(result, seen)
SessionDeleteRule(result, seen)  == TransportProbe(result, seen)

\* The code of the refusal is judged only where there was one that could be read.
InvalidRequestErrorCode(result, seen) ==
  LET a == AnswerTo(result.log, "invalidRequest")
      modernShape == ~HasAsked(result.log, "initialized")
  IN  IF TransportProbe(result, seen) # "pass"
      THEN IF TransportProbe(result, seen) = "fail" THEN "not_applicable" ELSE TransportProbe(result, seen)
      ELSE IF a.unread # "" THEN "insufficient"
      ELSE Rated(a.code = "invalid_request" \/ (modernShape /\ a.code = "header_mismatch"))

\* The cursor of a listing that the server does not have is nothing to judge.
InvalidCursorRejected(result, surface, seen) ==
  IF seen.capabilities = Undeclared THEN "insufficient"
  ELSE IF surface \notin seen.capabilities THEN "not_applicable"
  ELSE Unless(SkipOf(result), Passes(result))

PaginationCacheScopeConsistent(result) == Unless(SkipOf(result), Passes(result))
CatalogConnectionIndependent(result)   == Unless(SkipOf(result), Passes(result))

\* The version of the audit is that of the session.  An audit without one takes it
\* from the gateway probes, if they saw modern support: the newest that discover
\* listed, or the latest where it listed none (_populate_from_probe_payloads).
ProtocolVersion(seen) ==
  IF seen.session # NoVersion THEN seen.session
  ELSE IF ~Modern(seen) THEN NoVersion
  ELSE IF seen.discover.outcome = "supported" /\ "versions" \in ToldBy(seen.discover).has
       THEN seen.newest ELSE Latest

\* rules/security.py.  Before ForbiddenFrom any refusal of a foreign origin would do,
\* unless the request was a modern one.
MalformedRequestHandling(result, seen) ==
  IF seen.target = "stdio" THEN "insufficient" ELSE Unless(SkipOf(result), Passes(result))
LocalExposure(result, seen) ==
  IF seen.target = "stdio" THEN "not_applicable" ELSE Unless(SkipOf(result), Passes(result))

RequiresForbidden(result, seen) ==
  \/ ~HasAsked(result.log, "controlInit")
  \/ ProtocolVersion(seen) = NoVersion
  \/ ProtocolVersion(seen) >= ForbiddenFrom
OriginHeaderValidation(result, seen) ==
  IF seen.target = "stdio" THEN "not_applicable"
  ELSE Unless(SkipOf(result),
         IF RequiresForbidden(result, seen) THEN Passes(result)
         ELSE Rated(ToldBy(result).status \in 400..499))

\* A session may negotiate an older version with a server that has the latest.
LatestVersion(seen) ==
  IF ProtocolVersion(seen) = NoVersion THEN "insufficient"
  ELSE IF ProtocolVersion(seen) >= Latest THEN "pass"
  ELSE IF ~Observed(seen) THEN "insufficient"
  ELSE Rated(Modern(seen))

SupportedVersionsIncludeNegotiated(seen) ==
  IF seen.session = NoVersion THEN "not_applicable"
  ELSE IF seen.discover.outcome = "error" THEN "insufficient"
  ELSE IF seen.discover.outcome # "supported" THEN "not_applicable"
  ELSE Rated("negotiated" \in ToldBy(seen.discover).has)
=============================================================================
