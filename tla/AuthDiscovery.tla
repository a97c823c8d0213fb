---------------------------- MODULE AuthDiscovery ----------------------------
(***************************************************************************)
(* The chain run_auth_discovery of probes.py: the unauthenticated request, *)
(* the protected-resource metadata its challenge may name, the metadata of *)
(* the authorization server that one lists, and the request with an        *)
(* invalid token; and what the rules of rules/auth.py make of it.  The     *)
(* chain is one function of its exchanges, as in SessionProbes.            *)
(***************************************************************************)
EXTENDS SessionProbes

CONSTANTS
    WellKnown,          \* _well_known_urls of the target, a sequence
    IssuerLocations     \* _auth_server_metadata_urls of an issuer, a sequence

\* The challenge names no metadata, a location of its own, one that is no URL,
\* or the first of the well-known locations.
References == {"reference", "unfetchable", "wellKnown"}

Unauth(log)  == AnswerTo(log, "anonymousList")
Challenge(log) == IF Raised(Unauth(log)) THEN "" ELSE Unauth(log).challenge
AsksToken(log) == Raised(Unauth(log)) \/ Gated(Unauth(log))

\* Where the host of a location was found to be (_discovery_url_refusal); the
\* first well-known location is the target's own and never refused.
Refusal(log, resolution) ==
  IF HasAsked(log, resolution) THEN AnswerTo(log, resolution).challenge ELSE ""

\* The location of the challenge, if it may be fetched.
ChallengeLocation(log) ==
  CASE Challenge(log) = "wellKnown" -> WellKnown[1]
    [] Challenge(log) = "reference" /\ Refusal(log, "resolveChallenge") = "" -> "reference"
    [] OTHER -> ""

Candidates(log) ==
  (IF ChallengeLocation(log) = "reference" THEN <<"reference">> ELSE <<>>) \o WellKnown

HasDocument(a) == ~Raised(a) /\ a.status = 200 /\ "resource" \in a.has

\* The first location that served the metadata, or "".
FoundAt(log) ==
  LET at(i) == Candidates(log)[i]
      found == {i \in DOMAIN Candidates(log) : HasAsked(log, at(i)) /\ HasDocument(AnswerTo(log, at(i)))}
  IN  IF found = {} THEN "" ELSE FirstAt(Candidates(log), found)
Document(log) == AnswerTo(log, FoundAt(log)).has
Reached(log)  == \E c \in ToSet(Candidates(log)) : HasAsked(log, c) /\ ~Raised(AnswerTo(log, c))

\* The outcome of _probe_auth_metadata, once its requests are done: that no
\* location could be contacted is not that none publishes anything.
MetadataOutcome_UnreachedIsAbsent(log) == IF FoundAt(log) # "" THEN "supported" ELSE "unsupported"
MetadataOutcome(log) ==
  IF FoundAt(log) # "" THEN "supported" ELSE IF Reached(log) THEN "unsupported" ELSE "error"

\* What the authorization server published (_fetch_auth_server_metadata): the
\* first location whose document names the issuer.
IssuerFound(log) ==
  LET a(i) == AnswerTo(log, IssuerLocations[i])
      found == {i \in DOMAIN IssuerLocations :
                  HasAsked(log, IssuerLocations[i]) /\ ~Raised(a(i)) /\ "issuer" \in a(i).has}
  IN  IF found = {} THEN "" ELSE FirstAt(IssuerLocations, found)
IssuerHas(log, member) == IssuerFound(log) # "" /\ member \in AnswerTo(log, IssuerFound(log)).has

\* The next location of a walk, or "".
Untried(log, locations) ==
  LET rest == {i \in DOMAIN locations : ~HasAsked(log, locations[i])}
  IN  IF rest = {} THEN "" ELSE FirstAt(locations, rest)

\* The metadata probe, then the invalid token if the server asks for one.
MetadataStep(log) ==
  IF Challenge(log) = "reference" /\ ~HasAsked(log, "resolveChallenge")
  THEN Ask("resolveChallenge")
  ELSE IF FoundAt(log) = "" /\ Untried(log, Candidates(log)) # ""
  THEN Ask(Untried(log, Candidates(log)))
  ELSE IF FoundAt(log) # "" /\ "servers" \in Document(log) /\ ~HasAsked(log, "resolveIssuer")
  THEN Ask("resolveIssuer")
  ELSE IF /\ HasAsked(log, "resolveIssuer") /\ Refusal(log, "resolveIssuer") = ""
          /\ IssuerFound(log) = "" /\ Untried(log, IssuerLocations) # ""
  THEN Ask(Untried(log, IssuerLocations))
  ELSE Done(MetadataOutcome(log))

AuthDiscovery(log) ==
  IF log = <<>> THEN Ask("anonymousList")
  ELSE IF HasAsked(log, "badTokenList") THEN InvalidToken(log)
  ELSE IF MetadataStep(log).ask # "" THEN MetadataStep(log)
  ELSE IF AsksToken(log) THEN InvalidToken(<<>>)
  ELSE NotApplicable

-----------------------------------------------------------------------------
(* The rules.  A verdict is "pass", "fail", or why there is none.          *)

Verdict(passed) == IF passed THEN "pass" ELSE "fail"

\* AuthPostureBaseRule: an open server has no posture to judge.
Posture(log, verdict) ==
  IF Raised(Unauth(log)) THEN "insufficient"
  ELSE IF ~Gated(Unauth(log)) THEN "not_applicable" ELSE verdict

\* ... of which the rules on the metadata need it (required_probe_ids, AuthMetadataBaseRule).
NeedsMetadata(log, verdict) ==
  IF Raised(Unauth(log)) \/ MetadataOutcome(log) = "error" THEN "insufficient"
  ELSE Posture(log, verdict)
OnMetadata(log, verdict) ==
  NeedsMetadata(log, IF FoundAt(log) = "" THEN "insufficient" ELSE verdict)
OnIssuer(log, verdict) ==
  OnMetadata(log, IF IssuerFound(log) = "" THEN "insufficient" ELSE verdict)

WwwAuthenticate(log) == Posture(log, Verdict(Challenge(log) # ""))
ProtectedResourceMetadata(log) ==
  NeedsMetadata(log, Verdict(FoundAt(log) # "" /\ "matches" \in Document(log)))
AuthorizationServersHttps(log) ==
  OnMetadata(log, Verdict({"servers", "httpsServers"} \subseteq Document(log)))
MetadataHttps(log) == OnMetadata(log, Verdict("https" \in Document(log)))
ScopesAdvertised(log) == OnMetadata(log, Verdict("scopes" \in Document(log)))
ServerMetadataPresent(log) ==
  OnMetadata(log, IF HasAsked(log, "resolveIssuer") THEN Verdict(IssuerHas(log, "endpoints"))
                  ELSE "insufficient")
ServerPkce(log) == OnIssuer(log, Verdict(IssuerHas(log, "S256")))
ClientRegistrationAdvertised(log) ==
  OnIssuer(log, Verdict(IssuerHas(log, "cimd") \/ IssuerHas(log, "registration")))
IssParameterSupported(log) == OnIssuer(log, Verdict(IssuerHas(log, "iss")))

\* Whether the session's version requires the reference (_challenge_param_required).
\* A reference whose fetch never completed is not judged.
ChallengeReferencesMetadata(log, required) ==
  LET location == ChallengeLocation(log)
      fetched == HasAsked(log, location)
      a == AnswerTo(log, location)
  IN  Posture(log,
        IF Challenge(log) = "" THEN "insufficient"
        ELSE IF Challenge(log) \notin References
        THEN IF Unauth(log).status = 401 /\ required THEN "fail" ELSE "not_applicable"
        ELSE IF Refusal(log, "resolveChallenge") = "timeout" \/ (fetched /\ Raised(a) /\ a.raised # "invalid")
        THEN "insufficient"
        ELSE Verdict(fetched /\ HasDocument(a)))

InvalidTokenRejected(log) ==
  LET outcome == InvalidToken(log).outcome
  IN  IF ~AsksToken(log) THEN "not_applicable"
      ELSE IF outcome \in {"error", "not_applicable"} \/ Raised(Unauth(log)) THEN "insufficient"
      ELSE Verdict(outcome = "supported")

\* AuthTokenNotInQueryRule: a URL without a credential has nothing to judge, one
\* whose credential made no difference that could be seen has no evidence.
TokenNotInQuery(log, outcome, credential) ==
  IF outcome = "error" THEN "insufficient"
  ELSE IF outcome = "not_applicable" THEN IF credential THEN "insufficient" ELSE "not_applicable"
  ELSE Verdict(outcome = "supported")
=============================================================================
