---------------------------- MODULE ProbingProofs ----------------------------
(***************************************************************************)
(* What the probes guarantee for every number of addresses, locations and  *)
(* surfaces.  The argument is the same for each: a log that a probe can    *)
(* have had is one in which each request is what the probe asked after the *)
(* exchanges before it, and each answer one that the server may give       *)
(* (Ran).  What a probe concludes from a log is then found by walking back *)
(* from its last exchange to the one that was asked for before it.         *)
(***************************************************************************)
EXTENDS StdioProbing, TLAPS, FiniteSetTheorems, WellFoundedInduction

(* The requests of each probe. *)
Requests(id) ==
  CASE id \in {"discover", "list", "malformedMeta", "headerMismatch", "noVersion", "noMethod",
               "unknownVersion", "missingResource", "sessionEcho", "removedMethod",
               "unknownMethod"} -> {id}
    [] id = "nameMismatch"     -> {"nameControl", "nameMismatch"}
    [] id = "getStreamRemoved" -> {"getStream"}
    [] id \in {"toolsCursor", "templatesCursor"} -> {"badCursor"}
    [] id = "malformedJson"    -> {"jsonControl", "brokenJson"}
    [] id = "pagination"       -> {"discoverSurfaces"} \cup Lists
    [] id = "comparison"       -> {"discoverFirst", "discoverSecond", "first", "second"}
    [] id \in {"origin", "host"} -> {"control", "controlInit", "spoofed", "spoofedInit"}
    [] id = "localBind"        -> {"control", "controlInit", "replay", "replayInit"}
    [] id = "notification"     -> {"initialize", "initialized", "notification"}
    [] id = "invalidRequest"   -> {"initialize", "initialized", "validRequest", "invalidRequest",
                                   "validAgain", "ping"}
    [] id = "getStream"        -> {"initialize", "initialized", "openStream", "ping"}
    [] id = "sessionDelete"    -> {"initialize", "initialized", "delete", "afterDelete", "ping"}
    [] id = "queryCredential"  -> {"queryList", "strippedList", "queryInit", "strippedInit"}
    [] id = "auth"             -> AuthRequests

----------------------------------------------------------------------------
(* Sequences and numbers.                                                  *)

LEMMA SmallestInSet ==
    ASSUME NEW S \in SUBSET Nat, S # {}
    PROVE  Min(S) \in S /\ \A j \in S : Min(S) <= j
<1>1. \E i \in S : \A j \in S : <<j, i>> \notin OpToRel(<, Nat)
  BY NatLessThanWellFounded, WFMin, Zenon
<1>2. ASSUME NEW i \in S, NEW j \in S, j < i PROVE <<j, i>> \in OpToRel(<, Nat)
  <2>1. <<j, i>> \in Nat \X Nat /\ <<j, i>>[1] < <<j, i>>[2]
    BY <1>2
  <2> QED
    BY <2>1, Zenon DEF OpToRel
<1>3. \A i, j \in S : ~(j < i) => i <= j
  OBVIOUS
<1>4. \E i \in S : \A j \in S : i <= j
  BY <1>1, <1>2, <1>3, Zenon
<1> QED
  BY <1>4, Zenon DEF Min

(* The first of some places of a sequence is one of its elements. *)
LEMMA FirstIsThere ==
    ASSUME NEW s, NEW P \in SUBSET DOMAIN s, DOMAIN s \subseteq Nat, P # {}
    PROVE  /\ Min(P) \in P
           /\ FirstAt(s, P) = s[Min(P)]
           /\ FirstAt(s, P) \in ToSet(s)
<1>1. P \in SUBSET Nat
  OBVIOUS
<1>2. Min(P) \in P
  BY <1>1, SmallestInSet
<1>3. FirstAt(s, P) = s[Min(P)] /\ Min(P) \in DOMAIN s
  BY <1>2 DEF FirstAt
<1>4. s[Min(P)] \in ToSet(s)
  BY <1>3 DEF ToSet
<1> QED
  BY <1>2, <1>3, <1>4

----------------------------------------------------------------------------
(* Each probe asks its own requests.                                       *)

LEMMA ProbeOf ==
    ASSUME NEW l
    PROVE  /\ Probe("discover", l) = Discover(l)
           /\ Probe("list", l) = StatelessList(l)
           /\ Probe("malformedMeta", l) = MalformedMeta(l)
           /\ Probe("headerMismatch", l) = HeaderMismatch(l)
           /\ Probe("noVersion", l) = MissingProtocolVersion(l)
           /\ Probe("noMethod", l) = MissingMethodHeader(l)
           /\ Probe("nameMismatch", l) = NameHeaderMismatch(l)
           /\ Probe("getStreamRemoved", l) = GetStreamRemoved(l)
           /\ Probe("unknownVersion", l) = UnknownVersion(l)
           /\ Probe("missingResource", l) = MissingResource(l)
           /\ Probe("toolsCursor", l) = InvalidCursor(l, "tools")
           /\ Probe("templatesCursor", l) = InvalidCursor(l, "templates")
           /\ Probe("sessionEcho", l) = SessionIdEcho(l)
           /\ Probe("removedMethod", l) = RemovedMethod(l)
           /\ Probe("unknownMethod", l) = UnknownMethod(l)
           /\ Probe("malformedJson", l) = MalformedJson(l)
           /\ Probe("pagination", l) = PaginationCacheScope(l)
           /\ Probe("comparison", l) = CatalogConnectionIndependence(l)
           /\ Probe("origin", l) = OriginValidation(l)
           /\ Probe("host", l) = HostValidation(l)
           /\ Probe("localBind", l) = LocalBind(l)
           /\ Probe("notification", l) = NotificationAccepted(l)
           /\ Probe("invalidRequest", l) = InvalidRequest(l)
           /\ Probe("getStream", l) = GetStream(l)
           /\ Probe("sessionDelete", l) = SessionDelete(l)
           /\ Probe("queryCredential", l) = QueryCredential(l)
           /\ Probe("auth", l) = AuthDiscovery(l)
  BY DEF Probe

(* What a probe does next, read. *)
LEMMA StepFields ==
    /\ \A r : Ask(r).ask = r /\ Ask(r).outcome = "" /\ ~Ask(r).close
    /\ Supported.ask = "" /\ Supported.outcome = "supported" /\ ~Supported.close
    /\ Unsupported.ask = "" /\ Unsupported.outcome = "unsupported" /\ ~Unsupported.close
    /\ Failed.ask = "" /\ Failed.outcome = "error" /\ ~Failed.close
    /\ NotApplicable.ask = "" /\ NotApplicable.outcome = "not_applicable" /\ ~NotApplicable.close
  BY DEF Failed, NotApplicable, Supported, Unsupported, Done, Ask

(* A probe of one request asks it and is done. *)
OneRequestIds ==
  {"discover", "list", "malformedMeta", "headerMismatch", "noVersion", "noMethod",
   "getStreamRemoved", "unknownVersion", "missingResource", "toolsCursor", "templatesCursor",
   "sessionEcho", "removedMethod", "unknownMethod"}
Only(id) ==
  CASE id = "getStreamRemoved" -> "getStream"
    [] id \in {"toolsCursor", "templatesCursor"} -> "badCursor"
    [] OTHER -> id

LEMMA OneRequestAsks ==
    ASSUME NEW l, NEW id \in OneRequestIds
    PROVE  Probe(id, l).ask = (IF l = <<>> THEN Only(id) ELSE "") /\ ~Probe(id, l).close
<1>1. CASE id = "discover"
  BY <1>1 DEF Probe, Only, Discover, OneRequest,
     Failed, NotApplicable, Judged, Supported, Unsupported, Done, Ask
<1>2. CASE id = "list"
  BY <1>2 DEF Probe, Only, StatelessList, OneRequest,
     Failed, NotApplicable, Judged, Supported, Unsupported, Done, Ask
<1>3. CASE id = "malformedMeta"
  BY <1>3 DEF Probe, Only, MalformedMeta, OneRequest,
     Failed, NotApplicable, Judged, Supported, Unsupported, Done, Ask
<1>4. CASE id = "headerMismatch"
  BY <1>4 DEF Probe, Only, HeaderMismatch, OneRequest,
     Failed, NotApplicable, Judged, Supported, Unsupported, Done, Ask
<1>5. CASE id = "noVersion"
  BY <1>5 DEF Probe, Only, MissingProtocolVersion, HeaderValidationResult, OneRequest,
     Failed, NotApplicable, Judged, Supported, Unsupported, Done, Ask
<1>6. CASE id = "noMethod"
  BY <1>6 DEF Probe, Only, MissingMethodHeader, HeaderValidationResult, OneRequest,
     Failed, NotApplicable, Judged, Supported, Unsupported, Done, Ask
<1>7. CASE id = "getStreamRemoved"
  BY <1>7 DEF Probe, Only, GetStreamRemoved, OneRequest,
     Failed, NotApplicable, Judged, Supported, Unsupported, Done, Ask
<1>8. CASE id = "unknownVersion"
  BY <1>8 DEF Probe, Only, UnknownVersion, OneRequest,
     Failed, NotApplicable, Judged, Supported, Unsupported, Done, Ask
<1>9. CASE id = "missingResource"
  BY <1>9 DEF Probe, Only, MissingResource, OneRequest,
     Failed, NotApplicable, Judged, Supported, Unsupported, Done, Ask
<1>10. CASE id = "toolsCursor"
  BY <1>10 DEF Probe, Only, InvalidCursor, OneRequest,
     Failed, NotApplicable, Judged, Supported, Unsupported, Done, Ask
<1>11. CASE id = "templatesCursor"
  BY <1>11 DEF Probe, Only, InvalidCursor, OneRequest,
     Failed, NotApplicable, Judged, Supported, Unsupported, Done, Ask
<1>12. CASE id = "sessionEcho"
  BY <1>12 DEF Probe, Only, SessionIdEcho, OneRequest,
     Failed, NotApplicable, Judged, Supported, Unsupported, Done, Ask
<1>13. CASE id = "removedMethod"
  BY <1>13 DEF Probe, Only, RemovedMethod, OneRequest,
     Failed, NotApplicable, Judged, Supported, Unsupported, Done, Ask
<1>14. CASE id = "unknownMethod"
  BY <1>14 DEF Probe, Only, UnknownMethod, OneRequest,
     Failed, NotApplicable, Judged, Supported, Unsupported, Done, Ask
<1> QED
  BY <1>1, <1>2, <1>3, <1>4, <1>5, <1>6, <1>7, <1>8, <1>9, <1>10, <1>11, <1>12, <1>13, <1>14
     DEF OneRequestIds

LEMMA NameHeaderMismatchAsks ==
    ASSUME NEW l
    PROVE  NameHeaderMismatch(l).ask \in {"nameControl", "nameMismatch", ""}
  BY DEF NameHeaderMismatch, HeaderValidationResult,
     Failed, NotApplicable, Judged, Supported, Unsupported, Done, Ask

LEMMA MalformedJsonAsks ==
    ASSUME NEW l
    PROVE  MalformedJson(l).ask \in {"jsonControl", "brokenJson", ""}
  BY DEF MalformedJson,
     Failed, NotApplicable, Judged, Supported, Unsupported, Done, Ask

LEMMA ComparisonAsks ==
    ASSUME NEW l
    PROVE  CatalogConnectionIndependence(l).ask \in {"discoverFirst", "discoverSecond", "first", "second", ""}
  BY DEF CatalogConnectionIndependence,
     Failed, NotApplicable, Judged, Supported, Unsupported, Done, Ask

LEMMA PaginationAsks ==
    ASSUME NEW l
    PROVE  PaginationCacheScope(l).ask \in {"discoverSurfaces", ""} \cup Lists
<1> DEFINE open == {i \in DOMAIN Surfaces : Surfaces[i] \in Declared(l) /\ Walked(l, Surfaces[i]) = "walking"}
<1>1. ASSUME open # {} PROVE FirstAt(Surfaces, open) \in Lists
  <2>1. Surfaces \in Seq(Lists) /\ DOMAIN Surfaces \subseteq Nat /\ open \subseteq DOMAIN Surfaces
    BY ProbingAssumption
  <2>2. FirstAt(Surfaces, open) = Surfaces[Min(open)] /\ Min(open) \in open
    BY <1>1, <2>1, FirstIsThere
  <2> QED
    BY <2>1, <2>2
<1>2. PaginationCacheScope(l) =
        (IF l = <<>> THEN Ask("discoverSurfaces")
         ELSE IF Raised(Heard(l)) THEN Failed
         ELSE IF Declared(l) = {} THEN NotApplicable
         ELSE IF open # {} THEN Ask(FirstAt(Surfaces, open))
         ELSE IF \E s \in Declared(l) : PagesDisagree(l, s) THEN Unsupported
         ELSE IF \E s \in Declared(l) : Walked(l, s) = "partial" THEN Failed
         ELSE IF \A s \in Declared(l) : Pages(l, s) < 2 \/ Walked(l, s) = "absent"
              THEN NotApplicable
         ELSE Supported)
  BY DEF PaginationCacheScope
<1> HIDE DEF open
<1> QED
  <2>1. \/ PaginationCacheScope(l) \in
              {Ask("discoverSurfaces"), Failed, NotApplicable, Supported, Unsupported}
        \/ open # {} /\ PaginationCacheScope(l) = Ask(FirstAt(Surfaces, open))
    BY <1>2
  <2>2. ASSUME open # {}, PaginationCacheScope(l) = Ask(FirstAt(Surfaces, open))
        PROVE  PaginationCacheScope(l).ask \in Lists
    BY <1>1, <2>2, StepFields
  <2>3. ASSUME PaginationCacheScope(l) \in
                  {Ask("discoverSurfaces"), Failed, NotApplicable, Supported, Unsupported}
        PROVE  PaginationCacheScope(l).ask \in {"discoverSurfaces", ""}
    BY <2>3, StepFields
  <2> QED
    BY <2>1, <2>2, <2>3

LEMMA OriginAsks ==
    ASSUME NEW l
    PROVE  OriginValidation(l).ask \in {"control", "controlInit", "spoofed", "spoofedInit", ""}
  BY DEF OriginValidation, WithControl, Spoof, ClosingThen,
     Failed, NotApplicable, Judged, Supported, Unsupported, Done, Ask

LEMMA HostAsks ==
    ASSUME NEW l
    PROVE  HostValidation(l).ask \in {"control", "controlInit", "spoofed", "spoofedInit", ""}
  BY DEF HostValidation, WithControl, Spoof, ClosingThen,
     Failed, NotApplicable, Judged, Supported, Unsupported, Done, Ask

LEMMA LocalBindAsks ==
    ASSUME NEW l
    PROVE  LocalBind(l).ask \in {"control", "controlInit", "replay", "replayInit", ""}
  BY DEF LocalBind, WithControl, ClosingThen,
     Failed, NotApplicable, Judged, Supported, Unsupported, Done, Ask

LEMMA NotificationAsks ==
    ASSUME NEW l
    PROVE  NotificationAccepted(l).ask \in {"initialize", "initialized", "notification", ""}
  BY DEF NotificationAccepted, NotificationOutcome, ClosingThen,
     Failed, NotApplicable, Judged, Supported, Unsupported, Done, Ask

LEMMA InvalidRequestAsks ==
    ASSUME NEW l, \/ l = <<>>
                  \/ Asked(l) \in {"initialize", "initialized", "validRequest", "invalidRequest",
                                   "validAgain", "ping"}
    PROVE  InvalidRequest(l).ask \in {"initialize", "initialized", "validRequest", "invalidRequest",
                                      "validAgain", "ping", ""}
<1>0. CASE l = <<>>
  BY <1>0 DEF InvalidRequest, InSession, JudgeInvalidAnswer, ClosingThen,
     Failed, NotApplicable, Judged, Supported, Unsupported, Done, Ask
<1>1. CASE l # <<>> /\ Asked(l) = "initialize"
  BY <1>1 DEF InvalidRequest, InSession, JudgeInvalidAnswer, ClosingThen,
     Failed, NotApplicable, Judged, Supported, Unsupported, Done, Ask
<1>2. CASE l # <<>> /\ Asked(l) = "initialized"
  BY <1>2 DEF InvalidRequest, InSession, JudgeInvalidAnswer, ClosingThen,
     Failed, NotApplicable, Judged, Supported, Unsupported, Done, Ask
<1>3. CASE l # <<>> /\ Asked(l) = "validRequest"
  BY <1>3 DEF InvalidRequest, InSession, JudgeInvalidAnswer, ClosingThen,
     Failed, NotApplicable, Judged, Supported, Unsupported, Done, Ask
<1>4. CASE l # <<>> /\ Asked(l) = "invalidRequest"
  BY <1>4 DEF InvalidRequest, InSession, JudgeInvalidAnswer, ClosingThen,
     Failed, NotApplicable, Judged, Supported, Unsupported, Done, Ask
<1>5. CASE l # <<>> /\ Asked(l) = "validAgain"
  BY <1>5 DEF InvalidRequest, InSession, JudgeInvalidAnswer, ClosingThen,
     Failed, NotApplicable, Judged, Supported, Unsupported, Done, Ask
<1>6. CASE l # <<>> /\ Asked(l) = "ping"
  BY <1>6 DEF InvalidRequest, InSession, JudgeInvalidAnswer, ClosingThen,
     Failed, NotApplicable, Judged, Supported, Unsupported, Done, Ask
<1> QED
  BY <1>0, <1>1, <1>2, <1>3, <1>4, <1>5, <1>6

LEMMA GetStreamAsks ==
    ASSUME NEW l, l = <<>> \/ Asked(l) \in {"initialize", "initialized", "openStream", "ping"}
    PROVE  GetStream(l).ask \in {"initialize", "initialized", "openStream", "ping", ""}
  BY DEF GetStream, InSession, ClosingThen,
     Failed, NotApplicable, Judged, Supported, Unsupported, Done, Ask

LEMMA SessionDeleteAsks ==
    ASSUME NEW l, l = <<>> \/ Asked(l) \in {"initialize", "initialized", "delete", "afterDelete", "ping"}
    PROVE  SessionDelete(l).ask \in {"initialize", "initialized", "delete", "afterDelete", "ping", ""}
  BY DEF SessionDelete, InSession, JudgeAfterDelete, ClosingThen,
     Failed, NotApplicable, Judged, Supported, Unsupported, Done, Ask

LEMMA QueryAsks ==
    ASSUME NEW l
    PROVE  QueryCredential(l).ask \in {"queryList", "strippedList", "queryInit", "strippedInit", ""}
  BY DEF QueryCredential, ClosingThen,
     Failed, NotApplicable, Judged, Supported, Unsupported, Done, Ask

LEMMA InvalidTokenAsks ==
    ASSUME NEW l
    PROVE  InvalidToken(l).ask \in {"badTokenList", "badTokenInit", "anonymousInit", ""}
  BY DEF InvalidToken, ClosingThen,
     Failed, NotApplicable, Judged, Supported, Unsupported, Done, Ask

LEMMA UntriedIsOfWalk ==
    ASSUME NEW l, NEW S, NEW places \in Seq(S)
    PROVE  Untried(l, places) \in S \cup {""}
<1> DEFINE rest == {i \in DOMAIN places : ~HasAsked(l, places[i])}
<1>1. Untried(l, places) = IF rest = {} THEN "" ELSE FirstAt(places, rest)
  BY DEF Untried
<1>2. ASSUME rest # {} PROVE FirstAt(places, rest) \in S
  <2>1. DOMAIN places \subseteq Nat /\ rest \subseteq DOMAIN places
    OBVIOUS
  <2>2. FirstAt(places, rest) = places[Min(rest)] /\ Min(rest) \in rest
    BY <1>2, <2>1, FirstIsThere
  <2> QED
    BY <2>1, <2>2
<1> HIDE DEF rest
<1> QED
  BY <1>1, <1>2

LEMMA CandidatesAre ==
    ASSUME NEW l
    PROVE  /\ Candidates(l) \in Seq({"reference"} \cup ResourcePlaces)
           /\ ToSet(Candidates(l)) \subseteq {"reference"} \cup ToSet(WellKnown)
<1> DEFINE S == {"reference"} \cup ResourcePlaces
           own == IF ChallengeLocation(l) = "reference" THEN <<"reference">> ELSE <<>>
<1>1. own \in Seq(S) /\ WellKnown \in Seq(S)
  <2>1. <<>> \in Seq(S) /\ <<"reference">> \in Seq(S) /\ Seq(ResourcePlaces) \subseteq Seq(S)
    OBVIOUS
  <2> QED
    BY <2>1, ProbingAssumption
<1>2. \A i \in DOMAIN own : own[i] = "reference"
  OBVIOUS
<1>3. Candidates(l) = own \o WellKnown
  BY DEF Candidates
<1> HIDE DEF own, S
<1>4. Candidates(l) \in Seq(S)
  BY <1>1, <1>3
<1>5. \A i \in DOMAIN Candidates(l) : Candidates(l)[i] \in {"reference"} \cup ToSet(WellKnown)
  <2>1. /\ Len(own) \in Nat /\ Len(WellKnown) \in Nat
        /\ DOMAIN own = 1 .. Len(own) /\ DOMAIN WellKnown = 1 .. Len(WellKnown)
    BY <1>1
  <2>2. /\ DOMAIN Candidates(l) = 1 .. Len(own) + Len(WellKnown)
        /\ \A i \in 1 .. Len(own) : Candidates(l)[i] = own[i]
        /\ \A i \in Len(own) + 1 .. Len(own) + Len(WellKnown) :
              Candidates(l)[i] = WellKnown[i - Len(own)] /\ i - Len(own) \in 1 .. Len(WellKnown)
    BY <1>1, <1>3, <2>1
  <2>3. \A k \in 1 .. Len(WellKnown) : WellKnown[k] \in ToSet(WellKnown)
    BY <2>1 DEF ToSet
  <2>4. \A i \in 1 .. Len(own) + Len(WellKnown) :
          i \in 1 .. Len(own) \/ i \in Len(own) + 1 .. Len(own) + Len(WellKnown)
    BY <2>1
  <2> QED
    BY <1>2, <2>1, <2>2, <2>3, <2>4
<1> QED
  BY <1>4, <1>5 DEF S, ToSet

LEMMA MetadataAsks ==
    ASSUME NEW l
    PROVE  /\ MetadataStep(l).ask \in {"resolveChallenge", "resolveIssuer", "reference", ""}
                                         \cup ResourcePlaces \cup IssuerPlaces
           /\ ~MetadataStep(l).close
<1>1. Untried(l, Candidates(l)) \in {"reference", ""} \cup ResourcePlaces
  BY CandidatesAre, UntriedIsOfWalk
<1>2. Untried(l, IssuerLocations) \in {""} \cup IssuerPlaces
  BY ProbingAssumption, UntriedIsOfWalk
<1> DEFINE S == {"resolveChallenge", "resolveIssuer", "reference", ""}
                  \cup ResourcePlaces \cup IssuerPlaces
<1>3. \A r \in S : Ask(r).ask \in S /\ ~Ask(r).close
  BY StepFields
<1>4. \A outcome : Done(outcome).ask \in S /\ ~Done(outcome).close
  BY DEF Done
<1>5. Untried(l, Candidates(l)) \in S /\ Untried(l, IssuerLocations) \in S
      /\ "resolveChallenge" \in S /\ "resolveIssuer" \in S
  BY <1>1, <1>2
<1> HIDE DEF S
<1>6. MetadataStep(l).ask \in S /\ ~MetadataStep(l).close
  BY <1>3, <1>4, <1>5 DEF MetadataStep
<1> QED
  BY <1>6 DEF S

LEMMA AuthAsks ==
    ASSUME NEW l
    PROVE  AuthDiscovery(l).ask \in AuthRequests \cup {""}
<1>1. AuthDiscovery(l) \in {Ask("anonymousList"), InvalidToken(l), MetadataStep(l), InvalidToken(<<>>),
                            NotApplicable}
  BY DEF AuthDiscovery
<1>2. InvalidToken(l).ask \in AuthRequests \cup {""} /\ InvalidToken(<<>>).ask \in AuthRequests \cup {""}
  BY InvalidTokenAsks DEF AuthRequests
<1>3. MetadataStep(l).ask \in AuthRequests \cup {""}
  BY MetadataAsks DEF AuthRequests
<1>4. Ask("anonymousList").ask \in AuthRequests /\ NotApplicable.ask = ""
  BY StepFields DEF AuthRequests
<1> QED
  BY <1>1, <1>2, <1>3, <1>4

(* The requests of a log are the probe's own. *)
Entries(id) == [req : Requests(id), ans : UNION {Answers(r) : r \in Requests(id)}]

LEMMA AsksItsOwn ==
    ASSUME NEW id \in ProbeIds, NEW l \in Seq(Entries(id))
    PROVE  Probe(id, l).ask \in Requests(id) \cup {""}
<1>1. l = <<>> \/ Asked(l) \in Requests(id)
  <2>1. l # <<>> => Len(l) \in 1 .. Len(l) /\ l[Len(l)] \in Entries(id)
    OBVIOUS
  <2> QED
    BY <2>1 DEF Asked, Entries, Last
<1>2. CASE id \in OneRequestIds
  <2>1. Only(id) \in Requests(id)
    BY <1>2 DEF Only, Requests, OneRequestIds
  <2> QED
    BY <1>2, <2>1, OneRequestAsks
<1>3. CASE id = "nameMismatch"
  BY <1>3, ProbeOf, NameHeaderMismatchAsks DEF Requests
<1>4. CASE id = "malformedJson"
  BY <1>4, ProbeOf, MalformedJsonAsks DEF Requests
<1>5. CASE id = "pagination"
  BY <1>5, ProbeOf, PaginationAsks DEF Requests
<1>6. CASE id = "comparison"
  BY <1>6, ProbeOf, ComparisonAsks DEF Requests
<1>7. CASE id = "origin"
  BY <1>7, ProbeOf, OriginAsks DEF Requests
<1>8. CASE id = "host"
  BY <1>8, ProbeOf, HostAsks DEF Requests
<1>9. CASE id = "localBind"
  BY <1>9, ProbeOf, LocalBindAsks DEF Requests
<1>10. CASE id = "notification"
  BY <1>10, ProbeOf, NotificationAsks DEF Requests
<1>11. CASE id = "invalidRequest"
  BY <1>11, ProbeOf, <1>1, InvalidRequestAsks DEF Requests
<1>12. CASE id = "getStream"
  BY <1>12, ProbeOf, <1>1, GetStreamAsks DEF Requests
<1>13. CASE id = "sessionDelete"
  BY <1>13, ProbeOf, <1>1, SessionDeleteAsks DEF Requests
<1>14. CASE id = "queryCredential"
  BY <1>14, ProbeOf, QueryAsks DEF Requests
<1>15. CASE id = "auth"
  BY <1>15, ProbeOf, AuthAsks DEF Requests
<1> QED
  BY <1>2, <1>3, <1>4, <1>5, <1>6, <1>7, <1>8, <1>9, <1>10, <1>11, <1>12, <1>13, <1>14, <1>15
     DEF ProbeIds, OneRequestIds

----------------------------------------------------------------------------
(* Answers.                                                                *)

(* What every answer over HTTP is: a result comes with 200, a code with an *)
(* error, an exception without content, and a challenge of the token with  *)
(* a 400.                                                                  *)
Sound(a) ==
  /\ Raised(a) => a.body = "none" /\ a.code = "" /\ a.has = {} /\ a.unread = "" /\ a.challenge = ""
  /\ ~Raised(a) => a.status \in 200 .. 599
  /\ a.body = "result" => a.status = 200
  /\ a.code # "" => a.body = "error"
  /\ a.challenge = "invalid_token" => a.status = 400
AllSound(A) == \A a \in A : Sound(a)

LEMMA ServedIsOk ==
    ASSUME NEW a, Sound(a), a.body = "result"
    PROVE  Ok(a)
<1>1. a.status = 200
  BY DEF Sound
<1> QED
  BY <1>1 DEF Ok

LEMMA StatusIsSound ==
    ASSUME NEW s \in 200 .. 599
    PROVE  Sound(Status(s))
  BY DEF Sound, Raised, Blank, Status

LEMMA ResultIsSound ==
    ASSUME NEW has
    PROVE  Sound(Result(200, has)) /\ Sound(Minting(Result(200, has)))
  BY DEF Sound, Raised, Blank, Result, Minting

LEMMA ErrorIsSound ==
    ASSUME NEW s \in 200 .. 599, NEW code
    PROVE  Sound(Error(s, code))
  BY DEF Sound, Raised, Blank, Error

LEMMA UnreadIsSound ==
    ASSUME NEW s \in 200 .. 599, NEW why
    PROVE  Sound(Unread(s, why))
  BY DEF Sound, Raised, Blank, Unread

LEMMA RaiseIsSound ==
    ASSUME NEW why \in {"timeout", "refused", "broken", "invalid"}
    PROVE  Sound(Raises(why)) /\ Sound(Minting([Raises(why) EXCEPT !.status = 200]))
  BY DEF Sound, Raised, Blank, Raises, Minting, NoStatus

LEMMA ChallengeIsSound ==
    ASSUME NEW c, c # "invalid_token"
    PROVE  Sound(Challenging(Blank, c)) /\ Sound(Challenging(Status(401), c))
  BY DEF Sound, Raised, Blank, Challenging, Status

LEMMA TokenErrorIsSound == Sound(TokenError)
  BY DEF Sound, Raised, Blank, Challenging, Error, TokenError

LEMMA RefusalsOf ==
    /\ Refusals("malformedMeta") = {Error(400, "invalid_params")}
    /\ Refusals("headerMismatch") = {Error(400, "header_mismatch")}
    /\ Refusals("noVersion") = {Error(400, "header_mismatch"), Status(401)}
    /\ Refusals("noMethod") = {Error(400, "header_mismatch"), Status(401)}
    /\ Refusals("nameMismatch") = {Error(400, "header_mismatch"), Status(401)}
    /\ Refusals("getStream") = {Status(405)}
    /\ Refusals("unknownVersion") = {UnsupportedVersion}
    /\ Refusals("missingResource") = {Error(200, "invalid_params")}
    /\ Refusals("badCursor") = {Error(200, "invalid_params")}
    /\ Refusals("removedMethod") = {Error(404, "method_not_found")}
    /\ Refusals("unknownMethod") = {Error(404, "method_not_found")}
    /\ Refusals("brokenJson") = {Error(400, "parse_error")}
    /\ Refusals("spoofed") = {Status(403)}
    /\ Refusals("spoofedInit") = {Status(403)}
    /\ Refusals("replay") = {Status(403), Raises("refused")}
    /\ Refusals("replayInit") = {Status(403), Raises("refused")}
    /\ Refusals("badTokenList") = {Status(401), TokenError}
    /\ Refusals("badTokenInit") = {Status(401), TokenError}
    /\ Refusals("invalidRequest") = {Error(400, "invalid_request"), Error(200, "invalid_request")}
    /\ Refusals("afterDelete") = {Status(404)}
  BY DEF Refusals

Refusable ==
  {"malformedMeta", "headerMismatch", "noVersion", "noMethod", "nameMismatch", "getStream",
   "unknownVersion", "missingResource", "badCursor", "removedMethod", "unknownMethod", "brokenJson",
   "spoofed", "spoofedInit", "replay", "replayInit", "badTokenList", "badTokenInit",
   "invalidRequest", "afterDelete"}

LEMMA OnlyRefusable ==
    ASSUME NEW request, request \notin Refusable
    PROVE  Refusals(request) = {}
  BY Zenon DEF Refusals, Refusable

LEMMA RefusalsAreSound ==
    ASSUME NEW request
    PROVE  AllSound(Refusals(request))
<1>1. Sound(UnsupportedVersion)
  BY DEF Sound, Raised, Blank, Error, UnsupportedVersion
<1>2. /\ AllSound(Refusals("malformedMeta"))
      /\ AllSound(Refusals("headerMismatch"))
      /\ AllSound(Refusals("missingResource"))
      /\ AllSound(Refusals("badCursor"))
      /\ AllSound(Refusals("removedMethod"))
  BY ErrorIsSound DEF AllSound, Refusals
<1>3. /\ AllSound(Refusals("unknownMethod"))
      /\ AllSound(Refusals("brokenJson"))
      /\ AllSound(Refusals("invalidRequest"))
  BY ErrorIsSound DEF AllSound, Refusals
<1>4. /\ AllSound(Refusals("noVersion"))
      /\ AllSound(Refusals("noMethod"))
      /\ AllSound(Refusals("nameMismatch"))
  BY ErrorIsSound, StatusIsSound DEF AllSound, Refusals
<1>5. /\ AllSound(Refusals("getStream"))
      /\ AllSound(Refusals("spoofed"))
      /\ AllSound(Refusals("spoofedInit"))
      /\ AllSound(Refusals("afterDelete"))
  BY StatusIsSound DEF AllSound, Refusals
<1>6. /\ AllSound(Refusals("replay"))
      /\ AllSound(Refusals("replayInit"))
  BY StatusIsSound, RaiseIsSound DEF AllSound, Refusals
<1>7. /\ AllSound(Refusals("badTokenList"))
      /\ AllSound(Refusals("badTokenInit"))
  BY StatusIsSound, TokenErrorIsSound DEF AllSound, Refusals
<1>8. /\ AllSound(Refusals("unknownVersion"))
  BY <1>1 DEF AllSound, Refusals
<1>9. AllSound({})
  BY DEF AllSound
<1> QED
  BY <1>2, <1>3, <1>4, <1>5, <1>6, <1>7, <1>8, <1>9, OnlyRefusable DEF Refusable

LEMMA AnswersAreSound ==
    ASSUME NEW request
    PROVE  AllSound(Answers(request))
<1>1. AllSound(Served(request)) /\ AllSound(Unknown) /\ AllSound(Busy)
  BY StatusIsSound, ResultIsSound, ErrorIsSound DEF AllSound, Served, Unknown, Busy
<1>2. AllSound(Refusals(request))
  BY RefusalsAreSound
<1>3. AllSound(RightList(request)) \/ request \notin ListRequests
  BY ResultIsSound, ErrorIsSound DEF AllSound, RightList, ListRequests, Lists
<1>4. AllSound(WrongList(request))
  BY ResultIsSound, ErrorIsSound DEF AllSound, WrongList
<1>5. AllSound(Right(request))
  BY <1>1, <1>2, <1>3, ResultIsSound, StatusIsSound DEF AllSound, Right
<1>6. AllSound(Trouble)
  BY <1>1, StatusIsSound, UnreadIsSound, RaiseIsSound DEF AllSound, Trouble
<1>7. AllSound(Wrong(request))
  BY <1>1, StatusIsSound, ResultIsSound, ErrorIsSound, RaiseIsSound DEF AllSound, Wrong
<1>8. request \in AuthRequests => AllSound(AuthAnswers(request))
  <2>1. CASE request = "anonymousList"
    <3>1. AllSound(Challenges)
      BY ChallengeIsSound DEF AllSound, Challenges
    <3> QED
      BY <2>1, <3>1, StatusIsSound, ResultIsSound, RaiseIsSound DEF AllSound, AuthAnswers
  <2>2. CASE request \in {"resolveChallenge", "resolveIssuer"}
    <3>1. AllSound(Resolutions)
      BY ChallengeIsSound DEF AllSound, Resolutions
    <3>2. AuthAnswers(request) = Resolutions
      BY <2>2, Zenon DEF AuthAnswers, ResourcePlaces, IssuerPlaces
    <3> QED
      BY <3>1, <3>2
  <2>3. CASE request \in {"reference"} \cup ResourcePlaces
    BY <2>3, StatusIsSound, ResultIsSound, RaiseIsSound DEF AllSound, AuthAnswers, ResourcePlaces
  <2>4. CASE request \in IssuerPlaces
    BY <2>4, StatusIsSound, ResultIsSound, RaiseIsSound
       DEF AllSound, AuthAnswers, IssuerPlaces, ResourcePlaces
  <2>5. CASE request \in {"badTokenList", "badTokenInit", "anonymousInit"}
    BY <1>1, <1>5, <2>5, StatusIsSound, ErrorIsSound, RaiseIsSound
       DEF AllSound, AuthAnswers, IssuerPlaces, ResourcePlaces
  <2> QED
    BY <2>1, <2>2, <2>3, <2>4, <2>5 DEF AuthRequests
<1> QED
  BY <1>3, <1>4, <1>5, <1>6, <1>7, <1>8, StatusIsSound, RaiseIsSound DEF Answers, AllSound

----------------------------------------------------------------------------
(* Logs.                                                                   *)

(* The exchanges before the i-th. *)
Before(l, i) == SubSeq(l, 1, i - 1)

LEMMA BeforeIs ==
    ASSUME NEW S, NEW l \in Seq(S), NEW i \in 1 .. Len(l)
    PROVE  /\ Before(l, i) \in Seq(S)
           /\ Len(Before(l, i)) = i - 1
           /\ \A k \in 1 .. i - 1 : Before(l, i)[k] = l[k] /\ k \in 1 .. Len(l)
           /\ Before(l, i) = <<>> <=> i = 1
           /\ i > 1 => Last(Before(l, i)) = l[i - 1]
  BY DEF Before, Last

LEMMA BeforeBefore ==
    ASSUME NEW S, NEW l \in Seq(S), NEW i \in 1 .. Len(l), NEW k \in 1 .. i - 1
    PROVE  Before(Before(l, i), k) = Before(l, k)
<1>1. Len(l) \in Nat /\ i \in Int /\ k \in Int
  OBVIOUS
<1> QED
  BY <1>1 DEF Before

LEMMA BeforeAppended ==
    ASSUME NEW S, NEW l \in Seq(S), NEW e \in S
    PROVE  /\ \A i \in 1 .. Len(l) : Before(Append(l, e), i) = Before(l, i)
           /\ Before(Append(l, e), Len(l) + 1) = l
  BY DEF Before

LEMMA AppendIs ==
    ASSUME NEW S, NEW l \in Seq(S), NEW e \in S
    PROVE  /\ Append(l, e) \in Seq(S) /\ Len(Append(l, e)) = Len(l) + 1 /\ Len(l) \in Nat
           /\ Append(l, e)[Len(l) + 1] = e
           /\ \A i \in 1 .. Len(l) : Append(l, e)[i] = l[i]
           /\ \A i \in 1 .. Len(Append(l, e)) : i \in 1 .. Len(l) \/ i = Len(l) + 1
  OBVIOUS

LEMMA AppendPlaces ==
    ASSUME NEW S, NEW l \in Seq(S), NEW e \in S
    PROVE  /\ Append(l, e) # <<>> /\ Last(Append(l, e)) = e
           /\ Len(l) + 1 \in 1 .. Len(Append(l, e))
           /\ \A i \in 1 .. Len(l) : i \in 1 .. Len(Append(l, e))
           /\ \A i \in 1 .. Len(Append(l, e)) : ~(i > Len(l) + 1)
  BY DEF Last

LEMMA LengthIs ==
    ASSUME NEW S, NEW l \in Seq(S)
    PROVE  Len(l) \in Nat /\ DOMAIN l = 1 .. Len(l) /\ (l # <<>> <=> Len(l) \in 1 .. Len(l))
  OBVIOUS

(* A log that the probe of id can have had over HTTP. *)
Ran(id, l) ==
  /\ l \in Seq(Entries(id))
  /\ \A i \in 1 .. Len(l) :
       /\ l[i].req = Probe(id, Before(l, i)).ask
       /\ l[i].req # ""
       /\ l[i].ans \in Answers(l[i].req)

(* A probe that is done, and one that is done with an outcome that tells. *)
Ends(id, l)  == Probe(id, l).ask = ""
Tells(id, l) == Ends(id, l) /\ Probe(id, l).outcome \notin {"error", "not_applicable"}

LEMMA RanMore ==
    ASSUME NEW id \in ProbeIds, NEW l, Ran(id, l),
           Probe(id, l).ask # "", NEW a \in Answers(Probe(id, l).ask)
    PROVE  Ran(id, Append(l, [req |-> Probe(id, l).ask, ans |-> a]))
<1> DEFINE e == [req |-> Probe(id, l).ask, ans |-> a]
<1>1. l \in Seq(Entries(id))
  BY DEF Ran
<1>2. Probe(id, l).ask \in Requests(id)
  BY <1>1, AsksItsOwn
<1>3. e \in Entries(id)
  BY <1>2 DEF Entries
<1>4. e.req = Probe(id, l).ask /\ e.ans = a
  OBVIOUS
<1> HIDE DEF e
<1>5. /\ Append(l, e) \in Seq(Entries(id)) /\ Len(Append(l, e)) = Len(l) + 1 /\ Len(l) \in Nat
      /\ Append(l, e)[Len(l) + 1] = e
      /\ \A i \in 1 .. Len(l) : Append(l, e)[i] = l[i]
      /\ \A i \in 1 .. Len(Append(l, e)) : i \in 1 .. Len(l) \/ i = Len(l) + 1
  BY <1>1, <1>3, AppendIs, Zenon
<1>6. \A i \in 1 .. Len(l) : Before(Append(l, e), i) = Before(l, i)
  BY <1>1, <1>3, BeforeAppended
<1>7. Before(Append(l, e), Len(l) + 1) = l
  BY <1>1, <1>3, BeforeAppended
<1>8. ASSUME NEW i \in 1 .. Len(l)
      PROVE  /\ Append(l, e)[i].req = Probe(id, Before(Append(l, e), i)).ask
             /\ Append(l, e)[i].req # ""
             /\ Append(l, e)[i].ans \in Answers(Append(l, e)[i].req)
  BY <1>5, <1>6 DEF Ran
<1>9. /\ Append(l, e)[Len(l) + 1].req = Probe(id, Before(Append(l, e), Len(l) + 1)).ask
      /\ Append(l, e)[Len(l) + 1].req # ""
      /\ Append(l, e)[Len(l) + 1].ans \in Answers(Append(l, e)[Len(l) + 1].req)
  BY <1>4, <1>5, <1>7
<1>10. Ran(id, Append(l, e))
  BY <1>5, <1>8, <1>9 DEF Ran
<1> QED
  BY <1>10 DEF e

LEMMA RanBefore ==
    ASSUME NEW id, NEW l, Ran(id, l), NEW i \in 1 .. Len(l)
    PROVE  /\ Ran(id, Before(l, i))
           /\ Probe(id, Before(l, i)).ask = l[i].req
           /\ l[i].req \in Requests(id)
           /\ l[i].ans \in Answers(l[i].req) /\ Sound(l[i].ans)
           /\ ~Ends(id, Before(l, i))
<1>1. l \in Seq(Entries(id))
  BY DEF Ran
<1>2. /\ Before(l, i) \in Seq(Entries(id)) /\ Len(Before(l, i)) = i - 1
      /\ \A k \in 1 .. i - 1 : Before(l, i)[k] = l[k] /\ k \in 1 .. Len(l)
  BY <1>1, BeforeIs
<1>3. \A k \in 1 .. i - 1 : Before(Before(l, i), k) = Before(l, k)
  BY <1>1, BeforeBefore
<1>4. Ran(id, Before(l, i))
  BY <1>2, <1>3 DEF Ran
<1>5. l[i] \in Entries(id)
  BY <1>1
<1>6. l[i].req \in Requests(id)
  BY <1>5 DEF Entries
<1>7. l[i].ans \in Answers(l[i].req) => Sound(l[i].ans)
  BY AnswersAreSound DEF AllSound
<1> QED
  BY <1>4, <1>6, <1>7 DEF Ran, Ends

----------------------------------------------------------------------------
(* Sessions.                                                               *)

(* The requests after which a session that the probe opened may be live. *)
InUse(id) ==
  CASE id \in {"origin", "host"} -> {"controlInit", "spoofedInit"}
    [] id = "localBind"       -> {"controlInit", "replayInit"}
    [] id = "notification"    -> {"initialize", "initialized"}
    [] id = "invalidRequest"  -> {"initialize", "initialized", "validRequest", "invalidRequest",
                                  "validAgain", "ping"}
    [] id = "getStream"       -> {"initialize", "initialized", "openStream", "ping"}
    [] id = "sessionDelete"   -> {"initialize", "initialized"}
    [] id = "queryCredential" -> {"queryInit", "strippedInit"}
    [] id = "auth"            -> {"badTokenInit", "anonymousInit"}
    [] OTHER                  -> {}

(* A step with a live session ends it, or goes on with it. *)
Keeps(id, step) ==
  \/ step.close
  \/ step.ask = "delete"
  \/ step.ask \in InUse(id) \ Handshakes

LEMMA OriginKeeps ==
    ASSUME NEW l, l # <<>>, Asked(l) \in InUse("origin"), HasAsked(l, Asked(l)), ~Raised(Heard(l))
    PROVE  OriginValidation(l).close /\ HostValidation(l).close
<1>1. Asked(l) \in {"controlInit", "spoofedInit"}
  BY DEF InUse
<1>2. CASE Asked(l) = "controlInit"
  BY <1>2 DEF OriginValidation, HostValidation, WithControl, ClosingThen,
     Failed, NotApplicable, Judged, Supported, Unsupported, Done, Ask, Spoof
<1>3. CASE Asked(l) = "spoofedInit"
  BY <1>3 DEF OriginValidation, HostValidation, WithControl, ClosingThen,
     Failed, NotApplicable, Judged, Supported, Unsupported, Done, Ask, Spoof
<1> QED
  BY <1>1, <1>2, <1>3

LEMMA LocalBindKeeps ==
    ASSUME NEW l, l # <<>>, Asked(l) \in InUse("localBind"), HasAsked(l, Asked(l))
    PROVE  LocalBind(l).close
<1>1. Asked(l) \in {"controlInit", "replayInit"}
  BY DEF InUse
<1>2. CASE Asked(l) = "controlInit"
  BY <1>2 DEF LocalBind, WithControl, ClosingThen,
     Failed, NotApplicable, Judged, Supported, Unsupported, Done, Ask
<1>3. CASE Asked(l) = "replayInit"
  BY <1>3 DEF LocalBind, WithControl, ClosingThen,
     Failed, NotApplicable, Judged, Supported, Unsupported, Done, Ask
<1> QED
  BY <1>1, <1>2, <1>3

LEMMA NotificationKeeps ==
    ASSUME NEW l, l # <<>>, Asked(l) \in InUse("notification"),
           Asked(l) = "initialize" => ~Raised(Heard(l))
    PROVE  Keeps("notification", NotificationAccepted(l))
<1>1. Asked(l) \in {"initialize", "initialized"}
  BY DEF InUse
<1>2. CASE Asked(l) = "initialize"
  BY <1>2 DEF NotificationAccepted, ClosingThen, Keeps, InUse, Handshakes,
     Failed, NotApplicable, Judged, Supported, Unsupported, Done, Ask
<1>3. CASE Asked(l) = "initialized"
  BY <1>3 DEF NotificationAccepted, NotificationOutcome, ClosingThen, Keeps,
     Failed, NotApplicable, Judged, Supported, Unsupported, Done, Ask
<1> QED
  BY <1>1, <1>2, <1>3

(* The ping of an invalid request is the last of its probe. *)
LEMMA PingEnds ==
    ASSUME NEW l, l # <<>>, Asked(l) = "ping"
    PROVE  InvalidRequest(l).close /\ InvalidRequest(l).ask = ""
<1> DEFINE judged == JudgeInvalidAnswer(AnswerTo(l, "invalidRequest"))
           Closes(step) == step.close /\ step.ask = ""
<1>1. Closes(ClosingThen(judged)) /\ Closes(ClosingThen(NotApplicable)) /\ Closes(ClosingThen(Failed))
  BY DEF JudgeInvalidAnswer, ClosingThen, Failed, NotApplicable, Judged, Supported, Unsupported, Done
<1>2. InvalidRequest(l) \in {ClosingThen(judged), ClosingThen(NotApplicable), ClosingThen(Failed)}
  BY DEF InvalidRequest, InSession
<1> QED
  BY <1>1, <1>2

LEMMA InvalidRequestKeeps ==
    ASSUME NEW l, l # <<>>, Asked(l) \in InUse("invalidRequest"),
           Asked(l) = "initialize" => ~Raised(Heard(l))
    PROVE  Keeps("invalidRequest", InvalidRequest(l))
<1>1. Asked(l) \in {"initialize", "initialized", "validRequest", "invalidRequest", "validAgain", "ping"}
  BY DEF InUse
<1>2. CASE Asked(l) = "initialize"
  BY <1>2 DEF InvalidRequest, InSession, ClosingThen, Keeps, InUse, Handshakes,
     Failed, NotApplicable, Judged, Supported, Unsupported, Done, Ask
<1>3. CASE Asked(l) = "initialized"
  BY <1>3 DEF InvalidRequest, InSession, ClosingThen, Keeps, InUse, Handshakes,
     Failed, NotApplicable, Judged, Supported, Unsupported, Done, Ask
<1>4. CASE Asked(l) = "validRequest"
  BY <1>4 DEF InvalidRequest, InSession, ClosingThen, Keeps, InUse, Handshakes,
     Failed, NotApplicable, Judged, Supported, Unsupported, Done, Ask
<1>5. CASE Asked(l) = "invalidRequest"
  BY <1>5 DEF InvalidRequest, InSession, JudgeInvalidAnswer, ClosingThen, Keeps, InUse, Handshakes,
     Failed, NotApplicable, Judged, Supported, Unsupported, Done, Ask
<1>6. CASE Asked(l) = "validAgain"
  BY <1>6 DEF InvalidRequest, InSession, ClosingThen, Keeps, InUse, Handshakes,
     Failed, NotApplicable, Judged, Supported, Unsupported, Done, Ask
<1>7. CASE Asked(l) = "ping"
  BY <1>7, PingEnds DEF Keeps
<1> QED
  BY <1>1, <1>2, <1>3, <1>4, <1>5, <1>6, <1>7

LEMMA GetStreamKeeps ==
    ASSUME NEW l, l # <<>>, Asked(l) \in InUse("getStream"),
           Asked(l) = "initialize" => ~Raised(Heard(l))
    PROVE  Keeps("getStream", GetStream(l))
<1>1. Asked(l) \in {"initialize", "initialized", "openStream", "ping"}
  BY DEF InUse
<1>2. CASE Asked(l) = "initialize"
  BY <1>2 DEF GetStream, InSession, ClosingThen, Keeps, InUse, Handshakes,
     Failed, NotApplicable, Judged, Supported, Unsupported, Done, Ask
<1>3. CASE Asked(l) = "initialized"
  BY <1>3 DEF GetStream, InSession, ClosingThen, Keeps, InUse, Handshakes,
     Failed, NotApplicable, Judged, Supported, Unsupported, Done, Ask
<1>4. CASE Asked(l) = "openStream"
  BY <1>4 DEF GetStream, InSession, ClosingThen, Keeps, InUse, Handshakes,
     Failed, NotApplicable, Judged, Supported, Unsupported, Done, Ask
<1>5. CASE Asked(l) = "ping"
  BY <1>5 DEF GetStream, InSession, ClosingThen, Keeps, InUse, Handshakes,
     Failed, NotApplicable, Judged, Supported, Unsupported, Done, Ask
<1> QED
  BY <1>1, <1>2, <1>3, <1>4, <1>5

LEMMA SessionDeleteKeeps ==
    ASSUME NEW l, l # <<>>, Asked(l) \in InUse("sessionDelete"), HasId(l),
           Asked(l) = "initialize" => ~Raised(Heard(l))
    PROVE  Keeps("sessionDelete", SessionDelete(l))
<1>1. Asked(l) \in {"initialize", "initialized"}
  BY DEF InUse
<1>2. CASE Asked(l) = "initialize"
  BY <1>2 DEF SessionDelete, InSession, ClosingThen, Keeps, InUse, Handshakes,
     Failed, NotApplicable, Judged, Supported, Unsupported, Done, Ask
<1>3. CASE Asked(l) = "initialized"
  BY <1>3 DEF SessionDelete, InSession, ClosingThen, Keeps,
     Failed, NotApplicable, Judged, Supported, Unsupported, Done, Ask
<1> QED
  BY <1>1, <1>2, <1>3

LEMMA QueryKeeps ==
    ASSUME NEW l, l # <<>>, Asked(l) \in InUse("queryCredential"), ~Raised(Heard(l))
    PROVE  QueryCredential(l).close
  BY DEF QueryCredential, ClosingThen,
     Failed, NotApplicable, Judged, Supported, Unsupported, Done, Ask

LEMMA TokenKeeps ==
    ASSUME NEW l, l # <<>>, ~Raised(Heard(l)), HasAsked(l, "badTokenList")
    PROVE  AuthDiscovery(l).close
<1>1. AuthDiscovery(l) = InvalidToken(l)
  BY DEF AuthDiscovery
<1>2. InvalidToken(l).close
  BY DEF InvalidToken, ClosingThen, Failed, NotApplicable, Supported, Unsupported, Done, Ask
<1> QED
  BY <1>1, <1>2

LEMMA HasAskedIs ==
    ASSUME NEW S, NEW l \in Seq(S), NEW r
    PROVE  /\ HasAsked(l, r) <=> \E i \in 1 .. Len(l) : l[i].req = r
           /\ l # <<>> => HasAsked(l, Asked(l))
<1>1. DOMAIN l = 1 .. Len(l) /\ (l # <<>> => Len(l) \in 1 .. Len(l))
  BY LengthIs
<1> QED
  BY <1>1 DEF HasAsked, ToSet, Asked, Last

(* What was asked once has one answer. *)
LEMMA OneAnswerTo ==
    ASSUME NEW S, NEW l \in Seq(S), NEW i \in 1 .. Len(l), NEW r, l[i].req = r,
           \A j \in 1 .. Len(l) : l[j].req = r => j = i
    PROVE  AnswerTo(l, r) = l[i].ans
<1>1. DOMAIN l = 1 .. Len(l)
  BY LengthIs
<1>2. l[i] \in ToSet(l) /\ \A e \in ToSet(l) : e.req = r => e = l[i]
  BY <1>1 DEF ToSet
<1>3. (CHOOSE e \in ToSet(l) : e.req = r) = l[i]
  BY <1>2
<1> QED
  BY <1>3 DEF AnswerTo

LEMMA LastOfRun ==
    ASSUME NEW id, NEW l, Ran(id, l), l # <<>>
    PROVE  /\ Len(l) \in 1 .. Len(l) /\ Asked(l) = l[Len(l)].req /\ Heard(l) = l[Len(l)].ans
           /\ Asked(l) \in Requests(id) /\ HasAsked(l, Asked(l)) /\ Sound(Heard(l))
<1>1. l \in Seq(Entries(id))
  BY DEF Ran
<1>2. Len(l) \in 1 .. Len(l) /\ HasAsked(l, Asked(l))
  BY <1>1, LengthIs, HasAskedIs
<1>3. Asked(l) = l[Len(l)].req /\ Heard(l) = l[Len(l)].ans
  BY DEF Asked, Heard, Last
<1> QED
  BY <1>2, <1>3, RanBefore

(* The handshake of a legacy session is the first request of its probe. *)
InSessionIds == {"invalidRequest", "getStream", "sessionDelete"}

LEMMA InitializeIsFirst ==
    ASSUME NEW id \in InSessionIds, NEW l, Ran(id, l)
    PROVE  /\ Probe(id, l).ask = "initialize" <=> l = <<>>
           /\ \A i \in 1 .. Len(l) : l[i].req = "initialize" <=> i = 1
<1>1. ASSUME NEW p, p # <<>>, Asked(p) \in Requests("invalidRequest")
      PROVE  InvalidRequest(p).ask # "initialize"
  <2>1. Asked(p) \in {"initialize", "initialized", "validRequest", "invalidRequest", "validAgain", "ping"}
    BY <1>1 DEF Requests
  <2>2. CASE Asked(p) \in {"initialize", "initialized", "validRequest"}
    BY <1>1, <2>2 DEF InvalidRequest, InSession, ClosingThen,
       Failed, NotApplicable, Judged, Supported, Unsupported, Done, Ask
  <2>3. CASE Asked(p) \in {"invalidRequest", "validAgain"}
    BY <1>1, <2>3 DEF InvalidRequest, InSession, JudgeInvalidAnswer, ClosingThen,
       Failed, NotApplicable, Judged, Supported, Unsupported, Done, Ask
  <2>4. CASE Asked(p) = "ping"
    BY <1>1, <2>4, PingEnds
  <2> QED
    BY <2>1, <2>2, <2>3, <2>4
<1>2. ASSUME NEW p, p # <<>>, Asked(p) \in Requests("getStream")
      PROVE  GetStream(p).ask # "initialize"
  BY <1>2 DEF GetStream, InSession, ClosingThen, Requests,
     Failed, NotApplicable, Judged, Supported, Unsupported, Done, Ask
<1>3. ASSUME NEW p, p # <<>>, Asked(p) \in Requests("sessionDelete")
      PROVE  SessionDelete(p).ask # "initialize"
  BY <1>3 DEF SessionDelete, InSession, JudgeAfterDelete, ClosingThen, Requests,
     Failed, NotApplicable, Judged, Supported, Unsupported, Done, Ask
<1>4. ASSUME NEW p, Ran(id, p)
      PROVE  Probe(id, p).ask = "initialize" <=> p = <<>>
  <2>1. p # <<>> => Asked(p) \in Requests(id)
    BY <1>4, LastOfRun
  <2>2. p # <<>> => Probe(id, p).ask # "initialize"
    BY <1>1, <1>2, <1>3, <2>1, ProbeOf DEF InSessionIds
  <2>3. Probe(id, <<>>).ask = "initialize"
    <3>1. InvalidRequest(<<>>).ask = "initialize"
      BY DEF InvalidRequest, InSession, Ask
    <3>2. GetStream(<<>>).ask = "initialize"
      BY DEF GetStream, InSession, Ask
    <3>3. SessionDelete(<<>>).ask = "initialize"
      BY DEF SessionDelete, InSession, Ask
    <3> QED
      BY <3>1, <3>2, <3>3, ProbeOf DEF InSessionIds
  <2> QED
    BY <2>2, <2>3
<1>5. ASSUME NEW i \in 1 .. Len(l)
      PROVE  l[i].req = "initialize" <=> i = 1
  <2>1. Ran(id, Before(l, i)) /\ Probe(id, Before(l, i)).ask = l[i].req
    BY RanBefore
  <2>2. Before(l, i) = <<>> <=> i = 1
    BY BeforeIs DEF Ran
  <2> QED
    BY <1>4, <2>1, <2>2
<1> QED
  BY <1>4, <1>5

(* The requests with an invalid token come after the first one of them. *)
LEMMA TokenListIsFirst ==
    ASSUME NEW l, Ran("auth", l), NEW i \in 1 .. Len(l), l[i].req \in {"badTokenInit", "anonymousInit"}
    PROVE  HasAsked(l, "badTokenList") /\ HasAsked(Before(l, i), "badTokenList")
<1> DEFINE p == Before(l, i)
<1>1. AuthDiscovery(p).ask = l[i].req
  <2>1. Probe("auth", p).ask = l[i].req
    BY RanBefore
  <2>2. Probe("auth", p) = AuthDiscovery(p)
    BY ProbeOf, Zenon
  <2> QED
    BY <2>1, <2>2
<1>2. \A r \in {"badTokenInit", "anonymousInit"} : r \notin ResourcePlaces \cup IssuerPlaces
  BY DEF ResourcePlaces, IssuerPlaces
<1>3. MetadataStep(p).ask \notin {"badTokenInit", "anonymousInit"}
  BY <1>2, MetadataAsks
<1>4. InvalidToken(<<>>).ask = "badTokenList"
  BY DEF InvalidToken, Ask
<1>5. Ask("anonymousList").ask = "anonymousList" /\ NotApplicable.ask = ""
  BY StepFields
<1>6. HasAsked(p, "badTokenList")
  BY <1>1, <1>3, <1>4, <1>5 DEF AuthDiscovery
<1>7. l \in Seq(Entries("auth"))
  BY DEF Ran
<1>8. p \in Seq(Entries("auth")) /\ Len(p) = i - 1 /\ \A k \in 1 .. i - 1 : p[k] = l[k] /\ k \in 1 .. Len(l)
  BY <1>7, BeforeIs
<1>9. HasAsked(l, "badTokenList")
  BY <1>6, <1>7, <1>8, HasAskedIs
<1> QED
  BY <1>6, <1>9

(* The sessions L are of the last handshake of l, which opened them, and the *)
(* probe is not past the requests that use them.                             *)
Holds(id, l, L) ==
  /\ \A i \in L : /\ i \in 1 .. Len(l) /\ Opens(l[i].req, l[i].ans)
                  /\ \A j \in 1 .. Len(l) : j > i => l[j].req \notin Handshakes
  /\ L # {} => l # <<>> /\ Asked(l) \in InUse(id)

LEMMA HandshakesAreInUse ==
    ASSUME NEW id \in ProbeIds, NEW r \in Requests(id), r \in Handshakes
    PROVE  r \in InUse(id) /\ r # "delete" /\ r # ""
<1>1. r \in {"badTokenInit", "anonymousInit", "queryInit", "strippedInit", "controlInit",
             "spoofedInit", "replayInit", "initialize"}
  BY DEF Handshakes
<1>2. CASE id \in OneRequestIds
  BY <1>1, <1>2 DEF Requests, OneRequestIds
<1>3. CASE id \in {"nameMismatch", "malformedJson", "pagination", "comparison"}
  BY <1>1, <1>3 DEF Requests, Lists
<1>4. CASE id = "origin"
  BY <1>1, <1>4 DEF Requests, InUse
<1>5. CASE id = "host"
  BY <1>1, <1>5 DEF Requests, InUse
<1>6. CASE id = "localBind"
  BY <1>1, <1>6 DEF Requests, InUse
<1>7. CASE id = "notification"
  BY <1>1, <1>7 DEF Requests, InUse
<1>8. CASE id = "invalidRequest"
  BY <1>1, <1>8 DEF Requests, InUse
<1>9. CASE id = "getStream"
  BY <1>1, <1>9 DEF Requests, InUse
<1>10. CASE id = "sessionDelete"
  BY <1>1, <1>10 DEF Requests, InUse
<1>11. CASE id = "queryCredential"
  BY <1>1, <1>11 DEF Requests, InUse
<1>12. CASE id = "auth"
  BY <1>1, <1>12 DEF Requests, InUse, AuthRequests, ResourcePlaces, IssuerPlaces
<1> QED
  BY <1>2, <1>3, <1>4, <1>5, <1>6, <1>7, <1>8, <1>9, <1>10, <1>11, <1>12
     DEF ProbeIds, OneRequestIds

(* A probe with a live session ends it, or goes on with it. *)
LEMMA LiveStep ==
    ASSUME NEW id \in ProbeIds, NEW l, Ran(id, l), NEW L, Holds(id, l, L), L # {}
    PROVE  Keeps(id, Probe(id, l))
<1>1. l # <<>> /\ Asked(l) \in InUse(id) /\ l \in Seq(Entries(id))
  BY DEF Holds, Ran
<1>2. PICK i \in L : /\ i \in 1 .. Len(l) /\ Opens(l[i].req, l[i].ans)
                     /\ \A j \in 1 .. Len(l) : j > i => l[j].req \notin Handshakes
  BY DEF Holds
<1>3. l[i].req \in Handshakes /\ l[i].ans.session /\ ~Raised(l[i].ans)
  BY <1>2 DEF Opens, ClosedOnFailure
<1>4. /\ Len(l) \in 1 .. Len(l) /\ Asked(l) = l[Len(l)].req /\ Heard(l) = l[Len(l)].ans
      /\ Asked(l) \in Requests(id) /\ HasAsked(l, Asked(l))
  BY <1>1, LastOfRun
<1>5. Asked(l) \in Handshakes => ~Raised(Heard(l))
  <2>1. Asked(l) \in Handshakes => i = Len(l)
    BY <1>2, <1>4
  <2> QED
    BY <1>3, <1>4, <2>1
<1>6. CASE id = "origin"
  BY <1>1, <1>4, <1>5, <1>6, OriginKeeps, ProbeOf DEF Keeps, InUse, Handshakes
<1>7. CASE id = "host"
  <2>1. Asked(l) \in InUse("origin")
    BY <1>1, <1>7 DEF InUse
  <2> QED
    BY <1>1, <1>4, <1>5, <1>7, <2>1, OriginKeeps, ProbeOf DEF Keeps, InUse, Handshakes
<1>8. CASE id = "localBind"
  BY <1>1, <1>4, <1>8, LocalBindKeeps, ProbeOf DEF Keeps
<1>9. CASE id = "notification"
  BY <1>1, <1>5, <1>9, NotificationKeeps, ProbeOf DEF Handshakes
<1>10. CASE id = "invalidRequest"
  BY <1>1, <1>5, <1>10, InvalidRequestKeeps, ProbeOf DEF Handshakes
<1>11. CASE id = "getStream"
  BY <1>1, <1>5, <1>11, GetStreamKeeps, ProbeOf DEF Handshakes
<1>12. CASE id = "sessionDelete"
  <2>1. l[i].req = "initialize"
    <3>1. l[i].req \in Requests(id)
      BY <1>2, RanBefore
    <3> QED
      BY <1>3, <1>12, <3>1 DEF Requests, Handshakes
  <2>2. AnswerTo(l, "initialize") = l[i].ans
    <3>1. \A j \in 1 .. Len(l) : l[j].req = "initialize" => j = i
      BY <1>2, <1>12, <2>1, InitializeIsFirst DEF InSessionIds
    <3> QED
      BY <1>1, <1>2, <2>1, <3>1, OneAnswerTo
  <2>3. HasId(l)
    BY <1>3, <2>2 DEF HasId
  <2> QED
    BY <1>1, <1>5, <1>12, <2>3, SessionDeleteKeeps, ProbeOf DEF Handshakes
<1>13. CASE id = "queryCredential"
  BY <1>1, <1>5, <1>13, QueryKeeps, ProbeOf DEF Keeps, InUse, Handshakes
<1>14. CASE id = "auth"
  <2>1. Asked(l) \in {"badTokenInit", "anonymousInit"}
    BY <1>1, <1>14 DEF InUse
  <2>2. HasAsked(l, "badTokenList")
    BY <1>4, <1>14, <2>1, TokenListIsFirst
  <2> QED
    BY <1>1, <1>5, <1>14, <2>1, <2>2, TokenKeeps, ProbeOf DEF Keeps, Handshakes
<1>15. id \in {"origin", "host", "localBind", "notification", "invalidRequest", "getStream",
               "sessionDelete", "queryCredential", "auth"}
  BY <1>1, Zenon DEF InUse
<1> QED
  BY <1>6, <1>7, <1>8, <1>9, <1>10, <1>11, <1>12, <1>13, <1>14, <1>15

(* The last handshake of a log, as LastHandshake is of the current one. *)
LastOf(l) == {i \in DOMAIN l : l[i].req \in Handshakes
                /\ \A j \in DOMAIN l : j > i => l[j].req \notin Handshakes}
EndedBy(step, l) == IF step.close \/ step.ask = "delete" THEN LastOf(l) ELSE {}

LEMMA HeldIsLast ==
    ASSUME NEW id, NEW l \in Seq(Entries(id)), NEW L, Holds(id, l, L)
    PROVE  L \subseteq LastOf(l)
<1>1. DOMAIN l = 1 .. Len(l)
  BY LengthIs
<1> QED
  BY <1>1 DEF Holds, Opens, LastOf

LEMMA HoldsMore ==
    ASSUME NEW id \in ProbeIds, NEW l, Ran(id, l), NEW L, Holds(id, l, L),
           Probe(id, l).ask # "", NEW a \in Answers(Probe(id, l).ask)
    PROVE  Holds(id, Append(l, [req |-> Probe(id, l).ask, ans |-> a]),
                 (L \ EndedBy(Probe(id, l), l))
                    \cup (IF Opens(Probe(id, l).ask, a) THEN {Len(l) + 1} ELSE {}))
<1> DEFINE r == Probe(id, l).ask
           e == [req |-> r, ans |-> a]
           m == Append(l, e)
           M == (L \ EndedBy(Probe(id, l), l)) \cup (IF Opens(r, a) THEN {Len(l) + 1} ELSE {})
<1>1. l \in Seq(Entries(id)) /\ Ran(id, m)
  BY RanMore DEF Ran
<1>2. r \in Requests(id)
  BY <1>1, AsksItsOwn
<1>3. e.req = r /\ e.ans = a /\ e \in Entries(id)
  BY <1>2 DEF Entries
<1> HIDE DEF e
<1>4. /\ Append(l, e) \in Seq(Entries(id)) /\ Len(Append(l, e)) = Len(l) + 1 /\ Len(l) \in Nat
      /\ Append(l, e)[Len(l) + 1] = e
      /\ \A i \in 1 .. Len(l) : Append(l, e)[i] = l[i]
      /\ \A i \in 1 .. Len(Append(l, e)) : i \in 1 .. Len(l) \/ i = Len(l) + 1
  BY <1>1, <1>3, AppendIs, Zenon
<1>5. /\ Append(l, e) # <<>> /\ Last(Append(l, e)) = e
      /\ Len(l) + 1 \in 1 .. Len(Append(l, e))
      /\ \A i \in 1 .. Len(l) : i \in 1 .. Len(Append(l, e))
      /\ \A i \in 1 .. Len(Append(l, e)) : ~(i > Len(l) + 1)
  BY <1>1, <1>3, AppendPlaces, Zenon
<1>6. L \subseteq LastOf(l)
  BY <1>1, HeldIsLast
<1>9. m # <<>> /\ Asked(m) = r
  BY <1>3, <1>5 DEF Asked
<1>10. /\ m[Len(l) + 1] = e /\ Len(l) + 1 \in 1 .. Len(m)
       /\ \A i \in 1 .. Len(m) : ~(i > Len(l) + 1)
       /\ \A i \in 1 .. Len(m) : i \in 1 .. Len(l) \/ i = Len(l) + 1
       /\ \A i \in 1 .. Len(l) : m[i] = l[i] /\ i \in 1 .. Len(m)
  BY <1>4, <1>5 DEF m
<1> HIDE DEF m
<1>7. CASE L \ EndedBy(Probe(id, l), l) = {}
  <2>1. M = IF Opens(r, a) THEN {Len(l) + 1} ELSE {}
    BY <1>7
  <2>2. Opens(r, a) => r \in InUse(id)
    BY <1>2, HandshakesAreInUse DEF Opens
  <2>3. Opens(r, a) => Opens(m[Len(l) + 1].req, m[Len(l) + 1].ans)
    BY <1>3, <1>10
  <2>4. Holds(id, m, {}) /\ (Opens(r, a) => Holds(id, m, {Len(l) + 1}))
    BY <1>9, <1>10, <2>2, <2>3 DEF Holds
  <2> QED
    BY <2>1, <2>4 DEF m, e
<1>8. CASE L \ EndedBy(Probe(id, l), l) # {}
  <2>1. L # {} /\ ~Probe(id, l).close /\ r # "delete"
    BY <1>6, <1>8 DEF EndedBy
  <2>2. r \in InUse(id) \ Handshakes
    BY <2>1, LiveStep DEF Keeps
  <2>3. M = L
    BY <2>1, <2>2 DEF EndedBy, Opens
  <2>4. Holds(id, m, L)
    <3>1. ASSUME NEW i \in L
          PROVE  /\ i \in 1 .. Len(m) /\ Opens(m[i].req, m[i].ans)
                 /\ \A j \in 1 .. Len(m) : j > i => m[j].req \notin Handshakes
      <4>1. i \in 1 .. Len(l) /\ Opens(l[i].req, l[i].ans)
            /\ \A j \in 1 .. Len(l) : j > i => l[j].req \notin Handshakes
        BY DEF Holds
      <4>2. i \in 1 .. Len(m) /\ m[i] = l[i]
        BY <1>10, <4>1
      <4>3. \A j \in 1 .. Len(m) : j > i => m[j].req \notin Handshakes
        BY <1>3, <1>10, <2>2, <4>1
      <4> QED
        BY <4>1, <4>2, <4>3
    <3> QED
      BY <1>9, <2>2, <3>1 DEF Holds
  <2> QED
    BY <2>3, <2>4 DEF m, e
<1> QED
  BY <1>7, <1>8

(* A probe that is done has ended every session. *)
LEMMA HoldsNothing ==
    ASSUME NEW id \in ProbeIds, NEW l, Ran(id, l), NEW L, Holds(id, l, L), Probe(id, l).ask = ""
    PROVE  L \ EndedBy(Probe(id, l), l) = {}
<1>1. l \in Seq(Entries(id))
  BY DEF Ran
<1>2. L \subseteq LastOf(l)
  BY <1>1, HeldIsLast
<1>3. "" \notin InUse(id)
  BY Zenon DEF InUse
<1>4. CASE L # {}
  <2>1. Probe(id, l).close
    BY <1>3, <1>4, LiveStep DEF Keeps
  <2> QED
    BY <1>2, <2>1 DEF EndedBy
<1> QED
  BY <1>4

----------------------------------------------------------------------------
(* The invariant.                                                          *)

(* Over HTTP the probe is running, or is done with the result its log has; *)
(* a rule then reads what it may of the others.                            *)
Running ==
  \E id \in Subjects : /\ queue = <<id>> /\ results = [x \in {} |-> NotRun]
                       /\ Ran(id, log) /\ Holds(id, log, live)
Concluded ==
  /\ queue = <<>> /\ live = {}
  /\ \E id \in Subjects :
       /\ DOMAIN results = {id}
       /\ results[id] = ResultOf(id, results[id].log)
       /\ Ran(id, results[id].log) /\ Probe(id, results[id].log).ask = ""
       /\ seen \in Contexts(id, results[id])
HttpRuns ==
  transport = "http" => process = "none" /\ waiting = NoId /\ (Running \/ Concluded)

(* Over stdio the results have no exchanges, but for the list that a gateway *)
(* kept, and nothing is judged.                                              *)
StdioRuns ==
  transport = "stdio" =>
    /\ live = {} /\ seen = Unjudged
    /\ \A x \in DOMAIN results :
         results[x].log = <<>> \/ (x = "list" /\ results[x].outcome = "supported")

(* Where modern support is required the gateways come first, in this order, *)
(* and what follows them is probed where they showed it.                    *)
Gatewayless(q) == \A i \in DOMAIN q : q[i] \notin {"discover", "list"}
GatewaysFirst ==
  \/ /\ queue # <<>> /\ Head(queue) = "discover"
     /\ Tail(queue) # <<>> /\ Head(Tail(queue)) = "list" /\ Gatewayless(Tail(Tail(queue)))
  \/ /\ queue # <<>> /\ Head(queue) = "list" /\ Gatewayless(Tail(queue))
     /\ "discover" \in DOMAIN results
  \/ /\ Gatewayless(queue)
     /\ queue # <<>> => /\ {"discover", "list"} \subseteq DOMAIN results
                        /\ HasModernSupport(results["discover"], results["list"])
GatewaysAsked ==
  transport = "stdio" =>
    /\ queue \in Seq(ToSet(StdioOrder))
    /\ process = "none" => waiting = NoId
    /\ waiting # NoId => queue # <<>>
    /\ require => GatewaysFirst

Inv ==
  /\ transport \in {"http", "stdio"}
  /\ HttpRuns
  /\ StdioRuns
  /\ GatewaysAsked

(* Init establishes the invariant. *)
LEMMA InvAtFirst == Init => Inv
<1> SUFFICES ASSUME Init PROVE Inv
  OBVIOUS
<1>1. CASE transport = "http"
  <2>1. PICK id \in Subjects : queue = <<id>>
    BY <1>1 DEF Init
  <2>2. Ran(id, <<>>)
    BY DEF Ran
  <2>3. Holds(id, <<>>, {})
    BY DEF Holds
  <2>4. Running
    BY <2>1, <2>2, <2>3 DEF Running, Init
  <2> QED
    BY <1>1, <2>4 DEF Inv, HttpRuns, StdioRuns, GatewaysAsked, Init
<1>2. CASE transport = "stdio"
  <2>1. queue \in StdioQueues /\ require \in {FALSE, Head(queue) = "discover"}
    BY <1>2 DEF Init
  <2>2. /\ queue \in Seq(ToSet(StdioOrder)) /\ queue # <<>>
        /\ \A i, j \in DOMAIN queue : i < j => Turn(queue[i]) < Turn(queue[j])
        /\ "discover" \in ToSet(queue) <=> "list" \in ToSet(queue)
    BY <2>1, StdioAssumption
  <2>3. ASSUME Head(queue) = "discover" PROVE GatewaysFirst
    <3>1. DOMAIN queue = 1 .. Len(queue) /\ Len(queue) \in Nat /\ 1 \in DOMAIN queue /\ queue[1] = "discover"
      BY <2>2, <2>3
    <3>2. PICK n \in DOMAIN queue : queue[n] = "list"
      BY <2>2, <3>1 DEF ToSet
    <3>3. Turn("discover") = 1 /\ Turn("list") = 2
      BY DEF Turn, StdioOrder, GatewayOrder
    <3>4. ToSet(StdioOrder) = {"discover", "list", "removedMethod", "pagination", "comparison"}
      BY DEF ToSet, StdioOrder, GatewayOrder
    <3>5. \A x \in ToSet(StdioOrder) : Turn(x) \in 1 .. 5
      BY <3>4 DEF Turn, StdioOrder, GatewayOrder
    <3>6. n = 2
      <4>1. n > 1
        BY <3>1, <3>2
      <4>2. n > 2 => Turn(queue[2]) \in 1 .. 5 /\ Turn(queue[2]) > 1 /\ Turn(queue[2]) < 2
        BY <2>2, <3>1, <3>2, <3>3, <3>5
      <4> QED
        BY <3>1, <4>1, <4>2
    <3>7. \A i \in DOMAIN queue : i > 2 => queue[i] \notin {"discover", "list"}
      BY <2>2, <3>1, <3>2, <3>3, <3>6
    <3>8. /\ Tail(queue) # <<>> /\ Head(Tail(queue)) = queue[2]
          /\ \A i \in DOMAIN Tail(Tail(queue)) : Tail(Tail(queue))[i] = queue[i + 2]
                                                /\ i + 2 \in DOMAIN queue /\ i + 2 > 2
      BY <2>2, <3>1, <3>2, <3>6
    <3> QED
      BY <2>2, <2>3, <3>2, <3>6, <3>7, <3>8 DEF GatewaysFirst, Gatewayless
  <2>4. require => GatewaysFirst
    BY <2>1, <2>3
  <2>5. GatewaysAsked
    BY <2>2, <2>4 DEF GatewaysAsked, Init
  <2>6. StdioRuns
    BY DEF Init, StdioRuns
  <2> QED
    BY <1>2, <2>5, <2>6 DEF Inv, HttpRuns
<1> QED
  BY <1>1, <1>2 DEF Init

(* Over HTTP every step preserves it. *)
LEMMA HttpInvNext ==
    ASSUME Inv, Next, transport = "http"
    PROVE  transport' = "http" /\ HttpRuns'
<1>1. process = "none" /\ waiting = NoId /\ (Running \/ Concluded)
  BY DEF Inv, HttpRuns
<1>2. OverHttp(Request) \/ OverHttp(Conclude)
  BY <1>1 DEF Next, StdioProber, Launch, NoSecondProcess, AskSecond, Send, Read, TimeOut,
     EndOfOutput, Record, Probes, Server, ServerAnswers, ServerAsks, ServerDies
<1>3. transport' = "http" /\ process' = "none" /\ waiting' = NoId
  BY <1>1, <1>2 DEF OverHttp, stdioVars
<1>4. PICK id \in Subjects : /\ queue = <<id>> /\ results = [x \in {} |-> NotRun]
                             /\ Ran(id, log) /\ Holds(id, log, live)
  BY <1>1, <1>2 DEF OverHttp, Request, Conclude, Concluded, Running
<1>5. id \in ProbeIds /\ Head(queue) = id /\ Tail(queue) = <<>> /\ Step = Probe(id, log)
  BY <1>4, ProbingAssumption DEF Step
<1>6. Ended(Step) = EndedBy(Probe(id, log), log)
  BY <1>5 DEF Ended, EndedBy, LastHandshake, LastOf
<1>7. CASE Request
  <2>1. PICK answer \in Answers(Probe(id, log).ask) :
          /\ log' = Append(log, [req |-> Probe(id, log).ask, ans |-> answer])
          /\ live' = (live \ EndedBy(Probe(id, log), log))
                       \cup (IF Opens(Probe(id, log).ask, answer) THEN {Len(log) + 1} ELSE {})
    BY <1>5, <1>6, <1>7 DEF Request, Exchange
  <2>2. Probe(id, log).ask # "" /\ queue' = <<id>> /\ results' = [x \in {} |-> NotRun]
    BY <1>4, <1>5, <1>7 DEF Request
  <2>3. Ran(id, log')
    BY <1>4, <1>5, <2>1, <2>2, RanMore
  <2>4. Holds(id, log', live')
    BY <1>4, <1>5, <2>1, <2>2, HoldsMore
  <2>5. Running'
    BY <2>2, <2>3, <2>4 DEF Running
  <2> QED
    BY <1>3, <2>5 DEF HttpRuns
<1>8. CASE Conclude
  <2>1. /\ Probe(id, log).ask = "" /\ queue' = <<>>
        /\ results' = [x \in {id} |-> ResultOf(id, log)]
        /\ seen' \in Contexts(id, ResultOf(id, log))
        /\ live' = live \ EndedBy(Probe(id, log), log)
    BY <1>5, <1>6, <1>8 DEF Conclude, ResultOf
  <2>2. live' = {}
    BY <1>4, <1>5, <2>1, HoldsNothing
  <2>3. DOMAIN results' = {id} /\ results'[id] = ResultOf(id, log) /\ ResultOf(id, log).log = log
    BY <2>1 DEF ResultOf
  <2>4. Concluded'
    BY <1>4, <2>1, <2>2, <2>3 DEF Concluded
  <2> QED
    BY <1>3, <2>4 DEF HttpRuns
<1> QED
  BY <1>2, <1>7, <1>8 DEF OverHttp

(* What is left of a sequence of probes. *)
LEMMA TailIs ==
    ASSUME NEW S, NEW q \in Seq(S), q # <<>>
    PROVE  /\ Head(q) = q[1] /\ Head(q) \in S /\ Tail(q) \in Seq(S) /\ 1 \in DOMAIN q
           /\ Gatewayless(q) => Gatewayless(Tail(q)) /\ Head(q) \notin {"discover", "list"}
<1>1. Head(q) = q[1] /\ q[1] \in S /\ 1 \in DOMAIN q /\ Tail(q) \in Seq(S)
  OBVIOUS
<1>2. \A i \in DOMAIN Tail(q) : Tail(q)[i] = q[i + 1] /\ i + 1 \in DOMAIN q
  OBVIOUS
<1> QED
  BY <1>1, <1>2 DEF Gatewayless

(* Over stdio every step preserves it. *)
LEMMA StdioInvNext ==
    ASSUME Inv, Next, transport = "stdio"
    PROVE  transport' = "stdio" /\ StdioRuns' /\ GatewaysAsked'
<1>1. /\ live = {} /\ seen = Unjudged
      /\ \A x \in DOMAIN results :
           results[x].log = <<>> \/ (x = "list" /\ results[x].outcome = "supported")
  BY DEF Inv, StdioRuns
<1>2. /\ queue \in Seq(ToSet(StdioOrder)) /\ (process = "none" => waiting = NoId)
      /\ (waiting # NoId => queue # <<>>) /\ (require => GatewaysFirst)
  BY DEF Inv, GatewaysAsked
<1>3. GatewaysFirst /\ UNCHANGED <<queue, results>> => GatewaysFirst'
  BY DEF GatewaysFirst
<1>4. queue' = <<>> => GatewaysFirst' /\ queue' \in Seq(ToSet(StdioOrder))
  BY DEF GatewaysFirst, Gatewayless
<1>5. CASE UNCHANGED <<queue, results, live, seen, transport, require>> /\ (waiting' # NoId => queue # <<>>)
           /\ process' # "none"
  <2>1. /\ transport' = transport /\ queue' = queue /\ results' = results /\ live' = live
        /\ seen' = seen /\ require' = require
    BY <1>5
  <2>2. StdioRuns'
    BY <1>1, <2>1 DEF StdioRuns
  <2>3. GatewaysAsked'
    BY <1>2, <1>3, <1>5, <2>1 DEF GatewaysAsked
  <2> QED
    BY <2>1, <2>2, <2>3
<1>6. ASSUME NEW ids, NEW v, v.log = <<>>, queue' = <<>>, results' = Reporting(results, ids, v),
             UNCHANGED <<live, seen, transport, require>>, waiting' = NoId
      PROVE  transport' = "stdio" /\ StdioRuns' /\ GatewaysAsked'
  <2>1. \A x \in DOMAIN results' :
           results'[x].log = <<>> \/ (x = "list" /\ results'[x].outcome = "supported")
    <3>1. \A x \in DOMAIN results' :
            (x \in ids /\ results'[x] = v) \/ (x \in DOMAIN results /\ results'[x] = results[x])
      BY <1>6 DEF Reporting
    <3> QED
      BY <1>1, <1>6, <3>1
  <2>2. StdioRuns'
    BY <1>1, <1>6, <2>1 DEF StdioRuns
  <2>3. GatewaysAsked'
    BY <1>4, <1>6 DEF GatewaysAsked
  <2> QED
    BY <1>6, <2>2, <2>3
<1>7. CASE Launch
  <2>1. CASE process' = "running" /\ UNCHANGED <<queue, results>>
    BY <1>2, <1>5, <1>7, <2>1 DEF Launch
  <2>2. CASE process' = "dead" /\ queue' = <<>> /\ results' = Reporting(results, Left, Failure)
    <3>1. Failure.log = <<>>
      BY DEF Failure
    <3> QED
      BY <1>2, <1>6, <1>7, <2>2, <3>1 DEF Launch
  <2> QED
    BY <1>7, <2>1, <2>2 DEF Launch
<1>8. CASE NoSecondProcess
  <2>1. Failure.log = <<>>
    BY DEF Failure
  <2>2. /\ queue' = <<>> /\ results' = Reporting(results, Left, Failure) /\ waiting' = NoId
        /\ UNCHANGED <<live, seen, transport, require>>
    BY <1>8 DEF NoSecondProcess, Probes, stdioVars
  <2> QED
    BY <1>6, <2>1, <2>2
<1>9. CASE AskSecond
  BY <1>2, <1>5, <1>9 DEF AskSecond, Probes, stdioVars
<1>10. CASE Send
  BY <1>2, <1>5, <1>10 DEF Send, Probes
<1>11. CASE Read
  BY <1>2, <1>5, <1>11 DEF Read
<1>12. CASE TimeOut
  BY <1>2, <1>5, <1>12 DEF TimeOut, GivesUp
<1>13. CASE EndOfOutput
  BY <1>2, <1>5, <1>13 DEF EndOfOutput, GivesUp
<1>14. CASE Server
  BY <1>2, <1>5, <1>14 DEF Server, ServerAnswers, ServerAsks, ServerDies
<1>15. CASE Record
  <2> DEFINE id == Head(queue)
             kept == IF id = "list" /\ Step.outcome = "supported" THEN log ELSE <<>>
             result == [outcome |-> Step.outcome, log |-> kept]
             done == Reporting(results, {id}, result)
             rest == ToSet(Tail(queue))
  <2>1. /\ queue # <<>> /\ waiting' = NoId /\ process' = process /\ process # "none"
        /\ live' = live /\ seen' = seen /\ transport' = transport /\ require' = require
    BY <1>15 DEF Record, Probes, stdioVars
  <2>2. result.log = <<>> \/ (id = "list" /\ result.outcome = "supported")
    OBVIOUS
  <2>3. /\ DOMAIN done = DOMAIN results \cup {id} /\ done[id] = result
        /\ \A x \in DOMAIN results \ {id} : done[x] = results[x]
    <3> HIDE DEF result, id
    <3> QED
      BY DEF Reporting
  <2>4. IF StopsHere(done)
        THEN queue' = <<>> /\ \E other \in {Failure, Inapplicable} : results' = Reporting(done, rest, other)
        ELSE queue' = Tail(queue) /\ results' = done
    BY <1>15 DEF Record
  <2> HIDE DEF done, rest
  <2>5. \A x \in DOMAIN done : done[x].log = <<>> \/ (x = "list" /\ done[x].outcome = "supported")
    BY <1>1, <2>2, <2>3
  <2>6. CASE StopsHere(done)
    <3>1. PICK other \in {Failure, Inapplicable} : queue' = <<>> /\ results' = Reporting(done, rest, other)
      BY <2>4, <2>6
    <3>2. other.log = <<>>
      BY DEF Failure, Inapplicable
    <3>3. \A x \in DOMAIN results' :
             results'[x].log = <<>> \/ (x = "list" /\ results'[x].outcome = "supported")
      <4>1. \A x \in DOMAIN results' :
              (x \in rest /\ results'[x] = other) \/ (x \in DOMAIN done /\ results'[x] = done[x])
        BY <3>1 DEF Reporting
      <4> QED
        BY <2>5, <3>2, <4>1
    <3>4. StdioRuns'
      BY <1>1, <2>1, <3>3 DEF StdioRuns
    <3>5. GatewaysAsked'
      BY <1>4, <2>1, <3>1 DEF GatewaysAsked
    <3> QED
      BY <2>1, <3>4, <3>5
  <2>7. CASE ~StopsHere(done)
    <3>1. queue' = Tail(queue) /\ results' = done
      BY <2>4, <2>7
    <3>2. StdioRuns'
      BY <1>1, <2>1, <2>5, <3>1 DEF StdioRuns
    <3>3. Tail(queue) \in Seq(ToSet(StdioOrder))
      BY <1>2, <2>1, TailIs
    <3>4. ASSUME require PROVE GatewaysFirst'
      <4>1. GatewaysFirst
        BY <1>2, <3>4
      <4>2. CASE /\ Head(queue) = "discover" /\ Tail(queue) # <<>> /\ Head(Tail(queue)) = "list"
                 /\ Gatewayless(Tail(Tail(queue)))
        BY <2>3, <3>1, <4>2 DEF GatewaysFirst
      <4>3. CASE Head(queue) = "list" /\ Gatewayless(Tail(queue)) /\ "discover" \in DOMAIN results
        <5>1. Last(GatewayOrder) = "list"
          BY DEF Last, GatewayOrder
        <5>2. HasModernSupport(done["discover"], done["list"])
          BY <2>7, <3>4, <4>3, <5>1 DEF StopsHere
        <5>3. {"discover", "list"} \subseteq DOMAIN done
          BY <2>3, <4>3
        <5> QED
          BY <3>1, <4>3, <5>2, <5>3 DEF GatewaysFirst
      <4>4. CASE /\ Gatewayless(queue) /\ {"discover", "list"} \subseteq DOMAIN results
                 /\ HasModernSupport(results["discover"], results["list"])
        <5>1. Gatewayless(Tail(queue)) /\ id \notin {"discover", "list"}
          BY <1>2, <2>1, <4>4, TailIs
        <5>2. done["discover"] = results["discover"] /\ done["list"] = results["list"]
          BY <2>3, <4>4, <5>1
        <5> QED
          BY <2>3, <3>1, <4>4, <5>1, <5>2 DEF GatewaysFirst
      <4> QED
        BY <2>1, <4>1, <4>2, <4>3, <4>4 DEF GatewaysFirst
    <3>5. GatewaysAsked'
      BY <2>1, <3>1, <3>3, <3>4 DEF GatewaysAsked
    <3> QED
      BY <2>1, <3>2, <3>5
  <2> QED
    BY <2>6, <2>7
<1> QED
  BY <1>7, <1>8, <1>9, <1>10, <1>11, <1>12, <1>13, <1>14, <1>15 DEF Next, OverHttp, StdioProber

(* Inv is an invariant. *)
THEOREM ProbesRun == Spec => []Inv
<1>1. Init => Inv
  BY InvAtFirst
<1>2. Inv /\ [Next]_vars => Inv'
  <2> SUFFICES ASSUME Inv, [Next]_vars PROVE Inv'
    OBVIOUS
  <2>1. transport \in {"http", "stdio"}
    BY DEF Inv
  <2>2. CASE Next /\ transport = "http"
    <3>1. transport' = "http" /\ HttpRuns'
      BY <2>2, HttpInvNext
    <3> QED
      BY <3>1 DEF Inv, StdioRuns, GatewaysAsked
  <2>3. CASE Next /\ transport = "stdio"
    <3>1. transport' = "stdio" /\ StdioRuns' /\ GatewaysAsked'
      BY <2>3, StdioInvNext
    <3> QED
      BY <3>1 DEF Inv, HttpRuns
  <2>4. CASE UNCHANGED vars
    <3>1. /\ queue' = queue /\ log' = log /\ live' = live /\ results' = results /\ seen' = seen
          /\ transport' = transport /\ require' = require /\ process' = process /\ waiting' = waiting
      BY <2>4 DEF vars, stdioVars
    <3> QED
      BY <3>1 DEF Inv, HttpRuns, StdioRuns, GatewaysAsked, Running, Concluded, GatewaysFirst
  <2> QED
    BY <2>1, <2>2, <2>3, <2>4
<1> QED
  BY <1>1, <1>2, PTL DEF Spec

----------------------------------------------------------------------------
(* What follows from it for every probe.                                   *)

(* Every session that a probe's handshake opened at the server was asked to *)
(* end by the time the probe is done, whichever of its requests failed      *)
(* (end_session, close_session_on_failure).                                 *)
THEOREM EverySessionEnds == Spec => []SessionsEnded
<1>1. Inv => SessionsEnded
  BY DEF Inv, HttpRuns, StdioRuns, Running, Concluded, SessionsEnded
<1> QED
  BY <1>1, ProbesRun, PTL

(* A server that showed no modern support, where that is required, is sent  *)
(* nothing after the two requests that look for it (run_stdio_probes).      *)
THEOREM LegacyServerIsLeftAlone == Spec => LegacyServerLeftAlone
<1> DEFINE A == (transport = "stdio" /\ require /\ pending' # pending /\ Head(queue) \notin ToSet(GatewayOrder)) =>
                   HasModernSupport(results["discover"], results["list"])
<1>1. Inv /\ [Next]_vars => [A]_vars
  <2> SUFFICES ASSUME Inv, Next, transport = "stdio", require, pending' # pending,
                      Head(queue) \notin ToSet(GatewayOrder)
               PROVE  HasModernSupport(results["discover"], results["list"])
    BY DEF vars, stdioVars
  <2>1. GatewaysFirst /\ (waiting # NoId => queue # <<>>)
    BY DEF Inv, GatewaysAsked
  <2>2. queue # <<>>
    <3>1. CASE waiting # NoId
      BY <2>1, <3>1
    <3>2. CASE waiting = NoId
      <4>1. Send
        BY <3>2 DEF Next, OverHttp, StdioProber, Launch, NoSecondProcess, AskSecond, Read, TimeOut,
           EndOfOutput, Record, Server, ServerAnswers, ServerAsks, ServerDies, stdioVars
      <4> QED
        BY <4>1 DEF Send, Probes
    <3> QED
      BY <3>1, <3>2
  <2>3. ToSet(GatewayOrder) = {"discover", "list"}
    BY DEF ToSet, GatewayOrder
  <2> QED
    BY <2>1, <2>2, <2>3 DEF GatewaysFirst
<1> QED
  BY <1>1, ProbesRun, PTL DEF Spec, LegacyServerLeftAlone

----------------------------------------------------------------------------
(* What went before an exchange.                                           *)

(* A request is what the probe asked after the exchange before it. *)
LEMMA OfPrefix ==
    ASSUME NEW id, NEW l, Ran(id, l), NEW i \in 1 .. Len(l)
    PROVE  /\ Ran(id, Before(l, i)) /\ Probe(id, Before(l, i)).ask = l[i].req
           /\ l[i] \in ToSet(l) /\ l[i].req \in Requests(id) /\ Sound(l[i].ans)
           /\ Before(l, i) = <<>> <=> i = 1
           /\ i # 1 => /\ i > 1 /\ i - 1 \in 1 .. Len(l) /\ l[i - 1] \in ToSet(l)
                       /\ Asked(Before(l, i)) = l[i - 1].req
                       /\ Heard(Before(l, i)) = l[i - 1].ans
<1>1. l \in Seq(Entries(id))
  BY DEF Ran
<1>2. Before(l, i) = <<>> <=> i = 1
  BY <1>1, BeforeIs
<1>3. i > 1 => Last(Before(l, i)) = l[i - 1]
  BY <1>1, BeforeIs
<1>4. i # 1 => i > 1 /\ i - 1 \in 1 .. Len(l)
  BY <1>1
<1>5. \A k \in 1 .. Len(l) : l[k] \in ToSet(l)
  BY <1>1, LengthIs DEF ToSet
<1>6. i # 1 => /\ i > 1 /\ i - 1 \in 1 .. Len(l) /\ l[i - 1] \in ToSet(l)
               /\ Asked(Before(l, i)) = l[i - 1].req
               /\ Heard(Before(l, i)) = l[i - 1].ans
  BY <1>3, <1>4, <1>5 DEF Asked, Heard
<1>7. /\ Ran(id, Before(l, i)) /\ Probe(id, Before(l, i)).ask = l[i].req
      /\ l[i].req \in Requests(id) /\ Sound(l[i].ans)
  BY RanBefore
<1> QED
  BY <1>2, <1>5, <1>6, <1>7

(* ... and what comes after an exchange that is not the last. *)
LEMMA OfNext ==
    ASSUME NEW id, NEW l, Ran(id, l), NEW i \in 1 .. Len(l), i # Len(l)
    PROVE  /\ i + 1 \in 1 .. Len(l) /\ Before(l, i + 1) # <<>> /\ Ran(id, Before(l, i + 1))
           /\ Asked(Before(l, i + 1)) = l[i].req /\ Heard(Before(l, i + 1)) = l[i].ans
           /\ Probe(id, Before(l, i + 1)).ask = l[i + 1].req
           /\ ~Ends(id, Before(l, i + 1))
<1>1. l \in Seq(Entries(id))
  BY DEF Ran
<1>2. PICK j \in 1 .. Len(l) : j = i + 1 /\ j # 1 /\ j - 1 = i
  <2>1. Len(l) \in Nat
    BY <1>1
  <2> QED
    BY <2>1
<1>3. /\ Before(l, j) # <<>> /\ Ran(id, Before(l, j))
      /\ Probe(id, Before(l, j)).ask = l[j].req
  BY <1>2, OfPrefix
<1>5. ~Ends(id, Before(l, j))
  BY <1>2, RanBefore
<1>4. Asked(Before(l, j)) = l[j - 1].req /\ Heard(Before(l, j)) = l[j - 1].ans
  BY <1>2, OfPrefix
<1> QED
  BY <1>2, <1>3, <1>4, <1>5

(* An accepted control precedes what repeats it. *)
Shown(l, requests) == \E e \in ToSet(l) : e.req \in requests /\ Accepted(e)

(* What WithControl goes on with is after a control that was accepted. *)
LEMMA WithControlIs ==
    ASSUME NEW l, NEW r, WithControl(l, Ask(r)).ask \notin {"controlInit", ""}
    PROVE  /\ ~Raised(Heard(l)) /\ Ok(Heard(l)) /\ Heard(l).body = "result" /\ Heard(l).unread = ""
           /\ WithControl(l, Ask(r)).ask = r
  BY DEF WithControl, ClosingThen, Serves, Failed, NotApplicable, Done, Ask

LEMMA NoVerdictOfControl ==
    ASSUME NEW l, NEW r, r # "", WithControl(l, Ask(r)).ask = ""
    PROVE  WithControl(l, Ask(r)).outcome \in {"error", "not_applicable"}
  BY DEF WithControl, ClosingThen, Failed, NotApplicable, Done, Ask

(* The probes that spoof a header, on a log with an exchange. *)
Spoofs == {"spoofed", "spoofedInit"}
Controlling == {"control", "controlInit"}

LEMMA SpoofStep ==
    ASSUME NEW id \in {"origin", "host"}, NEW p
    PROVE  /\ p = <<>> => Probe(id, p).ask = "control"
           /\ p # <<>> /\ Asked(p) \in Controlling =>
                \E r \in Spoofs : Probe(id, p) = WithControl(p, Ask(r))
           /\ p # <<>> /\ Asked(p) \notin Controlling => Ends(id, p)
<1>1. /\ p = <<>> => OriginValidation(p).ask = "control"
      /\ p # <<>> /\ Asked(p) \in Controlling =>
           OriginValidation(p) = WithControl(p, Spoof(p, "spoofed"))
      /\ p # <<>> /\ Asked(p) \notin Controlling => OriginValidation(p).ask = ""
  BY DEF OriginValidation, ClosingThen, Failed, Judged, Supported, Unsupported, Done, Ask, Controlling
<1>2. /\ p = <<>> => HostValidation(p).ask = "control"
      /\ p # <<>> /\ Asked(p) \in Controlling =>
           HostValidation(p) = WithControl(p, Spoof(p, "spoofed"))
      /\ p # <<>> /\ Asked(p) \notin Controlling => HostValidation(p).ask = ""
  BY DEF HostValidation, ClosingThen, Failed, Judged, Supported, Unsupported, Done, Ask, Controlling
<1>3. \E r \in Spoofs : Spoof(p, "spoofed") = Ask(r)
  BY DEF Spoof, Spoofs
<1>4. Probe(id, p) = OriginValidation(p) \/ Probe(id, p) = HostValidation(p)
  BY ProbeOf
<1> QED
  BY <1>1, <1>2, <1>3, <1>4 DEF Ends

(* A judged spoof is the last request, after a control that was accepted. *)
LEMMA SpoofShown ==
    ASSUME NEW id \in {"origin", "host"}, NEW l, Ran(id, l), l # <<>>, Tells(id, l)
    PROVE  /\ Asked(l) \in Spoofs
           /\ Shown(l, Controlling)
           /\ \A i \in 1 .. Len(l) : l[i].req \in Spoofs => i = Len(l)
<1>1. \A r \in Spoofs : r \notin {"controlInit", ""}
  BY DEF Spoofs
<1>2. Asked(l) \notin Controlling
  <2>1. \A r \in Spoofs : Probe(id, l) # WithControl(l, Ask(r))
    BY <1>1, NoVerdictOfControl DEF Tells, Ends
  <2> QED
    BY <2>1, SpoofStep
<1>3. Requests(id) = Controlling \cup Spoofs
  BY DEF Requests, Controlling, Spoofs
<1>4. /\ Len(l) \in 1 .. Len(l) /\ Asked(l) = l[Len(l)].req /\ Asked(l) \in Spoofs
  BY <1>2, <1>3, LastOfRun
<1>5. ASSUME NEW i \in 1 .. Len(l), l[i].req \in Spoofs
      PROVE  i = Len(l) /\ Shown(l, Controlling)
  <2> DEFINE p == Before(l, i)
  <2>1. Probe(id, p).ask = l[i].req /\ (p = <<>> <=> i = 1) /\ ~Ends(id, p)
    BY OfPrefix, RanBefore
  <2>2. "control" \notin Spoofs
    BY DEF Spoofs
  <2>3. p # <<>> /\ Asked(p) \in Controlling
    BY <1>5, <2>1, <2>2, SpoofStep
  <2>4. PICK r \in Spoofs : Probe(id, p) = WithControl(p, Ask(r))
    BY <2>3, SpoofStep
  <2>5. Ok(Heard(p)) /\ Heard(p).body = "result"
    BY <1>1, <1>5, <2>1, <2>4, WithControlIs
  <2>6. l[i - 1] \in ToSet(l) /\ Asked(p) = l[i - 1].req /\ Heard(p) = l[i - 1].ans
    BY <2>1, <2>3, OfPrefix
  <2>7. Shown(l, Controlling)
    BY <2>3, <2>5, <2>6 DEF Shown, Accepted
  <2>8. ASSUME i # Len(l) PROVE FALSE
    <3>1. /\ Before(l, i + 1) # <<>> /\ Asked(Before(l, i + 1)) = l[i].req
          /\ ~Ends(id, Before(l, i + 1))
      BY <2>8, OfNext
    <3>2. l[i].req \notin Controlling
      BY <1>5 DEF Spoofs, Controlling
    <3> QED
      BY <3>1, <3>2, SpoofStep
  <2> QED
    BY <2>7, <2>8
<1> QED
  BY <1>4, <1>5

(* At another address: the first replay was after an accepted control, of *)
(* the kind that the control had.                                         *)
Replays == {"replay", "replayInit"}

LEMMA LocalBindStep ==
    ASSUME NEW p
    PROVE  /\ p = <<>> => LocalBind(p).ask = "control" \/ LocalBind(p) = NotApplicable
           /\ p # <<>> /\ Asked(p) \in Controlling =>
                LocalBind(p) = WithControl(p, Ask(IF HasAsked(p, "controlInit") THEN "replayInit" ELSE "replay"))
           /\ p # <<>> /\ Asked(p) \notin Controlling =>
                LocalBind(p).ask \in {IF HasAsked(p, "controlInit") THEN "replayInit" ELSE "replay", ""}
  BY DEF LocalBind, ClosingThen, Failed, NotApplicable, Supported, Unsupported, Done, Ask, Controlling

LEMMA ReplayShown ==
    ASSUME NEW l, Ran("localBind", l), l # <<>>, Tells("localBind", l)
    PROVE  /\ Asked(l) \in Replays
           /\ Shown(l, Controlling)
<1>1. Probe("localBind", l) = LocalBind(l)
  BY ProbeOf
<1>2. Asked(l) \notin Controlling
  <2>1. \A r \in Replays : LocalBind(l) # WithControl(l, Ask(r))
    <3>1. \A r \in Replays : r # ""
      BY DEF Replays
    <3> QED
      BY <1>1, <3>1, NoVerdictOfControl DEF Tells, Ends
  <2> QED
    BY <2>1, LocalBindStep DEF Replays
<1>3. Requests("localBind") = Controlling \cup Replays
  BY DEF Requests, Controlling, Replays
<1>4. /\ Len(l) \in 1 .. Len(l) /\ Asked(l) = l[Len(l)].req /\ Asked(l) \in Replays
  BY <1>2, <1>3, LastOfRun
<1> DEFINE P == {i \in 1 .. Len(l) : l[i].req \in Replays}
<1>5. P \in SUBSET Nat /\ Len(l) \in P
  BY <1>4
<1>6. Min(P) \in P /\ \A j \in P : Min(P) <= j
  BY <1>5, SmallestInSet
<1>7. PICK i \in 1 .. Len(l) : l[i].req \in Replays /\ \A j \in 1 .. Len(l) : l[j].req \in Replays => i <= j
  BY <1>6
<1> DEFINE p == Before(l, i)
<1>8. /\ Probe("localBind", p).ask = l[i].req /\ (p = <<>> <=> i = 1) /\ ~Ends("localBind", p)
  BY OfPrefix, RanBefore
<1>9. p # <<>>
  <2>1. "control" \notin Replays
    BY DEF Replays
  <2>2. LocalBind(p) = NotApplicable => Ends("localBind", p)
    BY ProbeOf, StepFields DEF Ends
  <2> QED
    BY <1>7, <1>8, <2>1, <2>2, LocalBindStep, ProbeOf
<1>10. /\ l[i - 1] \in ToSet(l) /\ Asked(p) = l[i - 1].req /\ Heard(p) = l[i - 1].ans
       /\ i - 1 \in 1 .. Len(l) /\ ~(i <= i - 1)
  BY <1>8, <1>9, OfPrefix
<1>11. Asked(p) \in Controlling
  <2>1. l[i - 1].req \in Requests("localBind")
    BY <1>10, OfPrefix
  <2> QED
    BY <1>3, <1>7, <1>10, <2>1
<1>12. \E r \in Replays : LocalBind(p) = WithControl(p, Ask(r))
  BY <1>9, <1>11, LocalBindStep DEF Replays
<1>13. LocalBind(p).ask \in Replays
  BY <1>7, <1>8, ProbeOf
<1>14. Ok(Heard(p)) /\ Heard(p).body = "result"
  <2>1. \A r \in Replays : r \notin {"controlInit", ""}
    BY DEF Replays
  <2> QED
    BY <1>12, <1>13, <2>1, WithControlIs
<1> QED
  BY <1>4, <1>10, <1>11, <1>14 DEF Shown, Accepted

(* A judged invalid request was after a valid one that was served. *)
LEMMA InvalidRequestStep ==
    ASSUME NEW p, p # <<>>, Asked(p) \in Requests("invalidRequest")
    PROVE  /\ InvalidRequest(p).ask = "invalidRequest" =>
                Asked(p) = "validRequest" /\ ~Raised(Heard(p)) /\ Heard(p).body = "result"
           /\ InvalidRequest(p).ask \in {"validAgain", "ping"} => Asked(p) = "invalidRequest"
           /\ InvalidRequest(p).ask = "" /\ InvalidRequest(p).outcome \notin {"error", "not_applicable"} =>
                Asked(p) \in {"invalidRequest", "validAgain", "ping"}
<1>1. Asked(p) \in {"initialize", "initialized", "validRequest", "invalidRequest", "validAgain", "ping"}
  BY DEF Requests
<1>2. CASE Asked(p) = "initialize"
  BY <1>2 DEF InvalidRequest, InSession, ClosingThen, Failed, NotApplicable, Done, Ask
<1>3. CASE Asked(p) = "initialized"
  BY <1>3 DEF InvalidRequest, InSession, ClosingThen, Failed, NotApplicable, Done, Ask
<1>4. CASE Asked(p) = "validRequest"
  BY <1>4 DEF InvalidRequest, InSession, ClosingThen, Failed, NotApplicable, Done, Ask
<1>5. CASE Asked(p) = "invalidRequest"
  BY <1>5 DEF InvalidRequest, InSession, JudgeInvalidAnswer, ClosingThen, Failed, NotApplicable,
     Judged, Supported, Unsupported, Done, Ask
<1>6. CASE Asked(p) = "validAgain"
  BY <1>6 DEF InvalidRequest, InSession, ClosingThen, Failed, NotApplicable, Unsupported, Done, Ask
<1>7. CASE Asked(p) = "ping"
  BY <1>7, PingEnds
<1> QED
  BY <1>1, <1>2, <1>3, <1>4, <1>5, <1>6, <1>7

LEMMA InvalidRequestShown ==
    ASSUME NEW l, Ran("invalidRequest", l), l # <<>>, Tells("invalidRequest", l)
    PROVE  Shown(l, {"validRequest"}) /\ HasAsked(l, "invalidRequest")
<1>1. \A p : p # <<>> /\ Asked(p) \in Requests("invalidRequest") =>
         /\ Probe("invalidRequest", p).ask = "invalidRequest" =>
              Asked(p) = "validRequest" /\ ~Raised(Heard(p)) /\ Heard(p).body = "result"
         /\ Probe("invalidRequest", p).ask \in {"validAgain", "ping"} => Asked(p) = "invalidRequest"
         /\ Tells("invalidRequest", p) => Asked(p) \in {"invalidRequest", "validAgain", "ping"}
  BY InvalidRequestStep, ProbeOf DEF Tells, Ends
<1>2. Probe("invalidRequest", <<>>).ask = "initialize"
  BY ProbeOf, StepFields DEF InvalidRequest, InSession
<1>3. /\ Len(l) \in 1 .. Len(l) /\ Asked(l) = l[Len(l)].req
      /\ Asked(l) \in {"invalidRequest", "validAgain", "ping"}
  BY <1>1, LastOfRun
<1>4. ASSUME NEW i \in 1 .. Len(l), l[i].req \in {"invalidRequest", "validAgain", "ping"}
      PROVE  /\ i - 1 \in 1 .. Len(l) /\ l[i - 1] \in ToSet(l) /\ Sound(l[i - 1].ans)
             /\ l[i].req = "invalidRequest" =>
                  l[i - 1].req = "validRequest" /\ ~Raised(l[i - 1].ans) /\ l[i - 1].ans.body = "result"
             /\ l[i].req # "invalidRequest" => l[i - 1].req = "invalidRequest"
  <2> DEFINE p == Before(l, i)
  <2>1. Probe("invalidRequest", p).ask = l[i].req /\ (p = <<>> <=> i = 1)
    BY OfPrefix
  <2>2. p # <<>>
    BY <1>2, <1>4, <2>1
  <2>3. /\ i - 1 \in 1 .. Len(l) /\ l[i - 1] \in ToSet(l)
        /\ Asked(p) = l[i - 1].req /\ Heard(p) = l[i - 1].ans
    BY <2>1, <2>2, OfPrefix
  <2>4. l[i - 1].req \in Requests("invalidRequest") /\ Sound(l[i - 1].ans)
    BY <2>3, OfPrefix
  <2> QED
    BY <1>1, <1>4, <2>1, <2>2, <2>3, <2>4
<1>5. PICK i \in 1 .. Len(l) : l[i].req = "invalidRequest"
  BY <1>3, <1>4
<1>6. /\ l[i - 1] \in ToSet(l) /\ Sound(l[i - 1].ans)
      /\ l[i - 1].req = "validRequest" /\ ~Raised(l[i - 1].ans) /\ l[i - 1].ans.body = "result"
  BY <1>4, <1>5
<1>7. Accepted(l[i - 1])
  BY <1>6, ServedIsOk DEF Accepted
<1>8. l \in Seq(Entries("invalidRequest"))
  BY DEF Ran
<1>9. HasAsked(l, "invalidRequest")
  BY <1>5, <1>8, HasAskedIs
<1> QED
  BY <1>6, <1>7, <1>9 DEF Shown

(* A probe in a session that tells anything had its handshake accepted. *)
LEMMA SessionShown ==
    ASSUME NEW id \in {"getStream", "sessionDelete"}, NEW l, Ran(id, l), l # <<>>, Tells(id, l)
    PROVE  Shown(l, {"initialize"})
<1>1. \A p : p # <<>> /\ Asked(p) = "initialize" =>
         /\ ~Tells(id, p)
         /\ ~Ends(id, p) => Heard(p).body = "result" /\ ~Raised(Heard(p)) /\ Ok(Heard(p))
  <2>1. \A p : p # <<>> /\ Asked(p) = "initialize" =>
          /\ GetStream(p).ask = "" => GetStream(p).outcome \in {"error", "not_applicable"}
          /\ GetStream(p).ask # "" => Heard(p).body = "result" /\ ~Raised(Heard(p)) /\ Ok(Heard(p))
    BY DEF GetStream, InSession, Handshake, Serves, ClosingThen, Failed, NotApplicable, Done, Ask
  <2>2. \A p : p # <<>> /\ Asked(p) = "initialize" =>
          /\ SessionDelete(p).ask = "" => SessionDelete(p).outcome \in {"error", "not_applicable"}
          /\ SessionDelete(p).ask # "" => Heard(p).body = "result" /\ ~Raised(Heard(p)) /\ Ok(Heard(p))
    BY DEF SessionDelete, InSession, Handshake, Serves, ClosingThen, Failed, NotApplicable, Done, Ask
  <2>3. \A p : Probe(id, p) = GetStream(p) \/ Probe(id, p) = SessionDelete(p)
    BY ProbeOf
  <2> QED
    BY <2>1, <2>2, <2>3 DEF Ends, Tells
<1>2. id \in InSessionIds
  BY DEF InSessionIds
<1>3. l[1].req = "initialize" /\ 1 \in 1 .. Len(l) /\ l[1] \in ToSet(l)
  <2>1. 1 \in 1 .. Len(l)
    <3>1. Len(l) \in 1 .. Len(l) /\ l \in Seq(Entries(id))
      BY LastOfRun DEF Ran
    <3>2. Len(l) \in Nat
      BY <3>1
    <3> QED
      BY <3>1, <3>2
  <2> QED
    BY <1>2, <2>1, InitializeIsFirst, OfPrefix
<1>4. 1 # Len(l)
  <2>1. 1 = Len(l) => Asked(l) = "initialize"
    BY <1>3, LastOfRun
  <2> QED
    BY <1>1, <2>1
<1>5. /\ Before(l, 1 + 1) # <<>> /\ Asked(Before(l, 1 + 1)) = l[1].req
      /\ Heard(Before(l, 1 + 1)) = l[1].ans /\ ~Ends(id, Before(l, 1 + 1))
  BY <1>3, <1>4, OfNext
<1>6. Accepted(l[1])
  BY <1>1, <1>3, <1>5 DEF Accepted
<1> QED
  BY <1>3, <1>6 DEF Shown

(* A credential is found to matter only beside a request that it served. *)
LEMMA QueryStep ==
    ASSUME NEW p
    PROVE  /\ p = <<>> => QueryCredential(p).ask = "queryList"
           /\ p # <<>> /\ QueryCredential(p).ask \in {"strippedList", "strippedInit"} =>
                Asked(p) \in {"queryList", "queryInit"}
           /\ p # <<>> /\ QueryCredential(p).ask = "" /\ QueryCredential(p).outcome \notin {"error", "not_applicable"} =>
                /\ Asked(p) \notin {"queryList", "queryInit"}
                /\ Ok(p[Len(p) - 1].ans) /\ p[Len(p) - 1].ans.body = "result"
  BY DEF QueryCredential, ClosingThen, Failed, NotApplicable, Supported, Unsupported, Done, Ask

LEMMA QueryShown ==
    ASSUME NEW l, Ran("queryCredential", l), l # <<>>, Tells("queryCredential", l)
    PROVE  Shown(l, {"queryList", "queryInit"})
<1>1. Asked(l) \notin {"queryList", "queryInit"} /\ Accepted(l[Len(l) - 1])
  BY QueryStep, ProbeOf DEF Tells, Ends, Accepted
<1>2. /\ Len(l) \in 1 .. Len(l) /\ Asked(l) = l[Len(l)].req /\ Asked(l) \in {"strippedList", "strippedInit"}
  BY <1>1, LastOfRun DEF Requests
<1> DEFINE p == Before(l, Len(l))
<1>3. Probe("queryCredential", p).ask = Asked(l) /\ (p = <<>> <=> Len(l) = 1)
  <2>1. \A n \in 1 .. Len(l) : Probe("queryCredential", Before(l, n)).ask = l[n].req
                              /\ (Before(l, n) = <<>> <=> n = 1)
    BY OfPrefix
  <2> QED
    BY <1>2, <2>1
<1>4. p # <<>> /\ Asked(p) \in {"queryList", "queryInit"}
  BY <1>2, <1>3, QueryStep, ProbeOf
<1>5. l[Len(l) - 1] \in ToSet(l) /\ Asked(p) = l[Len(l) - 1].req
  BY <1>2, <1>3, <1>4, OfPrefix
<1> QED
  BY <1>1, <1>4, <1>5 DEF Shown

(* An invalid token is judged by the last answer, beside that of the same *)
(* request without a token.                                               *)
LEMMA TokenTells ==
    ASSUME NEW l, Ran("auth", l), l # <<>>, Ends("auth", l), AsksToken(l)
    PROVE  /\ HasAsked(l, "badTokenList")
           /\ Probe("auth", l) = InvalidToken(l)
           /\ Asked(l) \in {"badTokenList", "badTokenInit", "anonymousInit"}
<1>1. HasAsked(l, "badTokenList")
  <2>1. InvalidToken(<<>>).ask = "badTokenList"
    BY StepFields DEF InvalidToken
  <2> QED
    BY <2>1, ProbeOf DEF Ends, AuthDiscovery
<1>2. Probe("auth", l) = InvalidToken(l)
  BY <1>1, ProbeOf DEF AuthDiscovery
<1>3. l \in Seq(Entries("auth"))
  BY DEF Ran
<1>4. PICK i \in 1 .. Len(l) : l[i].req = "badTokenList"
  BY <1>1, <1>3, HasAskedIs
<1>5. Len(l) \in 1 .. Len(l) /\ Asked(l) = l[Len(l)].req
  BY LastOfRun
<1>6. CASE i # Len(l)
  <2> DEFINE p == Before(l, Len(l))
  <2>1. Probe("auth", p).ask = Asked(l) /\ ~Ends("auth", p) /\ p # <<>>
    BY <1>3, <1>4, <1>5, <1>6, OfPrefix, RanBefore
  <2>2. i \in 1 .. Len(l) - 1
    BY <1>4, <1>5, <1>6
  <2>3. p \in Seq(Entries("auth")) /\ Len(p) = Len(l) - 1 /\ \A k \in 1 .. Len(l) - 1 : p[k] = l[k]
    <3>1. \A n \in 1 .. Len(l) : /\ Before(l, n) \in Seq(Entries("auth")) /\ Len(Before(l, n)) = n - 1
                                /\ \A k \in 1 .. n - 1 : Before(l, n)[k] = l[k]
      BY <1>3, BeforeIs
    <3> QED
      BY <1>5, <3>1
  <2>4. HasAsked(p, "badTokenList")
    BY <1>4, <2>2, <2>3, HasAskedIs
  <2>5. Probe("auth", p) = InvalidToken(p)
    BY <2>1, <2>4, ProbeOf DEF AuthDiscovery
  <2> QED
    BY <1>1, <1>2, <2>1, <2>5, InvalidTokenAsks DEF Ends
<1> QED
  BY <1>1, <1>2, <1>4, <1>5, <1>6

(* How an invalid token is judged. *)
LEMMA TokenStep ==
    ASSUME NEW l, l # <<>>, InvalidToken(l).ask = "",
           InvalidToken(l).outcome \notin {"error", "not_applicable"},
           Asked(l) \in {"badTokenList", "badTokenInit", "anonymousInit"}
    PROVE  /\ InvalidToken(l).outcome = "supported" =>
                Asked(l) # "anonymousInit" /\ ~Raised(Heard(l)) /\ TokenRefused(Heard(l))
           /\ InvalidToken(l).outcome # "supported" =>
                \/ Asked(l) = "badTokenList" /\ Ok(Heard(l))
                \/ Asked(l) = "anonymousInit" /\ TokenRefused(Heard(l))
<1>1. CASE Asked(l) = "badTokenList"
  BY <1>1 DEF InvalidToken, ClosingThen, Failed, NotApplicable, Supported, Unsupported, Done, Ask
<1>2. CASE Asked(l) = "badTokenInit"
  BY <1>2 DEF InvalidToken, ClosingThen, Failed, NotApplicable, Supported, Unsupported, Done, Ask
<1>3. CASE Asked(l) = "anonymousInit"
  BY <1>3 DEF InvalidToken, ClosingThen, Failed, NotApplicable, Supported, Unsupported, Done, Ask
<1> QED
  BY <1>1, <1>2, <1>3

LEMMA TokenVerdict ==
    ASSUME NEW l, InvalidTokenRejected(l) \in {"pass", "fail"}
    PROVE  /\ AsksToken(l) /\ InvalidToken(l).outcome \notin {"error", "not_applicable"}
           /\ InvalidTokenRejected(l) = "pass" <=> InvalidToken(l).outcome = "supported"
  BY DEF InvalidTokenRejected, Verdict

LEMMA TokenShown ==
    ASSUME NEW l, Ran("auth", l), l # <<>>, Ends("auth", l), InvalidTokenRejected(l) = "fail"
    PROVE  \/ \E e \in ToSet(l) : e.req = "badTokenList" /\ Ok(e.ans)
           \/ \E e \in ToSet(l) : e.req = "anonymousInit" /\ TokenRefused(e.ans)
<1>1. /\ AsksToken(l) /\ InvalidToken(l).outcome \notin {"error", "not_applicable"}
      /\ InvalidToken(l).outcome # "supported"
  BY TokenVerdict
<1>2. /\ Probe("auth", l) = InvalidToken(l)
      /\ Asked(l) \in {"badTokenList", "badTokenInit", "anonymousInit"}
  BY <1>1, TokenTells
<1>3. \/ Asked(l) = "badTokenList" /\ Ok(Heard(l))
      \/ Asked(l) = "anonymousInit" /\ TokenRefused(Heard(l))
  BY <1>1, <1>2, TokenStep DEF Ends
<1>4. Len(l) \in 1 .. Len(l) /\ Asked(l) = l[Len(l)].req /\ Heard(l) = l[Len(l)].ans
  BY LastOfRun
<1>5. \A n \in 1 .. Len(l) : l[n] \in ToSet(l)
  BY OfPrefix
<1> QED
  BY <1>3, <1>4, <1>5

(* The answer to a request is one of the log. *)
LEMMA AnswerIsThere ==
    ASSUME NEW l, NEW r, HasAsked(l, r)
    PROVE  \E e \in ToSet(l) : e.req = r /\ e.ans = AnswerTo(l, r)
  BY DEF HasAsked, AnswerTo

LEMMA MetadataShown ==
    ASSUME NEW l, ProtectedResourceMetadata(l) = "fail"
    PROVE  \E e \in ToSet(l) : e.req \in ToSet(WellKnown) \cup {"reference"} /\ ~Raised(e.ans)
<1>1. MetadataOutcome(l) # "error"
  BY DEF ProtectedResourceMetadata, NeedsMetadata
<1> DEFINE at(i) == Candidates(l)[i]
           found == {i \in DOMAIN Candidates(l) : HasAsked(l, at(i)) /\ HasDocument(AnswerTo(l, at(i)))}
<1>2. found # {} \/ Reached(l)
  BY <1>1 DEF MetadataOutcome, FoundAt
<1>3. \E c \in ToSet(Candidates(l)) : HasAsked(l, c) /\ ~Raised(AnswerTo(l, c))
  <2>1. \A i \in DOMAIN Candidates(l) : Candidates(l)[i] \in ToSet(Candidates(l))
    BY DEF ToSet
  <2> QED
    BY <1>2, <2>1 DEF Reached, HasDocument
<1>4. \A c \in ToSet(Candidates(l)) : c \in ToSet(WellKnown) \cup {"reference"}
  BY CandidatesAre
<1> QED
  BY <1>3, <1>4, AnswerIsThere

----------------------------------------------------------------------------
(* Verdicts.                                                               *)

LEMMA VerdictFails ==
    ASSUME NEW r, NEW v
    PROVE  /\ Unless(SkipOf(r), v) = "fail" => r.outcome \notin {"error", "not_applicable"} /\ v = "fail"
           /\ Unless(SkipOf(r), v) = "pass" => r.outcome \notin {"error", "not_applicable"} /\ v = "pass"
           /\ Passes(r) = "fail" <=> r.outcome # "supported"
           /\ Passes(r) = "pass" <=> r.outcome = "supported"
  BY DEF Unless, SkipOf, Passes, Rated

(* A verdict on what only a modern server promises is of a modern server. *)
LEMMA BackedFails ==
    ASSUME NEW r, NEW s
    PROVE  /\ Backed(r, s) \in {"pass", "fail"} => Modern(s) /\ r.outcome \notin {"error", "not_applicable"}
           /\ BackedIfModernOnly(r, s) \in {"pass", "fail"} =>
                Modern(s) /\ r.outcome \notin {"error", "not_applicable"}
           /\ Backed(r, s) = "pass" => r.outcome = "supported"
<1>1. /\ Backed(r, s) \in {"pass", "fail"} => Modern(s) /\ r.outcome \notin {"error", "not_applicable"}
      /\ Backed(r, s) = "pass" => r.outcome = "supported"
  BY DEF Backed, Unless, SkipOf, Passes, Rated
<1> QED
  BY <1>1 DEF BackedIfModernOnly

(* What is judged over stdio has no rule that blames by a control; over HTTP *)
(* it is a run of its probe to the end.                                      *)
LEMMA JudgedRuns ==
    ASSUME Inv, NEW id \in Judging
    PROVE  \/ id = "list" /\ seen = Unjudged /\ results[id].outcome = "supported"
           \/ /\ id \in ProbeIds /\ results[id].log # <<>>
              /\ Ran(id, results[id].log) /\ Ends(id, results[id].log)
              /\ results[id].outcome = Probe(id, results[id].log).outcome
              /\ seen \in Contexts(id, results[id])
<1>1. id \in DOMAIN results /\ queue = <<>> /\ id \in Subjects /\ results[id].log # <<>>
  BY DEF Judging
<1>2. CASE transport = "stdio"
  BY <1>1, <1>2 DEF Inv, StdioRuns
<1>3. CASE transport = "http"
  <2>1. Concluded
    BY <1>1, <1>3 DEF Inv, HttpRuns, Running
  <2>2. /\ results[id] = ResultOf(id, results[id].log)
        /\ Ran(id, results[id].log) /\ Probe(id, results[id].log).ask = ""
        /\ seen \in Contexts(id, results[id])
    BY <1>1, <2>1 DEF Concluded
  <2>3. results[id].outcome = Probe(id, results[id].log).outcome
    <3>1. \A x, k : ResultOf(x, k).outcome = Probe(x, k).outcome
      BY DEF ResultOf
    <3>2. results[id] = ResultOf(id, results[id].log)
      BY <2>2
    <3> QED
      BY <3>1, <3>2
  <2> QED
    BY <1>1, <2>2, <2>3, ProbingAssumption DEF Ends
<1> QED
  BY <1>2, <1>3 DEF Inv

LEMMA FailureTells ==
    ASSUME NEW id \in {"origin", "host", "localBind", "invalidRequest", "getStream", "sessionDelete",
                       "queryCredential"},
           Fails(id)
    PROVE  results[id].outcome \notin {"error", "not_applicable"}
<1> DEFINE r == results[id]
<1>1. CASE id = "origin"
  <2>1. OriginHeaderValidation(r, seen) = "fail"
    BY <1>1 DEF Fails, Verdicts
  <2> QED
    BY <2>1, VerdictFails DEF OriginHeaderValidation
<1>2. CASE id \in {"host", "localBind"}
  <2>1. LocalExposure(r, seen) = "fail"
    BY <1>2 DEF Fails, Verdicts
  <2> QED
    BY <2>1, VerdictFails DEF LocalExposure
<1>3. CASE id = "invalidRequest"
  <2>1. InvalidRequestRule(r, seen) = "fail" \/ InvalidRequestErrorCode(r, seen) = "fail"
    BY <1>3 DEF Fails, Verdicts
  <2>2. TransportProbe(r, seen) \in {"pass", "fail"}
    BY <2>1 DEF InvalidRequestRule, InvalidRequestErrorCode
  <2> QED
    BY <2>2, VerdictFails DEF TransportProbe
<1>4. CASE id = "getStream"
  <2>1. TransportProbe(r, seen) = "fail"
    BY <1>4 DEF Fails, Verdicts, GetStreamRule
  <2> QED
    BY <2>1, VerdictFails DEF TransportProbe
<1>5. CASE id = "sessionDelete"
  <2>1. TransportProbe(r, seen) = "fail"
    BY <1>5 DEF Fails, Verdicts, SessionDeleteRule
  <2> QED
    BY <2>1, VerdictFails DEF TransportProbe
<1>6. CASE id = "queryCredential"
  <2>1. TokenNotInQuery(r.log, r.outcome, TRUE) = "fail"
    BY <1>6 DEF Fails, Verdicts
  <2> QED
    BY <2>1 DEF TokenNotInQuery
<1> QED
  BY <1>1, <1>2, <1>3, <1>4, <1>5, <1>6

LEMMA ModernIsBlamed ==
    ASSUME NEW id \in ForModern \ {"discover", "list"}, Fails(id)
    PROVE  Modern(seen)
<1> DEFINE r == results[id]
<1>1. CASE id = "malformedMeta"
  BY <1>1, BackedFails DEF Fails, Verdicts, MetaValidation
<1>2. CASE id = "headerMismatch"
  BY <1>2, BackedFails DEF Fails, Verdicts, HeaderValidation
<1>3. CASE id = "noVersion"
  BY <1>3, BackedFails DEF Fails, Verdicts, MissingProtocolVersionHeader
<1>4. CASE id \in {"noMethod", "nameMismatch"}
  BY <1>4, BackedFails DEF Fails, Verdicts, HeaderRequirement
<1>5. CASE id = "getStreamRemoved"
  BY <1>5, BackedFails DEF Fails, Verdicts, NoGetStream
<1>6. CASE id = "unknownVersion"
  BY <1>6, BackedFails DEF Fails, Verdicts, UnsupportedVersionError
<1>7. CASE id = "missingResource"
  <2>1. ErrorCodeMigration(r, seen) = "fail"
    BY <1>7 DEF Fails, Verdicts
  <2> QED
    BY <2>1, BackedFails DEF ErrorCodeMigration
<1>8. CASE id = "sessionEcho"
  BY <1>8, BackedFails DEF Fails, Verdicts, NoSessionId
<1>9. CASE id = "removedMethod"
  BY <1>9, BackedFails DEF Fails, Verdicts, RemovedMethods
<1>10. CASE id = "unknownMethod"
  BY <1>10, BackedFails DEF Fails, Verdicts, UnknownMethodError
<1> QED
  BY <1>1, <1>2, <1>3, <1>4, <1>5, <1>6, <1>7, <1>8, <1>9, <1>10 DEF ForModern

(* Blame needs evidence: a failure for want of a refusal has a request of    *)
(* the same shape that was served beside it, one for an invalid token a      *)
(* request that fares differently without it, one for missing metadata a     *)
(* location that answered, and one of what only a modern server promises a   *)
(* server that is modern (the docstrings of the security and auth probes,    *)
(* detect_era).                                                              *)
THEOREM EvidenceIsNeeded == Spec => []BlameNeedsEvidence
<1>1. ASSUME Inv, NEW id \in Judging
      PROVE  /\ Controls(id) # {} /\ Fails(id) => \E e \in Exchanges(id) : e.req \in Controls(id) /\ Accepted(e)
             /\ id = "auth" /\ InvalidTokenRejected(results[id].log) = "fail" =>
                  \/ \E e \in Exchanges(id) : e.req = "badTokenList" /\ Ok(e.ans)
                  \/ \E e \in Exchanges(id) : e.req = "anonymousInit" /\ TokenRefused(e.ans)
             /\ id = "auth" /\ ProtectedResourceMetadata(results[id].log) = "fail" =>
                  \E e \in Exchanges(id) : e.req \in ToSet(WellKnown) \cup {"reference"} /\ ~Raised(e.ans)
             /\ id \in ForModern \ {"discover", "list"} /\ Fails(id) =>
                  DetectEra(seen, IF id = "unknownVersion" THEN results[id] ELSE NotRun) \in {"modern", "dual"}
  <2> DEFINE l == results[id].log
  <2>1. id # "list" => /\ id \in ProbeIds /\ l # <<>> /\ Ran(id, l) /\ Ends(id, l)
                       /\ results[id].outcome = Probe(id, l).outcome
    BY <1>1, JudgedRuns
  <2>2. Exchanges(id) = ToSet(l)
    BY DEF Exchanges
  <2>3. ASSUME id = "auth", InvalidTokenRejected(l) = "fail"
        PROVE  \/ \E e \in ToSet(l) : e.req = "badTokenList" /\ Ok(e.ans)
               \/ \E e \in ToSet(l) : e.req = "anonymousInit" /\ TokenRefused(e.ans)
    BY <2>1, <2>3, TokenShown
  <2>4. ASSUME ProtectedResourceMetadata(l) = "fail"
        PROVE  \E e \in ToSet(l) : e.req \in ToSet(WellKnown) \cup {"reference"} /\ ~Raised(e.ans)
    BY <2>4, MetadataShown
  <2>5. ASSUME id \in ForModern \ {"discover", "list"}, Fails(id), NEW unknown
        PROVE  DetectEra(seen, unknown) \in {"modern", "dual"}
    BY <2>5, ModernIsBlamed DEF DetectEra
  <2>6. ASSUME Controls(id) # {}, Fails(id)
        PROVE  Shown(l, Controls(id))
    <3>1. id \in {"origin", "host", "localBind", "invalidRequest", "getStream", "sessionDelete",
                  "queryCredential"}
      BY <2>6, Zenon DEF Controls
    <3>2. Tells(id, l) /\ Ran(id, l) /\ l # <<>>
      BY <2>1, <2>6, <3>1, FailureTells DEF Tells
    <3>3. CASE id \in {"origin", "host"}
      <4>1. Controls(id) = Controlling
        BY <3>3 DEF Controls, Controlling
      <4> QED
        BY <3>2, <3>3, <4>1, SpoofShown
    <3>4. CASE id = "localBind"
      <4>1. Controls(id) = Controlling
        BY <3>4 DEF Controls, Controlling
      <4> QED
        BY <3>2, <3>4, <4>1, ReplayShown
    <3>5. CASE id = "invalidRequest"
      <4>1. Controls(id) = {"validRequest"}
        BY <3>5 DEF Controls
      <4> QED
        BY <3>2, <3>5, <4>1, InvalidRequestShown
    <3>6. CASE id \in {"getStream", "sessionDelete"}
      <4>1. Controls(id) = {"initialize"}
        BY <3>6 DEF Controls
      <4> QED
        BY <3>2, <3>6, <4>1, SessionShown
    <3>7. CASE id = "queryCredential"
      <4>1. Controls(id) = {"queryList", "queryInit"}
        BY <3>7 DEF Controls
      <4> QED
        BY <3>2, <3>7, <4>1, QueryShown
    <3> QED
      BY <3>1, <3>3, <3>4, <3>5, <3>6, <3>7
  <2> HIDE DEF l
  <2>7. /\ Controls(id) # {} /\ Fails(id) => \E e \in Exchanges(id) : e.req \in Controls(id) /\ Accepted(e)
        /\ id \in ForModern \ {"discover", "list"} /\ Fails(id) =>
             DetectEra(seen, IF id = "unknownVersion" THEN results[id] ELSE NotRun) \in {"modern", "dual"}
    BY <2>2, <2>5, <2>6 DEF Shown
  <2>8. /\ id = "auth" /\ InvalidTokenRejected(results[id].log) = "fail" =>
             \/ \E e \in Exchanges(id) : e.req = "badTokenList" /\ Ok(e.ans)
             \/ \E e \in Exchanges(id) : e.req = "anonymousInit" /\ TokenRefused(e.ans)
        /\ id = "auth" /\ ProtectedResourceMetadata(results[id].log) = "fail" =>
             \E e \in Exchanges(id) : e.req \in ToSet(WellKnown) \cup {"reference"} /\ ~Raised(e.ans)
    BY <2>2, <2>3, <2>4 DEF l
  <2> QED
    BY <2>7, <2>8
<1>2. Inv => BlameNeedsEvidence
  BY <1>1, Zenon DEF BlameNeedsEvidence
<1> QED
  BY <1>2, ProbesRun, PTL

----------------------------------------------------------------------------
(* Refusals.                                                               *)

LEMMA ServedIs200 ==
    ASSUME NEW a, Sound(a), a.body = "result"
    PROVE  a.status = 200
  BY DEF Sound

LEMMA AnsweredHasStatus ==
    ASSUME NEW a, Sound(a), ~Raised(a)
    PROVE  a.status \in 200 .. 599
  BY DEF Sound

LEMMA RefusalTurnsDown ==
    ASSUME NEW a, Sound(a), ~Raised(a), a.status \in 400 .. 499, ~Inconclusive(a)
    PROVE  TurnedDown(a)
<1>1. a.body = "result" => a.status = 200
  BY ServedIs200
<1>2. a.status # 200
  OBVIOUS
<1>3. a.body # "result"
  BY <1>1, <1>2
<1> QED
  BY <1>3 DEF TurnedDown

LEMMA StatusTurnsDown ==
    ASSUME NEW a, Sound(a), ~Raised(a), a.status \in {400, 401, 403, 404}
    PROVE  TurnedDown(a)
<1>1. a.status \in 400 .. 499 /\ ~Inconclusive(a)
  BY DEF Inconclusive
<1> QED
  BY <1>1, RefusalTurnsDown

LEMMA MustRefuseIs ==
    ASSUME NEW request, MustRefuse(request)
    PROVE  request \in Refusable
  BY OnlyRefusable DEF MustRefuse

(* A probe of one request has one exchange. *)
LEMMA OneExchange ==
    ASSUME NEW id \in OneRequestIds, NEW l, Ran(id, l), NEW i \in 1 .. Len(l)
    PROVE  i = Len(l)
<1>1. \A p : p # <<>> => Ends(id, p)
  BY OneRequestAsks DEF Ends
<1> QED
  BY <1>1, OfNext

(* The probes that are credited with one refusal. *)
LEMMA RefusalIsCredited ==
    ASSUME NEW l, l # <<>>
    PROVE  /\ MalformedMeta(l).outcome = "supported" => ~Raised(Heard(l)) /\ StatusIs(Heard(l), 400)
           /\ HeaderMismatch(l).outcome = "supported" => ~Raised(Heard(l)) /\ Heard(l).status = 400
           /\ MissingMethodHeader(l).outcome = "supported" => ~Raised(Heard(l)) /\ Heard(l).status = 400
           /\ RemovedMethod(l).outcome = "supported" => ~Raised(Heard(l)) /\ StatusIs(Heard(l), 404)
           /\ UnknownMethod(l).outcome = "supported" => ~Raised(Heard(l)) /\ StatusIs(Heard(l), 404)
<1>1. MalformedMeta(l).outcome = "supported" => ~Raised(Heard(l)) /\ StatusIs(Heard(l), 400)
  BY DEF MalformedMeta, OneRequest, Failed, Judged, Supported, Unsupported, Done
<1>2. HeaderMismatch(l).outcome = "supported" => ~Raised(Heard(l)) /\ Heard(l).status = 400
  BY DEF HeaderMismatch, OneRequest, Failed, Judged, Supported, Unsupported, Done
<1>3. MissingMethodHeader(l).outcome = "supported" => ~Raised(Heard(l)) /\ Heard(l).status = 400
  BY DEF MissingMethodHeader, HeaderValidationResult, OneRequest, Failed, NotApplicable, Judged, Supported,
     Unsupported, Done
<1>4. RemovedMethod(l).outcome = "supported" => ~Raised(Heard(l)) /\ StatusIs(Heard(l), 404)
  BY DEF RemovedMethod, OneRequest, Failed, Judged, Supported, Unsupported, Done
<1>5. UnknownMethod(l).outcome = "supported" => ~Raised(Heard(l)) /\ StatusIs(Heard(l), 404)
  BY DEF UnknownMethod, OneRequest, Failed, NotApplicable, Judged, Supported, Unsupported, Done
<1> QED
  BY <1>1, <1>2, <1>3, <1>4, <1>5

LEMMA OneRequestRefused ==
    ASSUME NEW id \in {"malformedMeta", "headerMismatch", "noMethod", "removedMethod", "unknownMethod"},
           NEW l, l # <<>>, Sound(Heard(l)), Probe(id, l).outcome = "supported"
    PROVE  TurnedDown(Heard(l))
<1>1. ~Raised(Heard(l)) /\ Heard(l).status \in {NoStatus, 400, 404}
  <2>1. \A s \in {400, 404} : StatusIs(Heard(l), s) => Heard(l).status \in {NoStatus, 400, 404}
    BY DEF StatusIs
  <2> QED
    BY <2>1, ProbeOf, RefusalIsCredited
<1>2. Heard(l).status # NoStatus
  <2>1. Heard(l).status \in 200 .. 599
    BY <1>1, AnsweredHasStatus
  <2>2. \A s \in 200 .. 599 : s # NoStatus
    BY DEF NoStatus
  <2> QED
    BY <2>1, <2>2, Zenon
<1> QED
  BY <1>1, <1>2, StatusTurnsDown

(* A header that disagrees is refused last, after its control. *)
LEMMA NameMismatchRefused ==
    ASSUME NEW l, Ran("nameMismatch", l), l # <<>>, Ends("nameMismatch", l),
           Probe("nameMismatch", l).outcome = "supported",
           NEW i \in 1 .. Len(l), l[i].req = "nameMismatch"
    PROVE  TurnedDown(l[i].ans)
<1>1. \A p : p # <<>> /\ Asked(p) = "nameMismatch" => Ends("nameMismatch", p)
  <2>1. \A p : p # <<>> /\ Asked(p) = "nameMismatch" => NameHeaderMismatch(p).ask = ""
    BY DEF NameHeaderMismatch, HeaderValidationResult, Failed, NotApplicable, Judged, Supported,
       Unsupported, Done
  <2> QED
    BY <2>1, ProbeOf DEF Ends
<1>2. i = Len(l)
  BY <1>1, OfNext
<1>3. Asked(l) = "nameMismatch" /\ Heard(l) = l[i].ans /\ Sound(Heard(l))
  BY <1>2, LastOfRun
<1>4. ~Raised(Heard(l)) /\ Heard(l).status = 400
  <2>1. NameHeaderMismatch(l).outcome = "supported" => ~Raised(Heard(l)) /\ Heard(l).status = 400
    BY <1>3 DEF NameHeaderMismatch, HeaderValidationResult, Failed, NotApplicable, Judged, Supported,
       Unsupported, Done, Ask
  <2> QED
    BY <2>1, ProbeOf
<1> QED
  BY <1>3, <1>4, StatusTurnsDown

(* A spoofed header likewise. *)
LEMMA SpoofRefused ==
    ASSUME NEW id \in {"origin", "host"}, NEW l, Ran(id, l), l # <<>>, Ends(id, l),
           Probe(id, l).outcome = "supported",
           NEW i \in 1 .. Len(l), MustRefuse(l[i].req)
    PROVE  TurnedDown(l[i].ans)
<1>1. Tells(id, l)
  BY DEF Tells
<1>2. l[i].req \in Spoofs
  <2>1. l[i].req \in Requests(id) /\ l[i].req \in Refusable
    BY OfPrefix, MustRefuseIs
  <2> QED
    BY <2>1 DEF Requests, Refusable, Spoofs
<1>3. i = Len(l) /\ Asked(l) \in Spoofs
  BY <1>1, <1>2, SpoofShown
<1>4. Heard(l) = l[i].ans /\ Sound(Heard(l)) /\ Asked(l) \notin {"control", "controlInit"}
  BY <1>3, LastOfRun DEF Spoofs
<1>5. ~Raised(Heard(l)) /\ Heard(l).status \in 400 .. 499 /\ ~Inconclusive(Heard(l))
  <2>1. OriginValidation(l).outcome = "supported" => ~Raised(Heard(l)) /\ Heard(l).status = 403
    BY <1>4 DEF OriginValidation, ClosingThen, Failed, Judged, Supported, Unsupported, Done, Ask
  <2>2. HostValidation(l).outcome = "supported" =>
          ~Raised(Heard(l)) /\ Heard(l).status \in 400 .. 499 /\ ~Inconclusive(Heard(l))
    BY <1>4 DEF HostValidation, ClosingThen, Failed, Judged, Supported, Unsupported, Done, Ask
  <2>3. Probe(id, l) = OriginValidation(l) \/ Probe(id, l) = HostValidation(l)
    BY ProbeOf
  <2>4. Heard(l).status = 403 => Heard(l).status \in 400 .. 499 /\ ~Inconclusive(Heard(l))
    BY DEF Inconclusive
  <2> QED
    BY <2>1, <2>2, <2>3, <2>4
<1> QED
  BY <1>4, <1>5, RefusalTurnsDown


----------------------------------------------------------------------------
(* Another address is credited only if every answer there was no service. *)
LEMMA ReplayNotServed ==
    ASSUME NEW a, NEW member, Sound(a), Replay(a, member) \notin {"served", "inconclusive", "unknown"}
    PROVE  NotServed(a)
<1>1. CASE Raised(a)
  <2>1. a.unread = ""
    BY <1>1 DEF Sound
  <2>2. a.raised = "refused" /\ a.status = NoStatus
    BY <1>1 DEF Replay
  <2>3. ~Inconclusive(a)
    BY <2>2 DEF Inconclusive, NoStatus
  <2> QED
    BY <2>1, <2>2, <2>3 DEF NotServed
<1>2. CASE ~Raised(a)
  <2>1. ~Inconclusive(a) /\ a.unread = ""
    BY <1>2 DEF Replay
  <2> QED
    BY <1>2, <2>1 DEF NotServed, Raised
<1> QED
  BY <1>1, <1>2

LEMMA InitOnce ==
    ASSUME NEW l, NEW r, r # "controlInit", WithControl(l, Ask(r)).ask = "controlInit"
    PROVE  ~HasAsked(l, "controlInit")
  BY DEF WithControl, ClosingThen, Failed, NotApplicable, Done, Ask

(* The control is the first request and its second try, if any, the second. *)
LEMMA ControlsOfLocalBind ==
    ASSUME NEW l, Ran("localBind", l), NEW i \in 1 .. Len(l)
    PROVE  /\ l[i].req = "control" <=> i = 1
           /\ l[i].req = "controlInit" => i = 2
<1>1. ASSUME NEW j \in 1 .. Len(l)
      PROVE  l[j].req = "control" <=> j = 1
  <2> DEFINE p == Before(l, j)
  <2>1. /\ LocalBind(p).ask = l[j].req /\ (p = <<>> <=> j = 1) /\ l[j].req \in Requests("localBind")
    BY OfPrefix, ProbeOf
  <2>2. CASE j = 1
    <3>1. LocalBind(p).ask \in {"control", ""}
      BY <2>1, <2>2, LocalBindStep, StepFields
    <3>2. "" \notin Requests("localBind")
      BY DEF Requests
    <3> QED
      BY <2>1, <2>2, <3>1, <3>2
  <2>3. CASE j # 1
    <3>1. /\ p # <<>>
      BY <2>1, <2>3
    <3>2. CASE Asked(p) \in Controlling
      <4>1. PICK r \in Replays : LocalBind(p) = WithControl(p, Ask(r))
        BY <3>1, <3>2, LocalBindStep DEF Replays
      <4>2. LocalBind(p).ask \notin {"controlInit", ""} => LocalBind(p).ask = r
        BY <4>1, WithControlIs
      <4> QED
        BY <2>1, <2>3, <4>2 DEF Replays
    <3>3. CASE Asked(p) \notin Controlling
      BY <2>1, <2>3, <3>1, <3>3, LocalBindStep
    <3> QED
      BY <3>2, <3>3
  <2> QED
    BY <2>2, <2>3
<1>2. ASSUME l[i].req = "controlInit"
      PROVE  i = 2
  <2> DEFINE p == Before(l, i)
  <2>1. LocalBind(p).ask = "controlInit" /\ i # 1 /\ p # <<>>
    <3>1. /\ LocalBind(p).ask = l[i].req /\ (p = <<>> <=> i = 1)
      BY OfPrefix, ProbeOf
    <3> QED
      BY <1>1, <1>2, <3>1
  <2>2. Asked(p) = l[i - 1].req /\ i - 1 \in 1 .. Len(l)
    BY <2>1, OfPrefix
  <2>3. Asked(p) \in Controlling
    BY <2>1, LocalBindStep
  <2>4. PICK r \in Replays : LocalBind(p) = WithControl(p, Ask(r))
    BY <2>1, <2>3, LocalBindStep DEF Replays
  <2>5. ~HasAsked(p, "controlInit")
    BY <2>1, <2>4, InitOnce DEF Replays
  <2>6. Asked(p) # "controlInit"
    <3>1. p \in Seq(Entries("localBind"))
      BY BeforeIs DEF Ran
    <3>2. HasAsked(p, Asked(p))
      BY <2>1, <3>1, HasAskedIs
    <3> QED
      BY <2>5, <3>2
  <2>7. i - 1 = 1
    BY <1>1, <2>2, <2>3, <2>6 DEF Controlling
  <2> QED
    BY <2>7
<1> QED
  BY <1>1, <1>2

(* All replays are of the kind of the control that was accepted. *)
LEMMA OneKindOfReplay ==
    ASSUME NEW l, Ran("localBind", l), NEW i \in 1 .. Len(l), l[i].req \in Replays
    PROVE  l[i].req = (IF HasAsked(l, "controlInit") THEN "replayInit" ELSE "replay")
<1> DEFINE p == Before(l, i)
<1>1. /\ LocalBind(p).ask = l[i].req /\ (p = <<>> <=> i = 1)
  BY OfPrefix, ProbeOf
<1>2. i # 1 /\ p # <<>>
  BY <1>1, ControlsOfLocalBind DEF Replays
<1>3. l[i].req = (IF HasAsked(p, "controlInit") THEN "replayInit" ELSE "replay")
  <2>1. CASE Asked(p) \in Controlling
    <3> DEFINE r == IF HasAsked(p, "controlInit") THEN "replayInit" ELSE "replay"
    <3>1. LocalBind(p) = WithControl(p, Ask(r))
      BY <1>2, <2>1, LocalBindStep
    <3>2. LocalBind(p).ask \notin {"controlInit", ""}
      BY <1>1 DEF Replays
    <3>3. ASSUME NEW x, LocalBind(p) = WithControl(p, Ask(x))
          PROVE  LocalBind(p).ask = x
      <4> HIDE DEF p
      <4> QED
        BY <3>2, <3>3, WithControlIs
    <3>4. LocalBind(p).ask = r
      BY <3>1, <3>3
    <3> QED
      BY <1>1, <3>4
  <2>2. CASE Asked(p) \notin Controlling
    <3>1. l[i].req # ""
      BY DEF Replays
    <3> QED
      BY <1>1, <1>2, <2>2, <3>1, LocalBindStep
  <2> QED
    BY <2>1, <2>2
<1>4. HasAsked(l, "controlInit") <=> HasAsked(p, "controlInit")
  <2>1. l \in Seq(Entries("localBind"))
    BY DEF Ran
  <2>2. /\ p \in Seq(Entries("localBind")) /\ Len(p) = i - 1
        /\ \A k \in 1 .. i - 1 : p[k] = l[k] /\ k \in 1 .. Len(l)
    BY <2>1, BeforeIs
  <2>3. \A k \in 1 .. Len(l) : l[k].req = "controlInit" => k = 2
    BY ControlsOfLocalBind
  <2>4. \A k \in 1 .. Len(l) : l[k].req = "controlInit" => k \in 1 .. i - 1
    <3>1. l[i].req # "controlInit"
      BY DEF Replays
    <3>2. i # 2 \/ \A k \in 1 .. Len(l) : l[k].req # "controlInit"
      BY <2>3, <3>1
    <3> QED
      BY <1>2, <2>3, <3>2
  <2>5. HasAsked(l, "controlInit") <=> \E k \in 1 .. Len(l) : l[k].req = "controlInit"
    BY <2>1, HasAskedIs
  <2>6. HasAsked(p, "controlInit") <=> \E k \in 1 .. i - 1 : p[k].req = "controlInit"
    BY <2>2, HasAskedIs
  <2> QED
    BY <2>2, <2>4, <2>5, <2>6
<1> QED
  BY <1>3, <1>4

LEMMA LocalBindCredit ==
    ASSUME NEW l, l # <<>>, Asked(l) \notin Controlling, LocalBind(l).outcome = "supported"
    PROVE  LET init == HasAsked(l, "controlInit")
           IN  \A i \in PlacesOf(l, IF init THEN "replayInit" ELSE "replay") :
                 Replay(l[i].ans, IF init THEN "protocolVersion" ELSE "supportedVersions")
                   \notin {"served", "inconclusive", "unknown"}
  BY DEF LocalBind, ClosingThen, Failed, Unsupported, Done, Ask, Controlling

LEMMA LocalBindRefused ==
    ASSUME NEW l, Ran("localBind", l), l # <<>>, Ends("localBind", l),
           Probe("localBind", l).outcome = "supported",
           NEW i \in 1 .. Len(l), MustRefuse(l[i].req)
    PROVE  NotServed(l[i].ans)
<1>1. Tells("localBind", l)
  BY DEF Tells
<1>2. l[i].req \in Replays /\ Sound(l[i].ans)
  <2>1. l[i].req \in Requests("localBind") /\ l[i].req \in Refusable /\ Sound(l[i].ans)
    BY OfPrefix, MustRefuseIs
  <2> QED
    BY <2>1 DEF Requests, Refusable, Replays
<1>3. Asked(l) \notin Controlling
  BY <1>1, ReplayShown DEF Replays, Controlling
<1>4. i \in PlacesOf(l, IF HasAsked(l, "controlInit") THEN "replayInit" ELSE "replay")
  <2>1. DOMAIN l = 1 .. Len(l)
    BY LengthIs DEF Ran
  <2> QED
    BY <1>2, <2>1, OneKindOfReplay DEF PlacesOf
<1>5. LocalBind(l).outcome = "supported"
  BY ProbeOf
<1>6. PICK member : Replay(l[i].ans, member) \notin {"served", "inconclusive", "unknown"}
  BY <1>3, <1>4, <1>5, LocalBindCredit
<1> QED
  BY <1>2, <1>6, ReplayNotServed

----------------------------------------------------------------------------
(* The requests that carry the invalid token, and the one without it. *)
Tokens == {"badTokenList", "badTokenInit", "anonymousInit"}

(* Once a token was sent, what the probe does is what InvalidToken does. *)
LEMMA TokenWasSent ==
    ASSUME NEW l, Ran("auth", l), NEW i \in 1 .. Len(l), l[i].req \in Tokens
    PROVE  \E k \in 1 .. i : l[k].req = "badTokenList"
<1>1. CASE l[i].req = "badTokenList"
  <2>1. i \in 1 .. i
    OBVIOUS
  <2> QED
    BY <1>1, <2>1
<1>2. CASE l[i].req # "badTokenList"
  <2> DEFINE p == Before(l, i)
  <2>1. AuthDiscovery(p).ask = l[i].req
    BY OfPrefix, ProbeOf
  <2>2. MetadataStep(p).ask \notin Tokens
    BY MetadataAsks DEF Tokens, ResourcePlaces, IssuerPlaces
  <2>3. Ask("anonymousList").ask \notin Tokens /\ NotApplicable.ask \notin Tokens
        /\ InvalidToken(<<>>).ask = "badTokenList"
    BY StepFields DEF Tokens, InvalidToken
  <2>4. HasAsked(p, "badTokenList")
    BY <1>2, <2>1, <2>2, <2>3 DEF AuthDiscovery
  <2>5. /\ p \in Seq(Entries("auth")) /\ Len(p) = i - 1
        /\ \A k \in 1 .. i - 1 : p[k] = l[k] /\ k \in 1 .. Len(l)
    BY BeforeIs DEF Ran
  <2>6. PICK k \in 1 .. i - 1 : p[k].req = "badTokenList"
    BY <2>4, <2>5, HasAskedIs
  <2>7. k \in 1 .. i
    OBVIOUS
  <2> QED
    BY <2>5, <2>6, <2>7
<1> QED
  BY <1>1, <1>2

LEMMA AfterToken ==
    ASSUME NEW l, Ran("auth", l), NEW i \in 1 .. Len(l), l[i].req \in Tokens, i # Len(l)
    PROVE  /\ InvalidToken(Before(l, i + 1)).ask = l[i + 1].req
           /\ InvalidToken(Before(l, i + 1)).ask # ""
           /\ Before(l, i + 1) # <<>> /\ i + 1 \in 1 .. Len(l)
           /\ Asked(Before(l, i + 1)) = l[i].req /\ Heard(Before(l, i + 1)) = l[i].ans
<1> DEFINE q == Before(l, i + 1)
<1>1. /\ i + 1 \in 1 .. Len(l) /\ q # <<>> /\ Asked(q) = l[i].req /\ Heard(q) = l[i].ans
      /\ Probe("auth", q).ask = l[i + 1].req /\ ~Ends("auth", q)
  BY OfNext
<1>2. PICK k \in 1 .. i : l[k].req = "badTokenList"
  BY TokenWasSent
<1>3. q \in Seq(Entries("auth")) /\ Len(q) = i + 1 - 1 /\ \A n \in 1 .. i + 1 - 1 : q[n] = l[n]
  <2>1. l \in Seq(Entries("auth"))
    BY DEF Ran
  <2>2. \A j \in 1 .. Len(l) : /\ Before(l, j) \in Seq(Entries("auth")) /\ Len(Before(l, j)) = j - 1
                              /\ \A n \in 1 .. j - 1 : Before(l, j)[n] = l[n]
    BY <2>1, BeforeIs
  <2> QED
    BY <1>1, <2>2
<1>4. k \in 1 .. Len(q) /\ q[k].req = "badTokenList"
  BY <1>2, <1>3
<1>5. HasAsked(q, "badTokenList")
  BY <1>3, <1>4, HasAskedIs
<1>6. AuthDiscovery(q) = InvalidToken(q)
  BY <1>1, <1>5 DEF AuthDiscovery
<1> QED
  BY <1>1, <1>6, ProbeOf DEF Ends

(* What InvalidToken goes on with. *)
LEMMA TokenGoesOn ==
    ASSUME NEW l, l # <<>>, InvalidToken(l).ask # ""
    PROVE  /\ Asked(l) # "anonymousInit" /\ ~Raised(Heard(l))
           /\ Asked(l) = "badTokenInit" => InvalidToken(l).ask = "anonymousInit"
           /\ Asked(l) = "badTokenList" => PlainRefusal(Heard(l))
<1>1. ~Raised(Heard(l))
  BY DEF InvalidToken, Failed, Done
<1>2. Asked(l) # "anonymousInit"
  BY DEF InvalidToken, ClosingThen, Failed, NotApplicable, Unsupported, Done
<1>3. Asked(l) = "badTokenInit" => InvalidToken(l).ask = "anonymousInit"
  BY DEF InvalidToken, ClosingThen, Failed, NotApplicable, Supported, Unsupported, Done, Ask
<1>4. Asked(l) = "badTokenList" => PlainRefusal(Heard(l))
  BY DEF InvalidToken, ClosingThen, Failed, NotApplicable, Supported, Unsupported, Done, Ask
<1> QED
  BY <1>1, <1>2, <1>3, <1>4

LEMMA TokenIsRefused ==
    ASSUME NEW a, Sound(a), ~Raised(a), TokenRefused(a)
    PROVE  TurnedDown(a)
<1>1. a.challenge = "invalid_token" => a.status = 400
  BY DEF Sound
<1>2. a.status \in {400, 401, 403}
  BY <1>1 DEF TokenRefused, Gated
<1> QED
  BY <1>2, StatusTurnsDown

(* A server that is credited refused the token each time it was sent. *)
LEMMA InvalidTokenRefused ==
    ASSUME NEW l, Ran("auth", l), l # <<>>, Ends("auth", l), InvalidTokenRejected(l) = "pass",
           NEW i \in 1 .. Len(l), MustRefuse(l[i].req)
    PROVE  TurnedDown(l[i].ans)
<1>1. AsksToken(l) /\ InvalidToken(l).outcome = "supported"
  BY TokenVerdict
<1>2. Probe("auth", l) = InvalidToken(l) /\ Asked(l) \in Tokens
  BY <1>1, TokenTells DEF Tokens
<1>3. Asked(l) # "anonymousInit" /\ ~Raised(Heard(l)) /\ TokenRefused(Heard(l))
  <2>1. InvalidToken(l).ask = ""
    BY <1>2 DEF Ends
  <2> QED
    BY <1>1, <1>2, <2>1, TokenStep DEF Tokens
<1>4. l[i].req \in {"badTokenList", "badTokenInit"} /\ Sound(l[i].ans)
  <2>1. l[i].req \in AuthRequests /\ l[i].req \in Refusable /\ Sound(l[i].ans)
    <3>1. Requests("auth") = AuthRequests
      BY DEF Requests
    <3> QED
      BY <3>1, OfPrefix, MustRefuseIs
  <2> QED
    BY <2>1 DEF AuthRequests, Refusable, ResourcePlaces, IssuerPlaces
<1>5. CASE i = Len(l)
  BY <1>3, <1>4, <1>5, LastOfRun, TokenIsRefused
<1>6. CASE i # Len(l)
  <2> DEFINE q == Before(l, i + 1)
  <2>1. /\ InvalidToken(q).ask = l[i + 1].req /\ InvalidToken(q).ask # "" /\ q # <<>>
        /\ i + 1 \in 1 .. Len(l) /\ Asked(q) = l[i].req /\ Heard(q) = l[i].ans
    BY <1>4, <1>6, AfterToken DEF Tokens
  <2>2. CASE l[i].req = "badTokenList"
    <3>1. ~Raised(l[i].ans) /\ PlainRefusal(l[i].ans)
      BY <2>1, <2>2, TokenGoesOn
    <3> QED
      BY <1>4, <3>1, RefusalTurnsDown DEF PlainRefusal
  <2>3. CASE l[i].req = "badTokenInit"
    <3>1. l[i + 1].req = "anonymousInit"
      BY <2>1, <2>3, TokenGoesOn
    <3>2. CASE i + 1 = Len(l)
      BY <1>3, <3>1, <3>2, LastOfRun
    <3>3. CASE i + 1 # Len(l)
      <4>1. PICK j \in 1 .. Len(l) : j = i + 1
        BY <2>1
      <4>2. /\ InvalidToken(Before(l, j + 1)).ask # "" /\ Before(l, j + 1) # <<>>
            /\ Asked(Before(l, j + 1)) = l[j].req
        BY <3>1, <3>3, <4>1, AfterToken DEF Tokens
      <4> QED
        BY <3>1, <4>1, <4>2, TokenGoesOn
    <3> QED
      BY <3>2, <3>3
  <2> QED
    BY <1>4, <2>2, <2>3
<1> QED
  BY <1>5, <1>6

(* A pass of the rules that judge by a refusal is a supported outcome. *)
LEMMA PassIsSupported ==
    ASSUME NEW id \in {"origin", "host", "localBind", "malformedMeta", "headerMismatch", "noMethod",
                       "nameMismatch", "removedMethod", "unknownMethod"},
           "pass" \in Verdicts(id), id = "origin" => RequiresForbidden(results[id], seen)
    PROVE  results[id].outcome = "supported"
<1> DEFINE r == results[id]
<1>1. CASE id = "origin"
  <2>1. OriginHeaderValidation(r, seen) = "pass"
    BY <1>1 DEF Verdicts
  <2>2. Unless(SkipOf(r), Passes(r)) = "pass"
    BY <1>1, <2>1 DEF OriginHeaderValidation
  <2> QED
    BY <2>2, VerdictFails
<1>2. CASE id \in {"host", "localBind"}
  <2>1. LocalExposure(r, seen) = "pass"
    BY <1>2 DEF Verdicts
  <2> QED
    BY <2>1, VerdictFails DEF LocalExposure
<1>3. CASE id = "malformedMeta"
  BY <1>3, BackedFails DEF Verdicts, MetaValidation
<1>4. CASE id = "headerMismatch"
  BY <1>4, BackedFails DEF Verdicts, HeaderValidation
<1>5. CASE id \in {"noMethod", "nameMismatch"}
  BY <1>5, BackedFails DEF Verdicts, HeaderRequirement
<1>6. CASE id = "removedMethod"
  BY <1>6, BackedFails DEF Verdicts, RemovedMethods
<1>7. CASE id = "unknownMethod"
  BY <1>7, BackedFails DEF Verdicts, UnknownMethodError
<1> QED
  BY <1>1, <1>2, <1>3, <1>4, <1>5, <1>6, <1>7

(* Where a server is credited with a refusal, it refused: each request that *)
(* it must refuse was turned down as such (the pass of the security and     *)
(* readiness rules on the probes that expect a refusal).                    *)
THEOREM PassesAreRefusals == Spec => []PassIsARefusal
<1>1. ASSUME Inv,
             NEW id \in Judging \cap {"origin", "host", "localBind", "auth", "malformedMeta", "headerMismatch",
                                      "noMethod", "nameMismatch", "removedMethod", "unknownMethod"},
             IF id = "auth" THEN InvalidTokenRejected(results[id].log) = "pass"
             ELSE "pass" \in Verdicts(id) /\ (id = "origin" => RequiresForbidden(results[id], seen)),
             NEW e \in Exchanges(id), MustRefuse(e.req)
      PROVE  IF id = "localBind" THEN NotServed(e.ans) ELSE TurnedDown(e.ans)
  <2> DEFINE l == results[id].log
  <2>1. /\ id \in ProbeIds /\ l # <<>> /\ Ran(id, l) /\ Ends(id, l)
        /\ results[id].outcome = Probe(id, l).outcome
    BY <1>1, JudgedRuns
  <2>2. PICK i \in 1 .. Len(l) : l[i] = e
    <3>1. DOMAIN l = 1 .. Len(l)
      BY <2>1, LengthIs DEF Ran
    <3> QED
      BY <3>1 DEF Exchanges, ToSet
  <2>3. id # "auth" => Probe(id, l).outcome = "supported"
    BY <1>1, <2>1, PassIsSupported
  <2>4. id = "auth" => InvalidTokenRejected(l) = "pass"
    BY <1>1
  <2>5. MustRefuse(l[i].req)
    BY <1>1, <2>2
  <2> HIDE DEF l
  <2>6. CASE id \in {"origin", "host"}
    BY <2>1, <2>2, <2>3, <2>5, <2>6, SpoofRefused
  <2>7. CASE id = "localBind"
    BY <2>1, <2>2, <2>3, <2>5, <2>7, LocalBindRefused
  <2>8. CASE id = "auth"
    BY <2>1, <2>2, <2>4, <2>5, <2>8, InvalidTokenRefused
  <2>9. CASE id \in {"malformedMeta", "headerMismatch", "noMethod", "removedMethod", "unknownMethod"}
    <3>1. i = Len(l)
      BY <2>1, <2>9, OneExchange DEF OneRequestIds
    <3>2. Sound(Heard(l)) /\ Heard(l) = l[i].ans
      BY <2>1, <3>1, LastOfRun
    <3> QED
      BY <2>1, <2>2, <2>3, <2>9, <3>2, OneRequestRefused
  <2>10. CASE id = "nameMismatch"
    <3>1. l[i].req = "nameMismatch"
      <4>1. l[i].req \in Requests("nameMismatch") /\ l[i].req \in Refusable
        BY <2>1, <2>5, <2>10, OfPrefix, MustRefuseIs
      <4> QED
        BY <4>1 DEF Requests, Refusable
    <3> QED
      BY <2>1, <2>2, <2>3, <2>10, <3>1, NameMismatchRefused
  <2> QED
    BY <2>6, <2>7, <2>8, <2>9, <2>10
<1>2. Inv => PassIsARefusal
  BY <1>1, Zenon DEF PassIsARefusal
<1> QED
  BY <1>2, ProbesRun, PTL

----------------------------------------------------------------------------
(* A server that conforms, on a network that may fail. *)
Fair(l) == \A e \in ToSet(l) : e.ans \in Right(e.req) \/ (Raised(e.ans) /\ e.req # "invalidRequest")

(* A step that no rule blames the server for. *)
Blameless(step) == step.outcome \in {"supported", "error", "not_applicable"}

LEMMA BlamelessSteps ==
    /\ Blameless(Supported) /\ Blameless(Failed) /\ Blameless(NotApplicable)
    /\ Blameless(ClosingThen(Supported)) /\ Blameless(ClosingThen(Failed))
    /\ Blameless(ClosingThen(NotApplicable))
    /\ Judged(TRUE) = Supported
  BY DEF Blameless, ClosingThen, Supported, Failed, NotApplicable, Judged, Done

LEMMA FairAt ==
    ASSUME NEW id, NEW l, Ran(id, l), Fair(l), NEW i \in 1 .. Len(l)
    PROVE  l[i].ans \in Right(l[i].req) \/ (Raised(l[i].ans) /\ l[i].req # "invalidRequest")
<1>1. l[i] \in ToSet(l)
  BY OfPrefix
<1> QED
  BY <1>1 DEF Fair

LEMMA FairLast ==
    ASSUME NEW id, NEW l, Ran(id, l), Fair(l), l # <<>>
    PROVE  Heard(l) \in Right(Asked(l)) \/ (Raised(Heard(l)) /\ Asked(l) # "invalidRequest")
<1>1. Len(l) \in 1 .. Len(l) /\ Asked(l) = l[Len(l)].req /\ Heard(l) = l[Len(l)].ans
  BY LastOfRun
<1>2. \A i \in 1 .. Len(l) : l[i].ans \in Right(l[i].req) \/ (Raised(l[i].ans) /\ l[i].req # "invalidRequest")
  BY FairAt
<1> QED
  BY <1>1, <1>2

(* What conforming answers are: refusals, *)
LEMMA RightIsRefusal ==
    ASSUME NEW request, Refusals(request) # {}
    PROVE  Right(request) = Refusals(request)
  BY DEF Right, MustRefuse

LEMMA FieldsOf ==
    /\ \A s : /\ Status(s).status = s /\ Status(s).body = "none"
    /\ \A s, c : Error(s, c).status = s /\ Error(s, c).body = "error" /\ Error(s, c).code = c
    /\ \A s, c : Error(s, c).has = {}
    /\ \A s, h : Result(s, h).status = s /\ Result(s, h).body = "result" /\ Result(s, h).has = h
    /\ \A s, h : ~Result(s, h).session
<1>1. \A s : Status(s).status = s /\ Status(s).body = "none"
  BY DEF Status, Blank
<1>2. \A s, c : Error(s, c).status = s /\ Error(s, c).body = "error" /\ Error(s, c).code = c
  BY DEF Error, Blank
<1>3. \A s, c : Error(s, c).has = {}
  BY DEF Error, Blank
<1>4. \A s, h : Result(s, h).status = s /\ Result(s, h).body = "result" /\ Result(s, h).has = h
  BY DEF Result, Blank
<1>5. \A s, h : ~Result(s, h).session
  BY DEF Result, Blank
<1> QED
  BY <1>1, <1>2, <1>3, <1>4, <1>5

LEMMA StatusesAre ==
    /\ \A a : a.status \in {200, 202, 400, 404, 405} => ~Gated(a) /\ ~Redirect(a)
    /\ \A a : a.status \in {401, 403} => Gated(a) /\ ~Ok(a)
    /\ \A a : a.status = 404 => ~Ok(a)
    /\ \A a : a.status = 200 => Ok(a)
<1>1. \A a : a.status \in {200, 202, 400, 404, 405} => ~Gated(a)
  BY DEF Gated
<1>2. \A a : a.status \in {200, 202, 400, 404, 405} => ~Redirect(a)
  BY DEF Redirect
<1>3. \A a : a.status \in {401, 403} => Gated(a)
  BY DEF Gated
<1>4. \A a : a.status \in {401, 403, 404} => ~Ok(a)
  BY DEF Ok
<1>5. \A a : a.status = 200 => Ok(a)
  BY DEF Ok
<1> QED
  BY <1>1, <1>2, <1>3, <1>4, <1>5

LEMMA RightRefusals ==
    /\ \A a \in Right("malformedMeta") : StatusIs(a, 400) /\ a.code = "invalid_params"
    /\ \A a \in Right("headerMismatch") : a.status = 400 /\ a.code = "header_mismatch"
    /\ \A request \in {"noVersion", "noMethod", "nameMismatch"} : \A a \in Right(request) :
         Gated(a) \/ (a.status = 400 /\ a.code = "header_mismatch")
    /\ \A a \in Right("getStream") : a.status = 405
    /\ \A a \in Right("unknownVersion") :
         a.code = "unsupported_version" /\ {"supported", "requested"} \subseteq a.has
    /\ \A request \in {"missingResource", "badCursor"} : \A a \in Right(request) : a.code = "invalid_params"
    /\ \A request \in {"removedMethod", "unknownMethod"} : \A a \in Right(request) :
         StatusIs(a, 404) /\ a.code = "method_not_found"
    /\ \A a \in Right("brokenJson") : a.code = "parse_error" /\ "id" \notin a.has /\ a.body = "error"
    /\ \A request \in Spoofs : \A a \in Right(request) : a.status = 403
    /\ \A request \in Replays : \A a \in Right(request) : Raised(a) \/ ~Ok(a)
    /\ \A a \in Right("invalidRequest") :
         /\ ~Gated(a) /\ ~Redirect(a) /\ a.body = "error" /\ a.status < 500
         /\ a.status # 404 /\ a.code = "invalid_request"
    /\ \A a \in Right("afterDelete") :
         ~Gated(a) /\ ~Redirect(a) /\ ~Ok(a) /\ a.body # "result" /\ a.status = 404
<1>1. ASSUME NEW a \in Right("malformedMeta")
      PROVE  StatusIs(a, 400) /\ a.code = "invalid_params"
  <2>1. a = Error(400, "invalid_params")
    BY RightIsRefusal, RefusalsOf
  <2> QED
    BY <2>1, FieldsOf DEF StatusIs
<1>2. ASSUME NEW a \in Right("headerMismatch")
      PROVE  a.status = 400 /\ a.code = "header_mismatch"
  <2>1. a = Error(400, "header_mismatch")
    BY RightIsRefusal, RefusalsOf
  <2> QED
    BY <2>1, FieldsOf
<1>3. ASSUME NEW request \in {"noVersion", "noMethod", "nameMismatch"}, NEW a \in Right(request)
      PROVE  Gated(a) \/ (a.status = 400 /\ a.code = "header_mismatch")
  <2>1. a = Error(400, "header_mismatch") \/ a = Status(401)
    BY <1>3, RightIsRefusal, RefusalsOf
  <2> QED
    BY <2>1, FieldsOf, StatusesAre
<1>4. ASSUME NEW a \in Right("getStream")
      PROVE  a.status = 405
  <2>1. a = Status(405)
    BY RightIsRefusal, RefusalsOf
  <2> QED
    BY <2>1, FieldsOf
<1>5. ASSUME NEW a \in Right("unknownVersion")
      PROVE  a.code = "unsupported_version" /\ {"supported", "requested"} \subseteq a.has
  <2>1. a = UnsupportedVersion
    BY RightIsRefusal, RefusalsOf
  <2>2. UnsupportedVersion.code = "unsupported_version"
    BY DEF UnsupportedVersion, Error, Blank
  <2>3. UnsupportedVersion.has = {"supported", "requested"}
    BY DEF UnsupportedVersion, Error, Blank
  <2> QED
    BY <2>1, <2>2, <2>3
<1>6. ASSUME NEW request \in {"missingResource", "badCursor"}, NEW a \in Right(request)
      PROVE  a.code = "invalid_params"
  <2>1. a = Error(200, "invalid_params")
    BY <1>6, RightIsRefusal, RefusalsOf
  <2> QED
    BY <2>1, FieldsOf
<1>7. ASSUME NEW request \in {"removedMethod", "unknownMethod"}, NEW a \in Right(request)
      PROVE  StatusIs(a, 404) /\ a.code = "method_not_found"
  <2>1. a = Error(404, "method_not_found")
    BY <1>7, RightIsRefusal, RefusalsOf
  <2> QED
    BY <2>1, FieldsOf DEF StatusIs
<1>8. ASSUME NEW a \in Right("brokenJson")
      PROVE  a.code = "parse_error" /\ "id" \notin a.has /\ a.body = "error"
  <2>1. a = Error(400, "parse_error")
    BY RightIsRefusal, RefusalsOf
  <2> QED
    BY <2>1, FieldsOf
<1>9. ASSUME NEW request \in Spoofs, NEW a \in Right(request)
      PROVE  a.status = 403
  <2>1. a = Status(403)
    BY <1>9, RightIsRefusal, RefusalsOf DEF Spoofs
  <2> QED
    BY <2>1, FieldsOf
<1>10. ASSUME NEW request \in Replays, NEW a \in Right(request)
       PROVE  Raised(a) \/ ~Ok(a)
  <2>1. a = Status(403) \/ a = Raises("refused")
    BY <1>10, RightIsRefusal, RefusalsOf DEF Replays
  <2>2. Raised(Raises("refused"))
    BY DEF Raised, Raises, Blank
  <2> QED
    BY <2>1, <2>2, FieldsOf, StatusesAre
<1>11. ASSUME NEW a \in Right("invalidRequest")
       PROVE  /\ ~Gated(a) /\ ~Redirect(a) /\ a.body = "error" /\ a.status < 500
              /\ a.status # 404 /\ a.code = "invalid_request"
  <2>1. a = Error(400, "invalid_request") \/ a = Error(200, "invalid_request")
    BY RightIsRefusal, RefusalsOf
  <2>2. a.status \in {200, 400} /\ a.body = "error" /\ a.code = "invalid_request"
    BY <2>1, FieldsOf
  <2> QED
    BY <2>2, StatusesAre
<1>12. ASSUME NEW a \in Right("afterDelete")
       PROVE  ~Gated(a) /\ ~Redirect(a) /\ ~Ok(a) /\ a.body # "result" /\ a.status = 404
  <2>1. a = Status(404)
    BY RightIsRefusal, RefusalsOf
  <2>2. a.status = 404 /\ a.body = "none"
    BY <2>1, FieldsOf
  <2> QED
    BY <2>2, StatusesAre
<1> QED
  BY <1>1, <1>2, <1>3, <1>4, <1>5, <1>6, <1>7, <1>8, <1>9, <1>10, <1>11, <1>12

(* ... what is served or accepted, *)
LEMMA RightServices ==
    /\ Right("discover") = {Result(200, Members("discover"))}
    /\ Right("list") = {Result(200, Members("list"))}
    /\ Right("sessionEcho") = {Result(200, Members("sessionEcho"))}
    /\ Right("initialized") = {Status(202)}
    /\ Right("notification") = {Status(202)}
    /\ Right("openStream") = {Status(405), Result(200, {"stream"})}
    /\ Right("delete") = {Status(200), Status(405)}
<1>1. \A request \in {"discover", "list", "sessionEcho", "initialized", "notification", "openStream", "delete"} :
        ~MustRefuse(request) /\ request \notin ListRequests
  BY OnlyRefusable DEF MustRefuse, Refusable, ListRequests, Lists
<1>2. Right("discover") = {Result(200, Members("discover"))}
  BY <1>1 DEF Right
<1>3. Right("list") = {Result(200, Members("list"))}
  BY <1>1 DEF Right
<1>4. Right("sessionEcho") = {Result(200, Members("sessionEcho"))}
  BY <1>1 DEF Right
<1>5. Right("initialized") = {Status(202)}
  BY <1>1 DEF Right
<1>6. Right("notification") = {Status(202)}
  BY <1>1 DEF Right
<1>7. Right("openStream") = {Status(405), Result(200, {"stream"})}
  BY <1>1 DEF Right
<1>8. Right("delete") = {Status(200), Status(405)}
  BY <1>1 DEF Right
<1> QED
  BY <1>2, <1>3, <1>4, <1>5, <1>6, <1>7, <1>8

LEMMA RightMembers ==
    /\ \A a \in Right("discover") :
         /\ Serves(a, "supportedVersions")
         /\ {"versions", "negotiated", "ttl", "scope", "complete", "json"} \subseteq a.has
    /\ \A a \in Right("list") :
         Serves(a, "tools") /\ {"ttl", "scope", "complete", "json"} \subseteq a.has
    /\ \A a \in Right("sessionEcho") : Serves(a, "tools") /\ ~a.session
    /\ \A request \in {"initialized", "notification"} : \A a \in Right(request) :
         ~Redirect(a) /\ ~Gated(a) /\ a.status = 202 /\ a.body = "none"
    /\ \A a \in Right("openStream") :
         ~Redirect(a) /\ ~Gated(a) /\ a.status # 404 /\ (a.status = 405 \/ (Ok(a) /\ "stream" \in a.has))
    /\ \A a \in Right("delete") : ~Redirect(a) /\ ~Gated(a) /\ a.status # 404 /\ (a.status = 405 \/ Ok(a))
<1>1. ASSUME NEW a \in Right("discover")
      PROVE  /\ Serves(a, "supportedVersions")
             /\ {"versions", "negotiated", "ttl", "scope", "complete", "json"} \subseteq a.has
  <2>1. a.body = "result" /\ a.has = Members("discover")
    BY RightServices, FieldsOf
  <2>2. {"supportedVersions", "versions", "negotiated", "ttl", "scope", "complete", "json"}
          \subseteq Members("discover")
    BY DEF Members
  <2> QED
    BY <2>1, <2>2 DEF Serves
<1>2. ASSUME NEW a \in Right("list")
      PROVE  Serves(a, "tools") /\ {"ttl", "scope", "complete", "json"} \subseteq a.has
  <2>1. a.body = "result" /\ a.has = Members("list")
    BY RightServices, FieldsOf
  <2>2. {"tools", "ttl", "scope", "complete", "json"} \subseteq Members("list")
    BY DEF Members
  <2> QED
    BY <2>1, <2>2 DEF Serves
<1>3. ASSUME NEW a \in Right("sessionEcho")
      PROVE  Serves(a, "tools") /\ ~a.session
  <2>1. a.body = "result" /\ a.has = Members("sessionEcho") /\ ~a.session
    BY RightServices, FieldsOf
  <2>2. "tools" \in Members("sessionEcho")
    BY DEF Members
  <2> QED
    BY <2>1, <2>2 DEF Serves
<1>4. ASSUME NEW request \in {"initialized", "notification"}, NEW a \in Right(request)
      PROVE  ~Redirect(a) /\ ~Gated(a) /\ a.status = 202 /\ a.body = "none"
  <2>1. a.status = 202 /\ a.body = "none"
    BY <1>4, RightServices, FieldsOf
  <2> QED
    BY <2>1, StatusesAre
<1>5. ASSUME NEW a \in Right("openStream")
      PROVE  ~Redirect(a) /\ ~Gated(a) /\ a.status # 404 /\ (a.status = 405 \/ (Ok(a) /\ "stream" \in a.has))
  <2>1. a = Status(405) \/ a = Result(200, {"stream"})
    BY RightServices
  <2>2. a.status = 405 \/ (a.status = 200 /\ a.has = {"stream"})
    BY <2>1, FieldsOf
  <2> QED
    BY <2>2, StatusesAre
<1>6. ASSUME NEW a \in Right("delete")
      PROVE  ~Redirect(a) /\ ~Gated(a) /\ a.status # 404 /\ (a.status = 405 \/ Ok(a))
  <2>1. a.status \in {200, 405}
    BY RightServices, FieldsOf
  <2> QED
    BY <2>1, StatusesAre
<1> QED
  BY <1>1, <1>2, <1>3, <1>4, <1>5, <1>6

(* A probe of one request blames no server that conforms. *)
LEMMA OneRequestIsFair ==
    ASSUME NEW id \in OneRequestIds, NEW l, l # <<>>,
           Heard(l) \in Right(Only(id)) \/ Raised(Heard(l))
    PROVE  Blameless(Probe(id, l))
<1>1. CASE id = "discover"
  <2>1. Raised(Heard(l)) \/ Serves(Heard(l), "supportedVersions")
    BY <1>1, RightMembers DEF Only
  <2>2. Blameless(Discover(l))
    BY <2>1, BlamelessSteps DEF Discover, OneRequest, Judged
  <2> QED
    BY <1>1, <2>2, ProbeOf
<1>2. CASE id = "list"
  <2>1. Raised(Heard(l)) \/ Serves(Heard(l), "tools")
    BY <1>2, RightMembers DEF Only
  <2>2. Blameless(StatelessList(l))
    BY <2>1, BlamelessSteps DEF StatelessList, OneRequest, Judged
  <2> QED
    BY <1>2, <2>2, ProbeOf
<1>3. CASE id = "malformedMeta"
  <2>1. Raised(Heard(l)) \/ (StatusIs(Heard(l), 400) /\ Heard(l).code = "invalid_params")
    BY <1>3, RightRefusals DEF Only
  <2>2. Blameless(MalformedMeta(l))
    BY <2>1, BlamelessSteps DEF MalformedMeta, OneRequest, Judged
  <2> QED
    BY <1>3, <2>2, ProbeOf
<1>4. CASE id = "headerMismatch"
  <2>1. Raised(Heard(l)) \/ (Heard(l).status = 400 /\ Heard(l).code = "header_mismatch")
    BY <1>4, RightRefusals DEF Only
  <2>2. Blameless(HeaderMismatch(l))
    BY <2>1, BlamelessSteps DEF HeaderMismatch, OneRequest, Judged
  <2> QED
    BY <1>4, <2>2, ProbeOf
<1>5. CASE id = "noVersion"
  <2>1. Raised(Heard(l)) \/ Gated(Heard(l)) \/ (Heard(l).status = 400 /\ Heard(l).code = "header_mismatch")
    BY <1>5, RightRefusals DEF Only
  <2>2. Blameless(MissingProtocolVersion(l))
    BY <2>1, BlamelessSteps DEF MissingProtocolVersion, HeaderValidationResult, OneRequest, Judged
  <2> QED
    BY <1>5, <2>2, ProbeOf
<1>6. CASE id = "noMethod"
  <2>1. Raised(Heard(l)) \/ Gated(Heard(l)) \/ (Heard(l).status = 400 /\ Heard(l).code = "header_mismatch")
    BY <1>6, RightRefusals DEF Only
  <2>2. Blameless(MissingMethodHeader(l))
    BY <2>1, BlamelessSteps DEF MissingMethodHeader, HeaderValidationResult, OneRequest, Judged
  <2> QED
    BY <1>6, <2>2, ProbeOf
<1>7. CASE id = "getStreamRemoved"
  <2>1. Raised(Heard(l)) \/ Heard(l).status = 405
    BY <1>7, RightRefusals DEF Only
  <2>2. Blameless(GetStreamRemoved(l))
    BY <2>1, BlamelessSteps DEF GetStreamRemoved, OneRequest, Judged
  <2> QED
    BY <1>7, <2>2, ProbeOf
<1>8. CASE id = "unknownVersion"
  <2>1. \/ Raised(Heard(l))
        \/ Heard(l).code = "unsupported_version" /\ {"supported", "requested"} \subseteq Heard(l).has
    BY <1>8, RightRefusals DEF Only
  <2>2. Blameless(UnknownVersion(l))
    BY <2>1, BlamelessSteps DEF UnknownVersion, OneRequest, Judged
  <2> QED
    BY <1>8, <2>2, ProbeOf
<1>9. CASE id = "missingResource"
  <2>1. Raised(Heard(l)) \/ Heard(l).code = "invalid_params"
    BY <1>9, RightRefusals DEF Only
  <2>2. Blameless(MissingResource(l))
    BY <2>1, BlamelessSteps DEF MissingResource, OneRequest, Judged
  <2> QED
    BY <1>9, <2>2, ProbeOf
<1>10. CASE id \in {"toolsCursor", "templatesCursor"}
  <2>1. Raised(Heard(l)) \/ Heard(l).code = "invalid_params"
    BY <1>10, RightRefusals DEF Only
  <2>2. \A method : Blameless(InvalidCursor(l, method))
    BY <2>1, BlamelessSteps DEF InvalidCursor, OneRequest, Judged
  <2> QED
    BY <1>10, <2>2, ProbeOf
<1>11. CASE id = "sessionEcho"
  <2>1. Raised(Heard(l)) \/ (Serves(Heard(l), "tools") /\ ~Heard(l).session)
    BY <1>11, RightMembers DEF Only
  <2>2. Blameless(SessionIdEcho(l))
    BY <2>1, BlamelessSteps DEF SessionIdEcho, OneRequest, Judged
  <2> QED
    BY <1>11, <2>2, ProbeOf
<1>12. CASE id = "removedMethod"
  <2>1. Raised(Heard(l)) \/ (StatusIs(Heard(l), 404) /\ Heard(l).code = "method_not_found")
    BY <1>12, RightRefusals DEF Only
  <2>2. Blameless(RemovedMethod(l))
    BY <2>1, BlamelessSteps DEF RemovedMethod, OneRequest, Judged
  <2> QED
    BY <1>12, <2>2, ProbeOf
<1>13. CASE id = "unknownMethod"
  <2>1. Raised(Heard(l)) \/ (StatusIs(Heard(l), 404) /\ Heard(l).code = "method_not_found")
    BY <1>13, RightRefusals DEF Only
  <2>2. Blameless(UnknownMethod(l))
    BY <2>1, BlamelessSteps DEF UnknownMethod, OneRequest, Judged
  <2> QED
    BY <1>13, <2>2, ProbeOf
<1> QED
  BY <1>1, <1>2, <1>3, <1>4, <1>5, <1>6, <1>7, <1>8, <1>9, <1>10, <1>11, <1>12, <1>13 DEF OneRequestIds

(* Nor do those of two requests, *)
LEMMA NameMismatchIsFair ==
    ASSUME NEW l, l # <<>>, Ends("nameMismatch", l),
           Heard(l) \in Right(Asked(l)) \/ Raised(Heard(l))
    PROVE  Blameless(Probe("nameMismatch", l))
<1>1. NameHeaderMismatch(l).ask = ""
  BY ProbeOf DEF Ends
<1>2. CASE Asked(l) = "nameMismatch"
  <2>1. Raised(Heard(l)) \/ Gated(Heard(l)) \/ (Heard(l).status = 400 /\ Heard(l).code = "header_mismatch")
    BY <1>2, RightRefusals
  <2>2. Blameless(NameHeaderMismatch(l))
    BY <1>2, <2>1, BlamelessSteps DEF NameHeaderMismatch, HeaderValidationResult, Judged
  <2> QED
    BY <2>2, ProbeOf
<1>3. CASE Asked(l) # "nameMismatch"
  <2>1. NameHeaderMismatch(l) \in {Failed, NotApplicable, Ask("nameMismatch")}
    BY <1>3 DEF NameHeaderMismatch
  <2>2. Ask("nameMismatch").ask # ""
    BY StepFields
  <2>3. NameHeaderMismatch(l) # Ask("nameMismatch")
    BY <1>1, <2>2
  <2>4. Blameless(NameHeaderMismatch(l))
    BY <2>1, <2>3, BlamelessSteps
  <2> QED
    BY <2>4, ProbeOf
<1> QED
  BY <1>2, <1>3

LEMMA MalformedJsonIsFair ==
    ASSUME NEW l, Ran("malformedJson", l), l # <<>>, Ends("malformedJson", l),
           Heard(l) \in Right(Asked(l)) \/ Raised(Heard(l))
    PROVE  Blameless(Probe("malformedJson", l))
<1>1. MalformedJson(l).ask = ""
  BY ProbeOf DEF Ends
<1>2. Asked(l) \in {"jsonControl", "brokenJson"}
  BY LastOfRun DEF Requests
<1>3. CASE Asked(l) = "brokenJson"
  <2>1. \/ Raised(Heard(l))
        \/ Heard(l).code = "parse_error" /\ "id" \notin Heard(l).has /\ Heard(l).body = "error"
    BY <1>3, RightRefusals
  <2>2. MalformedJson(l) \in {Failed, NotApplicable, Judged(TRUE)}
    BY <1>3, <2>1 DEF MalformedJson
  <2>3. Blameless(MalformedJson(l))
    BY <2>2, BlamelessSteps
  <2> QED
    BY <2>3, ProbeOf
<1>4. CASE Asked(l) = "jsonControl"
  <2>1. MalformedJson(l) \in {Failed, Ask("brokenJson")}
    BY <1>4 DEF MalformedJson
  <2>2. Ask("brokenJson").ask # ""
    BY StepFields
  <2>3. Blameless(MalformedJson(l))
    BY <1>1, <2>1, <2>2, BlamelessSteps
  <2> QED
    BY <2>3, ProbeOf
<1> QED
  BY <1>2, <1>3, <1>4

(* those that spoof a header, *)
LEMMA SpoofIsFair ==
    ASSUME NEW id \in {"origin", "host"}, NEW l, Ran(id, l), l # <<>>, Ends(id, l),
           Heard(l) \in Right(Asked(l)) \/ Raised(Heard(l))
    PROVE  /\ Blameless(Probe(id, l))
           /\ Tells(id, l) => Heard(l).status = 403
<1>1. CASE ~Tells(id, l)
  BY <1>1 DEF Tells, Blameless
<1>2. CASE Tells(id, l)
  <2>1. Asked(l) \in Spoofs
    BY <1>2, SpoofShown
  <2>2. Asked(l) \notin {"control", "controlInit"}
    BY <2>1 DEF Spoofs
  <2>3. Raised(Heard(l)) \/ Heard(l).status = 403
    BY <2>1, RightRefusals
  <2>4. /\ OriginValidation(l) \in {Failed, ClosingThen(Judged(TRUE))}
        /\ Raised(Heard(l)) => OriginValidation(l) = Failed
    BY <2>2, <2>3 DEF OriginValidation
  <2>5. /\ HostValidation(l) \in {Failed, ClosingThen(Failed), ClosingThen(Judged(TRUE))}
        /\ Raised(Heard(l)) => HostValidation(l) = Failed
    <3>1. Heard(l).status = 403 => Heard(l).status \in 400 .. 499
      OBVIOUS
    <3> QED
      BY <2>2, <2>3, <3>1 DEF HostValidation
  <2>6. Probe(id, l) \in {OriginValidation(l), HostValidation(l)}
    BY ProbeOf
  <2>7. Blameless(OriginValidation(l)) /\ Blameless(HostValidation(l))
    BY <2>4, <2>5, BlamelessSteps
  <2>8. ~Raised(Heard(l))
    <3>1. Raised(Heard(l)) => Probe(id, l) = Failed
      BY <2>4, <2>5, <2>6
    <3>2. Failed.outcome = "error"
      BY StepFields
    <3> QED
      BY <1>2, <3>1, <3>2 DEF Tells
  <2> QED
    BY <2>3, <2>6, <2>7, <2>8
<1> QED
  BY <1>1, <1>2

(* those that try another address, *)
LEMMA LocalBindIsFair ==
    ASSUME NEW l, Ran("localBind", l), l # <<>>, Ends("localBind", l), Fair(l)
    PROVE  Blameless(Probe("localBind", l))
<1>1. CASE ~Tells("localBind", l)
  BY <1>1 DEF Tells, Blameless
<1>2. CASE Tells("localBind", l)
  <2>1. Asked(l) \notin {"control", "controlInit"}
    BY <1>2, ReplayShown DEF Replays
  <2>2. \A a, member : Raised(a) \/ ~Ok(a) => Replay(a, member) # "served"
    BY DEF Replay
  <2>3. \A r \in Replays : \A i \in PlacesOf(l, r) : Raised(l[i].ans) \/ ~Ok(l[i].ans)
    <3>1. DOMAIN l = 1 .. Len(l)
      BY LengthIs DEF Ran
    <3> QED
      BY <3>1, FairAt, RightRefusals DEF PlacesOf
  <2>4. LocalBind(l) \in {ClosingThen(Ask("replay")), ClosingThen(Ask("replayInit")), ClosingThen(Failed),
                          ClosingThen(Supported)}
    BY <2>1, <2>2, <2>3 DEF LocalBind, Replays
  <2>5. ClosingThen(Ask("replay")).ask # "" /\ ClosingThen(Ask("replayInit")).ask # ""
    BY DEF ClosingThen, Ask
  <2>6. LocalBind(l).ask = "" /\ Probe("localBind", l) = LocalBind(l)
    BY ProbeOf DEF Ends
  <2> QED
    BY <2>4, <2>5, <2>6, BlamelessSteps
<1> QED
  BY <1>1, <1>2

(* those in a legacy session, *)
LEMMA NotificationIsFair ==
    ASSUME NEW l, Ran("notification", l), l # <<>>, Ends("notification", l),
           Heard(l) \in Right(Asked(l)) \/ Raised(Heard(l))
    PROVE  Blameless(Probe("notification", l))
<1>1. NotificationAccepted(l).ask = "" /\ Probe("notification", l) = NotificationAccepted(l)
  BY ProbeOf DEF Ends
<1>2. Asked(l) \in {"initialize", "initialized", "notification"}
  BY LastOfRun DEF Requests
<1>3. Ask("initialized").ask # "" /\ ClosingThen(Ask("notification")).ask # ""
  BY DEF ClosingThen, Ask
<1>4. CASE Asked(l) = "initialize"
  <2>1. NotificationAccepted(l) \in {Failed, Ask("initialized"), ClosingThen(NotApplicable),
                                     ClosingThen(Ask("notification"))}
    BY <1>4 DEF NotificationAccepted
  <2> QED
    BY <1>1, <1>3, <2>1, BlamelessSteps
<1>5. CASE Asked(l) # "initialize"
  <2>1. Raised(Heard(l)) \/ (~Redirect(Heard(l)) /\ Heard(l).status = 202 /\ Heard(l).body = "none")
    BY <1>2, <1>5, RightMembers
  <2>2. ~Raised(Heard(l)) => NotificationOutcome(Heard(l)) \in {NotApplicable, Judged(TRUE)}
    BY <2>1 DEF NotificationOutcome
  <2>3. NotificationAccepted(l) \in {Failed, ClosingThen(Failed), NotApplicable, Judged(TRUE),
                                     ClosingThen(NotApplicable), ClosingThen(Judged(TRUE))}
    BY <1>5, <2>2 DEF NotificationAccepted
  <2> QED
    BY <1>1, <2>3, BlamelessSteps
<1> QED
  BY <1>4, <1>5

(* An invalid request that was answered as it should is not pinged about. *)
LEMMA InvalidRequestIsFair ==
    ASSUME NEW l, Ran("invalidRequest", l), l # <<>>, Ends("invalidRequest", l), Fair(l)
    PROVE  Blameless(Probe("invalidRequest", l))
<1>1. InvalidRequest(l).ask = "" /\ Probe("invalidRequest", l) = InvalidRequest(l)
  BY ProbeOf DEF Ends
<1>2. CASE ~Tells("invalidRequest", l)
  BY <1>2 DEF Tells, Blameless
<1>3. CASE Tells("invalidRequest", l)
  <2>1. Asked(l) \in {"invalidRequest", "validAgain", "ping"}
    <3>1. Asked(l) \in Requests("invalidRequest")
      BY LastOfRun
    <3> QED
      BY <1>1, <1>3, <3>1, InvalidRequestStep DEF Tells
  <2>2. \A a \in Right("invalidRequest") : ~Raised(a)
    <3>1. \A c, s : ~Raised(Error(s, c))
      BY DEF Error, Blank, Raised
    <3> QED
      BY <3>1, RightIsRefusal, RefusalsOf
  <2>3. \A p : p # <<>> /\ Asked(p) = "invalidRequest" /\ Heard(p) \in Right("invalidRequest") =>
          InvalidRequest(p) = ClosingThen(JudgeInvalidAnswer(Heard(p)))
    <3>1. \A a : a.raised = "timeout" => Raised(a)
      BY DEF Raised
    <3>2. \A a \in Right("invalidRequest") : a.status # 404
      BY RightRefusals
    <3> QED
      BY <2>2, <3>1, <3>2 DEF InvalidRequest, InSession
  <2>4. \A a \in Right("invalidRequest") : JudgeInvalidAnswer(a) \in {NotApplicable, Judged(TRUE)}
    <3>1. \A a \in Right("invalidRequest") : ~Gated(a) /\ ~Redirect(a) /\ a.body = "error" /\ a.status < 500
      BY RightRefusals
    <3> QED
      BY <3>1 DEF JudgeInvalidAnswer
  <2>5. CASE Asked(l) = "invalidRequest"
    <3>1. Heard(l) \in Right("invalidRequest")
      BY <2>5, FairLast
    <3> QED
      BY <1>1, <2>3, <2>4, <2>5, <3>1, BlamelessSteps
  <2>6. CASE Asked(l) \in {"validAgain", "ping"}
    <3>1. /\ Len(l) \in 1 .. Len(l) /\ Asked(l) = l[Len(l)].req
      BY LastOfRun
    <3>2. PICK n \in 1 .. Len(l) : n = Len(l) /\ l[n].req \in {"validAgain", "ping"}
      BY <2>6, <3>1
    <3> DEFINE p == Before(l, n)
    <3>3. /\ InvalidRequest(p).ask = l[n].req /\ (p = <<>> <=> n = 1) /\ Ran("invalidRequest", p)
      BY OfPrefix, ProbeOf
    <3>4. p # <<>>
      <4>1. InvalidRequest(<<>>).ask = "initialize"
        BY StepFields DEF InvalidRequest, InSession
      <4> QED
        BY <3>2, <3>3, <4>1
    <3>5. n # 1 /\ n - 1 \in 1 .. Len(l) /\ Asked(p) = l[n - 1].req /\ Heard(p) = l[n - 1].ans
      BY <3>3, <3>4, OfPrefix
    <3>6. Asked(p) = "invalidRequest"
      <4>1. Asked(p) \in Requests("invalidRequest")
        BY <3>3, <3>4, LastOfRun
      <4> QED
        BY <3>2, <3>3, <3>4, <4>1, InvalidRequestStep
    <3>7. Heard(p) \in Right("invalidRequest")
      BY <3>5, <3>6, FairAt
    <3>8. InvalidRequest(p).ask = ""
      <4>1. ClosingThen(NotApplicable).ask = "" /\ ClosingThen(Judged(TRUE)).ask = ""
        BY DEF ClosingThen, NotApplicable, Judged, Supported, Done
      <4> QED
        BY <2>3, <2>4, <3>4, <3>6, <3>7, <4>1
    <3> QED
      BY <3>2, <3>3, <3>8
  <2> QED
    BY <2>1, <2>5, <2>6
<1> QED
  BY <1>2, <1>3

LEMMA GetStreamIsFair ==
    ASSUME NEW l, Ran("getStream", l), l # <<>>, Ends("getStream", l), Fair(l)
    PROVE  Blameless(Probe("getStream", l))
<1>1. GetStream(l).ask = "" /\ Probe("getStream", l) = GetStream(l)
  BY ProbeOf DEF Ends
<1>2. Asked(l) \in {"initialize", "initialized", "openStream", "ping"}
  BY LastOfRun DEF Requests
<1>3. Ask("initialized").ask # "" /\ Ask("openStream").ask # ""
  BY StepFields
<1>4. CASE Asked(l) = "initialize"
  <2>1. GetStream(l) \in {Failed, Ask("initialized"), ClosingThen(NotApplicable)}
    BY <1>4 DEF GetStream, InSession
  <2> QED
    BY <1>1, <1>3, <2>1, BlamelessSteps
<1>5. CASE Asked(l) = "initialized"
  <2>1. GetStream(l) \in {ClosingThen(Failed), Ask("openStream"), ClosingThen(NotApplicable)}
    BY <1>5 DEF GetStream, InSession
  <2> QED
    BY <1>1, <1>3, <2>1, BlamelessSteps
<1>6. \A a \in Right("openStream") :
        ~Redirect(a) /\ ~Gated(a) /\ a.status # 404 /\ (a.status = 405 \/ (Ok(a) /\ "stream" \in a.has))
  BY RightMembers
<1>7. \A p : p # <<>> /\ Asked(p) = "openStream" /\ (Heard(p) \in Right("openStream") \/ Raised(Heard(p))) =>
        GetStream(p) \in {ClosingThen(Failed), ClosingThen(Supported)}
  <2> SUFFICES ASSUME NEW p, p # <<>>, Asked(p) = "openStream",
                      Heard(p) \in Right("openStream") \/ Raised(Heard(p))
               PROVE  GetStream(p) \in {ClosingThen(Failed), ClosingThen(Supported)}
    OBVIOUS
  <2>1. CASE Raised(Heard(p))
    BY <2>1 DEF GetStream, InSession
  <2>2. CASE ~Raised(Heard(p))
    <3> DEFINE a == Heard(p)
    <3>1. ~Redirect(a) /\ ~Gated(a) /\ a.status # 404 /\ (a.status = 405 \/ (Ok(a) /\ "stream" \in a.has))
      BY <1>6, <2>2
    <3> QED
      BY <2>2, <3>1 DEF GetStream, InSession, Judged
  <2> QED
    BY <2>1, <2>2
<1>8. CASE Asked(l) = "openStream"
  <2>1. Heard(l) \in Right("openStream") \/ Raised(Heard(l))
    BY <1>8, FairLast
  <2> QED
    BY <1>1, <1>7, <1>8, <2>1, BlamelessSteps
<1>9. CASE Asked(l) = "ping"
  <2>1. /\ Len(l) \in 1 .. Len(l) /\ Asked(l) = l[Len(l)].req
    BY LastOfRun
  <2>2. PICK n \in 1 .. Len(l) : n = Len(l) /\ l[n].req = "ping"
    BY <1>9, <2>1
  <2> DEFINE p == Before(l, n)
  <2>3. /\ GetStream(p).ask = "ping" /\ (p = <<>> <=> n = 1) /\ Ran("getStream", p) /\ ~Ends("getStream", p)
    BY <2>2, OfPrefix, RanBefore, ProbeOf
  <2>4. p # <<>>
    <3>1. GetStream(<<>>).ask = "initialize"
      BY StepFields DEF GetStream, InSession
    <3> QED
      BY <2>3, <3>1
  <2>5. n - 1 \in 1 .. Len(l) /\ Asked(p) = l[n - 1].req /\ Heard(p) = l[n - 1].ans
    BY <2>3, <2>4, OfPrefix
  <2>6. Asked(p) = "openStream"
    <3>1. Asked(p) \in {"initialize", "initialized", "openStream", "ping"}
      BY <2>3, <2>4, LastOfRun DEF Requests
    <3>2. CASE Asked(p) = "initialize"
      BY <2>3, <2>4, <3>2 DEF GetStream, InSession, ClosingThen, Failed, NotApplicable, Done, Ask
    <3>3. CASE Asked(p) = "initialized"
      BY <2>3, <2>4, <3>3 DEF GetStream, InSession, ClosingThen, Failed, NotApplicable, Done, Ask
    <3>4. CASE Asked(p) = "ping"
      BY <2>3, <2>4, <3>4 DEF GetStream, InSession, ClosingThen, Failed, NotApplicable, Judged, Supported,
         Unsupported, Done, Ask
    <3> QED
      BY <3>1, <3>2, <3>3, <3>4
  <2>7. Heard(p) \in Right("openStream") \/ Raised(Heard(p))
    BY <2>5, <2>6, FairAt
  <2>8. GetStream(p).ask = ""
    <3>1. ClosingThen(Failed).ask = "" /\ ClosingThen(Supported).ask = ""
      BY DEF ClosingThen, Failed, Supported, Done
    <3> QED
      BY <1>7, <2>4, <2>6, <2>7, <3>1
  <2> QED
    BY <2>3, <2>8
<1> QED
  BY <1>2, <1>4, <1>5, <1>8, <1>9

(* ... whose session is gone after the DELETE, or was not ended by it. *)
LEMMA SessionDeleteIsFair ==
    ASSUME NEW l, Ran("sessionDelete", l), l # <<>>, Ends("sessionDelete", l), Fair(l)
    PROVE  Blameless(Probe("sessionDelete", l))
<1>1. SessionDelete(l).ask = "" /\ Probe("sessionDelete", l) = SessionDelete(l)
  BY ProbeOf DEF Ends
<1>2. Asked(l) \in {"initialize", "initialized", "delete", "afterDelete", "ping"}
  BY LastOfRun DEF Requests
<1>3. Ask("initialized").ask # "" /\ Ask("delete").ask # "" /\ Ask("afterDelete").ask # ""
  BY StepFields
<1>4. CASE Asked(l) = "initialize"
  <2>1. SessionDelete(l) \in {Failed, Ask("initialized"), ClosingThen(NotApplicable)}
    BY <1>4 DEF SessionDelete, InSession
  <2> QED
    BY <1>1, <1>3, <2>1, BlamelessSteps
<1>5. CASE Asked(l) = "initialized"
  <2>1. SessionDelete(l) \in {ClosingThen(Failed), Ask("delete"), NotApplicable, ClosingThen(NotApplicable)}
    BY <1>5 DEF SessionDelete, InSession
  <2> QED
    BY <1>1, <1>3, <2>1, BlamelessSteps
<1>6. \A a \in Right("delete") : ~Redirect(a) /\ ~Gated(a) /\ a.status # 404 /\ (a.status = 405 \/ Ok(a))
  BY RightMembers
<1>7. \A p : p # <<>> /\ Asked(p) = "delete" /\ (Heard(p) \in Right("delete") \/ Raised(Heard(p))) =>
        SessionDelete(p) \in {ClosingThen(Failed), Supported, Ask("afterDelete")}
  BY <1>6 DEF SessionDelete, InSession
<1>8. CASE Asked(l) = "delete"
  <2>1. Heard(l) \in Right("delete") \/ Raised(Heard(l))
    BY <1>8, FairLast
  <2> QED
    BY <1>1, <1>3, <1>7, <1>8, <2>1, BlamelessSteps
<1>9. CASE Asked(l) = "afterDelete"
  <2>1. Heard(l) \in Right("afterDelete") \/ Raised(Heard(l))
    BY <1>9, FairLast
  <2>2. ASSUME ~Raised(Heard(l)) PROVE JudgeAfterDelete(Heard(l)) = Judged(TRUE)
    <3> DEFINE a == Heard(l)
    <3>1. ~Gated(a) /\ ~Redirect(a) /\ ~Ok(a) /\ a.body # "result" /\ a.status = 404
      BY <2>1, <2>2, RightRefusals
    <3> QED
      BY <3>1 DEF JudgeAfterDelete
  <2>3. SessionDelete(l) \in {ClosingThen(Failed), Judged(TRUE), ClosingThen(Judged(TRUE))}
    BY <1>9, <2>2 DEF SessionDelete, InSession
  <2> QED
    BY <1>1, <2>3, BlamelessSteps
<1>10. CASE Asked(l) = "ping"
  <2>1. /\ Len(l) \in 1 .. Len(l) /\ Asked(l) = l[Len(l)].req
    BY LastOfRun
  <2>2. PICK n \in 1 .. Len(l) : n = Len(l) /\ l[n].req = "ping"
    BY <1>10, <2>1
  <2> DEFINE p == Before(l, n)
  <2>3. /\ SessionDelete(p).ask = "ping" /\ (p = <<>> <=> n = 1) /\ Ran("sessionDelete", p)
    BY <2>2, OfPrefix, ProbeOf
  <2>4. p # <<>>
    <3>1. SessionDelete(<<>>).ask = "initialize"
      BY StepFields DEF SessionDelete, InSession
    <3> QED
      BY <2>3, <3>1
  <2>5. n - 1 \in 1 .. Len(l) /\ Asked(p) = l[n - 1].req /\ Heard(p) = l[n - 1].ans
    BY <2>3, <2>4, OfPrefix
  <2>6. Asked(p) = "delete"
    <3>1. Asked(p) \in {"initialize", "initialized", "delete", "afterDelete", "ping"}
      BY <2>3, <2>4, LastOfRun DEF Requests
    <3>2. CASE Asked(p) = "initialize"
      BY <2>3, <2>4, <3>2 DEF SessionDelete, InSession, ClosingThen, Failed, NotApplicable, Done, Ask
    <3>3. CASE Asked(p) = "initialized"
      BY <2>3, <2>4, <3>3 DEF SessionDelete, InSession, ClosingThen, Failed, NotApplicable, Done, Ask
    <3>4. CASE Asked(p) = "afterDelete"
      BY <2>3, <2>4, <3>4 DEF SessionDelete, InSession, JudgeAfterDelete, ClosingThen, Failed, NotApplicable,
         Judged, Supported, Unsupported, Done, Ask
    <3>5. CASE Asked(p) = "ping"
      BY <2>3, <2>4, <3>5 DEF SessionDelete, InSession, ClosingThen, Failed, NotApplicable, Unsupported, Done, Ask
    <3> QED
      BY <3>1, <3>2, <3>3, <3>4, <3>5
  <2>7. Heard(p) \in Right("delete") \/ Raised(Heard(p))
    BY <2>5, <2>6, FairAt
  <2>8. SessionDelete(p).ask # "ping"
    <3>1. /\ ClosingThen(Failed).ask # "ping" /\ Supported.ask # "ping"
          /\ Ask("afterDelete").ask # "ping"
      BY DEF ClosingThen, Failed, Supported, Done, Ask
    <3> QED
      BY <1>7, <2>4, <2>6, <2>7, <3>1
  <2> QED
    BY <2>3, <2>8
<1> QED
  BY <1>2, <1>4, <1>5, <1>8, <1>9, <1>10

(* those that walk lists. *)
LEMMA LargestInSet ==
    ASSUME NEW n \in Nat, NEW S \in SUBSET (1 .. n), S # {}
    PROVE  Max(S) \in S /\ \A y \in S : Max(S) >= y
<1> DEFINE T == {n - x : x \in S}
<1>1. T \in SUBSET Nat /\ T # {}
  <2>1. \A x \in S : n - x \in Nat
    OBVIOUS
  <2>2. PICK x \in S : TRUE
    OBVIOUS
  <2>3. n - x \in T
    OBVIOUS
  <2> QED
    BY <2>1, <2>3
<1>2. Min(T) \in T /\ \A j \in T : Min(T) <= j
  BY <1>1, SmallestInSet
<1>3. PICK x \in S : Min(T) = n - x
  BY <1>2
<1>4. \A y \in S : n - x <= n - y
  BY <1>2, <1>3
<1>5. \A y \in S : x >= y
  BY <1>4
<1> QED
  BY <1>5 DEF Max

LEMMA PlacesAre ==
    ASSUME NEW S, NEW l \in Seq(S), NEW r
    PROVE  /\ PlacesOf(l, r) \subseteq 1 .. Len(l)
           /\ \A i \in 1 .. Len(l) : i \in PlacesOf(l, r) <=> l[i].req = r
           /\ HasAsked(l, r) => PlacesOf(l, r) # {} /\ \E k \in PlacesOf(l, r) : LastPage(l, r) = l[k].ans
<1>1. DOMAIN l = 1 .. Len(l) /\ Len(l) \in Nat
  BY LengthIs
<1>2. /\ PlacesOf(l, r) \subseteq 1 .. Len(l)
      /\ \A i \in 1 .. Len(l) : i \in PlacesOf(l, r) <=> l[i].req = r
  BY <1>1 DEF PlacesOf
<1>3. HasAsked(l, r) => PlacesOf(l, r) # {}
  BY <1>2, HasAskedIs
<1>4. PlacesOf(l, r) # {} => Max(PlacesOf(l, r)) \in PlacesOf(l, r)
  BY <1>1, <1>2, LargestInSet
<1> QED
  BY <1>2, <1>3, <1>4 DEF LastPage

(* What conforming lists are. *)
LEMMA RightListIs ==
    ASSUME NEW request \in ListRequests
    PROVE  Right(request) = RightList(request)
<1>1. ~MustRefuse(request)
  BY OnlyRefusable DEF MustRefuse, Refusable, ListRequests, Lists
<1> QED
  BY <1>1 DEF Right

LEMMA RightScopes ==
    /\ \A request \in {"tools", "prompts"} : \A a \in Right(request) : Scope(a) = "public"
    /\ \A a \in Right("resources") : Scope(a) = "private"
    /\ \A a \in Right("templates") : ~Serves(a, "templates") \/ "next" \notin a.has
    /\ \A side \in {"discoverFirst", "discoverSecond"} : \A a \in Right(side) :
         Serves(a, "capabilities") /\ "declares" \in a.has
    /\ \A side \in {"first", "second"} : \A a \in Right(side) : a.has \cap Names = {"a"}
<1>1. ASSUME NEW request \in {"tools", "prompts"}, NEW a \in Right(request)
      PROVE  Scope(a) = "public"
  <2>1. a = Result(200, {request, "public"}) \/ a = Result(200, {request, "public", "next"})
    BY <1>1, RightListIs DEF RightList, ListRequests, Lists
  <2>2. "public" \in a.has
    BY <2>1, FieldsOf
  <2> QED
    BY <2>2 DEF Scope
<1>2. ASSUME NEW a \in Right("resources")
      PROVE  Scope(a) = "private"
  <2>1. a = Result(200, {"resources", "private"})
    BY <1>2, RightListIs DEF RightList, ListRequests, Lists
  <2>2. a.has = {"resources", "private"}
    BY <2>1, FieldsOf
  <2> QED
    BY <2>2 DEF Scope
<1>3. ASSUME NEW a \in Right("templates")
      PROVE  ~Serves(a, "templates") \/ "next" \notin a.has
  <2>1. a = Result(200, {"templates", "public"}) \/ a = Error(404, "method_not_found")
    BY <1>3, RightListIs DEF RightList, ListRequests, Lists
  <2>2. a.has = {"templates", "public"} \/ a.has = {}
    BY <2>1, FieldsOf
  <2> QED
    BY <2>2
<1>4. ASSUME NEW side \in {"discoverFirst", "discoverSecond"}, NEW a \in Right(side)
      PROVE  Serves(a, "capabilities") /\ "declares" \in a.has
  <2>1. side \in ListRequests
    BY <1>4 DEF ListRequests
  <2>2. RightList(side) = {Result(200, {"capabilities", "declares"})}
    BY <1>4 DEF RightList
  <2>3. a = Result(200, {"capabilities", "declares"})
    BY <1>4, <2>1, <2>2, RightListIs
  <2> QED
    BY <2>3, FieldsOf DEF Serves
<1>5. ASSUME NEW side \in {"first", "second"}, NEW a \in Right(side)
      PROVE  a.has \cap Names = {"a"}
  <2>1. side \in ListRequests
    BY <1>5 DEF ListRequests
  <2>2. RightList("first") = {Result(200, {"tools", "a"}), Result(200, {"tools", "a", "next"})}
        /\ RightList("second") = {Result(200, {"tools", "a"})}
    BY DEF RightList
  <2>3. a = Result(200, {"tools", "a"}) \/ a = Result(200, {"tools", "a", "next"})
    BY <1>5, <2>1, <2>2, RightListIs
  <2>4. a.has = {"tools", "a"} \/ a.has = {"tools", "a", "next"}
    BY <2>3, FieldsOf
  <2> QED
    BY <2>4 DEF Names
<1> QED
  BY <1>1, <1>2, <1>3, <1>4, <1>5

(* Pages of one scope do not disagree. *)
LEMMA ScopesAgree ==
    ASSUME NEW S, NEW l \in Seq(S), NEW s, NEW c \in {"public", "private"},
           \A i \in PlacesOf(l, s) : Scope(l[i].ans) = c
    PROVE  ~PagesDisagree(l, s)
<1>1. SUFFICES ASSUME PagesDisagree(l, s) PROVE FALSE
  OBVIOUS
<1>2. PlacesOf(l, s) # {}
  <2>1. Pages(l, s) >= 2
    BY <1>1 DEF PagesDisagree
  <2>2. Cardinality({}) = 0
    BY FS_EmptySet
  <2>3. PlacesOf(l, s) = {} => Pages(l, s) = 0
    BY <2>2 DEF Pages
  <2> QED
    BY <2>1, <2>3
<1>3. PlacesOf(l, s) \subseteq DOMAIN l /\ DOMAIN l \subseteq Nat
  <2>1. DOMAIN l = 1 .. Len(l)
    BY LengthIs
  <2> QED
    BY <2>1 DEF PlacesOf
<1>4. FirstAt(l, PlacesOf(l, s)) = l[Min(PlacesOf(l, s))] /\ Min(PlacesOf(l, s)) \in PlacesOf(l, s)
  BY <1>2, <1>3, FirstIsThere
<1>5. Scope(FirstAt(l, PlacesOf(l, s)).ans) = c
  BY <1>4
<1> QED
  BY <1>1, <1>5 DEF PagesDisagree

LEMMA TwoPlaces ==
    ASSUME NEW S, NEW l \in Seq(S), NEW s, Pages(l, s) >= 2
    PROVE  \E i, j \in PlacesOf(l, s) : i < j
<1> SUFFICES ASSUME ~\E i, j \in PlacesOf(l, s) : i < j PROVE FALSE
  OBVIOUS
<1>1. PlacesOf(l, s) \subseteq Nat
  BY PlacesAre
<1>2. \A i, j \in PlacesOf(l, s) : i = j
  BY <1>1
<1>3. PlacesOf(l, s) = {} \/ \E x : PlacesOf(l, s) = {x}
  BY <1>2
<1>4. Cardinality({}) = 0 /\ \A x : Cardinality({x}) = 1
  BY FS_EmptySet, FS_Singleton
<1>5. Pages(l, s) \in {0, 1}
  BY <1>3, <1>4 DEF Pages
<1> QED
  BY <1>5

(* A list is asked for while its walk goes on. *)
LEMMA AsksWalking ==
    ASSUME NEW l, PaginationCacheScope(l).ask \in Lists
    PROVE  Walked(l, PaginationCacheScope(l).ask) = "walking"
<1> DEFINE open == {i \in DOMAIN Surfaces : Surfaces[i] \in Declared(l) /\ Walked(l, Surfaces[i]) = "walking"}
<1>1. ASSUME open # {} PROVE Walked(l, FirstAt(Surfaces, open)) = "walking"
  <2>1. Surfaces \in Seq(Lists) /\ DOMAIN Surfaces \subseteq Nat /\ open \subseteq DOMAIN Surfaces
    BY ProbingAssumption
  <2>2. FirstAt(Surfaces, open) = Surfaces[Min(open)] /\ Min(open) \in open
    BY <1>1, <2>1, FirstIsThere
  <2> QED
    BY <2>1, <2>2
<1>2. PaginationCacheScope(l) =
        (IF l = <<>> THEN Ask("discoverSurfaces")
         ELSE IF Raised(Heard(l)) THEN Failed
         ELSE IF Declared(l) = {} THEN NotApplicable
         ELSE IF open # {} THEN Ask(FirstAt(Surfaces, open))
         ELSE IF \E s \in Declared(l) : PagesDisagree(l, s) THEN Unsupported
         ELSE IF \E s \in Declared(l) : Walked(l, s) = "partial" THEN Failed
         ELSE IF \A s \in Declared(l) : Pages(l, s) < 2 \/ Walked(l, s) = "absent"
              THEN NotApplicable
         ELSE Supported)
  BY DEF PaginationCacheScope
<1> HIDE DEF open
<1>3. \/ PaginationCacheScope(l) \in
            {Ask("discoverSurfaces"), Failed, NotApplicable, Supported, Unsupported}
      \/ open # {} /\ PaginationCacheScope(l) = Ask(FirstAt(Surfaces, open))
  BY <1>2
<1>4. PaginationCacheScope(l) \notin
        {Ask("discoverSurfaces"), Failed, NotApplicable, Supported, Unsupported}
  <2>1. "discoverSurfaces" \notin Lists /\ "" \notin Lists
    BY DEF Lists
  <2>2. /\ Ask("discoverSurfaces").ask = "discoverSurfaces" /\ Failed.ask = "" /\ NotApplicable.ask = ""
        /\ Supported.ask = "" /\ Unsupported.ask = ""
    BY StepFields
  <2> QED
    BY <2>1, <2>2
<1> QED
  BY <1>1, <1>3, <1>4, StepFields

(* A conforming list of templates has one page. *)
LEMMA TemplatesOnce ==
    ASSUME NEW l, Ran("pagination", l), \A i \in 1 .. Len(l) : l[i].ans \in Right(l[i].req),
           NEW i \in PlacesOf(l, "templates"), NEW j \in PlacesOf(l, "templates"), i < j
    PROVE  FALSE
<1>1. l \in Seq(Entries("pagination"))
  BY DEF Ran
<1>2. i \in 1 .. Len(l) /\ j \in 1 .. Len(l) /\ l[i].req = "templates" /\ l[j].req = "templates"
  BY <1>1, PlacesAre
<1> DEFINE p == Before(l, j)
<1>3. PaginationCacheScope(p).ask = "templates"
  BY <1>2, OfPrefix, ProbeOf
<1>4. Walked(p, "templates") = "walking"
  BY <1>3, AsksWalking DEF Lists
<1>5. /\ p \in Seq(Entries("pagination")) /\ Len(p) = j - 1
      /\ \A k \in 1 .. j - 1 : p[k] = l[k] /\ k \in 1 .. Len(l)
  BY <1>1, <1>2, BeforeIs
<1>6. i \in 1 .. Len(p) /\ p[i].req = "templates"
  BY <1>2, <1>5
<1>7. HasAsked(p, "templates")
  BY <1>5, <1>6, HasAskedIs
<1>8. PICK k \in PlacesOf(p, "templates") : LastPage(p, "templates") = p[k].ans
  BY <1>5, <1>7, PlacesAre
<1>9. k \in 1 .. Len(p) /\ p[k].req = "templates"
  BY <1>5, <1>8, PlacesAre
<1>10. LastPage(p, "templates") \in Right("templates")
  BY <1>5, <1>8, <1>9
<1>11. ~Serves(LastPage(p, "templates"), "templates") \/ "next" \notin LastPage(p, "templates").has
  BY <1>10, RightScopes
<1> QED
  BY <1>4, <1>7, <1>11 DEF Walked

LEMMA PaginationIsFair ==
    ASSUME NEW l, Ran("pagination", l), l # <<>>, Ends("pagination", l), Fair(l)
    PROVE  Blameless(Probe("pagination", l))
<1>1. PaginationCacheScope(l).ask = "" /\ Probe("pagination", l) = PaginationCacheScope(l)
  BY ProbeOf DEF Ends
<1>2. l \in Seq(Entries("pagination"))
  BY DEF Ran
<1>3. CASE Raised(Heard(l))
  BY <1>1, <1>3, BlamelessSteps DEF PaginationCacheScope
<1>4. CASE ~Raised(Heard(l))
  <2>1. ASSUME NEW i \in 1 .. Len(l)
        PROVE  l[i].ans \in Right(l[i].req)
    <3>1. CASE i = Len(l)
      <4>1. Heard(l) = l[i].ans
        BY <3>1, LastOfRun
      <4> QED
        BY <1>4, <4>1, FairAt
    <3>2. CASE i # Len(l)
      <4>1. /\ Before(l, i + 1) # <<>> /\ Heard(Before(l, i + 1)) = l[i].ans
            /\ ~Ends("pagination", Before(l, i + 1))
        BY <3>2, OfNext
      <4>2. Raised(l[i].ans) => PaginationCacheScope(Before(l, i + 1)) = Failed
        BY <4>1 DEF PaginationCacheScope
      <4>3. ~Raised(l[i].ans)
        BY <4>1, <4>2, ProbeOf, StepFields DEF Ends
      <4> QED
        BY <4>3, FairAt
    <3> QED
      BY <3>1, <3>2
  <2>2. Declared(l) \subseteq Lists
    <3>1. ToSet(Surfaces) \subseteq Lists
      BY ProbingAssumption DEF ToSet
    <3> QED
      BY <3>1 DEF Declared
  <2>3. \A s : \A i \in PlacesOf(l, s) : l[i].ans \in Right(s)
    BY <1>2, <2>1, PlacesAre
  <2>4. ASSUME NEW s \in Lists
        PROVE  ~PagesDisagree(l, s)
    <3>1. CASE s \in {"tools", "prompts"}
      <4>1. \A i \in PlacesOf(l, s) : Scope(l[i].ans) = "public"
        BY <2>3, <3>1, RightScopes
      <4> QED
        BY <1>2, <4>1, ScopesAgree
    <3>2. CASE s = "resources"
      <4>1. \A i \in PlacesOf(l, s) : Scope(l[i].ans) = "private"
        BY <2>3, <3>2, RightScopes
      <4> QED
        BY <1>2, <4>1, ScopesAgree
    <3>3. CASE s = "templates"
      <4>1. ~(Pages(l, "templates") >= 2)
        BY <1>2, <2>1, TwoPlaces, TemplatesOnce
      <4> QED
        BY <3>3, <4>1 DEF PagesDisagree
    <3> QED
      BY <3>1, <3>2, <3>3 DEF Lists
  <2>5. \/ PaginationCacheScope(l) \in {Failed, NotApplicable, Supported}
        \/ PaginationCacheScope(l).ask \in Lists
    <3> DEFINE open == {i \in DOMAIN Surfaces : Surfaces[i] \in Declared(l) /\ Walked(l, Surfaces[i]) = "walking"}
    <3>1. PaginationCacheScope(l) \in {Failed, NotApplicable, Supported, Ask(FirstAt(Surfaces, open))}
      BY <2>2, <2>4 DEF PaginationCacheScope
    <3>2. CASE PaginationCacheScope(l) = Ask(FirstAt(Surfaces, open))
      <4>2. CASE open # {}
        <5>1. Surfaces \in Seq(Lists) /\ DOMAIN Surfaces \subseteq Nat /\ open \subseteq DOMAIN Surfaces
          BY ProbingAssumption
        <5>2. FirstAt(Surfaces, open) = Surfaces[Min(open)] /\ Min(open) \in open
          BY <4>2, <5>1, FirstIsThere
        <5>3. FirstAt(Surfaces, open) \in Lists
          BY <5>1, <5>2
        <5> QED
          BY <3>2, <5>3, StepFields
      <4>3. CASE open = {}
        BY <2>2, <2>4, <4>3 DEF PaginationCacheScope
      <4> QED
        BY <4>2, <4>3
    <3> QED
      BY <3>1, <3>2
  <2> QED
    BY <1>1, <2>5, BlamelessSteps DEF Lists
<1> QED
  BY <1>3, <1>4


(* Two connections to a conforming server list the same. *)
LEMMA ComparisonStarts ==
    ASSUME NEW l, Ran("comparison", l), l # <<>>
    PROVE  HasAsked(l, "discoverFirst")
<1>1. l \in Seq(Entries("comparison")) /\ 1 \in 1 .. Len(l)
  <2>1. l \in Seq(Entries("comparison"))
    BY DEF Ran
  <2> QED
    BY <2>1, LengthIs
<1>2. Before(l, 1) = <<>> /\ Probe("comparison", Before(l, 1)).ask = l[1].req
  BY <1>1, OfPrefix
<1>3. ~HasAsked(<<>>, "discoverFirst")
  BY DEF HasAsked, ToSet
<1>4. CatalogConnectionIndependence(<<>>) = Ask("discoverFirst")
  BY <1>3 DEF CatalogConnectionIndependence
<1>5. l[1].req = "discoverFirst"
  <2>1. Probe("comparison", <<>>).ask = l[1].req
    BY <1>2
  <2>2. Probe("comparison", <<>>) = CatalogConnectionIndependence(<<>>)
    BY ProbeOf
  <2>3. Ask("discoverFirst").ask = "discoverFirst"
    BY StepFields
  <2> QED
    BY <1>4, <2>1, <2>2, <2>3
<1> QED
  BY <1>1, <1>5, HasAskedIs

LEMMA CollectedIs ==
    ASSUME NEW S, NEW l \in Seq(S), NEW side \in {"first", "second"}, HasAsked(l, side),
           \A i \in PlacesOf(l, side) : l[i].ans \in Right(side)
    PROVE  Collected(l, side) = {"a"}
<1>1. \A i \in PlacesOf(l, side) : l[i].ans.has \cap Names = {"a"}
  BY RightScopes
<1>2. PlacesOf(l, side) # {}
  BY PlacesAre
<1> QED
  BY <1>1, <1>2 DEF Collected

LEMMA ComparisonIsFair ==
    ASSUME NEW l, Ran("comparison", l), l # <<>>, Ends("comparison", l), Fair(l)
    PROVE  Blameless(Probe("comparison", l))
<1>1. CatalogConnectionIndependence(l).ask = "" /\ Probe("comparison", l) = CatalogConnectionIndependence(l)
  BY ProbeOf DEF Ends
<1>2. l \in Seq(Entries("comparison")) /\ HasAsked(l, "discoverFirst")
  BY ComparisonStarts DEF Ran
<1>3. CASE Raised(Heard(l))
  BY <1>1, <1>2, <1>3, BlamelessSteps DEF CatalogConnectionIndependence
<1>4. CASE ~Raised(Heard(l))
  <2>1. ASSUME NEW i \in 1 .. Len(l)
        PROVE  l[i].ans \in Right(l[i].req)
    <3>1. CASE i = Len(l)
      <4>1. Heard(l) = l[i].ans
        BY <3>1, LastOfRun
      <4> QED
        BY <1>4, <4>1, FairAt
    <3>2. CASE i # Len(l)
      <4>1. /\ Before(l, i + 1) # <<>> /\ Heard(Before(l, i + 1)) = l[i].ans
            /\ ~Ends("comparison", Before(l, i + 1)) /\ Ran("comparison", Before(l, i + 1))
        BY <3>2, OfNext
      <4>2. HasAsked(Before(l, i + 1), "discoverFirst")
        BY <4>1, ComparisonStarts
      <4>3. Raised(l[i].ans) => CatalogConnectionIndependence(Before(l, i + 1)) = Failed
        BY <4>1, <4>2 DEF CatalogConnectionIndependence
      <4>4. ~Raised(l[i].ans)
        BY <4>1, <4>3, ProbeOf, StepFields DEF Ends
      <4> QED
        BY <4>4, FairAt
    <3> QED
      BY <3>1, <3>2
  <2>2. \A s : \A i \in PlacesOf(l, s) : l[i].ans \in Right(s)
    BY <1>2, <2>1, PlacesAre
  <2>3. HasAsked(l, "discoverSecond")
    <3>1. ~HasAsked(l, "discoverSecond") => CatalogConnectionIndependence(l) = Ask("discoverSecond")
      BY <1>2, <1>4 DEF CatalogConnectionIndependence
    <3>2. Ask("discoverSecond").ask = "discoverSecond"
      BY StepFields
    <3> QED
      BY <1>1, <3>1, <3>2
  <2>4. ASSUME NEW side \in {"discoverFirst", "discoverSecond"}
        PROVE  Serves(AnswerTo(l, side), "capabilities") /\ "declares" \in AnswerTo(l, side).has
    <3>1. HasAsked(l, side)
      BY <1>2, <2>3
    <3>2. PICK i \in 1 .. Len(l) : l[i].req = side /\ AnswerTo(l, side) = l[i].ans
      <4>1. PICK e \in ToSet(l) : e.req = side /\ e.ans = AnswerTo(l, side)
        BY <3>1, AnswerIsThere
      <4>2. DOMAIN l = 1 .. Len(l)
        BY <1>2, LengthIs
      <4>3. \E i \in 1 .. Len(l) : e = l[i]
        BY <4>2 DEF ToSet
      <4> QED
        BY <4>1, <4>3
    <3>3. AnswerTo(l, side) \in Right(side)
      BY <2>1, <3>2
    <3> QED
      BY <3>3, RightScopes
  <2>5. \/ CatalogConnectionIndependence(l) \in {Failed, NotApplicable, Ask("first"), Ask("second")}
        \/ /\ ~Collecting(l, "first") /\ ~Collecting(l, "second")
           /\ CatalogConnectionIndependence(l) = Judged(Collected(l, "first") = Collected(l, "second"))
    BY <1>2, <1>4, <2>3, <2>4 DEF CatalogConnectionIndependence
  <2>6. CASE CatalogConnectionIndependence(l) \in {Failed, NotApplicable, Ask("first"), Ask("second")}
    <3>1. Ask("first").ask = "first" /\ Ask("second").ask = "second"
      BY StepFields
    <3> QED
      BY <1>1, <2>6, <3>1, BlamelessSteps
  <2>7. CASE /\ ~Collecting(l, "first") /\ ~Collecting(l, "second")
             /\ CatalogConnectionIndependence(l) = Judged(Collected(l, "first") = Collected(l, "second"))
    <3>1. HasAsked(l, "first") /\ HasAsked(l, "second")
      BY <2>7 DEF Collecting
    <3>2. Collected(l, "first") = Collected(l, "second")
      BY <1>2, <2>2, <3>1, CollectedIs
    <3>3. (Collected(l, "first") = Collected(l, "second")) = TRUE
      BY <3>2
    <3>4. CatalogConnectionIndependence(l) = Supported
      BY <2>7, <3>3 DEF Judged
    <3> QED
      BY <1>1, <3>4, BlamelessSteps
  <2> QED
    BY <2>5, <2>6, <2>7
<1> QED
  BY <1>3, <1>4


----------------------------------------------------------------------------
(* The verdicts on a conforming server.                                    *)

(* Where every exchange of the probe, and of the gateways beside it, is one *)
(* of a conforming server.                                                  *)
LEMMA FairOutcome ==
    ASSUME NEW id \in ProbeIds \ {"auth", "queryCredential"},
           NEW l, l # <<>>, Ran(id, l), Ends(id, l), Fair(l)
    PROVE  Blameless(Probe(id, l))
<1>1. Heard(l) \in Right(Asked(l)) \/ Raised(Heard(l))
  BY FairLast
<1>2. CASE id \in OneRequestIds
  <2>1. Asked(l) = Only(id)
    <3>1. Len(l) \in 1 .. Len(l) /\ Asked(l) = l[Len(l)].req /\ Asked(l) \in Requests(id)
      BY LastOfRun
    <3>2. Requests(id) = {Only(id)}
      BY <1>2 DEF Requests, Only, OneRequestIds
    <3> QED
      BY <3>1, <3>2
  <2> QED
    BY <1>1, <1>2, <2>1, OneRequestIsFair
<1>3. CASE id = "nameMismatch"
  BY <1>1, <1>3, NameMismatchIsFair
<1>4. CASE id = "malformedJson"
  BY <1>1, <1>4, MalformedJsonIsFair
<1>5. CASE id \in {"origin", "host"}
  BY <1>1, <1>5, SpoofIsFair
<1>6. CASE id = "localBind"
  BY <1>6, LocalBindIsFair
<1>7. CASE id = "notification"
  BY <1>1, <1>7, NotificationIsFair
<1>8. CASE id = "invalidRequest"
  BY <1>8, InvalidRequestIsFair
<1>9. CASE id = "getStream"
  BY <1>9, GetStreamIsFair
<1>10. CASE id = "sessionDelete"
  BY <1>10, SessionDeleteIsFair
<1>11. CASE id = "pagination"
  BY <1>11, PaginationIsFair
<1>12. CASE id = "comparison"
  BY <1>12, ComparisonIsFair
<1> QED
  BY <1>2, <1>3, <1>4, <1>5, <1>6, <1>7, <1>8, <1>9, <1>10, <1>11, <1>12
     DEF ProbeIds, OneRequestIds

(* Rules that are their probe's outcome. *)
LEMMA OutcomeIsFair ==
    ASSUME NEW r, NEW s, r.outcome \in {"supported", "error", "not_applicable"}
    PROVE  /\ Unless(SkipOf(r), Passes(r)) # "fail"
           /\ Backed(r, s) # "fail"
           /\ BackedIfModernOnly(r, s) # "fail"
           /\ ErrorCodeMigration(r, s) # "fail"
           /\ TransportProbe(r, s) # "fail"
           /\ \A surface : InvalidCursorRejected(r, surface, s) # "fail"
           /\ PaginationCacheScopeConsistent(r) # "fail"
           /\ CatalogConnectionIndependent(r) # "fail"
           /\ MalformedRequestHandling(r, s) # "fail"
           /\ LocalExposure(r, s) # "fail"
<1>1. Unless(SkipOf(r), Passes(r)) # "fail"
  BY DEF Unless, SkipOf, Passes, Rated
<1>2. Backed(r, s) # "fail"
  BY DEF Backed, Unless, SkipOf, Passes, Rated
<1>3. BackedIfModernOnly(r, s) # "fail" /\ ErrorCodeMigration(r, s) # "fail"
  BY <1>2 DEF BackedIfModernOnly, ErrorCodeMigration
<1>4. TransportProbe(r, s) # "fail" /\ \A surface : InvalidCursorRejected(r, surface, s) # "fail"
  BY <1>1 DEF TransportProbe, InvalidCursorRejected
<1>5. /\ PaginationCacheScopeConsistent(r) # "fail" /\ CatalogConnectionIndependent(r) # "fail"
      /\ MalformedRequestHandling(r, s) # "fail" /\ LocalExposure(r, s) # "fail"
  BY <1>1 DEF PaginationCacheScopeConsistent, CatalogConnectionIndependent, MalformedRequestHandling,
     LocalExposure
<1> QED
  BY <1>1, <1>2, <1>3, <1>4, <1>5

(* Most rules of a probe other than the gateways. *)
LEMMA OutcomeVerdicts ==
    ASSUME NEW id \in ProbeIds \ {"discover", "list", "origin", "invalidRequest", "auth",
                                   "queryCredential"},
           results[id].outcome \in {"supported", "error", "not_applicable"}
    PROVE  ~Fails(id)
<1> DEFINE r == results[id]
<1>1. /\ Backed(r, seen) # "fail" /\ BackedIfModernOnly(r, seen) # "fail"
      /\ ErrorCodeMigration(r, seen) # "fail" /\ TransportProbe(r, seen) # "fail"
      /\ \A surface : InvalidCursorRejected(r, surface, seen) # "fail"
      /\ PaginationCacheScopeConsistent(r) # "fail" /\ CatalogConnectionIndependent(r) # "fail"
      /\ MalformedRequestHandling(r, seen) # "fail" /\ LocalExposure(r, seen) # "fail"
  BY OutcomeIsFair
<1>2. CASE id = "malformedMeta"
  BY <1>1, <1>2 DEF Fails, Verdicts, MetaValidation
<1>3. CASE id = "headerMismatch"
  BY <1>1, <1>3 DEF Fails, Verdicts, HeaderValidation
<1>4. CASE id = "noVersion"
  BY <1>1, <1>4 DEF Fails, Verdicts, MissingProtocolVersionHeader
<1>5. CASE id \in {"noMethod", "nameMismatch"}
  BY <1>1, <1>5 DEF Fails, Verdicts, HeaderRequirement
<1>6. CASE id = "getStreamRemoved"
  BY <1>1, <1>6 DEF Fails, Verdicts, NoGetStream
<1>7. CASE id = "unknownVersion"
  BY <1>1, <1>7 DEF Fails, Verdicts, UnsupportedVersionError
<1>8. CASE id = "missingResource"
  BY <1>1, <1>8 DEF Fails, Verdicts
<1>9. CASE id = "toolsCursor"
  BY <1>1, <1>9 DEF Fails, Verdicts
<1>10. CASE id = "templatesCursor"
  BY <1>1, <1>10 DEF Fails, Verdicts
<1>11. CASE id = "sessionEcho"
  BY <1>1, <1>11 DEF Fails, Verdicts, NoSessionId
<1>12. CASE id = "removedMethod"
  BY <1>1, <1>12 DEF Fails, Verdicts, RemovedMethods
<1>13. CASE id = "unknownMethod"
  BY <1>1, <1>13 DEF Fails, Verdicts, UnknownMethodError
<1>14. CASE id = "malformedJson"
  BY <1>1, <1>14 DEF Fails, Verdicts
<1>15. CASE id = "pagination"
  BY <1>1, <1>15 DEF Fails, Verdicts
<1>16. CASE id = "comparison"
  BY <1>1, <1>16 DEF Fails, Verdicts
<1>17. CASE id \in {"host", "localBind"}
  BY <1>1, <1>17 DEF Fails, Verdicts
<1>18. CASE id = "notification"
  BY <1>1, <1>18 DEF Fails, Verdicts, NotificationRule
<1>19. CASE id = "getStream"
  BY <1>1, <1>19 DEF Fails, Verdicts, GetStreamRule
<1>20. CASE id = "sessionDelete"
  BY <1>1, <1>20 DEF Fails, Verdicts, SessionDeleteRule
<1> QED
  BY <1>2, <1>3, <1>4, <1>5, <1>6, <1>7, <1>8, <1>9, <1>10, <1>11, <1>12, <1>13, <1>14, <1>15, <1>16,
     <1>17, <1>18, <1>19, <1>20 DEF ProbeIds


LEMMA OriginVerdict ==
    ASSUME NEW r, NEW s, r.log # <<>>, Ran("origin", r.log), Ends("origin", r.log), Fair(r.log),
           r.outcome = Probe("origin", r.log).outcome
    PROVE  OriginHeaderValidation(r, s) # "fail"
<1> DEFINE l == r.log
<1>1. Heard(l) \in Right(Asked(l)) \/ Raised(Heard(l))
  BY FairLast
<1>2. Blameless(Probe("origin", l)) /\ (Tells("origin", l) => Heard(l).status = 403)
  BY <1>1, SpoofIsFair
<1>3. r.outcome \in {"supported", "error", "not_applicable"}
  BY <1>2 DEF Blameless
<1>4. CASE r.outcome = "supported"
  <2>1. ToldBy(r).status = 403
    BY <1>2, <1>4 DEF Tells, ToldBy
  <2>2. ToldBy(r).status \in 400 .. 499
    BY <2>1
  <2>3. Passes(r) = "pass" /\ Rated(ToldBy(r).status \in 400 .. 499) = "pass"
    BY <1>4, <2>2 DEF Passes, Rated
  <2>4. \A v : v = "pass" => Unless(SkipOf(r), v) # "fail"
    BY VerdictFails
  <2> QED
    BY <2>3, <2>4 DEF OriginHeaderValidation
<1>5. CASE r.outcome \in {"error", "not_applicable"}
  <2>1. \A v : Unless(SkipOf(r), v) # "fail"
    BY <1>5, VerdictFails
  <2> QED
    BY <2>1 DEF OriginHeaderValidation
<1> QED
  BY <1>3, <1>4, <1>5

LEMMA InvalidRequestVerdict ==
    ASSUME NEW r, NEW s, r.log # <<>>, Ran("invalidRequest", r.log), Ends("invalidRequest", r.log),
           Fair(r.log), r.outcome = Probe("invalidRequest", r.log).outcome
    PROVE  InvalidRequestRule(r, s) # "fail" /\ InvalidRequestErrorCode(r, s) # "fail"
<1> DEFINE l == r.log
<1>1. r.outcome \in {"supported", "error", "not_applicable"}
  BY InvalidRequestIsFair DEF Blameless
<1>2. TransportProbe(r, s) # "fail"
  BY <1>1, OutcomeIsFair
<1>3. ASSUME TransportProbe(r, s) = "pass"
      PROVE  AnswerTo(l, "invalidRequest").code = "invalid_request"
  <2>1. Tells("invalidRequest", l)
    BY <1>3, VerdictFails DEF TransportProbe, Tells
  <2>2. HasAsked(l, "invalidRequest")
    BY <2>1, InvalidRequestShown
  <2>3. PICK e \in ToSet(l) : e.req = "invalidRequest" /\ e.ans = AnswerTo(l, "invalidRequest")
    BY <2>2, AnswerIsThere
  <2>4. e.ans \in Right("invalidRequest")
    BY <2>3 DEF Fair
  <2> QED
    BY <2>3, <2>4, RightRefusals
<1>4. InvalidRequestErrorCode(r, s) # "fail"
  <2>1. CASE TransportProbe(r, s) = "pass"
    <3>1. AnswerTo(l, "invalidRequest").code = "invalid_request"
      BY <1>3, <2>1
    <3>2. \A x : Rated(AnswerTo(l, "invalidRequest").code = "invalid_request" \/ x) = "pass"
      BY <3>1 DEF Rated
    <3> QED
      BY <2>1, <3>2 DEF InvalidRequestErrorCode
  <2>2. CASE TransportProbe(r, s) # "pass"
    BY <1>2, <2>2 DEF InvalidRequestErrorCode
  <2> QED
    BY <2>1, <2>2
<1> QED
  BY <1>2, <1>4 DEF InvalidRequestRule

(* A gateway of a conforming server serves all members, or was not heard. *)
FullGateway(g) ==
  /\ g.outcome \in {"none", "supported", "error"}
  /\ g.outcome = "supported" => {"ttl", "scope", "complete", "json"} \subseteq ToldBy(g).has

LEMMA GatewayIsFull ==
    ASSUME NEW x \in {"discover", "list"}, NEW g, g.log # <<>>, g.outcome = Probe(x, g.log).outcome,
           Heard(g.log) \in Right(x) \/ Raised(Heard(g.log))
    PROVE  /\ FullGateway(g)
           /\ g.outcome = "supported" /\ x = "discover" => {"versions", "negotiated"} \subseteq ToldBy(g).has
<1> DEFINE a == Heard(g.log)
<1>1. CASE Raised(a)
  <2>1. Probe("discover", g.log) = Failed /\ Probe("list", g.log) = Failed
    BY <1>1, ProbeOf DEF Discover, StatelessList, OneRequest
  <2>2. g.outcome = "error"
    BY <2>1, StepFields
  <2> QED
    BY <2>2 DEF FullGateway
<1>2. CASE a \in Right(x)
  <2>1. {"ttl", "scope", "complete", "json"} \subseteq a.has
    BY <1>2, RightMembers
  <2>2. x = "discover" => {"versions", "negotiated"} \subseteq a.has
    BY <1>2, RightMembers
  <2>3. g.outcome \in {"supported", "error", "not_applicable"}
    <3>1. x \in OneRequestIds /\ Only(x) = x
      BY DEF OneRequestIds, Only
    <3>2. Blameless(Probe(x, g.log))
      BY <1>2, <3>1, OneRequestIsFair
    <3> QED
      BY <3>2 DEF Blameless
  <2>4. g.outcome # "not_applicable"
    <3>1. \A b : Judged(b).outcome # "not_applicable"
      BY StepFields DEF Judged
    <3>2. Failed.outcome # "not_applicable"
      BY StepFields
    <3>3. Discover(g.log).outcome # "not_applicable" /\ StatelessList(g.log).outcome # "not_applicable"
      BY <3>1, <3>2 DEF Discover, StatelessList, OneRequest
    <3> QED
      BY <3>3, ProbeOf
  <2> QED
    BY <2>1, <2>2, <2>3, <2>4 DEF FullGateway, ToldBy
<1> QED
  BY <1>1, <1>2


LEMMA FullIsModern ==
    ASSUME NEW s, FullGateway(s.discover), FullGateway(s.list), Observed(s)
    PROVE  Modern(s)
<1>1. \A g : FullGateway(g) /\ SkipOf(g) = "" => g.outcome = "supported"
  BY DEF FullGateway, SkipOf
<1>2. s.discover.outcome = "supported" \/ s.list.outcome = "supported"
  BY <1>1 DEF Observed, Gateways
<1>3. s.list.outcome = "supported" => ToldBy(s.list).has \cap {"complete", "ttl", "scope"} # {}
  BY DEF FullGateway
<1> QED
  BY <1>2, <1>3 DEF Modern, HasModernSupport

LEMMA GatewayRules ==
    ASSUME NEW s, FullGateway(s.discover), FullGateway(s.list)
    PROVE  /\ CacheMetadata(s) # "fail" /\ ResultType(s) # "fail" /\ ResponseContentType(s) # "fail"
           /\ LatestVersion(s) # "fail"
<1>1. Observed(s) => Modern(s)
  BY FullIsModern
<1>2. \A g \in Gateways(s) : g.outcome = "supported" =>
        /\ {"ttl", "scope"} \subseteq ToldBy(g).has /\ "complete" \in ToldBy(g).has
        /\ ToldBy(g).has \cap {"json", "stream"} # {}
  BY DEF Gateways, FullGateway
<1>3. CacheMetadata(s) # "fail"
  BY <1>2 DEF CacheMetadata, OnGateways, Rated
<1>4. ResultType(s) # "fail"
  BY <1>2 DEF ResultType, OnGateways, Rated
<1>5. ResponseContentType(s) # "fail"
  BY <1>2 DEF ResponseContentType, OnGateways, Rated
<1>6. LatestVersion(s) # "fail"
  BY <1>1 DEF LatestVersion, Rated
<1> QED
  BY <1>3, <1>4, <1>5, <1>6

(* An exchange with a conforming server on a network that may fail. *)
FairExchange(e) == e.ans \in Right(e.req) \/ (Raised(e.ans) /\ e.req # "invalidRequest")

LEMMA SampleIsFull ==
    ASSUME NEW x \in {"discover", "list"}, NEW g \in GatewayResults(x),
           \A e \in ToSet(g.log) : FairExchange(e)
    PROVE  /\ FullGateway(g)
           /\ g.outcome = "supported" /\ x = "discover" => {"versions", "negotiated"} \subseteq ToldBy(g).has
<1>1. PICK a : g = ResultOf(x, GatewayLog(x, a))
  BY DEF GatewayResults
<1>2. g.log = <<[req |-> x, ans |-> a]>> /\ g.outcome = Probe(x, g.log).outcome
  BY <1>1 DEF ResultOf, GatewayLog
<1>3. g.log # <<>> /\ Heard(g.log) = a /\ [req |-> x, ans |-> a] \in ToSet(g.log)
  BY <1>2 DEF Heard, Last, ToSet
<1>4. FairExchange([req |-> x, ans |-> a])
  BY <1>3
<1>5. a \in Right(x) \/ Raised(a)
  BY <1>4 DEF FairExchange
<1> QED
  BY <1>2, <1>3, <1>5, GatewayIsFull

LEMMA GatewayVerdicts ==
    ASSUME NEW id \in {"discover", "list"}, results[id].log # <<>>, Ran(id, results[id].log),
           results[id].outcome = Probe(id, results[id].log).outcome,
           seen \in Contexts(id, results[id]), \A e \in Told(id) : FairExchange(e)
    PROVE  ~Fails(id)
<1> DEFINE r == results[id]
<1>1. /\ seen.discover \in (IF id = "discover" THEN {r} ELSE GatewayResults("discover"))
      /\ seen.list \in (IF id = "list" THEN {r} ELSE GatewayResults("list"))
      /\ seen.target = "http"
  BY DEF Contexts, ForModern, ForTransport, ForVersion
<1>2. /\ \A e \in ToSet(r.log) : FairExchange(e)
      /\ \A g \in {seen.discover, seen.list} : \A e \in ToSet(g.log) : FairExchange(e)
  BY DEF Told, Exchanges, Gateways
<1>3. Heard(r.log) \in Right(id) \/ Raised(Heard(r.log))
  <2>1. Fair(r.log)
    BY <1>2 DEF Fair, FairExchange
  <2>2. Requests(id) = {id}
    BY DEF Requests
  <2>3. Asked(r.log) = id
    BY <2>2, LastOfRun
  <2> QED
    BY <2>1, <2>3, FairLast
<1>4. /\ FullGateway(r)
      /\ r.outcome = "supported" /\ id = "discover" => {"versions", "negotiated"} \subseteq ToldBy(r).has
  BY <1>3, GatewayIsFull
<1> HIDE DEF r
<1>5. /\ FullGateway(seen.discover)
      /\ seen.discover.outcome = "supported" => {"versions", "negotiated"} \subseteq ToldBy(seen.discover).has
  BY <1>1, <1>2, <1>4, SampleIsFull
<1>6. FullGateway(seen.list)
  BY <1>1, <1>2, <1>4, SampleIsFull
<1>7. /\ CacheMetadata(seen) # "fail" /\ ResultType(seen) # "fail" /\ ResponseContentType(seen) # "fail"
      /\ LatestVersion(seen) # "fail"
  BY <1>5, <1>6, GatewayRules
<1>8. Unless(SkipOf(r), Passes(r)) # "fail"
  BY <1>4 DEF FullGateway, Unless, SkipOf, Passes, Rated
<1>9. CASE id = "list"
  BY <1>7, <1>8, <1>9 DEF Fails, Verdicts, StatelessRequest, r
<1>10. CASE id = "discover"
  <2>1. seen.discover = r
    BY <1>1, <1>10
  <2>2. SupportedVersions(r, seen) # "fail"
    <3>1. Backed(r, seen) = "pass" => Rated("versions" \in ToldBy(r).has) = "pass"
      BY <1>5, <2>1, BackedFails DEF Rated
    <3> QED
      BY <3>1 DEF SupportedVersions
  <2>3. SupportedVersionsIncludeNegotiated(seen) # "fail"
    BY <1>5 DEF SupportedVersionsIncludeNegotiated, Rated
  <2>4. StreamableHTTPTransport(seen.target) # "fail"
    BY <1>1 DEF StreamableHTTPTransport, Rated
  <2> QED
    BY <1>7, <1>8, <1>10, <2>2, <2>3, <2>4 DEF Fails, Verdicts, ServerDiscover, r
<1> QED
  BY <1>9, <1>10

(* Over stdio the rules have the list alone. *)
LEMMA ListAlone ==
    ASSUME seen = Unjudged, results["list"].outcome = "supported"
    PROVE  ~Fails("list")
<1>1. SkipOf(NotRun) # ""
  BY DEF SkipOf, NotRun
<1>2. StatelessRequest(results["list"]) # "fail"
  BY OutcomeIsFair DEF StatelessRequest
<1>3. ~Observed(seen)
  BY <1>1 DEF Observed, Gateways, Unjudged
<1>4. CacheMetadata(seen) # "fail" /\ ResultType(seen) # "fail" /\ ResponseContentType(seen) # "fail"
  BY <1>3 DEF CacheMetadata, ResultType, ResponseContentType, OnGateways
<1> QED
  BY <1>2, <1>4 DEF Fails, Verdicts

(* A server that conforms is not blamed, whichever probe it is and whatever  *)
(* of the network fails: a failure is an error, a gate or a redirect is not  *)
(* applicable, and what is left of a conforming server is supported          *)
(* (ProbeOutcome, "so dependent rules can degrade").                         *)
THEOREM ConformingServersAreNotBlamed == Spec => []ConformingIsNotBlamed
<1>1. ASSUME Inv, NEW id \in Judging \ {"auth", "queryCredential"},
             \A e \in Told(id) : e.ans \in Right(e.req) \/ (Raised(e.ans) /\ e.req # "invalidRequest")
      PROVE  ~Fails(id)
  <2> DEFINE r == results[id]
  <2>1. \A e \in Told(id) : FairExchange(e)
    BY <1>1 DEF FairExchange
  <2>2. Fair(r.log)
    BY <1>1 DEF Told, Exchanges, Fair
  <2>3. CASE id = "list" /\ seen = Unjudged /\ r.outcome = "supported"
    BY <2>3, ListAlone
  <2>4. CASE /\ id \in ProbeIds /\ r.log # <<>> /\ Ran(id, r.log) /\ Ends(id, r.log)
             /\ r.outcome = Probe(id, r.log).outcome /\ seen \in Contexts(id, r)
    <3>1. CASE id \in {"discover", "list"}
      BY <2>1, <2>4, <3>1, GatewayVerdicts
    <3>2. CASE id = "origin"
      <4>1. OriginHeaderValidation(r, seen) # "fail"
        BY <2>2, <2>4, <3>2, OriginVerdict
      <4> QED
        BY <3>2, <4>1 DEF Fails, Verdicts
    <3>3. CASE id = "invalidRequest"
      <4>1. InvalidRequestRule(r, seen) # "fail" /\ InvalidRequestErrorCode(r, seen) # "fail"
        BY <2>2, <2>4, <3>3, InvalidRequestVerdict
      <4> QED
        BY <3>3, <4>1 DEF Fails, Verdicts
    <3>4. CASE id \notin {"discover", "list", "origin", "invalidRequest"}
      <4>1. Blameless(Probe(id, r.log))
        BY <1>1, <2>2, <2>4, FairOutcome
      <4>2. r.outcome \in {"supported", "error", "not_applicable"}
        BY <2>4, <4>1 DEF Blameless
      <4> QED
        BY <1>1, <2>4, <3>4, <4>2, OutcomeVerdicts
    <3> QED
      BY <3>1, <3>2, <3>3, <3>4
  <2> QED
    BY <1>1, <2>3, <2>4, JudgedRuns
<1>2. Inv => ConformingIsNotBlamed
  BY <1>1, Zenon DEF ConformingIsNotBlamed
<1> QED
  BY <1>2, ProbesRun, PTL

----------------------------------------------------------------------------
(* An answer that comes late may be read as that to another request of the *)
(* same number.  What a server that does as it should sends over stdio,    *)
RightOver(request) ==
  {OverStdio(a) : a \in Right(request)} \cup
    (CASE request = "discover" -> {Error(NoStatus, "method_not_found")}
       [] request = "list" -> {Error(NoStatus, "method_not_found"), Result(NoStatus, {"tools"})}
       [] OTHER -> {})

(* the numbers of the requests for the first process, *)
FirstRequests == {"discover", "list", "removedMethod", "discoverSurfaces", "discoverFirst", "first"} \cup Lists
Numbered(request, n) ==
  /\ n \in Nat
  /\ \/ request = "discover" /\ n = 1
     \/ request = "list" /\ n = 2
     \/ request = "removedMethod" /\ n = 9
     \/ request = "discoverSurfaces" /\ n = 18
     \/ request = "tools" /\ n \in 1900 .. 2199
     \/ request \in Lists \ {"tools"} /\ n >= 1900
     \/ request = "discoverFirst" /\ n = 2100
     \/ request = "first" /\ n >= 2200

(* and so the requests whose answers may be taken for that of this one. *)
Mistakable(request) ==
  CASE request = "tools" -> Lists \cup {"discoverFirst"}
    [] request \in Lists \ {"tools"} -> Lists \cup {"discoverFirst", "first"}
    [] request = "discoverFirst" -> Lists \cup {"discoverFirst"}
    [] request = "first" -> (Lists \ {"tools"}) \cup {"first"}
    [] OTHER -> {request}
Taken(request) == (UNION {RightOver(r) : r \in Mistakable(request)}) \cup {Raises("timeout"), Raises("broken")}

LEMMA MistakenFor ==
    ASSUME NEW r, NEW q, NEW n, Numbered(r, n), Numbered(q, n), NEW a \in RightOver(r)
    PROVE  r \in FirstRequests /\ a \in Taken(q)
<1>1. r \in FirstRequests
  BY DEF Numbered, FirstRequests, Lists
<1>2. r \in Mistakable(q)
  <2>1. CASE q = "tools"
    BY <2>1 DEF Numbered, Mistakable, Lists
  <2>2. CASE q \in Lists \ {"tools"}
    BY <2>2 DEF Numbered, Mistakable, Lists
  <2>3. CASE q = "discoverFirst"
    BY <2>3 DEF Numbered, Mistakable, Lists
  <2>4. CASE q = "first"
    BY <2>4 DEF Numbered, Mistakable, Lists
  <2>5. CASE q \in {"discover", "list", "removedMethod", "discoverSurfaces"}
    <3>1. r = q
      BY <2>5 DEF Numbered, Lists
    <3> QED
      BY <2>5, <3>1 DEF Mistakable, Lists
  <2> QED
    BY <2>1, <2>2, <2>3, <2>4, <2>5 DEF Numbered
<1>3. a \in UNION {RightOver(x) : x \in Mistakable(q)}
  BY <1>2
<1> QED
  BY <1>1, <1>3 DEF Taken

LEMMA TakenIs ==
    ASSUME NEW q, NEW a \in Taken(q), a # Raises("timeout"), a # Raises("broken")
    PROVE  \E r \in Mistakable(q) : a \in RightOver(r)
  BY DEF Taken

(* What the members of such an answer are. *)
LEMMA OverList ==
    ASSUME NEW q \in ListRequests, NEW a \in RightOver(q)
    PROVE  \E b \in RightList(q) : a.body = b.body /\ a.has = b.has /\ a.code = b.code
<1>1. RightOver(q) = {OverStdio(b) : b \in RightList(q)}
  BY RightListIs DEF RightOver, ListRequests, Lists
<1>2. \A b : b \in RightList(q) => /\ OverStdio(b).body = b.body /\ OverStdio(b).has = b.has
                                   /\ OverStdio(b).code = b.code
  BY DEF OverStdio
<1> QED
  BY <1>1, <1>2

LEMMA OverHas ==
    /\ \A a \in RightOver("tools") : a.has = {"tools", "public"} \/ a.has = {"tools", "public", "next"}
    /\ \A a \in RightOver("prompts") : a.has = {"prompts", "public"} \/ a.has = {"prompts", "public", "next"}
    /\ \A a \in RightOver("resources") : a.has = {"resources", "private"}
    /\ \A a \in RightOver("templates") : a.has = {"templates", "public"} \/ a.has = {}
    /\ \A side \in {"discoverFirst", "discoverSecond"} : \A a \in RightOver(side) :
         a.has = {"capabilities", "declares"}
    /\ \A a \in RightOver("first") : a.has = {"tools", "a"} \/ a.has = {"tools", "a", "next"}
    /\ \A a \in RightOver("second") : a.has = {"tools", "a"}
<1>1. ASSUME NEW a \in RightOver("tools")
      PROVE  a.has = {"tools", "public"} \/ a.has = {"tools", "public", "next"}
  <2>1. PICK b \in RightList("tools") : a.has = b.has
    BY OverList DEF ListRequests, Lists
  <2>2. RightList("tools") = {Result(200, {"tools", "public"}), Result(200, {"tools", "public", "next"})}
    BY DEF RightList
  <2> QED
    BY <2>1, <2>2, FieldsOf
<1>2. ASSUME NEW a \in RightOver("prompts")
      PROVE  a.has = {"prompts", "public"} \/ a.has = {"prompts", "public", "next"}
  <2>1. PICK b \in RightList("prompts") : a.has = b.has
    BY OverList DEF ListRequests, Lists
  <2>2. RightList("prompts") = {Result(200, {"prompts", "public"}), Result(200, {"prompts", "public", "next"})}
    BY DEF RightList
  <2> QED
    BY <2>1, <2>2, FieldsOf
<1>3. ASSUME NEW a \in RightOver("resources")
      PROVE  a.has = {"resources", "private"}
  <2>1. PICK b \in RightList("resources") : a.has = b.has
    BY OverList DEF ListRequests, Lists
  <2>2. RightList("resources") = {Result(200, {"resources", "private"})}
    BY DEF RightList
  <2> QED
    BY <2>1, <2>2, FieldsOf
<1>4. ASSUME NEW a \in RightOver("templates")
      PROVE  a.has = {"templates", "public"} \/ a.has = {}
  <2>1. PICK b \in RightList("templates") : a.has = b.has
    BY OverList DEF ListRequests, Lists
  <2>2. RightList("templates") = {Result(200, {"templates", "public"}), Error(404, "method_not_found")}
    BY DEF RightList
  <2> QED
    BY <2>1, <2>2, FieldsOf
<1>5. ASSUME NEW side \in {"discoverFirst", "discoverSecond"}, NEW a \in RightOver(side)
      PROVE  a.has = {"capabilities", "declares"}
  <2>1. PICK b \in RightList(side) : a.has = b.has
    BY <1>5, OverList DEF ListRequests, Lists
  <2>2. RightList(side) = {Result(200, {"capabilities", "declares"})}
    BY <1>5 DEF RightList
  <2> QED
    BY <2>1, <2>2, FieldsOf
<1>6. ASSUME NEW a \in RightOver("first")
      PROVE  a.has = {"tools", "a"} \/ a.has = {"tools", "a", "next"}
  <2>1. PICK b \in RightList("first") : a.has = b.has
    BY OverList DEF ListRequests, Lists
  <2>2. RightList("first") = {Result(200, {"tools", "a"}), Result(200, {"tools", "a", "next"})}
    BY DEF RightList
  <2> QED
    BY <2>1, <2>2, FieldsOf
<1>7. ASSUME NEW a \in RightOver("second")
      PROVE  a.has = {"tools", "a"}
  <2>1. PICK b \in RightList("second") : a.has = b.has
    BY OverList DEF ListRequests, Lists
  <2>2. RightList("second") = {Result(200, {"tools", "a"})}
    BY DEF RightList
  <2> QED
    BY <2>1, <2>2, FieldsOf
<1> QED
  BY <1>1, <1>2, <1>3, <1>4, <1>5, <1>6, <1>7

(* An answer that serves what was asked for is one to that request. *)
LEMMA TakenServes ==
    /\ \A s \in Lists : \A a \in Taken(s) : Serves(a, s) => a \in RightOver(s)
    /\ \A side \in {"discoverFirst", "discoverSecond"} : \A a \in Taken(side) :
         Serves(a, "capabilities") => "declares" \in a.has
    /\ \A side \in {"first", "second"} : \A a \in Taken(side) : Serves(a, "tools") => a.has \cap Names = {"a"}
<1>1. \A why, m : ~Serves(Raises(why), m)
  BY DEF Serves, Raises, Blank
<1>2. ASSUME NEW q, NEW a \in Taken(q), NEW m, Serves(a, m)
      PROVE  m \in a.has /\ \E r \in Mistakable(q) : a \in RightOver(r)
  <2>1. \E r \in Mistakable(q) : a \in RightOver(r)
    <3>1. a # Raises("timeout") /\ a # Raises("broken")
      BY <1>1, <1>2
    <3> QED
      BY <3>1, TakenIs
  <2> QED
    BY <1>2, <2>1 DEF Serves
<1>3. ASSUME NEW s \in Lists, NEW a \in Taken(s), Serves(a, s) PROVE a \in RightOver(s)
  <2>1. PICK r \in Mistakable(s) : a \in RightOver(r)
    BY <1>2, <1>3
  <2>2. s \in a.has
    BY <1>2, <1>3
  <2>3. r \in Lists \cup {"discoverFirst"} \/ (r = "first" /\ s # "tools")
    BY <2>1 DEF Mistakable
  <2>4. CASE r = "discoverFirst"
    BY <2>1, <2>2, <2>4, OverHas DEF Lists
  <2>5. CASE r = "first" /\ s # "tools"
    BY <2>1, <2>2, <2>5, OverHas DEF Lists
  <2>6. CASE r \in Lists
    <3>1. r = s
      BY <2>1, <2>2, <2>6, OverHas DEF Lists
    <3> QED
      BY <2>1, <3>1
  <2> QED
    BY <2>3, <2>4, <2>5, <2>6
<1>4. ASSUME NEW side \in {"discoverFirst", "discoverSecond"}, NEW a \in Taken(side), Serves(a, "capabilities")
      PROVE  "declares" \in a.has
  <2>1. PICK r \in Mistakable(side) : a \in RightOver(r)
    BY <1>2, <1>4
  <2>2. "capabilities" \in a.has
    BY <1>2, <1>4
  <2>3. r \in Lists \cup {"discoverFirst", "discoverSecond"}
    BY <2>1 DEF Mistakable, Lists
  <2>4. r \notin Lists
    BY <2>1, <2>2, OverHas DEF Lists
  <2> QED
    BY <2>1, <2>3, <2>4, OverHas
<1>5. ASSUME NEW side \in {"first", "second"}, NEW a \in Taken(side), Serves(a, "tools")
      PROVE  a.has \cap Names = {"a"}
  <2>1. PICK r \in Mistakable(side) : a \in RightOver(r)
    BY <1>2, <1>5
  <2>2. "tools" \in a.has
    BY <1>2, <1>5
  <2>3. r \in (Lists \ {"tools"}) \cup {"first", "second"}
    BY <2>1 DEF Mistakable, Lists
  <2>4. r \notin Lists \ {"tools"}
    BY <2>1, <2>2, OverHas DEF Lists
  <2>5. a.has = {"tools", "a"} \/ a.has = {"tools", "a", "next"}
    BY <2>1, <2>3, <2>4, OverHas
  <2> QED
    BY <2>5 DEF Names
<1> QED
  BY <1>3, <1>4, <1>5

(* A log of a probe over stdio. *)
LateEntries(id) == [req : Requests(id), ans : UNION {Taken(r) : r \in Requests(id)}]
LateRan(id, l) ==
  /\ l \in Seq(LateEntries(id))
  /\ \A i \in 1 .. Len(l) : /\ l[i].req = Probe(id, Before(l, i)).ask
                            /\ l[i].ans \in Taken(l[i].req)
  /\ Pages(l, "tools") <= MaxPages

StdioIds == {"discover", "list", "removedMethod", "pagination", "comparison"}

LEMMA StdioOrderIs ==
    ASSUME NEW q \in Seq(ToSet(StdioOrder))
    PROVE  q \in Seq(StdioIds)
<1>1. GatewayOrder \in Seq(StdioIds) /\ <<"removedMethod", "pagination", "comparison">> \in Seq(StdioIds)
  BY DEF StdioIds, GatewayOrder
<1>2. StdioOrder \in Seq(StdioIds)
  BY <1>1 DEF StdioOrder
<1>3. ToSet(StdioOrder) \subseteq StdioIds
  BY <1>2 DEF ToSet
<1> QED
  BY <1>3

LEMMA StdioAsks ==
    ASSUME NEW id \in StdioIds, NEW l
    PROVE  Probe(id, l).ask \in Requests(id) \cup {""}
<1>1. CASE id \in {"discover", "list", "removedMethod"}
  <2>1. Probe(id, l).ask = (IF l = <<>> THEN Only(id) ELSE "")
    BY <1>1, OneRequestAsks DEF OneRequestIds
  <2> QED
    BY <1>1, <2>1 DEF Only, Requests
<1>2. CASE id = "pagination"
  BY <1>2, ProbeOf, PaginationAsks DEF Requests
<1>3. CASE id = "comparison"
  BY <1>3, ProbeOf, ComparisonAsks DEF Requests
<1> QED
  BY <1>1, <1>2, <1>3 DEF StdioIds

LEMMA PagesAre ==
    ASSUME NEW S, NEW l \in Seq(S), NEW r
    PROVE  IsFiniteSet(PlacesOf(l, r)) /\ Pages(l, r) \in Nat
<1>1. DOMAIN l = 1 .. Len(l) /\ Len(l) \in Nat
  BY LengthIs
<1>2. IsFiniteSet(1 .. Len(l)) /\ PlacesOf(l, r) \subseteq 1 .. Len(l)
  BY <1>1, FS_Interval DEF PlacesOf
<1>3. IsFiniteSet(PlacesOf(l, r))
  BY <1>2, FS_Subset
<1> QED
  BY <1>3, FS_CardinalityType DEF Pages

LEMMA PagesMore ==
    ASSUME NEW S, NEW l \in Seq(S), NEW e \in S, NEW r
    PROVE  Pages(Append(l, e), r) = Pages(l, r) + (IF e.req = r THEN 1 ELSE 0)
<1>1. /\ Append(l, e) \in Seq(S) /\ Len(Append(l, e)) = Len(l) + 1 /\ Len(l) \in Nat
      /\ Append(l, e)[Len(l) + 1] = e
      /\ \A i \in 1 .. Len(l) : Append(l, e)[i] = l[i]
  BY AppendIs
<1>2. DOMAIN l = 1 .. Len(l) /\ DOMAIN Append(l, e) = 1 .. Len(l) + 1
  BY <1>1, LengthIs
<1>3. PlacesOf(Append(l, e), r) = PlacesOf(l, r) \cup (IF e.req = r THEN {Len(l) + 1} ELSE {})
  BY <1>1, <1>2 DEF PlacesOf
<1>4. Len(l) + 1 \notin PlacesOf(l, r)
  BY <1>1, <1>2 DEF PlacesOf
<1>5. IsFiniteSet(PlacesOf(l, r)) /\ Pages(l, r) \in Nat
  BY PagesAre
<1>6. CASE e.req = r
  <2>1. Cardinality(PlacesOf(l, r) \cup {Len(l) + 1}) = Cardinality(PlacesOf(l, r)) + 1
    BY <1>4, <1>5, FS_AddElement
  <2> QED
    BY <1>3, <1>6, <2>1 DEF Pages
<1>7. CASE e.req # r
  BY <1>3, <1>5, <1>7 DEF Pages
<1> QED
  BY <1>6, <1>7

(* Not more pages are asked for than there may be. *)
LEMMA PagesLeft ==
    ASSUME NEW id \in StdioIds, NEW S, NEW l \in Seq(S), Probe(id, l).ask = "tools"
    PROVE  Pages(l, "tools") # MaxPages
<1>1. id = "pagination"
  <2>1. "tools" \in Requests(id)
    BY StdioAsks
  <2> QED
    BY <2>1 DEF Requests, StdioIds
<1>2. PaginationCacheScope(l).ask = "tools"
  BY <1>1, ProbeOf
<1>3. Walked(l, "tools") = "walking"
  BY <1>2, AsksWalking DEF Lists
<1>4. CASE HasAsked(l, "tools")
  BY <1>3, <1>4 DEF Walked
<1>5. CASE ~HasAsked(l, "tools")
  <2>1. PlacesOf(l, "tools") = {}
    BY <1>5, HasAskedIs, PlacesAre
  <2>2. Pages(l, "tools") = 0
    BY <2>1, FS_EmptySet DEF Pages
  <2> QED
    BY <2>2, ProbingAssumption
<1> QED
  BY <1>4, <1>5

LEMMA PagesKept ==
    ASSUME NEW id \in StdioIds, NEW S, NEW l \in Seq(S), NEW e \in S, e.req = Probe(id, l).ask,
           Pages(l, "tools") <= MaxPages
    PROVE  Pages(Append(l, e), "tools") <= MaxPages
<1>1. Pages(Append(l, e), "tools") = Pages(l, "tools") + (IF e.req = "tools" THEN 1 ELSE 0)
  BY PagesMore
<1>2. Pages(l, "tools") \in Nat /\ MaxPages \in Nat
  BY PagesAre, ProbingAssumption
<1>3. e.req = "tools" => Pages(l, "tools") # MaxPages
  BY PagesLeft
<1> QED
  BY <1>1, <1>2, <1>3

(* The numbers are what Numbered says: the pages of the tools, whose walk is *)
(* the first, end before those of the comparison begin.                      *)
LEMMA SurfacesBefore ==
    ASSUME NEW s
    PROVE  SurfaceIndex(s) \in Nat /\ SurfaceIndex("tools") = 0
<1> DEFINE Earlier(surface) ==
             {i \in DOMAIN Surfaces : /\ Surfaces[i] \in Declared(log)
                                     /\ \E j \in DOMAIN Surfaces : i < j /\ Surfaces[j] = surface}
<1>1. \A surface : SurfaceIndex(surface) = Cardinality(Earlier(surface))
  BY DEF SurfaceIndex
<1>2. DOMAIN Surfaces = 1 .. Len(Surfaces) /\ Len(Surfaces) \in Nat
  BY ProbingAssumption
<1>3. Earlier(s) \subseteq 1 .. Len(Surfaces)
  BY <1>2
<1>4. Earlier("tools") = {}
  BY <1>2, StdioAssumption
<1> HIDE DEF Earlier
<1>5. IsFiniteSet(Earlier(s))
  <2>1. IsFiniteSet(1 .. Len(Surfaces))
    BY <1>2, FS_Interval
  <2> QED
    BY <1>3, <2>1, FS_Subset
<1>6. SurfaceIndex(s) \in Nat
  BY <1>1, <1>5, FS_CardinalityType
<1>7. SurfaceIndex("tools") = 0
  BY <1>1, <1>4, FS_EmptySet
<1> QED
  BY <1>6, <1>7

LEMMA NumberIs ==
    ASSUME NEW S, log \in Seq(S), Pages(log, "tools") <= MaxPages,
           NEW request \in FirstRequests, request = "tools" => Pages(log, "tools") # MaxPages
    PROVE  Numbered(request, Number(request))
<1>1. \A r : Pages(log, r) \in Nat
  BY PagesAre
<1>2. PageSpan \in 1 .. 300 /\ MaxPages \in 1 .. PageSpan
  BY StdioAssumption
<1>3. CASE request = "tools"
  <2>1. Number("tools") = 1900 + PageSpan * SurfaceIndex("tools") + Pages(log, "tools")
    BY DEF Number, Lists
  <2>2. PageSpan * SurfaceIndex("tools") = 0
    BY <1>2, SurfacesBefore
  <2>3. PICK n \in Nat : n = Pages(log, "tools")
    BY <1>1
  <2>4. n # MaxPages
    BY <1>3, <2>3
  <2>5. n <= MaxPages
    BY <2>3
  <2>6. n \in 0 .. 299
    BY <1>2, <2>4, <2>5
  <2>7. Number("tools") = 1900 + n
    BY <2>1, <2>2, <2>3
  <2>8. PICK m \in 1900 .. 2199 : m = 1900 + n
    BY <2>6
  <2>9. Numbered("tools", m)
    BY <2>8 DEF Numbered
  <2> QED
    BY <1>3, <2>7, <2>8, <2>9
<1>4. CASE request \in Lists \ {"tools"}
  <2>1. Number(request) = 1900 + PageSpan * SurfaceIndex(request) + Pages(log, request)
    BY <1>4 DEF Number, Lists
  <2>2. PageSpan * SurfaceIndex(request) \in Nat
    BY <1>2, SurfacesBefore
  <2>3. Number(request) \in Nat /\ Number(request) >= 1900
    BY <1>1, <2>1, <2>2
  <2> QED
    BY <1>4, <2>3 DEF Numbered
<1>5. CASE request = "first"
  <2>1. Number("first") = 2200 + Pages(log, "first")
    BY DEF Number, Lists
  <2>2. Number("first") \in Nat /\ Number("first") >= 2200
    BY <1>1, <2>1
  <2> QED
    BY <1>5, <2>2 DEF Numbered
<1>6. CASE request \in {"discover", "list", "removedMethod", "discoverSurfaces", "discoverFirst"}
  <2>1. /\ Number("discover") = 1 /\ Number("list") = 2 /\ Number("removedMethod") = 9
        /\ Number("discoverSurfaces") = 18
    BY DEF Number, Lists
  <2>2. Number("discoverFirst") = 2100
    BY DEF Number, Lists
  <2>3. /\ Numbered("discover", 1) /\ Numbered("list", 2) /\ Numbered("removedMethod", 9)
        /\ Numbered("discoverSurfaces", 18) /\ Numbered("discoverFirst", 2100)
    BY DEF Numbered
  <2> QED
    BY <1>6, <2>1, <2>2, <2>3
<1> QED
  BY <1>3, <1>4, <1>5, <1>6 DEF FirstRequests

LEMMA LateMore ==
    ASSUME NEW id \in StdioIds, NEW l, LateRan(id, l),
           Probe(id, l).ask # "", NEW a \in Taken(Probe(id, l).ask)
    PROVE  LateRan(id, Append(l, [req |-> Probe(id, l).ask, ans |-> a]))
<1> DEFINE e == [req |-> Probe(id, l).ask, ans |-> a]
<1>1. l \in Seq(LateEntries(id))
  BY DEF LateRan
<1>2. Probe(id, l).ask \in Requests(id)
  BY StdioAsks
<1>3. e \in LateEntries(id)
  BY <1>2 DEF LateEntries
<1>4. e.req = Probe(id, l).ask /\ e.ans = a
  OBVIOUS
<1> HIDE DEF e
<1>5. /\ Append(l, e) \in Seq(LateEntries(id)) /\ Len(Append(l, e)) = Len(l) + 1 /\ Len(l) \in Nat
      /\ Append(l, e)[Len(l) + 1] = e
      /\ \A i \in 1 .. Len(l) : Append(l, e)[i] = l[i]
      /\ \A i \in 1 .. Len(Append(l, e)) : i \in 1 .. Len(l) \/ i = Len(l) + 1
  BY <1>1, <1>3, AppendIs, Zenon
<1>6. \A i \in 1 .. Len(l) : Before(Append(l, e), i) = Before(l, i)
  BY <1>1, <1>3, BeforeAppended
<1>7. Before(Append(l, e), Len(l) + 1) = l
  BY <1>1, <1>3, BeforeAppended
<1>8. ASSUME NEW i \in 1 .. Len(l)
      PROVE  /\ Append(l, e)[i].req = Probe(id, Before(Append(l, e), i)).ask
             /\ Append(l, e)[i].ans \in Taken(Append(l, e)[i].req)
  BY <1>5, <1>6 DEF LateRan
<1>9. /\ Append(l, e)[Len(l) + 1].req = Probe(id, Before(Append(l, e), Len(l) + 1)).ask
      /\ Append(l, e)[Len(l) + 1].ans \in Taken(Append(l, e)[Len(l) + 1].req)
  BY <1>4, <1>5, <1>7
<1>10. Pages(Append(l, e), "tools") <= MaxPages
  <2>1. Pages(l, "tools") <= MaxPages
    BY DEF LateRan
  <2> QED
    BY <1>1, <1>3, <1>4, <2>1, PagesKept
<1>11. LateRan(id, Append(l, e))
  BY <1>5, <1>8, <1>9, <1>10 DEF LateRan
<1> QED
  BY <1>11 DEF e

(* After a page that is not the last another was asked for. *)
LEMMA NextPage ==
    ASSUME NEW S, NEW l \in Seq(S), NEW r, NEW i \in PlacesOf(l, r), NEW j \in PlacesOf(l, r), i < j
    PROVE  \E m \in PlacesOf(l, r) :
             HasAsked(Before(l, m), r) /\ LastPage(Before(l, m), r) = l[i].ans
<1> DEFINE later == {k \in PlacesOf(l, r) : i < k}
           m == Min(later)
           p == Before(l, m)
<1>1. /\ PlacesOf(l, r) \subseteq 1 .. Len(l) /\ Len(l) \in Nat
      /\ \A k \in 1 .. Len(l) : k \in PlacesOf(l, r) <=> l[k].req = r
  BY PlacesAre, LengthIs
<1>2. m \in later /\ \A k \in later : m <= k
  <2>1. later \in SUBSET Nat /\ j \in later
    BY <1>1
  <2> HIDE DEF later
  <2> QED
    BY <2>1, SmallestInSet
<1>3. m \in PlacesOf(l, r) /\ i < m /\ m \in 1 .. Len(l) /\ i \in 1 .. Len(l)
  BY <1>1, <1>2
<1>4. \A k \in PlacesOf(l, r) : i < k => m <= k
  BY <1>2
<1> HIDE DEF later, m
<1>5. p \in Seq(S) /\ Len(p) = m - 1 /\ \A k \in 1 .. m - 1 : p[k] = l[k] /\ k \in 1 .. Len(l)
  BY <1>3, BeforeIs
<1> HIDE DEF p
<1>6. /\ PlacesOf(p, r) \subseteq 1 .. Len(p)
      /\ \A k \in 1 .. Len(p) : k \in PlacesOf(p, r) <=> p[k].req = r
  BY <1>5, PlacesAre
<1>7. \A k \in PlacesOf(p, r) : k <= i
  <2>1. \A k \in PlacesOf(p, r) : k \in PlacesOf(l, r) /\ k < m /\ k \in Int
    BY <1>1, <1>3, <1>5, <1>6
  <2> QED
    BY <1>3, <1>4, <2>1
<1>8. i \in PlacesOf(p, r) /\ i \in 1 .. Len(p)
  BY <1>1, <1>3, <1>5, <1>6
<1>9. Max(PlacesOf(p, r)) = i
  <2>1. /\ Max(PlacesOf(p, r)) \in PlacesOf(p, r)
        /\ \A y \in PlacesOf(p, r) : Max(PlacesOf(p, r)) >= y
    BY <1>5, <1>6, <1>8, LengthIs, LargestInSet
  <2> QED
    BY <1>3, <1>6, <1>7, <1>8, <2>1
<1>10. HasAsked(p, r)
  BY <1>5, <1>6, <1>8, HasAskedIs
<1>11. LastPage(p, r) = l[i].ans
  BY <1>3, <1>5, <1>8, <1>9 DEF LastPage
<1> QED
  BY <1>3, <1>10, <1>11 DEF p

(* The exchanges of a log over stdio. *)
LEMMA LateAt ==
    ASSUME NEW id, NEW l, LateRan(id, l), NEW r, NEW i \in PlacesOf(l, r)
    PROVE  l[i].ans \in Taken(r) /\ Probe(id, Before(l, i)).ask = r
<1>1. l \in Seq(LateEntries(id))
  BY DEF LateRan
<1>2. i \in 1 .. Len(l) /\ l[i].req = r
  BY <1>1, PlacesAre
<1> QED
  BY <1>2 DEF LateRan

(* The pages of a walk that is complete are the server's answers to it. *)
LEMMA LatePages ==
    ASSUME NEW l, LateRan("pagination", l), NEW s \in Lists, Walked(l, s) = "complete"
    PROVE  /\ \A i \in PlacesOf(l, s) : l[i].ans \in RightOver(s)
           /\ \A i, j \in PlacesOf(l, s) : i < j => "next" \in l[i].ans.has
<1>1. l \in Seq(LateEntries("pagination"))
  BY DEF LateRan
<1>2. ASSUME NEW i \in PlacesOf(l, s), NEW j \in PlacesOf(l, s), i < j
      PROVE  Serves(l[i].ans, s) /\ "next" \in l[i].ans.has
  <2>1. PICK m \in PlacesOf(l, s) : HasAsked(Before(l, m), s) /\ LastPage(Before(l, m), s) = l[i].ans
    BY <1>1, <1>2, NextPage
  <2>2. PaginationCacheScope(Before(l, m)).ask = s
    BY LateAt, ProbeOf
  <2>3. Walked(Before(l, m), s) = "walking"
    BY <2>2, AsksWalking
  <2> QED
    BY <2>1, <2>3 DEF Walked
<1>3. HasAsked(l, s) /\ Serves(LastPage(l, s), s)
  BY DEF Walked
<1>4. ASSUME NEW i \in PlacesOf(l, s) PROVE Serves(l[i].ans, s)
  <2>1. Max(PlacesOf(l, s)) \in PlacesOf(l, s) /\ Max(PlacesOf(l, s)) >= i
    BY <1>1, PlacesAre, LengthIs, LargestInSet
  <2>2. i \in Int /\ Max(PlacesOf(l, s)) \in Int
    BY <1>1, <2>1, PlacesAre
  <2>3. CASE i = Max(PlacesOf(l, s))
    BY <1>3, <2>3 DEF LastPage
  <2>4. CASE i < Max(PlacesOf(l, s))
    BY <1>2, <2>1, <2>4
  <2> QED
    BY <2>1, <2>2, <2>3, <2>4
<1>5. \A i \in PlacesOf(l, s) : l[i].ans \in Taken(s)
  BY LateAt
<1> QED
  BY <1>2, <1>4, <1>5, TakenServes

LEMMA LateScopes ==
    ASSUME NEW l, LateRan("pagination", l), NEW s \in Lists
    PROVE  ~PagesDisagree(l, s)
<1> SUFFICES ASSUME Walked(l, s) = "complete", Pages(l, s) >= 2 PROVE ~PagesDisagree(l, s)
  BY DEF PagesDisagree
<1>1. l \in Seq(LateEntries("pagination"))
  BY DEF LateRan
<1>2. \A i \in PlacesOf(l, s) : l[i].ans \in RightOver(s)
  BY LatePages
<1>3. CASE s \in {"tools", "prompts"}
  <2>1. \A i \in PlacesOf(l, s) : "public" \in l[i].ans.has
    BY <1>2, <1>3, OverHas
  <2>2. \A i \in PlacesOf(l, s) : Scope(l[i].ans) = "public"
    BY <2>1 DEF Scope
  <2> QED
    BY <1>1, <2>2, ScopesAgree
<1>4. CASE s = "resources"
  <2>1. \A i \in PlacesOf(l, s) : l[i].ans.has = {"resources", "private"}
    BY <1>2, <1>4, OverHas
  <2>2. \A i \in PlacesOf(l, s) : Scope(l[i].ans) = "private"
    BY <2>1 DEF Scope
  <2> QED
    BY <1>1, <2>2, ScopesAgree
<1>5. CASE s = "templates"
  <2>1. PICK i, j \in PlacesOf(l, s) : i < j
    BY <1>1, TwoPlaces
  <2>2. "next" \in l[i].ans.has
    BY <2>1, LatePages
  <2>3. l[i].ans.has = {"templates", "public"} \/ l[i].ans.has = {}
    BY <1>2, <1>5, OverHas
  <2> QED
    BY <2>2, <2>3
<1> QED
  BY <1>3, <1>4, <1>5 DEF Lists

(* A list is collected from where no collection has failed. *)
LEMMA CollectsUnfailed ==
    ASSUME NEW l, CatalogConnectionIndependence(l).ask \in {"first", "second"}
    PROVE  ~CollectFails(l, "first") /\ ~CollectFails(l, "second")
<1> DEFINE fails == CollectFails(l, "first") \/ CollectFails(l, "second")
<1>1. fails => CatalogConnectionIndependence(l) \in
                 {Ask("discoverFirst"), Ask("discoverSecond"), Failed, NotApplicable, Unsupported}
  BY DEF CatalogConnectionIndependence
<1> HIDE DEF fails
<1>2. /\ Ask("discoverFirst").ask = "discoverFirst" /\ Ask("discoverSecond").ask = "discoverSecond"
      /\ Failed.ask = "" /\ NotApplicable.ask = "" /\ Unsupported.ask = ""
  BY StepFields
<1>3. ~fails
  BY <1>1, <1>2
<1> QED
  BY <1>3 DEF fails

(* What the comparison collects of either connection is the server's list. *)
LEMMA LateCollected ==
    ASSUME NEW l, LateRan("comparison", l), NEW side \in {"first", "second"},
           ~CollectFails(l, side), ~Collecting(l, side)
    PROVE  Collected(l, side) = {"a"}
<1>1. l \in Seq(LateEntries("comparison"))
  BY DEF LateRan
<1>2. ASSUME NEW i \in PlacesOf(l, side), NEW j \in PlacesOf(l, side), i < j
      PROVE  Serves(l[i].ans, "tools")
  <2>1. PICK m \in PlacesOf(l, side) : HasAsked(Before(l, m), side) /\ LastPage(Before(l, m), side) = l[i].ans
    BY <1>1, <1>2, NextPage
  <2>2. CatalogConnectionIndependence(Before(l, m)).ask = side
    BY LateAt, ProbeOf
  <2>3. ~CollectFails(Before(l, m), side)
    BY <2>2, CollectsUnfailed
  <2> QED
    BY <2>1, <2>3 DEF CollectFails
<1>3. HasAsked(l, side) /\ Serves(LastPage(l, side), "tools")
  BY DEF CollectFails, Collecting
<1>4. ASSUME NEW i \in PlacesOf(l, side) PROVE Serves(l[i].ans, "tools")
  <2>1. Max(PlacesOf(l, side)) \in PlacesOf(l, side) /\ Max(PlacesOf(l, side)) >= i
    BY <1>1, PlacesAre, LengthIs, LargestInSet
  <2>2. i \in Int /\ Max(PlacesOf(l, side)) \in Int
    BY <1>1, <2>1, PlacesAre
  <2>3. CASE i = Max(PlacesOf(l, side))
    BY <1>3, <2>3 DEF LastPage
  <2>4. CASE i < Max(PlacesOf(l, side))
    BY <1>2, <2>1, <2>4
  <2> QED
    BY <2>1, <2>2, <2>3, <2>4
<1>5. \A i \in PlacesOf(l, side) : l[i].ans.has \cap Names = {"a"}
  BY <1>4, LateAt, TakenServes
<1>6. PlacesOf(l, side) # {}
  BY <1>1, <1>3, PlacesAre
<1> QED
  BY <1>5, <1>6 DEF Collected

(* No probe over stdio, but for the gateways, fails a server that does as it *)
(* should.                                                                   *)
LEMMA LatePagination ==
    ASSUME NEW l, LateRan("pagination", l)
    PROVE  PaginationCacheScope(l) # Unsupported
<1> DEFINE open == {i \in DOMAIN Surfaces : Surfaces[i] \in Declared(l) /\ Walked(l, Surfaces[i]) = "walking"}
<1>1. Declared(l) \subseteq Lists
  <2>1. ToSet(Surfaces) \subseteq Lists
    BY ProbingAssumption DEF ToSet
  <2> QED
    BY <2>1 DEF Declared
<1>2. \A s \in Declared(l) : ~PagesDisagree(l, s)
  BY <1>1, LateScopes
<1>3. PaginationCacheScope(l) \in {Ask("discoverSurfaces"), Failed, NotApplicable, Supported,
                                   Ask(FirstAt(Surfaces, open))}
  BY <1>2 DEF PaginationCacheScope
<1>4. Unsupported # Failed /\ Unsupported # NotApplicable /\ Unsupported # Supported
  BY StepFields
<1>5. \A r : Unsupported # Ask(r)
  BY StepFields
<1> QED
  BY <1>3, <1>4, <1>5

LEMMA LateComparison ==
    ASSUME NEW l, LateRan("comparison", l)
    PROVE  CatalogConnectionIndependence(l) # Unsupported
<1>1. l \in Seq(LateEntries("comparison"))
  BY DEF LateRan
<1>2. ASSUME NEW side \in {"discoverFirst", "discoverSecond"}, HasAsked(l, side),
             Serves(AnswerTo(l, side), "capabilities")
      PROVE  "declares" \in AnswerTo(l, side).has
  <2>1. PICK e \in ToSet(l) : e.req = side /\ e.ans = AnswerTo(l, side)
    BY <1>2, AnswerIsThere
  <2>2. PICK i \in 1 .. Len(l) : e = l[i]
    <3>1. DOMAIN l = 1 .. Len(l)
      BY <1>1, LengthIs
    <3> QED
      BY <3>1 DEF ToSet
  <2>3. i \in PlacesOf(l, side)
    BY <1>1, <2>1, <2>2, PlacesAre
  <2>4. AnswerTo(l, side) \in Taken(side)
    BY <2>1, <2>2, <2>3, LateAt
  <2> QED
    BY <1>2, <2>4, TakenServes
<1> DEFINE served == /\ Serves(AnswerTo(l, "discoverFirst"), "capabilities")
                     /\ Serves(AnswerTo(l, "discoverSecond"), "capabilities")
           asked == HasAsked(l, "discoverFirst") /\ HasAsked(l, "discoverSecond")
           differ == ("declares" \in AnswerTo(l, "discoverFirst").has)
                       # ("declares" \in AnswerTo(l, "discoverSecond").has)
           collected == /\ ~CollectFails(l, "first") /\ ~CollectFails(l, "second")
                        /\ ~Collecting(l, "first") /\ ~Collecting(l, "second")
           same == Collected(l, "first") = Collected(l, "second")
<1>3. asked /\ served => ~differ
  BY <1>2
<1>4. collected => same
  BY LateCollected
<1>5. \/ CatalogConnectionIndependence(l) \in {Ask("discoverFirst"), Ask("discoverSecond"), Failed,
                                               NotApplicable, Ask("first"), Ask("second")}
      \/ asked /\ served /\ differ
      \/ collected /\ CatalogConnectionIndependence(l) = Judged(same)
  BY DEF CatalogConnectionIndependence
<1> HIDE DEF asked, served, differ, collected, same
<1>6. CatalogConnectionIndependence(l) \in {Ask("discoverFirst"), Ask("discoverSecond"), Failed,
                                            NotApplicable, Ask("first"), Ask("second"), Supported}
  BY <1>3, <1>4, <1>5 DEF Judged
<1>7. Unsupported # Failed /\ Unsupported # NotApplicable /\ Unsupported # Supported
  BY StepFields
<1>8. \A r : Unsupported # Ask(r)
  BY StepFields
<1> QED
  BY <1>6, <1>7, <1>8

LEMMA LateRemovedMethod ==
    ASSUME NEW l, LateRan("removedMethod", l)
    PROVE  RemovedMethod(l) # Unsupported
<1>1. l \in Seq(LateEntries("removedMethod"))
  BY DEF LateRan
<1>2. l # <<>> => Heard(l) \in Taken("removedMethod")
  <2>1. ASSUME l # <<>> PROVE Len(l) \in 1 .. Len(l) /\ Heard(l) = l[Len(l)].ans
    BY <1>1, <2>1, LengthIs DEF Heard, Last
  <2>2. ASSUME NEW i \in 1 .. Len(l) PROVE l[i].req = "removedMethod"
    <3>1. Requests("removedMethod") = {"removedMethod"}
      BY DEF Requests
    <3>2. l[i] \in LateEntries("removedMethod")
      BY <1>1
    <3> QED
      BY <3>1, <3>2 DEF LateEntries
  <2> QED
    BY <2>1, <2>2 DEF LateRan
<1>3. ASSUME NEW a \in Taken("removedMethod"), ~Raised(a)
      PROVE  StatusIs(a, 404) /\ a.code = "method_not_found"
  <2>1. \A why \in {"timeout", "broken"} : Raised(Raises(why))
    BY DEF Raised, Raises, Blank
  <2>2. a \in UNION {RightOver(r) : r \in Mistakable("removedMethod")}
    BY <1>3, <2>1 DEF Taken
  <2>3. Mistakable("removedMethod") = {"removedMethod"}
    BY DEF Mistakable, Lists
  <2>4. RightOver("removedMethod") = {OverStdio(b) : b \in Right("removedMethod")}
    BY DEF RightOver
  <2>5. PICK b \in Right("removedMethod") : a = OverStdio(b)
    BY <2>2, <2>3, <2>4
  <2>6. b = Error(404, "method_not_found")
    BY RightIsRefusal, RefusalsOf
  <2>7. OverStdio(b).status = NoStatus /\ OverStdio(b).code = b.code
    BY <2>6 DEF OverStdio, Error, Blank
  <2>8. b.code = "method_not_found"
    BY <2>6, FieldsOf
  <2> QED
    BY <2>5, <2>7, <2>8 DEF StatusIs
<1>4. RemovedMethod(l) \in {Ask("removedMethod"), Failed, Supported}
  <2>1. CASE l = <<>>
    BY <2>1 DEF RemovedMethod, OneRequest
  <2>2. CASE l # <<>> /\ Raised(Heard(l))
    BY <2>2 DEF RemovedMethod, OneRequest
  <2>3. CASE l # <<>> /\ ~Raised(Heard(l))
    <3>1. (StatusIs(Heard(l), 404) /\ Heard(l).code = "method_not_found") = TRUE
      BY <1>2, <1>3, <2>3
    <3>2. RemovedMethod(l) = Judged(StatusIs(Heard(l), 404) /\ Heard(l).code = "method_not_found")
      BY <2>3 DEF RemovedMethod, OneRequest
    <3> QED
      BY <3>1, <3>2 DEF Judged
  <2> QED
    BY <2>1, <2>2, <2>3
<1>5. Unsupported # Failed /\ Unsupported # Supported /\ Unsupported # Ask("removedMethod")
  BY StepFields
<1> QED
  BY <1>4, <1>5

(* Of all that a probe may do only Unsupported has that outcome. *)
LEMMA OnlyUnsupported ==
    ASSUME NEW id \in StdioIds \ {"discover", "list"}, NEW l, LateRan(id, l)
    PROVE  Probe(id, l).outcome # "unsupported"
<1>1. Probe(id, l) # Unsupported
  <2>1. CASE id = "pagination"
    BY <2>1, LatePagination, ProbeOf
  <2>2. CASE id = "comparison"
    BY <2>2, LateComparison, ProbeOf
  <2>3. CASE id = "removedMethod"
    BY <2>3, LateRemovedMethod, ProbeOf
  <2> QED
    BY <2>1, <2>2, <2>3 DEF StdioIds
<1>2. \/ Probe(id, l) \in {Supported, Unsupported, Failed, NotApplicable}
      \/ \E r : Probe(id, l) = Ask(r)
  <2>1. CASE id = "pagination"
    BY <2>1, ProbeOf DEF PaginationCacheScope
  <2>2. CASE id = "comparison"
    BY <2>2, ProbeOf DEF CatalogConnectionIndependence, Judged
  <2>3. CASE id = "removedMethod"
    BY <2>3, ProbeOf DEF RemovedMethod, OneRequest, Judged
  <2> QED
    BY <2>1, <2>2, <2>3 DEF StdioIds
<1> QED
  BY <1>1, <1>2, StepFields

(* Over stdio, with a server that does as it should: what is sent and not yet *)
(* read carries a number of its request, and so does the one waited for; the  *)
(* log is one that may result.                                                *)
Messages ==
  {m \in [id : Nat, ans : UNION {RightOver(r) : r \in FirstRequests}] :
     \E r \in FirstRequests : Numbered(r, m.id) /\ m.ans \in RightOver(r)}
Unblamed(reported) == \A x \in DOMAIN reported \ {"discover", "list"} : reported[x].outcome # "unsupported"
LateRuns ==
  transport = "stdio" /\ conduct = "right" =>
    /\ \A p \in pending : Numbered(p.req, p.id)
    /\ pipe \in Seq(Messages)
    /\ waiting # NoId => Numbered(Step.ask, waiting)
    /\ queue # <<>> => LateRan(Head(queue), log)
    /\ Unblamed(results)

LEMMA LateStarts ==
    ASSUME NEW id
    PROVE  LateRan(id, <<>>)
<1>1. PlacesOf(<<>>, "tools") = {}
  BY DEF PlacesOf
<1>2. Pages(<<>>, "tools") = 0
  BY <1>1, FS_EmptySet DEF Pages
<1> QED
  BY <1>2, ProbingAssumption DEF LateRan

LEMMA UnblamedMore ==
    ASSUME NEW reported, Unblamed(reported), NEW ids, NEW v,
           ids \subseteq {"discover", "list"} \/ v.outcome # "unsupported"
    PROVE  Unblamed(Reporting(reported, ids, v))
  BY DEF Unblamed, Reporting

LEMMA LateAtFirst == Init => LateRuns
<1> SUFFICES ASSUME Init PROVE LateRuns
  OBVIOUS
<1>1. log = <<>> /\ pending = {} /\ pipe = <<>> /\ waiting = NoId /\ DOMAIN results = {}
  BY DEF Init
<1>2. LateRan(Head(queue), log)
  BY <1>1, LateStarts
<1>3. Unblamed(results)
  BY <1>1 DEF Unblamed
<1>4. pipe \in Seq(Messages) /\ \A p \in pending : Numbered(p.req, p.id)
  BY <1>1
<1> QED
  BY <1>1, <1>2, <1>3, <1>4 DEF LateRuns

(* What is answered comes under a number of its request. *)
LEMMA AnswersOver ==
    ASSUME conduct = "right", NEW request
    PROVE  StdioAnswers(request) = RightOver(request)
  BY DEF StdioAnswers, RightOver

LEMMA LateServer ==
    ASSUME Inv, LateRuns, Server, transport = "stdio", conduct = "right"
    PROVE  LateRuns'
<1>1. /\ \A p \in pending : Numbered(p.req, p.id)
      /\ pipe \in Seq(Messages)
      /\ waiting # NoId => Numbered(Step.ask, waiting)
      /\ queue # <<>> => LateRan(Head(queue), log)
      /\ Unblamed(results)
  BY DEF LateRuns
<1>2. ASSUME UNCHANGED <<queue, log, results, waiting>>
      PROVE  /\ (waiting # NoId => Numbered(Step.ask, waiting))'
             /\ (queue # <<>> => LateRan(Head(queue), log))'
             /\ Unblamed(results)'
  BY <1>1, <1>2 DEF Step
<1>3. CASE ServerAnswers
  <2>1. PICK p \in pending : \E a \in StdioAnswers(p.req) :
          pending' = pending \ {p} /\ pipe' = Append(pipe, [id |-> p.id, ans |-> a])
    BY <1>3 DEF ServerAnswers
  <2>2. PICK a \in RightOver(p.req) :
          pending' = pending \ {p} /\ pipe' = Append(pipe, [id |-> p.id, ans |-> a])
    BY <2>1, AnswersOver
  <2>3. Numbered(p.req, p.id) /\ p.req \in FirstRequests /\ p.id \in Nat
    BY <1>1 DEF Numbered, FirstRequests, Lists
  <2>4. [id |-> p.id, ans |-> a] \in Messages
    BY <2>2, <2>3 DEF Messages
  <2>5. pipe' \in Seq(Messages)
    BY <1>1, <2>2, <2>4
  <2>6. UNCHANGED <<queue, log, results, waiting>>
    BY <1>3 DEF ServerAnswers
  <2> QED
    BY <1>1, <1>2, <2>2, <2>5, <2>6 DEF LateRuns
<1>4. CASE ServerAsks
  BY <1>4 DEF ServerAsks
<1>5. CASE ServerDies
  <2>1. UNCHANGED <<queue, log, results, waiting, pipe>> /\ pending' = {}
    BY <1>5 DEF ServerDies
  <2> QED
    BY <1>1, <1>2, <2>1 DEF LateRuns
<1> QED
  BY <1>3, <1>4, <1>5 DEF Server

(* What a probe is answered, or is not, keeps its log. *)
LEMMA LateExchange ==
    ASSUME NEW id \in StdioIds, queue # <<>>, Head(queue) = id, LateRan(id, log), Step.ask \in Requests(id),
           NEW a \in Taken(Step.ask), log' = Exchange(Step.ask, a), queue' = queue
    PROVE  LateRan(Head(queue), log)'
<1>1. Step.ask = Probe(id, log).ask
  BY DEF Step
<1>2. Probe(id, log).ask # ""
  BY <1>1 DEF Requests, StdioIds, Lists
<1>3. LateRan(id, Append(log, [req |-> Probe(id, log).ask, ans |-> a]))
  BY <1>1, <1>2, LateMore
<1>4. log' = Append(log, [req |-> Probe(id, log).ask, ans |-> a]) /\ Head(queue') = id
  BY <1>1 DEF Exchange
<1> QED
  BY <1>3, <1>4

LEMMA StdioQueue ==
    ASSUME Inv, transport = "stdio"
    PROVE  /\ queue \in Seq(StdioIds)
           /\ queue # <<>> => Head(queue) \in StdioIds /\ Tail(queue) \in Seq(StdioIds)
           /\ waiting # NoId => queue # <<>>
           /\ process = "none" => waiting = NoId
<1>1. queue \in Seq(ToSet(StdioOrder)) /\ (process = "none" => waiting = NoId) /\ (waiting # NoId => queue # <<>>)
  BY DEF Inv, GatewaysAsked
<1>2. queue \in Seq(StdioIds)
  BY <1>1, StdioOrderIs
<1> QED
  BY <1>1, <1>2, TailIs

(* What is asked of the first process, and of the second, is a request of the probe. *)
LEMMA AskedIs ==
    ASSUME NEW id \in StdioIds, queue # <<>>, Head(queue) = id
    PROVE  /\ Step.ask \in FirstRequests => Step.ask \in Requests(id)
           /\ OnSecond(Step.ask) => Step.ask \in Requests(id)
           /\ Step.ask \in Requests(id) => Step.ask \in FirstRequests \/ OnSecond(Step.ask)
           /\ Step.ask # "" => Step.ask \in Requests(id)
<1>1. Step.ask \in Requests(id) \cup {""}
  BY StdioAsks DEF Step
<1>2. "" \notin FirstRequests /\ ~OnSecond("")
  BY DEF FirstRequests, Lists, OnSecond
<1>3. Requests(id) \subseteq FirstRequests \cup {"discoverSecond", "second"}
  BY DEF Requests, StdioIds, FirstRequests, Lists
<1>4. \A r \in {"discoverSecond", "second"} : OnSecond(r)
  BY DEF OnSecond
<1> QED
  BY <1>1, <1>2, <1>3, <1>4

LEMMA SecondTaken ==
    ASSUME NEW request, OnSecond(request), NEW a \in RightOver(request) \cup {Raises("timeout")}
    PROVE  a \in Taken(request)
<1>1. Mistakable(request) = {request}
  BY DEF OnSecond, Mistakable, Lists
<1>2. a \in RightOver(request) => a \in UNION {RightOver(r) : r \in Mistakable(request)}
  BY <1>1
<1> QED
  BY <1>2 DEF Taken

LEMMA StepNumber ==
    ASSUME NEW id \in StdioIds, queue # <<>>, Head(queue) = id, LateRan(id, log), Step.ask \in FirstRequests
    PROVE  Numbered(Step.ask, Number(Step.ask))
<1>1. log \in Seq(LateEntries(id)) /\ Pages(log, "tools") <= MaxPages
  BY DEF LateRan
<1>2. Step.ask = "tools" => Pages(log, "tools") # MaxPages
  BY <1>1, PagesLeft DEF Step
<1> QED
  BY <1>1, <1>2, NumberIs

LEMMA LateProber ==
    ASSUME Inv, LateRuns, StdioProber, transport = "stdio", conduct = "right"
    PROVE  LateRuns'
<1>1. /\ \A p \in pending : Numbered(p.req, p.id)
      /\ pipe \in Seq(Messages)
      /\ waiting # NoId => Numbered(Step.ask, waiting)
      /\ queue # <<>> => LateRan(Head(queue), log)
      /\ Unblamed(results)
  BY DEF LateRuns
<1>2. /\ queue \in Seq(StdioIds)
      /\ queue # <<>> => Head(queue) \in StdioIds /\ Tail(queue) \in Seq(StdioIds)
      /\ waiting # NoId => queue # <<>>
      /\ process = "none" => waiting = NoId
  BY StdioQueue
<1> DEFINE id == Head(queue)
<1>3. Failure.outcome # "unsupported" /\ Inapplicable.outcome # "unsupported"
  BY DEF Failure, Inapplicable
<1>4. ASSUME UNCHANGED <<pending, pipe>>, queue' = <<>>, waiting' = NoId, Unblamed(results)'
      PROVE  LateRuns'
  BY <1>1, <1>4 DEF LateRuns
<1>5. ASSUME UNCHANGED <<queue, results>>, queue # <<>>, waiting' = NoId,
             Step.ask \in Requests(id), NEW a \in Taken(Step.ask), log' = Exchange(Step.ask, a),
             pending' \subseteq pending, pipe' \in Seq(Messages)
      PROVE  LateRuns'
  <2>1. LateRan(Head(queue), log)'
    BY <1>1, <1>2, <1>5, LateExchange
  <2>2. Unblamed(results)'
    BY <1>1, <1>5
  <2> QED
    BY <1>1, <1>5, <2>1, <2>2 DEF LateRuns
<1>6. ASSUME waiting # NoId
      PROVE  queue # <<>> /\ Step.ask \in Requests(id) /\ Step.ask \in FirstRequests
  <2>1. queue # <<>> /\ id \in StdioIds
    BY <1>2, <1>6
  <2>2. Step.ask \in FirstRequests
    BY <1>1, <1>6 DEF Numbered, FirstRequests, Lists
  <2> QED
    BY <2>1, <2>2, AskedIs
<1>7. \A r : Raises("timeout") \in Taken(r) /\ Raises("broken") \in Taken(r)
  BY DEF Taken
<1>8. CASE Launch
  <2>1. waiting' = NoId /\ UNCHANGED <<log, pending, pipe>>
    BY <1>2, <1>8 DEF Launch
  <2>2. CASE UNCHANGED <<queue, results>>
    <3>1. (queue # <<>> => LateRan(Head(queue), log))' /\ Unblamed(results)'
      BY <1>1, <2>1, <2>2
    <3> QED
      BY <1>1, <2>1, <3>1 DEF LateRuns
  <2>3. CASE queue' = <<>> /\ results' = Reporting(results, Left, Failure)
    <3>1. Unblamed(results')
      BY <1>1, <1>3, <2>3, UnblamedMore
    <3> QED
      BY <1>4, <2>1, <2>3, <3>1
  <2> QED
    BY <1>8, <2>2, <2>3 DEF Launch
<1>9. CASE NoSecondProcess
  <2>1. /\ waiting' = NoId /\ UNCHANGED <<pending, pipe>> /\ queue' = <<>>
        /\ results' = Reporting(results, Left, Failure)
    BY <1>9 DEF NoSecondProcess, Probes, stdioVars
  <2>2. Unblamed(results')
    BY <1>1, <1>3, <2>1, UnblamedMore
  <2> QED
    BY <1>4, <2>1, <2>2
<1>10. CASE AskSecond
  <2>1. /\ queue # <<>> /\ waiting' = NoId /\ OnSecond(Step.ask)
        /\ UNCHANGED <<queue, results, pending, pipe>>
    BY <1>10 DEF AskSecond, Probes, stdioVars
  <2>2. PICK a \in RightOver(Step.ask) \cup {Raises("timeout")} : log' = Exchange(Step.ask, a)
    BY <1>10, AnswersOver DEF AskSecond
  <2>3. a \in Taken(Step.ask)
    BY <2>1, SecondTaken
  <2>4. Step.ask \in Requests(id)
    BY <1>2, <2>1, AskedIs
  <2> QED
    BY <1>1, <1>5, <2>1, <2>2, <2>3, <2>4
<1>11. CASE Send
  <2>1. /\ queue # <<>> /\ waiting = NoId /\ ~OnSecond(Step.ask)
        /\ UNCHANGED <<queue, results, pipe>>
    BY <1>11 DEF Send, Probes
  <2>2. Step.ask \in Requests(id) /\ Step.ask \in FirstRequests
    BY <1>2, <1>11, <2>1, AskedIs DEF Send
  <2>3. CASE process = "dead"
    <3>1. log' = Exchange(Step.ask, Raises("broken")) /\ UNCHANGED <<waiting, pending>>
      BY <1>11, <2>3 DEF Send
    <3> QED
      BY <1>1, <1>5, <1>7, <2>1, <2>2, <3>1
  <2>4. CASE process # "dead"
    <3>1. /\ waiting' = Number(Step.ask) /\ log' = log
          /\ pending' = pending \cup {[id |-> Number(Step.ask), req |-> Step.ask]}
      BY <1>11, <2>4 DEF Send
    <3>2. Numbered(Step.ask, Number(Step.ask))
      BY <1>1, <1>2, <2>1, <2>2, StepNumber
    <3>3. \A p \in pending' : Numbered(p.req, p.id)
      BY <1>1, <3>1, <3>2
    <3>4. Step' = Step
      BY <2>1, <3>1 DEF Step
    <3>5. (queue # <<>> => LateRan(Head(queue), log))' /\ Unblamed(results)' /\ pipe' \in Seq(Messages)
      BY <1>1, <2>1, <3>1
    <3> QED
      BY <3>1, <3>2, <3>3, <3>4, <3>5 DEF LateRuns
  <2> QED
    BY <2>3, <2>4
<1>12. CASE Read
  <2>1. waiting # NoId /\ pipe # <<>> /\ pipe' = Tail(pipe) /\ UNCHANGED <<queue, results, pending>>
    BY <1>12 DEF Read
  <2>2. Head(pipe) \in Messages /\ pipe' \in Seq(Messages)
    BY <1>1, <2>1
  <2>3. CASE Head(pipe).id = waiting
    <3>1. PICK r \in FirstRequests : Numbered(r, waiting) /\ Head(pipe).ans \in RightOver(r)
      BY <2>2, <2>3 DEF Messages
    <3>2. Head(pipe).ans \in Taken(Step.ask)
      BY <1>1, <2>1, <3>1, MistakenFor
    <3>3. log' = Exchange(Step.ask, Head(pipe).ans) /\ waiting' = NoId
      BY <1>12, <2>3 DEF Read
    <3> QED
      BY <1>5, <1>6, <2>1, <2>2, <3>2, <3>3
  <2>4. CASE Head(pipe).id # waiting
    <3>1. UNCHANGED <<log, waiting>>
      BY <1>12, <2>4 DEF Read
    <3>2. Step' = Step
      BY <2>1, <3>1 DEF Step
    <3>3. (queue # <<>> => LateRan(Head(queue), log))' /\ Unblamed(results)'
      BY <1>1, <2>1, <3>1
    <3>4. (waiting # NoId => Numbered(Step.ask, waiting))'
      BY <1>1, <3>1, <3>2
    <3> QED
      BY <1>1, <2>1, <2>2, <3>3, <3>4 DEF LateRuns
  <2> QED
    BY <2>3, <2>4
<1>13. CASE TimeOut
  <2>1. /\ waiting # NoId /\ waiting' = NoId /\ log' = Exchange(Step.ask, Raises("timeout"))
        /\ UNCHANGED <<queue, results, pipe>> /\ pending' \subseteq pending
    BY <1>13 DEF TimeOut, GivesUp
  <2> QED
    BY <1>1, <1>5, <1>6, <1>7, <2>1
<1>14. CASE EndOfOutput
  <2>1. /\ waiting # NoId /\ waiting' = NoId /\ log' = Exchange(Step.ask, Raises("broken"))
        /\ UNCHANGED <<queue, results, pipe, pending>>
    BY <1>14 DEF EndOfOutput, GivesUp
  <2> QED
    BY <1>1, <1>5, <1>6, <1>7, <2>1
<1>15. CASE Record
  <2> DEFINE kept == IF id = "list" /\ Step.outcome = "supported" THEN log ELSE <<>>
             result == [outcome |-> Step.outcome, log |-> kept]
             done == Reporting(results, {id}, result)
             rest == ToSet(Tail(queue))
  <2>1. /\ queue # <<>> /\ waiting' = NoId /\ log' = <<>> /\ UNCHANGED <<pending, pipe>>
    BY <1>15 DEF Record, Probes, stdioVars
  <2>2. IF StopsHere(done)
        THEN queue' = <<>> /\ \E other \in {Failure, Inapplicable} : results' = Reporting(done, rest, other)
        ELSE queue' = Tail(queue) /\ results' = done
    BY <1>15 DEF Record
  <2>3. result.outcome = Step.outcome
    OBVIOUS
  <2>4. id \notin {"discover", "list"} => Step.outcome # "unsupported"
    BY <1>1, <1>2, <2>1, OnlyUnsupported DEF Step
  <2> HIDE DEF result, id
  <2>5. Unblamed(done)
    BY <1>1, <2>3, <2>4, UnblamedMore
  <2> HIDE DEF done, rest
  <2>6. LateRan(Head(queue), log)'
    BY <2>1, LateStarts
  <2>7. CASE StopsHere(done)
    <3>1. PICK other \in {Failure, Inapplicable} : queue' = <<>> /\ results' = Reporting(done, rest, other)
      BY <2>2, <2>7
    <3>2. Unblamed(results')
      BY <1>3, <2>5, <3>1, UnblamedMore
    <3> QED
      BY <1>4, <2>1, <3>1, <3>2
  <2>8. CASE ~StopsHere(done)
    <3>1. Unblamed(results')
      BY <2>2, <2>5, <2>8
    <3> QED
      BY <1>1, <2>1, <2>6, <3>1 DEF LateRuns
  <2> QED
    BY <2>7, <2>8
<1> QED
  BY <1>8, <1>9, <1>10, <1>11, <1>12, <1>13, <1>14, <1>15 DEF StdioProber

(* A server that answers each request as it should, however late and in    *)
(* whatever order, or dies, is failed by no probe over stdio.              *)
THEOREM LateAnswersAreHarmless == Spec => []LateAnswersDoNoHarm
<1>1. Init => Inv /\ LateRuns
  BY InvAtFirst, LateAtFirst
<1>2. Inv /\ LateRuns /\ [Next]_vars => LateRuns'
  <2> SUFFICES ASSUME Inv, LateRuns, [Next]_vars, transport' = "stdio", conduct' = "right" PROVE LateRuns'
    BY DEF LateRuns
  <2>1. CASE UNCHANGED vars
    <3>1. UNCHANGED <<queue, log, results, transport, conduct, waiting, pending, pipe>>
      BY <2>1 DEF vars, stdioVars
    <3>2. Step' = Step
      BY <3>1 DEF Step
    <3> QED
      BY <3>1, <3>2 DEF LateRuns
  <2>2. CASE OverHttp(Request) \/ OverHttp(Conclude)
    BY <2>2 DEF OverHttp, stdioVars
  <2>3. CASE StdioProber \/ Server
    <3>1. transport = "stdio" /\ conduct = "right"
      BY <2>3 DEF StdioProber, Server, ServerAnswers, ServerAsks, ServerDies, Launch, NoSecondProcess,
         AskSecond, Send, Read, TimeOut, EndOfOutput, Record, stdioVars
    <3> QED
      BY <2>3, <3>1, LateProber, LateServer
  <2> QED
    BY <2>1, <2>2, <2>3 DEF Next
<1>3. LateRuns => LateAnswersDoNoHarm
  <2>1. ToSet(GatewayOrder) = {"discover", "list"}
    BY DEF ToSet, GatewayOrder
  <2> QED
    BY <2>1, Zenon DEF LateRuns, LateAnswersDoNoHarm, Unblamed
<1>4. Spec => []Inv
  BY ProbesRun
<1> QED
  BY <1>1, <1>2, <1>3, <1>4, PTL DEF Spec
=============================================================================
