---------------------------- MODULE RequestProbes ----------------------------
(***************************************************************************)
(* The probes of probes.py that need no legacy session.  Each is a         *)
(* function of the exchanges it has had so far to what it does next, so    *)
(* that its guards and early returns are those of the coroutine and its    *)
(* awaits are the places where a state machine may interleave or fail.     *)
(* An exception of a request ends a probe as "error" (run_one), whichever  *)
(* request it was.                                                         *)
(***************************************************************************)
EXTENDS ProbeAnswers

CONSTANTS
    MaxPages,           \* PAGINATION_PROBE_MAX_PAGES
    Surfaces            \* the surfaces a server may declare, in the order of the walk

\* A probe of one request.
OneRequest(log, request, Judge(_)) ==
  IF log = <<>> THEN Ask(request)
  ELSE IF Raised(Heard(log)) THEN Failed
  ELSE Judge(Heard(log))

Discover(log)      == LET J(a) == Judged(Serves(a, "supportedVersions"))
                      IN  OneRequest(log, "discover", J)
StatelessList(log) == LET J(a) == Judged(Serves(a, "tools"))
                      IN  OneRequest(log, "list", J)
MalformedMeta(log) == LET J(a) == Judged(StatusIs(a, 400) /\ a.code = "invalid_params")
                      IN  OneRequest(log, "malformedMeta", J)
HeaderMismatch(log) == LET J(a) == Judged(a.status = 400 /\ a.code = "header_mismatch")
                       IN  OneRequest(log, "headerMismatch", J)

HeaderValidationResult_GateIsAnAnswer(a) == Judged(a.status = 400 /\ a.code = "header_mismatch")

HeaderValidationResult(a) ==
  IF Gated(a) THEN NotApplicable
  ELSE Judged(a.status = 400 /\ a.code = "header_mismatch")

MissingProtocolVersion(log) == OneRequest(log, "noVersion", HeaderValidationResult)
MissingMethodHeader(log)    == OneRequest(log, "noMethod", HeaderValidationResult)

\* The control is the same request with headers that agree: it tells a
\* refusal of the header from one of the method or of the caller.
NameHeaderMismatch(log) ==
  IF log = <<>> THEN Ask("nameControl")
  ELSE IF Raised(Heard(log)) THEN Failed
  ELSE IF Asked(log) = "nameMismatch" THEN HeaderValidationResult(Heard(log))
  ELSE IF Gated(Heard(log)) \/ Heard(log).code = "method_not_found" THEN NotApplicable
  ELSE Ask("nameMismatch")

GetStreamRemoved(log) ==
  LET J(a) == IF Gated(a) THEN NotApplicable ELSE Judged(a.status = 405)
  IN  OneRequest(log, "getStream", J)

\* The error must name the versions that are supported and the one requested.
UnknownVersion(log) ==
  LET J(a) == Judged(a.code = "unsupported_version" /\ {"supported", "requested"} \subseteq a.has)
  IN  OneRequest(log, "unknownVersion", J)

MissingResource(log) == LET J(a) == Judged(a.code = "invalid_params")
                        IN  OneRequest(log, "missingResource", J)

InvalidCursor(log, method) ==
  LET J(a) ==
        IF Gated(a) \/ (method = "templates" /\ a.code = "method_not_found")
        THEN NotApplicable
        ELSE Judged(a.code = "invalid_params")
  IN  OneRequest(log, "badCursor", J)

SessionIdEcho(log) == LET J(a) == Judged(Serves(a, "tools") /\ ~a.session)
                      IN  OneRequest(log, "sessionEcho", J)
RemovedMethod(log) == LET J(a) == Judged(StatusIs(a, 404) /\ a.code = "method_not_found")
                      IN  OneRequest(log, "removedMethod", J)
UnknownMethod(log) ==
  LET J(a) == IF Gated(a) THEN NotApplicable
              ELSE Judged(StatusIs(a, 404) /\ a.code = "method_not_found")
  IN  OneRequest(log, "unknownMethod", J)

\* A control that is correlated with its request shows that the server reads
\* JSON at all; an answer whose body was not read in full is no evidence,
\* unless what was read of it parses.  "id" in `has`: the answer names an id.
MalformedJson(log) ==
  IF log = <<>> THEN Ask("jsonControl")
  ELSE IF Raised(Heard(log)) THEN Failed
  ELSE IF Asked(log) = "jsonControl" THEN Ask("brokenJson")
  ELSE LET control == AnswerTo(log, "jsonControl")
           correlated == /\ control.body # "none"
                         /\ "id" \in control.has
                         /\ control.code # "parse_error"
           a == Heard(log)
           correct == a.code = "parse_error" /\ "id" \notin a.has /\ a.body = "error"
       IN  IF ~correlated \/ (~correct /\ a.unread # "" /\ a.body = "none")
           THEN NotApplicable
           ELSE Judged(correct)

-----------------------------------------------------------------------------
(* Lists whose pages are walked.  A page answers with `has`: the list by its *)
(* key, its scope, and "next" for a fresh cursor or "again" for a seen one.  *)

Pages(log, s) == Cardinality(PlacesOf(log, s))
LastPage(log, s) == log[Max(PlacesOf(log, s))].ans
Scope(a) == IF "public" \in a.has THEN "public" ELSE IF "private" \in a.has THEN "private" ELSE ""

\* One surface of the walk (_traverse_cache_scope_surface).
Walked(log, s) ==
  LET last == LastPage(log, s)
  IN  IF ~HasAsked(log, s) THEN "walking"
      ELSE IF ~Serves(last, s)
           THEN IF s = "templates" /\ last.code = "method_not_found" THEN "absent" ELSE "partial"
      ELSE IF "again" \in last.has THEN "partial"
      ELSE IF "next" \notin last.has THEN "complete"
      ELSE IF Pages(log, s) = MaxPages THEN "partial" ELSE "walking"

PagesDisagree(log, s) ==
  LET first == Scope(FirstAt(log, PlacesOf(log, s)).ans)
  IN  /\ Walked(log, s) = "complete" /\ Pages(log, s) >= 2
      /\ first = "" \/ \E i \in PlacesOf(log, s) : Scope(log[i].ans) # first

\* A complete walk is needed for a verdict on its pages, a partial one forbids a pass.
Declared(log) == ToSet(Surfaces) \cap AnswerTo(log, "discoverSurfaces").has

PaginationCacheScope(log) ==
  LET declared == Declared(log)
      open == {i \in DOMAIN Surfaces : Surfaces[i] \in declared /\ Walked(log, Surfaces[i]) = "walking"}
  IN  IF log = <<>> THEN Ask("discoverSurfaces")
      ELSE IF Raised(Heard(log)) THEN Failed
      ELSE IF declared = {} THEN NotApplicable
      ELSE IF open # {} THEN Ask(FirstAt(Surfaces, open))
      ELSE IF \E s \in declared : PagesDisagree(log, s) THEN Unsupported
      ELSE IF \E s \in declared : Walked(log, s) = "partial" THEN Failed
      ELSE IF \A s \in declared : Pages(log, s) < 2 \/ Walked(log, s) = "absent"
           THEN NotApplicable
      ELSE Supported

\* The names both connections list, or a failure on either of them: a walk that
\* stops early, a page without its list, an item without a name.  An answer carries
\* the names themselves.  Here it is the comparison of the tools.
Names == {"a", "b"}
Connection == <<"discoverFirst", "discoverSecond", "first", "second">>

Collected(log, side) == UNION {log[i].ans.has \cap Names : i \in PlacesOf(log, side)}
CollectFails_RefusalIsEmpty(log, side) ==
  LET last == LastPage(log, side)
  IN  /\ HasAsked(log, side)
      /\ \/ Raised(last) \/ "unnamed" \in last.has \/ "again" \in last.has
         \/ "next" \in last.has /\ Pages(log, side) = MaxPages

CollectFails(log, side) ==
  LET last == LastPage(log, side)
  IN  /\ HasAsked(log, side)
      /\ \/ Raised(last) \/ ~Serves(last, "tools") \/ "unnamed" \in last.has \/ "again" \in last.has
         \/ "next" \in last.has /\ Pages(log, side) = MaxPages
Collecting(log, side) == ~HasAsked(log, side) \/ "next" \in LastPage(log, side).has

\* One surface of _probe_catalog_connection_independence.
CatalogConnectionIndependence(log) ==
  LET declares(side) == "declares" \in AnswerTo(log, side).has
  IN  IF ~HasAsked(log, "discoverFirst") THEN Ask("discoverFirst")
      ELSE IF Raised(Heard(log)) THEN Failed
      ELSE IF ~HasAsked(log, "discoverSecond") THEN Ask("discoverSecond")
      ELSE IF \E s \in {"discoverFirst", "discoverSecond"} : ~Serves(AnswerTo(log, s), "capabilities")
           THEN NotApplicable
      ELSE IF ~declares("discoverFirst") /\ ~declares("discoverSecond") THEN NotApplicable
      ELSE IF declares("discoverFirst") # declares("discoverSecond") THEN Unsupported
      ELSE IF CollectFails(log, "first") \/ CollectFails(log, "second") THEN Failed
      ELSE IF Collecting(log, "first") THEN Ask("first")
      ELSE IF Collecting(log, "second") THEN Ask("second")
      ELSE Judged(Collected(log, "first") = Collected(log, "second"))
=============================================================================
