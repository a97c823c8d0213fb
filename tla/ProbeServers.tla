----------------------------- MODULE ProbeServers -----------------------------
(***************************************************************************)
(* The server under test, as the probes meet it: for each request, what a  *)
(* server that conforms to the protocol may answer, and what any server,   *)
(* gateway or network may.  Nothing here is code of the project: the       *)
(* requests are those the probes send, the conforming answers those that   *)
(* the MCP specification asks for, as the rules cite it.                   *)
(***************************************************************************)
EXTENDS ProbeAnswers

\* Requests that any server may serve or refuse, with the members of the result.
Members(request) ==
  CASE request \in {"discover", "jsonControl", "control"} ->
         {"supportedVersions", "versions", "negotiated", "ttl", "scope", "complete", "json", "id", "tools"}
    [] request \in {"list", "queryList", "strippedList", "badTokenList", "sessionEcho"} ->
         {"tools", "ttl", "scope", "complete", "json"}
    [] request \in {"initialize", "controlInit", "queryInit", "strippedInit", "anonymousInit",
                    "badTokenInit", "spoofedInit", "replayInit"} -> {"protocolVersion"}
    [] OTHER -> {"supportedVersions", "tools"}

Served(request)  == {Result(200, Members(request)), Minting(Result(200, Members(request)))}
Unknown          == {Error(404, "method_not_found"), Error(400, "invalid_request"), Status(404)}

TokenError == Challenging(Error(400, ""), "invalid_token")
UnsupportedVersion ==
  [Error(400, "unsupported_version") EXCEPT !.has = {"supported", "requested"}]

\* Requests that a conforming server must refuse, with the refusals.
Refusals(request) ==
  CASE request = "malformedMeta" -> {Error(400, "invalid_params")}
    [] request = "headerMismatch" -> {Error(400, "header_mismatch")}
    [] request \in {"noVersion", "noMethod", "nameMismatch"} ->
         {Error(400, "header_mismatch"), Status(401)}
    [] request = "getStream"      -> {Status(405)}
    [] request = "unknownVersion" -> {UnsupportedVersion}
    [] request \in {"missingResource", "badCursor"} -> {Error(200, "invalid_params")}
    [] request \in {"removedMethod", "unknownMethod"} -> {Error(404, "method_not_found")}
    [] request = "brokenJson"     -> {Error(400, "parse_error")}
    [] request \in {"spoofed", "spoofedInit"} -> {Status(403)}
    [] request \in {"replay", "replayInit"} -> {Status(403), Raises("refused")}
    [] request \in {"badTokenList", "badTokenInit"} ->
         {Status(401), TokenError}
    [] request = "invalidRequest" -> {Error(400, "invalid_request"), Error(200, "invalid_request")}
    [] request = "afterDelete"    -> {Status(404)}
    [] OTHER -> {}

MustRefuse(request) == Refusals(request) # {}

-----------------------------------------------------------------------------
(* Catalogues.  A conforming server lists the same on both connections and  *)
(* keeps one scope for all pages of a list.                                 *)

Lists == {"tools", "resources", "templates", "prompts"}
ListRequests == Lists \cup {"discoverSurfaces", "discoverFirst", "discoverSecond", "first", "second"}

RightList(request) ==
  CASE request = "discoverSurfaces" ->
         {Result(200, {"capabilities"} \cup d) : d \in {{}, {"tools"}, Lists}}
    [] request \in {"discoverFirst", "discoverSecond"} -> {Result(200, {"capabilities", "declares"})}
    [] request = "first"  -> {Result(200, {"tools", "a"}), Result(200, {"tools", "a", "next"})}
    [] request = "second" -> {Result(200, {"tools", "a"})}
    [] request = "templates" -> {Result(200, {request, "public"}), Error(404, "method_not_found")}
    [] request = "resources" -> {Result(200, {request, "private"})}
    [] request \in {"tools", "prompts"} ->
         {Result(200, {request, "public"}), Result(200, {request, "public", "next"})}

WrongList(request) ==
  IF request \in Lists
  THEN {Result(200, {request, "private"}), Result(200, {request, "public", "next", "again"}), Result(200, {})}
  ELSE {Result(200, {"capabilities"}), Result(200, {"tools", "b"}), Result(200, {"tools", "unnamed"}),
        Error(200, "internal")}

-----------------------------------------------------------------------------
\* What a conforming server may answer.
Right(request) ==
  IF MustRefuse(request) THEN Refusals(request)
  ELSE IF request \in ListRequests THEN RightList(request)
  ELSE CASE request \in {"discover", "list", "validRequest", "validAgain", "ping"} ->
              {Result(200, Members(request))}
         [] request = "sessionEcho" -> {Result(200, Members(request))}
         [] request \in {"initialized", "notification"} -> {Status(202)}
         [] request = "openStream" -> {Status(405), Result(200, {"stream"})}
         [] request = "delete"     -> {Status(200), Status(405)}
         [] OTHER -> Served(request) \cup Unknown

\* A server that is busy answers any request alike; so does one that gates it, a
\* network that fails, and a body too large to be read.
Busy == {Status(429), Status(503)}
Trouble ==
  Busy \cup {Status(401), Status(403), Status(307), Status(500), Unread(200, "capped"),
             Unread(404, "unfinished"), Raises("timeout"), Raises("refused"), Raises("broken")}

\* A server that does not do as it must.
Wrong(request) ==
  Served(request) \cup Unknown
    \cup {Result(200, {}), Status(200), Status(202), Status(405), Error(200, "internal"),
          Error(400, "invalid_params"), Minting([Raises("timeout") EXCEPT !.status = 200])}

-----------------------------------------------------------------------------
(* The documents of authorization discovery, and the places they are at.   *)

\* What _well_known_urls and _auth_server_metadata_urls may name, in any order.
ResourcePlaces == {"wellKnownPath", "wellKnownRoot"}
IssuerPlaces   == {"oauthServer", "openidServer", "openidAppended"}

Challenges  == {Challenging(Status(401), c) : c \in {"", "plain", "reference", "unfetchable", "wellKnown"}}
Resolutions == {Challenging(Blank, c) : c \in {"", "private", "timeout"}}

AuthAnswers(request) ==
  CASE request = "anonymousList" ->
         {Result(200, {"tools"}), Status(429), Raises("timeout"), Status(403)} \cup Challenges
    [] request \in {"resolveChallenge", "resolveIssuer"} -> Resolutions
    [] request \in {"reference"} \cup ResourcePlaces ->
         {Status(404), Raises("broken"), Raises("invalid"), Result(200, {}), Result(200, {"resource"}),
          Result(200, {"resource", "matches", "servers", "httpsServers", "https", "scopes"})}
    [] request \in IssuerPlaces ->
         {Status(404), Raises("timeout"), Result(200, {"issuer"}),
          Result(200, {"issuer", "endpoints", "S256", "cimd", "registration", "iss"})}
    [] request \in {"badTokenList", "badTokenInit", "anonymousInit"} ->
         Right(request) \cup Served(request)
           \cup {Status(401), Status(307), Status(429), Error(404, "method_not_found"), Raises("timeout")}

AuthRequests ==
  {"anonymousList", "resolveChallenge", "resolveIssuer", "reference", "badTokenList",
   "badTokenInit", "anonymousInit"} \cup ResourcePlaces \cup IssuerPlaces

Answers(request) ==
  IF request \in AuthRequests THEN AuthAnswers(request)
  ELSE IF request \in ListRequests
  THEN RightList(request) \cup WrongList(request) \cup {Status(429), Raises("timeout")}
  ELSE Right(request) \cup Trouble \cup Wrong(request)
=============================================================================
