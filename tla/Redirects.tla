----------------------------- MODULE Redirects -----------------------------
(***************************************************************************)
(* The redirect policy of redirects.py: which redirect a request of        *)
(* mcpscore's own follows.  Of a URL it looks at the scheme, whether the   *)
(* host is the endpoint's, whether the port is the scheme's default one,   *)
(* and whose userinfo it carries.                                          *)
(***************************************************************************)

EXTENDS Naturals

URLs == [scheme : {"http", "https"}, host : {"own", "other"},
         port : {"default", "fixed"}, userinfo : {"none", "own", "foreign"}]

CONSTANTS
    Endpoints,     \* the endpoints a user may name
    MaxRedirects   \* max_redirects of the HTTP client

ASSUME PolicyAssumption == Endpoints \subseteq URLs /\ MaxRedirects \in Nat

RedirectStatuses == {301, 302, 303, 307, 308}

(* _redirected_method                                                      *)
BecomesGet(status, method) ==
    \/ status = 303 /\ method # "HEAD"
    \/ status = 302 /\ method \notin {"HEAD", "QUERY"}
    \/ status = 301 /\ method = "POST"

RedirectedMethod(status, method) == IF BecomesGet(status, method) THEN "GET" ELSE method

(* within_origin: the same origin, or its upgrade on the default ports.    *)
Upgrade(sent, target) ==
    /\ sent.host = target.host
    /\ sent.scheme = "http" /\ target.scheme = "https"
    /\ sent.port = "default" /\ target.port = "default"

WithinOrigin_AnyUpgrade(sent, target) == sent.host = target.host

WithinOrigin(sent, target) ==
    \/ Upgrade(sent, target)
    \/ /\ sent.scheme = target.scheme
       /\ sent.host = target.host
       /\ sent.port = target.port

(* _refusal, the reasons in the order they are looked for.                 *)
Refusal_OriginOnly(sent, status, method, target) ==
    CASE sent.scheme = "https" /\ target.scheme = "http" -> "downgrade"
      [] ~WithinOrigin(sent, target) -> "off_origin"
      [] OTHER -> "none"

Refusal(sent, status, method, target) ==
    CASE sent.scheme = "https" /\ target.scheme = "http" -> "downgrade"
      [] ~WithinOrigin(sent, target) -> "off_origin"
      [] target.userinfo # "none" /\ target.userinfo # sent.userinfo -> "credentials"
      [] RedirectedMethod(status, method) # method -> "method"
      [] OTHER -> "none"

=============================================================================
