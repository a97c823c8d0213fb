------------------------------- MODULE SignIn -------------------------------
(***************************************************************************)
(* obtain_token_interactively (oauth.py), the sign-in of --oauth: one      *)
(* request to the endpoint, sent hop by hop within its origin, under an    *)
(* OAuth provider that answers a challenge by sending the user's browser   *)
(* to the authorization server and waiting for it to come back to a        *)
(* listener on the loopback interface.                                     *)
(*                                                                         *)
(* The provider is the SDK's, and is modelled as the code relies on it: a  *)
(* challenge to a request makes it discover, register, have the browser    *)
(* opened, await callback_handler, compare the state that came back with   *)
(* the one it sent, exchange the code, store what it got and send the      *)
(* request again.  Each hop is a request to it.                            *)
(*                                                                         *)
(* Whoever knows the port may connect to the listener.  A grant is known   *)
(* by its number, which stands for its state parameter; 0 is no state of   *)
(* this sign-in.  The specification is that of the command line that signs *)
(* in, module SignedRun.                                                   *)
(***************************************************************************)
EXTENDS Naturals, Redirects

CONSTANT Visits    \* connections to the listener

VARIABLES
    flow,          \* where the sign-in stands
    endpoint, url, method, hops,
    grant,         \* authorizations begun by the provider
    tokens,        \* what the token storage holds
    outcome,       \* the token that is returned, or why OAuthFlowError is raised
    listening,
    at,            \* where the handler of a visit stands
    says,          \* the request of a visit
    result         \* the listener's one future

request == <<endpoint, url, method, hops>>
listener == <<listening, at, says>>

Kinds == {"code", "error", "bare", "other"}
Requests == [kind : Kinds, state : Nat]
Pending == [kind |-> "pending", state |-> 0]
Cancelled == [kind |-> "cancelled", state |-> 0]

Init ==
    /\ flow = "binding"
    /\ endpoint \in Endpoints /\ url = endpoint /\ method = "POST" /\ hops = 0
    /\ grant = 0 /\ tokens = "none" /\ outcome = "none"
    /\ listening = FALSE
    /\ at = [v \in Visits |-> "away"]
    /\ says = [v \in Visits |-> Pending]
    /\ result = Pending

----------------------------------------------------------------------------
(* How the try block is left: with a token, with the OAuthFlowError of     *)
(* callback_handler, or with an exception of another kind, after which a   *)
(* token that was obtained is still returned.                              *)
Leave(end) ==
    /\ outcome' = end
    /\ flow' = "closing"

Held == IF tokens = "token" THEN "token" ELSE "no_token"

Salvaged_Nothing == "failed"

Salvaged == IF tokens = "token" THEN "token" ELSE "failed"

(* callback.start                                                          *)
Bind ==
    /\ flow = "binding"
    /\ \/ flow' = "sending" /\ listening' = TRUE /\ UNCHANGED outcome
       \/ flow' = "over" /\ outcome' = "no_port" /\ UNCHANGED listening
    /\ UNCHANGED <<request, grant, tokens, at, says, result>>

(* send_within_origin: the response of a hop, to the request as sent first *)
(* or as sent again with the token.                                        *)
Sent == flow \in {"sending", "resending"}

Follows(status, target) ==
    /\ Refusal(url, status, method, target) = "none"
    /\ hops < MaxRedirects

Redirect ==
    /\ Sent
    /\ \E status \in RedirectStatuses, target \in URLs :
           /\ Follows(status, target)
           /\ url' = target
           /\ method' = RedirectedMethod(status, method)
    /\ hops' = hops + 1
    /\ flow' = "sending"
    /\ UNCHANGED <<endpoint, grant, tokens, outcome, listener, result>>

(* Any other response, a redirect that is not followed among them.         *)
Answer ==
    /\ Sent
    /\ Leave(Held)
    /\ UNCHANGED <<request, grant, tokens, listener, result>>

(* The network, discovery, registration, the token endpoint.               *)
Fail ==
    /\ Sent \/ flow \in {"preparing", "exchanging"}
    /\ Leave(Salvaged)
    /\ UNCHANGED <<request, grant, tokens, listener, result>>

(* A request that was just sent is refused for want of authorization.      *)
Challenge ==
    /\ flow = "sending"
    /\ grant' = grant + 1
    /\ flow' = "preparing"
    /\ UNCHANGED <<request, tokens, outcome, listener, result>>

(* Discovered and registered, redirect_handler opens the browser and       *)
(* callback_handler awaits the future, at once if it is done.              *)
Authorize_Anew ==
    /\ flow = "preparing"
    /\ result' = Pending
    /\ flow' = "waiting"
    /\ UNCHANGED <<request, grant, tokens, outcome, listener>>

Authorize ==
    /\ flow = "preparing"
    /\ flow' = IF result = Pending THEN "waiting" ELSE "received"
    /\ UNCHANGED <<request, grant, tokens, outcome, listener, result>>

(* callback_handler goes on with the answer, and the provider with its     *)
(* code: a state that is not the grant's raises.                           *)
Receive ==
    /\ flow \in {"waiting", "received"}
    /\ result # Pending
    /\ IF result.kind = "error" THEN Leave("refused")
       ELSE IF result.state # grant THEN Leave(Salvaged)
       ELSE flow' = "exchanging" /\ UNCHANGED outcome
    /\ UNCHANGED <<request, grant, tokens, listener, result>>

(* wait_for cancels the future; an answer that came meanwhile stays in it, *)
(* and is lost all the same.                                               *)
TimeOut ==
    /\ flow = "waiting"
    /\ result' = IF result = Pending THEN Cancelled ELSE result
    /\ Leave("timed_out")
    /\ UNCHANGED <<request, grant, tokens, listener>>

(* set_tokens; an authorization server may hand out an empty token.        *)
Exchange ==
    /\ flow = "exchanging"
    /\ tokens' \in {"token", "empty"}
    /\ flow' = "resending"
    /\ UNCHANGED <<request, grant, outcome, listener, result>>

(* callback.close, in two steps.  Whether wait_closed waits for the        *)
(* connections that are open differs between versions of asyncio; nothing  *)
(* here says when it returns.                                              *)
Close ==
    /\ flow = "closing"
    /\ listening' = FALSE
    /\ flow' = "closed"
    /\ UNCHANGED <<request, grant, tokens, outcome, at, says, result>>

Return ==
    /\ flow = "closed"
    /\ flow' = "over"
    /\ UNCHANGED <<request, grant, tokens, outcome, listener, result>>

(* The user gives up (Ctrl-C): the task is cancelled where it awaits.      *)
Interrupt ==
    /\ flow \notin {"binding", "closing", "over"}
    /\ outcome' = "interrupted"
    /\ flow' = IF flow = "closed" THEN "over" ELSE "closing"
    /\ result' = IF flow = "waiting" /\ result = Pending THEN Cancelled ELSE result
    /\ UNCHANGED <<request, grant, tokens, listener>>

----------------------------------------------------------------------------
(* _handle, the handler of one connection.  It may end before its request  *)
(* line is there, and may never send one.                                  *)
Connect(v) ==
    /\ listening
    /\ at[v] = "away"
    /\ at' = [at EXCEPT ![v] = "reading"]
    /\ UNCHANGED <<flow, request, grant, tokens, outcome, listening, says, result>>

ReadRequest(v) ==
    /\ at[v] = "reading"
    /\ \E kind \in Kinds, state \in 0 .. grant :
           says' = [says EXCEPT ![v] = [kind |-> kind, state |-> IF kind = "code" THEN state ELSE 0]]
    /\ at' = [at EXCEPT ![v] = "answering"]
    /\ UNCHANGED <<flow, request, grant, tokens, outcome, listening, result>>

Drop(v) ==
    /\ at[v] = "reading"
    /\ at' = [at EXCEPT ![v] = "gone"]
    /\ UNCHANGED <<flow, request, grant, tokens, outcome, listening, says, result>>

IsAuthResponse_AnyCallback(asked) == asked.kind \in {"code", "error", "bare"}

IsAuthResponse(asked) == asked.kind \in {"code", "error"}

(* Answered and closed, the first response to get here is the answer.      *)
Finish(v) ==
    /\ at[v] = "answering"
    /\ at' = [at EXCEPT ![v] = "gone"]
    /\ result' = IF IsAuthResponse(says[v]) /\ result = Pending THEN says[v] ELSE result
    /\ UNCHANGED <<flow, request, grant, tokens, outcome, listening, says>>

Browser == \E v \in Visits : Connect(v) \/ ReadRequest(v) \/ Drop(v) \/ Finish(v)

Task ==
    \/ Bind \/ Redirect \/ Answer \/ Fail \/ Challenge \/ Authorize \/ Receive \/ TimeOut
    \/ Exchange \/ Close \/ Return

----------------------------------------------------------------------------
TypeOK ==
    /\ flow \in {"binding", "sending", "preparing", "waiting", "received", "exchanging",
                 "resending", "closing", "closed", "over"}
    /\ {endpoint, url} \subseteq URLs /\ hops \in 0 .. MaxRedirects
    /\ grant \in 0 .. MaxRedirects + 1
    /\ tokens \in {"none", "empty", "token"}
    /\ outcome \in {"none", "token", "no_token", "failed", "refused", "timed_out", "no_port",
                    "interrupted"}
    /\ listening \in BOOLEAN
    /\ at \in [Visits -> {"away", "reading", "answering", "gone"}]
    /\ says \in [Visits -> Requests \cup {Pending}]
    /\ result \in Requests \cup {Pending, Cancelled}

(* A token that was obtained is returned, whatever failed or was refused   *)
(* after it: the request that follows it, a hop that is challenged once    *)
(* more, a second authorization that nobody answers.  None is made up.     *)
TokenKept ==
    outcome \notin {"none", "interrupted"} => (outcome = "token" <=> tokens = "token")

(* One answer of the browser decides the sign-in, and no visit besides it: *)
(* a token was obtained for the code that answers the first authorization, *)
(* a refusal is one that came back.                                        *)
OneAnswer ==
    /\ result.kind \in {"pending", "cancelled", "code", "error"}
    /\ tokens # "none" => result = [kind |-> "code", state |-> 1]
    /\ outcome = "refused" => result.kind = "error"

(* However many redirects it follows, the request goes to the endpoint the *)
(* user named or to its upgrade, never over plain HTTP where the user said *)
(* https, with no userinfo but the user's, and as the POST it was.         *)
RequestStaysHome ==
    /\ url.host = endpoint.host
    /\ url.port = endpoint.port
    /\ url.scheme # endpoint.scheme => url.scheme = "https" /\ url.port = "default"
    /\ url.userinfo \in {endpoint.userinfo, "none"}
    /\ method = "POST"

=============================================================================
