---------------------------- MODULE ProbeAnswers ----------------------------
(***************************************************************************)
(* What a probe can learn from one request (probes.py).  An answer is the  *)
(* HTTP status, the JSON-RPC message and the headers the probes read, or   *)
(* the exception that came instead of them.  Over stdio there is no        *)
(* status: NoStatus.                                                       *)
(***************************************************************************)
EXTENDS Integers, Sequences, SequencesExt

NoStatus == 0

\* The outcomes of a probe (ProbeOutcome).
Outcomes == {"supported", "unsupported", "error", "not_applicable"}

\* An answer.  `raised` is why there is none; `has` the members of the result
\* that a probe asks for; `unread` why the body is not known.
Answer == [raised : {"", "timeout", "refused", "broken", "invalid"}, status : Nat,
           body : {"none", "result", "error"}, code : STRING, has : SUBSET STRING,
           session : BOOLEAN, challenge : STRING, unread : STRING]

Blank == [raised |-> "", status |-> 200, body |-> "none", code |-> "", has |-> {},
          session |-> FALSE, challenge |-> "", unread |-> ""]

Status(s)        == [Blank EXCEPT !.status = s]
Result(s, has)   == [Blank EXCEPT !.status = s, !.body = "result", !.has = has]
Error(s, code)   == [Blank EXCEPT !.status = s, !.body = "error", !.code = code]
Raises(why)      == [Blank EXCEPT !.raised = why, !.status = NoStatus]
Unread(s, why)   == [Blank EXCEPT !.status = s, !.unread = why]
Minting(a)       == [a EXCEPT !.session = TRUE]
Challenging(a,c) == [a EXCEPT !.challenge = c]

Raised(a)   == a.raised # ""
Ok(a)       == a.status \in 200..299
Gated(a)    == a.status \in {401, 403}
Redirect(a) == a.status \in {301, 302, 303, 307, 308}

\* The status refuses any request alike: a time-out, a rate limit, a server error.
Inconclusive(a) == a.status \in {408, 429} \/ a.status >= 500

\* Every status pairs with its JSON-RPC half; without HTTP only the latter exists.
StatusIs(a, expected) == a.status \in {NoStatus, expected}

\* The result carries the member a probe asks for.
Serves(a, member) == a.body = "result" /\ member \in a.has

\* A refusal of the credential, by status or by the challenge of a 4xx.
TokenRefused(a) ==
  \/ Gated(a)
  \/ a.status \in 400..499 /\ a.challenge = "invalid_token"

-----------------------------------------------------------------------------
(* What a probe does next: ask (a request by name), or be done.  `close` is *)
(* TRUE when it first ends the session of the last handshake.               *)

Ask(request)         == [ask |-> request, outcome |-> "", close |-> FALSE]
Done(outcome)        == [ask |-> "", outcome |-> outcome, close |-> FALSE]
ClosingThen(step)    == [step EXCEPT !.close = TRUE]

Supported   == Done("supported")
Unsupported == Done("unsupported")
Failed      == Done("error")
NotApplicable == Done("not_applicable")

Judged(correct) == IF correct THEN Supported ELSE Unsupported

\* The exchanges so far are a sequence of [req, ans]; most decisions read the last.
Asked(log)   == Last(log).req
Heard(log)   == Last(log).ans
AnswerTo(log, request) == (CHOOSE e \in ToSet(log) : e.req = request).ans
HasAsked(log, request) == \E e \in ToSet(log) : e.req = request
PlacesOf(log, request) == {i \in DOMAIN log : log[i].req = request}

\* The first element of a sequence that is at one of these places.
FirstAt(s, places) == s[Min(places)]
=============================================================================
