-------------------------- MODULE SignedRunProofs --------------------------
(***************************************************************************)
(* A run that signs in is a run of AuditRun, so that what is proved of     *)
(* that one holds of it; and what holds of the sign-in in it, for any      *)
(* connections to the listener, any endpoints and any number of redirects. *)
(* The invariant of the latter says what the control of the sign-in knows  *)
(* of its one future: a token in hand came with the code of the first      *)
(* authorization, so that no later one is ever waited for.                 *)
(***************************************************************************)
EXTENDS SignedRun, AuditRunProofs

LEMMA RunStepsOrStutters == [SignedNext]_runVars => [Next]_vars
<1>1. SUFFICES ASSUME [SignedNext]_runVars PROVE [Next]_vars
  OBVIOUS
<1>2. CASE SignInStep
  BY <1>2 DEF SignInStep
<1>3. CASE SignInFails
  BY <1>3 DEF SignInFails, Next
<1>4. CASE SignedIn
  BY <1>4 DEF SignedIn, Next
<1>5. CASE AfterSignIn
  BY <1>5 DEF AfterSignIn
<1>6. CASE UNCHANGED runVars
  BY <1>6 DEF runVars
<1>7. QED
  BY <1>1, <1>2, <1>3, <1>4, <1>5, <1>6 DEF SignedNext

(* With --oauth or without, a run is one of AuditRun: the sign-in comes    *)
(* before it, ends it with exit code 1 or an interrupt, or lets it begin.  *)
THEOREM SignInComesFirst == SignedSpec => Spec
<1>1. SignedInit => Init
  BY DEF SignedInit
<1>2. QED
  BY <1>1, RunStepsOrStutters, PTL DEF SignedSpec, Spec

----------------------------------------------------------------------------
(* What is proved of AuditRun holds of the run with its sign-in: what the  *)
(* exit code tells, whom it blames, what it launches and leaves behind.    *)
THEOREM SignedRunsAreSound ==
    SignedSpec =>
        /\ [](ExitCodeTells /\ BlameIsEarned /\ NothingLeftBehind)
        /\ RelaunchOnlyIfUnexplained
  BY SignInComesFirst, ExitCodeIsTrue, BlameIsSound, LaunchIsNeeded, NothingIsLeft, PTL

----------------------------------------------------------------------------
(* The sign-in.                                                            *)
FirstCode == [kind |-> "code", state |-> 1]

Underway == flow \notin {"closing", "closed", "over"}

(* A hop is challenged at most once.                                       *)
GrantsPerHop ==
    /\ grant <= hops + 1
    /\ flow = "sending" => grant <= hops

(* A request is sent after an authorization only with what that obtained.  *)
TokenBeforeNext ==
    /\ flow = "binding" => grant = 0
    /\ Login!Sent /\ grant > 0 => tokens # "none"
    /\ flow \in {"preparing", "waiting", "received"} =>
           grant > 0 /\ (grant > 1 => tokens # "none")
    /\ tokens # "none" => grant > 0

(* What is waited for and what is exchanged.                               *)
AnswerInHand ==
    /\ flow = "waiting" => tokens = "none"
    /\ flow = "received" => result # Login!Pending
    /\ flow = "exchanging" => result = FirstCode /\ grant > 0

OutcomeComesLast == Underway <=> outcome = "none"

SignInInv ==
    /\ Login!TypeOK
    /\ GrantsPerHop
    /\ TokenBeforeNext
    /\ AnswerInHand
    /\ OutcomeComesLast
    /\ Login!TokenKept
    /\ Login!OneAnswer
    /\ Login!RequestStaysHome

----------------------------------------------------------------------------
(* A redirect that is not refused stays within the origin, keeps the       *)
(* method and brings no userinfo of its own (redirects.py, _refusal).      *)
LEMMA NotRefused ==
    ASSUME NEW sent \in Login!URLs, NEW goal \in Login!URLs, NEW status, NEW asked,
           Login!Refusal(sent, status, asked, goal) = "none"
    PROVE  /\ goal.host = sent.host /\ goal.port = sent.port
           /\ goal.scheme # sent.scheme => goal.scheme = "https" /\ goal.port = "default"
           /\ goal.userinfo \in {sent.userinfo, "none"}
           /\ Login!RedirectedMethod(status, asked) = asked
<1>1. /\ ~(sent.scheme = "https" /\ goal.scheme = "http")
      /\ Login!WithinOrigin(sent, goal)
      /\ ~(goal.userinfo # "none" /\ goal.userinfo # sent.userinfo)
      /\ Login!RedirectedMethod(status, asked) = asked
  BY DEF Login!Refusal
<1>2. QED
  BY <1>1 DEF Login!WithinOrigin, Login!Upgrade, Login!URLs

LEMMA SignInStarts == Login!Init => SignInInv
<1>1. SUFFICES ASSUME Login!Init PROVE SignInInv
  OBVIOUS
<1>2. endpoint \in Login!URLs
  BY <1>1, PolicyAssumption DEF Login!Init, Login!URLs, URLs, PolicyAssumption
<1>3. Login!TypeOK
  <2>1. at \in [Visits -> {"away", "reading", "answering", "gone"}]
    BY <1>1 DEF Login!Init
  <2>2. /\ says \in [Visits -> Login!Requests \cup {Login!Pending}]
        /\ result \in Login!Requests \cup {Login!Pending, Login!Cancelled}
    BY <1>1 DEF Login!Init
  <2>3. hops \in 0 .. MaxRedirects /\ grant \in 0 .. MaxRedirects + 1
    BY <1>1, PolicyAssumption DEF Login!Init, Login!URLs, URLs, PolicyAssumption
  <2>4. {endpoint, url} \subseteq Login!URLs
    BY <1>1, <1>2 DEF Login!Init
  <2>5. QED
    BY <1>1, <2>1, <2>2, <2>3, <2>4 DEF Login!Init, Login!TypeOK
<1>4. GrantsPerHop /\ TokenBeforeNext /\ AnswerInHand /\ OutcomeComesLast
  BY <1>1 DEF Login!Init, GrantsPerHop, TokenBeforeNext, AnswerInHand, OutcomeComesLast, Login!Sent, Underway
<1>5. Login!TokenKept /\ Login!OneAnswer
  BY <1>1 DEF Login!Init, Login!TokenKept, Login!OneAnswer, Login!Pending
<1>6. Login!RequestStaysHome
  BY <1>1, <1>2 DEF Login!Init, Login!RequestStaysHome
<1>7. QED
  BY <1>3, <1>4, <1>5, <1>6 DEF SignInInv

LEMMA SignInKeeps ==
    SignInInv /\ (Login!Task \/ Login!Interrupt \/ Login!Browser \/ UNCHANGED signInVars) => SignInInv'
<1> SUFFICES ASSUME SignInInv,
                    Login!Task \/ Login!Interrupt \/ Login!Browser \/ UNCHANGED signInVars
             PROVE  SignInInv'
 
  OBVIOUS
<1> USE PolicyAssumption
        DEF PolicyAssumption, SignInInv, GrantsPerHop, TokenBeforeNext, AnswerInHand, OutcomeComesLast,
            Underway, FirstCode, Login!TypeOK, Login!TokenKept, Login!OneAnswer, Login!Sent,
            Login!Pending, Login!Cancelled, Login!request, Login!listener
<1>1. CASE Login!Bind
  <2>1. tokens = "none" /\ grant = 0 /\ outcome = "none"
    BY <1>1 DEF Login!Bind
  <2>2. Login!TypeOK'
    <3>1. grant' \in 0 .. MaxRedirects + 1
      BY <1>1 DEF Login!Bind
    <3>2. result' \in Login!Requests \cup {Login!Pending, Login!Cancelled}
      BY <1>1 DEF Login!Bind
    <3>3. QED
      BY <1>1, <2>1, <3>1, <3>2 DEF Login!Bind
  <2>3. GrantsPerHop'
    BY <1>1, <2>1 DEF Login!Bind
  <2>4. Login!RequestStaysHome'
    BY <1>1 DEF Login!Bind, Login!RequestStaysHome
  <2>5. TokenBeforeNext' /\ AnswerInHand' /\ OutcomeComesLast'
    BY <1>1, <2>1 DEF Login!Bind
  <2>6. Login!TokenKept' /\ Login!OneAnswer'
    BY <1>1, <2>1 DEF Login!Bind
  <2>7. QED
    BY <2>2, <2>3, <2>4, <2>5, <2>6
<1>2. CASE Login!Redirect
  <2>1. PICK status \in Login!RedirectStatuses, goal \in Login!URLs :
            /\ Login!Follows(status, goal)
            /\ url' = goal
            /\ method' = Login!RedirectedMethod(status, method)
    BY <1>2 DEF Login!Redirect
  <2>2. /\ goal.host = url.host /\ goal.port = url.port
        /\ goal.scheme # url.scheme => goal.scheme = "https" /\ goal.port = "default"
        /\ goal.userinfo \in {url.userinfo, "none"}
        /\ Login!RedirectedMethod(status, method) = method
    BY <2>1, NotRefused DEF Login!Follows
  <2>3. Login!RequestStaysHome'
    BY <1>2, <2>1, <2>2 DEF Login!Redirect, Login!RequestStaysHome, Login!URLs
  <2>4. Login!TypeOK' /\ GrantsPerHop'
    BY <1>2, <2>1 DEF Login!Redirect, Login!Follows
  <2>5. TokenBeforeNext' /\ AnswerInHand' /\ OutcomeComesLast' /\ Login!TokenKept' /\ Login!OneAnswer'
    BY <1>2 DEF Login!Redirect
  <2>6. QED
    BY <2>3, <2>4, <2>5
<1>3. CASE Login!Answer
  BY <1>3 DEF Login!Answer, Login!Leave, Login!Held, Login!RequestStaysHome
<1>4. CASE Login!Fail
  BY <1>4 DEF Login!Fail, Login!Leave, Login!Salvaged, Login!RequestStaysHome
<1>5. CASE Login!Challenge
  BY <1>5 DEF Login!Challenge, Login!RequestStaysHome
<1>6. CASE Login!Authorize
  BY <1>6 DEF Login!Authorize, Login!RequestStaysHome
<1>7. CASE Login!Receive
  <2>1. /\ outcome = "none" /\ grant > 0 /\ grant \in Nat
        /\ grant > 1 => tokens # "none"
        /\ tokens # "none" => result = FirstCode
    BY <1>7 DEF Login!Receive
  <2>2. CASE result.kind = "error"
    BY <1>7, <2>1, <2>2 DEF Login!Receive, Login!Leave, Login!RequestStaysHome
  <2>3. CASE result.kind # "error" /\ result.state # grant
    BY <1>7, <2>1, <2>3 DEF Login!Receive, Login!Leave, Login!Salvaged, Login!RequestStaysHome
  <2>4. CASE result.kind # "error" /\ result.state = grant
    <3>1. result \in Login!Requests /\ result.kind = "code"
      <4>1. result # Login!Pending /\ result # Login!Cancelled
        BY <1>7, <2>1, <2>4 DEF Login!Receive
      <4>2. QED
        BY <2>4, <4>1 DEF Login!Requests, Login!Kinds
    <3>2. result = [kind |-> "code", state |-> grant]
      BY <2>4, <3>1 DEF Login!Requests
    <3>3. result = FirstCode
      BY <2>1, <2>4, <3>2
    <3>4. flow' = "exchanging" /\ UNCHANGED <<outcome, Login!request, grant, tokens, Login!listener, result>>
      BY <1>7, <2>4 DEF Login!Receive
    <3>5. QED
      BY <2>1, <3>3, <3>4 DEF Login!RequestStaysHome
  <2>5. QED
    BY <2>2, <2>3, <2>4
<1>8. CASE Login!TimeOut
  BY <1>8 DEF Login!TimeOut, Login!Leave, Login!RequestStaysHome
<1>9. CASE Login!Exchange
  BY <1>9 DEF Login!Exchange, Login!RequestStaysHome
<1>10. CASE Login!Close
  BY <1>10 DEF Login!Close, Login!RequestStaysHome
<1>11. CASE Login!Return
  BY <1>11 DEF Login!Return, Login!RequestStaysHome
<1>12. CASE Login!Interrupt
  BY <1>12 DEF Login!Interrupt, Login!RequestStaysHome
<1>13. ASSUME NEW v \in Visits, Login!Connect(v) \/ Login!ReadRequest(v) \/ Login!Drop(v) \/ Login!Finish(v)
       PROVE SignInInv'
  <2>1. CASE Login!Connect(v)
    BY <2>1 DEF Login!Connect, Login!RequestStaysHome
  <2>2. CASE Login!ReadRequest(v)
    BY <2>2 DEF Login!ReadRequest, Login!RequestStaysHome, Login!Requests, Login!Kinds
  <2>3. CASE Login!Drop(v)
    BY <2>3 DEF Login!Drop, Login!RequestStaysHome
  <2>4. CASE Login!Finish(v)
    BY <2>4 DEF Login!Finish, Login!IsAuthResponse, Login!RequestStaysHome, Login!Requests
  <2>5. QED
    BY <1>13, <2>1, <2>2, <2>3, <2>4
<1>14. CASE UNCHANGED signInVars
  BY <1>14 DEF signInVars, Login!RequestStaysHome
<1>15. QED
  BY <1>1, <1>2, <1>3, <1>4, <1>5, <1>6, <1>7, <1>8, <1>9, <1>10, <1>11, <1>12, <1>13, <1>14
     DEF Login!Task, Login!Browser

LEMMA SignedKeeps == SignInInv /\ [SignedNext]_runVars => SignInInv'
<1>1. SUFFICES ASSUME SignInInv, [SignedNext]_runVars PROVE SignInInv'
  OBVIOUS
<1>2. CASE SignInStep
  BY <1>1, <1>2, SignInKeeps DEF SignInStep
<1>3. CASE SignInFails
  BY <1>1, <1>3, SignInKeeps DEF SignInFails
<1>4. CASE SignedIn
  <2>1. /\ flow = "over" /\ outcome = "token"
        /\ url' = endpoint /\ hops' = 0 /\ grant' = 1
        /\ at' = [v \in Visits |-> "gone"]
        /\ says' = [v \in Visits |-> Login!Pending]
        /\ UNCHANGED <<flow, endpoint, method, tokens, outcome, listening, result>>
    BY <1>4 DEF SignedIn
  <2>2. Login!TypeOK'
    BY <1>1, <2>1, PolicyAssumption DEF SignInInv, Login!TypeOK, PolicyAssumption
  <2>3. tokens = "token"
    BY <1>1, <2>1 DEF SignInInv, Login!TokenKept
  <2>4. GrantsPerHop' /\ TokenBeforeNext' /\ AnswerInHand' /\ OutcomeComesLast'
    BY <1>1, <2>1, <2>3 DEF SignInInv, GrantsPerHop, TokenBeforeNext, AnswerInHand, OutcomeComesLast,
                            Underway, Login!Sent
  <2>5. Login!TokenKept' /\ Login!OneAnswer'
    BY <1>1, <2>1, <2>3 DEF SignInInv, Login!TokenKept, Login!OneAnswer
  <2>6. Login!RequestStaysHome'
    BY <1>1, <2>1 DEF SignInInv, Login!RequestStaysHome
  <2>7. QED
    BY <2>2, <2>4, <2>5, <2>6 DEF SignInInv
<1>5. CASE AfterSignIn
  BY <1>1, <1>5, SignInKeeps DEF AfterSignIn
<1>6. CASE UNCHANGED runVars
  BY <1>1, <1>6, SignInKeeps DEF runVars
<1>7. QED
  BY <1>1, <1>2, <1>3, <1>4, <1>5, <1>6 DEF SignedNext

LEMMA SignInInvariant == SignedSpec => []SignInInv
<1>1. SignedInit => SignInInv
  BY SignInStarts DEF SignedInit
<1>2. QED
  BY <1>1, SignedKeeps, PTL DEF SignedSpec

(* A token that was obtained is what obtain_token_interactively returns,   *)
(* whatever fails or is asked after it, and it returns no other.           *)
THEOREM TokenIsKept == SignedSpec => []TokenKept
<1>1. SignInInv => TokenKept
  BY DEF SignInInv, TokenKept
<1>2. QED
  BY <1>1, SignInInvariant, PTL

(* However many connections come to the listener, one of them decides.     *)
THEOREM OneDecides == SignedSpec => []OneAnswer
<1>1. SignInInv => OneAnswer
  BY DEF SignInInv, OneAnswer
<1>2. QED
  BY <1>1, SignInInvariant, PTL

(* No chain of redirects, however long, takes the request off the origin   *)
(* of the endpoint and its upgrade, or changes what it is.                 *)
THEOREM StaysHome == SignedSpec => []RequestStaysHome
<1>1. SignInInv => RequestStaysHome
  BY DEF SignInInv, RequestStaysHome
<1>2. QED
  BY <1>1, SignInInvariant, PTL

(* Every variable of the sign-in keeps its type; a sign-in of n redirects  *)
(* begins at most n + 1 authorizations.                                    *)
THEOREM SignInTypeCorrect == SignedSpec => []Login!TypeOK
<1>1. SignInInv => Login!TypeOK
  BY DEF SignInInv
<1>2. QED
  BY <1>1, SignInInvariant, PTL

=============================================================================
