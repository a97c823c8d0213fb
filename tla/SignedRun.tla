----------------------------- MODULE SignedRun -----------------------------
(***************************************************************************)
(* async_main with --oauth: the sign-in of module SignIn comes before the  *)
(* client exists, and the audit of module AuditRun runs with the token it  *)
(* returned as the credential of its headers, or not at all (_apply_oauth).*)
(***************************************************************************)
EXTENDS AuditRun, Redirects

CONSTANTS
    Visits,        \* see SignIn
    SignsIn(_)     \* the command lines with --oauth

VARIABLES
    flow, endpoint, url, method, hops, grant, tokens, outcome,
    listening, at, says, result                                \* see SignIn

Login == INSTANCE SignIn

signInVars == <<flow, endpoint, url, method, hops, grant, tokens, outcome,
                listening, at, says, result>>
runVars == <<vars, signInVars>>

(* --oauth goes with a URL, and with no other credential.                  *)
OAuth == target = "url" /\ SignsIn(options)

(* Of a command line without --oauth the sign-in never begins.             *)
SignedInit ==
    /\ Init
    /\ Login!Init
    /\ OAuth \/ endpoint = CHOOSE e \in Endpoints : TRUE

SignInStep ==
    /\ cli = "parsing" /\ OAuth /\ ~BadUsage
    /\ Login!Task \/ Login!Interrupt \/ Login!Browser
    /\ UNCHANGED vars

(* OAuthFlowError ends the run with 1, and an interrupt as one does.       *)
SignInFails ==
    /\ cli = "parsing" /\ OAuth
    /\ flow = "over" /\ outcome # "token"
    /\ RejectUsage
    /\ exit' = IF outcome = "interrupted" THEN Raised ELSE 1
    /\ UNCHANGED signInVars

(* What a sign-in leaves is its token: the rest of it was local.           *)
SignedIn ==
    /\ cli = "parsing" /\ OAuth
    /\ flow = "over" /\ outcome = "token"
    /\ AcceptUsage
    /\ url' = endpoint /\ hops' = 0 /\ grant' = 1
    /\ at' = [v \in Visits |-> "gone"]
    /\ says' = [v \in Visits |-> Login!Pending]
    /\ UNCHANGED <<flow, endpoint, method, tokens, outcome, listening, result>>

(* A command line without --oauth, one that is refused before its sign-in, *)
(* and the run after it.                                                   *)
AfterSignIn ==
    /\ cli = "parsing" => ~OAuth \/ BadUsage
    /\ Next
    /\ UNCHANGED signInVars

SignedNext == SignInStep \/ SignInFails \/ SignedIn \/ AfterSignIn

SignedSpec == SignedInit /\ [][SignedNext]_runVars

----------------------------------------------------------------------------
(* The properties of the sign-in, in the run that asks for it: a token     *)
(* obtained is the one returned, whatever fails after it.                  *)
TokenKept == Login!TokenKept

(* One answer of the browser decides the sign-in, whoever else connects to *)
(* the listener.                                                           *)
OneAnswer == Login!OneAnswer

(* The request of the sign-in stays with the endpoint the user named,      *)
(* however it is redirected.                                               *)
RequestStaysHome == Login!RequestStaysHome

============================================================================
