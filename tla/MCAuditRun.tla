----------------------------- MODULE MCAuditRun -----------------------------
(***************************************************************************)
(* AuditRun with its sign-in for TLC: command lines that differ where the  *)
(* run does.  The fixtures are both or none, and the gates are none or one *)
(* of each kind.  One command line signs in: to an endpoint that has an    *)
(* upgrade or one with a port and userinfo, with two visits, one to answer *)
(* and one before, beside or after it, and two redirects, for a challenge  *)
(* before, between and after them.                                         *)
(***************************************************************************)
EXTENDS SignedRun

CommandLines ==
    { o \in Options :
        /\ o.fixtures \in {{}, {"filesystem", "network"}}
        /\ o.gates \in {{}, {"fail_under"}, {"other"}}
        /\ o.sarif # "stdout" => o.json
        /\ o.package => ~o.credential /\ o.fixtures = {}
        /\ o.sarif = "stdout" => o.gates = {} /\ ~o.credential /\ o.fixtures = {} }

WithOAuth(o) ==
    o = [package |-> FALSE, credential |-> TRUE, smoke |-> FALSE, gates |-> {},
         json |-> TRUE, sarif |-> "none", fixtures |-> {}]

NamedEndpoints ==
    { [scheme |-> "http", host |-> "own", port |-> "default", userinfo |-> "none"],
      [scheme |-> "https", host |-> "own", port |-> "fixed", userinfo |-> "own"] }

=============================================================================
