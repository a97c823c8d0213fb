------------------------------ MODULE SmokePhase ------------------------------
(***************************************************************************)
(* run_smoke_phase of cli.py: the checks of module Smoke, then the         *)
(* filesystem check, then the network check (component NetworkBoundary),   *)
(* all on the one session the audit leaves open.  The three share the      *)
(* connection, which any call may close, and the report, which counts the  *)
(* tools that were called over all of them.                                *)
(*                                                                         *)
(* Abstractions.  A scenario that names a tool for the network check is    *)
(* one in which the check can run; what the server connects to before it   *)
(* counts as connected to at its start.                                    *)
(***************************************************************************)
EXTENDS FilesystemBoundary

CONSTANTS
    Denied,           \* the denied listeners, in order
    NetworkVectors,   \* for each vector, whether it can run on this machine
    MaxConnections    \* bound: connections the server makes

ASSUME ConstantsAssumption ==
    /\ Denied \in Seq(STRING) /\ IsInjective(Denied) /\ Denied # <<>>
    /\ "allowed" \notin ToSet(Denied)
    /\ NetworkVectors \in Seq(BOOLEAN) \ {<<>>}
    /\ MaxConnections \in Nat

VARIABLES
    backlog, log, named, made, policy, netStep, netAt, left, netBefore, cursor,
    taken, reached, netOutcome, timedOut, results     \* see NetworkBoundary

Network == INSTANCE NetworkBoundary WITH
    Vectors <- NetworkVectors, step <- netStep, at <- netAt, before <- netBefore,
    outcome <- netOutcome

networkVars == <<backlog, log, named, made, policy, netStep, netAt, left, netBefore,
                 cursor, taken, reached, netOutcome, timedOut, results>>
phaseVars == <<vars, networkVars>>

----------------------------------------------------------------------------
Configured == scenario.network # NotNamed

\* What a check that is not configured would read is any one value.
PhaseInit ==
    /\ FsInit
    /\ Network!Init
    /\ ~Configured => policy = "allowlist"
    /\ scenario.fs = [read |-> NotNamed, write |-> NotNamed] => outside = NoFiles

\* The network check comes last, after a filesystem check that did not raise.
AtNetwork == step = "done" /\ Configured

Lists == \E tool \in ToSet(scenario.catalog) : tool.name = scenario.network

\* A call of the network check is one on the session: it is answered only while the
\* connection is open, and one that is not may have closed it.
CallOnSession ==
    /\ called' = called \cup {scenario.network}
    /\ answered' = IF Network!Answered(netOutcome') THEN answered \cup {scenario.network} ELSE answered
    /\ connection = "closed" => netOutcome' = "unanswered"
    /\ connection' \in {connection} \cup (IF netOutcome' = "unanswered" THEN {"closed"} ELSE {})

NetworkTask ==
    /\ AtNetwork
    /\ Network!Task
    /\ netStep = "look" => (netStep' = "mark" <=> Lists)
    /\ IF netStep = "call" THEN CallOnSession ELSE UNCHANGED <<connection, called, answered>>
    /\ UNCHANGED <<scenario, step, at, checks, closedAt, fsVars, treeVars>>

NetworkSurroundings == AtNetwork /\ Network!Surroundings /\ UNCHANGED vars

PhaseOver ==
    \/ step \in {"not_executed", "raised"}
    \/ step = "done" /\ (Configured => netStep = "done")

Next ==
    \/ SmokeStep /\ UNCHANGED <<fsVars, treeVars, networkVars>>
    \/ FsStep /\ UNCHANGED networkVars
    \/ Surroundings /\ UNCHANGED networkVars
    \/ NetworkTask
    \/ NetworkSurroundings
    \/ PhaseOver /\ UNCHANGED phaseVars

Spec == PhaseInit /\ [][Next]_phaseVars

\* The phase goes on: every wait of it ends by a timeout of its own.  The server and
\* the listeners' threads need not do anything.
FairSpec == Spec /\ WF_phaseVars(NetworkTask)

----------------------------------------------------------------------------
NetworkTool ==
    IF \E r \in ToSet(results) : r.control \/ Network!Answered(r.outcome)
    THEN {scenario.network} ELSE {}

\* The coverage the report states (docstring of tools_called): a tool counts as called
\* exactly if one of its calls was answered, with a result of any kind or an error, in
\* whichever of the three checks, be it only a positive control or the last vector,
\* and whatever closed the connection afterwards.
CoverageIsTrue ==
    step = "operation" \/ (PhaseOver /\ step # "raised") =>
        ToolsCalled \cup NetworkTool = answered \cap { tool.name : tool \in ToSet(scenario.catalog) }

\* A write vector and a vector of the network check pass only if what they are about
\* was exercised and left nothing outside that the evidence of the check would show
\* (see FilesystemBoundary and NetworkBoundary).
PassIsEarned == WriteVerdictIsEarned /\ Network!PassIsEarned

\* However the connections fall among the calls, the windows read of a listener's log
\* are the log, without a gap or an overlap (reached_since, read_from).
OneWindowEach == Network!OneWindowEach

\* Once the phase is over, each denied connection that its calls caused is in a failed
\* result, unless a listener did not settle (_late_requests, settle).
NoContactMissed == Network!NoContactMissed

\* A fetch in the server's background, a listener that never accepts, or a session that
\* a call closed does not keep the phase from ending (settle, call_tool_raw).
ChecksEnd == AtNetwork ~> PhaseOver

\* smoke.py and smoke_probe.py, at every except clause: "a smoke check never aborts
\* the run".
NeverAborts == step # "raised"
===============================================================================
