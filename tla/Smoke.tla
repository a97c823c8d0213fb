-------------------------------- MODULE Smoke --------------------------------
(***************************************************************************)
(* The smoke checks of smoke.py, as run_smoke_phase starts them on the     *)
(* session the audit leaves open: every tool of the audited catalog is     *)
(* called for its output schema, then every one with invalid arguments,    *)
(* then a name that no tool has.  Any call may be the one that closes the  *)
(* connection all of them share.                                           *)
(*                                                                         *)
(* Abstractions.  A tool is what the checks read of it.  A result keeps    *)
(* its verdict and whether its call was answered.  The arguments that are  *)
(* synthesized, the messages and the results' contents are left out.       *)
(*                                                                         *)
(* A definition whose name ends in _<Fault> is a faulty variant of the one *)
(* that follows it, kept to show that the properties notice the fault.     *)
(***************************************************************************)
EXTENDS Naturals, Sequences, SequencesExt

CONSTANTS
    Scenarios,      \* what a run is given; see ScenarioSet
    UnknownNames    \* UNKNOWN_TOOL_NAME and its suffixed forms, in order

NotNamed == "-"

ToolSet == [name : STRING, readOnly : BOOLEAN, schema : BOOLEAN,
            invalid : {"violable", "none", "raises"}]

(* catalog: the audited tools; listing: how they were collected; offered:  *)
(* the tools the session itself offers; fs: the tools [smoke.filesystem]   *)
(* names; rooted: the command was given the fixture's root; network: the   *)
(* tool [smoke.network] names, in a configuration that can run.            *)
ScenarioSet(s) ==
    /\ DOMAIN s = {"catalog", "listing", "offered", "callAll", "fs", "rooted", "network"}
    /\ s.catalog \in Seq(ToolSet) /\ s.offered \subseteq ToolSet
    /\ s.listing \in {"none", "partial", "whole", "stateless"}
    /\ s.callAll \in BOOLEAN /\ s.rooted \in BOOLEAN
    /\ s.network \in STRING
    /\ s.fs \in [read : STRING, write : STRING]

(* A listing that is not marked is whole, and one the session served       *)
(* describes the tools it offers (module Listing).  A name identifies a    *)
(* tool, as the protocol has it; the code can call a tool by nothing else. *)
(* As it adds numbers until a name is free, one of the unknown names is.   *)
(* NotNamed stands for None, which is no name.                             *)
ASSUME ScenarioAssumption ==
    \A s \in Scenarios :
        /\ ScenarioSet(s)
        /\ \A tool, other \in s.offered : tool.name = other.name => tool = other
        /\ \A tool \in ToSet(s.catalog) : tool.name # NotNamed
        /\ \E i \in 1 .. Len(UnknownNames) :
               \A tool \in ToSet(s.catalog) : tool.name # UnknownNames[i]
        /\ s.listing = "none" => s.catalog = <<>>
        /\ s.listing = "partial" => ToSet(s.catalog) \subseteq s.offered
        /\ s.listing = "whole" => ToSet(s.catalog) = s.offered

VARIABLES
    scenario,    \* what the run was given
    step,        \* where the run stands
    at,          \* tools of the catalog still to check in this step
    connection,  \* the session's connection
    checks,      \* the results reported, in order
    called,      \* history: names that were called
    answered,    \* history: tools whose call was answered
    closedAt     \* history: number of the check whose call closed the connection

sessionVars == <<connection, called, answered, closedAt>>
smokeVars == <<scenario, step, at, sessionVars, checks>>

Init ==
    /\ scenario \in Scenarios
    /\ step = "start" /\ at = <<>>
    /\ connection = "open"
    /\ checks = <<>> /\ called = {} /\ answered = {} /\ closedAt = 0

----------------------------------------------------------------------------
(* The ways a call_tool ends.  nonconforming is the SDK's RuntimeError for *)
(* a result its output schema excludes, exception any other exception.     *)
Answers == {"conforms", "is_error", "input_required", "nonconforming", "rejected", "internal"}
Silences == {"timeout", "closed", "exception"}
Outcomes == IF connection = "open" THEN Answers \cup Silences ELSE {"closed", "exception"}

(* A call of a name for the check that is reported next.                   *)
Request(name, outcome) ==
    /\ called' = called \cup {name}
    /\ answered' = IF outcome \in Answers THEN answered \cup {name} ELSE answered
    /\ connection' = IF outcome = "closed" THEN "closed" ELSE connection
    /\ closedAt' = IF outcome = "closed" /\ connection = "open" THEN Len(checks) + 1 ELSE closedAt

NoRequest == UNCHANGED sessionVars

Check(id, tool, verdict, wasCalled) ==
    [check |-> id, tool |-> tool, verdict |-> verdict, called |-> wasCalled,
     control |-> FALSE, crash |-> FALSE]

(* _tool_skip_reason: the safety default.                                  *)
Callable(tool) == scenario.callAll \/ tool.readOnly

(* Whether the audited tools are those of the session.                     *)
ServedBySession_Always == TRUE

ServedBySession == scenario.listing # "stateless"

NotExecuted ==
    /\ step = "start" /\ ~ServedBySession
    /\ step' = "not_executed"
    /\ UNCHANGED <<scenario, at, sessionVars, checks>>

Begin ==
    /\ step = "start" /\ ServedBySession
    /\ step' = "structured" /\ at' = scenario.catalog
    /\ UNCHANGED <<scenario, sessionVars, checks>>

(* The loops over the catalog: report on the tool at hand and go on.       *)
Report(check) ==
    /\ checks' = Append(checks, check)
    /\ at' = Tail(at)
    /\ UNCHANGED <<scenario, step>>

StructuredVerdict(outcome) ==
    CASE outcome = "conforms" -> "PASS"
      [] outcome = "nonconforming" -> "FAIL"
      [] OTHER -> "SKIP"

StructuredContent ==
    /\ step = "structured" /\ at # <<>>
    /\ LET tool == Head(at)
       IN  IF Callable(tool) /\ tool.schema
           THEN \E outcome \in Outcomes :
                    /\ Request(tool.name, outcome)
                    /\ Report(Check("structured_content", tool.name, StructuredVerdict(outcome),
                                    outcome \in Answers))
           ELSE NoRequest /\ Report(Check("structured_content", tool.name, "SKIP", FALSE))

InvalidVerdict(outcome) == IF outcome \in {"is_error", "rejected"} THEN "PASS" ELSE "FAIL"

InvalidArguments ==
    /\ step = "invalid" /\ at # <<>>
    /\ LET tool == Head(at)
       IN  IF Callable(tool) /\ tool.invalid = "violable"
           THEN \E outcome \in Outcomes :
                    /\ Request(tool.name, outcome)
                    /\ Report([Check("invalid_arguments", tool.name, InvalidVerdict(outcome),
                                     outcome \in Answers)
                               EXCEPT !.crash = outcome \in {"closed", "exception"}])
           ELSE NoRequest /\ Report(Check("invalid_arguments", tool.name, "SKIP", FALSE))

NextLoop ==
    /\ at = <<>>
    /\ \/ step = "structured" /\ step' = "invalid" /\ at' = scenario.catalog
       \/ step = "invalid" /\ step' = "unknown" /\ UNCHANGED at
    /\ UNCHANGED <<scenario, sessionVars, checks>>

(* derive_unknown_tool_name: the first form of the name the catalog lacks. *)
UnknownName_Base == UnknownNames[1]

UnknownName ==
    LET names == { tool.name : tool \in ToSet(scenario.catalog) }
    IN  UnknownNames[SelectInSeq(UnknownNames, LAMBDA name : name \notin names)]

CatalogComplete_Assumed == TRUE

CatalogComplete == scenario.listing = "whole"

UnknownTool ==
    /\ step = "unknown"
    /\ step' = "filesystem"
    /\ UNCHANGED <<scenario, at>>
    /\ IF CatalogComplete
       THEN \E outcome \in Outcomes :
                /\ Request(UnknownName, outcome)
                /\ checks' = Append(checks,
                       [Check("unknown_tool", NotNamed,
                              IF outcome = "rejected" THEN "PASS" ELSE "FAIL", FALSE)
                        EXCEPT !.crash = outcome \in {"closed", "exception"}])
       ELSE /\ NoRequest
            /\ checks' = Append(checks, Check("unknown_tool", NotNamed, "SKIP", FALSE))

SmokeStep ==
    \/ NotExecuted \/ Begin \/ StructuredContent \/ InvalidArguments \/ NextLoop \/ UnknownTool

----------------------------------------------------------------------------
(* The count of SmokeReport.tools_called.                                  *)
ToolsCalled_VectorsOnly ==
    { c.tool : c \in { x \in ToSet(checks) : x.tool # NotNamed /\ x.called } }

ToolsCalled ==
    { c.tool : c \in { x \in ToSet(checks) : x.tool # NotNamed /\ (x.called \/ x.control) } }

(* No tool runs that its server's session does not annotate as read-only,  *)
(* unless the user consented with --call-all or named it for one of the    *)
(* boundary checks: not by its own check, not by the nonexistent name     *)
(* that exists after all beyond what was listed, and not by the            *)
(* annotation of another lifecycle.                                        *)
NoUnconsentedCall ==
    \A tool \in scenario.offered :
        tool.name \in called =>
            \/ tool.readOnly \/ scenario.callAll
            \/ tool.name \in {scenario.fs.read, scenario.fs.write, scenario.network}

(* docstring of run_smoke_checks: one call at a time "keeps the server's   *)
(* observed behavior attributable to one request".  A tool is reported as  *)
(* crashing the server only if no call before its own had done so.         *)
CrashIsItsOwn ==
    \A i \in DOMAIN checks : checks[i].crash => closedAt \notin 1 .. i - 1

===============================================================================
