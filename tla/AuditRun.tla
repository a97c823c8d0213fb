------------------------------ MODULE AuditRun ------------------------------
(***************************************************************************)
(* One invocation of the command line: cli.async_main.  The client's       *)
(* connection attempts are module Connect, run here as a component; what   *)
(* the auditor does is one of four audits (full, modern-only, partial,     *)
(* package) or none.  The module is about which of them runs, what the     *)
(* user is told about it, the exit code, and what is left behind.          *)
(*                                                                         *)
(* Abstractions: the documents written are --json and --sarif; a gate is   *)
(* --fail-under, which a partial audit cannot meet, or one of the others   *)
(* (--fail-under-readiness, [gate]); the outcomes of the audits and of the *)
(* smoke checks are free.  A traceback or an interrupt ends the process    *)
(* with a status of the interpreter's, Raised here, and not with a code    *)
(* the command line chose.                                                 *)
(*                                                                         *)
(* A definition whose name ends in _<Fault> is a faulty variant of the one *)
(* that follows it, kept to show that the properties notice the fault.     *)
(***************************************************************************)
EXTENDS Integers, Sequences

CONSTANTS
    Targets,      \* see Connect
    OptionSets    \* the command lines the model starts from

ASSUME TargetAssumption ==
    Targets \subseteq {"url", "script", "missing_script", "command", "invalid"}

VARIABLES
    target, phase, attempt, raised, pending, open, owned, session,
    lastError, httpFailure, stdioParams, recorded          \* see Connect

Client == INSTANCE Connect

VARIABLES
    options,      \* the command line
    cli,          \* where async_main stands
    fixtures,     \* smoke fixtures in existence
    launches,     \* servers launched before an audit was under way
    probed,       \* auditor.last_probes: modern support and an auth gate
    audit,        \* the audit that ran
    partial,      \* partial_reason: the status of the gate and who is blamed
    smoke,        \* outcome of the smoke phase
    documents,    \* documents written
    breached,     \* gates that were not met
    exit          \* exit code

clientVars == <<target, phase, attempt, raised, pending, open, owned, session,
                lastError, httpFailure, stdioParams, recorded>>
outcomeVars == <<probed, audit, partial, smoke>>
vars == <<clientVars, options, cli, fixtures, launches, outcomeVars, documents,
          breached, exit>>

Running == -1
Raised == 130

Options ==
    [package : BOOLEAN, credential : BOOLEAN, smoke : BOOLEAN,
     gates : SUBSET {"fail_under", "other"},
     json : BOOLEAN, sarif : {"none", "stdout", "file"},
     fixtures : SUBSET {"filesystem", "network"}]

ASSUME OptionAssumption == OptionSets \subseteq Options

(* What no server of this kind can be asked: only a --stdio command takes  *)
(* the fixtures' placeholders.                                             *)
Fits(o, t) == o.fixtures # {} => t = "command"

NotProbed == [modern |-> FALSE, gate |-> "none"]
NotPartial == [status |-> "none", blame |-> "none"]

Init ==
    /\ Client!Init
    /\ options \in { o \in OptionSets : Fits(o, target) }
    /\ cli = "parsing"
    /\ fixtures = {} /\ launches = 0
    /\ probed = NotProbed /\ audit = "none" /\ partial = NotPartial
    /\ smoke = "none"
    /\ documents = {} /\ breached = {} /\ exit = Running

----------------------------------------------------------------------------
(* Every way out of the try block goes through cleanup_server.             *)
CleanupStart_Fixtures == "removing_filesystem"

CleanupStart == "stopping_server"

Leave(code) ==
    /\ exit' = code
    /\ cli' = IF options.package THEN "exited" ELSE CleanupStart

(* Combinations resolve_target and validate_output_flags reject.           *)
BadUsage ==
    \/ options.package /\ options.smoke
    \/ options.json /\ options.sarif = "stdout"

(* Any usage error, a bad configuration and a failed sign-in come first;   *)
(* the user may give up meanwhile.  options.credential is what the headers *)
(* hold after it.                                                          *)
RejectUsage ==
    /\ cli = "parsing"
    /\ exit' \in {1, Raised}
    /\ cli' = "exited"
    /\ UNCHANGED <<clientVars, options, fixtures, launches, outcomeVars,
                   documents, breached>>

AcceptUsage ==
    /\ cli = "parsing"
    /\ ~BadUsage
    /\ cli' = IF options.package THEN "reading_registry" ELSE "preparing"
    /\ UNCHANGED <<clientVars, options, fixtures, launches, outcomeVars,
                   documents, breached, exit>>

(* run_package_audit: the registry answers, or the run ends with code 2.   *)
AuditPackage ==
    /\ cli = "reading_registry"
    /\ \/ Leave(2) /\ UNCHANGED audit
       \/ audit' = "package" /\ cli' = "reporting" /\ UNCHANGED exit
    /\ UNCHANGED <<clientVars, options, fixtures, launches, probed, partial,
                   smoke, documents, breached>>

(* prepare_filesystem_fixture, then prepare_network_fixture.  A fixture    *)
(* exists once its constructor returned; what a constructor that failed    *)
(* half-way has created is outside the model.                              *)
NextFixture ==
    IF "filesystem" \in options.fixtures \ fixtures THEN "filesystem" ELSE "network"

PrepareFixture ==
    /\ cli = "preparing"
    /\ options.fixtures # fixtures
    /\ \/ /\ fixtures' = fixtures \cup {NextFixture}
          /\ UNCHANGED <<cli, exit>>
       \/ Leave(Raised) /\ UNCHANGED fixtures
    /\ UNCHANGED <<clientVars, options, launches, outcomeVars, documents, breached>>

Prepared ==
    /\ cli = "preparing"
    /\ options.fixtures = fixtures
    /\ cli' = "connecting"
    /\ UNCHANGED <<clientVars, options, fixtures, launches, outcomeVars,
                   documents, breached, exit>>

----------------------------------------------------------------------------
(* client.detect_and_connect(target)                                       *)
Connecting ==
    /\ cli = "connecting"
    /\ phase \notin {"connected", "failed", "cancelled"}
    /\ Client!Detect
    /\ launches' = IF attempt' = "stdio" /\ attempt # "stdio" THEN launches + 1 ELSE launches
    /\ UNCHANGED <<options, cli, fixtures, outcomeVars, documents, breached, exit>>

Connected ==
    /\ cli = "connecting"
    /\ \/ phase = "connected" /\ cli' = "auditing" /\ UNCHANGED exit
       \/ phase = "failed" /\ cli' = "fallback" /\ UNCHANGED exit
       \/ phase = "cancelled" /\ Leave(Raised)
    /\ UNCHANGED <<clientVars, options, fixtures, launches, outcomeVars,
                   documents, breached>>

(* Only a failure nobody could explain may mean a modern-only server that  *)
(* rejected initialize; launching anything else again has side effects.    *)
StdioFallbackAllowed_Always == TRUE

StdioFallbackAllowed ==
    lastError = Client!NoFailure \/ lastError.reason = "UNKNOWN"

HasModernTarget == target = "url" \/ (stdioParams /\ StdioFallbackAllowed)

(* auditor.audit_modern_only: the probes decide whether the audit runs.    *)
AuditModernOnly ==
    /\ cli = "fallback"
    /\ HasModernTarget
    /\ launches' = IF target = "url" THEN launches ELSE launches + 1
    /\ \E modern \in BOOLEAN, gate \in {"none", "401", "403"} :
           /\ target # "url" => gate = "none"
           /\ probed' = [modern |-> modern, gate |-> gate]
           /\ audit' = IF modern THEN "modern" ELSE "none"
           /\ smoke' = IF modern /\ options.smoke THEN "not_executed" ELSE "none"
           /\ cli' = IF modern THEN "reporting" ELSE "declined"
    /\ UNCHANGED <<clientVars, options, fixtures, partial, documents, breached, exit>>

NoModernTarget ==
    /\ cli = "fallback"
    /\ ~HasModernTarget
    /\ cli' = "declined"
    /\ UNCHANGED <<clientVars, options, fixtures, launches, outcomeVars,
                   documents, breached, exit>>

----------------------------------------------------------------------------
SessionGated == lastError.reason \in Client!Gate
Redirected == lastError.reason = "REDIRECTED"
GateObserved == SessionGated \/ probed.gate # "none"

(* The status of the gate, not of whatever ended the session.              *)
GateStatus_OfSession ==
    IF lastError.statusOf.status # "none" THEN lastError.statusOf.status ELSE probed.gate

GateStatus ==
    IF SessionGated THEN lastError.statusOf.status ELSE probed.gate

(* Credentials are rejected only when the session that carried them was    *)
(* refused: the probe that sees the gate runs without them.                *)
Blame_GateSeen == IF options.credential THEN "rejected" ELSE "missing"

Blame ==
    CASE SessionGated /\ options.credential -> "rejected"
      [] ~SessionGated /\ options.credential -> "not_exercised"
      [] OTHER -> "missing"

AuditPartial ==
    /\ cli = "declined"
    /\ ~Redirected
    /\ target = "url"
    /\ GateObserved
    /\ audit' = "partial"
    /\ partial' = [status |-> GateStatus, blame |-> Blame]
    /\ smoke' = IF options.smoke THEN "not_executed" ELSE "none"
    /\ cli' = "reporting"
    /\ UNCHANGED <<clientVars, options, fixtures, launches, probed, documents,
                   breached, exit>>

CannotConnect ==
    /\ cli = "declined"
    /\ Redirected \/ target # "url" \/ ~GateObserved
    /\ Leave(2)
    /\ UNCHANGED <<clientVars, options, fixtures, launches, outcomeVars,
                   documents, breached>>

(* auditor.audit(client)                                                   *)
AuditSession ==
    /\ cli = "auditing"
    /\ audit' = "full"
    /\ cli' = IF options.smoke THEN "smoking" ELSE "reporting"
    /\ UNCHANGED <<clientVars, options, fixtures, launches, probed, partial,
                   smoke, documents, breached, exit>>

(* run_smoke_phase; not executed on a catalog the session did not serve.   *)
RunSmokePhase ==
    /\ cli = "smoking"
    /\ smoke' \in {"passed", "failed", "not_executed"}
    /\ cli' = "reporting"
    /\ UNCHANGED <<clientVars, options, fixtures, launches, probed, audit,
                   partial, documents, breached, exit>>

(* An exception, or an interrupt, where the run awaits something.          *)
Abort ==
    /\ cli \in {"reading_registry", "fallback", "declined", "auditing", "smoking"}
    /\ Leave(Raised)
    /\ UNCHANGED <<clientVars, options, fixtures, launches, outcomeVars,
                   documents, breached>>

----------------------------------------------------------------------------
(* finish_server_audit and the tail of run_package_audit: both documents   *)
(* before the gates, so that a failing build still has its findings.       *)
EmitJson ==
    /\ cli = "reporting"
    /\ documents' = IF options.json THEN documents \cup {"json"} ELSE documents
    /\ cli' = "writing_sarif"
    /\ UNCHANGED <<clientVars, options, fixtures, launches, outcomeVars, breached, exit>>

EmitSarif_Unreported ==
    /\ cli = "writing_sarif"
    /\ cli' = "gating"
    /\ UNCHANGED <<exit, documents>>
    /\ UNCHANGED <<clientVars, options, fixtures, launches, outcomeVars, breached>>

(* write_sarif, which ends the run when the file cannot be written.        *)
EmitSarif ==
    /\ cli = "writing_sarif"
    /\ \/ /\ documents' = IF options.sarif = "none" THEN documents
                          ELSE documents \cup {"sarif"}
          /\ cli' = "gating"
          /\ UNCHANGED exit
       \/ /\ options.sarif = "file"
          /\ Leave(1)
          /\ UNCHANGED documents
    /\ UNCHANGED <<clientVars, options, fixtures, launches, outcomeVars, breached>>

(* A partial audit cannot demonstrate the --fail-under threshold.          *)
Unmeetable_Never == {}

Unmeetable == IF audit = "partial" THEN {"fail_under"} \cap options.gates ELSE {}

(* fail_under_exit_code, with the smoke verdict after the gates.           *)
ApplyGates ==
    /\ cli = "gating"
    /\ \E missed \in SUBSET options.gates :
           /\ Unmeetable \subseteq missed
           /\ breached' = missed
           /\ Leave(IF missed # {} THEN 3 ELSE IF smoke = "failed" THEN 4 ELSE 0)
    /\ UNCHANGED <<clientVars, options, fixtures, launches, outcomeVars, documents>>

----------------------------------------------------------------------------
(* cleanup_server: the server, then what it was using, each in spite of an *)
(* exception from the one before.                                          *)
AfterServer_OnlyIfStopped(failed) == IF failed THEN "exited" ELSE "removing_filesystem"

AfterServer(failed) == "removing_filesystem"

StopServer ==
    /\ cli = "stopping_server"
    /\ IF phase = "start" THEN UNCHANGED clientVars ELSE Client!Cleanup
    /\ \E failed \in BOOLEAN :
           /\ exit' = IF failed THEN Raised ELSE exit
           /\ cli' = AfterServer(failed)
    /\ UNCHANGED <<options, fixtures, launches, outcomeVars, documents, breached>>

RemoveFixture(step, fixture, next) ==
    /\ cli = step
    /\ fixtures' = fixtures \ {fixture}
    /\ cli' = next
    /\ UNCHANGED <<clientVars, options, launches, outcomeVars, documents,
                   breached, exit>>

RemoveFixtures ==
    \/ RemoveFixture("removing_filesystem", "filesystem", "stopping_network")
    \/ RemoveFixture("stopping_network", "network", "exited")

Done == cli = "exited" /\ UNCHANGED vars

Next ==
    \/ RejectUsage \/ AcceptUsage \/ AuditPackage
    \/ PrepareFixture \/ Prepared
    \/ Connecting \/ Connected
    \/ AuditModernOnly \/ NoModernTarget \/ AuditPartial \/ CannotConnect
    \/ AuditSession \/ RunSmokePhase \/ Abort
    \/ EmitJson \/ EmitSarif \/ ApplyGates
    \/ StopServer \/ RemoveFixtures
    \/ Done

Spec == Init /\ [][Next]_vars

----------------------------------------------------------------------------
Requested ==
    (IF options.json THEN {"json"} ELSE {}) \cup
    (IF options.sarif = "none" THEN {} ELSE {"sarif"})

(* What a script reads off the exit code is so (docs/cli.mdx, Exit codes): *)
(* 0 means an audit that could meet every gate that was set, met them, had *)
(* no failing smoke check and wrote every document asked for; 3 and 4 mean *)
(* an audit whose documents are all there, the gates taking precedence; 2  *)
(* means no audit, and nothing on stdout that could be taken for one.      *)
ExitCodeTells ==
    cli = "exited" =>
        /\ exit \in {0, 3, 4} => audit # "none" /\ documents = Requested
        /\ exit = 0 =>
               /\ breached = {} /\ smoke # "failed"
               /\ audit = "partial" => "fail_under" \notin options.gates
        /\ exit = 3 => breached # {}
        /\ exit = 4 => breached = {} /\ smoke = "failed"
        /\ exit = 2 => audit = "none" /\ documents = {}

(* A partial audit runs only for a server that was seen, in this run, to   *)
(* ask for authentication, and reports the status it asked with.  The      *)
(* credentials are called rejected only if an attempt that carried them    *)
(* was answered with that status: not for a gate that only the anonymous   *)
(* probe saw, and never because the endpoint moved.                        *)
BlameIsEarned ==
    audit = "partial" =>
        LET refusedWith(s) ==
                \E i \in 1 .. Len(recorded) : recorded[i].statusOf.status = s
        IN  /\ partial.status \in {"401", "403"}
            /\ refusedWith(partial.status) \/ probed.gate = partial.status
            /\ partial.blame = "rejected" =>
                   options.credential /\ refusedWith(partial.status)
            /\ partial.blame = "not_exercised" =>
                   ~ refusedWith("401") /\ ~ refusedWith("403")

(* No failed attempt leaves a transport open, even while the next is made; *)
(* and however the run ends, at whatever point and with whatever           *)
(* exception, no transport, listener or fixture directory survives it.     *)
NothingLeftBehind ==
    /\ Client!NoAttemptLeaks
    /\ cli = "exited" => open = {} /\ fixtures = {}

(* A fixture is taken away only from a server that has been stopped.       *)
FixturesOutliveServer == [][fixtures \ fixtures' # {} => open = {}]_vars

(* A server command is run, the first time or a second, only while no      *)
(* earlier run of it is still going on and with every fixture its command  *)
(* line names in place.  It is run a second time, to look for the modern   *)
(* lifecycle, only if the first was started and failed in its handshake    *)
(* with nothing to explain it, or if it could not be spawned for an errno  *)
(* the client has no diagnosis for (nothing ran then).  One that is        *)
(* missing, denied or not a program, that timed out, that went away under  *)
(* the handshake or whose stderr explains it, and one the user             *)
(* interrupted, is not run again, whatever running it does.                *)
RelaunchOnlyIfUnexplained ==
    [][launches' > launches =>
           /\ open = {}
           /\ fixtures = options.fixtures
           /\ launches > 0 => raised.kind \in {"exception", "spawn_error"}]_vars

(* The failure the run is diagnosed by is one response's, of the attempt   *)
(* it speaks of, whichever command line made the client connect.           *)
DiagnosisFromOneResponse == Client!DiagnosisFromOneResponse

(* What the client reports of the connection is its outcome, while the run *)
(* decides by it which audit follows and what is said about it.            *)
OutcomeReported == Client!OutcomeReported

(* The exit-code tables of docs/stability.mdx and docs/cli.mdx: exit code  *)
(* 1 says that the audit was never attempted.                              *)
ExitOneMeansNoAudit == exit = 1 => audit = "none"

============================================================================
