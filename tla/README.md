# mcpscore in TLA+

mcpscore connects to an MCP server, asks it for its catalogs and its behaviour,
judges the answers with some two hundred rules and prints a score. Most of the
rules are pure functions of text and schemas, and the test suite covers them one
by one. What it covers badly is everything the verdicts rest on: which data a rule
is given, whether that data is whole, which connection it came from, what happens
when the server is slow, silent or ends half-way, and what the user is told then.
These modules are about that part.

The source is `src/mcpscore/` (in the repository: `mcpscore/`). Line numbers for
every definition are in `PROJECT.json`, under `map`.

## Contents

1. [The system](#the-system)
2. [The modules](#the-modules)
3. [What the runs check](#what-the-runs-check)
4. [What is proved](#what-is-proved)
5. [Disagreements found](#disagreements-found)
6. [What is not modelled](#what-is-not-modelled)
7. [The plan](#the-plan)
8. [Running it](#running-it)

## The system

| component | state it keeps | operations | hard behaviours |
|---|---|---|---|
| **MCP client, listings** (`mcp_client.py`) | the session, `incomplete_listings`, `listing_errors` | `list_tools`, `list_resources`, `list_resource_templates`, `list_prompts`, each over `_list_all_pages` | a page bound, a time budget over all pages, cursors that run in circles, a failure after some pages, markers that outlive a call |
| **MCP client, stdio launch** (`mcp_client.py`) | the relay: held lines, how many were dropped, whether it holds, a lock | `_launch_stdio`, `relayed_stdio_client`, `ServerStderrRelay` | a pump thread beside the event loop, a pipe a grandchild keeps open, cancellation of one's own or leaked by the SDK |
| **MCP client, connection** (`mcp_client.py`) | transport, exit stack, `last_connection_error`, the status recovered from a teardown | `detect_and_connect`, fallback from Streamable HTTP to SSE, `cleanup` | two attempts, each observed in up to three places; teardown that fails |
| **command line** (`cli.py`) | options, fixtures, the partial reason, documents, exit code | `async_main`, the four kinds of audit, gates, `cleanup_server` | every step may fail with the server and fixtures up; a fallback that launches the server again |
| **auditor** (`mcp_auditor.py`, `rules/base.py`) | `AuditData`, results on two axes, skipped rules, points | `audit`, `audit_modern_only`, `audit_partial`, `audit_package` | reuse of one object, evidence of two lifecycles, a catalog replaced by a probe's, promotion |
| **network boundary check** (`smoke_network.py`, `smoke_probe.py`) | listeners with a log each, a cursor into every log | `run_network_checks` | accept and handler threads, a server that connects when it likes, a call that times out and goes on in the background |
| **filesystem boundary check** (`smoke_filesystem.py`) | a fixture directory, snapshots of what is outside the root | `run_filesystem_checks` | writes between two snapshots, tools that write in the background, files that cannot be read |
| **smoke checks** (`smoke.py`) | the report of the checks | `run_smoke_phase`, `run_smoke_checks` | one call that kills the connection for the others; a name that must exist nowhere, from a listing that may be partial |
| **probes** (`probes.py`) and the rules on them (`rules/readiness.py`, `auth.py`, `transport.py`, `security.py`, `pagination.py`, `catalog_stability.py`, `protocol_version.py`) | the results per probe, sessions at the server, the ids of requests in flight over a pipe | `run_all_probes`, `run_stdio_probes`, `run_auth_discovery`, about forty probes, `detect_era` | verdicts from several requests of which any may fail or be refused for another reason; sessions to be ended on every path; one pipe for all the probes, with late answers; a second process |
| **skills evidence and its rules** (`skills.py`, `rules/skills.py`) | evidence, a budget of bytes | `collect_skills`, five rules | three concurrent jobs under one deadline that keeps what has arrived, a budget checked before an await and spent after it, verdicts from partial evidence |
| apps evidence (`apps.py`) | evidence | `collect_apps` | bounded reads, one at a time |
| packages (`packages.py`) | none | coordinate grammar, registry reads | bounded reads, missing documents |
| configuration (`config.py`) | disabled and re-ranked rules, gates | discovery, parsing | precedence of two files |
| **OAuth sign-in** (`oauth.py`) | tokens, a listener on the loopback interface with one future | `obtain_token_interactively` | visits that race the timeout and each other, a challenge on a later hop, a connection that stays silent |
| **redirect policy** (`redirects.py`) | none | `send_within_origin` | chains of hops whose policy is checked one at a time |
| TLS (`tls.py`) | a cached context | `client_ssl_context` | a lock around the trust store |
| rules (`rules/`) | none | one verdict each | data: text, schemas, URLs |
| reports (`sarif.py`, `diagnostics.py`, `report_evidence.py`) | none | formatting | none that a state machine shows |

How they interact: the command line builds one client, one auditor and up to two
fixtures. It starts the fixtures, lets the client connect, and hands the client to the
auditor, which calls the client's listings and the probes (on connections, or in
processes, of their own) and then runs the rules on what it collected. When the session
cannot be established the command line asks the auditor for a modern-only or a partial
audit, from what the probes saw. The smoke phase runs over the client's session after
the audit. Clean-up stops the client before the fixtures. State is shared in five
places, and each is a hazard: the client's markers, which the auditor copies; the
client's `last_connection_error`, from which the command line decides whom to blame; the
listeners' logs, written by threads while the check reads them; the one session of all
the smoke checks, which any call may close; and the one pipe of all the probes over
stdio, on which an answer may come after its probe has given up.

Correctness, per component:

- **listings**: a list without a marker is the whole catalogue; a marker or an
  error belongs to the last call; every call ends.
- **stdio launch**: the server's stderr reaches the log in order, completely or
  with an announced gap; nothing is held back once the launch is over.
- **connection**: a diagnosis describes one response of one attempt; a failed
  attempt leaves no transport; the most informative failure is reported.
- **command line**: exit codes mean what the documentation says; credentials are
  blamed only for a refusal they got; a command whose failure was explained is not
  launched again;
  nothing is left behind and fixtures outlive the server.
- **auditor**: every rule is accounted for once; scores are the sums of the results;
  nothing carries over to the next audit; a verdict speaks of one lifecycle and of
  data that is as whole as the rule needs.
- **smoke checks**: no tool runs without consent; the stated coverage is what was
  answered; a failure is the failure of the tool it names.
- **filesystem boundary**: a pass means that nothing was written outside during the
  call; whatever the server does with its files, the run goes on.
- **skills**: a server is failed for what it answered, and for nothing that was not
  observed; what was answered is judged, however the collection ended.
- **network boundary**: every connection lands in exactly one window, no denied
  one is missed, and a pass is earned.
- **probes**: a verdict rests on evidence, which a network failure, a gate or a busy
  server does not give; the sessions they open are ended; late answers do no harm; a
  server that knows only the handshake is left alone; whatever fails, each probe has
  its result.
- **OAuth sign-in**: one answer of the browser decides; a token that was obtained is
  returned, whatever follows; its request goes to the endpoint named.
- **redirect policy**: no chain of hops takes a request off its origin or changes it.

## The modules

```
Catalogues  <-- ListingContract <--(refinement)-- Listing <-- ListingProofs
                                                     ^-- MCListing
StdioLaunch <-- StdioLaunchProofs
Connect     <-- AuditRun (INSTANCE Connect) <-- SignedRun <-- MCAuditRun, SignedRunProofs
                   ^-- AuditRunProofs <-- SignedRunProofs
Auditor     <-- MCAuditor, AuditorProofs
Smoke       <-- FilesystemBoundary <-- SmokePhase <-- MCSmokePhase, SmokePhaseProofs
NetworkBoundary <-- SmokePhase (INSTANCE NetworkBoundary)
Skills      <-- SkillsRules <-- MCSkills, SkillsProofs
ProbeAnswers <-- RequestProbes <-- ProbeRules      <--+
   ^-- SessionProbes, AuthDiscovery, ProbeServers  <--+-- Probing <-- StdioProbing <-- MCProbes
                                                                          ^-- ProbingProofs
Redirects   <-- SignIn <-- SignedRun (INSTANCE SignIn)
```

A definition named `Name_What`, placed before `Name`, is a faulty variant of it
(`StopHolding_ClearsOnly` of `StopHolding`): a dropped guard, a missing reset, a swapped
order. Nothing of the specification uses these. With one of them in the place of the
definition, TLC finds the property that is meant to notice the fault violated.

**Catalogues, ListingContract, Listing.** A page is the cursor that asks for it, a
catalogue the successor of every page: any graph, so that cursors may run in
circles of any length. `ListingContract` is the promise: a call is asked and then
settled, with no list, a part of the catalogue from its first page on, or all of
it. `Listing` is `_list_all_pages`: its variables are those of the function and of
the client (`items`, `cursor`, `seenCursors`, the deadline as ticks remaining,
`incompleteListings`, `listingErrors`). `BeginListing` is the call up to the
first request; `PageArrives` the whole loop body after an answer, with its three
ways to stop (`StopComplete`, `StopRepeated`, `StopAtBound`) and `RequestNext`;
`FetchFails` and `BudgetExhausted` the exception handlers. `ListWithoutSession` is
the early return of the `list_*` methods. The server may change its catalogue
between two calls but not during one.

**StdioLaunch.** Three actors: the server writes to the pipe; the pump thread takes
a line and, under the lock, logs or holds it; the task spawns, waits for the
handshake, joins the pump with a timeout, diagnoses, flushes (one line at a time,
with the lock held) and reports. `phase` is where the task stands. The flush holds
the lock from `TakeLock` to `EndFlush`, as the `with` block does.

**Connect.** One action per handler of `detect_and_connect` and of what it calls.
An attempt is entered, the handshake succeeds or raises, the teardown of the
transport may itself observe a status or fail, and the exception is classified, for
Streamable HTTP after a recovery request. Responses carry the place they were
observed in, and failures the attempt they diagnose; both are history. A stdio
launch, the subject of StdioLaunch, is one attempt here. Connect has no specification
of its own: it is the client of AuditRun, which starts it and reads its outcome.

**AuditRun.** `cli.async_main`, with Connect as a component: `Detect` steps the
client while `cli = "connecting"`. The auditor's part is which of the four audits
ran and what the probes saw. `Leave` is an exception or an interrupt from any
step that has the clean-up around it; the clean-up is three steps, each of which
may fail, with the order and the suppressions of `cleanup_server`.

**Auditor.** One MCPAuditor used for several audits. Each audit begins with the
reset, collects listing by listing (those whose capability was declared; the others
`OmitListing` passes over) from a client whose markers are what an earlier call left,
probes, recovers the catalog of tools if the session's is missing or
partial, and then runs the rules in order, skipping for one reason or recording a
verdict with its points. A rule is the record of what the auditor reads of it; its
verdict is free. A catalog is where it was served and whether it is whole.

**NetworkBoundary.** The server under test makes connections whenever it likes; a
listener's accept thread takes them and logs them in one step; a handler names the
path later. The task marks, calls, settles each listener (until nothing waits, or
its time is up) and reads each log in turn, one step per lock. Window 0 is the
positive control, window *i* the *i*-th vector, the last one the late check. It is a
component of SmokePhase.

**Smoke.** `run_smoke_phase` up to the filesystem check: `NotExecuted` for a catalog
the session did not serve, then one action per iteration of the two loops
(`StructuredContent`, `InvalidArguments`) and `UnknownTool`. A call ends in one of the
ways the `except` clauses tell apart; a closed connection stays closed, so that
`Outcomes` then holds silences only. A scenario is what a run is given: the audited
catalog, how it was listed, and what the session really offers, which may be more.

**FilesystemBoundary** extends Smoke by the check that follows on the same session:
`Control`, then `NextVector` and a call per vector, between `SnapshotBefore` and
`SnapshotAfter` if it writes. `WriteOutside` and `RemoveOutside` are the server's and
may come between any two steps. A file has one of the `Bytes` the code writes, the
canary's or the marker that every write probe sends, so that a write may leave a file as
it was; what is compared is these bytes, as in `outside_state`. The history `acts` keeps
what the server did, when, and what it found. `SnapshotRaises` is `read_bytes` on a file
that is unreadable or gone.

**SmokePhase** is `run_smoke_phase`: the two before it and then the network check, one
after the other. `NetworkTask` joins a step of `run_network_checks` with what its calls
do to the session (`CallOnSession`): on a connection that an earlier check closed no
call is answered, and one that is not answered may have closed it. The coverage counts
the tools of all of them.

**Skills.** `collect_skills`: `PageArrives`, `PageFails` and `PageMalformed` are the
loop of `_list`; whichever ends it also starts the three jobs (`StartCalls`).
`GetAnswered` and `UnknownGetAnswered` are `_get`, whose semaphore admits the first
calls of the listing that are still open; `RootPageArrives`, `RootPageFails` and
`ProbeAnswered` are `_read_directory` for its three kinds; `StartRead`, `ReadAnswered`
and `ReadFails` are the reads. `Deadline` may come at any time and is the
`except TimeoutError` clause. An answer is right, wrong or not observed; the history
`faulty` names the rules a wrong answer is for. **SkillsRules** has the verdicts of
the five rules about calls, as functions of the evidence.

**Redirects, SignIn.** `Redirects` is the policy: of a URL the scheme, whether the host is
the endpoint's, whether the port is a default one, and whose userinfo it carries.
`SignIn` has two sides. The task (`flow`) binds the listener, sends the request and
follows what `Follows` admits; a `Challenge` makes the SDK's provider, as the code uses
it, `Authorize`, wait, `Receive` and `Exchange`, after which the request is sent again.
`Leave` is every way out of the `try` block: `Held` after an answer, `Salvaged` in the
`except Exception` clause, and the errors of `callback_handler`. `Close` and `Return` are
the two steps of the `finally` block. The other side is `_handle`, per connection
(`Connect`, `ReadRequest`, `Drop`, `Finish`); what they share is `result`, the future.

**SignedRun** composes it with AuditRun, as `async_main` does with `_apply_oauth`. With
`--oauth` the sign-in takes its steps while AuditRun is still parsing (`SignInStep`). It
ends the run with exit code 1, or an interrupt (`SignInFails`), or lets it begin with the
token as its credential (`SignedIn`), which forgets what was local to the sign-in. Every
other step is one of AuditRun (`AfterSignIn`).

**ProbeAnswers, RequestProbes, SessionProbes, AuthDiscovery.** A probe is a function of
the exchanges it has had: it asks for its next request, or is done with an outcome. An
exchange is a request and what came of it: an exception, or a status with an error, a
result (the set of its members that a probe or a rule reads) or a body that was not
read. `RequestProbes` has the probes whose requests stand alone, the walks over pages
and the comparison of two connections; `SessionProbes` those that open a session or
need an accepted request to compare a refused one with; `AuthDiscovery` the three
probes of authorization, one after the other, with the rules on them. A function of
the source that a probe calls has its name here.

**ProbeRules** has the rules on the outcomes: what passes, fails or is skipped, under
which era. **ProbeServers** is the server under test: per request, the answers a
conforming server may give (`Right`), those of one that does not (`Wrong`), of one that
is busy, of a gate, and the failures of the network. A member of a set stands for each
class of answers that the code tells apart.

**Probing** runs one probe over HTTP in full, then judges it. The probes of a run share
nothing but the server, whose answers are free, so that the others are represented by
what a rule reads of them (`Contexts`). The version of the audit (`ProtocolVersion`) is
the session's, or without one the newest that discover listed, as
`_populate_from_probe_payloads` has it. `live` holds the handshakes that opened a session
and whose session was not ended. **StdioProbing** adds the run over stdio, in which the
order matters: one pipe, one id per request (`Number`, as the source numbers them), a
server that answers in any order, late or never, sends requests of its own and may die,
the gateways that decide whether to go on, and the second process of the comparison.

## What the runs check

| run | shows | bounds |
|---|---|---|
| `listing` | the properties of a listing below, and that it implements its contract | 2 listings, 4 cursors, 4 pages at most, budget 2, 3 calls |
| `stdio_launch` | order, completeness and end of a launch | 2 held lines, 4 written |
| `audit_run` | diagnosis and leaks of a connection; exit codes, blame, launches and clean-up of the audit over it; answers, token and request of its sign-in | all five kinds of target, option sets that differ where the run does; 2 endpoints, 2 redirects, 2 connections to the listener |
| `auditor` | accounting, scores and provenance over two audits | five rules, one of each sort, 8 observations, 2 configurations |
| `smoke_phase` | consent, coverage, attribution, what a pass means, termination | 12 scenarios of at most 2 tools; 1 file, 2 contents, 3 vectors, 3 writes or removals; 3 listeners, 2 vectors, 2 connections |
| `skills` | what fails a server, what is lost, what is read | 4 files, 2 calls at once, 2 pages, sizes around a bound of 2 |
| `probes` | what a verdict rests on, sessions, late answers, complete results | every probe over HTTP with 2 other addresses, 2 well-known locations, 2 documents of an issuer, 2 pages per walk; 2 queues over stdio, 2 late answers |

| `exit_one`, `recovered_catalog`, `smoke_crash`, `smoke_abort`, `rate_limited` | see [Disagreements found](#disagreements-found) | as `audit_run`; one full audit; as `smoke_phase` (two runs); as `probes` |

**listing.** `WholeUnlessMarked`: what is returned unmarked runs from the first page to
the last, none missing, none twice. `ErrorAgreesWithResult`: the recorded error belongs
to the last call and counts the pages it returned; no list at all means that the first
page failed. `EachPageOnce`: no call gathers a page twice, or asks for one beyond the
bound. `ImplementsContract`: refinement of ListingContract. `ListingEnds`: every call
ends. The catalogues have one page, as many as the page bound (4) and one more, or end
in a cursor that names itself or one of two that name each other; cursors are told apart
only by the order in which they are met, which is why one catalogue per shape is enough.
A cycle longer than one shows only if the bound lets the walk go round it. Three calls
let a call follow a failed one and a whole one.

**stdio_launch.** `StderrInOrder`: logged, held and dropped lines are together what
the pump took, in order, and a gap is announced
with its length; the relay keeps to its bound.
`TracebackNotBeforeHint`: the hint about a missing module precedes the traceback it
explains. `NothingHeldAfterReturn`, `LaunchEnds`. Four lines on two held make the
deque overflow before, during and after the flush, with more than one line lost.

**audit_run.** Of the connection: `DiagnosisFromOneResponse`: status, redirect target
and reason of a failure come from one response of the attempt it diagnoses.
`OutcomeReported`: nothing after a success, otherwise the failure with the most to
say, the earliest among equals, and no second transport after an authentication
challenge. Of the audit: `ExitCodeTells`: 0, 2, 3 and 4 mean what a script takes them
to mean. `BlameIsEarned`: a partial audit reports a gate that was seen in this run, and
calls the credentials rejected only for an answer to an attempt that carried them.
`RelaunchOnlyIfUnexplained`: a command is launched with no transport open and with the
fixtures its options ask for, and a second time only after a handshake that broke with
nothing to explain it, or after a spawn refused with an errno that has no diagnosis.
The latter is what the code does and not what one would wish: such an `OSError` (a
directory that is none, an argument list too long) is recorded as UNKNOWN
(`mcp_client.py:1037-1042`), which is what the fallback asks for, so that a command that
cannot be started is tried again. `NothingLeftBehind`: what is open belongs to the attempt in
progress or to the session, and on every way out no transport and no fixture remains.
`FixturesOutliveServer`: a fixture goes only when no transport is open. An attempt is
made at most twice, so that there is nothing else to bound; the option sets leave out
combinations that meet at no statement (a credential for a package, for example).
Of the sign-in: `TokenKept`: one that is not interrupted returns a token exactly if
one was obtained, also when the request after it fails, or a later hop is challenged
again: the listener's future is spent by then, the provider refuses its state, and the
exception handler finds the token. `OneAnswer`: one visit decides, with the state of the
first authorization, among visits to the bare path, with other states, refusals, and
some that come before they are asked for or after the timeout. `RequestStaysHome`: after
any chain of redirects the request is still a POST to the endpoint's origin, never back
on plain HTTP, with no credentials but the endpoint's. One command line signs in, to an
endpoint that has an upgrade or to one that has userinfo and a port; each redirect takes
every status to every URL of the model. Two visits are one that answers and one that
comes before, beside or after it; two redirects put a challenge before, between and
after them.

**auditor.** `ReportAddsUp` has two parts. `ScoreAddsUp`: both scores are the sums of
the results reported beside them, promoted or not, and a gate on failed results trips
exactly where the score lost points. `AccountedOnce`: every rule of the audit's kind is
a result of its own axis or one skip, no other rule is either, and a disabled rule has
no verdict. `NothingCarriedOver`: results, skips, points and markers are of this audit,
also on a client with markers of an earlier one and after an audit that broke off.
`JudgedOnItsLifecycle`: no verdict sets a catalog of one lifecycle against facts of the
other. `SessionCatalogJudgedWhole`: uniqueness is judged only on whole session catalogs.
`WholeCatalogKept`: a recovery never replaces a catalog the session served whole. Two
audits are enough for what one leaves to the next; the observations are one of each
class the auditor's conditions tell apart.

**smoke_phase.** `NoUnconsentedCall`: no tool of the session runs that is neither
annotated as read-only nor consented to, not by the nonexistent name either when the
listing is partial, missing or of another lifecycle. `CoverageIsTrue`: the tools
counted as called, over the three checks, are exactly those of which a call was
answered. `PassIsEarned`: a write vector fails exactly if what the server did outside
during it left a file that is new or has other bytes, however the call ended, and passes
only if it was answered (`WriteVerdictIsEarned`); a network vector only under an allowlist, after a
control that arrived, on a call that was judged, and with every denied connection made
so far reported already, unless a listener did not settle in time. `OneWindowEach`:
laid end to end, the windows read of a log are the log, without gap or overlap.
`NoContactMissed`: every denied connection made by the end of the grace period is in a
failed result, also after a failed control. `ChecksEnd`: the network check ends, also on
a session that one of its calls closed.
The scenarios hold every combination of annotation, schema and listing that the checks
branch on, among them a tool that has the nonexistent name and is not in the listing,
and a network check whose tool is listed or missing. The two boundary checks are not
in one scenario: what the first leaves to the second is the state of the session, which
the second's own calls bring about as well. Writes
before the write check are in the initial tree, which has either content or none; three
acts let one vector leave its marker, the next write the same bytes over it, which passes,
and one remove or restore a file between or within the snapshots. Two connections allow
one per window boundary and one that races it; one vector that cannot run and one that can give both branches of the
loop; with two denied listeners the reads of the logs interleave with what arrives.

**skills.** `FailureNeedsAFault`: each of the five rules fails only a server from which
a wrong answer to a call of its kind was received. A timeout, a lost connection, an HTTP
refusal, the deadline, an unread page or a name that is served after all never fail it.
`FaultIsFailed`: a wrong answer that was received does fail its rule, however the
collection ended. `KeptWithinBudget`: the files kept exceed the budget by less than the
reads in flight can bring. The servers list nothing, one page, as many pages as the
bound and one more, with every kind of cursor at the end, and so do their directories;
the files have sizes below, at and above the bound, declared rightly, wrongly or not at
all. Not a fault here: a later page of the listing that is refused, which the code takes
for an incomplete listing.

**probes.** `SessionsEnded`: when a probe is done, each session its handshakes opened was
asked to end. `ConformingIsNotBlamed`: a server that conforms, on a network that may
fail, fails no rule on a probe. `BlameNeedsEvidence`: a refusal fails a server only
beside an accepted request of the same shape, a token that was accepted only if no token
fares differently, missing metadata only if a location answered, a modern duty only of a
modern server. `PassIsARefusal`: where a pass credits a refusal, each request that had to
be refused was turned down as such, and not by a busy server, a redirect or silence
(except at versions before 2025-11-25: `security.py:544` credits any 4xx to a foreign
origin, 429 too). `LateAnswersDoNoHarm`: over stdio, a server that answers rightly, in
whatever order and however late, or dies, fails nothing; an answer to a page of prompts
may have the id that the comparison waits for, and costs its evidence but no verdict.
`LegacyServerLeftAlone`: where modern support is required, a server that shows none gets
the two gateway requests and no third. `EveryProbeReported`: the run over stdio ends with
a result for each probe.
Every probe over HTTP meets every sequence of answers of `ProbeServers`; two locations,
addresses or pages let the first be wrong and the second right, and the reverse. The two
queues over stdio are the gateways with a probe after them, and the two probes whose ids
overlap. A pipe holds at most two late answers: one to skip and one to mistake.

**Fairness.** In Listing the clock ticks and an expired `wait_for` raises: asyncio
guarantees both and nothing else is assumed, so a server that never answers is
covered. In StdioLaunch, SmokePhase and StdioProbing the task is scheduled (its waits
have timeouts); nothing is assumed of the server, of the pump or of the listeners'
threads. The others state
no liveness: their steps are bounded by timeouts, and a property that says so would hold
by the shape of the model (but see the sign-in under
[What is not modelled](#what-is-not-modelled)).

**Stops.** A system that has finished stutters in its action `Done` (`Rest` in
Auditor, `PhaseOver` in SmokePhase), so that deadlock is checked. A run of probes that
has its results has no further step, and the configurations of MCProbes say so.

## What is proved

The theorems hold for every value of the constants under the modules' assumptions:
positive bounds, catalogues that are functions from pages to pages, a `NoListing`
that is not a listing, servers that are as `ServerAssumption` of Skills says, names for
the unknown child and for the unknown tool of which one is free (the code appends a
number until one is), a name that identifies a tool of a session and is not the value
that stands for no tool, at least one vector in each boundary check (both lists are
written out in the code), rules with distinct ids (`RuleRegistry` refuses a second one),
at least one well-known location in authorization discovery and probes, lists and places
of the kinds that Probing names (any number of addresses, locations and surfaces, in any
order, but for the tools, which come first), at most 300 pages of a list over stdio (the
code has 100), and options and observations of the sets that AuditRun and Auditor define.

**ListingProofs.** `TypeCorrect`, `WholeIsSound`, `ErrorsAgree`, `PagesDistinct` and
`Refinement`. The safety properties speak of finished calls, and are not inductive:
that a call which stops is whole or marked follows from where the call stands. The
inductive invariant `IInv` adds `CurrentWalk` (what was gathered is a walk through
the catalogue without repetition, the cursor in flight is the successor of its last
page and not yet in it, and `seenCursors` holds the cursors followed),
`FinishedCalls` (what a finished call left is a walk, and whole when unmarked) and
`BeforeSession`. The lemma `WalkExtends` says what `RequestNext` does to a walk;
freedom from repetition needs that a cursor in the walk is in `seenCursors`, which
is the reason for the code's set. `Refinement` maps a call in progress to a pending
answer: every step of Listing is an Ask, a Settle, a Decline or a stutter.

**StdioLaunchProofs.** `TypeCorrect`, `OrderKept`, `HoldingEnds` and `HintFirst`; the
first three from the invariant of `Accounts` (logged plus owed lines are the lines
pumped), `HeldConsecutive` (the held lines are the last of them, in order),
`RelayControl` (what the task's phase says about the lock, about holding and about the
flush) and `LogChain` (every record starts where the one before it ended). `Accounts`
alone does not survive a flush: that the line logged next is the right one needs
`HeldConsecutive`, and that no line enters between two of the flush needs the lock in
`RelayControl`. `HintFirst` adds `HintControl` (before the flush all lines are held and
the log is empty; once the launch is explained, everything held goes to the debug log)
and `NamingLine` (some line that names the module had been pumped when the hint was
written, and no line up to that one is in the log at its own level).

**SkillsProofs.** `NoFalseBlame`, for any number of skills, pages, files and calls at
once. The property speaks of the end alone; the invariant says of every piece of
evidence at any time that it would fail its rule only if that rule was blamed, with
one conjunct per rule. Two need more than their rule: `GetEvidence`, that a get is
pending only while calls are made, since a pending one at the end would fail the
rule, which is what the handler of the deadline sees to; and `DirectoryShape`, that
the pages read so far are among the children, so that the name asked for after the
last one is served nowhere (`UnknownChildIsFree`), and an answer to it is wrong.

`NoFaultForgiven` is the converse. Its invariant `KInv` says that what was once received
wrong stays in the evidence: a job that is over does not start again, calls are made only
for a skill that was listed, and no file is queued that was read or is being read, since
the plan names each once (`PlannedOnce`; without `Distinct` a second, correct read would
replace the wrong one). `BudgetHolds`: what is kept plus the most that the reads in flight
may bring stays under `MaxTotalBytes + ReadConcurrency * MaxFileBytes`, because a read
only starts while less than the budget was received. What At and `SumFunction` compute is
shown by induction over sets of numbers (`NatSetInduction`, from the least counterexample),
as in AuditorProofs: `At`, `Total` and `Plan` are written as recursive functions for that
reason, where a fold would need an induction theorem with an operator for a parameter.

**AuditRunProofs.** Seven theorems from one invariant, since each way out of an audit
depends on how the connection came to be as it is. `ConnectionInv` says of each phase of
Connect which responses may be held (those of the current attempt), how many failures are
recorded and what is open. `Course` says which phases of the connection are possible at
each step of the run, so that a run that is over has a client that never started or is
closed. `FixturesHeld`, `AuditsRun` and `Launched` say what each step knows of the
fixtures, of the audit and of the launches, `Written` and `ExitClaims` what the documents
and the exit code say by then. None of the seven is inductive: `NothingLeftBehind` speaks
of the end and of the attempt in progress, `BlameIsEarned` of a partial audit that rests
on a failure recorded long before.

**AuditorProofs.** `OnlyTheLastAudit`, `OneLifecycleEach`, `PartsAreNotJudged` and
`WholeStays`, for any rules, any observations and any number of audits. The invariant says
by the kind of the audit what its data can be: in a full one (`FullData`) a catalog of the
session is marked exactly if it is not whole, and one of the other lifecycle is in
`recovered`, which the selection of rules reads; a modern one holds nothing of a session,
the others no catalog at all. `Collecting` says that a listing still to be collected has
left nothing yet, so that marks and a catalog come from one call. `RuleMayBeJudged` is the
step from there to the verdicts: a rule that is neither skipped nor turned off may be
judged on this data. `ReportIsTrue` needs two invariants more: `PointsInv` says that the
points are the totals of what is listed and that both lists are `Balanced` (they earn what
is possible exactly if everything in them passed, since no judged weight is 0), and
`PlacesInv` that a rule of the audit that is no longer to be judged has one place in one
of the three lists, and every other rule none. The order of the rules plays no part: the
rules to judge are a set of places in the registry, of which the least comes next.

**SignedRunProofs.** `SignInComesFirst`: a run that may sign in implements AuditRun (its
sign-in is a stutter there), so that what AuditRunProofs proves holds of it too
(`SignedRunsAreSound`). `TokenIsKept`, `OneDecides`, `StaysHome` and `SignInTypeCorrect`
are about the sign-in, for any number of connections and redirects. `StaysHome` is
inductive with `NotRefused`, what a followed redirect may change. The others need to know
what each place of the task says of the future: `TokenBeforeNext` (a second authorization
begins only with what the first obtained) and `AnswerInHand` (nobody waits for the browser
with a token in hand, and only the code of the first authorization is exchanged); without
them a timeout could drop a token.

**SmokePhaseProofs.** `WindowsTile`: the cursors stay inside the logs, which only grow
(`LogsAndCursors`), and nothing is read before every listener is marked (`MarkedFirst`);
each read then extends what was read by the log from the cursor to its end, while the
listeners' threads append. `ConsentKept`: what is called is of the catalog the session
listed, or has a name that no tool of the session has; the lemma `UnknownNameIsFree` gets
from the listing to the tools the session offers, which matters where the listing is a
part of them.

`ContactsAreReported` follows a denied connection from the request to the report. It is in
flight, or accepted and not logged, or logged beyond the cursor, or read: `TaskTypes` says
where the task stands while the logs are drained, `ReadIsKept` that what was read is
reported or about to be, and `NothingDueLeft` that where a listener has settled and been
read nothing that was due is left. A listener that does
not settle is the one exception, and the property names it. `PassesAreEarned` joins that
to the filesystem check. `ActTimes` says that no act belongs to a vector whose call has
not begun. `SnapshotIsOlder` says that the acts on a file during a vector lead from what
the snapshot has to what there is (`Leads`: the first found the one, the last left the
other), so that the snapshots differ in a file exactly if the acts left it changed
(`LeadsToChange`). `AllJudged` keeps that of the results already in, which later acts do
not touch (`VerdictsStay`). `CoverageIsCounted` balances an
account: the tools counted, and those that answered and are still to be counted by the
check that called them (`FsOwed`, `NetCounted`), are the audited tools that answered, at
every step and on every way out (`Accounted`).

**ProbingProofs.** Seven theorems over any number of addresses, locations, surfaces and
pages. The argument is one for all of the probes: a log that a probe can have had (`Ran`)
is one in which each request is what the probe asked after the exchanges before it
(`Before`), and each answer one that the server may give. A step of Probing appends to
such a log, which is the whole of the invariant over HTTP (`Running`, `Concluded`), and
what a probe made of a log is then found by walking back from its last exchange to the
one it was asked after: no induction over the log is needed, because a probe has few
requests, or repeats one of which any occurrence will do.

`EverySessionEnds` needs more of a running probe: `Holds` says that at most the last
handshake has a session that was not ended, and only while the exchanges since are ones
after which the probe ends it (`InUse`, `Keeps`). `EvidenceIsNeeded`: a probe that
concludes anything but an error or an inapplicability was shown a control (`Shown`, one
lemma per probe: `SpoofShown`, `ReplayShown`, `InvalidRequestShown`, `SessionShown`,
`QueryShown`, `TokenShown`, `MetadataShown`), and a verdict on what only a modern server
promises is of a modern one (`ModernIsBlamed`). `PassesAreRefusals`: in a log that is
credited with a refusal, each request that must be refused was turned down; where
localBind repeats one, all are of the kind of the control that was accepted
(`OneKindOfReplay`). `ConformingServersAreNotBlamed` has a lemma per probe, named
`...IsFair`: in a log of conforming answers and network failures the outcome is
supported, not applicable or an error. For the walk of the pages that rests on two
conforming lists of one scope never disagreeing (`ScopesAgree`) and on a surface being
asked for only while its walk goes on (`AsksWalking`); for the comparison, on both
connections having been asked. The rules that read both gateways then judge gateways
that are full or were not heard (`FullGateway`).

Over stdio, `LegacyServerIsLeftAlone` is an action property: with modern support
required, the queue begins with what is left of the two gateways, or they showed that
support (`GatewaysFirst`).

`LateAnswersAreHarmless` needs to know more of the pipe (`LateRuns`): each message in it,
each request that may still be answered and the one that is waited for has a number that
such a request may have (`Numbered`), so that an answer that is taken for another's is of
one of few kinds (`Mistakable`, `Taken`). A page in the middle of a walk was the last one
when the next was asked for (`NextPage`), so every page of a complete walk, or of a
collected list, serves what was asked; and an answer that serves it is an answer to that
request after all (`TakenServes`). This holds because the numbers of the tools' pages end
before those of the comparison begin (`NumberIs`): the tools are the first surface of the
walk, and the spacing is no more than 300 (it is 100), as `StdioAssumption` says. Were the
tools last among four surfaces, their first page would have the number 2200, and a late
answer to it could pass for the first page of the comparison, which TLC shows at once.

**Model-checked only.** Liveness (`ListingEnds`, `LaunchEnds`, `ChecksEnd`,
`EveryProbeReported`) is out of the prover's reach, and so is what a recursive definition
computes for every input.

## Disagreements found

- `exit_one` (`cli.py:775`). An audit that ran and printed its report exits with 1
  when its SARIF file cannot be written. `docs/stability.mdx:213` and the help text
  (`cli.py:109`) say of 1 that the audit was never attempted. `docs/cli.mdx:98` does
  mention an unwritable `--sarif` file, but as one more reason for which "the audit
  never ran".
- `recovered_catalog` (`mcp_auditor.py:495`). The catalog recovered from the
  stateless probe counts as complete when its `resultType` says so, whether or not a
  `nextCursor` follows. It is then the first page of several, unmarked, and rules
  about the whole catalog judge it. The comment at line 505 takes it for whole;
  `stateless_page_whole` in `rules/catalog_security.py` does look at the cursor.

- `smoke_crash` (`smoke.py:520`). When a call has closed the connection, the
  invalid-arguments check of every later tool, and the check of the nonexistent name,
  fail with "connection closed on a schema-invalid call — a crash". The docstring of
  `run_smoke_checks` (line 633) says that one call at a time "keeps the server's
  observed behavior attributable to one request". The structured-content check skips
  in the same situation.
- `smoke_abort` (`smoke_filesystem.py:165`). `outside_state` reads the files outside the
  root without catching `OSError`. A file the server made unreadable, or removed
  after it was found, ends the run before the report of the audit is written, though
  "a smoke check never aborts the run" (`smoke.py:468`, `smoke_probe.py:50`).
- `rate_limited` (`probes.py:1128`). Most probes take a 429 or a 503 for the absence of
  what they look for, and their rules fail a server that only limits its clients.
  `docs/methodology.mdx:383`: "A server that rate-limits the probes turns rules into
  `insufficient-data` skips, which changes the maximum". The four probes at lines 1812,
  1886, 2569 and 2680 of `probes.py` do as it says.

## What is not modelled

- Verdicts of the rules on text and schemas, parsing of Markdown, YAML, HTML and URLs: functions of
  text, tested case by case.
- Reports, SARIF documents, masking of credentials: formatting.
- TLS contexts and proxies: behaviour of OpenSSL and httpx.
- Argument parsing in AuditRun: the options are given.
- Apps evidence; Skills evidence and the session's cursor probes in Auditor: they add
  fields no property here speaks of.
- In NetworkBoundary, whose connection it is: the code cannot tell either. A fetch in
  the background of one call is reported as a later vector's or as a late request.
  That it is reported is `NoContactMissed`; that it is blamed on the right call,
  as the docstring of `run_network_checks` has it, holds only for calls that fetch
  nothing after they return.
- In FilesystemBoundary, whose write it is: a write in the background of one vector
  fails a later one if it falls between that one's snapshots, and no one if it falls
  between two vectors. `run_filesystem_checks` calls a change "attributable to exactly
  one call", which holds for tools that have finished when they answer.
- Of `probes.py`: `StatelessSession`, the log of failures, the reading of event streams
  and the payloads a probe keeps. The tests of an address a challenge points at
  (`_classify_host`) are represented by the three places it may turn out to be.
- In StdioProbing, a request of the server's own that carries the id a probe waits for:
  the code takes it for the answer (`_StdioTarget._exchange` looks at the id alone), and
  the model does too; no property says that it should not.
- Of the sign-in: the conflicts of options in `_apply_oauth`, a client registered
  beforehand, the SDK's provider beyond what the code relies on, and when
  `Server.wait_closed` returns (`oauth.py:147`). Up to Python 3.12.0 it returns at once;
  since 3.12.1 it waits for every connection that was accepted, and `_handle` reads the
  request line without a timeout, so that a silent connection, which browsers open in
  advance, holds back the error of the timeout while it stays open. `Return` of SignIn may
  come at any time, and no property says that it comes. Of the redirects:
  `unfollowed_redirect`, and the probes' use of `send_within_origin`, whose answers are
  those that come back in the end.
- Configuration files, package coordinates: sequential, with tests of their own.
- The npm wrapper and the release scripts.

## The plan

Done, in this order: Listing (what every verdict rests on), StdioLaunch, Connect,
AuditRun (composing Connect), Auditor, NetworkBoundary, Smoke, FilesystemBoundary,
Skills with SkillsRules, SmokePhase (composing the smoke checks), the probes with their
rules, SignIn with the redirect policy, SignedRun (composing it with AuditRun).

Next, in this order:

1. **Auditor over Probing**: the probes' results as the ones the auditor reads, instead
   of observations that are free.
2. **Config, Packages** and the rules whose algorithms have a reference definition
   (unique names, revision ranges): pure operators over bounded inputs.

## Running it

`tlc -config <cfg> <module>` for a run of the table (module and cfg are named in
`PROJECT.json`), `tlapm` on the eight modules whose name ends in `Proofs` for the proofs.
The largest run, `audit_run`, has 2.9 million states; the longest, `smoke_phase`, takes
two to three minutes.
