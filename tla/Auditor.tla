------------------------------- MODULE Auditor -------------------------------
(***************************************************************************)
(* The auditor of mcp_auditor.py: the four kinds of audit an MCPAuditor    *)
(* runs, one after the other on the same object, what each collects, and   *)
(* how the registered rules are skipped, run, re-ranked and scored.        *)
(*                                                                         *)
(* Abstractions.  A rule is a record of what the auditor reads of it (its  *)
(* group, the data it declares, its range of revisions, its weight) and    *)
(* its verdict is free.  A catalog is where it was served and whether it   *)
(* is all the server has there.  There are two protocol revisions, the     *)
(* one of the session and the modern one.  Skills and apps evidence, TLS   *)
(* and the session's cursor probes touch nothing of this and are left out. *)
(*                                                                         *)
(* A definition whose name ends in _<Fault> is a faulty variant of the one *)
(* that follows it, kept to show that the properties notice the fault.     *)
(***************************************************************************)
EXTENDS Integers, Sequences, SequencesExt

CONSTANTS
    Rules,        \* the rules, in the order of rule_sort_key
    Configs,      \* rule configurations: rule id -> 0 (off) or its new weight
    Kinds,        \* kinds of audit that are run
    Observations, \* what a round of sessionless probes may see
    MaxAudits     \* bound: audits of one auditor

Listings == <<"tools", "resources">>

SessionRevision == 1
Modern == 2

VARIABLES
    config,       \* the configuration the auditor was built with
    client,       \* the session's client: listings marked incomplete, in error
    run,          \* number of the audit whose outcome the auditor holds
    kind,         \* kind of that audit
    step,         \* where it stands
    todo,         \* listings still to collect, or places of the rules to judge
    data,         \* AuditData
    era,          \* lifecycle eras observed
    promoted,     \* readiness_promoted
    points,       \* score, max_score, readiness_score, readiness_max
    results, readinessResults, skipped

outcomeVars == <<points, results, readinessResults, skipped>>
vars == <<config, client, run, kind, step, todo, data, era, promoted, outcomeVars>>

Ids == { Rules[i].id : i \in DOMAIN Rules }
Catalogs == [from : {"none", "session", "stateless"}, whole : BOOLEAN]
NoCatalog == [from |-> "none", whole |-> FALSE]

(* page: how the stateless tools/list was answered; malformed means that   *)
(* the tools do not parse, and whole that there is no further page.        *)
NotProbed == [discover |-> FALSE, code |-> FALSE, page |-> "none",
              malformed |-> FALSE, whole |-> FALSE]

ObservationSet ==
    [discover : BOOLEAN, code : BOOLEAN,
     page : {"none", "refused", "plain", "unproven", "complete"},
     malformed : BOOLEAN, whole : BOOLEAN]

ASSUME ConstantsAssumption ==
    /\ Rules \in Seq(ToSet(Rules))
    /\ \A i \in DOMAIN Rules :
           /\ Rules[i].weight \in Nat \ {0}
           /\ \A j \in DOMAIN Rules : Rules[i].id = Rules[j].id => i = j
    /\ \A c \in Configs : DOMAIN c \subseteq Ids /\ \A id \in DOMAIN c : c[id] \in Nat
    /\ Kinds \subseteq {"full", "modern", "partial", "package"}
    /\ Observations \subseteq ObservationSet
    /\ MaxAudits \in Nat

NoData ==
    [partial |-> FALSE, url |-> FALSE, protocol |-> 0, session |-> FALSE,
     capabilities |-> "none", declared |-> {},
     catalogs |-> [l \in ToSet(Listings) |-> NoCatalog],
     attempted |-> {}, incomplete |-> {}, errors |-> {}, recovered |-> {},
     probes |-> NotProbed]

NoPoints == [score |-> 0, max |-> 0, readiness |-> 0, readinessMax |-> 0]

Init ==
    /\ config \in Configs
    /\ client = [incomplete |-> {}, errors |-> {}]
    /\ run = 0 /\ kind = "none" /\ step = "idle" /\ todo = <<>>
    /\ data = NoData /\ era = "none" /\ promoted = FALSE
    /\ points = NoPoints
    /\ results = <<>> /\ readinessResults = <<>> /\ skipped = <<>>

----------------------------------------------------------------------------
(* What the probes tell.                                                   *)
HasModernSupport(p) == p.discover \/ p.page \in {"unproven", "complete"}

DetectEra(session, p) ==
    CASE (HasModernSupport(p) \/ p.code) /\ session -> "dual"
      [] (HasModernSupport(p) \/ p.code) /\ ~session -> "modern"
      [] OTHER -> IF session THEN "legacy" ELSE "none"

Served(p) == p.page \in {"plain", "unproven", "complete"}

(* _reset_run_state: nothing an earlier audit left is kept.                *)
ResetRunState_KeepsSkipped ==
    /\ points' = NoPoints
    /\ results' = <<>> /\ readinessResults' = <<>> /\ UNCHANGED skipped
    /\ era' = "none" /\ promoted' = FALSE

ResetRunState ==
    /\ points' = NoPoints
    /\ results' = <<>> /\ readinessResults' = <<>> /\ skipped' = <<>>
    /\ era' = "none" /\ promoted' = FALSE

Begin(k, next) ==
    /\ step \in {"idle", "done", "declined", "aborted"}
    /\ k \in Kinds
    /\ run < MaxAudits
    /\ run' = run + 1
    /\ kind' = k
    /\ step' = next
    /\ todo' = <<>>
    /\ ResetRunState
    /\ UNCHANGED <<config, client>>

(* audit, up to the transport's metadata.                                  *)
BeginFull ==
    /\ Begin("full", "initialize")
    /\ \E url \in BOOLEAN : data' = [NoData EXCEPT !.url = url]

(* _collect_init_result; a session may have none to give.                  *)
CollectInitResult ==
    /\ step = "initialize"
    /\ step' = "listing"
    /\ \/ UNCHANGED <<data, todo>>
       \/ \E declared \in SUBSET ToSet(Listings) :
              /\ data' = [data EXCEPT !.protocol = SessionRevision, !.session = TRUE,
                                      !.capabilities = "session", !.declared = declared]
              /\ todo' = Listings
    /\ UNCHANGED <<config, client, run, kind, era, promoted, outcomeVars>>

(* _capture_listing_completeness: of the marks the client has, those of    *)
(* the listing just fetched and no other.                                  *)
Captured_Cumulative(marks, l) == marks

Captured(marks, l) == marks \cap {l}

(* A listing whose capability was not declared is not collected.           *)
OmitListing ==
    /\ step = "listing"
    /\ todo # <<>>
    /\ Head(todo) \notin data.declared
    /\ todo' = Tail(todo)
    /\ UNCHANGED <<config, client, run, kind, step, data, era, promoted, outcomeVars>>

(* _collect_tools and the others: list_tools clears and sets the client's  *)
(* marks of that listing.  A listing fails with nothing, breaks off with   *)
(* an error, stops with none (a repeated cursor, the page bound), or ends. *)
CollectListing ==
    /\ step = "listing"
    /\ todo # <<>>
    /\ Head(todo) \in data.declared
    /\ LET l == Head(todo)
       IN  \E outcome \in {"failed", "broken", "stopped", "whole"} :
               LET marks == IF outcome = "whole" THEN client.incomplete \ {l}
                            ELSE client.incomplete \cup {l}
                   errors == IF outcome \in {"failed", "broken"} THEN client.errors \cup {l}
                             ELSE client.errors \ {l}
               IN  /\ client' = [incomplete |-> marks, errors |-> errors]
                   /\ data' = [data EXCEPT
                          !.attempted = @ \cup {l},
                          !.incomplete = @ \cup Captured(marks, l),
                          !.errors = @ \cup Captured(errors, l),
                          !.catalogs[l] = IF outcome = "failed" THEN @
                              ELSE [from |-> "session", whole |-> outcome = "whole"]]
    /\ todo' = Tail(todo)
    /\ UNCHANGED <<config, run, kind, step, era, promoted, outcomeVars>>

(* _collect_probes                                                         *)
CollectProbes ==
    /\ step = "listing"
    /\ todo = <<>>
    /\ \E p \in Observations : data' = [data EXCEPT !.probes = p]
    /\ step' = "recovering"
    /\ UNCHANGED <<config, client, run, kind, todo, era, promoted, outcomeVars>>

(* _recover_tools_from_stateless_probe: where the session's listing failed *)
(* or broke off, the stateless one is judged, on its own revision.         *)
Broken_Always(d) == "tools" \in d.attempted

Broken(d) ==
    /\ "tools" \in d.attempted
    /\ d.catalogs["tools"] # NoCatalog => "tools" \in d.incomplete

(* Only a complete catalog replaces a part of one.                         *)
Recoverable(d) ==
    /\ Broken(d)
    /\ Served(d.probes)
    /\ d.catalogs["tools"] # NoCatalog => d.probes.page = "complete"

Recovered_Unmarked(d) ==
    [d EXCEPT !.catalogs["tools"] = [from |-> "stateless", whole |-> d.probes.whole],
              !.incomplete = IF d.probes.page = "complete" THEN @ \ {"tools"} ELSE @]

Recovered(d) ==
    [d EXCEPT !.catalogs["tools"] = [from |-> "stateless", whole |-> d.probes.whole],
              !.recovered = @ \cup {"tools"},
              !.incomplete = IF d.probes.page = "complete" THEN @ \ {"tools"} ELSE @]

RecoverTools ==
    /\ step = "recovering"
    /\ data' = IF ~Recoverable(data) THEN data
               ELSE IF data.probes.malformed THEN [data EXCEPT !.errors = @ \cup {"tools"}]
               ELSE Recovered(data)
    /\ step' = "collected"
    /\ UNCHANGED <<config, client, run, kind, todo, era, promoted, outcomeVars>>

----------------------------------------------------------------------------
(* _populate_from_probe_payloads                                           *)
Populated(p, url, revision, declared) ==
    [NoData EXCEPT
        !.url = url, !.probes = p,
        !.protocol = IF p.discover THEN revision ELSE Modern,
        !.capabilities = IF p.discover THEN "stateless" ELSE "none",
        !.declared = IF p.discover THEN declared ELSE {},
        !.attempted = IF p.page = "none" THEN {} ELSE {"tools"},
        !.errors = IF p.page # "none" /\ p.malformed THEN {"tools"} ELSE {},
        !.catalogs["tools"] = IF Served(p) /\ ~p.malformed
                              THEN [from |-> "stateless", whole |-> p.whole] ELSE @]

(* audit_modern_only: without modern support it leaves everything as it is *)
AuditModernOnly ==
    \E p \in Observations :
        /\ HasModernSupport(p)
        /\ Begin("modern", "collected")
        /\ \E url \in BOOLEAN, revision \in {SessionRevision, Modern},
              declared \in SUBSET ToSet(Listings) :
                  data' = Populated(p, url, revision, declared)

DeclineModern ==
    /\ "modern" \in Kinds
    /\ step \in {"idle", "done", "aborted"}
    /\ \E p \in Observations : ~HasModernSupport(p)
    /\ step' = "declined"
    /\ UNCHANGED <<config, client, run, kind, todo, data, era, promoted, outcomeVars>>

(* audit_partial                                                           *)
AuditPartial ==
    \E p \in Observations :
        /\ Begin("partial", "collected")
        /\ data' = [NoData EXCEPT !.partial = TRUE, !.url = TRUE, !.probes = p]

(* audit_package                                                           *)
AuditPackage == Begin("package", "collected") /\ data' = NoData

(* An exception where the audit awaits something, or in a rule's check.    *)
Abort ==
    /\ step \in {"initialize", "listing", "collected", "rules"}
    /\ step' = "aborted"
    /\ UNCHANGED <<config, client, run, kind, todo, data, era, promoted, outcomeVars>>

----------------------------------------------------------------------------
(* _rules_for_target                                                       *)
RulesForTarget_Everything == DOMAIN Rules

RulesForTarget == { i \in DOMAIN Rules : (Rules[i].group = "packaging") = (kind = "package") }

(* The era is known, and with it whether readiness counts: for a server on *)
(* the modern lifecycle, and never in a partial audit.                     *)
Promoted_EvenPartial(e) == e \in {"modern", "dual"}

Promoted(e) == e \in {"modern", "dual"} /\ ~data.partial

StartRules ==
    /\ step = "collected"
    /\ era' = IF kind = "package" THEN "none" ELSE DetectEra(data.session, data.probes)
    /\ promoted' = Promoted(era')
    /\ todo' = RulesForTarget
    /\ step' = "rules"
    /\ UNCHANGED <<config, client, run, kind, data, outcomeVars>>

(* The catalog or the value a declared field holds.                        *)
Collected(f) ==
    CASE f \in ToSet(Listings) -> data.catalogs[f] # NoCatalog
      [] f = "protocol" -> data.protocol # 0
      [] f = "capabilities" -> data.capabilities # "none"
      [] f = "url" -> data.url
      [] OTHER -> FALSE

(* _applicability_version; 0 where no revision is known.                   *)
ApplicabilityVersion_OfSession(r) ==
    IF r.modernEvidence /\ era \in {"modern", "dual"} THEN Modern ELSE data.protocol

ApplicabilityVersion(r) ==
    IF (r.modernEvidence /\ era \in {"modern", "dual"}) \/ r.needs \cap data.recovered # {}
    THEN Modern
    ELSE data.protocol

AppliesTo(r) ==
    LET v == ApplicabilityVersion(r) IN v # 0 => r.min <= v /\ v <= r.max

(* _skipped_for_partial                                                    *)
SkippedForPartial(r) ==
    data.partial /\ r.needs # {} /\ \A f \in r.needs : ~Collected(f)

(* _evidence_spans_lifecycles                                              *)
SpansLifecycles_Never(r) == FALSE

SpansLifecycles(r) ==
    r.needs \cap data.recovered # {} /\ r.needs \ data.recovered # {}

(* A rule's skip_reason: a catalog that is not there, one that must be     *)
(* whole and is not, or, where r.hook, anything else.                      *)
OwnReason_PartsWillDo(r) == r.catalog # "none" /\ ~Collected(r.catalog)

OwnReason(r) ==
    /\ r.catalog # "none"
    /\ ~Collected(r.catalog) \/ (r.unique /\ r.catalog \in data.incomplete)

Disabled(r) == r.id \in DOMAIN config /\ config[r.id] = 0

(* _apply_rerank                                                           *)
WeightOf(r) == IF r.id \in DOMAIN config THEN config[r.id] ELSE r.weight

SkipReasons(r) ==
    IF ~AppliesTo(r) THEN {"not_applicable"}
    ELSE IF SkippedForPartial(r) \/ SpansLifecycles(r) \/ OwnReason(r)
         THEN {"insufficient_data"}
    ELSE (IF r.hook THEN {"insufficient_data"} ELSE {}) \cup
         (IF Disabled(r) THEN {"disabled_by_config"} ELSE {"none"})

(* What a verdict adds: a readiness rule to its own axis, and to the main  *)
(* one where it is promoted.                                               *)
Scored(p, r, passed) ==
    LET w == WeightOf(r)
        won == IF passed THEN w ELSE 0
        readiness == r.group = "readiness"
        counted == ~readiness \/ promoted
    IN  [score |-> p.score + (IF counted THEN won ELSE 0),
         max |-> p.max + (IF counted THEN w ELSE 0),
         readiness |-> p.readiness + (IF readiness THEN won ELSE 0),
         readinessMax |-> p.readinessMax + (IF readiness THEN w ELSE 0)]

(* _run_all_rules, one rule.                                               *)
Skip(r, reason) ==
    /\ skipped' = Append(skipped, [run |-> run, rule |-> r, reason |-> reason])
    /\ UNCHANGED <<points, results, readinessResults>>

Judge(r, passed) ==
    LET result == [run |-> run, rule |-> r, passed |-> passed, weight |-> WeightOf(r)]
    IN  /\ points' = Scored(points, r, passed)
        /\ IF r.group = "readiness"
           THEN readinessResults' = Append(readinessResults, result) /\ UNCHANGED results
           ELSE results' = Append(results, result) /\ UNCHANGED readinessResults
        /\ UNCHANGED skipped

NextRule == Rules[Min(todo)]

RunRule ==
    /\ step = "rules"
    /\ todo # {}
    /\ \E reason \in SkipReasons(NextRule) :
           IF reason = "none" THEN \E passed \in BOOLEAN : Judge(NextRule, passed)
           ELSE Skip(NextRule, reason)
    /\ todo' = todo \ {Min(todo)}
    /\ UNCHANGED <<config, client, run, kind, step, data, era, promoted>>

(* config_gate_failures, for a threshold.                                  *)
Failing(verdicts, threshold) ==
    { v.rule.id : v \in { w \in ToSet(verdicts) : ~w.passed /\ w.weight >= threshold } }

GateFailures(threshold) ==
    Failing(results, threshold) \cup (IF promoted THEN Failing(readinessResults, threshold) ELSE {})

Finish ==
    /\ step = "rules"
    /\ todo = {}
    /\ step' = "done"
    /\ UNCHANGED <<config, client, run, kind, todo, data, era, promoted, outcomeVars>>

Rest == step \in {"done", "declined", "aborted"} /\ run = MaxAudits /\ UNCHANGED vars

Next ==
    \/ BeginFull \/ CollectInitResult \/ OmitListing \/ CollectListing \/ CollectProbes \/ RecoverTools
    \/ AuditModernOnly \/ DeclineModern \/ AuditPartial \/ AuditPackage
    \/ StartRules \/ RunRule \/ Finish \/ Abort \/ Rest

Spec == Init /\ [][Next]_vars

----------------------------------------------------------------------------
Verdicts == ToSet(results) \cup ToSet(readinessResults)

Total(numbers) ==
    LET sum[n \in 0 .. Len(numbers)] == IF n = 0 THEN 0 ELSE sum[n - 1] + numbers[n]
    IN  sum[Len(numbers)]

Possible(verdicts) == Total([i \in DOMAIN verdicts |-> verdicts[i].weight])
Earned(verdicts) ==
    Total([i \in DOMAIN verdicts |-> IF verdicts[i].passed THEN verdicts[i].weight ELSE 0])

(* Whatever was promoted, re-ranked, skipped or failed, both scores are    *)
(* the sums of the results reported beside them; readiness counts in the   *)
(* main one together with its maximum or not at all, and never for a       *)
(* partial or a package audit; and a gate on failed results can trip       *)
(* exactly where the score itself lost points.                             *)
ScoreAddsUp ==
    /\ points.readiness = Earned(readinessResults)
    /\ points.readinessMax = Possible(readinessResults)
    /\ points.score = Earned(results) + (IF promoted THEN points.readiness ELSE 0)
    /\ points.max = Possible(results) + (IF promoted THEN points.readinessMax ELSE 0)
    /\ promoted => kind \in {"full", "modern"}
    /\ GateFailures(1) = {} <=> points.score = points.max

(* A finished audit accounts for every rule of its kind exactly once, as   *)
(* a result of its own axis or as a skip, and for no other; a rule that    *)
(* was turned off has no verdict.                                          *)
AccountedOnce ==
    step = "done" =>
        \A r \in ToSet(Rules) :
            LET about(verdicts) == Cardinality({ i \in DOMAIN verdicts : verdicts[i].rule = r })
                own == IF r.group = "readiness" THEN readinessResults ELSE results
            IN  /\ about(results) + about(readinessResults) + about(skipped) =
                       IF (r.group = "packaging") = (kind = "package") THEN 1 ELSE 0
                /\ about(own) + about(skipped) = about(results) + about(readinessResults) + about(skipped)
                /\ Disabled(r) => about(own) = 0

(* The report adds up: every rule of the audit has one place in it, and    *)
(* the points are those of its results, promoted or not (_run_all_rules,   *)
(* config_gate_failures).                                                  *)
ReportAddsUp == ScoreAddsUp /\ AccountedOnce

(* An auditor that is used again, also after an audit that broke off, and  *)
(* on a client that was audited before, reports the audit it last ran: its *)
(* results, skips and scores, and marks only on listings this audit tried. *)
NothingCarriedOver ==
    /\ \A v \in Verdicts \cup ToSet(skipped) : v.run = run
    /\ data.incomplete \cup data.errors \cup data.recovered \subseteq data.attempted
    /\ step \notin {"rules", "done", "declined", "aborted"} =>
           Verdicts = {} /\ skipped = <<>> /\ points = NoPoints /\ ~promoted

(* Which lifecycle a declared field was observed on.                       *)
SourceOf(f) ==
    CASE ~Collected(f) \/ f = "url" -> "none"
      [] f \in ToSet(Listings) -> data.catalogs[f].from
      [] OTHER -> IF data.session THEN "session" ELSE "stateless"

(* No verdict compares a catalog of the stateless lifecycle with what the  *)
(* session declared, and none applies to a catalog a rule whose revisions  *)
(* exclude the one it was served on; a partial audit passes no verdict on  *)
(* fields none of which it has.                                            *)
JudgedOnItsLifecycle ==
    \A v \in Verdicts :
        LET r == v.rule
            sources == { SourceOf(f) : f \in r.needs }
        IN  /\ ~ {"session", "stateless"} \subseteq sources
            /\ kind = "full" /\ ~r.modernEvidence =>
                   /\ "stateless" \in sources => r.min <= Modern /\ Modern <= r.max
                   /\ "session" \in sources =>
                          r.min <= SessionRevision /\ SessionRevision <= r.max
            /\ kind = "partial" /\ r.needs # {} => \E f \in r.needs : Collected(f)

JudgedOn(source) ==
    { v \in Verdicts :
        /\ v.rule.unique /\ v.rule.catalog \in ToSet(Listings)
        /\ data.catalogs[v.rule.catalog].from = source }

(* A rule that is about a whole catalog (unique names) passes no verdict   *)
(* on one the session served only a part of, whatever ended the listing.   *)
SessionCatalogJudgedWhole ==
    \A v \in JudgedOn("session") : data.catalogs[v.rule.catalog].whole

(* A listing the session served whole is what is judged.                   *)
WholeCatalogKept ==
    [][run' = run /\ data.catalogs["tools"].whole
           => data'.catalogs["tools"] = data.catalogs["tools"]]_vars

(* mcp_auditor.py, _recover_tools_from_stateless_probe: "a complete modern *)
(* result replaces it whole, so completeness rules may judge it".          *)
RecoveredCatalogJudgedWhole ==
    kind = "full" =>
        \A v \in JudgedOn("stateless") : data.catalogs[v.rule.catalog].whole

==============================================================================
