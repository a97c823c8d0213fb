---------------------------- MODULE AuditorProofs ----------------------------
(***************************************************************************)
(* What an auditor guarantees for any rules, configuration and             *)
(* observations, and however many audits it ran before.                    *)
(***************************************************************************)
EXTENDS Auditor, TLAPS, SequenceTheorems, WellFoundedInduction, FiniteSetTheorems

Lists == {"tools", "resources"}

LEMMA ListsAre == ToSet(Listings) = Lists
BY DEF ToSet, Listings, Lists

----------------------------------------------------------------------------
(* The reports are sequences of whatever is in them.                       *)
Reports ==
    /\ results \in Seq(ToSet(results))
    /\ readinessResults \in Seq(ToSet(readinessResults))
    /\ skipped \in Seq(ToSet(skipped))

LEMMA AppendElements ==
    ASSUME NEW s, s \in Seq(ToSet(s)), NEW x
    PROVE  /\ Append(s, x) \in Seq(ToSet(Append(s, x)))
           /\ ToSet(Append(s, x)) = ToSet(s) \cup {x}
<1> DEFINE S == ToSet(s) \cup {x}
           t == Append(s, x)
<1>1. s \in Seq(S) /\ x \in S
  BY SeqMonotonic
<1>2. /\ t \in Seq(S) /\ Len(t) = Len(s) + 1 /\ Len(s) \in Nat
      /\ \A i \in 1 .. Len(s) : t[i] = s[i]
      /\ t[Len(s) + 1] = x
  BY <1>1, AppendProperties, LenProperties
<1>3. DOMAIN s = 1 .. Len(s) /\ DOMAIN t = 1 .. Len(s) + 1
  BY <1>1, <1>2, LenProperties
<1>4. ToSet(t) = ToSet(s) \cup {x}
  <2>1. ASSUME NEW y \in ToSet(t) PROVE y \in ToSet(s) \cup {x}
    <3>1. PICK i \in 1 .. Len(s) + 1 : y = t[i]
      BY <1>3 DEF ToSet
    <3>2. CASE i = Len(s) + 1
      BY <1>2, <3>1, <3>2
    <3>3. CASE i \in 1 .. Len(s)
      BY <1>2, <1>3, <3>1, <3>3 DEF ToSet
    <3> QED
      BY <1>2, <3>2, <3>3
  <2>2. ASSUME NEW y \in ToSet(s) PROVE y \in ToSet(t)
    <3>1. PICK i \in 1 .. Len(s) : y = s[i]
      BY <1>3 DEF ToSet
    <3>2. y = t[i] /\ i \in DOMAIN t
      BY <1>2, <1>3, <3>1
    <3> QED
      BY <3>2 DEF ToSet
  <2>3. x \in ToSet(t)
    BY <1>2, <1>3 DEF ToSet
  <2> QED
    BY <2>1, <2>2, <2>3
<1> QED
  BY <1>2, <1>4

LEMMA NoElements == ToSet(<<>>) = {} /\ <<>> \in Seq(ToSet(<<>>))
BY DEF ToSet

----------------------------------------------------------------------------
(* What an audit holds, by its kind.                                       *)
DataSet ==
    [partial : BOOLEAN, url : BOOLEAN, protocol : {0, SessionRevision, Modern},
     session : BOOLEAN, capabilities : {"none", "session", "stateless"},
     declared : SUBSET Lists, catalogs : [Lists -> Catalogs],
     attempted : SUBSET Lists, incomplete : SUBSET Lists, errors : SUBSET Lists,
     recovered : SUBSET Lists, probes : ObservationSet]

(* A session's catalog is marked unless it is whole; one of the other      *)
(* lifecycle was recovered, and says so.                                   *)
FullData ==
    /\ ~data.partial
    /\ IF data.session THEN data.protocol = SessionRevision
       ELSE data.protocol = 0 /\ data.capabilities = "none" /\ data.declared = {}
    /\ \A l \in Lists :
           /\ data.catalogs[l].from = "none" => data.catalogs[l] = NoCatalog
           /\ data.catalogs[l].from = "session" =>
                  data.session /\ (data.catalogs[l].whole <=> l \notin data.incomplete)
           /\ data.catalogs[l].from = "stateless" <=> l \in data.recovered
    /\ data.recovered \subseteq {"tools"}

ModernData ==
    /\ ~data.session /\ data.recovered = {}
    /\ \A l \in Lists : data.catalogs[l].from # "session"

NothingHeld ==
    /\ ~data.session /\ data.protocol = 0 /\ data.capabilities = "none"
    /\ data.catalogs = [l \in Lists |-> NoCatalog]
    /\ kind = "partial" => data.partial

(* A listing still to be collected has left nothing yet.                   *)
Collecting ==
    /\ step \in {"initialize", "listing", "recovering"} => kind = "full" /\ data.recovered = {}
    /\ step = "initialize" => todo = <<>> /\ \E url \in BOOLEAN : data = [NoData EXCEPT !.url = url]
    /\ step = "listing" =>
           /\ todo \in {Listings, <<"resources">>, <<>>}
           /\ \A l \in ToSet(todo) : l \notin data.attempted /\ data.catalogs[l] = NoCatalog

DataInv ==
    /\ data \in DataSet
    /\ kind \in {"none", "full", "modern", "partial", "package"}
    /\ kind = "full" => FullData
    /\ kind = "modern" => ModernData
    /\ kind \in {"none", "partial", "package"} => NothingHeld
    /\ Collecting

(* Verdicts are passed where JudgedOnItsLifecycle and                      *)
(* SessionCatalogJudgedWhole allow them.                                   *)
OnItsLifecycle(r) ==
    LET sources == { SourceOf(f) : f \in r.needs }
    IN  /\ ~ {"session", "stateless"} \subseteq sources
        /\ kind = "full" /\ ~r.modernEvidence =>
               /\ "stateless" \in sources => r.min <= Modern /\ Modern <= r.max
               /\ "session" \in sources => r.min <= SessionRevision /\ SessionRevision <= r.max
        /\ kind = "partial" /\ r.needs # {} => \E f \in r.needs : Collected(f)

OnAWhole(r) ==
    r.unique /\ r.catalog \in Lists /\ data.catalogs[r.catalog].from = "session"
        => data.catalogs[r.catalog].whole

JudgedInv == JudgedOnItsLifecycle /\ SessionCatalogJudgedWhole

IInv == Reports /\ DataInv /\ NothingCarriedOver /\ JudgedInv

LEMMA JudgedInvIs ==
    JudgedInv <=> \A v \in Verdicts : OnItsLifecycle(v.rule) /\ OnAWhole(v.rule)
<1>1. JudgedOnItsLifecycle <=> \A v \in Verdicts : OnItsLifecycle(v.rule)
  BY DEF JudgedOnItsLifecycle, OnItsLifecycle
<1>2. SessionCatalogJudgedWhole <=> \A v \in Verdicts : OnAWhole(v.rule)
  BY ListsAre DEF SessionCatalogJudgedWhole, OnAWhole, JudgedOn
<1> QED
  BY <1>1, <1>2 DEF JudgedInv

(* A rule that is neither skipped nor off may be judged.                   *)
LEMMA RuleMayBeJudged ==
    ASSUME DataInv, NEW r, "none" \in SkipReasons(r)
    PROVE  OnItsLifecycle(r) /\ OnAWhole(r)
<1>1. AppliesTo(r) /\ ~SkippedForPartial(r) /\ ~SpansLifecycles(r) /\ ~OwnReason(r)
  BY DEF SkipReasons
<1> USE DEF DataInv
<1>2. OnAWhole(r)
  <2>1. kind = "full" => OnAWhole(r)
    BY <1>1 DEF FullData, OnAWhole, OwnReason, Lists
  <2> QED
    BY <2>1 DEF ModernData, NothingHeld, NoCatalog, OnAWhole, Lists
<1>3. CASE kind = "full"
  <2>1. ASSUME NEW f \in r.needs, SourceOf(f) = "stateless" PROVE f \in data.recovered
    BY <1>3, <2>1, ListsAre DEF SourceOf, Collected, FullData, Lists
  <2>2. ASSUME NEW f \in r.needs, SourceOf(f) = "session"
        PROVE  f \notin data.recovered /\ data.protocol = SessionRevision
    BY <1>3, <2>2, ListsAre DEF SourceOf, Collected, FullData, Lists
  <2>3. ~({"session", "stateless"} \subseteq { SourceOf(f) : f \in r.needs })
    BY <1>1, <2>1, <2>2 DEF SpansLifecycles
  <2>4. ASSUME "stateless" \in { SourceOf(f) : f \in r.needs }
        PROVE  r.min <= Modern /\ Modern <= r.max
    <3>1. r.needs \cap data.recovered # {}
      BY <2>1, <2>4
    <3>2. ApplicabilityVersion(r) = Modern
      BY <3>1 DEF ApplicabilityVersion
    <3> QED
      BY <1>1, <3>2 DEF AppliesTo, Modern
  <2>5. ASSUME "session" \in { SourceOf(f) : f \in r.needs }, ~r.modernEvidence
        PROVE  r.min <= SessionRevision /\ SessionRevision <= r.max
    <3>1. r.needs \cap data.recovered = {} /\ data.protocol = SessionRevision
      BY <1>1, <2>2, <2>5 DEF SpansLifecycles
    <3>2. ApplicabilityVersion(r) = SessionRevision
      BY <2>5, <3>1 DEF ApplicabilityVersion
    <3> QED
      BY <1>1, <3>2 DEF AppliesTo, SessionRevision
  <2> QED
    BY <1>2, <1>3, <2>3, <2>4, <2>5 DEF OnItsLifecycle
<1>4. CASE kind = "modern"
  <2>1. \A f \in r.needs : SourceOf(f) # "session"
    BY <1>4, ListsAre DEF SourceOf, ModernData, Lists
  <2> QED
    BY <1>2, <1>4, <2>1 DEF OnItsLifecycle
<1>5. CASE kind \in {"none", "partial", "package"}
  <2>1. \A f \in r.needs : SourceOf(f) = "none"
    <3> SUFFICES ASSUME NEW f \in r.needs PROVE SourceOf(f) = "none"
      OBVIOUS
    <3>1. f \in ToSet(Listings) => data.catalogs[f] = NoCatalog
      BY <1>5, ListsAre DEF NothingHeld
    <3>2. data.protocol = 0 /\ data.capabilities = "none"
      BY <1>5 DEF NothingHeld
    <3> HIDE DEF DataInv
    <3>3. CASE f \in ToSet(Listings)
      BY <3>1, <3>3, ListsAre DEF SourceOf, Collected, Lists, NoCatalog
    <3>4. CASE f \notin ToSet(Listings)
      BY <3>2, <3>4, ListsAre DEF SourceOf, Collected, Lists
    <3> QED
      BY <3>3, <3>4
  <2>2. kind = "partial" /\ r.needs # {} => \E f \in r.needs : Collected(f)
    BY <1>1, <1>5 DEF SkippedForPartial, NothingHeld
  <2> QED
    BY <1>2, <1>5, <2>1, <2>2 DEF OnItsLifecycle
<1> QED
  BY <1>3, <1>4, <1>5

----------------------------------------------------------------------------
LEMMA NoDataIs ==
    /\ NoData \in DataSet
    /\ NoData.catalogs = [l \in Lists |-> NoCatalog]
    /\ ~NoData.partial /\ ~NoData.session /\ NoData.protocol = 0
    /\ NoData.capabilities = "none" /\ NoData.declared = {} /\ NoData.recovered = {} /\ NoData.attempted = {}
    /\ NoData.incomplete = {} /\ NoData.errors = {}
BY ListsAre DEF NoData, DataSet, NoCatalog, Catalogs, NotProbed, ObservationSet, SessionRevision, Modern

(* Until something is judged there is nothing to object to.                *)
LEMMA NothingJudged ==
    ASSUME results = <<>>, readinessResults = <<>>, skipped = <<>>
    PROVE  Reports /\ Verdicts = {} /\ ToSet(skipped) = {} /\ JudgedInv
BY NoElements, JudgedInvIs DEF Reports, Verdicts

LEMMA AuditorInit == Init => IInv
<1> SUFFICES ASSUME Init PROVE IInv
  OBVIOUS
<1>1. /\ data = NoData /\ kind = "none" /\ step = "idle" /\ ~promoted /\ points = NoPoints
      /\ results = <<>> /\ readinessResults = <<>> /\ skipped = <<>>
  BY DEF Init
<1>2. DataInv
  BY <1>1, NoDataIs DEF DataInv, NothingHeld, Collecting
<1>3. NothingCarriedOver
  BY <1>1, NothingJudged, NoDataIs DEF NothingCarriedOver
<1> QED
  BY <1>1, <1>2, <1>3, NothingJudged DEF IInv

(* An audit begins with nothing but what its kind starts from.             *)
LEMMA BeginStep ==
    ASSUME IInv, NEW k \in {"full", "modern", "partial", "package"}, NEW next,
           Begin(k, next), DataInv',
           data'.incomplete \cup data'.errors \cup data'.recovered \subseteq data'.attempted
    PROVE  IInv'
<1>1. /\ results' = <<>> /\ readinessResults' = <<>> /\ skipped' = <<>>
      /\ points' = NoPoints /\ promoted' = FALSE
  BY DEF Begin, ResetRunState
<1>2. Reports' /\ Verdicts' = {} /\ ToSet(skipped') = {}
  BY <1>1, NoElements DEF Reports, Verdicts
<1>3. JudgedInv'
  BY <1>2 DEF JudgedInv, JudgedOnItsLifecycle, SessionCatalogJudgedWhole, JudgedOn
<1>4. NothingCarriedOver'
  BY <1>1, <1>2 DEF NothingCarriedOver, NoPoints
<1> QED
  BY <1>2, <1>3, <1>4 DEF IInv

LEMMA BeginFullStep == IInv /\ BeginFull => IInv'
<1> SUFFICES ASSUME IInv, BeginFull PROVE IInv'
  OBVIOUS
<1>1. PICK url \in BOOLEAN : data' = [NoData EXCEPT !.url = url]
  BY DEF BeginFull
<1>2. kind' = "full" /\ step' = "initialize" /\ todo' = <<>> /\ Begin("full", "initialize")
  BY DEF BeginFull, Begin
<1>3. /\ data' \in DataSet
      /\ data'.catalogs = [l \in Lists |-> NoCatalog]
      /\ ~data'.partial /\ ~data'.session /\ data'.protocol = 0
      /\ data'.capabilities = "none" /\ data'.declared = {} /\ data'.recovered = {} /\ data'.attempted = {}
      /\ data'.incomplete = {} /\ data'.errors = {}
  BY <1>1, NoDataIs DEF DataSet
<1>4. FullData'
  BY <1>3 DEF FullData, NoCatalog, Lists
<1>5. DataInv'
  BY <1>1, <1>2, <1>3, <1>4 DEF DataInv, Collecting
<1> QED
  BY <1>2, <1>3, <1>5, BeginStep

LEMMA OtherBeginStep == IInv /\ (AuditModernOnly \/ AuditPartial \/ AuditPackage) => IInv'
<1> SUFFICES ASSUME IInv, AuditModernOnly \/ AuditPartial \/ AuditPackage PROVE IInv'
  OBVIOUS
<1>1. CASE AuditModernOnly
  <2>1. PICK p \in Observations, url \in BOOLEAN, revision \in {SessionRevision, Modern},
             declared \in SUBSET ToSet(Listings) :
            data' = Populated(p, url, revision, declared) /\ Begin("modern", "collected")
    BY <1>1 DEF AuditModernOnly
  <2>2. p \in ObservationSet
    BY ConstantsAssumption
  <2> DEFINE c == IF Served(p) /\ ~p.malformed
                  THEN [from |-> "stateless", whole |-> p.whole] ELSE NoCatalog
             cats == [l \in Lists |-> IF l = "tools" THEN c ELSE NoCatalog]
  <2>3. cats \in [Lists -> Catalogs] /\ \A l \in Lists : cats[l].from # "session"
    <3>1. NoCatalog \in Catalogs /\ NoCatalog.from = "none"
      BY DEF Catalogs, NoCatalog
    <3>2. p.whole \in BOOLEAN
      BY <2>2 DEF ObservationSet
    <3>3. c \in Catalogs /\ c.from # "session"
      <4>1. CASE Served(p) /\ ~p.malformed
        BY <3>2, <4>1 DEF Catalogs
      <4>2. CASE ~(Served(p) /\ ~p.malformed)
        BY <3>1, <4>2
      <4> QED
        BY <4>1, <4>2
    <3> HIDE DEF c
    <3> QED
      BY <3>1, <3>3
  <2>4. declared \subseteq Lists /\ revision \in {0, SessionRevision, Modern}
    BY <2>1, ListsAre
  <2> DEFINE protocol == IF p.discover THEN revision ELSE Modern
             capabilities == IF p.discover THEN "stateless" ELSE "none"
             offered == IF p.discover THEN declared ELSE {}
             attempted == IF p.page = "none" THEN {} ELSE {"tools"}
             errors == IF p.page # "none" /\ p.malformed THEN {"tools"} ELSE {}
  <2>5. data' = [NoData EXCEPT
            !.url = url, !.probes = p, !.protocol = protocol,
            !.capabilities = capabilities, !.declared = offered,
            !.attempted = attempted, !.errors = errors, !.catalogs = cats]
    <3>1. cats = [NoData.catalogs EXCEPT !["tools"] =
                      IF Served(p) /\ ~p.malformed
                      THEN [from |-> "stateless", whole |-> p.whole] ELSE @]
      BY NoDataIs DEF Lists
    <3> HIDE DEF cats
    <3> QED
      BY <2>1, <3>1 DEF Populated, NoData
  <2>6. /\ protocol \in {0, SessionRevision, Modern}
        /\ capabilities \in {"none", "session", "stateless"}
        /\ offered \in SUBSET Lists /\ attempted \in SUBSET Lists /\ errors \in SUBSET Lists
        /\ errors \subseteq attempted
    BY <2>2, <2>4 DEF Lists, ObservationSet
  <2> HIDE DEF cats, c, protocol, capabilities, offered, attempted, errors
  <2>7. /\ data' \in DataSet
        /\ ~data'.session /\ data'.recovered = {} /\ data'.incomplete = {}
        /\ data'.errors \subseteq data'.attempted
        /\ data'.catalogs = cats
    BY <2>2, <2>3, <2>5, <2>6, NoDataIs DEF DataSet
  <2>8. DataInv'
    BY <2>1, <2>3, <2>7 DEF DataInv, ModernData, Collecting, Begin
  <2> QED
    BY <2>1, <2>7, <2>8, BeginStep
<1>2. CASE AuditPartial
  <2>1. PICK p \in Observations :
            /\ Begin("partial", "collected")
            /\ data' = [NoData EXCEPT !.partial = TRUE, !.url = TRUE, !.probes = p]
    BY <1>2 DEF AuditPartial
  <2>2. p \in ObservationSet
    BY ConstantsAssumption
  <2>3. /\ data' \in DataSet /\ data'.partial
        /\ data'.catalogs = [l \in Lists |-> NoCatalog]
        /\ ~data'.session /\ data'.protocol = 0
        /\ data'.capabilities = "none" /\ data'.recovered = {} /\ data'.attempted = {}
        /\ data'.incomplete = {} /\ data'.errors = {}
    BY <2>1, <2>2, NoDataIs DEF DataSet
  <2>4. DataInv'
    BY <2>1, <2>3 DEF DataInv, NothingHeld, Collecting, Begin
  <2> QED
    BY <2>1, <2>3, <2>4, BeginStep
<1>3. CASE AuditPackage
  <2>1. data' = NoData /\ Begin("package", "collected")
    BY <1>3 DEF AuditPackage
  <2>2. DataInv'
    BY <2>1, NoDataIs DEF DataInv, NothingHeld, Collecting, Begin
  <2> QED
    BY <2>1, <2>2, NoDataIs, BeginStep
<1> QED
  BY <1>1, <1>2, <1>3

----------------------------------------------------------------------------
(* What is collected before anything is judged.                            *)
LEMMA CollectedStep ==
    ASSUME IInv, step \in {"initialize", "listing", "recovering"},
           UNCHANGED <<run, kind, promoted, outcomeVars>>, DataInv',
           data'.incomplete \cup data'.errors \cup data'.recovered \subseteq data'.attempted
    PROVE  IInv'
<1>1. Verdicts = {} /\ skipped = <<>> /\ points = NoPoints /\ ~promoted
  BY DEF IInv, NothingCarriedOver
<1>2. /\ Verdicts' = {} /\ skipped' = <<>> /\ points' = NoPoints /\ ~promoted'
      /\ results' = results /\ readinessResults' = readinessResults /\ skipped' = skipped
  BY <1>1 DEF Verdicts, outcomeVars
<1>3. Reports'
  BY <1>2 DEF IInv, Reports
<1>4. JudgedInv'
  BY <1>2 DEF JudgedInv, JudgedOnItsLifecycle, SessionCatalogJudgedWhole, JudgedOn
<1>5. NothingCarriedOver'
  BY <1>2, NoElements DEF NothingCarriedOver, NoPoints
<1> QED
  BY <1>3, <1>4, <1>5 DEF IInv

LEMMA ListingsAre ==
    /\ Listings # <<>> /\ Head(Listings) = "tools" /\ Tail(Listings) = <<"resources">>
    /\ <<"resources">> # <<>> /\ Head(<<"resources">>) = "resources"
    /\ Tail(<<"resources">>) = <<>>
    /\ ToSet(<<"resources">>) = {"resources"} /\ ToSet(<<>>) = {}
BY DEF Listings, ToSet

LEMMA InitResultStep == IInv /\ CollectInitResult => IInv'
<1> SUFFICES ASSUME IInv, CollectInitResult PROVE IInv'
  OBVIOUS
<1>1. /\ step = "initialize" /\ step' = "listing" /\ kind = "full" /\ todo = <<>>
      /\ UNCHANGED <<run, kind, promoted, outcomeVars>>
  BY DEF CollectInitResult, IInv, DataInv, Collecting
<1>2. PICK url \in BOOLEAN : data = [NoData EXCEPT !.url = url]
  BY <1>1 DEF IInv, DataInv, Collecting
<1>3. /\ data \in DataSet
      /\ data.catalogs = [l \in Lists |-> NoCatalog]
      /\ ~data.partial /\ ~data.session /\ data.protocol = 0
      /\ data.capabilities = "none" /\ data.declared = {} /\ data.recovered = {} /\ data.attempted = {}
      /\ data.incomplete = {} /\ data.errors = {}
  BY <1>2, NoDataIs DEF DataSet
<1> DEFINE Begun ==
        /\ data' \in DataSet
        /\ data'.catalogs = [l \in Lists |-> NoCatalog]
        /\ ~data'.partial /\ data'.recovered = {} /\ data'.attempted = {}
        /\ data'.incomplete = {} /\ data'.errors = {}
        /\ IF data'.session THEN data'.protocol = SessionRevision
           ELSE data'.protocol = 0 /\ data'.capabilities = "none" /\ data'.declared = {}
        /\ todo' \in {Listings, <<>>}
<1>4. Begun
  <2>1. CASE UNCHANGED <<data, todo>>
    BY <1>1, <1>3, <2>1
  <2>2. ASSUME NEW declared \in SUBSET ToSet(Listings), todo' = Listings,
               data' = [data EXCEPT !.protocol = SessionRevision, !.session = TRUE,
                                    !.capabilities = "session", !.declared = declared]
        PROVE  Begun
    BY <1>3, <2>2, ListsAre DEF DataSet
  <2> HIDE DEF Begun
  <2> QED
    BY <2>1, <2>2 DEF CollectInitResult
<1>5. FullData'
  BY <1>4 DEF FullData, NoCatalog, Lists
<1>6. Collecting'
  <2>1. ToSet(todo') \subseteq Lists
    BY <1>4, ListsAre, ListingsAre
  <2>2. \A l \in ToSet(todo') : l \notin data'.attempted /\ data'.catalogs[l] = NoCatalog
    BY <1>4, <2>1
  <2> QED
    BY <1>1, <1>4, <2>2 DEF Collecting
<1>7. DataInv'
  BY <1>1, <1>4, <1>5, <1>6 DEF DataInv
<1> QED
  BY <1>1, <1>4, <1>7, CollectedStep

LEMMA OmitStep == IInv /\ OmitListing => IInv'
<1> SUFFICES ASSUME IInv, OmitListing PROVE IInv'
  OBVIOUS
<1>1. /\ step = "listing" /\ todo # <<>> /\ todo' = Tail(todo)
      /\ UNCHANGED <<run, kind, step, data, promoted, outcomeVars>>
  BY DEF OmitListing
<1>2. todo' \in {<<"resources">>, <<>>} /\ ToSet(todo') \subseteq ToSet(todo)
  BY <1>1, ListingsAre, ListsAre DEF IInv, DataInv, Collecting, Lists
<1>3. Collecting'
  BY <1>1, <1>2 DEF IInv, DataInv, Collecting
<1>4. FullData' = FullData
  BY <1>1 DEF FullData
<1>5. kind = "full"
  BY <1>1 DEF IInv, DataInv, Collecting
<1>6. DataInv'
  BY <1>1, <1>3, <1>4, <1>5 DEF IInv, DataInv
<1> QED
  BY <1>1, <1>6, CollectedStep DEF IInv, NothingCarriedOver

LEMMA CollectStep == IInv /\ CollectListing => IInv'
<1> SUFFICES ASSUME IInv, CollectListing PROVE IInv'
  OBVIOUS
<1> DEFINE l == Head(todo)
<1>1. /\ step = "listing" /\ todo # <<>> /\ todo' = Tail(todo) /\ l \in data.declared
      /\ UNCHANGED <<run, kind, step, promoted, outcomeVars>>
  BY DEF CollectListing
<1>2. /\ l \in Lists /\ l \in ToSet(todo) /\ l \notin ToSet(todo')
      /\ todo' \in {<<"resources">>, <<>>} /\ ToSet(todo') \subseteq ToSet(todo)
  BY <1>1, ListingsAre, ListsAre DEF IInv, DataInv, Collecting, Lists
<1>3. /\ kind = "full" /\ data.recovered = {} /\ data \in DataSet /\ FullData
      /\ \A k \in ToSet(todo) : k \notin data.attempted /\ data.catalogs[k] = NoCatalog
      /\ data.incomplete \cup data.errors \subseteq data.attempted
  BY <1>1 DEF IInv, DataInv, Collecting, NothingCarriedOver
<1> HIDE DEF l
<1>4. PICK outcome, marks, failed, c :
          /\ marks = IF outcome = "whole" THEN {} ELSE {l}
          /\ failed \subseteq {l}
          /\ c = IF outcome = "failed" THEN NoCatalog
                 ELSE [from |-> "session", whole |-> outcome = "whole"]
          /\ data' = [data EXCEPT
                          !.attempted = @ \cup {l},
                          !.incomplete = @ \cup marks,
                          !.errors = @ \cup failed,
                          !.catalogs[l] = c]
  <2>1. PICK outcome \in {"failed", "broken", "stopped", "whole"} :
            LET marks == IF outcome = "whole" THEN client.incomplete \ {l}
                         ELSE client.incomplete \cup {l}
                errors == IF outcome \in {"failed", "broken"} THEN client.errors \cup {l}
                          ELSE client.errors \ {l}
            IN  data' = [data EXCEPT
                            !.attempted = @ \cup {l},
                            !.incomplete = @ \cup Captured(marks, l),
                            !.errors = @ \cup Captured(errors, l),
                            !.catalogs[l] = IF outcome = "failed" THEN @
                                ELSE [from |-> "session", whole |-> outcome = "whole"]]
    BY DEF CollectListing, l
  <2> DEFINE marked == IF outcome = "whole" THEN client.incomplete \ {l}
                       ELSE client.incomplete \cup {l}
             errors == IF outcome \in {"failed", "broken"} THEN client.errors \cup {l}
                       ELSE client.errors \ {l}
  <2>3. Captured(marked, l) = (IF outcome = "whole" THEN {} ELSE {l})
        /\ Captured(errors, l) \subseteq {l}
    BY DEF Captured
  <2>4. data.catalogs[l] = NoCatalog
    BY <1>2, <1>3
  <2>5. data' = [data EXCEPT
                    !.attempted = @ \cup {l},
                    !.incomplete = @ \cup Captured(marked, l),
                    !.errors = @ \cup Captured(errors, l),
                    !.catalogs[l] = IF outcome = "failed" THEN NoCatalog
                        ELSE [from |-> "session", whole |-> outcome = "whole"]]
    BY <2>1, <2>4
  <2> HIDE DEF marked, errors
  <2> QED
    BY <2>3, <2>5
<1>6. c \in Catalogs /\ NoCatalog.from = "none"
      /\ (c.from = "none" => c = NoCatalog) /\ c.from # "stateless"
      /\ (c.from = "session" => (c.whole <=> outcome = "whole"))
  BY <1>4 DEF Catalogs, NoCatalog
<1>7. /\ data' \in DataSet
      /\ data'.attempted = data.attempted \cup {l}
      /\ data'.incomplete = data.incomplete \cup marks
      /\ data'.errors = data.errors \cup failed
      /\ data'.catalogs = [data.catalogs EXCEPT ![l] = c]
      /\ data'.recovered = {} /\ data'.partial = data.partial /\ data'.session = data.session
      /\ data'.protocol = data.protocol /\ data'.capabilities = data.capabilities
      /\ data'.declared = data.declared
  BY <1>2, <1>3, <1>4, <1>6 DEF DataSet
<1>8. FullData'
  <2>1. data.session
    BY <1>1, <1>3 DEF FullData
  <2>2. ASSUME NEW k \in Lists
        PROVE  /\ data'.catalogs[k].from = "none" => data'.catalogs[k] = NoCatalog
               /\ data'.catalogs[k].from = "session" =>
                      data'.session /\ (data'.catalogs[k].whole <=> k \notin data'.incomplete)
               /\ data'.catalogs[k].from = "stateless" <=> k \in data'.recovered
    <3>1. CASE k = l
      <4>1. data'.catalogs[k] = c /\ l \notin data.incomplete
        BY <1>2, <1>3, <1>7, <3>1 DEF DataSet
      <4> QED
        BY <1>4, <1>6, <1>7, <2>1, <3>1, <4>1
    <3>2. CASE k # l
      <4>1. data'.catalogs[k] = data.catalogs[k] /\ (k \in data'.incomplete <=> k \in data.incomplete)
        BY <1>3, <1>4, <1>7, <3>2 DEF DataSet
      <4> QED
        BY <1>3, <1>7, <4>1 DEF FullData
    <3> QED
      BY <3>1, <3>2
  <2> QED
    BY <1>3, <1>7, <2>2 DEF FullData
<1>9. Collecting'
  <2>1. ASSUME NEW k \in ToSet(todo')
        PROVE  k \notin data'.attempted /\ data'.catalogs[k] = NoCatalog
    BY <1>2, <1>3, <1>7, <2>1 DEF DataSet
  <2> QED
    BY <1>1, <1>2, <1>3, <1>7, <2>1 DEF Collecting
<1>10. DataInv'
  BY <1>1, <1>3, <1>7, <1>8, <1>9 DEF DataInv
<1>11. data'.incomplete \cup data'.errors \cup data'.recovered \subseteq data'.attempted
  BY <1>3, <1>4, <1>7
<1> QED
  BY <1>1, <1>10, <1>11, CollectedStep

LEMMA ProbesStep == IInv /\ CollectProbes => IInv'
<1> SUFFICES ASSUME IInv, CollectProbes PROVE IInv'
  OBVIOUS
<1>1. PICK p \in Observations : data' = [data EXCEPT !.probes = p]
  BY DEF CollectProbes
<1>2. /\ step = "listing" /\ step' = "recovering"
      /\ UNCHANGED <<run, kind, promoted, outcomeVars>>
  BY DEF CollectProbes
<1>3. kind = "full" /\ data.recovered = {} /\ data \in DataSet /\ FullData
      /\ data.incomplete \cup data.errors \subseteq data.attempted
  BY <1>2 DEF IInv, DataInv, Collecting, NothingCarriedOver
<1>4. p \in ObservationSet
  BY ConstantsAssumption
<1>5. /\ data' \in DataSet
      /\ data'.partial = data.partial /\ data'.session = data.session
      /\ data'.protocol = data.protocol /\ data'.capabilities = data.capabilities
      /\ data'.declared = data.declared /\ data'.catalogs = data.catalogs
      /\ data'.incomplete = data.incomplete /\ data'.recovered = {}
      /\ data'.errors = data.errors /\ data'.attempted = data.attempted
  BY <1>1, <1>3, <1>4 DEF DataSet
<1>6. FullData'
  BY <1>3, <1>5 DEF FullData
<1>7. DataInv'
  BY <1>2, <1>3, <1>5, <1>6 DEF DataInv, Collecting
<1> QED
  BY <1>2, <1>3, <1>5, <1>7, CollectedStep

LEMMA RecoverStep == IInv /\ RecoverTools => IInv'
<1> SUFFICES ASSUME IInv, RecoverTools PROVE IInv'
  OBVIOUS
<1>1. /\ step = "recovering" /\ step' = "collected"
      /\ UNCHANGED <<run, kind, promoted, outcomeVars>>
      /\ \/ data' = data
         \/ Recoverable(data) /\ data' = [data EXCEPT !.errors = @ \cup {"tools"}]
         \/ Recoverable(data) /\ data' = Recovered(data)
  BY DEF RecoverTools
<1>2. kind = "full" /\ data.recovered = {} /\ data \in DataSet /\ FullData
      /\ data.incomplete \cup data.errors \subseteq data.attempted
  BY <1>1 DEF IInv, DataInv, Collecting, NothingCarriedOver
<1> DEFINE Held == /\ data' \in DataSet /\ FullData'
                   /\ data'.incomplete \cup data'.errors \cup data'.recovered
                          \subseteq data'.attempted
<1>3. ASSUME data' = data PROVE Held
  BY <1>2, <1>3 DEF FullData
<1>4. ASSUME Recoverable(data), data' = [data EXCEPT !.errors = @ \cup {"tools"}]
      PROVE  Held
  <2>1. "tools" \in data.attempted
    BY <1>4 DEF Recoverable, Broken
  <2>2. /\ data' \in DataSet
        /\ data'.partial = data.partial /\ data'.session = data.session
        /\ data'.protocol = data.protocol /\ data'.capabilities = data.capabilities
        /\ data'.declared = data.declared /\ data'.catalogs = data.catalogs
        /\ data'.incomplete = data.incomplete /\ data'.recovered = {}
        /\ data'.errors = data.errors \cup {"tools"} /\ data'.attempted = data.attempted
    BY <1>2, <1>4 DEF DataSet, Lists
  <2>3. FullData'
    BY <1>2, <2>2 DEF FullData
  <2> QED
    BY <1>2, <2>1, <2>2, <2>3
<1>5. ASSUME Recoverable(data), data' = Recovered(data) PROVE Held
  <2> DEFINE c == [from |-> "stateless", whole |-> data.probes.whole]
             left == IF data.probes.page = "complete" THEN data.incomplete \ {"tools"}
                     ELSE data.incomplete
  <2>1. "tools" \in data.attempted
    BY <1>5 DEF Recoverable, Broken
  <2>2. data' = [data EXCEPT !.catalogs["tools"] = c, !.recovered = @ \cup {"tools"},
                             !.incomplete = left]
    BY <1>5 DEF Recovered
  <2>3. c \in Catalogs /\ c.from = "stateless"
    BY <1>2 DEF Catalogs, DataSet, ObservationSet
  <2>4. left \subseteq data.incomplete /\ \A l \in data.incomplete : l # "tools" => l \in left
    OBVIOUS
  <2> HIDE DEF c, left
  <2>5. /\ data' \in DataSet
        /\ data'.partial = data.partial /\ data'.session = data.session
        /\ data'.protocol = data.protocol /\ data'.capabilities = data.capabilities
        /\ data'.declared = data.declared
        /\ data'.catalogs = [data.catalogs EXCEPT !["tools"] = c]
        /\ data'.incomplete = left /\ data'.recovered = {"tools"}
        /\ data'.errors = data.errors /\ data'.attempted = data.attempted
    BY <1>2, <2>2, <2>3, <2>4 DEF DataSet, Lists
  <2>6. ASSUME NEW l \in Lists
        PROVE  /\ data'.catalogs[l].from = "none" => data'.catalogs[l] = NoCatalog
               /\ data'.catalogs[l].from = "session" =>
                      data'.session /\ (data'.catalogs[l].whole <=> l \notin data'.incomplete)
               /\ data'.catalogs[l].from = "stateless" <=> l \in data'.recovered
    <3>1. CASE l = "tools"
      BY <1>2, <2>3, <2>5, <3>1 DEF DataSet
    <3>2. CASE l # "tools"
      <4>1. data'.catalogs[l] = data.catalogs[l] /\ (l \in left <=> l \in data.incomplete)
        BY <1>2, <2>4, <2>5, <3>2 DEF DataSet
      <4> QED
        BY <1>2, <2>5, <3>2, <4>1 DEF FullData
    <3> QED
      BY <3>1, <3>2
  <2>7. FullData'
    BY <1>2, <2>5, <2>6 DEF FullData
  <2> QED
    BY <1>2, <2>1, <2>4, <2>5, <2>7
<1>6. Held
  BY <1>1, <1>3, <1>4, <1>5
<1>7. DataInv'
  BY <1>1, <1>2, <1>6 DEF DataInv, Collecting
<1> QED
  BY <1>1, <1>6, <1>7, CollectedStep

----------------------------------------------------------------------------
(* What is judged.                                                         *)
LEMMA SameDataStep ==
    ASSUME DataInv, UNCHANGED <<data, kind>>,
           step' \notin {"initialize", "listing", "recovering"}
    PROVE  DataInv'
<1>1. (FullData => FullData') /\ (ModernData => ModernData') /\ (NothingHeld => NothingHeld')
  BY DEF FullData, ModernData, NothingHeld
<1> QED
  BY <1>1 DEF DataInv, Collecting

(* Judgements stand while what they were passed on stays as it is.         *)
LEMMA SameJudgements ==
    ASSUME JudgedInv, UNCHANGED <<data, kind>>, Verdicts' = Verdicts
    PROVE  JudgedInv'
BY DEF JudgedInv, JudgedOnItsLifecycle, SessionCatalogJudgedWhole, JudgedOn, SourceOf, Collected

LEMMA JudgedAlso ==
    ASSUME JudgedInv, UNCHANGED <<data, kind>>,
           NEW n, OnItsLifecycle(n.rule), OnAWhole(n.rule), Verdicts' = Verdicts \cup {n}
    PROVE  JudgedInv'
<1>1. \A v \in Verdicts' : OnItsLifecycle(v.rule) /\ OnAWhole(v.rule)
  BY JudgedInvIs
<1>2. (\A v \in Verdicts : OnItsLifecycle(v.rule) /\ OnAWhole(v.rule))'
  BY <1>1 DEF OnItsLifecycle, OnAWhole, SourceOf, Collected
<1>3. JudgedOnItsLifecycle'
  BY <1>2 DEF JudgedOnItsLifecycle, OnItsLifecycle
<1>4. SessionCatalogJudgedWhole'
  BY <1>2, ListsAre DEF SessionCatalogJudgedWhole, OnAWhole, JudgedOn
<1> QED
  BY <1>3, <1>4 DEF JudgedInv

LEMMA RuleStep == IInv /\ RunRule => IInv'
<1> SUFFICES ASSUME IInv, RunRule PROVE IInv'
  OBVIOUS
<1> DEFINE r == NextRule
<1>1. /\ step = "rules" /\ UNCHANGED <<run, kind, step, data, promoted>>
      /\ era' = era /\ config' = config
  BY DEF RunRule
<1>2. DataInv'
  BY <1>1, SameDataStep DEF IInv
<1>3. /\ Reports /\ JudgedInv /\ DataInv
      /\ \A v \in Verdicts \cup ToSet(skipped) : v.run = run
      /\ data.incomplete \cup data.errors \cup data.recovered \subseteq data.attempted
  BY DEF IInv, NothingCarriedOver
<1>4. ASSUME NEW reason \in SkipReasons(r), Skip(r, reason) PROVE IInv'
  <2>1. /\ UNCHANGED <<results, readinessResults>>
        /\ skipped' = Append(skipped, [run |-> run, rule |-> r, reason |-> reason])
    BY <1>4 DEF Skip
  <2>2. Reports' /\ Verdicts' = Verdicts /\ \A v \in ToSet(skipped') : v.run = run
    BY <1>3, <2>1, AppendElements DEF Reports, Verdicts
  <2>3. JudgedInv'
    BY <1>3, <2>2, <1>1, SameJudgements
  <2>4. NothingCarriedOver'
    BY <1>1, <1>3, <2>2 DEF NothingCarriedOver
  <2> QED
    BY <1>2, <2>2, <2>3, <2>4 DEF IInv
<1>5. ASSUME "none" \in SkipReasons(r), NEW passed \in BOOLEAN, Judge(r, passed) PROVE IInv'
  <2>1. PICK result : /\ result.run = run /\ result.rule = r
                      /\ \/ readinessResults' = Append(readinessResults, result) /\ UNCHANGED results
                         \/ results' = Append(results, result) /\ UNCHANGED readinessResults
                      /\ UNCHANGED skipped
    BY <1>5 DEF Judge
  <2>2. Reports' /\ Verdicts' = Verdicts \cup {result} /\ ToSet(skipped') = ToSet(skipped)
    <3>1. CASE readinessResults' = Append(readinessResults, result) /\ UNCHANGED results
      BY <1>3, <2>1, <3>1, AppendElements DEF Reports, Verdicts
    <3>2. CASE results' = Append(results, result) /\ UNCHANGED readinessResults
      BY <1>3, <2>1, <3>2, AppendElements DEF Reports, Verdicts
    <3> QED
      BY <2>1, <3>1, <3>2
  <2>3. OnItsLifecycle(r) /\ OnAWhole(r)
    BY <1>3, <1>5, RuleMayBeJudged
  <2>4. JudgedInv'
    BY <1>1, <1>3, <2>1, <2>2, <2>3, JudgedAlso
  <2>5. NothingCarriedOver'
    BY <1>1, <1>3, <2>1, <2>2 DEF NothingCarriedOver
  <2> QED
    BY <1>2, <2>2, <2>4, <2>5 DEF IInv
<1> QED
  BY <1>4, <1>5 DEF RunRule

LEMMA OtherStep ==
    ASSUME IInv, StartRules \/ Finish \/ Abort \/ DeclineModern \/ Rest \/ UNCHANGED vars
    PROVE  IInv'
<1>1. UNCHANGED <<run, kind, data, results, readinessResults, skipped, points>>
  BY DEF StartRules, Finish, Abort, DeclineModern, Rest, vars, outcomeVars
<1>2. \/ step' \in {"rules", "done", "aborted", "declined"}
      \/ UNCHANGED <<step, todo, promoted>>
  BY DEF StartRules, Finish, Abort, DeclineModern, Rest, vars
<1>3. DataInv'
  <2>1. CASE step' \in {"rules", "done", "aborted", "declined"}
    BY <1>1, <2>1, SameDataStep DEF IInv
  <2>2. CASE UNCHANGED <<step, todo, promoted>>
    <3>1. DataInv' = DataInv
      BY <1>1, <2>2 DEF DataInv, FullData, ModernData, NothingHeld, Collecting
    <3> QED
      BY <3>1 DEF IInv
  <2> QED
    BY <1>2, <2>1, <2>2
<1>4. Reports' /\ Verdicts' = Verdicts /\ skipped' = skipped
  BY <1>1 DEF IInv, Reports, Verdicts
<1>5. JudgedInv'
  BY <1>1, <1>4, SameJudgements DEF IInv
<1>6. NothingCarriedOver'
  BY <1>1, <1>2, <1>4 DEF IInv, NothingCarriedOver
<1> QED
  BY <1>3, <1>4, <1>5, <1>6 DEF IInv

----------------------------------------------------------------------------
LEMMA AuditorStep == IInv /\ [Next]_vars => IInv'
BY BeginFullStep, OtherBeginStep, InitResultStep, OmitStep, CollectStep, ProbesStep, RecoverStep,
   RuleStep, OtherStep DEF Next

LEMMA AuditorInvariant == Spec => []IInv
BY AuditorInit, AuditorStep, PTL DEF Spec

(* An auditor that is used again reports the audit it last ran, whatever   *)
(* an earlier one left in it or in its client.                             *)
THEOREM OnlyTheLastAudit == Spec => []NothingCarriedOver
<1>1. IInv => NothingCarriedOver
  BY DEF IInv
<1> QED
  BY <1>1, AuditorInvariant, PTL

(* No verdict compares what was observed on two lifecycles, or applies a   *)
(* rule to a catalog of revisions it excludes.                             *)
THEOREM OneLifecycleEach == Spec => []JudgedOnItsLifecycle
<1>1. IInv => JudgedOnItsLifecycle
  BY DEF IInv, JudgedInv
<1> QED
  BY <1>1, AuditorInvariant, PTL

(* A rule about a whole catalog passes no verdict on a part the session    *)
(* served, however the listing came to stop.                               *)
THEOREM PartsAreNotJudged == Spec => []SessionCatalogJudgedWhole
<1>1. IInv => SessionCatalogJudgedWhole
  BY DEF IInv, JudgedInv
<1> QED
  BY <1>1, AuditorInvariant, PTL

(* Audits are counted, so that the step that begins one is not the one     *)
(* that goes on with it.                                                   *)
LEMMA RunStep ==
    ASSUME [Next]_vars
    PROVE  \/ run' = run
           \/ /\ BeginFull \/ AuditModernOnly \/ AuditPartial \/ AuditPackage
              /\ run' = run + 1
<1>1. CASE BeginFull \/ AuditModernOnly \/ AuditPartial \/ AuditPackage
  <2>1. \E k, next : Begin(k, next)
    BY <1>1 DEF BeginFull, AuditModernOnly, AuditPartial, AuditPackage
  <2> QED
    BY <1>1, <2>1 DEF Begin
<1>2. CASE CollectInitResult \/ OmitListing \/ CollectProbes \/ RecoverTools
  BY <1>2 DEF CollectInitResult, OmitListing, CollectProbes, RecoverTools
<1>3. CASE CollectListing
  BY <1>3 DEF CollectListing
<1>4. CASE DeclineModern \/ StartRules \/ RunRule \/ Finish \/ Abort \/ Rest \/ UNCHANGED vars
  BY <1>4 DEF DeclineModern, StartRules, RunRule, Finish, Abort, Rest, vars
<1> QED
  BY <1>1, <1>2, <1>3, <1>4 DEF Next

LEMMA AuditsCounted == Spec => [](run \in Nat)
<1>1. Init => run \in Nat
  BY DEF Init
<1>2. run \in Nat /\ [Next]_vars => (run \in Nat)'
  BY RunStep
<1> QED
  BY <1>1, <1>2, PTL DEF Spec

(* Only an unfinished listing of the session is replaced by the stateless  *)
(* one, and a listing is collected once.                                   *)
THEOREM WholeStays == Spec => WholeCatalogKept
<1> DEFINE Kept == run' = run /\ data.catalogs["tools"].whole
                   => data'.catalogs["tools"] = data.catalogs["tools"]
<1>1. IInv /\ run \in Nat /\ [Next]_vars => [Kept]_vars
  <2> SUFFICES ASSUME IInv, run \in Nat, Next, run' = run, data.catalogs["tools"].whole
               PROVE  data'.catalogs["tools"] = data.catalogs["tools"]
    OBVIOUS
  <2>1. CASE UNCHANGED data.catalogs
    BY <2>1
  <2>2. CASE CollectInitResult
    BY <2>2 DEF CollectInitResult, IInv, DataInv, DataSet
  <2>3. CASE CollectListing
    <3>1. Head(todo) # "tools"
      <4>1. /\ step = "listing" /\ todo # <<>> /\ todo \in {Listings, <<"resources">>, <<>>}
            /\ \A l \in ToSet(todo) : data.catalogs[l] = NoCatalog
        BY <2>3 DEF CollectListing, IInv, DataInv, Collecting
      <4> QED
        BY <4>1, ListingsAre, ListsAre DEF Lists, NoCatalog
    <3>2. PICK outcome \in {"failed", "broken", "stopped", "whole"} :
              LET l == Head(todo)
                  marks == IF outcome = "whole" THEN client.incomplete \ {l}
                           ELSE client.incomplete \cup {l}
                  errors == IF outcome \in {"failed", "broken"} THEN client.errors \cup {l}
                            ELSE client.errors \ {l}
              IN  data' = [data EXCEPT
                              !.attempted = @ \cup {l},
                              !.incomplete = @ \cup Captured(marks, l),
                              !.errors = @ \cup Captured(errors, l),
                              !.catalogs[l] = IF outcome = "failed" THEN @
                                  ELSE [from |-> "session", whole |-> outcome = "whole"]]
      BY <2>3 DEF CollectListing
    <3> QED
      BY <3>1, <3>2 DEF IInv, DataInv, DataSet, Lists
  <2>4. CASE CollectProbes
    BY <2>4 DEF CollectProbes, IInv, DataInv, DataSet
  <2>5. CASE RecoverTools
    <3>1. kind = "full"
      BY <2>5 DEF RecoverTools, IInv, DataInv, Collecting
    <3>2. data.catalogs["tools"].from = "session"
      BY <2>5, <3>1 DEF RecoverTools, IInv, DataInv, Collecting, FullData, Lists, Catalogs,
                        DataSet, NoCatalog
    <3>3. "tools" \notin data.incomplete
      BY <3>1, <3>2 DEF IInv, DataInv, FullData, Lists
    <3>4. data.catalogs["tools"] # NoCatalog
      BY <3>2 DEF NoCatalog
    <3>5. ~Recoverable(data)
      BY <3>3, <3>4 DEF Recoverable, Broken
    <3> QED
      BY <2>5, <3>5 DEF RecoverTools
  <2>6. CASE BeginFull \/ AuditModernOnly \/ AuditPartial \/ AuditPackage
    <3>1. \E k, next : Begin(k, next)
      BY <2>6 DEF BeginFull, AuditModernOnly, AuditPartial, AuditPackage
    <3> QED
      BY <3>1 DEF Begin
  <2> QED
    BY <2>1, <2>2, <2>3, <2>4, <2>5, <2>6
    DEF Next, OmitListing, StartRules, RunRule, Finish, Abort, DeclineModern, Rest, vars
<1> QED
  BY <1>1, AuditorInvariant, AuditsCounted, PTL DEF Spec, WholeCatalogKept

----------------------------------------------------------------------------
(* Induction over the natural numbers, for a set of them.                  *)
LEMMA SmallestInSet ==
    ASSUME NEW S \in SUBSET Nat, S # {}
    PROVE  Min(S) \in S /\ \A j \in S : Min(S) <= j
<1>1. \E i \in S : \A j \in S : <<j, i>> \notin OpToRel(<, Nat)
  BY NatLessThanWellFounded, WFMin, Zenon
<1>2. ASSUME NEW i \in S, NEW j \in S, j < i PROVE <<j, i>> \in OpToRel(<, Nat)
  <2>1. <<j, i>> \in Nat \X Nat /\ <<j, i>>[1] < <<j, i>>[2]
    BY <1>2
  <2> QED
    BY <2>1, Zenon DEF OpToRel
<1>3. \A i, j \in S : ~(j < i) => i <= j
  OBVIOUS
<1>4. \E i \in S : \A j \in S : i <= j
  BY <1>1, <1>2, <1>3, Zenon
<1> QED
  BY <1>4, Zenon DEF Min

LEMMA NatSetInduction ==
    ASSUME NEW G \in SUBSET Nat, 0 \in G, \A n \in Nat : n \in G => n + 1 \in G
    PROVE  G = Nat
<1> SUFFICES ASSUME Nat \ G # {} PROVE FALSE
  OBVIOUS
<1>1. PICK m \in Nat \ G : \A k \in Nat \ G : m <= k
  BY SmallestInSet
<1>2. m # 0 /\ m - 1 \in Nat
  BY <1>1
<1>3. m - 1 \in G
  BY <1>1, <1>2
<1> QED
  BY <1>2, <1>3

(* The partial sums of a sequence exist, and they are what Total evaluates.*)
IsSum(sum, s, m) == sum[0] = 0 /\ \A n \in 1 .. m : sum[n] = sum[n - 1] + s[n]

LEMMA SumExists ==
    ASSUME NEW s, NEW m \in Nat
    PROVE  \E sum : IsSum(sum, s, m)
<1> DEFINE G == { k \in Nat : \E sum : IsSum(sum, s, k) }
<1>1. 0 \in G
  <2>1. IsSum([n \in 0 .. 0 |-> 0], s, 0)
    BY DEF IsSum
  <2> QED
    BY <2>1
<1>2. ASSUME NEW k \in Nat, k \in G PROVE k + 1 \in G
  <2>1. PICK sum : IsSum(sum, s, k)
    BY <1>2
  <2> DEFINE longer == [n \in 0 .. k + 1 |-> IF n <= k THEN sum[n] ELSE sum[n - 1] + s[n]]
  <2>2. longer[0] = 0
    BY <2>1 DEF IsSum
  <2>3. ASSUME NEW n \in 1 .. k + 1 PROVE longer[n] = longer[n - 1] + s[n]
    <3>1. longer[n - 1] = sum[n - 1]
      OBVIOUS
    <3>2. CASE n <= k
      BY <2>1, <3>1, <3>2 DEF IsSum
    <3>3. CASE n = k + 1
      BY <3>1, <3>3
    <3> QED
      BY <3>2, <3>3
  <2>4. IsSum(longer, s, k + 1)
    BY <2>2, <2>3 DEF IsSum
  <2> QED
    BY <2>4
<1>3. G = Nat
  BY <1>1, <1>2, NatSetInduction
<1> QED
  BY <1>3

LEMMA TotalIsDefined ==
    ASSUME NEW s, Len(s) \in Nat
    PROVE  \E sum : IsSum(sum, s, Len(s)) /\ Total(s) = sum[Len(s)]
<1> DEFINE Body(f) == [n \in 0 .. Len(s) |-> IF n = 0 THEN 0 ELSE f[n - 1] + s[n]]
           chosen == CHOOSE f : f = Body(f)
<1>1. PICK sum : IsSum(sum, s, Len(s))
  BY SumExists
<1> DEFINE f == [n \in 0 .. Len(s) |-> sum[n]]
<1>2. f = Body(f)
  BY <1>1 DEF IsSum
<1>3. chosen = Body(chosen)
  BY <1>2
<1>4. Total(s) = chosen[Len(s)]
  BY DEF Total
<1>5. \A g : g = Body(g) => IsSum(g, s, Len(s))
  <2> SUFFICES ASSUME NEW g, g = Body(g) PROVE IsSum(g, s, Len(s))
    OBVIOUS
  <2>1. \A n \in 0 .. Len(s) : g[n] = Body(g)[n]
    BY Zenon
  <2>2. Body(g)[0] = 0 /\ \A n \in 1 .. Len(s) : Body(g)[n] = g[n - 1] + s[n]
    OBVIOUS
  <2> HIDE DEF Body
  <2> QED
    BY <2>1, <2>2 DEF IsSum
<1> QED
  BY <1>3, <1>4, <1>5, Zenon

LEMMA LenIs ==
    ASSUME NEW n \in Nat, NEW S, NEW s \in [1 .. n -> S]
    PROVE  s \in Seq(S) /\ Len(s) = n
<1>1. s \in Seq(S)
  BY SeqDef
<1>2. 1 .. n = 1 .. Len(s) /\ Len(s) \in Nat
  BY <1>1, LenProperties
<1>3. n \notin 1 .. Len(s) => n = 0
  BY <1>2
<1>4. Len(s) \notin 1 .. n => Len(s) = 0
  BY <1>2
<1> QED
  BY <1>1, <1>2, <1>3, <1>4

(* One number more adds it to the total.                                   *)
LEMMA TotalOfMore ==
    ASSUME NEW n \in Nat, NEW s \in [1 .. n -> Nat], NEW t \in [1 .. n + 1 -> Nat],
           \A i \in 1 .. n : t[i] = s[i]
    PROVE  Total(s) \in Nat /\ Total(t) = Total(s) + t[n + 1]
<1>1. Len(s) = n /\ Len(t) = n + 1
  BY LenIs
<1>2. PICK a : IsSum(a, s, n) /\ Total(s) = a[n]
  BY <1>1, TotalIsDefined
<1>3. PICK b : IsSum(b, t, n + 1) /\ Total(t) = b[n + 1]
  BY <1>1, TotalIsDefined
<1> DEFINE G == { k \in Nat : k <= n => a[k] \in Nat /\ b[k] = a[k] }
<1>4. 0 \in G
  BY <1>2, <1>3 DEF IsSum
<1>5. ASSUME NEW k \in Nat, k \in G PROVE k + 1 \in G
  <2> SUFFICES ASSUME k + 1 <= n PROVE a[k + 1] \in Nat /\ b[k + 1] = a[k + 1]
    OBVIOUS
  <2>1. a[k] \in Nat /\ b[k] = a[k]
    BY <1>5
  <2>2. k + 1 \in 1 .. n /\ k + 1 \in 1 .. n + 1 /\ (k + 1) - 1 = k
    OBVIOUS
  <2>3. a[k + 1] = a[k] + s[k + 1] /\ b[k + 1] = b[k] + t[k + 1]
    BY <1>2, <1>3, <2>2 DEF IsSum
  <2>4. s[k + 1] \in Nat /\ t[k + 1] = s[k + 1]
    BY <2>2
  <2> QED
    BY <2>1, <2>3, <2>4
<1>6. G = Nat
  BY <1>4, <1>5, NatSetInduction
<1>7. a[n] \in Nat /\ b[n] = a[n]
  BY <1>6
<1>8. n + 1 \in 1 .. n + 1 /\ (n + 1) - 1 = n
  OBVIOUS
<1>9. b[n + 1] = b[n] + t[n + 1]
  BY <1>3, <1>8 DEF IsSum
<1> QED
  BY <1>2, <1>3, <1>7, <1>9

LEMMA TotalOfNone ==
    ASSUME NEW s, DOMAIN s = {}
    PROVE  Total([i \in DOMAIN s |-> 0]) = 0
<1> DEFINE none == [i \in DOMAIN s |-> 0]
<1>1. none \in [1 .. 0 -> Nat]
  OBVIOUS
<1>2. Len(none) = 0
  BY <1>1, LenIs
<1>3. PICK sum : IsSum(sum, none, 0) /\ Total(none) = sum[0]
  BY <1>2, TotalIsDefined
<1> QED
  BY <1>3 DEF IsSum

----------------------------------------------------------------------------
(* What is reported adds up: the points are the totals of what is listed,  *)
(* and each rule of the audit that is no longer to be judged has one place.*)
Balanced(verdicts) ==
    /\ Earned(verdicts) \in Nat /\ Possible(verdicts) \in Nat
    /\ Earned(verdicts) <= Possible(verdicts)
    /\ Earned(verdicts) = Possible(verdicts) <=> \A v \in ToSet(verdicts) : v.passed

PointsInv ==
    /\ \A v \in Verdicts : v.weight \in Nat \ {0} /\ v.passed \in BOOLEAN
    /\ Balanced(results) /\ Balanced(readinessResults)
    /\ points.readiness = Earned(readinessResults)
    /\ points.readinessMax = Possible(readinessResults)
    /\ points.score = Earned(results) + (IF promoted THEN points.readiness ELSE 0)
    /\ points.max = Possible(results) + (IF promoted THEN points.readinessMax ELSE 0)
    /\ promoted => kind \in {"full", "modern"}
    /\ kind = "none" => step \in {"idle", "declined"}
    /\ config \in Configs

Places(verdicts, r) == { i \in DOMAIN verdicts : verdicts[i].rule = r }

Nowhere(r) ==
    Places(results, r) = {} /\ Places(readinessResults, r) = {} /\ Places(skipped, r) = {}

One(S) == \E x : S = {x}

OnePlace(r) ==
    \/ /\ One(Places(results, r)) /\ Places(readinessResults, r) = {} /\ Places(skipped, r) = {}
       /\ r.group # "readiness" /\ ~Disabled(r)
    \/ /\ Places(results, r) = {} /\ One(Places(readinessResults, r)) /\ Places(skipped, r) = {}
       /\ r.group = "readiness" /\ ~Disabled(r)
    \/ Places(results, r) = {} /\ Places(readinessResults, r) = {} /\ One(Places(skipped, r))

PlacesInv ==
    step \in {"rules", "done"} =>
        /\ todo \subseteq RulesForTarget
        /\ step = "done" => todo = {}
        /\ \A p \in DOMAIN Rules :
               IF p \in RulesForTarget \ todo THEN OnePlace(Rules[p]) ELSE Nowhere(Rules[p])

LEMMA EmptyBalances == Balanced(<<>>) /\ Earned(<<>>) = 0 /\ Possible(<<>>) = 0
<1>1. DOMAIN <<>> = {}
  OBVIOUS
<1>2. /\ [i \in DOMAIN <<>> |-> <<>>[i].weight] = [i \in DOMAIN <<>> |-> 0]
      /\ [i \in DOMAIN <<>> |-> IF <<>>[i].passed THEN <<>>[i].weight ELSE 0] = [i \in DOMAIN <<>> |-> 0]
  BY <1>1
<1>3. Earned(<<>>) = 0 /\ Possible(<<>>) = 0
  BY <1>1, <1>2, TotalOfNone DEF Earned, Possible
<1> QED
  BY <1>3, NoElements DEF Balanced

LEMMA MoreBalances ==
    ASSUME NEW s, s \in Seq(ToSet(s)), NEW v, v.weight \in Nat \ {0}, v.passed \in BOOLEAN,
           \A w \in ToSet(s) : w.weight \in Nat \ {0} /\ w.passed \in BOOLEAN,
           Balanced(s)
    PROVE  /\ Balanced(Append(s, v))
           /\ Possible(Append(s, v)) = Possible(s) + v.weight
           /\ Earned(Append(s, v)) = Earned(s) + (IF v.passed THEN v.weight ELSE 0)
<1> DEFINE t == Append(s, v)
           n == Len(s)
<1>1. /\ n \in Nat /\ DOMAIN s = 1 .. n /\ DOMAIN t = 1 .. n + 1
      /\ (\A i \in 1 .. n : t[i] = s[i]) /\ t[n + 1] = v
  <2>1. s \in Seq(ToSet(s) \cup {v}) /\ v \in ToSet(s) \cup {v}
    BY SeqMonotonic
  <2>2. t \in Seq(ToSet(s) \cup {v})
    BY <2>1, AppendProperties
  <2> QED
    BY <2>1, <2>2, AppendProperties, LenProperties
<1>2. \A i \in 1 .. n : s[i] \in ToSet(s)
  BY <1>1 DEF ToSet
<1>3. ToSet(t) = ToSet(s) \cup {v}
  BY AppendElements
<1> HIDE DEF t, n
<1>4. Possible(t) = Possible(s) + v.weight /\ Possible(s) \in Nat
  <2> DEFINE a == [i \in DOMAIN s |-> s[i].weight]
             b == [i \in DOMAIN t |-> t[i].weight]
  <2>1. a \in [1 .. n -> Nat] /\ b \in [1 .. n + 1 -> Nat]
    BY <1>1, <1>2
  <2>2. (\A i \in 1 .. n : b[i] = a[i]) /\ b[n + 1] = v.weight
    BY <1>1
  <2> HIDE DEF a, b
  <2>3. Total(a) \in Nat /\ Total(b) = Total(a) + b[n + 1]
    BY <1>1, <2>1, <2>2, TotalOfMore
  <2> QED
    BY <2>2, <2>3 DEF Possible, a, b
<1>5. Earned(t) = Earned(s) + (IF v.passed THEN v.weight ELSE 0) /\ Earned(s) \in Nat
  <2> DEFINE a == [i \in DOMAIN s |-> IF s[i].passed THEN s[i].weight ELSE 0]
             b == [i \in DOMAIN t |-> IF t[i].passed THEN t[i].weight ELSE 0]
  <2>1. a \in [1 .. n -> Nat] /\ b \in [1 .. n + 1 -> Nat]
    BY <1>1, <1>2
  <2>2. (\A i \in 1 .. n : b[i] = a[i]) /\ b[n + 1] = IF v.passed THEN v.weight ELSE 0
    BY <1>1
  <2> HIDE DEF a, b
  <2>3. Total(a) \in Nat /\ Total(b) = Total(a) + b[n + 1]
    BY <1>1, <2>1, <2>2, TotalOfMore
  <2> QED
    BY <2>2, <2>3 DEF Earned, a, b
<1>6. Balanced(t)
  <2>1. CASE v.passed
    BY <1>3, <1>4, <1>5, <2>1 DEF Balanced
  <2>2. CASE ~v.passed
    <3>1. Earned(t) = Earned(s) /\ Earned(t) < Possible(t)
      BY <1>4, <1>5, <2>2 DEF Balanced
    <3>2. v \in ToSet(t)
      BY <1>3
    <3> QED
      BY <1>4, <1>5, <2>2, <3>1, <3>2 DEF Balanced
  <2> QED
    BY <2>1, <2>2
<1> QED
  BY <1>4, <1>5, <1>6 DEF t

(* Another entry is one more place of its rule.                            *)
LEMMA PlacesOfMore ==
    ASSUME NEW s, s \in Seq(ToSet(s)), NEW v, NEW r
    PROVE  Places(Append(s, v), r) = Places(s, r) \cup (IF v.rule = r THEN {Len(s) + 1} ELSE {})
<1>1. s \in Seq(ToSet(s) \cup {v}) /\ v \in ToSet(s) \cup {v}
  BY SeqMonotonic
<1>2. Append(s, v) \in Seq(ToSet(s) \cup {v})
  BY <1>1, AppendProperties
<1>3. /\ Len(s) \in Nat /\ DOMAIN s = 1 .. Len(s) /\ DOMAIN Append(s, v) = 1 .. Len(s) + 1
      /\ (\A i \in 1 .. Len(s) : Append(s, v)[i] = s[i]) /\ Append(s, v)[Len(s) + 1] = v
  BY <1>1, <1>2, AppendProperties, LenProperties
<1> DEFINE t == Append(s, v)
           n == Len(s)
<1> HIDE DEF t, n
<1>4. 1 .. n + 1 = 1 .. n \cup {n + 1}
  BY <1>3 DEF n
<1> QED
  BY <1>3, <1>4 DEF Places, t, n

LEMMA RulesDiffer ==
    ASSUME NEW p \in DOMAIN Rules, NEW q \in DOMAIN Rules, Rules[p] = Rules[q]
    PROVE  p = q
BY ConstantsAssumption

LEMMA RulesAre == DOMAIN Rules \subseteq Nat /\ RulesForTarget \subseteq DOMAIN Rules
<1>1. DOMAIN Rules = 1 .. Len(Rules) /\ Len(Rules) \in Nat
  BY ConstantsAssumption, LenProperties
<1> QED
  BY <1>1 DEF RulesForTarget

LEMMA WeightCounts ==
    ASSUME config \in Configs, NEW p \in DOMAIN Rules, ~Disabled(Rules[p])
    PROVE  WeightOf(Rules[p]) \in Nat \ {0}
BY ConstantsAssumption DEF Disabled, WeightOf

LEMMA ReportInit == Init => PointsInv /\ PlacesInv
<1> SUFFICES ASSUME Init PROVE PointsInv /\ PlacesInv
  OBVIOUS
<1>1. /\ config \in Configs /\ kind = "none" /\ step = "idle" /\ ~promoted /\ points = NoPoints
      /\ results = <<>> /\ readinessResults = <<>>
  BY DEF Init
<1>2. Verdicts = {}
  BY <1>1, NoElements DEF Verdicts
<1> QED
  BY <1>1, <1>2, EmptyBalances DEF PointsInv, PlacesInv, NoPoints

LEMMA BeginReport ==
    ASSUME PointsInv, NEW k \in {"full", "modern", "partial", "package"},
           NEW next \in {"initialize", "collected"}, Begin(k, next)
    PROVE  PointsInv' /\ PlacesInv'
<1>1. /\ config' = config /\ kind' = k /\ step' = next /\ promoted' = FALSE /\ points' = NoPoints
      /\ results' = <<>> /\ readinessResults' = <<>>
  BY DEF Begin, ResetRunState
<1>2. Verdicts' = {}
  BY <1>1, NoElements DEF Verdicts
<1>3. PointsInv'
  <2>1. points'.score = 0 /\ points'.max = 0 /\ points'.readiness = 0 /\ points'.readinessMax = 0
    BY <1>1 DEF NoPoints
  <2>2. /\ Balanced(results)' /\ Balanced(readinessResults)'
        /\ Earned(results)' = 0 /\ Earned(readinessResults)' = 0
        /\ Possible(results)' = 0 /\ Possible(readinessResults)' = 0
    BY <1>1, EmptyBalances
  <2> QED
    BY <1>1, <1>2, <2>1, <2>2 DEF PointsInv
<1>4. PlacesInv'
  BY <1>1 DEF PlacesInv
<1> QED
  BY <1>3, <1>4

LEMMA SamePoints ==
    ASSUME PointsInv, UNCHANGED <<config, kind, promoted, outcomeVars>>,
           kind = "none" => step' \in {"idle", "declined"}
    PROVE  PointsInv'
BY DEF PointsInv, outcomeVars, Verdicts, Balanced

LEMMA SamePlaces ==
    ASSUME PlacesInv, UNCHANGED <<config, kind, todo, outcomeVars>>, step \in {"rules", "done"}
    PROVE  \A p \in DOMAIN Rules :
               (IF p \in RulesForTarget \ todo THEN OnePlace(Rules[p]) ELSE Nowhere(Rules[p]))'
<1>1. \A r : /\ Places(results, r)' = Places(results, r)
             /\ Places(readinessResults, r)' = Places(readinessResults, r)
             /\ Places(skipped, r)' = Places(skipped, r)
             /\ Disabled(r)' = Disabled(r)
  BY DEF Places, outcomeVars, Disabled
<1>2. \A r : (OnePlace(r) => OnePlace(r)') /\ (Nowhere(r) => Nowhere(r)')
  BY <1>1 DEF OnePlace, Nowhere
<1>3. RulesForTarget' = RulesForTarget /\ todo' = todo
  BY DEF RulesForTarget
<1> QED
  BY <1>2, <1>3 DEF PlacesInv

LEMMA CollectReport ==
    ASSUME IInv, PointsInv, PlacesInv,
           \/ CollectInitResult \/ OmitListing \/ CollectListing \/ CollectProbes \/ RecoverTools
           \/ Abort \/ DeclineModern \/ Finish \/ Rest \/ UNCHANGED vars
    PROVE  PointsInv' /\ PlacesInv'
<1>1. UNCHANGED <<config, kind, promoted, outcomeVars>>
  BY DEF CollectInitResult, OmitListing, CollectListing, CollectProbes, RecoverTools, Abort, DeclineModern,
         Finish, Rest, vars
<1>2. kind = "none" => step' \in {"idle", "declined"}
  BY DEF PointsInv, CollectInitResult, OmitListing, CollectListing, CollectProbes, RecoverTools, Abort,
         DeclineModern, Finish, Rest, vars
<1>3. \/ step' \notin {"rules", "done"}
      \/ UNCHANGED <<step, todo>>
      \/ step = "rules" /\ step' = "done" /\ todo = {} /\ UNCHANGED todo
  BY DEF CollectInitResult, OmitListing, CollectListing, CollectProbes, RecoverTools, Abort, DeclineModern,
         Finish, Rest, vars
<1>4. PlacesInv'
  <2>1. RulesForTarget' = RulesForTarget
    BY <1>1 DEF RulesForTarget
  <2>2. CASE step' \notin {"rules", "done"}
    BY <2>2 DEF PlacesInv
  <2>3. CASE step' \in {"rules", "done"} /\ step \in {"rules", "done"} /\ UNCHANGED todo
             /\ (step' = "done" => todo = {})
    BY <1>1, <2>1, <2>3, SamePlaces DEF PlacesInv
  <2> QED
    BY <1>3, <2>2, <2>3 DEF PlacesInv
<1> QED
  BY <1>1, <1>2, <1>4, SamePoints

LEMMA StartReport ==
    ASSUME IInv, PointsInv, PlacesInv, StartRules
    PROVE  PointsInv' /\ PlacesInv'
<1>1. /\ step = "collected" /\ step' = "rules" /\ todo' = RulesForTarget
      /\ era' = (IF kind = "package" THEN "none" ELSE DetectEra(data.session, data.probes))
      /\ promoted' = Promoted(era')
      /\ UNCHANGED <<config, kind, data, points, results, readinessResults, skipped>>
  BY DEF StartRules, outcomeVars
<1>2. Verdicts = {} /\ skipped = <<>> /\ points = NoPoints /\ ~promoted
  BY <1>1 DEF IInv, NothingCarriedOver
<1>3. results = <<>> /\ readinessResults = <<>>
  <2>1. ToSet(results) = {} /\ ToSet(readinessResults) = {}
    BY <1>2 DEF Verdicts
  <2> QED
    BY <2>1, EmptySeq DEF IInv, Reports
<1>4. promoted' => kind \in {"full", "modern"}
  <2>1. promoted' => era' # "none" /\ ~data.partial
    BY <1>1 DEF Promoted
  <2>2. kind \in {"none", "full", "modern", "partial", "package"} /\ kind # "none"
        /\ (kind = "partial" => data.partial)
    BY <1>1 DEF IInv, DataInv, NothingHeld, PointsInv
  <2> QED
    BY <1>1, <2>1, <2>2
<1>5. PointsInv'
  <2>1. points'.score = 0 /\ points'.max = 0 /\ points'.readiness = 0 /\ points'.readinessMax = 0
    BY <1>1, <1>2 DEF NoPoints
  <2>2. /\ Balanced(results)' /\ Balanced(readinessResults)'
        /\ Earned(results)' = 0 /\ Earned(readinessResults)' = 0
        /\ Possible(results)' = 0 /\ Possible(readinessResults)' = 0
    BY <1>1, <1>3, EmptyBalances
  <2>3. Verdicts' = {} /\ config' \in Configs /\ kind' # "none"
    BY <1>1, <1>2 DEF PointsInv, Verdicts
  <2> QED
    BY <1>1, <1>4, <2>1, <2>2, <2>3 DEF PointsInv
<1>6. PlacesInv'
  <2>1. RulesForTarget' = RulesForTarget
    BY <1>1 DEF RulesForTarget
  <2>2. \A r : Nowhere(r)'
    BY <1>1, <1>2, <1>3 DEF Nowhere, Places
  <2> QED
    BY <1>1, <2>1, <2>2 DEF PlacesInv
<1> QED
  BY <1>5, <1>6

(* The rule that is judged or skipped gets its place; the others keep      *)
(* theirs, or have none still.                                             *)
LEMMA RulePlaces ==
    ASSUME PlacesInv, step = "rules", UNCHANGED <<config, kind, step>>,
           NEW q \in todo, todo' = todo \ {q}, OnePlace(Rules[q])',
           \A r : r # Rules[q] =>
               /\ Places(results, r)' = Places(results, r)
               /\ Places(readinessResults, r)' = Places(readinessResults, r)
               /\ Places(skipped, r)' = Places(skipped, r)
    PROVE  PlacesInv'
<1>1. /\ todo \subseteq RulesForTarget /\ RulesForTarget' = RulesForTarget /\ q \in DOMAIN Rules
      /\ \A p \in DOMAIN Rules :
             IF p \in RulesForTarget \ todo THEN OnePlace(Rules[p]) ELSE Nowhere(Rules[p])
  BY RulesAre DEF PlacesInv, RulesForTarget
<1>2. ASSUME NEW p \in DOMAIN Rules
      PROVE  (IF p \in RulesForTarget \ todo THEN OnePlace(Rules[p]) ELSE Nowhere(Rules[p]))'
  <2>1. CASE p = q
    BY <1>1, <2>1
  <2>2. CASE p # q
    <3>1. Rules[p] # Rules[q]
      BY <1>1, <2>2, RulesDiffer
    <3>2. /\ OnePlace(Rules[p]) => OnePlace(Rules[p])'
          /\ Nowhere(Rules[p]) => Nowhere(Rules[p])'
      BY <3>1 DEF OnePlace, Nowhere, Disabled
    <3> QED
      BY <1>1, <2>2, <3>2
  <2> QED
    BY <2>1, <2>2
<1> QED
  BY <1>1, <1>2 DEF PlacesInv

LEMMA RuleReport ==
    ASSUME IInv, PointsInv, PlacesInv, RunRule
    PROVE  PointsInv' /\ PlacesInv'
<1>1. /\ step = "rules" /\ todo # {} /\ todo' = todo \ {Min(todo)}
      /\ UNCHANGED <<config, kind, step, promoted>>
  BY DEF RunRule
<1>2. PICK q, r : /\ q \in todo /\ q = Min(todo) /\ r = NextRule
                  /\ q \in DOMAIN Rules /\ r = Rules[q] /\ Nowhere(r)
  <2>1. todo \subseteq RulesForTarget
    BY <1>1 DEF PlacesInv
  <2>2. Min(todo) \in todo
    BY <1>1, <2>1, RulesAre, SmallestInSet
  <2> QED
    BY <1>1, <2>1, <2>2, RulesAre DEF PlacesInv, NextRule
<1>3. Reports /\ kind # "none"
  BY <1>1 DEF IInv, PointsInv
<1>4. ASSUME NEW reason \in SkipReasons(r), Skip(r, reason) PROVE PointsInv' /\ PlacesInv'
  <2> DEFINE skip == [run |-> run, rule |-> r, reason |-> reason]
  <2>1. UNCHANGED <<points, results, readinessResults>> /\ skipped' = Append(skipped, skip) /\ skip.rule = r
    BY <1>4 DEF Skip
  <2> HIDE DEF skip
  <2>2. PointsInv'
    BY <1>1, <1>3, <2>1 DEF PointsInv, Verdicts, Balanced
  <2>3. \A x : /\ Places(results, x)' = Places(results, x)
               /\ Places(readinessResults, x)' = Places(readinessResults, x)
               /\ Places(skipped, x)' = Places(skipped, x) \cup (IF r = x THEN {Len(skipped) + 1} ELSE {})
    <3> TAKE x
    <3>1. Places(Append(skipped, skip), x) =
              Places(skipped, x) \cup (IF skip.rule = x THEN {Len(skipped) + 1} ELSE {})
      BY <1>3, PlacesOfMore DEF Reports
    <3> QED
      BY <2>1, <3>1 DEF Places
  <2>4. OnePlace(r)'
    BY <1>2, <2>3 DEF OnePlace, Nowhere, One
  <2>5. PlacesInv'
    <3>1. \A x : x # Rules[q] =>
              /\ Places(results, x)' = Places(results, x)
              /\ Places(readinessResults, x)' = Places(readinessResults, x)
              /\ Places(skipped, x)' = Places(skipped, x)
      BY <1>2, <2>3
    <3>2. OnePlace(Rules[q])'
      BY <1>2, <2>4
    <3> QED
      BY <1>1, <1>2, <3>1, <3>2, RulePlaces
  <2> QED
    BY <2>2, <2>5
<1>5. ASSUME "none" \in SkipReasons(r), NEW passed \in BOOLEAN, Judge(r, passed)
      PROVE  PointsInv' /\ PlacesInv'
  <2> DEFINE v == [run |-> run, rule |-> r, passed |-> passed, weight |-> WeightOf(r)]
             w == WeightOf(r)
             won == IF passed THEN w ELSE 0
  <2>1. ~Disabled(r)
    BY <1>5 DEF SkipReasons
  <2>2. w \in Nat \ {0}
    BY <1>2, <2>1, WeightCounts DEF PointsInv
  <2>3. v.rule = r /\ v.passed = passed /\ v.weight = w
    OBVIOUS
  <2>4. /\ points' = Scored(points, r, passed) /\ UNCHANGED skipped
        /\ IF r.group = "readiness"
           THEN readinessResults' = Append(readinessResults, v) /\ UNCHANGED results
           ELSE results' = Append(results, v) /\ UNCHANGED readinessResults
    BY <1>5 DEF Judge
  <2>5. LET readiness == r.group = "readiness"
            counted == ~readiness \/ promoted
        IN  /\ points'.score = points.score + (IF counted THEN won ELSE 0)
            /\ points'.max = points.max + (IF counted THEN w ELSE 0)
            /\ points'.readiness = points.readiness + (IF readiness THEN won ELSE 0)
            /\ points'.readinessMax = points.readinessMax + (IF readiness THEN w ELSE 0)
    BY <2>4 DEF Scored
  <2> HIDE DEF v, w
  <2>6. CASE r.group = "readiness"
    <3>1. readinessResults' = Append(readinessResults, v) /\ results' = results
      BY <2>4, <2>6
    <3>2. /\ Balanced(readinessResults)'
          /\ Possible(readinessResults)' = Possible(readinessResults) + w
          /\ Earned(readinessResults)' = Earned(readinessResults) + won
      <4>1. \A x \in ToSet(readinessResults) : x.weight \in Nat \ {0} /\ x.passed \in BOOLEAN
        BY DEF PointsInv, Verdicts
      <4>2. /\ Balanced(Append(readinessResults, v))
            /\ Possible(Append(readinessResults, v)) = Possible(readinessResults) + v.weight
            /\ Earned(Append(readinessResults, v)) =
                   Earned(readinessResults) + (IF v.passed THEN v.weight ELSE 0)
        BY <1>3, <2>2, <2>3, <4>1, MoreBalances DEF Reports, PointsInv
      <4> QED
        BY <2>3, <3>1, <4>2 DEF Balanced
    <3>3. /\ Balanced(results)' /\ Earned(results)' = Earned(results)
          /\ Possible(results)' = Possible(results)
      BY <3>1 DEF PointsInv, Balanced
    <3>4. \A x \in Verdicts' : x.weight \in Nat \ {0} /\ x.passed \in BOOLEAN
      <4>1. Verdicts' = Verdicts \cup {v}
        BY <1>3, <3>1, AppendElements DEF Verdicts, Reports
      <4> QED
        BY <2>2, <2>3, <4>1 DEF PointsInv
    <3>5. PointsInv'
      BY <1>1, <1>3, <2>2, <2>5, <2>6, <3>2, <3>3, <3>4 DEF PointsInv, Balanced
    <3>6. \A x : /\ Places(results, x)' = Places(results, x)
                 /\ Places(readinessResults, x)' = Places(readinessResults, x) \cup
                        (IF r = x THEN {Len(readinessResults) + 1} ELSE {})
                 /\ Places(skipped, x)' = Places(skipped, x)
      <4> TAKE x
      <4>1. Places(Append(readinessResults, v), x) =
                Places(readinessResults, x) \cup (IF v.rule = x THEN {Len(readinessResults) + 1} ELSE {})
        BY <1>3, PlacesOfMore DEF Reports
      <4> QED
        BY <2>3, <2>4, <3>1, <4>1 DEF Places
    <3>7. OnePlace(r)'
      <4>1. ~Disabled(r)'
        BY <1>1, <2>1 DEF Disabled
      <4> QED
        BY <1>2, <2>6, <3>6, <4>1 DEF OnePlace, Nowhere, One
    <3>8. PlacesInv'
      <4>1. \A x : x # Rules[q] =>
                /\ Places(results, x)' = Places(results, x)
                /\ Places(readinessResults, x)' = Places(readinessResults, x)
                /\ Places(skipped, x)' = Places(skipped, x)
        BY <1>2, <3>6
      <4>2. OnePlace(Rules[q])'
        BY <1>2, <3>7
      <4> QED
        BY <1>1, <1>2, <4>1, <4>2, RulePlaces
    <3> QED
      BY <3>5, <3>8
  <2>7. CASE r.group # "readiness"
    <3>1. results' = Append(results, v) /\ readinessResults' = readinessResults
      BY <2>4, <2>7
    <3>2. /\ Balanced(results)'
          /\ Possible(results)' = Possible(results) + w
          /\ Earned(results)' = Earned(results) + won
      <4>1. \A x \in ToSet(results) : x.weight \in Nat \ {0} /\ x.passed \in BOOLEAN
        BY DEF PointsInv, Verdicts
      <4>2. /\ Balanced(Append(results, v))
            /\ Possible(Append(results, v)) = Possible(results) + v.weight
            /\ Earned(Append(results, v)) = Earned(results) + (IF v.passed THEN v.weight ELSE 0)
        BY <1>3, <2>2, <2>3, <4>1, MoreBalances DEF Reports, PointsInv
      <4> QED
        BY <2>3, <3>1, <4>2 DEF Balanced
    <3>3. /\ Balanced(readinessResults)'
          /\ Earned(readinessResults)' = Earned(readinessResults)
          /\ Possible(readinessResults)' = Possible(readinessResults)
      BY <3>1 DEF PointsInv, Balanced
    <3>4. \A x \in Verdicts' : x.weight \in Nat \ {0} /\ x.passed \in BOOLEAN
      <4>1. Verdicts' = Verdicts \cup {v}
        BY <1>3, <3>1, AppendElements DEF Verdicts, Reports
      <4> QED
        BY <2>2, <2>3, <4>1 DEF PointsInv
    <3>5. PointsInv'
      BY <1>1, <1>3, <2>2, <2>5, <2>7, <3>2, <3>3, <3>4 DEF PointsInv, Balanced
    <3>6. \A x : /\ Places(results, x)' =
                        Places(results, x) \cup (IF r = x THEN {Len(results) + 1} ELSE {})
                 /\ Places(readinessResults, x)' = Places(readinessResults, x)
                 /\ Places(skipped, x)' = Places(skipped, x)
      <4> TAKE x
      <4>1. Places(Append(results, v), x) =
                Places(results, x) \cup (IF v.rule = x THEN {Len(results) + 1} ELSE {})
        BY <1>3, PlacesOfMore DEF Reports
      <4> QED
        BY <2>3, <2>4, <3>1, <4>1 DEF Places
    <3>7. OnePlace(r)'
      <4>1. ~Disabled(r)'
        BY <1>1, <2>1 DEF Disabled
      <4> QED
        BY <1>2, <2>7, <3>6, <4>1 DEF OnePlace, Nowhere, One
    <3>8. PlacesInv'
      <4>1. \A x : x # Rules[q] =>
                /\ Places(results, x)' = Places(results, x)
                /\ Places(readinessResults, x)' = Places(readinessResults, x)
                /\ Places(skipped, x)' = Places(skipped, x)
        BY <1>2, <3>6
      <4>2. OnePlace(Rules[q])'
        BY <1>2, <3>7
      <4> QED
        BY <1>1, <1>2, <4>1, <4>2, RulePlaces
    <3> QED
      BY <3>5, <3>8
  <2> QED
    BY <2>6, <2>7
<1>6. PICK reason \in SkipReasons(r) :
          IF reason = "none" THEN \E passed \in BOOLEAN : Judge(r, passed) ELSE Skip(r, reason)
  BY <1>2 DEF RunRule
<1> QED
  BY <1>4, <1>5, <1>6

LEMMA ReportStep ==
    ASSUME IInv, PointsInv, PlacesInv, [Next]_vars
    PROVE  PointsInv' /\ PlacesInv'
<1>1. CASE BeginFull \/ AuditModernOnly \/ AuditPartial \/ AuditPackage
  <2>1. \E k \in {"full", "modern", "partial", "package"}, next \in {"initialize", "collected"} :
            Begin(k, next)
    BY <1>1 DEF BeginFull, AuditModernOnly, AuditPartial, AuditPackage
  <2> QED
    BY <2>1, BeginReport
<1> QED
  BY <1>1, CollectReport, StartReport, RuleReport DEF Next

(* What adds up in this way is what ReportAddsUp asks for.                 *)
LEMMA PointsAddUp == PointsInv => ScoreAddsUp
<1> SUFFICES ASSUME PointsInv PROVE ScoreAddsUp
  OBVIOUS
<1>1. ASSUME NEW s, \A v \in ToSet(s) : v \in Verdicts
      PROVE  Failing(s, 1) = {} <=> \A v \in ToSet(s) : v.passed
  <2>1. \A v \in ToSet(s) : v.weight >= 1 /\ v.passed \in BOOLEAN
    BY <1>1 DEF PointsInv
  <2> QED
    BY <2>1 DEF Failing
<1>2. /\ Failing(results, 1) = {} <=> Earned(results) = Possible(results)
      /\ Failing(readinessResults, 1) = {} <=> Earned(readinessResults) = Possible(readinessResults)
  BY <1>1 DEF PointsInv, Balanced, Verdicts
<1>3. GateFailures(1) = {} <=> points.score = points.max
  BY <1>2 DEF GateFailures, PointsInv, Balanced
<1> QED
  BY <1>3 DEF PointsInv, ScoreAddsUp

LEMMA PlacesAccount == PlacesInv => AccountedOnce
<1> SUFFICES ASSUME PlacesInv, step = "done", NEW r \in ToSet(Rules)
             PROVE  LET about(verdicts) == Cardinality({ i \in DOMAIN verdicts : verdicts[i].rule = r })
                        own == IF r.group = "readiness" THEN readinessResults ELSE results
                    IN  /\ about(results) + about(readinessResults) + about(skipped) =
                               IF (r.group = "packaging") = (kind = "package") THEN 1 ELSE 0
                        /\ about(own) + about(skipped) =
                               about(results) + about(readinessResults) + about(skipped)
                        /\ Disabled(r) => about(own) = 0
  BY DEF AccountedOnce
<1>1. PICK p \in DOMAIN Rules : r = Rules[p]
  BY DEF ToSet
<1>2. IF (r.group = "packaging") = (kind = "package") THEN OnePlace(r) ELSE Nowhere(r)
  BY <1>1 DEF PlacesInv, RulesForTarget
<1>3. Cardinality({}) = 0 /\ \A S : One(S) => Cardinality(S) = 1
  BY FS_EmptySet, FS_Singleton DEF One
<1> DEFINE a == Cardinality(Places(results, r))
           b == Cardinality(Places(readinessResults, r))
           c == Cardinality(Places(skipped, r))
           own == IF r.group = "readiness" THEN b ELSE a
<1>4. /\ a + b + c = IF (r.group = "packaging") = (kind = "package") THEN 1 ELSE 0
      /\ own + c = a + b + c
      /\ Disabled(r) => own = 0
  BY <1>2, <1>3 DEF OnePlace, Nowhere
<1> QED
  BY <1>4 DEF Places

(* Every rule of a finished audit has one place in its report, and the     *)
(* points are those of the results it lists, promoted or not, so that a    *)
(* gate on failed results trips exactly where points were lost.            *)
THEOREM ReportIsTrue == Spec => []ReportAddsUp
<1>1. Init => PointsInv /\ PlacesInv
  BY ReportInit
<1>2. IInv /\ PointsInv /\ PlacesInv /\ [Next]_vars => PointsInv' /\ PlacesInv'
  BY ReportStep
<1>3. PointsInv /\ PlacesInv => ReportAddsUp
  BY PointsAddUp, PlacesAccount DEF ReportAddsUp
<1> QED
  BY <1>1, <1>2, <1>3, AuditorInvariant, PTL DEF Spec

==============================================================================
