--------------------------- MODULE ListingProofs ---------------------------
(***************************************************************************)
(* What Listing guarantees for every set of listings and cursors, every    *)
(* page bound, every budget and every number of calls.                     *)
(***************************************************************************)
EXTENDS Listing, TLAPS

Distinct(s) == \A i, j \in 1 .. Len(s) : s[i] = s[j] => i = j

(* Where the current call stands in the catalogue: what it has collected   *)
(* is a walk without repetition, the cursor it is about to follow is the   *)
(* last page's successor, and seenCursors holds the cursors it followed.   *)
CurrentWalk ==
    IF current = NoListing
    THEN items = <<>> /\ cursor = NoCursor /\ seenCursors = {}
    ELSE /\ IsWalk(items, catalogue[current])
         /\ Distinct(items)
         /\ listingErrors[current] = NoError
         /\ \A i \in 1 .. Len(items) : items[i] # cursor
         /\ Len(items) = 0 => cursor = NoCursor /\ seenCursors = {}
         /\ Len(items) > 0 =>
                /\ cursor = catalogue[current][items[Len(items)]]
                /\ cursor # NoCursor
                /\ cursor \in seenCursors
                /\ \A i \in 2 .. Len(items) : items[i] \in seenCursors

(* What the finished calls handed over.                                    *)
ListResult(l) ==
    result[l].kind = "list" =>
        /\ Len(result[l].pages) > 0
        /\ IsWalk(result[l].pages, catalogue[l])
        /\ l \notin incompleteListings => IsWhole(result[l].pages, catalogue[l])

FinishedCalls == \A l \in Listings \ {current} : ListResult(l)

(* Nothing is recorded before the session opens.                           *)
BeforeSession ==
    ~session => /\ current = NoListing
                /\ incompleteListings = {}
                /\ listingErrors = [l \in Listings |-> NoError]

ResultsDistinct ==
    \A l \in Listings : \A i, j \in 1 .. Len(result[l].pages) :
        result[l].pages[i] = result[l].pages[j] => i = j

IInv ==
    /\ TypeOK
    /\ BeforeSession
    /\ CurrentWalk
    /\ FinishedCalls
    /\ ErrorAgreesWithResult
    /\ ResultsDistinct

----------------------------------------------------------------------------
(* Extending a walk by the successor of its last page gives a walk, and it *)
(* stays free of repetition when the successor is not in it.               *)
LEMMA WalkExtends ==
    ASSUME NEW g \in CatalogueGraphs, NEW s \in Seq(PageIds), NEW c \in PageIds,
           IsWalk(s, g),
           Len(s) = 0 => c = NoCursor,
           Len(s) > 0 => c = g[s[Len(s)]] /\ c # NoCursor
    PROVE  /\ Append(s, c) \in Seq(PageIds)
           /\ Len(Append(s, c)) = Len(s) + 1
           /\ Append(s, c)[Len(s) + 1] = c
           /\ \A i \in 1 .. Len(s) : Append(s, c)[i] = s[i]
           /\ IsWalk(Append(s, c), g)
  BY DEF IsWalk

LEMMA DistinctExtends ==
    ASSUME NEW s \in Seq(PageIds), NEW c \in PageIds,
           Distinct(s), \A i \in 1 .. Len(s) : s[i] # c
    PROVE  Distinct(Append(s, c))
  BY DEF Distinct

LEMMA InitIInv == Init => IInv
<1> SUFFICES ASSUME Init PROVE IInv
  OBVIOUS
<1>1. TypeOK
  <2>1. catalogue \in [Listings -> CatalogueGraphs]
    BY ServedAssumption DEF Init
  <2>2. items \in Seq(PageIds) /\ Len(items) < MaxPages
    BY BoundAssumption DEF Init
  <2>3. result \in [Listings -> Results]
    BY DEF Init, Results
  <2>4. remaining \in 0 .. Budget /\ calls \in 0 .. MaxCalls
    BY BoundAssumption DEF Init
  <2> QED
    BY <2>1, <2>2, <2>3, <2>4 DEF Init, TypeOK, PageIds
<1>2. CurrentWalk /\ BeforeSession
  BY DEF Init, CurrentWalk, BeforeSession
<1>3. FinishedCalls
  BY DEF Init, FinishedCalls, ListResult, NotListed
<1>4. ErrorAgreesWithResult
  BY DEF Init, ErrorAgreesWithResult, NotListed
<1>5. ResultsDistinct
  BY DEF Init, ResultsDistinct, NotListed
<1> QED
  BY <1>1, <1>2, <1>3, <1>4, <1>5 DEF IInv

(* A call that returns r keeps the invariant if r is sound for it.         *)
LEMMA ReturnKeepsIInv ==
    ASSUME IInv, current # NoListing, NEW r \in Results, Return(r),
           r.kind = "list" =>
               /\ Len(r.pages) > 0
               /\ IsWalk(r.pages, catalogue[current])
               /\ Distinct(r.pages)
               /\ current \in incompleteListings' \/ IsWhole(r.pages, catalogue[current]),
           r.kind \in {"none", "list"},
           r.kind = "none" => r.pages = <<>>,
           \/ incompleteListings' = incompleteListings
           \/ incompleteListings' = incompleteListings \cup {current},
           \/ /\ listingErrors' = listingErrors
              /\ r.kind = "list"
           \/ \E e \in Errors :
                  /\ listingErrors' = [listingErrors EXCEPT ![current] = e]
                  /\ current \in incompleteListings'
                  /\ e.page_index = Len(r.pages)
                  /\ r.kind = IF e.page_index = 0 THEN "none" ELSE "list"
    PROVE  IInv'
<1> USE DEF IInv
<1>1. TypeOK'
  BY BoundAssumption DEF TypeOK, Return, PageIds
<1>2. CurrentWalk' /\ BeforeSession'
  BY DEF Return, CurrentWalk, BeforeSession
<1>3. /\ current' = NoListing
      /\ current \in Listings
      /\ catalogue' = catalogue
      /\ result'[current] = r
      /\ \A l \in Listings \ {current} : result'[l] = result[l]
      /\ \A l \in Listings \ {current} :
             l \in incompleteListings' <=> l \in incompleteListings
      /\ \A l \in Listings \ {current} : listingErrors'[l] = listingErrors[l]
  BY DEF Return, TypeOK
<1>4. FinishedCalls'
  <2> SUFFICES ASSUME NEW l \in Listings PROVE ListResult(l)'
    BY DEF FinishedCalls
  <2>1. CASE l = current
    BY <2>1, <1>3 DEF ListResult
  <2>2. CASE l # current
    BY <2>2, <1>3 DEF ListResult, FinishedCalls
  <2> QED
    BY <2>1, <2>2
<1>5. ErrorAgreesWithResult'
  <2> SUFFICES ASSUME NEW l \in Listings
               PROVE  /\ listingErrors'[l] # NoError =>
                             /\ l \in incompleteListings'
                             /\ listingErrors'[l].page_index = Len(result'[l].pages)
                             /\ result'[l].kind =
                                    IF listingErrors'[l].page_index = 0
                                    THEN "none" ELSE "list"
                      /\ (result'[l].kind = "none" /\ l \in incompleteListings')
                             => listingErrors'[l] # NoError
    BY DEF ErrorAgreesWithResult
  <2>1. CASE l = current
    <3>1. listingErrors[current] = NoError
      BY DEF CurrentWalk
    <3>2. CASE listingErrors' = listingErrors /\ r.kind = "list"
      BY <2>1, <3>1, <3>2, <1>3
    <3>3. ASSUME NEW e \in Errors,
                 listingErrors' = [listingErrors EXCEPT ![current] = e],
                 current \in incompleteListings',
                 e.page_index = Len(r.pages),
                 r.kind = IF e.page_index = 0 THEN "none" ELSE "list"
          PROVE  /\ listingErrors'[current] = e
                 /\ e # NoError
      BY <3>3, <1>3 DEF TypeOK, Errors, NoError
    <3> QED
      BY <2>1, <3>2, <3>3, <1>3
  <2>2. CASE l # current
    BY <2>2, <1>3 DEF ErrorAgreesWithResult
  <2> QED
    BY <2>1, <2>2
<1>6. ResultsDistinct'
  <2> SUFFICES ASSUME NEW l \in Listings PROVE Distinct(result'[l].pages)
    BY DEF ResultsDistinct, Distinct
  <2>1. CASE l = current
    BY <2>1, <1>3 DEF Distinct
  <2>2. CASE l # current
    BY <2>2, <1>3 DEF ResultsDistinct, Distinct
  <2> QED
    BY <2>1, <2>2
<1> QED
  BY <1>1, <1>2, <1>4, <1>5, <1>6

----------------------------------------------------------------------------
(* The actions, one lemma each.                                            *)
LEMMA OpenSessionIInv == IInv /\ OpenSession => IInv'
<1> SUFFICES ASSUME IInv, OpenSession PROVE IInv'
  OBVIOUS
<1> USE DEF IInv, OpenSession
<1>1. TypeOK'
  BY DEF TypeOK
<1>2. CurrentWalk' /\ BeforeSession'
  BY DEF CurrentWalk, BeforeSession
<1>3. FinishedCalls'
  BY DEF FinishedCalls, ListResult
<1>4. ErrorAgreesWithResult' /\ ResultsDistinct'
  BY DEF ErrorAgreesWithResult, ResultsDistinct
<1> QED
  BY <1>1, <1>2, <1>3, <1>4

LEMMA ListWithoutSessionIInv ==
    ASSUME NEW l \in Listings, IInv, ListWithoutSession(l) PROVE IInv'
<1> USE DEF IInv, ListWithoutSession
<1>1. TypeOK'
  BY BoundAssumption DEF TypeOK, Results
<1>2. CurrentWalk' /\ BeforeSession'
  BY DEF CurrentWalk, BeforeSession
<1>3. FinishedCalls'
  BY DEF FinishedCalls, ListResult, TypeOK, None
<1>4. ErrorAgreesWithResult'
  BY DEF ErrorAgreesWithResult, BeforeSession, TypeOK, None
<1>5. ResultsDistinct'
  BY DEF ResultsDistinct, TypeOK, None
<1> QED
  BY <1>1, <1>2, <1>3, <1>4, <1>5

LEMMA BeginListingIInv ==
    ASSUME NEW l \in Listings, IInv, BeginListing(l) PROVE IInv'
<1> USE DEF IInv, BeginListing, ForgetEarlierCall
<1> PICK g \in Served : catalogue' = [catalogue EXCEPT ![l] = g]
  OBVIOUS
<1>1. TypeOK'
  BY BoundAssumption, ServedAssumption, ListingAssumption DEF TypeOK
<1>2. CurrentWalk'
  BY ListingAssumption DEF CurrentWalk, IsWalk, Distinct, TypeOK
<1>3. \A k \in Listings \ {l} :
          /\ catalogue'[k] = catalogue[k]
          /\ k \in incompleteListings' <=> k \in incompleteListings
          /\ listingErrors'[k] = listingErrors[k]
  BY DEF TypeOK
<1>4. FinishedCalls'
  BY <1>3, ListingAssumption DEF FinishedCalls, ListResult
<1>5. ErrorAgreesWithResult'
  BY <1>3, ListingAssumption DEF ErrorAgreesWithResult
<1>6. ResultsDistinct' /\ BeforeSession'
  BY DEF ResultsDistinct, BeforeSession
<1> QED
  BY <1>1, <1>2, <1>4, <1>5, <1>6

LEMMA TickIInv == IInv /\ Tick => IInv'
<1> SUFFICES ASSUME IInv, Tick PROVE IInv'
  OBVIOUS
<1> USE DEF IInv, Tick
<1>1. TypeOK'
  BY BoundAssumption DEF TypeOK
<1>2. CurrentWalk' /\ BeforeSession'
  BY DEF CurrentWalk, BeforeSession
<1>3. FinishedCalls'
  BY DEF FinishedCalls, ListResult
<1>4. ErrorAgreesWithResult' /\ ResultsDistinct'
  BY DEF ErrorAgreesWithResult, ResultsDistinct
<1> QED
  BY <1>1, <1>2, <1>3, <1>4

LEMMA FailureIInv ==
    ASSUME IInv, current # NoListing, NEW failure \in Failures \cup {"budget"},
           RecordFailure(failure)
    PROVE  IInv'
<1> DEFINE r == IF Len(items) = 0 THEN None ELSE Pages(items)
           e == [outcome |-> Outcome(failure), page_index |-> Len(items)]
<1> USE DEF IInv
<1>1. items \in Seq(PageIds) /\ Len(items) \in 0 .. MaxPages - 1
  BY BoundAssumption DEF TypeOK
<1>2. r \in Results
  BY <1>1 DEF Results, Pages
<1>3. e \in Errors
  BY <1>1 DEF Errors, Outcome
<1>4. Return(r)
  BY DEF RecordFailure
<1>5. /\ incompleteListings' = incompleteListings \cup {current}
      /\ listingErrors' = [listingErrors EXCEPT ![current] = e]
  BY DEF RecordFailure, MarkIncomplete
<1>6. r.kind = "list" =>
          /\ Len(r.pages) > 0
          /\ IsWalk(r.pages, catalogue[current])
          /\ Distinct(r.pages)
  BY <1>1 DEF CurrentWalk, Pages, None
<1>7. /\ r.kind \in {"none", "list"}
      /\ r.kind = "none" => r.pages = <<>>
      /\ e.page_index = Len(r.pages)
      /\ r.kind = IF e.page_index = 0 THEN "none" ELSE "list"
  BY <1>1 DEF Pages, None
<1> HIDE DEF r, e
<1> QED
  BY <1>2, <1>3, <1>4, <1>5, <1>6, <1>7, ReturnKeepsIInv

LEMMA PageArrivesIInv == IInv /\ PageArrives => IInv'
<1> SUFFICES ASSUME IInv, PageArrives PROVE IInv'
  OBVIOUS
<1> DEFINE collected == Append(items, cursor)
           nextCursor == catalogue[current][cursor]
           g == catalogue[current]
<1> USE DEF IInv
<1>1. /\ current \in Listings /\ current # NoListing
      /\ items \in Seq(PageIds) /\ Len(items) \in 0 .. MaxPages - 1
      /\ cursor \in PageIds
      /\ g \in CatalogueGraphs
      /\ nextCursor \in PageIds
  BY BoundAssumption DEF PageArrives, TypeOK, CatalogueGraphs
<1>2. /\ IsWalk(items, g)
      /\ Len(items) = 0 => cursor = NoCursor
      /\ Len(items) > 0 => cursor = g[items[Len(items)]] /\ cursor # NoCursor
      /\ Distinct(items)
      /\ \A i \in 1 .. Len(items) : items[i] # cursor
  BY <1>1 DEF CurrentWalk
<1>3. /\ collected \in Seq(PageIds)
      /\ Len(collected) = Len(items) + 1
      /\ collected[Len(items) + 1] = cursor
      /\ \A i \in 1 .. Len(items) : collected[i] = items[i]
      /\ IsWalk(collected, g)
  BY <1>1, <1>2, WalkExtends
<1>4. Distinct(collected)
  BY <1>1, <1>2, DistinctExtends
<1>5. Pages(collected) \in Results
  BY <1>3 DEF Pages, Results
<1> HIDE DEF collected, nextCursor, g
<1>6. CASE StopComplete(collected, nextCursor)
  <2>1. IsWhole(collected, g)
    BY <1>1, <1>3, <1>6 DEF IsWhole, StopComplete, nextCursor, g
  <2> QED
    BY <1>1, <1>3, <1>4, <1>5, <1>6, <2>1, ReturnKeepsIInv
    DEF StopComplete, Pages, g
<1>7. CASE StopRepeated(collected, nextCursor)
  BY <1>1, <1>3, <1>4, <1>5, <1>7, ReturnKeepsIInv
  DEF StopRepeated, MarkIncomplete, Pages, g
<1>8. CASE StopAtBound(collected, nextCursor)
  BY <1>1, <1>3, <1>4, <1>5, <1>8, ReturnKeepsIInv
  DEF StopAtBound, MarkIncomplete, Pages, g
<1>9. CASE RequestNext(collected, nextCursor)
  <2> USE <1>9 DEF RequestNext, FreshCursor
  <2>1. TypeOK'
    BY <1>1, <1>3 DEF TypeOK, PageIds
  <2>2. /\ \A i \in 1 .. Len(collected) : collected[i] # nextCursor
        /\ \A i \in 2 .. Len(collected) : collected[i] \in seenCursors
    <3>1. Len(items) = 0 => seenCursors = {} /\ cursor = NoCursor
      BY <1>1 DEF CurrentWalk
    <3>2. Len(items) > 0 =>
              /\ cursor \in seenCursors
              /\ \A i \in 2 .. Len(items) : items[i] \in seenCursors
              /\ items[1] = NoCursor
      BY <1>1, <1>2 DEF CurrentWalk, IsWalk
    <3> QED
      BY <1>1, <1>3, <3>1, <3>2
  <2>3. CurrentWalk'
    BY <1>1, <1>3, <1>4, <2>2 DEF CurrentWalk, nextCursor, g
  <2>4. FinishedCalls' /\ BeforeSession'
    BY DEF FinishedCalls, ListResult, BeforeSession
  <2>5. ErrorAgreesWithResult' /\ ResultsDistinct'
    BY DEF ErrorAgreesWithResult, ResultsDistinct
  <2> QED
    BY <2>1, <2>3, <2>4, <2>5
<1> QED
  BY <1>6, <1>7, <1>8, <1>9 DEF PageArrives, collected, nextCursor

LEMMA NextIInv == IInv /\ [Next]_vars => IInv'
<1> SUFFICES ASSUME IInv, [Next]_vars PROVE IInv'
  OBVIOUS
<1>1. CASE OpenSession
  BY <1>1, OpenSessionIInv
<1>2. ASSUME NEW l \in Listings, ListWithoutSession(l) \/ BeginListing(l)
      PROVE  IInv'
  BY <1>2, ListWithoutSessionIInv, BeginListingIInv
<1>3. CASE PageArrives
  BY <1>3, PageArrivesIInv
<1>4. CASE FetchFails
  BY <1>4, FailureIInv DEF FetchFails
<1>5. CASE BudgetExhausted
  BY <1>5, FailureIInv DEF BudgetExhausted
<1>6. CASE Tick
  BY <1>6, TickIInv
<1>7. CASE UNCHANGED vars
  <2> USE <1>7 DEF vars, IInv
  <2>1. TypeOK' /\ BeforeSession'
    BY DEF TypeOK, BeforeSession
  <2>2. CurrentWalk' /\ FinishedCalls'
    BY DEF CurrentWalk, FinishedCalls, ListResult
  <2>3. ErrorAgreesWithResult' /\ ResultsDistinct'
    BY DEF ErrorAgreesWithResult, ResultsDistinct
  <2> QED
    BY <2>1, <2>2, <2>3
<1> QED
  BY <1>1, <1>2, <1>3, <1>4, <1>5, <1>6, <1>7 DEF Next, Done

----------------------------------------------------------------------------
LEMMA Invariance == Spec => []IInv
  BY InitIInv, NextIInv, PTL DEF Spec

(* Type correctness.                                                       *)
THEOREM TypeCorrect == Spec => []TypeOK
<1>1. IInv => TypeOK
  BY DEF IInv
<1> QED
  BY <1>1, Invariance, PTL

(* A listing the client does not mark incomplete is the server's whole     *)
(* catalogue, for every catalogue graph, every failure and every reuse of  *)
(* the client.                                                             *)
THEOREM WholeIsSound == Spec => []WholeUnlessMarked
<1>1. IInv => WholeUnlessMarked
  BY DEF IInv, FinishedCalls, ListResult, WholeUnlessMarked
<1> QED
  BY <1>1, Invariance, PTL

(* The recorded error of a listing, its marker and what was handed over    *)
(* never contradict each other.                                            *)
THEOREM ErrorsAgree == Spec => []ErrorAgreesWithResult
<1>1. IInv => ErrorAgreesWithResult
  BY DEF IInv
<1> QED
  BY <1>1, Invariance, PTL

(* No page is collected twice, whatever cycle the cursors run in, and none *)
(* beyond the bound.                                                       *)
THEOREM PagesDistinct == Spec => []EachPageOnce
<1>1. IInv => EachPageOnce
  BY DEF IInv, TypeOK, ResultsDistinct, EachPageOnce
<1> QED
  BY <1>1, Invariance, PTL

----------------------------------------------------------------------------
(* The initial states and the steps of Listing map to those of the         *)
(* abstract contract.                                                      *)
LEMMA InitRefines == Init => Contract!Init
<1> SUFFICES ASSUME Init PROVE Contract!Init
  OBVIOUS
<1>1. catalogue \in [Listings -> Contract!CatalogueGraphs]
  BY ServedAssumption
  DEF Init, CatalogueGraphs, PageIds, Contract!CatalogueGraphs, Contract!PageIds
<1>2. Answer = [l \in Listings |-> Contract!Unasked]
  BY ListingAssumption DEF Init, Answer, NotListed, Contract!Unasked
<1> QED
  BY <1>1, <1>2 DEF Contract!Init

LEMMA IdleWhenNoCall ==
    IInv /\ current = NoListing => Contract!Idle
  BY ListingAssumption
  DEF IInv, TypeOK, Results, Contract!Idle, Contract!Pending, Answer, Verdict, NotListed

(* What every return shows the contract.                                   *)
LEMMA ReturnSettles ==
    ASSUME IInv, IInv', current # NoListing, NEW r \in Results, Return(r),
           r # NotListed,
           \A l \in Listings \ {current} :
               l \in incompleteListings' <=> l \in incompleteListings
    PROVE  Contract!Settle(current)
<1> PICK c \in Listings : c = current
  BY DEF IInv, TypeOK
<1>1. /\ current' = NoListing
      /\ catalogue' = catalogue
      /\ result'[c] = r
      /\ \A l \in Listings \ {c} : result'[l] = result[l]
  BY DEF IInv, TypeOK, Return
<1>2. Answer[c] = Contract!Pending
  BY DEF Answer, Contract!Pending
<1>3. \A k \in Listings \ {c} : Answer'[k] = Answer[k]
  BY <1>1, ListingAssumption DEF Answer, Verdict
<1>4. Answer'[c] = [verdict |-> Verdict(c)', pages |-> r.pages]
  BY <1>1, ListingAssumption DEF Answer
<1>5. Contract!Allowed(Answer'[c], catalogue[c])
  <2>1. CASE r = None
    BY <1>1, <1>4, <2>1
    DEF Verdict, None, Contract!Allowed, Contract!Unavailable
  <2>2. CASE r.kind = "list"
    <3>1. ListResult(c)'
      BY <1>1, ListingAssumption DEF IInv, FinishedCalls
    <3>2. /\ Len(r.pages) > 0
          /\ IsWalk(r.pages, catalogue[c])
          /\ c \notin incompleteListings' => IsWhole(r.pages, catalogue[c])
      BY <1>1, <2>2, <3>1 DEF ListResult
    <3>3. Verdict(c)' = IF c \in incompleteListings' THEN "partial" ELSE "whole"
      BY <1>1, <2>2 DEF Verdict
    <3> QED
      BY <1>4, <3>2, <3>3
      DEF Contract!Allowed, Contract!IsWhole, Contract!IsWalk, IsWhole, IsWalk
  <2> QED
    BY <2>1, <2>2 DEF Results, NotListed
<1> QED
  BY <1>1, <1>2, <1>3, <1>5 DEF Contract!Settle

LEMMA FailureSettles ==
    ASSUME IInv, IInv', current # NoListing,
           NEW failure \in Failures \cup {"budget"}, RecordFailure(failure)
    PROVE  Contract!Settle(current)
<1> DEFINE r == IF Len(items) = 0 THEN None ELSE Pages(items)
<1>1. r \in Results /\ r # NotListed
  BY DEF IInv, TypeOK, Results, Pages, None, NotListed
<1>2. Return(r)
  BY DEF RecordFailure
<1>3. \A l \in Listings \ {current} :
          l \in incompleteListings' <=> l \in incompleteListings
  BY DEF RecordFailure, MarkIncomplete
<1> QED
  BY <1>1, <1>2, <1>3, ReturnSettles

LEMMA PageArrivesRefines ==
    ASSUME IInv, IInv', PageArrives
    PROVE  Contract!Settle(current) \/ UNCHANGED Contract!vars
<1> DEFINE collected == Append(items, cursor)
           nextCursor == catalogue[current][cursor]
<1>1. Pages(collected) \in Results /\ Pages(collected) # NotListed
  BY DEF IInv, TypeOK, Results, Pages, NotListed
<1>2. current # NoListing
  BY DEF PageArrives
<1> HIDE DEF collected, nextCursor
<1>3. CASE StopComplete(collected, nextCursor)
  BY <1>1, <1>2, <1>3, ReturnSettles DEF StopComplete
<1>4. CASE StopRepeated(collected, nextCursor)
  BY <1>1, <1>2, <1>4, ReturnSettles DEF StopRepeated, MarkIncomplete
<1>5. CASE StopAtBound(collected, nextCursor)
  BY <1>1, <1>2, <1>5, ReturnSettles DEF StopAtBound, MarkIncomplete
<1>6. CASE RequestNext(collected, nextCursor)
  BY <1>6 DEF RequestNext, Contract!vars, Answer, Verdict
<1> QED
  BY <1>3, <1>4, <1>5, <1>6 DEF PageArrives, collected, nextCursor

LEMMA StepRefines == IInv /\ IInv' /\ [Next]_vars => [Contract!Next]_(Contract!vars)
<1> SUFFICES ASSUME IInv, IInv', [Next]_vars
             PROVE  Contract!Next \/ UNCHANGED Contract!vars
  OBVIOUS
<1>1. CASE OpenSession \/ Tick \/ UNCHANGED vars
  BY <1>1 DEF OpenSession, Tick, vars, Contract!vars, Answer, Verdict
<1>2. ASSUME NEW l \in Listings, ListWithoutSession(l) PROVE Contract!Next
  <2>1. current = NoListing
    BY <1>2 DEF ListWithoutSession, IInv, BeforeSession
  <2>2. Answer' = [Answer EXCEPT ![l] = Contract!Unavailable]
    BY <1>2, <2>1, ListingAssumption
    DEF ListWithoutSession, IInv, TypeOK, Answer, Verdict, None, NotListed,
        Contract!Unavailable
  <2>3. Contract!Decline(l)
    BY <1>2, <2>1, <2>2, IdleWhenNoCall DEF ListWithoutSession, Contract!Decline
  <2> QED
    BY <2>3 DEF Contract!Next
<1>3. ASSUME NEW l \in Listings, BeginListing(l) PROVE Contract!Next
  <2>1. /\ current = NoListing
        /\ current' = l
        /\ result' = result
        /\ \A k \in Listings \ {l} :
               k \in incompleteListings' <=> k \in incompleteListings
    BY <1>3 DEF BeginListing, ForgetEarlierCall
  <2>2. Answer' = [Answer EXCEPT ![l] = Contract!Pending]
    BY <2>1, ListingAssumption DEF Answer, Verdict, Contract!Pending
  <2>3. \E g \in Contract!CatalogueGraphs : catalogue' = [catalogue EXCEPT ![l] = g]
    BY <1>3, ServedAssumption
    DEF BeginListing, CatalogueGraphs, PageIds, Contract!CatalogueGraphs, Contract!PageIds
  <2>4. Contract!Ask(l)
    BY <2>1, <2>2, <2>3, IdleWhenNoCall DEF Contract!Ask
  <2> QED
    BY <2>4 DEF Contract!Next
<1>4. CASE PageArrives
  BY <1>4, PageArrivesRefines DEF PageArrives, IInv, TypeOK, Contract!Next
<1>5. CASE FetchFails \/ BudgetExhausted
  BY <1>5, FailureSettles DEF FetchFails, BudgetExhausted, IInv, TypeOK, Contract!Next
<1> QED
  BY <1>1, <1>2, <1>3, <1>4, <1>5 DEF Next, Done

(* The collection implements the contract the auditor relies on.           *)
THEOREM Refinement == Spec => ImplementsContract
<1>1. Spec => []IInv
  BY Invariance
<1> QED
  BY <1>1, InitRefines, StepRefines, PTL DEF Spec, ImplementsContract, Contract!Spec

============================================================================
