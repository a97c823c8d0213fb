------------------------------ MODULE Listing ------------------------------
(***************************************************************************)
(* MCPClient._list_all_pages: collecting one paginated MCP listing over an *)
(* open session, under a page bound, a time budget and a guard against     *)
(* servers that hand the same cursor out twice.  The client object is      *)
(* reused: listings are collected one after the other, a listing may be    *)
(* collected again, and its completeness marker and error live in the      *)
(* client between the calls.                                               *)
(*                                                                         *)
(* Abstractions: a page is the cursor that requests it (its items are      *)
(* payload); time is a number of ticks left of the budget; a server keeps  *)
(* its catalogue stable while one listing is being collected and may       *)
(* change it between two list calls.                                       *)
(*                                                                         *)
(* A definition whose name ends in _<Fault> is a faulty variant of the one *)
(* that follows it, kept to show that the properties notice the fault.     *)
(***************************************************************************)
EXTENDS Catalogues

CONSTANTS
    Listings,     \* "tools", "resources", "resource_templates", "prompts"
    NoListing,    \* no listing is being collected
    Served,       \* the catalogues the server may serve
    MaxPages,     \* MAX_LISTING_PAGES
    Budget,       \* LISTING_TIMEOUT_S, in ticks
    MaxCalls      \* model bound: list calls in one behaviour

ASSUME ListingAssumption == NoListing \notin Listings
ASSUME ServedAssumption == Served \subseteq CatalogueGraphs
ASSUME BoundAssumption ==
    /\ MaxPages \in Nat \ {0}
    /\ Budget \in Nat
    /\ MaxCalls \in Nat

VARIABLES
    session,            \* a session is open (MCPClient.session is set)
    catalogue,          \* the server: successor of each page, per listing
    current,            \* the listing whose pages are being fetched
    items,              \* pages collected so far by the current call
    cursor,             \* cursor of the request in flight
    seenCursors,        \* seen_cursors of the current call
    remaining,          \* ticks left before the current call's deadline
    incompleteListings, \* MCPClient.incomplete_listings
    listingErrors,      \* MCPClient.listing_errors
    result,             \* what the last call of each listing returned
    calls               \* list calls made so far

vars == <<session, catalogue, current, items, cursor, seenCursors, remaining,
          incompleteListings, listingErrors, result, calls>>

NoError == [outcome |-> "none", page_index |-> 0]
Failures == {"validation", "rpc", "request_timeout", "other"}

(* The outcome listing_errors records for each way a page can fail.        *)
Outcome(failure) ==
    CASE failure \in {"budget", "request_timeout"} -> "timeout"
      [] failure = "rpc" -> "rpc_error"
      [] OTHER -> "collection_error"

(* What a call returned: nothing asked yet, None, or a list of pages.      *)
NotListed == [kind |-> "not_listed", pages |-> <<>>]
None == [kind |-> "none", pages |-> <<>>]
Pages(s) == [kind |-> "list", pages |-> s]

Init ==
    /\ session = FALSE
    /\ catalogue \in [Listings -> Served]
    /\ current = NoListing
    /\ items = <<>>
    /\ cursor = NoCursor
    /\ seenCursors = {}
    /\ remaining = 0
    /\ incompleteListings = {}
    /\ listingErrors = [l \in Listings |-> NoError]
    /\ result = [l \in Listings |-> NotListed]
    /\ calls = 0

----------------------------------------------------------------------------
OpenSession ==
    /\ ~session
    /\ session' = TRUE
    /\ UNCHANGED <<catalogue, current, items, cursor, seenCursors, remaining,
                   incompleteListings, listingErrors, result, calls>>

(* list_tools and its siblings without a session: None, nothing recorded.  *)
ListWithoutSession(l) ==
    /\ ~session
    /\ calls < MaxCalls
    /\ calls' = calls + 1
    /\ result' = [result EXCEPT ![l] = None]
    /\ UNCHANGED <<session, catalogue, current, items, cursor, seenCursors,
                   remaining, incompleteListings, listingErrors>>

(* What the previous call of this listing recorded is dropped first.       *)
ForgetEarlierCall_KeepsError(l) ==
    /\ incompleteListings' = incompleteListings \ {l}
    /\ UNCHANGED listingErrors

ForgetEarlierCall(l) ==
    /\ incompleteListings' = incompleteListings \ {l}
    /\ listingErrors' = [listingErrors EXCEPT ![l] = NoError]

BeginListing(l) ==
    /\ session
    /\ current = NoListing
    /\ calls < MaxCalls
    /\ calls' = calls + 1
    /\ \E g \in Served : catalogue' = [catalogue EXCEPT ![l] = g]
    /\ current' = l
    /\ remaining' = Budget
    /\ ForgetEarlierCall(l)
    /\ UNCHANGED <<session, items, cursor, seenCursors, result>>

(* Time passes while a page is awaited.                                    *)
Tick ==
    /\ current # NoListing
    /\ remaining > 0
    /\ remaining' = remaining - 1
    /\ UNCHANGED <<session, catalogue, current, items, cursor, seenCursors,
                   incompleteListings, listingErrors, result, calls>>

----------------------------------------------------------------------------
(* The call returns r and its locals are gone.                             *)
Return(r) ==
    /\ result' = [result EXCEPT ![current] = r]
    /\ current' = NoListing
    /\ items' = <<>>
    /\ cursor' = NoCursor
    /\ seenCursors' = {}
    /\ remaining' = 0
    /\ UNCHANGED <<session, catalogue, calls>>

MarkIncomplete == incompleteListings' = incompleteListings \cup {current}

(* A page failed: mark, record why and where, hand over what there is.     *)
RecordFailure(failure) ==
    /\ MarkIncomplete
    /\ listingErrors' = [listingErrors EXCEPT ![current] =
           [outcome |-> Outcome(failure), page_index |-> Len(items)]]
    /\ Return(IF Len(items) = 0 THEN None ELSE Pages(items))

(* The session, the transport or the result model raised on this page.     *)
FetchFails ==
    /\ current # NoListing
    /\ remaining > 0
    /\ \E failure \in Failures : RecordFailure(failure)

(* wait_for raises: nothing is left of the budget.                         *)
BudgetExhausted_AsksAgain ==
    /\ current # NoListing
    /\ remaining = 0
    /\ remaining' = Budget
    /\ UNCHANGED <<session, catalogue, current, items, cursor, seenCursors,
                   incompleteListings, listingErrors, result, calls>>

BudgetExhausted ==
    /\ current # NoListing
    /\ remaining = 0
    /\ RecordFailure("budget")

----------------------------------------------------------------------------
(* The ways to go on once a page of the current listing has arrived.       *)
StopComplete(collected, nextCursor) ==
    /\ nextCursor = NoCursor
    /\ Return(Pages(collected))
    /\ UNCHANGED <<incompleteListings, listingErrors>>

StopRepeated_Unmarked(collected, nextCursor) ==
    /\ nextCursor \in seenCursors
    /\ Return(Pages(collected))
    /\ UNCHANGED <<incompleteListings, listingErrors>>

StopRepeated(collected, nextCursor) ==
    /\ nextCursor \in seenCursors
    /\ MarkIncomplete
    /\ Return(Pages(collected))
    /\ UNCHANGED listingErrors

FreshCursor_ComparesLast(nextCursor) ==
    nextCursor # NoCursor /\ nextCursor # cursor

FreshCursor(nextCursor) ==
    nextCursor # NoCursor /\ nextCursor \notin seenCursors

StopAtBound_Unmarked(collected, nextCursor) ==
    /\ FreshCursor(nextCursor)
    /\ Len(collected) = MaxPages
    /\ Return(Pages(collected))
    /\ UNCHANGED <<incompleteListings, listingErrors>>

StopAtBound(collected, nextCursor) ==
    /\ FreshCursor(nextCursor)
    /\ Len(collected) = MaxPages
    /\ MarkIncomplete
    /\ Return(Pages(collected))
    /\ UNCHANGED listingErrors

RequestNext_PastBound(collected, nextCursor) ==
    /\ FreshCursor(nextCursor)
    /\ Len(collected) <= MaxPages
    /\ items' = collected
    /\ seenCursors' = seenCursors \cup {nextCursor}
    /\ cursor' = nextCursor
    /\ UNCHANGED <<session, catalogue, current, remaining, incompleteListings,
                   listingErrors, result, calls>>

RequestNext(collected, nextCursor) ==
    /\ FreshCursor(nextCursor)
    /\ Len(collected) < MaxPages
    /\ items' = collected
    /\ seenCursors' = seenCursors \cup {nextCursor}
    /\ cursor' = nextCursor
    /\ UNCHANGED <<session, catalogue, current, remaining, incompleteListings,
                   listingErrors, result, calls>>

PageArrives ==
    /\ current # NoListing
    /\ remaining > 0
    /\ LET collected == Append(items, cursor)
           nextCursor == catalogue[current][cursor]
       IN  \/ StopComplete(collected, nextCursor)
           \/ StopRepeated(collected, nextCursor)
           \/ StopAtBound(collected, nextCursor)
           \/ RequestNext(collected, nextCursor)

(* Every call the model's bound allows has been made.                      *)
Done ==
    /\ session
    /\ calls = MaxCalls
    /\ current = NoListing
    /\ UNCHANGED vars

Next ==
    \/ OpenSession
    \/ \E l \in Listings : ListWithoutSession(l) \/ BeginListing(l)
    \/ PageArrives
    \/ FetchFails
    \/ BudgetExhausted
    \/ Tick
    \/ Done

Spec == Init /\ [][Next]_vars

(* The clock advances and an expired wait_for raises.  Nothing is assumed  *)
(* of the server: it may never answer.                                     *)
FairSpec == Spec /\ WF_vars(Tick) /\ WF_vars(BudgetExhausted)

----------------------------------------------------------------------------
Errors == [outcome : {"timeout", "rpc_error", "collection_error"},
           page_index : 0 .. MaxPages - 1]

Results == {NotListed, None} \cup [kind : {"list"}, pages : Seq(PageIds)]

(* Every variable stays in its range.                                      *)
TypeOK ==
    /\ session \in BOOLEAN
    /\ catalogue \in [Listings -> CatalogueGraphs]
    /\ current \in Listings \cup {NoListing}
    /\ items \in Seq(PageIds) /\ Len(items) < MaxPages
    /\ cursor \in PageIds
    /\ seenCursors \subseteq Cursors
    /\ remaining \in 0 .. Budget
    /\ incompleteListings \subseteq Listings
    /\ listingErrors \in [Listings -> {NoError} \cup Errors]
    /\ result \in [Listings -> Results]
    /\ calls \in 0 .. MaxCalls

(* The rules read a listing the client did not mark incomplete as the      *)
(* server's whole catalogue.  Whatever the server does (a catalogue longer *)
(* than the page bound, a cycle of cursors, silence or an error on any     *)
(* page, a different catalogue than at the previous call), it then is: the *)
(* pages run from the first to the last one, none missing and none twice.  *)
WholeUnlessMarked ==
    \A l \in Listings :
        (result[l].kind = "list" /\ l # current /\ l \notin incompleteListings)
            => IsWhole(result[l].pages, catalogue[l])

(* What the client reports of a failed listing agrees with what it handed  *)
(* over: the recorded page index counts the pages the caller got, None is  *)
(* returned exactly when the first page already failed, and no error       *)
(* outlives the call it belongs to.                                        *)
ErrorAgreesWithResult ==
    \A l \in Listings \ {current} :
        /\ listingErrors[l] # NoError =>
               /\ l \in incompleteListings
               /\ listingErrors[l].page_index = Len(result[l].pages)
               /\ result[l].kind = IF listingErrors[l].page_index = 0
                                   THEN "none" ELSE "list"
        /\ (result[l].kind = "none" /\ l \in incompleteListings)
               => listingErrors[l] # NoError

(* No page is fetched twice by one call, so no item of the catalogue is    *)
(* counted twice by the rules, even for a server whose cursors run in a    *)
(* cycle longer than one; and no call asks for a page beyond the bound     *)
(* (MAX_LISTING_PAGES).                                                    *)
EachPageOnce ==
    /\ Len(items) < MaxPages
    /\ \A l \in Listings : \A i, j \in 1 .. Len(result[l].pages) :
           result[l].pages[i] = result[l].pages[j] => i = j

(* The answer the abstract contract speaks of.                             *)
Verdict(l) ==
    IF result[l].kind = "none" THEN "unavailable"
    ELSE IF l \in incompleteListings THEN "partial" ELSE "whole"

Answer ==
    [l \in Listings |->
        IF l = current THEN [verdict |-> "pending", pages |-> <<>>]
        ELSE IF result[l] = NotListed THEN [verdict |-> "unasked", pages |-> <<>>]
        ELSE [verdict |-> Verdict(l), pages |-> result[l].pages]]

Contract == INSTANCE ListingContract WITH answer <- Answer

(* The collection implements its contract: every list call is one Ask      *)
(* followed by one Settle, with an answer the contract allows.             *)
ImplementsContract == Contract!Spec

(* Every list call ends, whatever the server does: the clock and the page  *)
(* bound see to it even when no page is ever answered.                     *)
ListingEnds == (current # NoListing) ~> (current = NoListing)

============================================================================
