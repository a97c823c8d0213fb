-------------------------- MODULE ListingContract --------------------------
(***************************************************************************)
(* What a catalogue collection promises to the auditor, with nothing of    *)
(* how it is done: one list call at a time, each ending in one answer, and *)
(* an answer that is called whole holds every page the server serves, in   *)
(* order.                                                                  *)
(***************************************************************************)
EXTENDS Catalogues

CONSTANT Listings     \* the names of the listings

VARIABLES
    catalogue,    \* what the server serves for each listing
    answer        \* the verdict on each listing and the pages handed over

vars == <<catalogue, answer>>

Unasked == [verdict |-> "unasked", pages |-> <<>>]
Pending == [verdict |-> "pending", pages |-> <<>>]
Unavailable == [verdict |-> "unavailable", pages |-> <<>>]

(* The answers a client may give on a listing served as g.                 *)
Allowed(a, g) ==
    \/ a = Unavailable
    \/ a.verdict = "partial" /\ Len(a.pages) > 0 /\ IsWalk(a.pages, g)
    \/ a.verdict = "whole" /\ IsWhole(a.pages, g)

Idle == \A l \in Listings : answer[l] # Pending

Init ==
    /\ catalogue \in [Listings -> CatalogueGraphs]
    /\ answer = [l \in Listings |-> Unasked]

(* Ask for a listing, of a server that may have changed its catalogue.     *)
Ask(l) ==
    /\ Idle
    /\ \E g \in CatalogueGraphs : catalogue' = [catalogue EXCEPT ![l] = g]
    /\ answer' = [answer EXCEPT ![l] = Pending]

(* The listing being collected gets its answer.                            *)
Settle(l) ==
    /\ answer[l] = Pending
    /\ \A k \in Listings \ {l} : answer'[k] = answer[k]
    /\ Allowed(answer'[l], catalogue[l])
    /\ UNCHANGED catalogue

(* A client without a session has nobody to ask.                           *)
Decline(l) ==
    /\ Idle
    /\ answer' = [answer EXCEPT ![l] = Unavailable]
    /\ UNCHANGED catalogue

Next == \E l \in Listings : Ask(l) \/ Settle(l) \/ Decline(l)

Spec == Init /\ [][Next]_vars

============================================================================
