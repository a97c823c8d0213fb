----------------------------- MODULE MCListing -----------------------------
(***************************************************************************)
(* Listing for TLC.  The cursors a catalogue hands out are told apart only *)
(* by the order in which they are first met, so a catalogue is given by    *)
(* its number of pages and by what its last page names as its successor:   *)
(* nothing, or a cursor handed out before.                                 *)
(***************************************************************************)
EXTENDS Listing

CONSTANTS c1, c2, c3, c4

CursorOrder == <<c1, c2, c3, c4>>

(* Pages NoCursor, c1, .., the n-th page followed by last.                 *)
CatalogueOf(n, last) ==
    [p \in PageIds |->
        IF \E i \in 1 .. n - 1 :
               p = IF i = 1 THEN NoCursor ELSE CursorOrder[i - 1]
        THEN CursorOrder[CHOOSE i \in 1 .. n - 1 :
                             p = IF i = 1 THEN NoCursor ELSE CursorOrder[i - 1]]
        ELSE IF p = (IF n = 1 THEN NoCursor ELSE CursorOrder[n - 1]) THEN last
        ELSE NoCursor]

(* One page, as many as the bound, one more; a page that names itself, and *)
(* two that name each other.                                               *)
CatalogueShapes ==
    { CatalogueOf(n, NoCursor) : n \in {1, 4, 5} }
        \cup { CatalogueOf(2, c1), CatalogueOf(3, c1) }

=============================================================================
