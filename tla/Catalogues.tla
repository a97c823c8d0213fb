----------------------------- MODULE Catalogues -----------------------------
(***************************************************************************)
(* A paginated catalogue as its reader sees it.  A page is named by the    *)
(* cursor that requests it; NoCursor requests the first page and, as the   *)
(* successor of a page, says that no page follows.                         *)
(***************************************************************************)
EXTENDS Naturals, Sequences

CONSTANTS
    Cursors,      \* the cursors a server hands out
    NoCursor      \* an absent cursor

ASSUME CursorAssumption == NoCursor \notin Cursors

PageIds == Cursors \cup {NoCursor}

(* A catalogue gives the successor of each page.                           *)
CatalogueGraphs == [PageIds -> PageIds]

(* pages is a walk through catalogue g from its first page.                *)
IsWalk(pages, g) ==
    /\ Len(pages) > 0 => pages[1] = NoCursor
    /\ \A i \in 1 .. Len(pages) - 1 :
           /\ pages[i + 1] = g[pages[i]]
           /\ pages[i + 1] # NoCursor

(* pages is a walk that reached the last page of the catalogue.            *)
IsWhole(pages, g) ==
    /\ Len(pages) > 0
    /\ IsWalk(pages, g)
    /\ g[pages[Len(pages)]] = NoCursor

=============================================================================
