SPECIFICATION FairSpec
CONSTANTS
    c1 = c1
    c2 = c2
    c3 = c3
    c4 = c4
    Listings = {tools, prompts}
    Cursors = {c1, c2, c3, c4}
    NoCursor = NoCursor
    NoListing = NoListing
    Served <- CatalogueShapes
    MaxPages = 4
    Budget = 2
    MaxCalls = 3
INVARIANTS
    WholeUnlessMarked
    ErrorAgreesWithResult
    EachPageOnce
PROPERTIES
    ImplementsContract
    ListingEnds
