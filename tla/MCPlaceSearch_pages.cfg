CONSTANTS
    empty = empty
    caf = caf
    cafe = cafe
    Queries <- MCQueries
    FirstQuery = empty
    LastPage <- MCLastPage
    MaxPage = 4
    MaxNet = 3
    MaxRows = 4
SPECIFICATION FairSpec
INVARIANTS
    SettledTable
    BlockedOnlyAtEnd
PROPERTIES
    ImplementsListing
    ShowsSearchedText
