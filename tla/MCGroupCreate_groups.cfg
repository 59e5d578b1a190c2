CONSTANTS
    empty = empty
    blank = blank
    Titles <- MCTitles
    Empty = empty
    Blank = blank
    Friends = {ann}
    MaxNet = 3
    MaxVisits = 2
    MaxGroups = 2
    Regimes <- MCRegimes
SPECIFICATION FairSpec
INVARIANTS
    
    OneGroupPerVisit
    SettledListShowsAll
    AskingPageOnTop
    OwnFriendsInvited
PROPERTIES
    CreatingClosesPage
CHECK_DEADLOCK FALSE
