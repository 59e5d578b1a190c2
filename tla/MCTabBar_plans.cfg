CONSTANTS
    cafe = cafe
    park = park
    friend = friend
    plan = plan
    Places <- MCPlaces
    Groups = {g, h}
    Slots = {s, t}
    Here = here
    Origin = origin
    Unset = unset
    MaxVisits = 2
    MaxSaves = 2
    Regimes <- MCRegimes
    Invites <- MCInvites
    Subject <- MCSubject
SPECIFICATION FairTabBarSpec
INVARIANTS
    SendsWhatPageShows
    WholePlace
    OnePlanPerVisit
    ListLostBySaving
    
PROPERTIES
    SavedPlanShowsMap
    
    AgreedIsJoined
CHECK_DEADLOCK FALSE
