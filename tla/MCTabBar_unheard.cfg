CONSTANTS
    cafe = cafe
    park = park
    friend = friend
    plan = plan
    Places <- MCPlaces
    Groups = {g}
    Slots = {s}
    Here = here
    Origin = origin
    Unset = unset
    MaxVisits = 1
    MaxSaves = 2
    Regimes <- Notified
    Invites <- MCInvites
    Subject <- MCSubject
SPECIFICATION TabBarSpec
PROPERTIES
    PushOpensPlans
CHECK_DEADLOCK FALSE
