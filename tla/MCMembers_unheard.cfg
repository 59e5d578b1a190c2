CONSTANTS
    kim = kim
    lee = lee
    cafe = cafe
    park = park
    nowhere = nowhere
    Friends <- MCFriends
    Places <- MCPlaces
    Located <- MCLocated
    NoPlace = NoPlace
    MaxVisits = 2
    MaxSends = 3
    MaxNet = 4
SPECIFICATION Spec
INVARIANT LocationFollowsChoice
CHECK_DEADLOCK FALSE
