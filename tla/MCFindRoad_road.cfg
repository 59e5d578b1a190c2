CONSTANTS
    here = here
    there = there
    Positions <- MCPositions
    Nowhere = nowhere
    Regimes <- MCRegimes
    MaxAbove = 2
SPECIFICATION FairSpec
INVARIANTS
    
    MarkerIsFed
    LeftPageEnds
PROPERTIES
    DrawsNewestAnswer
    HiddenStaysQuiet
    MarkerFollows
