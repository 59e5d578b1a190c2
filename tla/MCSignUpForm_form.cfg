CONSTANTS
    letter = letter
    Space = space
    Mark = mark
    Chars <- MCChars
    MinLength = 2
    MaxLength = 2
    Slots = {r, s}
SPECIFICATION FairSpec
INVARIANTS
    
    SendsTextShown
    SignsUpFreeName
PROPERTIES
    TapIsAnswered
CHECK_DEADLOCK FALSE
