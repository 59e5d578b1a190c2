CONSTANTS
    letter = letter
    Space = space
    Mark = mark
    Chars <- MCChars
    MinLength = 2
    MaxLength = 2
    Slots = {r, s}
SPECIFICATION Spec
PROPERTIES
    DuplicateIsTold
CHECK_DEADLOCK FALSE
