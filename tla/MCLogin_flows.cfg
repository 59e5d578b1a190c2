CONSTANTS
    kim = kim
    lee = lee
    Accounts <- MCAccounts
    AuthType <- MCAuthType
    Slots = {r1, r2}
    NoItem = NoItem
    EmptyString = EmptyString
    OptionalText = OptionalText
    Regimes <- MCRegimes
SPECIFICATION FairSpec
INVARIANTS
    EntersOnlyMembers
    
    SignsUpPageOwner
    SessionMatchesAccount
PROPERTIES
    SignInCompletes
    ImplementsSession
CHECK_DEADLOCK FALSE
