CONSTANTS
    kim = kim
    lee = lee
    Accounts <- MCAccounts
    AuthType <- MCAuthType
    Slots = {r1, r2}
    NoItem = NoItem
    EmptyString = EmptyString
    OptionalText = OptionalText
    Regimes <- Waiting
SPECIFICATION Spec
PROPERTY AutoLogin
CHECK_DEADLOCK FALSE
