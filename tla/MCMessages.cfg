SPECIFICATION Spec
CONSTANTS
    Exchanges <- MCExchanges
    Lower <- MCLower
    Numerals <- MCNumerals
    Ages <- MCAges
    Blocked = {"bad.org"}
    ClientIP = "ip"
    MaxAge = 60
CHECK_DEADLOCK FALSE
INVARIANTS
    ForwardedAsAsked
    AnsweredAsSent
    StoredIsTheAnswer
