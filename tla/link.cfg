CONSTANTS
    ErrMax = 2
    MayBeLate = FALSE
    MaxInFlight = 3
    DataErrMax = 5
    CountMod = 8
    PowerUpStatus = {FALSE}
    MaxSilent = 7
    Timeout = 14
SPECIFICATION LinkSpec
INVARIANTS LinkTypeOK CommandFresh
PROPERTIES ToleratesLoss DeadLinkNoticed FailureStops LinkWorks
