CONSTANTS
    Prompt = TRUE
    DataErrMax = 2
    CountMod = 8
    PowerUpStatus = {FALSE}
    MaxSilent = 10
    HasDMAthread = TRUE
    MaxLag = 3
SPECIFICATION Spec
INVARIANTS TypeOK StatusMeansData StopsInTime
PROPERTIES PlayingBufferStable RunsOnData SilenceStops DataRuns
