CONSTANTS
    Prompt = TRUE
    Slots = 8
    Half = 2
    ServoFreq = 2
    StepLength = 2
    StepSpace = 2
    DirHold = 1
    DirSetup = 2
    StepPosMod = 65536
    CountMod = 4
    PowerUpFlags = {FALSE}
    Frequencies <- SmallFrequencies
    FillSlots <- LateFills
    DisableWhen = "quiet"
    MaxSessions = 2
SPECIFICATION Spec
INVARIANT CountIsPosition
