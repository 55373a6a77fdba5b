CONSTANTS
    NumJoints = 2
    Radix = 4
    StepUnit = 4
    BaseFreq = 3
    CountMod = 8
    Frequencies <- SmallFrequencies
SPECIFICATION Spec
INVARIANTS TypeOK CountIsWholePart EnabledFollowsPacket
PROPERTY SlowJointsStep
