CONSTANTS
    Gain = 3
    Count = 2
    Hertz = 2
    BaseFreq = 4
    Deadband = 2
    Commands <- MCCommands
    Accels <- MCAccels
    Grace = 1
    MaxLosses = 1
SPECIFICATION Spec
INVARIANT TypeOK
PROPERTIES KeepsAcceleration Settles
