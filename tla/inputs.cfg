CONSTANTS
    Kinds = {"plain", "encoder", "qdc"}
    Positions <- SmallPositions
    Start = 1
    Marks = {0, 4}
    Moves <- SmallMoves
    MaxSkips = 1
    IndexPulse = 2
    Gap = 3
SPECIFICATION Spec
INVARIANTS TypeOK PhaseKept
PROPERTIES IndexSeen ReportedCount CatchesUp
