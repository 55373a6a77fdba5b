CONSTANTS
    ErrMax = 2
    MayBeLate = TRUE
    MaxInFlight = 3
SPECIFICATION Spec
PROPERTY FeedbackGoesOn
