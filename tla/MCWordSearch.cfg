CONSTANTS
    Words = {1, 2, 3, 4, 5}
    Length <- MCLength
    Distance <- MCDistance
    QueryLength = 3
    Matches = {1, 3, 4}
    MaxDistance = 3
    ListSize = 2
    Limit = 2
    Masks <- MCMasks
SPECIFICATION Spec
INVARIANT FuzzyBest
INVARIANT AnswerRight
CHECK_DEADLOCK FALSE
