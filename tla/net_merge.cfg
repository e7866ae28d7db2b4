CONSTANTS
    Width = 3
    MaxRoutes = 4
    None = None
SPECIFICATION FairSpec
INVARIANTS TypeOK NothingLostOrTwice MostSpecificWins FailsOnlyTied
PROPERTY MergeEnds
