SPECIFICATION FairSpec
CONSTANTS
    m1 = m1
    v1 = v1
    worker = worker
    MaxRuns = 2
    Manual = {m1}
    Worker = worker
    WatchlistLimit = 2
    Reviews = {v1}
INVARIANTS
    TypeOK
    RunsAddUp
    OpenRunsAreWorkedOn
    ReviewsAreCited
PROPERTIES
    RunsAreFinal
    ReviewEnds
