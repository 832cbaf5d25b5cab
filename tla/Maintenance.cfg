SPECIFICATION MCSpec
CONSTANTS
    Configured = {"backup", "prune"}
    Every <- TwoSchedules
    HistoryMax = 2
    MaxTime = 4
    MaxTriggers = 2
    NoJob = NoJob
    Worlds <- AllWorlds
    Group = {"g"}
    GroupOrder <- OneGroup
    Kind = {"week", "month"}
    BucketOf <- TwoBuckets
    Policies <- SomePolicies
    Forgetter = {"f1", "f2"}
    Named = FALSE
    Replicas = TRUE
    Faults = TRUE
    LastDay = 4
    NotSet = NotSet
CONSTRAINT PlansOnly
INVARIANTS QueueListed PlanMatchesPolicy
PROPERTIES MissedSkipped TriggerRuns ShutdownStops ConnectEnds GroupSurvives StalePlanSafe
CHECK_DEADLOCK FALSE
