CONSTANTS
    aws = aws
    gcp = gcp
    acme = acme
    globex = globex
    Groups = {aws, gcp}
    LastDay = 2
    Account <- OneAccount
    DailyRunners = {worker, cronjob}
    MonthlyRunners = {billing}
    MaxEvents = 2
    MaxRuns = 3
    MaxFaults = 1
SPECIFICATION FairSpec
INVARIANTS TypeOK NeverOvercounts DailySnapshot
PROPERTIES RollsUp ShrinksOnlyWhenOvertaken RunsEnd
CHECK_DEADLOCK FALSE
