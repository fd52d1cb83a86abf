SPECIFICATION Spec
CONSTANTS
    Steps <- AllSteps
    TriggersOf <- SessionsFor
    Reads <- Readers
    Every <- HourlyOnes
    Cron <- Crons
    Budget <- Budgets
    MaxTime = 4
    MaxRun = 2
    User = {u1}
INVARIANTS TypeOK NoChangeMissed
PROPERTIES  OneRunPerTick DueTickFires
