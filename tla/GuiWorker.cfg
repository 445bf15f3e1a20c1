SPECIFICATION Spec
CONSTANTS
    MaxTasks = 4
    MaxOps = 3
INVARIANTS WindowTrue StopHitsItsTask
PROPERTIES JoinReturns ExitHappens OpsServed
