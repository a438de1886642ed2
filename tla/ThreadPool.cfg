SPECIFICATION Spec
CONSTANTS
    WorkersCount = 2
    Clients = {c1, c2}
    Owner = c1
    NoWaiter = NoWaiter
    MaxWorks = 2
    SubmitModulus = 4
INVARIANTS TypeOK SingleOwner NoLeak WaiterExact WaiterJoins PoolOutlivesUsers PoolLifecycle WaitMeansTaken
PROPERTIES FateSteps ImplementsLedger
