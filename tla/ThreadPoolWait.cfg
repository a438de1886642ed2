SPECIFICATION Spec
CONSTANTS
    WorkersCount = 3
    Clients = {c1}
    Owner = c1
    NoWaiter = NoWaiter
    MaxWorks = 1
    SubmitModulus = 4
INVARIANTS WaitMeansDone
