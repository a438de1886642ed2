SPECIFICATION FairSpec
CONSTANTS
    WorkersCount = 2
    Clients = {c1}
    Owner = c1
    NoWaiter = NoWaiter
    MaxWorks = 2
    SubmitModulus = 4
PROPERTIES WorkCompletes CallsReturn
