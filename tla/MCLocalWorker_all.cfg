SPECIFICATION WorkerSpec

CONSTANTS
    w1 = w1
    w2 = w2
    Nobody = nobody
    MaxOrganization = 2
    MaxFaults = 2
    Workers <- TwoWorkers

INVARIANT NobodyBypassed

PROPERTY EveryoneIsServed

