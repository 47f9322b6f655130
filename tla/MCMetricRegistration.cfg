CONSTANTS
    agent = agent
    m = m
    s = s
    c1 = c1
    svc = svc
    NoKey = NoKey
    NoContainer = NoContainer
    NoService = NoService
    None = None
    Keys <- MCKeys
    Dep <- MCDep
    AgentStatus = agent
    Containers = {c1}
    Services = {svc}
    Rejected = {s}
    RejectedServices = {}
    MaxId = 6
    MaxFail = 1
    MaxCrash = 1
    MaxUserDelete = 1
    MaxContainerFail = 1

SPECIFICATION Spec

INVARIANT TypeOK DiskAgreesWithMemory

 
