CONSTANTS
    SvcKeys = {a, b}
    Descs = {d1, d2}
    MaxId = 4
    MaxFail = 1
    MaxEnv = 2
    MaxUserDelete = 1
    FactKeys = {f1}
    MaxFactId = 4

SPECIFICATION Spec

INVARIANT TypeOK NoDuplicateService

PROPERTY EventuallyConverged FactKeptOnApi 
