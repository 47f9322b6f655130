CONSTANTS
    SvcKeys = {a, b}
    Descs = {d1, d2}
    MaxId = 4
    MaxFail = 1
    MaxEnv = 3
    MaxUserDelete = 1
    FactKeys = {f1}
    MaxFactId = 5

SPECIFICATION Spec

INVARIANT ResyncHonoured

