\* Violation run: DropOnlyDeleted.
CONSTANTS
    k1 = k1
    k2 = k2
    p1 = p1
    p2 = p2
    None = None
    Deleted = Deleted
    Keys <- MCKeys
    Producers <- MCProducers
    Stuck = {}
    MaxPoints = 2
    QueueCap = 1
    BatchMax = 1
    MqttMax = 0
    MaxUuid = 3
    MaxPurge = 1
    AlertingKeys = {k1}
    MaxModeSwitch = 1
SPECIFICATION Spec
INVARIANT DropOnlyDeleted
