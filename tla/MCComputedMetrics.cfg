CONSTANTS
    m_used = m_used
    m_free = m_free
    m_slab = m_slab
    Inputs <- MCInputs
    Needed <- MCNeeded
    Interval = 10
    MaxCycle = 4
    MaxLost = 1
    MaxPurge = 1
    PurgeAge = 360
    NoSnap = NoSnap

SPECIFICATION Spec

INVARIANT TypeOK

PROPERTY PendingEventuallyDropped
