CONSTANTS
    Ports = {p1, p2}
    MainPort = p1
    NoSocket = NoSocket
    MaxSock = 6
    MaxFlap = 2
    CheckType = "http"
    FourxxIsOk = FALSE
    MaxOpenJobs = 2

SPECIFICATION Spec

INVARIANT NoSocketLeak


\* A stopped check is dropped from CHECKS and does nothing more.
CHECK_DEADLOCK FALSE
