SPECIFICATION SpecServer
CONSTANTS
    SrvCids = {1, 2, 3, 4}
    SrvHandlers = {h1, h2}
    MaxSrvScids = 2
    MaxBlocked = 1
    MaxCloseRecv = 2
    ResetBurst = 1
    FirstWriteMayFail = FALSE
INVARIANT ServerSound
PROPERTY ServerForgets
