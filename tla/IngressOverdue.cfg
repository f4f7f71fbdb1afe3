SPECIFICATION Spec
CONSTANTS
    e1 = e1
    e2 = e2
    e3 = e3
    e4 = e4
    e5 = e5
    e6 = e6
    e7 = e7
    Envs <- SmallEnvs
    Local <- SmallLocal
    Cfg <- MCCfg
    Steps = 5
    MaxDelay = 2
INVARIANT
    NoOverdue
