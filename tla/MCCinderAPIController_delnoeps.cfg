CONSTANTS
    s1 = s1
    s2 = s2
    c1 = c1
    c2 = c2
    SecretVals <- MCSecretVals
    CfgVals <- MCCfgVals
    MaxEnvSteps = 2
    MaxFaults = 1
SPECIFICATION Spec
INVARIANT
    DeleteCallsNeedEndpoints
CHECK_DEADLOCK FALSE
