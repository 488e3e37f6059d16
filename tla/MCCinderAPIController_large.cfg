CONSTANTS
    s1 = s1
    s2 = s2
    c1 = c1
    c2 = c2
    SecretVals <- MCSecretVals
    CfgVals <- MCCfgVals
    MaxEnvSteps = 3
    MaxFaults = 2
SPECIFICATION Spec
INVARIANTS
    NoOrphanKeystoneService
PROPERTIES
    FinalizerProtocolSafety
CHECK_DEADLOCK FALSE
