SPECIFICATION Spec
CONSTANTS
    MaxDispatches = 2
    MaxDecisions = 1
    OperatorVerdicts = {"approved", "expired"}
    MaxFailures = 0
PROPERTY
    RedispatchSupersedesCleanly
CHECK_DEADLOCK FALSE
