SPECIFICATION Spec
CONSTANTS
    MaxDispatches = 2
    MaxDecisions = 1
    OperatorVerdicts = {"approved", "expired"}
    MaxFailures = 1
INVARIANTS
    TypeOK
    DecisionIsMirrored
    NoLeakedSender
    UndecidedTimerWaits
PROPERTIES
    DecisionStands
    PlanGateImplemented
    EscalationHappens
CHECK_DEADLOCK FALSE
