SPECIFICATION Spec
CONSTANT Setups <- MCSetups
INVARIANTS StartAdmitted HealthExplained
PROPERTY StopHonoured
CHECK_DEADLOCK FALSE
