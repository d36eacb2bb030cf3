\* Every plan of the configurations and hosts of MCPlanRules; a plan is made once.
CONSTANTS
    None = None
    Inputs <- MCInputs
SPECIFICATION Spec
CHECK_DEADLOCK FALSE
INVARIANTS
    NoDoomedPlan
    SecretsInOrder
    MatrixRefused
