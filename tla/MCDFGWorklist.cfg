\* Two VMs that end with all their plans done.
CONSTANTS
    Thread = {1, 2}
    VM = {1, 2}
    Plan = {1, 2, 11}
    MayDie = {1, 2, 11}
    VmOf <- MCVmOf
    Nobody = Nobody
SPECIFICATION Spec
INVARIANTS NoPlanForgotten PlansAccounted AssertionsHold
PROPERTY WaitsEnd
CHECK_DEADLOCK FALSE
