SPECIFICATION Spec
CONSTANTS
    Plans = {1, 2}
    Term = 2
    MaxTime = 2
    MaxEvents = 3
CHECK_DEADLOCK FALSE
INVARIANTS PlansDisjoint InStep
PROPERTIES PlanKept
