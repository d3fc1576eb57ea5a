SPECIFICATION Spec
CONSTANT MaxTrouble = 2
INVARIANT DrainingIsDraining
CHECK_DEADLOCK FALSE
