SPECIFICATION Spec
CONSTANT Inputs <- JalrInputs
INVARIANT LiftKeepsOperands
CHECK_DEADLOCK FALSE
