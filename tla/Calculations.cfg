SPECIFICATION Spec
INVARIANTS InputsAreRead JudgedFairly FiguresAgree
CHECK_DEADLOCK FALSE
