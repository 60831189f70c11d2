\* Two threads to create; either creation may fail.
CONSTANT NumThreads = 2
SPECIFICATION Spec
PROPERTY CreateReturns
CHECK_DEADLOCK FALSE
