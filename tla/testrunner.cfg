\* Three tests of every kind, any selection of them, with and without -fN.
SPECIFICATION Spec
CONSTANT TestCount = 3
INVARIANTS GreenMeansAllPassed KilledInItsOwnTime
PROPERTY RunnerEnds
CHECK_DEADLOCK FALSE
