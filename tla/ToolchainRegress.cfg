SPECIFICATION Spec
CONSTANTS
    N = 3
    Goals = {"package", "regress"}
    MaxCuts = 1
INVARIANTS RegressHasTarballs
