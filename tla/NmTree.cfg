SPECIFICATION Spec
CONSTANTS
    Trx = {t0}
    Tn = {n0, n1}
    Models <- MCModels
INVARIANTS
    ObjectsInv
    DependenciesHold
CHECK_DEADLOCK FALSE
