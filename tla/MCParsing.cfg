CONSTANTS
    Inputs <- MCInputs
    MaxPairs = 3
    MaxString = 4
    MaxUint = 12
    NumberBuffer = 4
SPECIFICATION Spec
INVARIANTS ParsingTypeOK LineStarts AcceptedIsText RulesRead DamageContained
PROPERTIES FileEnds
CHECK_DEADLOCK FALSE
