CONSTANTS
    ByteBits = 3
    StackTop = 3200
    Inputs <- MCInputs
    Programs <- MCPrograms
    Compile <- MCCompile
    MeaningOf <- MCMeaningOf
SPECIFICATION Spec
INVARIANTS RunsAsWritten StackBalanced
PROPERTIES CallsReturn Halts
CHECK_DEADLOCK FALSE
