\* Distributions of two choices; MaxPasses 3 stands for 64.
CONSTANTS
    Situations <- MCSituations
    Identifier <- MCIdentifier
    MaxPasses = 3
SPECIFICATION Spec
INVARIANTS SelectionIsStable UnstableHasReason LoadedIsWanted CheckIsNumeric
CHECK_DEADLOCK FALSE
