SPECIFICATION ToolsSpec
CONSTANTS
    Foci = {"lowering", "checker", "classTable", "formatter"}
    MaxSteps = 40
    MaxUnits = 4
    Width = 14
    INDENT = 2
INVARIANTS
    
    
    FormattingIsFaithful
CHECK_DEADLOCK FALSE
