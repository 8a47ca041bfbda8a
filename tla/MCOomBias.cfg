SPECIFICATION Spec
CONSTANTS
    Procs <- MCProcs
    PidOf <- MCPidOf
    Biasable <- MCProcs
    Exempt <- MCExempt
    Natives <- MCNatives
    Foreign <- MCForeign
    Target = 250
    Protected <- MCProtected
    Torn = FALSE
INVARIANTS
    BiasIsRecorded
    
PROPERTIES
    RestoresTheTruth
