SPECIFICATION MachineSpec
CONSTANTS
    B = 6
    TraceCap = 2
    Ram <- MCRam
    Table <- MCTable
    CfStarts <- MCStart
    CfTried <- MCSteps
    Fuel <- MCFuel
INVARIANTS
    
    ReturnsRestore
    TrapsTransparent
    
    

    
CHECK_DEADLOCK FALSE
