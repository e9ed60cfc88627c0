SPECIFICATION ProgramSpec
CONSTANTS
    CounterMax = 7
    Window = 3
INVARIANTS
    
    
    
    OpenedExactlyOnce
    CompiledExactly
    
CHECK_DEADLOCK FALSE
