CONSTANTS
    PageInterval = 2
    Timeouts <- MCTimeouts
    MaxTimeout = 5
    LoopTime = 1
    Texts = {a}
SPECIFICATION Spec
INVARIANTS MapReturns StaleTextLeaves
PROPERTIES DarkOnlyWhenIdle GoesDark
