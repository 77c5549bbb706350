CONSTANTS
    RingSize = 9
    Header = 2
    Lengths <- MCLengths
    Prefix = 1
    Cap = 6
    MaxLines = 4
    MaxBoots = 1
    MaxLoads = 1
SPECIFICATION Spec
INVARIANTS ShownOnceInOrder CursorSkipsNothing
PROPERTIES KeepsNewestLines PageCatchesUp
