SPECIFICATION Spec
CONSTANTS
  Plans = {lora, fsk, big, broken}
  None = None
  FskPlans = {fsk}
  TlePlans = {fsk}
  TlxPlans = {lora}
  BigPlans = {big}
  BrokenPlans = {broken}
  Sky = 2
  Tol = 1
  MaxCommands = 3
  MaxBoots = 1
INVARIANTS NoStalePacket NoTornCopy Listening ShiftIsApplied
CHECK_DEADLOCK FALSE
