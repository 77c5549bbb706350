SPECIFICATION Spec
CONSTANTS
  Plans = {lora, fsk, big, broken}
  None = None
  FskPlans = {fsk}
  TlePlans = {fsk}
  TlxPlans = {lora}
  BigPlans = {big}
  BrokenPlans = {broken}
  Sky = 2
  Tol = 1
  MaxCommands = 4
  MaxBoots = 1
INVARIANT ChipFollowsRecord
CHECK_DEADLOCK FALSE
