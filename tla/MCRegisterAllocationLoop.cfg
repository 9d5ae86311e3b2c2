SPECIFICATION Spec
CONSTANTS
  NrVregs = 3
  NrRegisters = 2
  CallerSave = {1}
  MaxCode = 7
  MaxHard = 7
  MaxBranches = 1
  Prologue <- MCPrologue
  Insns <- MCInsns
  Branches = {"if"}
INVARIANT AllocationIsRight
