SPECIFICATION Spec
CONSTANTS
  NrVregs = 3
  NrRegisters = 2
  CallerSave = {1}
  MaxCode = 8
  MaxHard = 7
  MaxBranches = 2
  Prologue <- MCPrologue
  Insns <- MCInsns
  Branches = {"if", "goto"}
INVARIANTS
  FlowGraphExact
  LivesAreCovered
  ValuesReachTheirUses
PROPERTY ScanAdvances
