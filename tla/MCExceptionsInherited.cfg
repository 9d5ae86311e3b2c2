SPECIFICATION Spec
CONSTANTS
  Methods = {"plain", "sync"}
  Synchronized = {"sync"}
  NativeCalls = {"plain", "sync"}
  Pcs <- const_Pcs
  Table <- const_Table
  Types = {"A", "B", "OutOfMemory", "IllegalMonitorState"}
  Subtype <- const_Subtype
  OutOfMemory = "OutOfMemory"
  IllegalMonitorState = "IllegalMonitorState"
  InheritedCalls = TRUE
  MaxDepth = 4
INVARIANT SignalledIsThrown
