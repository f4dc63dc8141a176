SPECIFICATION Spec
CONSTANTS
  Fns <- MCFns
  Main = "main"
  Generators = {"g"}
  NumParams <- MCNumParams
  NumLocals <- MCNumLocals
  RetSize <- MCRetSize
  PtrLocals <- MCPtrLocals
  Callees <- MCCallees
  Data = {0, 1}
  MaxDepth = 3
  MainRefs = FALSE
  IndirectRefs = FALSE
  GenCalls = FALSE
  StackSize = 12
  MinGrow = 6
  MaxStack = 50
  MaxGens = 1
INVARIANTS TypeOK NoStalePointers InBounds TraceIsTheCalls
PROPERTY CallStackSpec
CHECK_DEADLOCK FALSE
