CONSTANTS
  x1 = x1
  ret = ret
  Programs <- MCPrograms
  Policies = {"PRE_ALLOC", "POST_ALLOC"}
  SimdWidths = {8, 16}
  Functions <- MCFunctions
  Bodies <- MCBodies
  Regs = {x1, ret}
  retVal = ret
  InputSets <- MCInputSets
  Orders <- MCOrders
  Unset = Unset
SPECIFICATION Spec
INVARIANT ConflictsKept
INVARIANT EdgesKept
INVARIANT NeverStuck
INVARIANT FlowExact
INVARIANT LoopsCovered
PROPERTY AnalysisEnds
INVARIANT ChainsExact
