CONSTANTS
  Period = 8
  Word = 128
  Limit = 24
  MaxSpan = 6
SPECIFICATION TimeSpec
CHECK_DEADLOCK FALSE
INVARIANT check_profiling_time
