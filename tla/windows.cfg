SPECIFICATION MemorySpec
CONSTANTS
  Times = {0, 1, 2, 3, 4, 5}
  Widths = {2, 6}
  Strides = {1, 2, 3}
  Tails = {1, 3}
  Entities = {"a", "b"}
  Incidents = {{"a"}, {"b"}}
  Memories = {2}
  Caps = {3}
INVARIANTS
  OnlyTailIsLost
  WindowsAsExpected
  MemoryIsTime
  CapIsExact
PROPERTIES
  ScoresEachOnce
CHECK_DEADLOCK FALSE
