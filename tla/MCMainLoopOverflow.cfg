CONSTANTS
  Buffers = 1
  MaxAms = 2
  MaxPosts = 2
SPECIFICATION Spec
INVARIANT OverflowReactivates
