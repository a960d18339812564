CONSTANTS
  Buffers = 1
  MaxAms = 2
  MaxPosts = 2
SPECIFICATION FairSpec
INVARIANT NoLostWakeup
PROPERTY RxExactlyOnce
PROPERTY RxIsServed
PROPERTY TimeoutIsServed
