SPECIFICATION MCSpec
CONSTANTS
  f1 = f1 f2 = f2 f3 = f3
  Found <- TwoTargets
  Setups <- AllSetups
  Parts = {"detection"}
  Streams <- AllStreams
  ChunkSize = 3
  BufSize = 2
  MaxPeek = 2
INVARIANT SkippedAreSurfaced
