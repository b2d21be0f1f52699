SPECIFICATION Spec
CONSTANTS
  s1 = s1  s2 = s2  s3 = s3
  Surface = {s1, s2}
  Cpp <- MCCpp
  Pitch <- MCPitch
  Extent = {0, 1, 2}
  Gen = {4, 5}
  MaxBatchSize = 60
  BoSize = 4096
  BatchReserved = 24
  Word = 65536
INVARIANT CopiesOnly
