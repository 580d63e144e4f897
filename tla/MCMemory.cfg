CONSTANTS
  Threads = {t1, t2}
  Requests = {0, 1, 3}
  Alignment = 2
  minimum_superblock_size = 4
  max_free_blocks = 1
  initial_size = 4
  maximum_size = 8
  Addresses = {1, 5, 6}
  BufferNames = {v, w}
  BlobNames = {b, c}
  EncodedTypes <- MCTypes
  Kinds <- MCKinds
  EncodedBlobs <- MCBlobs
SPECIFICATION MemSpec
INVARIANTS ArenaSound Conserved EncodingsSound FindsItsBlock
SYMMETRY Symmetry
