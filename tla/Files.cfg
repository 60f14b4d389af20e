\* Two requests at a time and three in all: two that interleave after any one
\* before, which is how the tree they find comes about.
CONSTANTS
  Requests = {r1, r2}
  RawPaths <- SomePaths
  Kinds = {"write", "upload", "read", "download", "list", "delete", "mkdir", "rename"}
  Nodes = {1, 2, 3, 4, 5}
  MaxRequests = 3
  Blocks = 2
  MaxRead = 1
  Dir = Dir
  Disk = Disk
  Nobody = Nobody
  None = None
SPECIFICATION Spec
INVARIANTS
  TypeOK
  WritesAreAllOrPrefix
  ReadsAreWhole
  ListingsAreTrue
  DeletesAreComplete
  MadeDirectoriesExist
SYMMETRY Symmetry
