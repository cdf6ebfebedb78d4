SPECIFICATION FsSpec
CHECK_DEADLOCK FALSE
CONSTANTS
  Names <- MCNames
  Archives <- MCArchives
  Paths <- MCPaths
  MaxVersion = 2
  MaxCopies = 2
INVARIANTS LikeDirectory TempFilesKept
