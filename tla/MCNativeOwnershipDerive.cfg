CONSTANTS
  Null = Null
  None = None
  Throw = Throw
  EVP_MAX_MD_SIZE = 3
  EVP_MAX_BLOCK_LENGTH = 2
  MaxSecret = 3
  MaxDer = 2
  MaxRead = 3
  IntMax = 2
  DeriveWritesLess = TRUE
  VectorAllocMayFail = FALSE
  MaxCalls = 2
  MaxHandles = 4
  GenLeavesKeyOnFailure = FALSE
  EmptyHolderArgs = FALSE
SPECIFICATION Spec
INVARIANT
  ReturnedIsWritten
