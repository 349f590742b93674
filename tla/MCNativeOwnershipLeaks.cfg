\* Three calls; std::vector construction may throw bad_alloc and the
\* caller may move an empty SSL_BIGNUM_Ptr into _ECDSA_SIG_set0.
CONSTANTS
  Null = Null
  None = None
  Throw = Throw
  EVP_MAX_MD_SIZE = 3
  EVP_MAX_BLOCK_LENGTH = 2
  MaxSecret = 3
  MaxDer = 2
  MaxRead = 3
  IntMax = 2
  DeriveWritesLess = FALSE
  VectorAllocMayFail = TRUE
  MaxCalls = 3
  MaxHandles = 4
  GenLeavesKeyOnFailure = FALSE
  EmptyHolderArgs = TRUE
SPECIFICATION Spec
INVARIANT
  RefcountIsOwners
