\* Every failing native call pushes one error-queue entry; the sites are
\* the callChecked table, _EVP_PKEY_keygen, the EVP_CIPHER_CTX length
\* checks and _ASN1_TIME_copy.
CONSTANTS
  Null = Null
  None = None
  Own = Own
  PushCounts = {1}
  ErrQueueCap = 3
  MaxCalls = 10
SPECIFICATION Spec
INVARIANTS
  ErrorsAttributed
