CONSTANTS
  Null = Null
  None = None
  Throw = Throw
  LongBits = 4
  ByteBits = 2
  CertSerials <- MCCertSerials
SPECIFICATION Spec
INVARIANT
  BinaryAgreesWithDecimal
