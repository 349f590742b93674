CONSTANTS
  Null = Null
  None = None
  Throw = Throw
  SecondsPerDay = 3
  TicksPerSecond = 3
  TimePointBits = 6
  TimeTBits = 3
  MinAsn1TimeAsTimeT <- MCMinAsn1TimeAsTimeT
  MaxAsn1TimeAsTimeT = 12
  SetTicks <- MCSetTicks
  CertTimes <- MCCertTimes
SPECIFICATION Spec
INVARIANT
  SetGetRoundTrip
