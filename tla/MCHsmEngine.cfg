\* Three objects in a row, two key loads each, one error-queue entry per
\* failing native call, ENGINE_finish always succeeds.
CONSTANTS
  Null = Null
  Engine = Engine
  Key = Key
  MaxPush = 1
  MaxSessions = 3
  MaxKeyLoads = 2
  FinishMayFail = FALSE
SPECIFICATION Spec
INVARIANTS
  TypeOK
  NoEngineLeak
PROPERTIES
  SessionSpec
