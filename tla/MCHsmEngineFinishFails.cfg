\* One object; ENGINE_finish may return 0 in the destructor.  With
\* FinishMayFail = FALSE the invariant still fails, on the member order.
CONSTANTS
  Null = Null
  Engine = Engine
  Key = Key
  MaxPush = 1
  MaxSessions = 1
  MaxKeyLoads = 1
  FinishMayFail = TRUE
SPECIFICATION Spec
INVARIANT
  TeardownBeforeStringsReleased
