\* All sites; a failing native call pushes one or two entries (two: as
\* ENGINE_by_id does when loading a dynamic engine fails).
CONSTANTS
  Null = Null
  None = None
  Own = Own
  PushCounts = {1, 2}
  ErrQueueCap = 3
  MaxCalls = 3
SPECIFICATION SpecAll
INVARIANTS
  ErrorsAttributed
