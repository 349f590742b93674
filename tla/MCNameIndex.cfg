CONSTANTS
  CN = CN
  O = O
  OU = OU
  Nids <- MCNids
  QueryNids <- MCQueryNids
  KnownNids <- MCKnownNids
  MaxNameLen = 5
SPECIFICATION Spec
INVARIANTS
  TypeOK
  ResultIsReference
PROPERTIES
  Terminates
