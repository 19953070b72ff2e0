\* Two ids, two values, sessions nested three deep, two history lengths.
SPECIFICATION Spec
CONSTANTS
  MaxId = 2
  Values = {v1, v2}
  None = None
  Sizes = {2, 3}
  MaxDepth = 3
INVARIANTS
  TypeOK
  EntriesRestore
  
PROPERTY
  ImplementsSnapshots
