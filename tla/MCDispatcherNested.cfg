SPECIFICATION Spec
CONSTANTS
  Kind = {tuner, ready}
  MaxIds = 4
  MaxDepth = 3
INVARIANTS
  ToldInOrder
  NoGaps
PROPERTIES
  NobodyMissed
  StoppedAlone
SYMMETRY Symmetry
