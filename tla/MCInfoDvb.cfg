SPECIFICATION Spec
CONSTANTS
  Air <- MCAir
  Listed <- MCListed
  MaxFound = 2
  MaxChannels = 4
  MaxNumber = 3
INVARIANTS
  
  OwnedOnce
  
  NamesFit
PROPERTIES
  OnlyOneMoves
