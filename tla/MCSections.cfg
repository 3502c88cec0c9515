SPECIFICATION Spec
CONSTANTS
  Broadcast <- MCBroadcast
  MaxSections = 2
INVARIANTS
  DecodedAsSent
  EndsAtCrc
  
CHECK_DEADLOCK FALSE
