CONSTANTS
  Lineas <- MCLineas
  Largas <- MCLargas
  MaxComandos = 4
SPECIFICATION FairSpec
PROPERTY LaUITermina
CHECK_DEADLOCK FALSE
