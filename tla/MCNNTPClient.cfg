CONSTANTS
  Lineas <- MCLineas
  Largas <- MCLargas
  MaxComandos = 4
SPECIFICATION FairSpec
INVARIANTS
  TypeOK
  ComandoEnUnaMano
  NingunUnlockPerdido
  RespuestaDeLaLinea
PROPERTIES
  CumpleSesion
  TodaLineaSeResponde
CHECK_DEADLOCK FALSE
