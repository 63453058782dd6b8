CONSTANTS
  Prueba = 999999
  Articulos <- MCArticulos
  MaxRecibidos = 3
SPECIFICATION FairSpec
INVARIANTS
  TypeOK
  NadaSePierde
  CopiasNoCrecen
PROPERTY
  Drenaje
CHECK_DEADLOCK FALSE
