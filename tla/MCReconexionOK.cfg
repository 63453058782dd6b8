CONSTANTS
  Prueba = 999999
  Articulos <- MCArticulos
  MaxRecibidos = 2
SPECIFICATION Spec
PROPERTY ReconexionOK
CHECK_DEADLOCK FALSE
