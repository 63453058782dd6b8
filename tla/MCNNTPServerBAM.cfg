CONSTANTS
  pasarAMayusculas <- MCMayusculas
  largo <- MCLargo
  filtro <- MCFiltro
  MaxListado = 1
  Clientes = {c1, c2}
  Comandos <- MCConocidos
  Noticias <- MCNoticias
  MaxComandos = 2
SPECIFICATION MCSpec
INVARIANTS
  TypeOK
PROPERTIES
  CumpleSesion
  RespuestaVeraz
  MuerteExplicada
  TodosSonAtendidos
CHECK_DEADLOCK FALSE
