CONSTANTS
  pasarAMayusculas <- MCMayusculas
  largo <- MCLargo
  filtro <- MCFiltro
  MaxListado = 1
  Clientes = {c1, c2}
  Comandos <- MCTodos
  Noticias <- MCNoticias
  MaxComandos = 1
SPECIFICATION MCSpec
INVARIANT RangoDelGrupo
CHECK_DEADLOCK FALSE
