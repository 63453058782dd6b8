CONSTANTS
  pasarAMayusculas <- MCMayusculas
  largo <- MCLargo
  filtro <- MCFiltro
  MaxListado = 3
  Entradas <- MCEntradas
  Busquedas <- MCBusquedas
  Pedidas <- MCPedidas
  Hilos = {1, 2}
  Handles = {k1, k2}
  INVALIDO = INVALIDO
  MaxLineas <- MCMaxLineas
SPECIFICATION MCSpec
INVARIANTS
  OrdenDelRepositorioSirve
  AceptadaFiel
  LineasEnteras
  PerdidaExplicada
  ConsultaDeUnMomento
PROPERTIES
  LogPerdidoNoVuelve
CHECK_DEADLOCK FALSE
