CONSTANTS
  pasarAMayusculas <- MCMayusculas
  largo <- MCLargo
  filtro <- MCFiltro
  codificar <- MCCodificar
  Escapes <- MCEscapes
  Cortes <- MCCortes
  MaxListado = 1
  Clientes = {c1, c2}
  Hilos = {1, 2}
  Fds = {3, 4}
  Pedidos <- MCPedidos
  Noticias <- MCNoticias
SPECIFICATION MCSpec
INVARIANTS
  TypeOK
  CacheCoherente
  RespuestaCorrecta
PROPERTIES
  NingunEnlaceRoto
  TodoPedidoSeResponde
CHECK_DEADLOCK FALSE
