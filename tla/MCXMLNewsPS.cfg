CONSTANTS
  MaxConexiones = 2
  Hilos = {t1, t2}
  Noticias = {n1, n2}
  Largas = {n2}
SPECIFICATION Spec
INVARIANTS
  TypeOK
  ConfirmadaNoSePierde
  ConfirmadaSeEntrega
  UnSoloRequestOK
CHECK_DEADLOCK FALSE
