CONSTANTS
  MaxConexiones = 2
  Noticias = {"n1", "n2"}
  encoding <- MCEncoding
  Newsgroup = "ole"
  Senders = {s1}
  MaxHora = 2
  Hilos = {t1}
  Largas = {}
  Caidas = {"publisher", "xml", "opends", "procesador"}
  Prueba = 999999
SPECIFICATION MCSpec
INVARIANT
  TransmitidaEnCamino
PROPERTY
  CumpleEntrega
CHECK_DEADLOCK FALSE
