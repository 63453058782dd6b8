CONSTANTS
  MaxConexiones = 2
  Noticias = {"n1", "n2"}
  encoding <- MCEncoding
  Newsgroup = "ole"
  Senders = {s1}
  MaxHora = 2
  Hilos = {t1, t2}
  Largas = {}
  Caidas = {}
SPECIFICATION SpecPublicacion
INVARIANT GuardadoQueda
CHECK_DEADLOCK FALSE
