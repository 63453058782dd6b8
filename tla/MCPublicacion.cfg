CONSTANTS
  MaxConexiones = 2
  Noticias = {"n1", "n2"}
  encoding <- MCEncoding
  Newsgroup = "ole"
  Senders = {s1, s2}
  MaxHora = 2
  Hilos = {t1, t2}
  Largas = {"n2 sin tildes"}
  Caidas = {"xml"}
SPECIFICATION SpecPublicacion
SYMMETRY Simetria
INVARIANTS
  TypeOKPublisher
  MarcadaFueConfirmada
  MarcadaLlega
  SoloLoPublicado
CHECK_DEADLOCK FALSE
