------------------------- MODULE NNTPServerBAM_proofs -------------------------
(***************************************************************************)
(* NNTPServerBAM, for any number of clients, commands and articles: it     *)
(* keeps its side of the session with each client, what it answers is true *)
(* of the directory, and what may kill it is known.                        *)
(***************************************************************************)
EXTENDS NNTPServerBAM, Consultas_proofs

-----------------------------------------------------------------------------
(* The invariant.                                                          *)

\* The directory has some of the articles, as they are; the session was lost
\* if OpenDS is down.
Directorio ==
  /\ IsFiniteSet(DOMAIN bd) /\ DOMAIN bd \subseteq DOMAIN Noticias
  /\ \A id \in DOMAIN bd : bd[id] = Noticias[id]
  /\ openDSArriba \in BOOLEAN /\ sesionPerdida \in BOOLEAN
  /\ ~ openDSArriba => sesionPerdida

\* A client in its turn: it has sent nothing that was not answered; or its
\* command waits to be read; or it was read and is the one being executed, or
\* the one that killed the server.
AlDia(c) == aServidor[c] = <<>> /\ Len(pedidos[c]) = Len(respuestas[c])
Pedido(c) == /\ Len(pedidos[c]) = Len(respuestas[c]) + 1
             /\ aServidor[c] = <<Last(pedidos[c])>>
EnCurso(c) == /\ aServidor[c] = <<>> /\ czMsg = Last(pedidos[c])
              /\ Len(pedidos[c]) = Len(respuestas[c]) + 1

Atendido(c) == pcBam \in {"responder", "muerto"} /\ c = iSockClient

Turno(c) ==
  /\ estado[c] \in {"libre", "conectado", "mudo"} =>
       aServidor[c] = <<>> /\ pedidos[c] = <<>> /\ respuestas[c] = <<>>
  /\ estado[c] = "cifrado" =>
       IF Atendido(c) THEN EnCurso(c) ELSE AlDia(c) \/ Pedido(c)

Lugares == {"select", "accept", "SSL_accept", "leer", "responder", "teclado",
            "fin", "muerto"}
Estados == {"libre", "conectado", "mudo", "cifrado"} \cup Idos

Listado(ids) == [codigo |-> 211, ids |-> ids, number |-> Cardinality(ids),
                 low |-> Min(ids \cup {99999999}), high |-> Max(ids \cup {0})]

Posibles ==
  {[codigo |-> 215, grupos |-> s] : s \in Seq(DOMAIN pasarAMayusculas)}
  \cup {[codigo |-> k] : k \in {205, 411, 412, 430}}
  \cup {Listado(ids) : ids \in SUBSET DOMAIN Noticias}
  \cup {[codigo |-> k, articulo |-> a] : k \in {200, 221, 222, 223}, a \in Articulos}

\* Where the server is, and with whom.
Atencion ==
  /\ pcBam \in Lugares /\ read_fds \subseteq {"escucha", "cliente", "teclado"}
  /\ iSockClient \in Clientes \cup {NoCliente}
  /\ czMsg \in Comandos \cup {SinComando}
  /\ backlog \in Seq(Clientes)
  /\ pcBam = "accept" => backlog # <<>>
  /\ pcBam \in {"SSL_accept", "responder"} => iSockClient \in Clientes
  /\ pcBam = "responder" =>
       czMsg \in Comandos \/ estado[iSockClient] \in Idos
  /\ teclado \in {"", "S"}

Sesiones ==
  /\ estado \in [Clientes -> Estados]
  /\ aServidor \in [Clientes -> Seq(Comandos)]
  /\ pedidos \in [Clientes -> Seq(Comandos)]
  /\ respuestas \in [Clientes -> Seq(Posibles)]
  /\ \A c \in Clientes : Turno(c)

Bam == Directorio /\ Atencion /\ Sesiones

-----------------------------------------------------------------------------
(* The answers.                                                            *)

LEMMA ConCodigo == DOMAIN Codigo = {"ARTICLE", "HEAD", "BODY", "STAT"}
                   /\ \A k \in DOMAIN Codigo : Codigo[k] \in {200, 221, 222, 223}
                   /\ SinComando \notin Comandos
<1>1. SinComando.nombre = ""
  BY DEF SinComando
<1>2. SinComando \notin Comandos
  BY <1>1, ComandosAssumption
<1>3. QED
  BY <1>2 DEF Codigo

\* The bounds low and high start at are too long a number for Zenon.
LEMMA ListadoEs ==
  ASSUME NEW ids
  PROVE  /\ "codigo" \in DOMAIN Listado(ids)
         /\ Listado(ids).codigo = 211 /\ Listado(ids).ids = ids
BY SMT DEF Listado

LEMMA PosiblesBien == \A r \in Posibles : EsRespuesta(r)
BY SMT, ListadoEs DEF Posibles, EsRespuesta

\* The answers to LISTGROUP.
LEMMA ContestaListado ==
  ASSUME NEW r, NEW m, r.codigo = 211 \/ r.codigo = 411 \/ r.codigo = 412,
         m.nombre = "LISTGROUP"
  PROVE  Contesta(r, m)
BY DEF Contesta

\* The search for a name that can be searched finds every article of its newsgroup.
LEMMA LoBuscadoSeEncuentra ==
  ASSUME Directorio, NEW g, Buscable(g), NEW id \in DOMAIN bd, MismoGrupo(bd[id].grupo, g)
  PROVE  CriterioValido(g) /\ Coincide(bd[id].grupo, g)
<1>1. bd[id].grupo \in DOMAIN pasarAMayusculas
  BY NoticiasAssumption DEF Directorio
<1>2. QED
  BY <1>1 DEF Buscable

\* What a command is answered with a result set or without one.
LEMMA RespuestaBien ==
  ASSUME Directorio, NEW m \in Comandos,
         NEW hay \in HayResultSet(openDSArriba, sesionPerdida, Criterio(m)),
         ~ SeSaleDelArreglo(m, hay), NEW r \in Respuestas(m, hay)
  PROVE  /\ r \in Posibles /\ Contesta(r, m)
         /\ r.codigo = 215 => EsListadoDeGrupos(r.grupos, bd)
         /\ r.codigo = 430 /\ ~ sesionPerdida /\ Buscable(m.grupo) =>
              ~ \E id \in DOMAIN bd : id = m.id /\ MismoGrupo(bd[id].grupo, m.grupo)
         /\ r.codigo = 411 /\ ~ sesionPerdida /\ Buscable(m.grupo) =>
              ~ \E id \in DOMAIN bd : MismoGrupo(bd[id].grupo, m.grupo)
<1>1. m.nombre \in {"LIST", "QUIT", "LISTGROUP"} \cup DOMAIN Codigo
  BY ComandosAssumption, ConCodigo
<1>2. hay = TRUE \/ sesionPerdida \/ ~ Criterio(m)
  BY DEF HayResultSet, Directorio
<1>3. CASE m.nombre = "LIST"
  <2>1. PICK s \in ListadosDeGrupos(bd) : r = [codigo |-> 215, grupos |-> s]
    BY <1>3 DEF Respuestas
  <2>2. GruposDe(bd) \subseteq DOMAIN pasarAMayusculas \ {Repetido}
    BY NoticiasAssumption DEF Directorio, GruposDe
  <2>3. s \in Seq(GruposDe(bd)) /\ EsListadoDeGrupos(s, bd)
    BY <2>2, ListadoCorrecto DEF Directorio
  <2>4. s \in Seq(DOMAIN pasarAMayusculas)
    BY <2>2, <2>3
  <2>5. QED
    BY <1>3, <2>1, <2>3, <2>4 DEF Posibles, Contesta
<1>4. CASE m.nombre = "QUIT"
  <2>1. r = [codigo |-> 205]
    BY <1>4 DEF Respuestas
  <2>2. QED
    BY <1>4, <2>1 DEF Posibles, Contesta
<1>5. CASE m.nombre = "LISTGROUP" /\ m.grupo = ""
  <2>1. r = [codigo |-> 412]
    BY <1>5 DEF Respuestas
  <2>2. r \in Posibles /\ r.codigo = 412
    BY <2>1 DEF Posibles
  <2>3. m.nombre = "LISTGROUP"
    BY <1>5
  <2>4. Contesta(r, m)
    BY <2>2, <2>3, ContestaListado
  <2>5. QED
    BY <2>2, <2>4
<1>6. CASE m.nombre = "LISTGROUP" /\ m.grupo # ""
  <2> DEFINE ids == selectArticles(bd, m.grupo)
  <2>0. m.nombre = "LISTGROUP"
    BY <1>6
  <2>1. r = IF ids = {} THEN [codigo |-> 411] ELSE Listado(ids)
    <3>1. Respuestas(m, hay) = {RespuestaListGroup(m.grupo)}
      BY <1>6 DEF Respuestas
    <3>2. r = RespuestaListGroup(m.grupo)
      BY <3>1
    <3>3. QED
      BY SMT, <3>2 DEF RespuestaListGroup, Listado
  <2>2. ids \in SUBSET DOMAIN Noticias
    BY DEF selectArticles, Directorio
  <2>3. ids = {} /\ Buscable(m.grupo) =>
          ~ \E id \in DOMAIN bd : MismoGrupo(bd[id].grupo, m.grupo)
    BY LoBuscadoSeEncuentra DEF selectArticles
  <2> HIDE DEF ids
  <2>4. CASE ids = {}
    <3>1. r \in Posibles /\ r.codigo = 411
      BY <2>1, <2>4 DEF Posibles
    <3>2. QED
      BY <2>0, <2>3, <2>4, <3>1, ContestaListado
  <2>5. CASE ids # {}
    <3>1. r = Listado(ids) /\ r.codigo = 211
      BY <2>1, <2>5, ListadoEs
    <3>2. r \in Posibles
      BY <2>2, <3>1 DEF Posibles
    <3>3. QED
      BY <2>0, <3>1, <3>2, ContestaListado
  <2>6. QED
    BY <2>4, <2>5
<1>7. CASE m.nombre \in DOMAIN Codigo
  <2> DEFINE a == getArticle(bd, hay, m.grupo, m.id)
  <2>1. r = IF a.encontrado THEN [codigo |-> Codigo[m.nombre], articulo |-> a]
            ELSE [codigo |-> 430]
    BY <1>7, ConCodigo DEF Respuestas, RespuestaArticulo
  <2>2. CASE hay /\ m.id \in DOMAIN bd /\ Coincide(bd[m.id].grupo, m.grupo)
    <3>1. a = Encontrado(m.id, m.grupo, bd[m.id].noticia)
      BY <2>2 DEF getArticle
    <3>2. a \in Articulos
      <4>1. m.id \in DOMAIN Noticias /\ bd[m.id].noticia = Noticias[m.id].noticia
        BY <2>2 DEF Directorio
      <4>2. QED
        BY <1>7, <3>1, <4>1 DEF Articulos
    <3>3. /\ a.encontrado = TRUE /\ a.id = m.id /\ a.grupo = m.grupo
      BY <3>1 DEF Encontrado
    <3> HIDE DEF a
    <3>4. r = [codigo |-> Codigo[m.nombre], articulo |-> a]
      BY <2>1, <3>3
    <3>5. QED
      BY <1>7, <3>2, <3>3, <3>4, ConCodigo DEF Posibles, Contesta, MismoGrupo
  <2>3. CASE ~ (hay /\ m.id \in DOMAIN bd /\ Coincide(bd[m.id].grupo, m.grupo))
    <3>1. a.encontrado = FALSE
      BY <2>3 DEF getArticle, NoEncontrado
    <3>2. r = [codigo |-> 430]
      BY <2>1, <3>1
    <3>3. ~ sesionPerdida /\ Buscable(m.grupo) =>
            ~ \E id \in DOMAIN bd : id = m.id /\ MismoGrupo(bd[id].grupo, m.grupo)
      <4>1. SUFFICES ASSUME ~ sesionPerdida, Buscable(m.grupo), m.id \in DOMAIN bd,
                            MismoGrupo(bd[m.id].grupo, m.grupo)
                     PROVE  FALSE
        OBVIOUS
      <4>2. CriterioValido(m.grupo) /\ Coincide(bd[m.id].grupo, m.grupo)
        BY <4>1, LoBuscadoSeEncuentra
      <4>3. hay = TRUE
        BY <1>2, <4>1, <4>2 DEF Criterio
      <4>4. QED
        BY <2>3, <4>1, <4>2, <4>3
    <3>4. QED
      BY <1>7, <3>2, <3>3 DEF Posibles, Contesta
  <2>4. QED
    BY <2>2, <2>3
<1>8. QED
  BY <1>1, <1>3, <1>4, <1>5, <1>6, <1>7

-----------------------------------------------------------------------------
(* The invariant is inductive.                                             *)

LEMMA BamInicial == Init => Bam
<1> SUFFICES ASSUME Init PROVE Bam
  OBVIOUS
<1>1. Directorio
  BY FS_EmptySet DEF Init, Directorio
<1>2. teclado \in {"", "S"}
  BY DEF Init
<1>3. czMsg \in Comandos \cup {SinComando}
  BY DEF Init
<1>4. /\ pcBam = "select" /\ read_fds = {} /\ iSockClient = NoCliente
      /\ backlog = <<>> /\ estado = [c \in Clientes |-> "libre"]
      /\ aServidor = [c \in Clientes |-> <<>>] /\ pedidos = [c \in Clientes |-> <<>>]
      /\ respuestas = [c \in Clientes |-> <<>>]
  BY DEF Init
<1>5. Atencion
  <2>1. /\ pcBam \in Lugares /\ read_fds \subseteq {"escucha", "cliente", "teclado"}
        /\ iSockClient \in Clientes \cup {NoCliente}
        /\ backlog \in Seq(Clientes)
        /\ pcBam \notin {"accept", "SSL_accept", "responder"}
    BY <1>4 DEF Lugares
  <2>2. QED
    BY <1>2, <1>3, <2>1 DEF Atencion
<1>6. Sesiones
  <2>1. ASSUME NEW c \in Clientes PROVE Turno(c)
    BY <1>4 DEF Turno
  <2>2. <<>> \in Seq(Comandos) /\ <<>> \in Seq(Posibles)
    OBVIOUS
  <2>3. QED
    BY <1>4, <2>1, <2>2 DEF Sesiones, Estados
<1>7. QED
  BY <1>1, <1>5, <1>6 DEF Bam

\* The steps of the server's thread that only move it.
LEMMA PasoDelLazo ==
  ASSUME Bam, Select \/ NoLeer \/ Desconectar \/ Teclado \/ Muere
  PROVE  Bam'
<1>1. Directorio'
  BY DEF Bam, Directorio, openDS, Select, NoLeer, Desconectar, Teclado, Muere
<1>2. teclado' \in {"", "S"} /\ read_fds' \subseteq {"escucha", "cliente", "teclado"}
  BY DEF Bam, Atencion, Select, NoLeer, Desconectar, Teclado, Muere, Listos
<1>3. pcBam' = "accept" => backlog # <<>>
  BY DEF Select, NoLeer, Desconectar, Teclado, Muere, Listos
<1>4. /\ pcBam' \in Lugares \ {"SSL_accept", "responder"}
      /\ iSockClient' \in Clientes \cup {NoCliente}
      /\ czMsg' = czMsg
      /\ UNCHANGED clientes
  BY DEF Bam, Atencion, Lugares, Select, NoLeer, Desconectar, Teclado, Muere
<1>5. Atencion'
  BY <1>2, <1>3, <1>4 DEF Bam, Atencion, clientes
<1>6. ASSUME NEW c \in Clientes PROVE Turno(c)'
  <2>1. Turno(c) /\ pcBam # "muerto"
    BY DEF Bam, Sesiones, Select, NoLeer, Desconectar, LeerDelCliente, Teclado, Muere
  <2>2. Atendido(c)' <=> Atendido(c)
    BY <2>1 DEF Atendido, Select, NoLeer, Desconectar, LeerDelCliente, Teclado, Muere
  <2>3. QED
    BY <1>4, <2>1, <2>2 DEF Turno, EnCurso, AlDia, Pedido, clientes
<1>7. Sesiones'
  BY <1>4, <1>6 DEF Bam, Sesiones, clientes
<1>8. QED
  BY <1>1, <1>5, <1>7 DEF Bam

\* accept takes the first of the connections that wait.
LEMMA PasoAccept == ASSUME Bam, Acepta_Conexion_Cliente PROVE Bam'
<1>1. Directorio'
  BY DEF Bam, Directorio, openDS, Acepta_Conexion_Cliente
<1>2. teclado' \in {"", "S"}
  BY DEF Bam, Atencion, Acepta_Conexion_Cliente
<1>3. backlog \in Seq(Clientes) /\ backlog # <<>>
  BY DEF Bam, Atencion, Acepta_Conexion_Cliente
<1>4. Head(backlog) \in Clientes /\ Tail(backlog) \in Seq(Clientes)
  BY <1>3
<1>5. /\ backlog' = Tail(backlog) /\ pcBam = "accept"
      /\ \/ iSockClient' = Head(backlog) /\ pcBam' = "SSL_accept"
         \/ iSockClient' = NoCliente /\ pcBam' = "leer"
      /\ UNCHANGED <<read_fds, czMsg, estado, aServidor, pedidos, respuestas>>
  BY DEF Acepta_Conexion_Cliente
<1>6. /\ iSockClient' \in Clientes \cup {NoCliente}
      /\ pcBam' = "SSL_accept" => iSockClient' \in Clientes
      /\ pcBam' \in {"SSL_accept", "leer"}
  BY <1>4, <1>5
<1>7. Atencion'
  BY <1>2, <1>4, <1>5, <1>6 DEF Bam, Atencion, Lugares
<1>8. ASSUME NEW c \in Clientes PROVE Turno(c)'
  <2>1. ~ Atendido(c) /\ ~ Atendido(c)' /\ Turno(c)
    BY <1>5 DEF Bam, Sesiones, Atendido
  <2>2. QED
    BY <1>5, <2>1 DEF Turno, AlDia, Pedido
<1>9. Sesiones'
  BY <1>5, <1>8 DEF Bam, Sesiones
<1>10. QED
  BY <1>1, <1>7, <1>9 DEF Bam

\* The handshake: the session starts with nothing sent.
LEMMA PasoSSLAccept == ASSUME Bam, SSL_accept \/ SSL_acceptFalla PROVE Bam'
<1>1. Directorio'
  BY DEF Bam, Directorio, openDS, SSL_accept, SSL_acceptFalla
<1>2. teclado' \in {"", "S"}
  BY DEF Bam, Atencion, SSL_accept, SSL_acceptFalla
<1>3. /\ pcBam = "SSL_accept" /\ pcBam' = "leer" /\ iSockClient \in Clientes
      /\ iSockClient' \in {iSockClient, NoCliente}
      /\ UNCHANGED <<read_fds, czMsg, backlog, aServidor, pedidos, respuestas>>
  BY DEF Bam, Atencion, SSL_accept, SSL_acceptFalla
<1>4. \/ estado' = estado
      \/ estado[iSockClient] = "conectado"
         /\ estado' = [estado EXCEPT ![iSockClient] = "cifrado"]
      \/ estado' = [estado EXCEPT ![iSockClient] = "cerrado"]
  BY DEF SSL_accept, SSL_acceptFalla
<1>5. Atencion'
  BY <1>2, <1>3 DEF Bam, Atencion, Lugares
<1>6. estado \in [Clientes -> Estados]
  BY DEF Bam, Sesiones
<1>7. ASSUME NEW c \in Clientes PROVE Turno(c)'
  <2>1. ~ Atendido(c) /\ ~ Atendido(c)' /\ Turno(c)
    BY <1>3 DEF Bam, Sesiones, Atendido
  <2>2. CASE estado'[c] = estado[c]
    BY <1>3, <2>1, <2>2 DEF Turno, AlDia, Pedido
  <2>3. CASE estado[c] = "conectado" /\ estado'[c] = "cifrado"
    <3>1. aServidor[c] = <<>> /\ pedidos[c] = <<>> /\ respuestas[c] = <<>>
      BY <2>1, <2>3 DEF Turno
    <3>2. AlDia(c)'
      BY <1>3, <3>1 DEF AlDia
    <3>3. QED
      BY <2>1, <2>3, <3>2 DEF Turno
  <2>4. CASE estado'[c] = "cerrado"
    BY <2>4 DEF Turno
  <2>5. QED
    BY <1>4, <1>6, <2>2, <2>3, <2>4
<1>8. estado' \in [Clientes -> Estados]
  BY <1>4, <1>6 DEF Estados, Idos
<1>9. Sesiones'
  BY <1>3, <1>7, <1>8 DEF Bam, Sesiones
<1>10. QED
  BY <1>1, <1>5, <1>9 DEF Bam

\* SSL_read: the command read is the one the client waits for, or the client
\* is gone.
LEMMA PasoLeer == ASSUME Bam, LeerComando \/ LeerError PROVE Bam'
<1>1. Directorio'
  BY DEF Bam, Directorio, openDS, LeerComando, LeerError
<1>2. teclado' \in {"", "S"}
  BY DEF Bam, Atencion, LeerComando, LeerError
<1>3. /\ pcBam = "leer" /\ pcBam' = "responder" /\ iSockClient # NoCliente
      /\ iSockClient \in Clientes
      /\ UNCHANGED <<read_fds, iSockClient, backlog, pedidos, respuestas>>
  BY DEF Bam, Atencion, LeerComando, LeerError, LeerDelCliente
<1>4. /\ estado \in [Clientes -> Estados]
      /\ aServidor \in [Clientes -> Seq(Comandos)]
      /\ \A c \in Clientes : Turno(c)
  BY DEF Bam, Sesiones
<1>5. CASE LeerComando
  <2>1. /\ aServidor[iSockClient] # <<>>
        /\ czMsg' = Head(aServidor[iSockClient]) /\ estado' = estado
        /\ aServidor' = [aServidor EXCEPT ![iSockClient] = Tail(aServidor[iSockClient])]
    BY <1>5 DEF LeerComando, Recibido
  <2>2. aServidor[iSockClient] \in Seq(Comandos)
    BY <1>3, <1>4
  <2>3. /\ czMsg' \in Comandos
        /\ Tail(aServidor[iSockClient]) \in Seq(Comandos)
    BY <2>1, <2>2
  <2>4. Atencion'
    BY <1>2, <1>3, <2>3 DEF Bam, Atencion, Lugares
  <2>5. ASSUME NEW c \in Clientes PROVE Turno(c)'
    <3>1. Turno(c) /\ ~ Atendido(c)
      BY <1>3, <1>4 DEF Atendido
    <3>2. CASE c = iSockClient
      <4>1. estado[c] \notin {"libre", "conectado", "mudo"}
        BY <2>1, <3>1, <3>2 DEF Turno
      <4>2. CASE estado[c] = "cifrado"
        <5>1. Pedido(c)
          BY <2>1, <3>1, <3>2, <4>2 DEF Turno, AlDia
        <5>2. aServidor'[c] = Tail(aServidor[c])
          BY <1>4, <2>1, <3>2
        <5>3. EnCurso(c)'
          BY <1>3, <2>1, <3>2, <5>1, <5>2 DEF EnCurso, Pedido, Last
        <5>4. Atendido(c)'
          BY <1>3, <3>2 DEF Atendido
        <5>5. QED
          BY <2>1, <4>1, <5>3, <5>4 DEF Turno
      <4>3. CASE estado[c] # "cifrado"
        BY <2>1, <4>1, <4>3 DEF Turno
      <4>4. QED
        BY <4>2, <4>3
    <3>3. CASE c # iSockClient
      <4>1. ~ Atendido(c)' /\ aServidor'[c] = aServidor[c]
        BY <1>3, <1>4, <2>1, <3>3 DEF Atendido
      <4>2. QED
        BY <1>3, <2>1, <3>1, <4>1 DEF Turno, AlDia, Pedido
    <3>4. QED
      BY <3>2, <3>3
  <2>6. aServidor' \in [Clientes -> Seq(Comandos)]
    BY <1>4, <2>1, <2>3
  <2>7. Sesiones'
    BY <1>3, <2>1, <2>5, <2>6 DEF Bam, Sesiones
  <2>8. QED
    BY <1>1, <2>4, <2>7 DEF Bam
<1>6. CASE LeerError
  <2>1. /\ estado' = [estado EXCEPT ![iSockClient] = "roto"]
        /\ aServidor' = [aServidor EXCEPT ![iSockClient] = <<>>]
        /\ czMsg' = czMsg
    BY <1>6 DEF LeerError
  <2>2. estado'[iSockClient] = "roto"
    BY <1>3, <1>4, <2>1
  <2>3. Atencion'
    BY <1>2, <1>3, <2>1, <2>2 DEF Bam, Atencion, Lugares, Idos
  <2>4. ASSUME NEW c \in Clientes PROVE Turno(c)'
    <3>1. CASE c = iSockClient
      BY <2>2, <3>1 DEF Turno
    <3>2. CASE c # iSockClient
      <4>1. /\ ~ Atendido(c) /\ ~ Atendido(c)' /\ Turno(c)
            /\ aServidor'[c] = aServidor[c] /\ estado'[c] = estado[c]
        BY <1>3, <1>4, <2>1, <3>2 DEF Atendido
      <4>2. QED
        BY <1>3, <4>1 DEF Turno, AlDia, Pedido
    <3>3. QED
      BY <3>1, <3>2
  <2>5. <<>> \in Seq(Comandos) /\ "roto" \in Estados
    BY DEF Estados, Idos
  <2>6. /\ aServidor' \in [Clientes -> Seq(Comandos)]
        /\ estado' \in [Clientes -> Estados]
    BY <1>4, <2>1, <2>5
  <2>7. Sesiones'
    BY <1>3, <2>4, <2>6 DEF Bam, Sesiones
  <2>8. QED
    BY <1>1, <2>3, <2>7 DEF Bam
<1>7. QED
  BY <1>5, <1>6

\* SSL_write: the answer is the one the client waits for, and true.
LEMMA PasoEscribir ==
  ASSUME Bam, SSL_write
  PROVE  /\ Bam'
         /\ \A c \in Clientes : respuestas'[c] # respuestas[c] =>
              \E hay \in HayResultSet(openDSArriba, sesionPerdida, Criterio(czMsg)) :
                \E r \in Respuestas(czMsg, hay) :
                  /\ ~ SeSaleDelArreglo(czMsg, hay) /\ czMsg \in Comandos
                  /\ estado[c] = "cifrado" /\ EnCurso(c)
                  /\ respuestas'[c] = Append(respuestas[c], r)
<1>1. Directorio /\ Directorio'
  BY DEF Bam, Directorio, openDS, SSL_write
<1>2. teclado' \in {"", "S"}
  BY DEF Bam, Atencion, SSL_write
<1>3. /\ pcBam = "responder" /\ pcBam' = "teclado" /\ iSockClient \in Clientes
      /\ czMsg \in Comandos \/ estado[iSockClient] \in Idos
      /\ UNCHANGED <<read_fds, iSockClient, czMsg, backlog, aServidor, pedidos>>
  BY DEF Bam, Atencion, SSL_write
<1>4. /\ estado \in [Clientes -> Estados]
      /\ respuestas \in [Clientes -> Seq(Posibles)]
      /\ \A c \in Clientes : Turno(c)
  BY DEF Bam, Sesiones
<1>5. Atencion'
  BY <1>2, <1>3 DEF Bam, Atencion, Lugares
<1> DEFINE Escrita(r) ==
        \/ /\ estado[iSockClient] = "cifrado"
           /\ respuestas' = [respuestas EXCEPT ![iSockClient]
                               = Append(respuestas[iSockClient], r)]
           /\ estado' = estado
        \/ /\ estado[iSockClient] = "cerrado"
           /\ estado' = [estado EXCEPT ![iSockClient] = "reset"]
           /\ respuestas' = respuestas
        \/ /\ estado[iSockClient] \in {"reset", "roto"}
           /\ UNCHANGED <<estado, respuestas>>
<1>6. PICK hay \in HayResultSet(openDSArriba, sesionPerdida, Criterio(czMsg)) :
        /\ ~ SeSaleDelArreglo(czMsg, hay)
        /\ \E r \in Respuestas(czMsg, hay) : Escrita(r)
  BY DEF SSL_write
<1>7. PICK r \in Respuestas(czMsg, hay) : Escrita(r)
  BY <1>6
<1>8. ASSUME NEW c \in Clientes, c # iSockClient
      PROVE  Turno(c)' /\ respuestas'[c] = respuestas[c]
  <2>1. /\ ~ Atendido(c) /\ ~ Atendido(c)' /\ Turno(c)
        /\ respuestas'[c] = respuestas[c] /\ estado'[c] = estado[c]
    BY <1>3, <1>4, <1>7, <1>8 DEF Atendido
  <2>2. QED
    BY <1>3, <2>1 DEF Turno, AlDia, Pedido
<1>9. CASE estado[iSockClient] # "cifrado"
  <2>1. /\ respuestas' = respuestas /\ estado'[iSockClient] \in Idos
        /\ estado' \in [Clientes -> Estados]
    BY <1>3, <1>4, <1>7, <1>9 DEF Idos, Estados
  <2>2. Turno(iSockClient)'
    BY <1>3, <2>1 DEF Turno, Idos
  <2>3. Sesiones'
    BY <1>3, <1>8, <2>1, <2>2 DEF Bam, Sesiones
  <2>4. QED
    BY <1>1, <1>5, <2>1, <2>3 DEF Bam
<1>10. CASE estado[iSockClient] = "cifrado"
  <2>1. /\ estado' = estado
        /\ respuestas' = [respuestas EXCEPT ![iSockClient]
                            = Append(respuestas[iSockClient], r)]
    BY <1>7, <1>10
  <2>2. czMsg \in Comandos
    BY <1>3, <1>10 DEF Idos
  <2>3. r \in Posibles
    BY <1>1, <1>6, <1>7, <2>2, RespuestaBien
  <2>4. respuestas[iSockClient] \in Seq(Posibles)
    BY <1>3, <1>4
  <2>5. /\ respuestas'[iSockClient] = Append(respuestas[iSockClient], r)
        /\ respuestas'[iSockClient] \in Seq(Posibles)
        /\ Len(respuestas'[iSockClient]) = Len(respuestas[iSockClient]) + 1
        /\ respuestas' \in [Clientes -> Seq(Posibles)]
    BY <1>3, <1>4, <2>1, <2>3, <2>4
  <2>6. EnCurso(iSockClient)
    BY <1>3, <1>4, <1>10 DEF Turno, Atendido
  <2>7. AlDia(iSockClient)' /\ ~ Atendido(iSockClient)'
    BY <1>3, <2>5, <2>6 DEF EnCurso, AlDia, Atendido
  <2>8. Turno(iSockClient)'
    BY <1>3, <1>10, <2>1, <2>7 DEF Turno
  <2>9. Sesiones'
    BY <1>3, <1>4, <1>8, <2>1, <2>5, <2>8 DEF Bam, Sesiones
  <2>10. Bam'
    BY <1>1, <1>5, <2>9 DEF Bam
  <2>11. QED
    BY <1>6, <1>7, <1>8, <1>10, <2>2, <2>5, <2>6, <2>10
<1>11. QED
  BY <1>9, <1>10

\* The clients.
LEMMA PasoDelCliente ==
  ASSUME Bam, NEW c \in Clientes,
         \/ ClienteConecta(c) \/ ClienteSeVa(c)
         \/ \E m \in Comandos : ClienteEnvia(c, m)
  PROVE  Bam'
<1>1. Directorio'
  BY DEF Bam, Directorio, openDS, ClienteConecta, ClienteSeVa, ClienteEnvia
<1>2. teclado' \in {"", "S"}
  BY DEF Bam, Atencion, ClienteConecta, ClienteSeVa, ClienteEnvia
<1>3. UNCHANGED <<pcBam, read_fds, iSockClient, czMsg>>
  BY DEF servidor, ClienteConecta, ClienteSeVa, ClienteEnvia
<1>4. /\ estado \in [Clientes -> Estados]
      /\ aServidor \in [Clientes -> Seq(Comandos)]
      /\ pedidos \in [Clientes -> Seq(Comandos)]
      /\ respuestas \in [Clientes -> Seq(Posibles)]
      /\ \A d \in Clientes : Turno(d)
  BY DEF Bam, Sesiones
<1>5. backlog \in Seq(Clientes)
  BY DEF Bam, Atencion
<1>6. /\ backlog' \in Seq(Clientes)
      /\ backlog # <<>> => backlog' # <<>>
  <2>1. backlog' = backlog \/ backlog' = Append(backlog, c)
    BY DEF ClienteConecta, ClienteSeVa, ClienteEnvia
  <2>2. QED
    BY <1>5, <2>1
<1>7. estado[iSockClient] \in Idos /\ iSockClient \in Clientes =>
        estado'[iSockClient] \in Idos
  BY <1>4 DEF Idos, ClienteConecta, ClienteSeVa, ClienteEnvia
<1>8. Atencion'
  BY <1>2, <1>3, <1>6, <1>7 DEF Bam, Atencion
<1>9. ASSUME NEW d \in Clientes, d # c PROVE Turno(d)'
  <2>1. /\ estado'[d] = estado[d] /\ aServidor'[d] = aServidor[d]
        /\ pedidos'[d] = pedidos[d] /\ respuestas'[d] = respuestas[d]
        /\ Turno(d)
    BY <1>4, <1>9 DEF ClienteConecta, ClienteSeVa, ClienteEnvia
  <2>2. QED
    BY <1>3, <2>1 DEF Turno, AlDia, Pedido, EnCurso, Atendido
<1>10. CASE ClienteConecta(c)
  <2>1. /\ estado[c] = "libre" /\ estado'[c] \in {"conectado", "mudo"}
        /\ estado' \in [Clientes -> Estados]
        /\ UNCHANGED <<aServidor, pedidos, respuestas>>
    BY <1>4, <1>10 DEF ClienteConecta, Estados
  <2>2. aServidor[c] = <<>> /\ pedidos[c] = <<>> /\ respuestas[c] = <<>>
    BY <1>4, <2>1 DEF Turno
  <2>3. Turno(c)'
    BY <2>1, <2>2 DEF Turno
  <2>4. Sesiones'
    BY <1>4, <1>9, <2>1, <2>3 DEF Sesiones
  <2>5. QED
    BY <1>1, <1>8, <2>4 DEF Bam
<1>11. CASE ClienteSeVa(c)
  <2>1. /\ estado'[c] \in Idos /\ estado' \in [Clientes -> Estados]
        /\ aServidor' = aServidor
        /\ pedidos' = [pedidos EXCEPT ![c] = <<>>]
        /\ respuestas' = [respuestas EXCEPT ![c] = <<>>]
    BY <1>4, <1>11 DEF ClienteSeVa, Estados, Idos
  <2>2. Turno(c)'
    BY <2>1 DEF Turno, Idos
  <2>3. <<>> \in Seq(Comandos) /\ <<>> \in Seq(Posibles)
    OBVIOUS
  <2>4. /\ pedidos' \in [Clientes -> Seq(Comandos)]
        /\ respuestas' \in [Clientes -> Seq(Posibles)]
    BY <1>4, <2>1, <2>3
  <2>5. Sesiones'
    BY <1>4, <1>9, <2>1, <2>2, <2>4 DEF Sesiones
  <2>6. QED
    BY <1>1, <1>8, <2>5 DEF Bam
<1>12. ASSUME NEW m \in Comandos, ClienteEnvia(c, m) PROVE Bam'
  <2>1. /\ estado[c] = "cifrado" /\ UNCHANGED <<estado, respuestas>>
        /\ Len(pedidos[c]) = Len(respuestas[c])
        /\ aServidor' = [aServidor EXCEPT ![c] = <<m>>]
        /\ pedidos' = [pedidos EXCEPT ![c] = Append(pedidos[c], m)]
    BY <1>12 DEF ClienteEnvia
  <2>2. ~ EnCurso(c)
    BY <1>4, <2>1 DEF EnCurso
  <2>3. ~ Atendido(c)
    BY <1>4, <2>1, <2>2 DEF Turno
  <2>4. pedidos[c] \in Seq(Comandos) /\ <<m>> \in Seq(Comandos)
    BY <1>4
  <2>5. /\ pedidos'[c] = Append(pedidos[c], m) /\ aServidor'[c] = <<m>>
        /\ pedidos' \in [Clientes -> Seq(Comandos)]
        /\ aServidor' \in [Clientes -> Seq(Comandos)]
    BY <1>4, <2>1, <2>4
  <2>6. Pedido(c)'
    BY <2>1, <2>4, <2>5 DEF Pedido, Last
  <2>7. Turno(c)'
    BY <1>3, <2>1, <2>3, <2>6 DEF Turno, Atendido
  <2>8. Sesiones'
    BY <1>4, <1>9, <2>1, <2>5, <2>7 DEF Sesiones
  <2>9. QED
    BY <1>1, <1>8, <2>8 DEF Bam
<1>13. QED
  BY <1>10, <1>11, <1>12

\* The operator, NNTPProcessServer and OpenDS, out of the sessions' sight.
LEMMA PasoDeFuera ==
  ASSUME Bam, Operador \/ AlmacenarNoticia \/ CaeOVuelveOpenDS
  PROVE  Bam'
<1>1. UNCHANGED <<pcBam, read_fds, iSockClient, czMsg, backlog, estado, aServidor,
                  pedidos, respuestas>>
  BY DEF servidor, clientes, Operador, AlmacenarNoticia, CaeOVuelveOpenDS
<1>2. teclado' \in {"", "S"}
  BY DEF Bam, Atencion, Operador, AlmacenarNoticia, CaeOVuelveOpenDS
<1>3. Atencion'
  BY <1>1, <1>2 DEF Bam, Atencion
<1>4. Sesiones'
  <2>1. ASSUME NEW c \in Clientes PROVE Turno(c)'
    BY <1>1 DEF Bam, Sesiones, Turno, AlDia, Pedido, EnCurso, Atendido
  <2>2. QED
    BY <1>1, <2>1 DEF Bam, Sesiones
<1>5. Directorio'
  <2>1. CASE Operador
    BY <2>1 DEF Bam, Directorio, Operador, openDS
  <2>2. CASE CaeOVuelveOpenDS
    BY <2>2 DEF Bam, Directorio, CaeOVuelveOpenDS
  <2>3. CASE AlmacenarNoticia
    <3>1. PICK id \in DOMAIN Noticias \ DOMAIN bd :
            bd' = [i \in DOMAIN bd \cup {id} |-> Noticias[i]]
      BY <2>3 DEF AlmacenarNoticia
    <3>2. IsFiniteSet(DOMAIN bd \cup {id})
      BY FS_AddElement DEF Bam, Directorio
    <3>3. QED
      BY <2>3, <3>1, <3>2 DEF Bam, Directorio, AlmacenarNoticia
  <2>4. QED
    BY <2>1, <2>2, <2>3
<1>6. QED
  BY <1>3, <1>4, <1>5 DEF Bam

LEMMA BamPaso == Bam /\ [Next]_vars => Bam'
<1> SUFFICES ASSUME Bam, [Next]_vars PROVE Bam'
  OBVIOUS
<1>1. CASE Servidor
  BY <1>1, PasoDelLazo, PasoAccept, PasoSSLAccept, PasoLeer, PasoEscribir DEF Servidor
<1>2. CASE Entorno
  BY <1>2, PasoDelCliente, PasoDeFuera DEF Entorno
<1>3. CASE UNCHANGED vars
  BY <1>3 DEF vars, servidor, clientes, openDS, Bam, Directorio, Atencion, Sesiones,
              Turno, AlDia, Pedido, EnCurso, Atendido
<1>4. QED
  BY <1>1, <1>2, <1>3 DEF Next

LEMMA BamInvariante == Spec => []Bam
<1>1. QED
  BY BamInicial, BamPaso, PTL DEF Spec

-----------------------------------------------------------------------------
(* What follows.                                                           *)

LEMMA BamTipo == Bam => TypeOK
<1> SUFFICES ASSUME Bam PROVE TypeOK
  OBVIOUS
<1>1. /\ read_fds \subseteq {"escucha", "cliente", "teclado"}
      /\ iSockClient \in Clientes \cup {NoCliente}
      /\ czMsg \in Comandos \cup {SinComando} /\ backlog \in Seq(Clientes)
      /\ teclado \in {"", "S"}
  BY DEF Bam, Atencion
<1>2. pcBam \in {"select", "accept", "SSL_accept", "leer", "responder", "teclado",
                 "fin", "muerto"}
  BY DEF Bam, Atencion, Lugares
<1>3. /\ estado \in [Clientes -> {"libre", "conectado", "mudo", "cifrado"} \cup Idos]
      /\ aServidor \in [Clientes -> Seq(Comandos)]
      /\ pedidos \in [Clientes -> Seq(Comandos)]
  BY DEF Bam, Sesiones, Estados
<1>4. ASSUME NEW c \in Clientes, NEW i \in DOMAIN respuestas[c]
      PROVE  EsRespuesta(respuestas[c][i])
  <2>1. respuestas[c] \in Seq(Posibles)
    BY DEF Bam, Sesiones
  <2>2. respuestas[c][i] \in Posibles
    BY <2>1
  <2>3. QED
    BY <2>2, PosiblesBien
<1>5. /\ DOMAIN bd \subseteq DOMAIN Noticias
      /\ openDSArriba \in BOOLEAN /\ sesionPerdida \in BOOLEAN
  BY DEF Bam, Directorio
<1>6. QED
  BY <1>1, <1>2, <1>3, <1>4, <1>5 DEF TypeOK

(* Every variable keeps its type: the answers have the codes of the        *)
(* process*Command functions, and carry articles and newsgroups that exist *)
(* (nntpServerBam.c:161-211).                                              *)
THEOREM TipoServidorBAM == Spec => []TypeOK
<1>1. QED
  BY BamInvariante, BamTipo, PTL

LEMMA SoloSSLWriteContesta ==
  ASSUME Bam, [Next]_vars, NEW c \in Clientes,
         Len(respuestas'[c]) > Len(respuestas[c])
  PROVE  SSL_write
<1>1. respuestas \in [Clientes -> Seq(Posibles)]
  BY DEF Bam, Sesiones
<1>2. Len(respuestas[c]) \in Nat
  BY <1>1
<1>3. respuestas' # respuestas
  BY <1>2
<1>4. CASE Servidor
  BY <1>3, <1>4 DEF Servidor, Select, Acepta_Conexion_Cliente, SSL_accept,
       SSL_acceptFalla, NoLeer, LeerComando, Desconectar, LeerError, Muere, Teclado, clientes
<1>5. CASE Entorno
  <2>1. ASSUME NEW d \in Clientes, ClienteSeVa(d) PROVE FALSE
    <3>1. respuestas'[c] = respuestas[c] \/ respuestas'[c] = <<>>
      BY <1>1, <2>1 DEF ClienteSeVa
    <3>2. QED
      BY <1>2, <3>1
  <2>2. QED
    BY <1>3, <1>5, <2>1 DEF Entorno, ClienteConecta, ClienteEnvia, Operador,
         AlmacenarNoticia, CaeOVuelveOpenDS, clientes
<1>6. CASE UNCHANGED vars
  BY <1>3, <1>6 DEF vars, clientes
<1>7. QED
  BY <1>4, <1>5, <1>6 DEF Next

LEMMA PasoVeraz ==
  ASSUME Bam, [Next]_vars, NEW c \in Clientes,
         Len(respuestas'[c]) > Len(respuestas[c])
  PROVE  /\ Ultima(c).codigo = 215 => EsListadoDeGrupos(Ultima(c).grupos, bd)
         /\ Ultima(c).codigo = 430 /\ ~ sesionPerdida /\ Buscable(czMsg.grupo) =>
              ~ \E id \in DOMAIN bd : id = czMsg.id /\ MismoGrupo(bd[id].grupo, czMsg.grupo)
         /\ Ultima(c).codigo = 411 /\ ~ sesionPerdida /\ Buscable(czMsg.grupo) =>
              ~ \E id \in DOMAIN bd : MismoGrupo(bd[id].grupo, czMsg.grupo)
<1>1. SSL_write
  BY SoloSSLWriteContesta
<1>2. respuestas'[c] # respuestas[c] /\ respuestas[c] \in Seq(Posibles)
  BY DEF Bam, Sesiones
<1>3. PICK hay \in HayResultSet(openDSArriba, sesionPerdida, Criterio(czMsg)) :
        \E r \in Respuestas(czMsg, hay) :
          /\ ~ SeSaleDelArreglo(czMsg, hay) /\ czMsg \in Comandos
          /\ estado[c] = "cifrado" /\ EnCurso(c)
          /\ respuestas'[c] = Append(respuestas[c], r)
  BY <1>1, <1>2, PasoEscribir
<1>4. PICK r \in Respuestas(czMsg, hay) :
        /\ ~ SeSaleDelArreglo(czMsg, hay) /\ czMsg \in Comandos
        /\ respuestas'[c] = Append(respuestas[c], r)
  BY <1>3
<1>5. Ultima(c) = r
  BY <1>2, <1>4 DEF Ultima
<1>6. Directorio
  BY DEF Bam
<1>7. QED
  BY <1>4, <1>5, <1>6, RespuestaBien

(* An answer is true of the directory at the moment it is written: a       *)
(* listing names every newsgroup once (util.c:73-107), and "no such        *)
(* article" and "no such newsgroup" are true, of a name that can be        *)
(* searched, unless OpenDS failed to answer since the server started.      *)
THEOREM RespuestaVerazSiempre == Spec => RespuestaVeraz
<1>1. Bam /\ [Next]_vars =>
        [\A c \in Clientes : Len(respuestas'[c]) > Len(respuestas[c]) =>
           /\ Ultima(c).codigo = 215 => EsListadoDeGrupos(Ultima(c).grupos, bd)
           /\ Ultima(c).codigo = 430 /\ ~ sesionPerdida /\ Buscable(czMsg.grupo) =>
                ~ \E id \in DOMAIN bd : id = czMsg.id /\ MismoGrupo(bd[id].grupo, czMsg.grupo)
           /\ Ultima(c).codigo = 411 /\ ~ sesionPerdida /\ Buscable(czMsg.grupo) =>
                ~ \E id \in DOMAIN bd : MismoGrupo(bd[id].grupo, czMsg.grupo)]_vars
  BY PasoVeraz
<1>2. QED
  BY <1>1, BamInvariante, PTL DEF Spec, RespuestaVeraz

LEMMA PasoMuerte ==
  ASSUME Bam, [Next]_vars, pcBam # "muerto", pcBam' = "muerto"
  PROVE  \/ sesionPerdida \/ estado[iSockClient] \in Idos
         \/ SeDesborda(DOMAIN bd) \/ NombreDesborda(bd)
         \/ /\ czMsg.nombre = "LISTGROUP"
            /\ ~ CriterioValido(czMsg.grupo) \/ largo[czMsg.grupo] + 1 >= sCriterio
<1>1. Muere
  <2>1. CASE Servidor
    BY <2>1 DEF Servidor, Select, Acepta_Conexion_Cliente, SSL_accept, SSL_acceptFalla,
         NoLeer, LeerComando, Desconectar, LeerError, SSL_write, Teclado
  <2>2. CASE Entorno
    BY <2>2 DEF Entorno, ClienteConecta, ClienteEnvia, ClienteSeVa, Operador,
         AlmacenarNoticia, CaeOVuelveOpenDS, servidor
  <2>3. CASE UNCHANGED vars
    BY <2>3 DEF vars, servidor
  <2>4. QED
    BY <2>1, <2>2, <2>3 DEF Next
<1>2. Directorio /\ (czMsg \in Comandos \/ estado[iSockClient] \in Idos)
  BY <1>1 DEF Bam, Atencion, Muere
<1>3. CASE estado[iSockClient] \in {"reset", "roto"}
  BY <1>3 DEF Idos
<1>4. ASSUME NEW hay \in HayResultSet(openDSArriba, sesionPerdida, Criterio(czMsg)),
             \/ SeSaleDelArreglo(czMsg, hay)
             \/ hay /\ (ListadoLargo(czMsg) \/ NombreLargo(czMsg)),
             ~ sesionPerdida, estado[iSockClient] \notin Idos,
             Criterio(czMsg), ~ NombreLargo(czMsg)
      PROVE  SeDesborda(DOMAIN bd)
  <2>1. hay = TRUE
    BY <1>2, <1>4 DEF HayResultSet, Directorio
  <2>2. czMsg # SinComando
    BY <1>2, <1>4, ConCodigo
  <2>3. ListadoLargo(czMsg)
    BY <1>4, <2>1, <2>2 DEF SeSaleDelArreglo
  <2>4. CASE SeDesborda(selectArticles(bd, czMsg.grupo))
    <3> DEFINE ids == selectArticles(bd, czMsg.grupo)
    <3>1. ids \in SUBSET DOMAIN bd
      BY DEF selectArticles
    <3>2. Cardinality(ids) > MaxListado
      BY <2>4 DEF SeDesborda
    <3> HIDE DEF ids
    <3>3. /\ IsFiniteSet(ids) /\ IsFiniteSet(DOMAIN bd)
          /\ Cardinality(ids) <= Cardinality(DOMAIN bd)
      BY <1>2, <3>1, FS_Subset DEF Directorio
    <3>4. Cardinality(ids) \in Nat /\ Cardinality(DOMAIN bd) \in Nat
      BY <3>3, FS_CardinalityType
    <3>5. Cardinality(DOMAIN bd) > MaxListado
      BY <3>2, <3>3, <3>4, ConsultasAssumption
    <3>6. QED
      BY <3>5 DEF SeDesborda
  <2>5. QED
    BY <2>3, <2>4 DEF ListadoLargo
<1>5. NombreLargo(czMsg) =>
        \/ NombreDesborda(bd)
        \/ czMsg.nombre = "LISTGROUP" /\ largo[czMsg.grupo] + 1 >= sCriterio
  BY DEF NombreLargo
<1>6. ASSUME NEW hay \in HayResultSet(openDSArriba, sesionPerdida, Criterio(czMsg)),
             \/ SeSaleDelArreglo(czMsg, hay)
             \/ hay /\ (ListadoLargo(czMsg) \/ NombreLargo(czMsg)),
             ~ sesionPerdida, estado[iSockClient] \notin Idos, ~ Criterio(czMsg)
      PROVE  czMsg.nombre = "LISTGROUP" /\ ~ CriterioValido(czMsg.grupo)
  <2>1. ~ hay /\ SeSaleDelArreglo(czMsg, hay)
    BY <1>6 DEF HayResultSet
  <2>2. QED
    BY <1>6, <2>1 DEF Criterio, SeSaleDelArreglo
<1>7. QED
  BY <1>1, <1>3, <1>4, <1>5, <1>6 DEF Muere

(* What the server dies of: a search OpenDS does not answer, a client that *)
(* is gone, more articles or longer names than its arrays hold             *)
(* (funciones.c:394-395, 443-452, util.c:77, 152), or the listing of a     *)
(* newsgroup whose name its criterion does not take.                       *)
THEOREM MuerteExplicadaSiempre == Spec => MuerteExplicada
<1>1. Bam /\ [Next]_vars =>
        [pcBam # "muerto" /\ pcBam' = "muerto" =>
           \/ sesionPerdida \/ estado[iSockClient] \in Idos
           \/ SeDesborda(DOMAIN bd) \/ NombreDesborda(bd)
           \/ /\ czMsg.nombre = "LISTGROUP"
              /\ ~ CriterioValido(czMsg.grupo) \/ largo[czMsg.grupo] + 1 >= sCriterio]_vars
  BY PasoMuerte
<1>2. QED
  BY <1>1, BamInvariante, PTL DEF Spec, MuerteExplicada

-----------------------------------------------------------------------------
(* The session with each client.                                           *)

Pendiente(c) == IF Len(pedidos[c]) > Len(respuestas[c]) THEN Last(pedidos[c])
                ELSE SinComando

\* A step that neither ends the session of a client nor sends or answers.
LEMMA SesionQuieta ==
  ASSUME NEW c \in Clientes, UNCHANGED <<pedidos[c], respuestas[c]>>,
         (estado[c] \notin Idos) <=> (estado'[c] \notin Idos)
  PROVE  [Sesion(c)!Next]_(Sesion(c)!vars)
<1>1. Pendiente(c)' = Pendiente(c)
  BY DEF Pendiente
<1>2. (estado[c] \notin Idos)' = (estado[c] \notin Idos)
  BY Zenon
<1>3. QED
  BY <1>1, <1>2 DEF Sesion!vars, Pendiente

LEMMA SesionTermina ==
  ASSUME NEW c \in Clientes, estado'[c] \in Idos
  PROVE  [Sesion(c)!Next]_(Sesion(c)!vars)
BY DEF Sesion!Next, Sesion!Terminar

LEMMA SesionEnvia ==
  ASSUME Bam, NEW c \in Clientes, NEW m \in Comandos, ClienteEnvia(c, m)
  PROVE  [Sesion(c)!Next]_(Sesion(c)!vars)
<1>1. /\ estado[c] = "cifrado" /\ UNCHANGED <<estado, respuestas>>
      /\ Len(pedidos[c]) = Len(respuestas[c])
      /\ pedidos' = [pedidos EXCEPT ![c] = Append(pedidos[c], m)]
  BY DEF ClienteEnvia
<1>2. pedidos[c] \in Seq(Comandos) /\ pedidos \in [Clientes -> Seq(Comandos)]
  BY DEF Bam, Sesiones
<1>3. /\ Len(pedidos'[c]) = Len(respuestas'[c]) + 1 /\ Len(pedidos[c]) \in Nat
      /\ Last(pedidos'[c]) = m
  BY <1>1, <1>2 DEF Last
<1>4. Pendiente(c) = SinComando /\ Pendiente(c)' = m
  BY <1>1, <1>3 DEF Pendiente
<1>5. (estado[c] \notin Idos) /\ (estado[c] \notin Idos)'
  BY <1>1 DEF Idos
<1>6. Sesion(c)!Enviar
  BY <1>1, <1>4, <1>5 DEF Sesion!Enviar, Pendiente
<1>7. QED
  BY <1>6 DEF Sesion!Next

LEMMA SesionResponde ==
  ASSUME Bam, SSL_write, NEW c \in Clientes, respuestas'[c] # respuestas[c]
  PROVE  [Sesion(c)!Next]_(Sesion(c)!vars)
<1>1. PICK hay \in HayResultSet(openDSArriba, sesionPerdida, Criterio(czMsg)) :
        \E r \in Respuestas(czMsg, hay) :
          /\ ~ SeSaleDelArreglo(czMsg, hay) /\ czMsg \in Comandos
          /\ estado[c] = "cifrado" /\ EnCurso(c)
          /\ respuestas'[c] = Append(respuestas[c], r)
  BY PasoEscribir
<1>2. PICK r \in Respuestas(czMsg, hay) :
        /\ ~ SeSaleDelArreglo(czMsg, hay) /\ czMsg \in Comandos
        /\ estado[c] = "cifrado" /\ EnCurso(c)
        /\ respuestas'[c] = Append(respuestas[c], r)
  BY <1>1
<1>3. Contesta(r, czMsg)
  BY <1>2, RespuestaBien DEF Bam
<1>4. /\ respuestas[c] \in Seq(Posibles) /\ pedidos[c] \in Seq(Comandos)
      /\ pedidos' = pedidos
  BY DEF Bam, Sesiones, SSL_write
<1>5. r \in Posibles
  BY <1>2, RespuestaBien DEF Bam
<1>6. /\ respuestas'[c] # <<>> /\ Last(respuestas'[c]) = r
      /\ Len(respuestas'[c]) = Len(respuestas[c]) + 1
      /\ Len(respuestas[c]) \in Nat
  BY <1>2, <1>4, <1>5 DEF Last
<1>7. /\ czMsg = Last(pedidos[c]) /\ Len(pedidos[c]) = Len(respuestas[c]) + 1
  BY <1>2 DEF EnCurso
<1>8. Pendiente(c) = czMsg /\ Pendiente(c)' = SinComando
  BY <1>4, <1>6, <1>7 DEF Pendiente
<1>9. czMsg # SinComando
  BY <1>2, ConCodigo
<1>10. /\ (estado[c] \notin Idos) /\ (estado[c] \notin Idos)'
  <2>1. iSockClient \in Clientes /\ estado \in [Clientes -> Estados]
    BY DEF Bam, Atencion, Sesiones, SSL_write
  <2>2. iSockClient = c /\ estado' = estado
    BY <1>6, <2>1 DEF SSL_write, Bam, Sesiones
  <2>3. QED
    BY <1>2, <2>2 DEF Idos
<1>11. Sesion(c)!Responder
  BY <1>3, <1>6, <1>8, <1>9, <1>10 DEF Sesion!Responder, Pendiente
<1>12. QED
  BY <1>11 DEF Sesion!Next

LEMMA SesionPaso ==
  ASSUME Bam, [Next]_vars, NEW c \in Clientes
  PROVE  [Sesion(c)!Next]_(Sesion(c)!vars)
<1>1. estado \in [Clientes -> Estados]
  BY DEF Bam, Sesiones
<1>2. CASE Select \/ NoLeer \/ Desconectar \/ Teclado \/ Muere \/ Acepta_Conexion_Cliente
           \/ LeerComando
  <2>1. UNCHANGED <<estado, pedidos, respuestas>>
    BY <1>2 DEF Select, NoLeer, Desconectar, Teclado, Muere, Acepta_Conexion_Cliente,
         LeerComando, clientes
  <2>2. UNCHANGED <<pedidos[c], respuestas[c]>> /\ estado'[c] = estado[c]
    BY <2>1
  <2>3. QED
    BY <2>2, SesionQuieta
<1>3. CASE SSL_accept \/ LeerError
  <2>1. /\ iSockClient \in Clientes
    BY <1>3 DEF Bam, Atencion, SSL_accept, LeerError, LeerDelCliente
  <2>2. /\ UNCHANGED <<pedidos[c], respuestas[c]>>
        /\ (estado[c] \notin Idos) <=> (estado'[c] \notin Idos)
    BY <1>1, <1>3, <2>1 DEF SSL_accept, LeerError, Idos
  <2>3. QED
    BY <2>2, SesionQuieta
<1>4. CASE SSL_acceptFalla
  <2>1. CASE c = iSockClient
    <3>1. estado'[c] \in Idos
      BY <1>1, <1>4, <2>1 DEF SSL_acceptFalla, Idos
    <3>2. QED
      BY <3>1, SesionTermina
  <2>2. CASE c # iSockClient
    <3>1. UNCHANGED <<pedidos[c], respuestas[c]>> /\ estado'[c] = estado[c]
      BY <1>1, <1>4, <2>2 DEF SSL_acceptFalla
    <3>2. QED
      BY <3>1, SesionQuieta
  <2>3. QED
    BY <2>1, <2>2
<1>5. CASE SSL_write
  <2>1. CASE respuestas'[c] # respuestas[c]
    BY <1>5, <2>1, SesionResponde
  <2>2. CASE respuestas'[c] = respuestas[c]
    <3>1. /\ UNCHANGED <<pedidos[c], respuestas[c]>>
          /\ (estado[c] \notin Idos) <=> (estado'[c] \notin Idos)
      BY <1>1, <1>5, <2>2 DEF SSL_write, Idos
    <3>2. QED
      BY <3>1, SesionQuieta
  <2>3. QED
    BY <2>1, <2>2
<1>6. ASSUME NEW d \in Clientes, NEW m \in Comandos, ClienteEnvia(d, m)
      PROVE  [Sesion(c)!Next]_(Sesion(c)!vars)
  <2>1. CASE c = d
    BY <1>6, <2>1, SesionEnvia
  <2>2. CASE c # d
    <3>1. UNCHANGED <<pedidos[c], respuestas[c]>> /\ estado'[c] = estado[c]
      BY <1>6, <2>2 DEF ClienteEnvia, Bam, Sesiones
    <3>2. QED
      BY <3>1, SesionQuieta
  <2>3. QED
    BY <2>1, <2>2
<1>7. ASSUME NEW d \in Clientes, ClienteConecta(d) \/ ClienteSeVa(d)
      PROVE  [Sesion(c)!Next]_(Sesion(c)!vars)
  <2>1. CASE estado'[c] \in Idos
    BY <2>1, SesionTermina
  <2>2. CASE estado'[c] \notin Idos
    <3>1. /\ UNCHANGED <<pedidos[c], respuestas[c]>>
          /\ (estado[c] \notin Idos) <=> (estado'[c] \notin Idos)
      BY <1>1, <1>7, <2>2 DEF ClienteConecta, ClienteSeVa, Bam, Sesiones, Idos
    <3>2. QED
      BY <3>1, SesionQuieta
  <2>3. QED
    BY <2>1, <2>2
<1>8. CASE Operador \/ AlmacenarNoticia \/ CaeOVuelveOpenDS \/ UNCHANGED vars
  <2>1. UNCHANGED <<estado, pedidos, respuestas>>
    BY <1>8 DEF Operador, AlmacenarNoticia, CaeOVuelveOpenDS, vars, clientes
  <2>2. UNCHANGED <<pedidos[c], respuestas[c]>> /\ estado'[c] = estado[c]
    BY <2>1
  <2>3. QED
    BY <2>2, SesionQuieta
<1>9. QED
  BY <1>2, <1>3, <1>4, <1>5, <1>6, <1>7, <1>8 DEF Next, Servidor, Entorno

(* NNTPServerBAM is the server of a session with each client, however many *)
(* there are: every answer a client gets is one to the command it waits    *)
(* an answer for, in the order it sent them, and the command an earlier    *)
(* client left in czMsg, which a failed SSL_read executes again            *)
(* (nntpServerBam.c:161-211), is answered to nobody.                       *)
THEOREM CumpleSesionSiempre == Spec => CumpleSesion
<1>1. ASSUME Init, NEW c \in Clientes PROVE Sesion(c)!Init
  <2>1. pedidos[c] = <<>> /\ respuestas[c] = <<>> /\ estado[c] = "libre"
    BY <1>1 DEF Init
  <2>2. Pendiente(c) = SinComando /\ (estado[c] \notin Idos)
    BY <2>1 DEF Pendiente, Idos
  <2>3. QED
    BY <2>2 DEF Sesion!Init, Pendiente
<1>2. Bam /\ [Next]_vars => [\A c \in Clientes : [Sesion(c)!Next]_(Sesion(c)!vars)]_vars
  BY SesionPaso
<1>3. Init => \A c \in Clientes : Sesion(c)!Init
  BY <1>1
<1>4. QED
  BY <1>2, <1>3, BamInvariante, PTL DEF Spec, CumpleSesion
=============================================================================
