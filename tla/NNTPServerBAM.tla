---------------------------- MODULE NNTPServerBAM ----------------------------
(***************************************************************************)
(* NNTPServerBAM: one thread around select, one client at a time.  A round *)
(* accepts a client if there is none (and waits for its SSL handshake),    *)
(* reads and executes a command of the client if select saw one, and looks *)
(* at the keyboard.                                                        *)
(*                                                                         *)
(* czMsg keeps the last command: when SSL_read fails with -1 the program   *)
(* goes on as if it had read it again.                                     *)
(***************************************************************************)
EXTENDS Consultas

CONSTANTS Clientes,    \* the clients, one connection each
          Comandos,    \* the commands NNTPClient lets through
          Noticias,    \* ID |-> entry: what NNTPProcessServer may store
          MaxComandos  \* bound on the commands of a client

ASSUME NNTPServerBAMAssumption == MaxComandos \in Nat

ASSUME ComandosAssumption ==
  \A m \in Comandos : m.nombre \in {"LIST", "QUIT", "LISTGROUP", "ARTICLE", "HEAD",
                                    "BODY", "STAT"}

\* No newsgroup is called as the mark of quitarRepetidos.
ASSUME NoticiasAssumption ==
  \A id \in DOMAIN Noticias :
    Noticias[id].grupo \in DOMAIN pasarAMayusculas \ {Repetido}

VARIABLES pcBam,         \* the place in the loop
          read_fds,      \* what the last select found ready
          iSockClient,   \* the client, or NoCliente
          czMsg,         \* the last command read
          backlog,       \* connections waiting for accept
          estado,        \* each client's connection
          aServidor,     \* each client's command that has not been read
          pedidos,       \* history: the commands each client sent
          respuestas,    \* the answers each client received
          teclado,       \* a line typed at the server
          bd, openDSArriba,  \* the directory, and whether it answers searches
          sesionPerdida      \* it has not, once, since the session was opened

servidor == <<pcBam, read_fds, iSockClient, czMsg>>
clientes == <<backlog, estado, aServidor, pedidos, respuestas>>
openDS   == <<bd, openDSArriba, sesionPerdida>>
vars     == <<servidor, clientes, teclado, openDS>>

NoCliente == "ninguno"
SinComando == [nombre |-> ""]
Idos == {"cerrado", "reset", "roto"}  \* closed; reset; reset and reported
Vivo == pcBam \notin {"fin", "muerto"}

Init ==
  /\ pcBam = "select" /\ read_fds = {} /\ iSockClient = NoCliente
  /\ czMsg = SinComando
  /\ backlog = <<>>
  /\ estado = [c \in Clientes |-> "libre"]
  /\ aServidor = [c \in Clientes |-> <<>>]
  /\ pedidos = [c \in Clientes |-> <<>>]
  /\ respuestas = [c \in Clientes |-> <<>>]
  /\ teclado = ""
  /\ bd = [i \in {} |-> {}]
  /\ openDSArriba = TRUE /\ sesionPerdida = FALSE

-----------------------------------------------------------------------------
(* A round of the loop.                                                    *)

Listo(c) == aServidor[c] # <<>> \/ estado[c] \in Idos

Listos == {f \in {"escucha", "cliente", "teclado"} :
             \/ f = "escucha" /\ backlog # <<>>
             \/ f = "cliente" /\ iSockClient # NoCliente /\ Listo(iSockClient)
             \/ f = "teclado" /\ teclado # ""}

Select ==
  /\ pcBam = "select"
  /\ Listos # {}
  /\ read_fds' = Listos
  /\ pcBam' = IF "escucha" \in Listos /\ iSockClient = NoCliente
              THEN "accept" ELSE "leer"
  /\ UNCHANGED <<iSockClient, czMsg, clientes, teclado, openDS>>

\* accept, and setsockopt, whose failure leaves the socket open for nobody.
Acepta_Conexion_Cliente ==
  /\ pcBam = "accept"
  /\ backlog' = Tail(backlog)
  /\ \/ iSockClient' = Head(backlog) /\ pcBam' = "SSL_accept"
     \/ iSockClient' = NoCliente /\ pcBam' = "leer"
  /\ UNCHANGED <<read_fds, czMsg, estado, aServidor, pedidos, respuestas,
                 teclado, openDS>>

\* SSL_accept waits for the client.  It gives -1 when the handshake fails; when
\* the client is gone it may give 0, which the code takes for a success.
SSL_accept ==
  /\ pcBam = "SSL_accept"
  /\ \/ /\ estado[iSockClient] = "conectado"
        /\ estado' = [estado EXCEPT ![iSockClient] = "cifrado"]
     \/ /\ estado[iSockClient] \in Idos
        /\ estado' = estado
  /\ pcBam' = "leer"
  /\ UNCHANGED <<read_fds, iSockClient, czMsg, backlog, aServidor, pedidos,
                 respuestas, teclado, openDS>>

SSL_acceptFalla ==
  /\ pcBam = "SSL_accept"
  /\ estado[iSockClient] # "mudo"
  /\ estado' = [estado EXCEPT ![iSockClient] = "cerrado"]
  /\ iSockClient' = NoCliente
  /\ pcBam' = "leer"
  /\ UNCHANGED <<read_fds, czMsg, backlog, aServidor, pedidos, respuestas,
                 teclado, openDS>>

\* The client's socket was not ready when select returned.
NoLeer ==
  /\ pcBam = "leer"
  /\ iSockClient = NoCliente \/ "cliente" \notin read_fds
  /\ pcBam' = "teclado"
  /\ UNCHANGED <<read_fds, iSockClient, czMsg, clientes, teclado, openDS>>

LeerDelCliente ==
  pcBam = "leer" /\ iSockClient # NoCliente /\ "cliente" \in read_fds

\* Mutants of Recibido: the buffer keeps the command it has; everything
\* sent, as one command.
RecibidoUnaVez(anterior, s) == IF anterior = SinComando THEN Head(s) ELSE anterior
RecibidoTodo(anterior, s) == [nombre |-> "todo"]

Recibido(anterior, s) == Head(s)

LeerComando ==
  /\ LeerDelCliente
  /\ estado[iSockClient] # "reset"
  /\ aServidor[iSockClient] # <<>>
  /\ czMsg' = Recibido(czMsg, aServidor[iSockClient])
  /\ aServidor' = [aServidor EXCEPT ![iSockClient] = Tail(@)]
  /\ pcBam' = "responder"
  /\ UNCHANGED <<read_fds, iSockClient, backlog, estado, pedidos, respuestas,
                 teclado, openDS>>

\* Mutant of Desconectar: the client is gone and the server is still busy.
DesconectarOcupado ==
  /\ LeerDelCliente
  /\ estado[iSockClient] \in Idos
  /\ estado[iSockClient] = "cerrado" => aServidor[iSockClient] = <<>>
  /\ pcBam' = "teclado"
  /\ UNCHANGED <<read_fds, iSockClient, czMsg, clientes, teclado, openDS>>

\* SSL_read gives 0.
Desconectar ==
  /\ LeerDelCliente
  /\ estado[iSockClient] \in Idos
  /\ estado[iSockClient] = "cerrado" => aServidor[iSockClient] = <<>>
  /\ iSockClient' = NoCliente
  /\ pcBam' = "teclado"
  /\ UNCHANGED <<read_fds, czMsg, clientes, teclado, openDS>>

\* SSL_read gives -1, once: the command in czMsg is executed again.
LeerError ==
  /\ LeerDelCliente
  /\ estado[iSockClient] = "reset"
  /\ estado' = [estado EXCEPT ![iSockClient] = "roto"]
  /\ aServidor' = [aServidor EXCEPT ![iSockClient] = <<>>]
  /\ pcBam' = "responder"
  /\ UNCHANGED <<read_fds, iSockClient, czMsg, backlog, pedidos, respuestas,
                 teclado, openDS>>

-----------------------------------------------------------------------------
(* The answers.                                                            *)

Codigo == [ARTICLE |-> 200, HEAD |-> 221, BODY |-> 222, STAT |-> 223]

\* ARTICLE, HEAD, BODY and STAT.
RespuestaArticulo(m, hay) ==
  LET a == getArticle(bd, hay, m.grupo, m.id)
  IN IF a.encontrado THEN [codigo |-> Codigo[m.nombre], articulo |-> a]
                     ELSE [codigo |-> 430]

\* LISTGROUP, low and high as the code starts them.
RespuestaListGroup(g) ==
  LET ids == selectArticles(bd, g)
  IN IF ids = {} THEN [codigo |-> 411]
     ELSE [codigo |-> 211, ids |-> ids, number |-> Cardinality(ids),
           low |-> Min(ids \cup {99999999}), high |-> Max(ids \cup {0})]

\* What the process*Command functions may answer.
Respuestas(m, hay) ==
  CASE m.nombre = "LIST"      -> {[codigo |-> 215, grupos |-> s] :
                                     s \in ListadosDeGrupos(bd)}
    [] m.nombre = "QUIT"      -> {[codigo |-> 205]}
    [] m.nombre = "LISTGROUP" -> IF m.grupo = "" THEN {[codigo |-> 412]}
                                 ELSE {RespuestaListGroup(m.grupo)}
    [] OTHER                  -> {RespuestaArticulo(m, hay)}

\* Mutant of SeSaleDelArreglo: so does the listing of an empty directory.
SeSaleDelArregloVacio(m, hay) ==
  \/ m = SinComando
  \/ (~ hay \/ DOMAIN bd = {}) /\ m.nombre = "LIST"
  \/ ~ hay /\ m.nombre = "LISTGROUP" /\ m.grupo # ""

\* A listing of -1 elements (no result set), and the search of an empty string
\* among the names of commands, run off their arrays.
SeSaleDelArreglo(m, hay) ==
  \/ m = SinComando
  \/ ~ hay /\ m.nombre = "LIST"
  \/ ~ hay /\ m.nombre = "LISTGROUP" /\ m.grupo # ""

\* A listing longer than its array, which may be harmless or may not.
ListadoLargo(m) ==
  \/ m.nombre = "LIST" /\ SeDesborda(DOMAIN bd)
  \/ m.nombre = "LISTGROUP" /\ m.grupo # "" /\ SeDesborda(selectArticles(bd, m.grupo))

\* A name longer than the array it is copied to: one of the directory, or the one
\* asked for with the space before it.
NombreLargo(m) ==
  \/ m.nombre = "LIST" /\ NombreDesborda(bd)
  \/ m.nombre = "LISTGROUP" /\ m.grupo # "" /\ largo[m.grupo] + 1 >= sCriterio

\* The criterion of m parses: that of LIST is always the same.
Criterio(m) == m.nombre \in {"LIST", "QUIT"} \/ m = SinComando \/ CriterioValido(m.grupo)

\* SSL_write: a client that closed makes its system reset the connection;
\* writing on a connection that was reset may raise SIGPIPE.
SSL_write ==
  /\ pcBam = "responder"
  /\ \E hay \in HayResultSet(openDSArriba, sesionPerdida, Criterio(czMsg)) :
       /\ ~ SeSaleDelArreglo(czMsg, hay)
       /\ \E r \in Respuestas(czMsg, hay) :
            \/ /\ estado[iSockClient] = "cifrado"
               /\ respuestas' = [respuestas EXCEPT ![iSockClient] = Append(@, r)]
               /\ estado' = estado
            \/ /\ estado[iSockClient] = "cerrado"
               /\ estado' = [estado EXCEPT ![iSockClient] = "reset"]
               /\ respuestas' = respuestas
            \/ /\ estado[iSockClient] \in {"reset", "roto"}
               /\ UNCHANGED <<estado, respuestas>>
  /\ pcBam' = "teclado"
  /\ UNCHANGED <<read_fds, iSockClient, czMsg, backlog, aServidor, pedidos,
                 teclado, openDS>>

Muere ==
  /\ pcBam = "responder"
  /\ \/ \E hay \in HayResultSet(openDSArriba, sesionPerdida, Criterio(czMsg)) :
          \/ SeSaleDelArreglo(czMsg, hay)
          \/ hay /\ (ListadoLargo(czMsg) \/ NombreLargo(czMsg))
     \/ estado[iSockClient] \in {"reset", "roto"}
  /\ pcBam' = "muerto"
  /\ UNCHANGED <<read_fds, iSockClient, czMsg, clientes, teclado, openDS>>

\* "S" ends the loop; other letters do nothing and are left out.
Teclado ==
  /\ pcBam = "teclado"
  /\ IF "teclado" \in read_fds
     THEN pcBam' = "fin" /\ teclado' = ""
     ELSE pcBam' = "select" /\ teclado' = teclado
  /\ UNCHANGED <<read_fds, iSockClient, czMsg, clientes, openDS>>

Servidor ==
  \/ Select \/ Acepta_Conexion_Cliente \/ SSL_accept \/ SSL_acceptFalla
  \/ NoLeer \/ LeerComando \/ Desconectar \/ LeerError
  \/ SSL_write \/ Muere \/ Teclado

-----------------------------------------------------------------------------
(* NNTPClient (and other clients), the operator, NNTPProcessServer and     *)
(* OpenDS.                                                                 *)

\* A client that is not NNTPClient may never start the handshake.
ClienteConecta(c) ==
  /\ Vivo
  /\ estado[c] = "libre"
  /\ \E e \in {"conectado", "mudo"} : estado' = [estado EXCEPT ![c] = e]
  /\ backlog' = Append(backlog, c)
  /\ UNCHANGED <<servidor, aServidor, pedidos, respuestas, teclado, openDS>>

\* One command at a time, and none after QUIT.
ClienteEnvia(c, m) ==
  /\ estado[c] = "cifrado"
  /\ Len(pedidos[c]) = Len(respuestas[c])
  /\ Len(pedidos[c]) < MaxComandos
  /\ pedidos[c] # <<>> => Last(pedidos[c]).nombre # "QUIT"
  /\ aServidor' = [aServidor EXCEPT ![c] = <<m>>]
  /\ pedidos' = [pedidos EXCEPT ![c] = Append(@, m)]
  /\ UNCHANGED <<servidor, backlog, estado, respuestas, teclado, openDS>>

\* It takes its history along.
ClienteSeVa(c) ==
  /\ estado[c] \in {"conectado", "mudo", "cifrado"}
  /\ \E fin \in {"cerrado", "reset"} : estado' = [estado EXCEPT ![c] = fin]
  /\ pedidos' = [pedidos EXCEPT ![c] = <<>>]
  /\ respuestas' = [respuestas EXCEPT ![c] = <<>>]
  /\ UNCHANGED <<servidor, backlog, aServidor, teclado, openDS>>

Operador ==
  /\ Vivo /\ teclado = ""
  /\ teclado' = "S"
  /\ UNCHANGED <<servidor, clientes, openDS>>

AlmacenarNoticia ==
  /\ openDSArriba
  /\ \E id \in DOMAIN Noticias \ DOMAIN bd :
       bd' = [i \in DOMAIN bd \cup {id} |-> Noticias[i]]
  /\ UNCHANGED <<servidor, clientes, teclado, openDSArriba, sesionPerdida>>

\* It stops and is started again, or for a time refuses what it is asked (it is
\* busy, or a limit of its own is reached): the code treats both alike.
CaeOVuelveOpenDS ==
  /\ openDSArriba' = ~ openDSArriba
  /\ sesionPerdida' = TRUE
  /\ UNCHANGED <<servidor, clientes, teclado, bd>>

Entorno ==
  \/ \E c \in Clientes :
       \/ ClienteConecta(c)
       \/ \E m \in Comandos : ClienteEnvia(c, m)
       \/ ClienteSeVa(c)
  \/ Operador \/ AlmacenarNoticia \/ CaeOVuelveOpenDS

Next == Servidor \/ Entorno

Spec == Init /\ [][Next]_vars

\* The server runs by itself; nobody else has to do anything.
FairSpec == Spec /\ WF_vars(Servidor)

-----------------------------------------------------------------------------
Articulos == {Encontrado(m.id, m.grupo, n) :
                m \in {k \in Comandos : k.nombre \in DOMAIN Codigo},
                n \in {Noticias[id].noticia : id \in DOMAIN Noticias}}

EsRespuesta(r) ==
  /\ "codigo" \in DOMAIN r
  /\ r.codigo \in {200, 205, 211, 215, 221, 222, 223, 411, 412, 430}
  /\ r.codigo \in {200, 221, 222, 223} => r.articulo \in Articulos
  /\ r.codigo = 211 => r.ids \subseteq DOMAIN Noticias
  /\ r.codigo = 215 => r.grupos \in Seq(DOMAIN pasarAMayusculas)

TypeOK ==
  /\ pcBam \in {"select", "accept", "SSL_accept", "leer", "responder", "teclado",
                "fin", "muerto"}
  /\ read_fds \subseteq {"escucha", "cliente", "teclado"}
  /\ iSockClient \in Clientes \cup {NoCliente}
  /\ czMsg \in Comandos \cup {SinComando}
  /\ backlog \in Seq(Clientes)
  /\ estado \in [Clientes -> {"libre", "conectado", "mudo", "cifrado"} \cup Idos]
  /\ aServidor \in [Clientes -> Seq(Comandos)]
  /\ pedidos \in [Clientes -> Seq(Comandos)]
  /\ \A c \in Clientes : \A i \in DOMAIN respuestas[c] : EsRespuesta(respuestas[c][i])
  /\ teclado \in {"", "S"}
  /\ DOMAIN bd \subseteq DOMAIN Noticias
  /\ openDSArriba \in BOOLEAN /\ sesionPerdida \in BOOLEAN

\* The codes an answer to m may have, and whose article it may carry.
Contesta(r, m) ==
  CASE r.codigo = 215 -> m.nombre = "LIST"
    [] r.codigo = 205 -> m.nombre = "QUIT"
    [] r.codigo \in {211, 411, 412} -> m.nombre = "LISTGROUP"
    [] r.codigo = 430 -> m.nombre \in DOMAIN Codigo
    [] OTHER -> /\ m.nombre \in DOMAIN Codigo /\ r.codigo = Codigo[m.nombre]
                /\ r.articulo.id = m.id /\ MismoGrupo(r.articulo.grupo, m.grupo)

Sesion(c) == INSTANCE SesionNNTP WITH
  Ninguno   <- SinComando,
  pendiente <- IF Len(pedidos[c]) > Len(respuestas[c]) THEN Last(pedidos[c])
               ELSE SinComando,
  respuesta <- respuestas[c],
  abierta   <- estado[c] \notin Idos,
  Contesta  <- LAMBDA rs, m : rs # <<>> /\ Contesta(Last(rs), m)

(* NNTPServerBAM is the server of a session with each client: it answers   *)
(* its commands, in the order it sent them and none twice; the command     *)
(* left in czMsg by an earlier client, which a failed SSL_read executes    *)
(* again (nntpServerBam.c:161-211), is never answered to it.               *)
CumpleSesion ==
  /\ \A c \in Clientes : Sesion(c)!Init
  /\ [][\A c \in Clientes : [Sesion(c)!Next]_(Sesion(c)!vars)]_vars

Ultima(c) == respuestas'[c][Len(respuestas'[c])]

(* An answer tells the truth of the directory at that moment: LIST names   *)
(* every newsgroup once although quitarRepetidos overwrites names while it *)
(* compares them (util.c:73-107), and an article or a newsgroup is denied  *)
(* only if it is not there, or a search failed: OpenDS did not answer one  *)
(* since the server started, or the name asked for is not one its own      *)
(* criterion finds (util.c:153, LdapWrapperHandler.c:145 do not escape it; *)
(* LdapWrapper-Debian.c:267-272 gives NULL for any error).                 *)
RespuestaVeraz ==
  [][\A c \in Clientes : Len(respuestas'[c]) > Len(respuestas[c]) =>
       /\ Ultima(c).codigo = 215 => EsListadoDeGrupos(Ultima(c).grupos, bd)
       /\ Ultima(c).codigo = 430 /\ ~ sesionPerdida /\ Buscable(czMsg.grupo) =>
            ~ \E id \in DOMAIN bd : id = czMsg.id /\ MismoGrupo(bd[id].grupo, czMsg.grupo)
       /\ Ultima(c).codigo = 411 /\ ~ sesionPerdida /\ Buscable(czMsg.grupo) =>
            ~ \E id \in DOMAIN bd : MismoGrupo(bd[id].grupo, czMsg.grupo)]_vars

(* The server dies of nothing but a listing it gets no result set for, a   *)
(* client that is gone, more articles than the arrays of a listing hold,   *)
(* or a name longer than the one it is copied to (the -1 in the unsigned   *)
(* counters and the 1000 of funciones.c:394-395 and 443-452, the arrays of *)
(* util.c:77 and 152).  A listing gets none when OpenDS does not answer,   *)
(* or when the criterion of LISTGROUP does not parse: while OpenDS         *)
(* answers, the directory is small and its names short, clients that stay  *)
(* kill it with one command only, LISTGROUP of a name that cannot be       *)
(* searched or is too long.                                                *)
MuerteExplicada ==
  [][pcBam # "muerto" /\ pcBam' = "muerto" =>
       \/ sesionPerdida \/ estado[iSockClient] \in Idos
       \/ SeDesborda(DOMAIN bd) \/ NombreDesborda(bd)
       \/ /\ czMsg.nombre = "LISTGROUP"
          /\ ~ CriterioValido(czMsg.grupo) \/ largo[czMsg.grupo] + 1 >= sCriterio]_vars

EnEspera(c) == \E i \in DOMAIN backlog : backlog[i] = c

(* A client that waits for the one being served is accepted in the end, if *)
(* the one being served leaves some day: by QUIT, by dying at any moment   *)
(* of the handshake or of a command, with its connection closed or reset   *)
(* (nntpServerBam.c:128-169).  Nothing frees the server of one that stays. *)
TodosSonAtendidos ==
  (\A c \in Clientes : iSockClient = c ~> estado[c] \in Idos \/ ~ Vivo)
    => \A c \in Clientes : EnEspera(c) ~> ~ EnEspera(c) \/ ~ Vivo

(* funciones.c:491-492 says of the answer to LISTGROUP that low is the     *)
(* smallest article ID of the newsgroup, and high the greatest.            *)
RangoDelGrupo ==
  \A c \in Clientes : \A i \in DOMAIN respuestas[c] :
    respuestas[c][i].codigo = 211 =>
      /\ respuestas[c][i].low = Min(respuestas[c][i].ids)
      /\ respuestas[c][i].high = Max(respuestas[c][i].ids)
=============================================================================
