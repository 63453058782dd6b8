------------------------------ MODULE HTTPServer ------------------------------
(***************************************************************************)
(* HTTPServer: main accepts the connections of the browsers and starts a   *)
(* thread for each one, which reads one request, looks the article up in   *)
(* the memcached cluster, then in OpenDS, answers and closes.              *)
(*                                                                         *)
(* The threads share one memcached handle, which the library does not      *)
(* protect: the replies of two operations at a time may be exchanged or    *)
(* spoiled.  Like XMLNewsPS, main passes the descriptor of the connection  *)
(* through a local of its loop (stParameters), which the thread copies     *)
(* when it runs.  Descriptors are numbers that are used again once closed. *)
(***************************************************************************)
EXTENDS Consultas, Enlaces

CONSTANTS Hilos,     \* threads alive at the same time
          Clientes,  \* the browsers, one connection each
          Fds,       \* the descriptors accept hands out
          Pedidos,   \* the requests: tipo, and the newsgroup and ID they name
          Noticias   \* ID |-> entry: what NNTPProcessServer may store

ASSUME HTTPServerAssumption ==
  Fds \subseteq Nat /\ Hilos \subseteq Nat /\ IsFiniteSet(Clientes)

VARIABLES mainHttp,      \* main's place in the accept loop
          stParameters,  \* the descriptor in main's local
          fds,           \* descriptor |-> the connection it stands for
          hilos,         \* the threads
          backlog,       \* connections waiting for accept
          estado,        \* each browser's connection
          pedido,        \* the request a browser has sent and nobody read
          pedidos,       \* history: the request of each browser
          respuestas,    \* the answers that reached each browser
          cache,         \* memcached: key |-> article
          vivo,          \* the process is running
          bd, openDSArriba,  \* the directory, and whether it answers searches
          sesionPerdida, \* it has not, once, since the session was opened
          compartido,    \* history: stParameters was overwritten before a copy
          desatendidos   \* history: browsers thr_create failed for

mainVars == <<mainHttp, stParameters>>
navegadores == <<backlog, pedidos>>
openDS   == <<bd, openDSArriba, sesionPerdida>>
hist     == <<compartido, desatendidos>>
vars     == <<mainVars, fds, hilos, navegadores, estado, pedido, respuestas,
              cache, vivo, openDS, hist>>

NoFd == 0
NoCliente == "nadie"
SinPedido == [tipo |-> "ninguno"]
Grupos == DOMAIN pasarAMayusculas

ASSUME NombresAssumption == NoCliente \notin Clientes /\ SinPedido \notin Pedidos

\* No newsgroup is called as the mark of quitarRepetidos.
ASSUME NoticiasAssumption ==
  /\ IsFiniteSet(DOMAIN Noticias)
  /\ \A id \in DOMAIN Noticias : Noticias[id].grupo \in Grupos /\ Noticias[id].grupo # Repetido

\* Every name a URL may bring has its name in upper case.
ASSUME PedidosAssumption ==
  \A p \in Pedidos :
    /\ p.tipo \in {"grupo", "noticia"} => p.grupo \in Grupos
    /\ Interpretado(p).tipo \in {"grupo", "noticia"} => Interpretado(p).grupo \in Grupos

\* The requests that come from a link: an ID is written with digits only.
ASSUME EnlacesAssumption ==
  \A p \in Pedidos :
    /\ p.tipo = "index" => p = [tipo |-> "index"]
    /\ p.tipo = "grupo" => p = [tipo |-> "grupo", grupo |-> p.grupo]
    /\ p.tipo = "noticia" =>
         /\ p = [tipo |-> "noticia", grupo |-> p.grupo, id |-> p.id]
         /\ p.id \in Seq(Piezas) /\ \A i \in DOMAIN p.id : SinRiesgo(p.id[i])
    /\ p.tipo \in {"grupo", "noticia"} => p.grupo \in Seq(Piezas)

SinRespuesta == [codigo |-> 0]
NotFound == [codigo |-> 404]
Ok(c, limpia) == [codigo |-> 200, contenido |-> c, limpia |-> limpia]
Idos == {"cerrado", "reset"}

HiloLibre == [pc |-> "libre", fd |-> NoFd, pedido |-> SinPedido,
              respuesta |-> SinRespuesta, cruzado |-> FALSE]

\* Every browser waits in the backlog: until it is accepted, it is as good as
\* not connected, and they are all alike.
Init ==
  /\ mainHttp = "accept" /\ stParameters = NoFd
  /\ fds = [f \in Fds |-> NoCliente]
  /\ hilos = [t \in Hilos |-> HiloLibre]
  /\ backlog = SetToSeq(Clientes)
  /\ estado = [c \in Clientes |-> "abierto"]
  /\ pedido = [c \in Clientes |-> SinPedido]
  /\ pedidos = [c \in Clientes |-> SinPedido]
  /\ respuestas = [c \in Clientes |-> <<>>]
  /\ cache = [k \in {} |-> {}]
  /\ vivo = TRUE
  /\ bd \in {[i \in S |-> Noticias[i]] : S \in SUBSET DOMAIN Noticias}
  /\ openDSArriba = TRUE /\ sesionPerdida = FALSE
  /\ compartido = FALSE /\ desatendidos = {}

-----------------------------------------------------------------------------
(* main.                                                                   *)

\* The lowest free descriptor; with none free accept only logs an error.
Accept ==
  /\ vivo /\ mainHttp = "accept"
  /\ backlog # <<>>
  /\ \E f \in Fds :
       /\ fds[f] = NoCliente
       /\ \A g \in Fds : fds[g] = NoCliente => f <= g
       /\ fds' = [fds EXCEPT ![f] = Head(backlog)]
       /\ stParameters' = f
  /\ backlog' = Tail(backlog)
  /\ mainHttp' = "thr_create"
  /\ compartido' = (compartido \/ \E t \in Hilos : hilos[t].pc = "copiar")
  /\ UNCHANGED <<hilos, estado, pedido, pedidos, respuestas, cache, vivo, openDS,
                 desatendidos>>

\* The new thread is any: here, the lowest that is free.  A failure leaves the
\* connection open and nobody to answer it.
Thr_create ==
  /\ vivo /\ mainHttp = "thr_create"
  /\ mainHttp' = "accept"
  /\ \/ /\ \E t \in Hilos : /\ hilos[t].pc = "libre"
                            /\ \A u \in Hilos : hilos[u].pc = "libre" => t <= u
                            /\ hilos' = [hilos EXCEPT ![t].pc = "copiar"]
        /\ desatendidos' = desatendidos
     \/ /\ hilos' = hilos
        /\ desatendidos' = desatendidos \cup ({fds[stParameters]} \cap Clientes)
  /\ UNCHANGED <<stParameters, fds, navegadores, estado, pedido, respuestas,
                 cache, vivo, openDS, compartido>>

-----------------------------------------------------------------------------
(* procesarRequestFuncionThread.                                           *)

\* The end of the process takes its memory and its descriptors along.
Morir ==
  /\ vivo' = FALSE
  /\ mainHttp' = "accept" /\ stParameters' = NoFd
  /\ fds' = [f \in Fds |-> NoCliente]
  /\ hilos' = [t \in Hilos |-> HiloLibre]

CopiarParametros(t) ==
  /\ hilos[t].pc = "copiar"
  /\ hilos' = [hilos EXCEPT ![t].pc = "recv", ![t].fd = stParameters]
  /\ UNCHANGED <<mainVars, fds, navegadores, estado, pedido, respuestas, cache,
                 vivo, openDS, hist>>

Interpretacion == [p \in Pedidos |-> Interpretado(p)]
Interpretados == {Interpretacion[p] : p \in Pedidos}

\* The whole request, in one recv.
Recv(t) ==
  /\ hilos[t].pc = "recv"
  /\ LET c == fds[hilos[t].fd]
     IN /\ c # NoCliente
        /\ pedido[c] # SinPedido /\ estado[c] # "reset"
        /\ hilos' = [hilos EXCEPT ![t].pc = "procesar",
                                  ![t].pedido = Interpretacion[pedido[c]]]
        /\ pedido' = [pedido EXCEPT ![c] = SinPedido]
  /\ UNCHANGED <<mainVars, fds, navegadores, estado, respuestas, cache, vivo,
                 openDS, hist>>

PedidosLeidos == {pedidos[c] : c \in {d \in Clientes : pedido[d] = SinPedido}}
                   \ {SinPedido}

\* 0 or -1 is not looked at: the buffer holds what was on the stack, which may be
\* the request an earlier thread read, or have no "/".
RecvNada(t) ==
  /\ hilos[t].pc = "recv"
  /\ LET c == fds[hilos[t].fd]
     IN \/ c = NoCliente
        \/ /\ c # NoCliente
           /\ estado[c] \in Idos /\ (pedido[c] = SinPedido \/ estado[c] = "reset")
  /\ \/ /\ \E p \in PedidosLeidos :
             hilos' = [hilos EXCEPT ![t].pc = "procesar",
                                    ![t].pedido = Interpretacion[p]]
        /\ UNCHANGED <<mainVars, fds, vivo>>
     \/ Morir
  /\ UNCHANGED <<navegadores, estado, pedido, respuestas, cache, openDS, hist>>

Pide(t, tipo) == hilos[t].pc = "procesar" /\ hilos[t].pedido.tipo = tipo

\* Where a thread goes with its answer: the status line of a 200 is sent apart.
ConRespuesta(t, r) ==
  [hilos EXCEPT ![t].respuesta = r, ![t].cruzado = FALSE, ![t].pedido = SinPedido,
                ![t].pc = IF r.codigo = 200 THEN "aviso200" ELSE "send"]

ListadoGruposDeNoticias(t) ==
  /\ Pide(t, "index")
  /\ \E hay \in HayResultSet(openDSArriba, sesionPerdida, TRUE) :
       \/ ~ hay /\ hilos' = ConRespuesta(t, NotFound)
       \/ /\ hay
          /\ \E s \in ListadosDeGrupos(bd) :
               hilos' = ConRespuesta(t, Ok([grupos |-> s], TRUE))
  /\ UNCHANGED <<mainVars, fds, navegadores, estado, pedido, respuestas, cache,
                 vivo, openDS, hist>>

\* Mutant of RespuestaListado: the -1 of a search that failed is not looked at.
RespuestaListadoSinControl(g, hay) ==
  IF hay THEN IF selectArticles(bd, g) = {} THEN NotFound
              ELSE Ok([ids |-> selectArticles(bd, g)], TRUE)
  ELSE Ok([ids |-> {<<"-1">>}], TRUE)

\* No article of the newsgroup, or no result set: 404.
RespuestaListado(g, hay) ==
  IF hay /\ selectArticles(bd, g) # {}
  THEN Ok([ids |-> selectArticles(bd, g)], TRUE) ELSE NotFound

\* The name in the URL of a listing ends with the string, and
\* obtenerGrupoDeNoticias goes on past it for a "/" or a ".": it may find one
\* or leave the stack.
ListadoDeNoticias(t) ==
  /\ Pide(t, "grupo")
  /\ \E hay \in HayResultSet(openDSArriba, sesionPerdida,
                           CriterioValido(hilos[t].pedido.grupo)) :
       hilos' = ConRespuesta(t, RespuestaListado(hilos[t].pedido.grupo, hay))
  /\ UNCHANGED <<mainVars, fds, navegadores, estado, pedido, respuestas, cache,
                 vivo, openDS, hist>>

\* More newsgroups or a longer name than their arrays hold.  The text of a
\* listing, too, is written to an array nobody measures.
MuereListando(t) ==
  /\ \/ Pide(t, "index") /\ (SeDesborda(DOMAIN bd) \/ NombreDesborda(bd))
     \/ Pide(t, "grupo")
  /\ Morir
  /\ UNCHANGED <<navegadores, estado, pedido, respuestas, cache, openDS, hist>>

-----------------------------------------------------------------------------
(* processRequestTypeUnaNoticia, through the cache.                        *)

\* Mutant of Clave: the ID alone.
ClaveSinGrupo(g, id) == FlattenSeq(id)

SinEspacios(g) == SelectSeq(g, LAMBDA x : x # Espacio)

\* The newsgroup without its spaces, and the ID, one after the other.
Clave(g, id) == FlattenSeq(SinEspacios(g) \o id)

Basura == "basura"  \* the text of an uninitialised stArticle

EnMemcached == {t \in Hilos : hilos[t].pc \in {"memcached_get", "memcached_set"}}

\* A thread starts an operation: if others are at one, all of them are spoiled.
Empezar(t, pc) ==
  [u \in Hilos |->
     IF u = t THEN [hilos[t] EXCEPT !.pc = pc, !.cruzado = EnMemcached # {}]
     ELSE IF u \in EnMemcached THEN [hilos[u] EXCEPT !.cruzado = TRUE]
     ELSE hilos[u]]

BuscarNoticiaEnCache(t) ==
  /\ Pide(t, "noticia")
  /\ hilos' = Empezar(t, "memcached_get")
  /\ UNCHANGED <<mainVars, fds, navegadores, estado, pedido, respuestas, cache,
                 vivo, openDS, hist>>

\* A hit leaves uiArticleID uninitialised: it may be -1, and the answer a 404.
Acierto(t, k, limpia) ==
  \/ hilos' = ConRespuesta(t, Ok([noticia |-> cache[k].noticia],
                                 limpia /\ cache[k].limpia))
  \/ hilos' = ConRespuesta(t, NotFound)

\* The reply: a hit, or a miss; to a spoiled operation, anybody's.
Memcached_get(t) ==
  /\ hilos[t].pc = "memcached_get"
  /\ LET k == Clave(hilos[t].pedido.grupo, hilos[t].pedido.id)
     IN \/ /\ ~ hilos[t].cruzado /\ k \in DOMAIN cache
           /\ Acierto(t, k, TRUE)
        \/ /\ hilos[t].cruzado
           /\ \E otra \in DOMAIN cache : Acierto(t, otra, FALSE)
        \/ /\ hilos[t].cruzado \/ k \notin DOMAIN cache
           /\ hilos' = [hilos EXCEPT ![t].pc = "getArticle", ![t].cruzado = FALSE]
  /\ UNCHANGED <<mainVars, fds, navegadores, estado, pedido, respuestas, cache,
                 vivo, openDS, hist>>

\* buscarNoticiaEnBD.  Then guardarNoticiaEnCache starts, even with nothing found:
\* measuring the uninitialised head may kill the process.
BuscarNoticiaEnBD(t) ==
  /\ hilos[t].pc = "getArticle"
  /\ \E hay \in HayResultSet(openDSArriba, sesionPerdida,
                           CriterioValido(hilos[t].pedido.grupo)) :
       LET a == getArticle(bd, hay, hilos[t].pedido.grupo, hilos[t].pedido.id)
           r == IF a.encontrado THEN Ok([noticia |-> a.noticia], TRUE) ELSE NotFound
       IN \/ /\ hilos' = [Empezar(t, "memcached_set") EXCEPT ![t].respuesta = r]
             /\ UNCHANGED <<mainVars, fds, vivo>>
          \/ ~ a.encontrado /\ Morir
  /\ UNCHANGED <<navegadores, estado, pedido, respuestas, cache, openDS, hist>>

Guardado(k, e) == [otra \in DOMAIN cache \cup {k} |-> IF otra = k THEN e ELSE cache[otra]]

\* The ID of what was not found is printed as -1, and its text is garbage.
Memcached_set(t) ==
  /\ hilos[t].pc = "memcached_set"
  /\ LET r == hilos[t].respuesta
         limpia == r.codigo = 200 /\ ~ hilos[t].cruzado
         k == Clave(hilos[t].pedido.grupo,
                    IF r.codigo = 200 THEN hilos[t].pedido.id ELSE <<"-1">>)
         n == IF limpia THEN r.contenido.noticia ELSE Basura
     IN /\ cache' \in {cache, Guardado(k, [noticia |-> n, limpia |-> limpia])}
        /\ hilos' = ConRespuesta(t, r)
  /\ UNCHANGED <<mainVars, fds, navegadores, estado, pedido, respuestas, vivo,
                 openDS, hist>>

-----------------------------------------------------------------------------
(* The answer, and the end of the connection.                              *)

\* Mutant of Cerrar: the descriptor is never closed.
NoCerrar(f) == fds

Cerrar(f) == [fds EXCEPT ![f] = NoCliente]

\* The browser whose last descriptor is closed sees the end of its connection.
CerrarConexion(t) ==
  LET c == fds[hilos[t].fd]
  IN /\ fds' = Cerrar(hilos[t].fd)
     /\ estado' = IF c \in Clientes /\ estado[c] = "abierto" /\ fds' # fds
                  THEN [estado EXCEPT ![c] = "servido"] ELSE estado
     /\ hilos' = [hilos EXCEPT ![t] = HiloLibre]

Favicon(t) ==
  /\ Pide(t, "favicon")
  /\ CerrarConexion(t)
  /\ UNCHANGED <<mainVars, navegadores, pedido, respuestas, cache, vivo, openDS,
                 hist>>

\* The status line of a 200; a browser that has left answers it with a reset.
Aviso200(t) ==
  /\ hilos[t].pc = "aviso200"
  /\ LET c == fds[hilos[t].fd]
     IN estado' = IF c \in Clientes /\ estado[c] = "cerrado"
                  THEN [estado EXCEPT ![c] = "reset"] ELSE estado
  /\ hilos' = [hilos EXCEPT ![t].pc = "send"]
  /\ UNCHANGED <<mainVars, fds, navegadores, pedido, respuestas, cache, vivo,
                 openDS, hist>>

\* SIGPIPE, which main does not ignore, may kill the process at either send to a
\* browser that reset the connection.
SigPipe(t) ==
  /\ hilos[t].pc \in {"aviso200", "send"}
  /\ LET c == fds[hilos[t].fd] IN c \in Clientes /\ estado[c] = "reset"
  /\ Morir
  /\ UNCHANGED <<navegadores, estado, pedido, respuestas, cache, openDS, hist>>

\* The answer goes to whoever the descriptor stands for now; an error is logged.
Send(t) ==
  /\ hilos[t].pc = "send"
  /\ LET c == fds[hilos[t].fd]
     IN respuestas' = IF c \in Clientes /\ estado[c] = "abierto"
                      THEN [respuestas EXCEPT ![c] = Append(@, hilos[t].respuesta)]
                      ELSE respuestas
  /\ CerrarConexion(t)
  /\ UNCHANGED <<mainVars, navegadores, pedido, cache, vivo, openDS, hist>>

Hilo(t) ==
  /\ vivo
  /\ \/ CopiarParametros(t) \/ Recv(t) \/ RecvNada(t) \/ Favicon(t)
     \/ ListadoGruposDeNoticias(t) \/ ListadoDeNoticias(t) \/ MuereListando(t)
     \/ BuscarNoticiaEnCache(t) \/ Memcached_get(t) \/ BuscarNoticiaEnBD(t)
     \/ Memcached_set(t) \/ Aviso200(t) \/ SigPipe(t) \/ Send(t)

Main == Accept \/ Thr_create

-----------------------------------------------------------------------------
(* The world around: Ctrl+C, the browsers, memcached and OpenDS.           *)

GestionarSenialCtrlC ==
  /\ Morir
  /\ UNCHANGED <<navegadores, estado, pedido, respuestas, cache, openDS, hist>>

ClienteEnvia(c, p) ==
  /\ estado[c] = "abierto" /\ pedidos[c] = SinPedido
  /\ pedido' = [pedido EXCEPT ![c] = p]
  /\ pedidos' = [pedidos EXCEPT ![c] = p]
  /\ UNCHANGED <<mainVars, fds, hilos, backlog, estado, respuestas, cache, vivo,
                 openDS, hist>>

ClienteSeVa(c) ==
  /\ estado[c] = "abierto"
  /\ estado' = [estado EXCEPT ![c] = "cerrado"]
  /\ UNCHANGED <<mainVars, fds, hilos, navegadores, pedido, respuestas, cache,
                 vivo, openDS, hist>>

\* memcached forgets an article, or one of its two servers does.
Memcached_olvida ==
  /\ \E k \in DOMAIN cache :
       cache' = [otra \in DOMAIN cache \ {k} |-> cache[otra]]
  /\ UNCHANGED <<mainVars, fds, hilos, navegadores, estado, pedido, respuestas,
                 vivo, openDS, hist>>

\* NNTPProcessServer stores an article.
AlmacenarNoticia ==
  /\ openDSArriba
  /\ \E id \in DOMAIN Noticias \ DOMAIN bd :
       bd' = [i \in DOMAIN bd \cup {id} |-> Noticias[i]]
  /\ UNCHANGED <<mainVars, fds, hilos, navegadores, estado, pedido, respuestas,
                 cache, vivo, openDSArriba, sesionPerdida, hist>>

\* It stops and is started again, or for a time refuses what it is asked (it is
\* busy, or a limit of its own is reached): the code treats both alike.
CaeOVuelveOpenDS ==
  /\ openDSArriba' = ~ openDSArriba
  /\ sesionPerdida' = TRUE
  /\ UNCHANGED <<mainVars, fds, hilos, navegadores, estado, pedido, respuestas,
                 cache, vivo, bd, hist>>

\* What happens once the process is dead is left out.
Entorno ==
  /\ vivo
  /\ \/ \E c \in Clientes : ClienteSeVa(c)
     \/ \E c \in Clientes, p \in Pedidos : ClienteEnvia(c, p)
     \/ GestionarSenialCtrlC \/ Memcached_olvida
     \/ AlmacenarNoticia \/ CaeOVuelveOpenDS

Next == Main \/ (\E t \in Hilos : Hilo(t)) \/ Entorno

Spec == Init /\ [][Next]_vars

\* The server runs by itself; nobody else has to do anything.
FairSpec == Spec /\ WF_vars(Main) /\ \A t \in Hilos : WF_vars(Hilo(t))

-----------------------------------------------------------------------------
Textos == {Noticias[id].noticia : id \in DOMAIN Noticias} \cup {Basura}

EsRespuesta(r) ==
  \/ r \in {SinRespuesta, NotFound}
  \/ /\ r.codigo = 200 /\ r.limpia \in BOOLEAN
     /\ LET c == r.contenido
        IN \/ DOMAIN c = {"noticia"} /\ c.noticia \in Textos
           \/ DOMAIN c = {"ids"} /\ c.ids \in (SUBSET DOMAIN Noticias) \ {{}}
           \/ DOMAIN c = {"grupos"} /\ c.grupos \in Seq(Grupos)

TypeOK ==
  /\ mainHttp \in {"accept", "thr_create"} /\ stParameters \in Fds \cup {NoFd}
  /\ fds \in [Fds -> Clientes \cup {NoCliente}]
  /\ \A t \in Hilos :
       /\ hilos[t].pc \in {"libre", "copiar", "recv", "procesar", "memcached_get",
                           "getArticle", "memcached_set", "aviso200", "send"}
       /\ hilos[t].fd \in Fds \cup {NoFd}
       /\ hilos[t].pedido \in Interpretados \cup {SinPedido}
       /\ EsRespuesta(hilos[t].respuesta)
  /\ backlog \in Seq(Clientes)
  /\ estado \in [Clientes -> {"abierto", "servido"} \cup Idos]
  /\ pedido \in [Clientes -> Pedidos \cup {SinPedido}]
  /\ pedidos \in [Clientes -> Pedidos \cup {SinPedido}]
  /\ \A c \in Clientes : \A i \in DOMAIN respuestas[c] : EsRespuesta(respuestas[c][i])
  /\ \A k \in DOMAIN cache : cache[k].noticia \in Textos
  /\ vivo \in BOOLEAN
  /\ DOMAIN bd \subseteq DOMAIN Noticias
  /\ openDSArriba \in BOOLEAN /\ sesionPerdida \in BOOLEAN
  /\ compartido \in BOOLEAN /\ desatendidos \subseteq Clientes

\* How a key is spelled, whatever Clave does.
Ids == DOMAIN Noticias \cup {p.id : p \in {q \in Pedidos : q.tipo = "noticia"}}
Escrita == [x \in Grupos \X Ids |-> FlattenSeq(SinEspacios(x[1]) \o x[2])]

(* An article that memcached holds, if no operation of another thread      *)
(* crossed the one that stored it (httpServer.c:307,                       *)
(* funcionesMemcached.c:68), is one of the directory, under the key of its *)
(* own newsgroup and ID: the text of an article that was not found         *)
(* (funcionesMemcached.c:53-58) never passes for one.                      *)
CacheCoherente ==
  \A k \in DOMAIN cache : cache[k].limpia =>
    \E id \in DOMAIN bd, g \in Grupos :
      /\ Coincide(bd[id].grupo, g) /\ k = Escrita[<<g, id>>]
      /\ cache[k].noticia = bd[id].noticia

\* The requests that the cache cannot tell from another.
Confusas ==
  {p \in Pedidos : p.tipo = "noticia" /\
     \E q \in Pedidos \ {p} : /\ q.tipo = "noticia"
                              /\ Escrita[<<q.grupo, q.id>>] = Escrita[<<p.grupo, p.id>>]}

Contesta(r, p) ==
  LET c == r.contenido
  IN CASE p.tipo = "index" ->
            /\ DOMAIN c = {"grupos"}
            /\ \E b \in {[i \in S |-> bd[i]] : S \in SUBSET DOMAIN bd} :
                 EsListadoDeGrupos(c.grupos, b)
       [] p.tipo = "grupo" -> DOMAIN c = {"ids"} /\ c.ids \subseteq selectArticles(bd, p.grupo)
       [] p.tipo = "noticia" ->
            /\ DOMAIN c = {"noticia"}
            /\ p \in Confusas \/
                 \E id \in DOMAIN bd : /\ id = p.id /\ Coincide(bd[id].grupo, p.grupo)
                                       /\ c.noticia = bd[id].noticia
       [] OTHER -> FALSE

(* A browser gets at most one answer, and a 200 is the answer to its own   *)
(* request with what the directory says, though the threads hand the       *)
(* request and the answer along by descriptors that are used again         *)
(* (httpServer.c:302-309, 420) and take articles from a cache all of them  *)
(* write.  Not so once main overwrote the parameters of a thread that had  *)
(* not run, when a crossing spoiled the cached article, or when two        *)
(* requests share a key.                                                   *)
RespuestaCorrecta ==
  ~ compartido => \A c \in Clientes :
    /\ Len(respuestas[c]) <= 1
    /\ \A i \in DOMAIN respuestas[c] :
         respuestas[c][i].codigo = 200 /\ respuestas[c][i].limpia =>
           Contesta(respuestas[c][i], pedidos[c])

\* Nothing in the directory, nor in the cache under the key of a request that
\* names an article, answers to what i names.
NadaNombra(i) ==
  \/ i.tipo = "favicon"
  \/ i.tipo = "grupo"
     /\ \A id \in DOMAIN Noticias : ~ Coincide(Noticias[id].grupo, i.grupo)
  \/ /\ i.tipo = "noticia"
     /\ \A id \in DOMAIN Noticias : id = i.id => ~ Coincide(Noticias[id].grupo, i.grupo)
     /\ \A q \in Pedidos : q.tipo = "noticia" => Escrita[<<q.grupo, q.id>>] # Clave(i.grupo, i.id)

\* What RespuestaCorrecta rests on: a request whose URL is not read as it was
\* written (a newsgroup called "index", or whose name has an accent or a point)
\* does not come upon the name of another newsgroup.
PedidosClaros ==
  \A p \in Pedidos : Interpretado(p) = p \/ NadaNombra(Interpretado(p))

\* The requests that are links, with a name that is safe in them and that a
\* search finds.
EnlacesSencillos ==
  {p \in Pedidos : \/ p.tipo = "index"
                   \/ /\ p.tipo \in {"grupo", "noticia"}
                      /\ Sencillo(p.grupo) /\ Buscable(p.grupo)}

\* What p asks for is in the directory.
Esta(p) ==
  \/ p.tipo = "index"
  \/ p.tipo = "grupo" /\ \E id \in DOMAIN bd : MismoGrupo(p.grupo, bd[id].grupo)
  \/ /\ p.tipo = "noticia"
     /\ p.id \in DOMAIN bd /\ MismoGrupo(p.grupo, bd[p.id].grupo)

(* A link of a page leads to what it names: the way through armarLinkCon,  *)
(* the browser, obtenerRecursoDeCabecera, formatearEspacios and the query  *)
(* (httpServer.c:629, 696-789) gives no 404 for what is in the directory,  *)
(* if the name of its newsgroup comes back from a URL as it was (not so    *)
(* with an accent, a point, a "#") and a search for it finds it (not so    *)
(* with a parenthesis, which util.c:153 and LdapWrapperHandler.c:145 leave *)
(* in the criterion as it is).  Then only a search OpenDS did not answer   *)
(* since the server started, a thread with another's descriptor or no      *)
(* request, and a hit of the cache, whose ID is not set                    *)
(* (funcionesMemcached.c:119), may give one.                               *)
NingunEnlaceRoto ==
  [][\A t \in Hilos :
       LET c == fds[hilos[t].fd]
       IN /\ hilos[t].respuesta # NotFound /\ hilos'[t].respuesta = NotFound
          /\ c \in Clientes /\ pedidos[c] \in EnlacesSencillos /\ Esta(pedidos[c])
          => \/ sesionPerdida \/ compartido \/ estado[c] \in Idos
             \/ hilos[t].pc = "memcached_get"]_vars

Aceptado(c) == \E f \in Fds : fds[f] = c

(* A request on an accepted connection is answered and its connection      *)
(* closed, whatever the other browsers, memcached and OpenDS do, unless    *)
(* its own browser leaves or the process dies; the exceptions are a thread *)
(* that was not created and parameters overwritten before their copy.      *)
TodoPedidoSeResponde ==
  \A c \in Clientes :
    Aceptado(c) /\ pedidos[c] # SinPedido ~>
      \/ estado[c] = "servido" /\ (respuestas[c] # <<>> \/ pedidos[c].tipo = "favicon")
      \/ estado[c] \in Idos \/ ~ vivo \/ compartido \/ c \in desatendidos
=============================================================================
