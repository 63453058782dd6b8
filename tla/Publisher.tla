------------------------------ MODULE Publisher ------------------------------
(***************************************************************************)
(* PublisherWin: the process that stores the articles a journalist types   *)
(* in a Berkeley DB file and sends them to XMLNewsPS.                       *)
(*                                                                         *)
(* Threads: the client thread (publisherFunction), and the sender threads  *)
(* (senderFunction) of which main starts a new one every TIEMPO whatever   *)
(* the earlier ones are doing.  Every thread opens the database by itself  *)
(* (createDb), with no shared environment: a handle reads the page of      *)
(* articles into a private cache the first time it needs it and writes the *)
(* cache back when it is closed.  The small file is one page.              *)
(***************************************************************************)
EXTENDS Red

CONSTANTS Noticias,   \* the articles the journalist may type
          encoding,   \* article typed |-> its text as the XML carries it,
                      \* without accents
          Newsgroup,  \* the newsgroup of the configuration file
          Senders,    \* sender threads alive at the same time
          MaxHora     \* bound on the seconds that pass

ASSUME PublisherAssumption == MaxHora \in Nat \ {0}

ASSUME EncodingAssumption == DOMAIN encoding = Noticias

VARIABLES hora,        \* the wall clock, in seconds (time())
          archivo,     \* the Berkeley DB file: article ID |-> stored article
          pub,         \* the client thread: pc, article, ID and page cache
          snd,         \* each sender thread: pc, page cache, cursor, socket
          con,         \* the connections to XMLNewsPS
          backlog,     \* connections XMLNewsPS has not accepted yet
          xmlArriba,   \* XMLNewsPS is listening
          publicadas   \* history: articles closeDb has written, as they were
                       \* typed, with their IDs

pubVars == <<hora, archivo, pub, snd, publicadas>>
redVars == <<con, backlog, xmlArriba>>
vars    == <<pubVars, redVars>>

Ids == 1 .. MaxHora
NoNoticia == "ninguna"
SinPagina == [leida |-> FALSE, sucia |-> FALSE, pagina |-> <<>>]

\* crearXML: an article as its XML carries it, HEAD and BODY converted.  The file
\* keeps them as they were typed.
Mensaje(id, n) == [id |-> id, grupo |-> Newsgroup, noticia |-> encoding[n]]
Textos == {encoding[n] : n \in Noticias}

\* Mutant of Pagina: caches in common, where a handle sees what another has
\* not written to the file yet.
PaginaCompartida(cache) ==
  IF cache.leida THEN cache.pagina
  ELSE IF pub.cache.sucia THEN pub.cache.pagina ELSE archivo

\* A page as the first access of a handle finds it in the file.
Pagina(cache) == IF cache.leida THEN cache.pagina ELSE archivo

PubInicial == [pc |-> "ingreso", noticia |-> NoNoticia, id |-> 0,
               cache |-> SinPagina]
SndInicial == [pc |-> "libre", key |-> 0, con |-> NoConexion,
               cache |-> SinPagina]

Init ==
  /\ hora = 1
  /\ archivo = <<>>
  /\ pub = PubInicial
  /\ snd = [s \in Senders |-> SndInicial]
  /\ con = [c \in Conexiones |-> ConexionLibre]
  /\ backlog = <<>>
  /\ xmlArriba = TRUE
  /\ publicadas = {}

-----------------------------------------------------------------------------
(* The client thread.                                                      *)

\* lecturaDinamica of HEAD and BODY.
Ingresar(n) ==
  /\ pub.pc = "ingreso"
  /\ \A p \in publicadas : p.noticia # n
  /\ pub' = [pub EXCEPT !.pc = "createDb", !.noticia = n]
  /\ UNCHANGED <<hora, archivo, snd, publicadas, redVars>>

\* createDb, then generateNewID: the ID is the current second.
CreateDbYGenerateNewID ==
  /\ pub.pc = "createDb"
  /\ pub' = [pub EXCEPT !.pc = "putArticle", !.id = hora, !.cache = SinPagina]
  /\ UNCHANGED <<hora, archivo, snd, publicadas, redVars>>

\* Mutant of Nuevo: the mark of transmission is left empty.
NuevoSinMarca(n) == [noticia |-> n, transmitted |-> ""]

Nuevo(n) == [noticia |-> n, transmitted |-> "0"]

\* put with DB_NOOVERWRITE: an ID already on the page is only a warning.
PutArticle ==
  /\ pub.pc = "putArticle"
  /\ LET pagina == Pagina(pub.cache)
     IN pub' = [pub EXCEPT
          !.pc = "closeDb",
          !.cache = IF pub.id \in DOMAIN pagina
                    THEN [leida |-> TRUE, sucia |-> FALSE, pagina |-> pagina]
                    ELSE [leida |-> TRUE, sucia |-> TRUE,
                          pagina |-> [i \in DOMAIN pagina \cup {pub.id} |->
                                      IF i = pub.id THEN Nuevo(pub.noticia)
                                      ELSE pagina[i]]]]
  /\ UNCHANGED <<hora, archivo, snd, publicadas, redVars>>

\* close flushes a dirty cache over the file.
CloseDb ==
  /\ pub.pc = "closeDb"
  /\ pub' = [pub EXCEPT !.pc = "pregunta", !.cache = SinPagina]
  /\ archivo' = IF pub.cache.sucia THEN pub.cache.pagina ELSE archivo
  /\ publicadas' = IF pub.cache.sucia
                   THEN publicadas \cup {[id |-> pub.id, noticia |-> pub.noticia]}
                   ELSE publicadas
  /\ UNCHANGED <<hora, snd, redVars>>

\* "Desea publicar otra noticia S/N"
OtraNoticia ==
  /\ pub.pc = "pregunta"
  /\ \/ pub' = [PubInicial EXCEPT !.pc = "ingreso"]
     \/ pub' = [PubInicial EXCEPT !.pc = "fin"]
  /\ UNCHANGED <<hora, archivo, snd, publicadas, redVars>>

-----------------------------------------------------------------------------
(* The sender threads.                                                     *)

\* main: Sleep(TIEMPO), then one more sender thread, whose createDb opens a
\* handle of its own.
IniciarSender(s) ==
  /\ snd[s].pc = "libre"
  /\ snd' = [snd EXCEPT ![s] = [SndInicial EXCEPT !.pc = "c_get"]]
  /\ UNCHANGED <<hora, archivo, pub, publicadas, redVars>>

Siguientes(pagina, key) == {i \in DOMAIN pagina : i > key}

\* c_get(DB_NEXT): the next article in key order; sent already ones are
\* passed over; after the last one the cursor is closed.
\* (The key order of the file is by bytes; on a private page any order visits
\* the same articles.)
SiguienteNoticia(s) ==
  /\ snd[s].pc = "c_get"
  /\ LET pagina == Pagina(snd[s].cache)
         resto  == Siguientes(pagina, snd[s].key)
         leida  == [snd[s].cache EXCEPT !.leida = TRUE, !.pagina = pagina]
     IN \/ /\ resto = {}
           /\ snd' = [snd EXCEPT ![s].pc = "closeDb", ![s].cache = leida]
        \/ \E i \in resto :
             /\ \A j \in resto : i <= j
             /\ snd' = [snd EXCEPT ![s].key = i, ![s].cache = leida,
                          ![s].pc = IF pagina[i].transmitted = "0"
                                    THEN "connect" ELSE "c_get"]
  /\ UNCHANGED <<hora, archivo, pub, publicadas, redVars>>

\* enviarXML up to the send of the handshake; a failure (WSAStartup, socket,
\* connect, send) returns 1, and the article stays for another sender.
Connect(s) ==
  /\ snd[s].pc = "connect"
  /\ \/ /\ xmlArriba
        /\ \E c \in Conexiones :
             /\ con[c].estado = "libre"
             /\ \A d \in Conexiones : d < c => con[d].estado # "libre"
             /\ con' = [con EXCEPT ![c].estado = "abierta",
                                   ![c].aServidor = <<Handshake>>]
             /\ backlog' = Append(backlog, c)
             /\ snd' = [snd EXCEPT ![s].pc = "recvHandshake", ![s].con = c]
     \/ /\ snd' = [snd EXCEPT ![s].pc = "c_get", ![s].con = NoConexion]
        /\ UNCHANGED <<con, backlog>>
  /\ UNCHANGED <<hora, archivo, pub, publicadas, xmlArriba>>

\* The reply to the handshake: "1" gives up without closing the socket.  When
\* recv fails recvbuf is uninitialised, and its descriptor may be anything.
RecvHandshake(s) ==
  /\ snd[s].pc = "recvHandshake"
  /\ LET c == snd[s].con
     IN \E r \in LeidoPorPublisher(con[c]) :
          /\ con' = [con EXCEPT ![c] = TrasLeerPublisher(@)]
          /\ \/ /\ r \in {"1", "cierre"}
                /\ snd' = [snd EXCEPT ![s].pc = "c_get", ![s].con = NoConexion]
             \/ /\ r # "1"
                /\ snd' = [snd EXCEPT ![s].pc = "sendXml"]
  /\ UNCHANGED <<hora, archivo, pub, publicadas, backlog, xmlArriba>>

\* The XML of the article under the cursor, and the filling behind it.
SendXml(s) ==
  /\ snd[s].pc = "sendXml"
  /\ LET c == snd[s].con
         id == snd[s].key
         msg == Mensaje(id, snd[s].cache.pagina[id].noticia)
     IN \/ /\ con[c].estado = "abierta"
           /\ con' = [con EXCEPT ![c] = EnviarAServidor(@, <<Xml(msg), Relleno>>)]
           /\ snd' = [snd EXCEPT ![s].pc = "recvRespuesta"]
        \/ /\ con[c].estado = "caida"
           /\ con' = con
           /\ snd' = [snd EXCEPT ![s].pc = "c_get", ![s].con = NoConexion]
  /\ UNCHANGED <<hora, archivo, pub, publicadas, backlog, xmlArriba>>

\* Mutant of EsRequestOK: any answer will do.
EsRespuesta(r) == r # "cierre"

EsRequestOK(r) == r = "RequestOK"

\* Only "RequestOK" makes enviarXML return 0; a reply closes the socket, a
\* lost connection leaves it.
RecvRespuesta(s) ==
  /\ snd[s].pc = "recvRespuesta"
  /\ LET c == snd[s].con
         leida == TrasLeerPublisher(con[c])
     IN \E r \in LeidoPorPublisher(con[c]) :
          /\ con' = [con EXCEPT ![c] = IF r = "cierre" THEN leida
                                       ELSE [leida EXCEPT !.estado = "cerrada"]]
          /\ snd' = [snd EXCEPT ![s].con = NoConexion,
                       ![s].pc = IF EsRequestOK(r) THEN "put" ELSE "c_get"]
  /\ UNCHANGED <<hora, archivo, pub, publicadas, backlog, xmlArriba>>

\* dbCursor->put(DB_CURRENT) of the article with transmitted "1": in the cache.
PutTransmitted(s) ==
  /\ snd[s].pc = "put"
  /\ snd' = [snd EXCEPT ![s].pc = "c_get", ![s].cache.sucia = TRUE,
               ![s].cache.pagina[snd[s].key].transmitted = "1"]
  /\ UNCHANGED <<hora, archivo, pub, publicadas, redVars>>

\* closeDb: the page goes back to the file, and the thread ends.
CerrarSender(s) ==
  /\ snd[s].pc = "closeDb"
  /\ archivo' = IF snd[s].cache.sucia THEN snd[s].cache.pagina ELSE archivo
  /\ snd' = [snd EXCEPT ![s] = SndInicial]
  /\ UNCHANGED <<hora, pub, publicadas, redVars>>

-----------------------------------------------------------------------------
(* The clock, and a crash of the process: caches and sockets are lost, the *)
(* file stays; main starts again.                                          *)

PasaUnSegundo ==
  /\ hora < MaxHora
  /\ hora' = hora + 1
  /\ UNCHANGED <<archivo, pub, snd, publicadas, redVars>>

CaidaPublisher ==
  /\ pub' = PubInicial
  /\ snd' = [s \in Senders |-> SndInicial]
  /\ con' = CierreDelPublisher(con)
  /\ UNCHANGED <<hora, archivo, publicadas, backlog, xmlArriba>>

HiloCliente ==
  \/ \E n \in Noticias : Ingresar(n)
  \/ CreateDbYGenerateNewID
  \/ PutArticle
  \/ CloseDb
  \/ OtraNoticia

HiloSender(s) ==
  \/ SiguienteNoticia(s)
  \/ Connect(s)
  \/ RecvHandshake(s)
  \/ SendXml(s)
  \/ RecvRespuesta(s)
  \/ PutTransmitted(s)
  \/ CerrarSender(s)

SistemaPublisher ==
  \/ HiloCliente
  \/ \E s \in Senders : IniciarSender(s) \/ HiloSender(s)
  \/ PasaUnSegundo
=============================================================================
