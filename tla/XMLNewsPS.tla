------------------------------ MODULE XMLNewsPS ------------------------------
(***************************************************************************)
(* XMLNewsPS: accepts the connections of the publishers, and for each one  *)
(* starts a thread (clientFunction) that answers the handshake, receives   *)
(* the XML of one article, acknowledges it with RequestOK and puts it in   *)
(* the queue.                                                              *)
(*                                                                         *)
(* main hands the socket to the new thread through stParameters, a local   *)
(* of its accept loop whose address it passes: the thread copies it when   *)
(* it runs, and main may have accepted the next connection by then.        *)
(***************************************************************************)
EXTENDS Red, ColaMSMQ, FiniteSets

CONSTANTS Hilos,    \* client threads alive at the same time
          Noticias, \* the texts publishers may send
          Largas    \* those that make an XML longer than BUFFERSIZE

ASSUME XMLNewsPSAssumption == Largas \subseteq Noticias

VARIABLES mainXml,      \* main's place in the accept loop
          stParameters, \* the socket in the local main shares with threads
          hilos,        \* the client threads
          con,          \* the connections
          backlog,      \* connections waiting for accept
          xmlArriba,    \* the process is running
          cola,         \* the MSMQ queue
          confirmadas,  \* history: articles RequestOK was sent for
          encoladas,    \* history: articles whose XML was put in the queue
          perdidas      \* history: acknowledged ones a crash took away

procVars == <<mainXml, stParameters, hilos>>
histVars == <<confirmadas, encoladas, perdidas>>

HiloLibre == [pc |-> "libre", con |-> NoConexion, payload |-> Basura]

InitXml ==
  /\ mainXml = "accept"
  /\ stParameters = NoConexion
  /\ hilos = [t \in Hilos |-> HiloLibre]
  /\ xmlArriba = TRUE
  /\ backlog = <<>>
  /\ con = [c \in Conexiones |-> ConexionLibre]
  /\ cola = <<>>
  /\ confirmadas = {}
  /\ encoladas = {}
  /\ perdidas = {}

-----------------------------------------------------------------------------
(* main.                                                                   *)

\* accept, and the parameters of the next thread.
Accept ==
  /\ xmlArriba
  /\ mainXml = "accept"
  /\ backlog # <<>>
  /\ stParameters' = Head(backlog)
  /\ backlog' = Tail(backlog)
  /\ mainXml' = "beginthreadex"
  /\ UNCHANGED <<hilos, con, xmlArriba, cola, histVars>>

\* Mutant of BeginThread: a fixed set of thread contexts, taken in use or not.
BeginThreadReusa ==
  /\ mainXml = "beginthreadex"
  /\ mainXml' = "accept"
  /\ \E t \in Hilos :
       hilos' = [hilos EXCEPT ![t] = [HiloLibre EXCEPT !.pc = "copiar"]]
  /\ UNCHANGED <<stParameters, con, backlog, xmlArriba, cola, histVars>>

\* _beginthreadex: a new thread that has not copied its parameters yet, or a
\* failure that leaves the connection accepted and unattended.
BeginThread ==
  /\ mainXml = "beginthreadex"
  /\ mainXml' = "accept"
  /\ \/ \E t \in Hilos :
          /\ hilos[t].pc = "libre"
          /\ hilos' = [hilos EXCEPT ![t].pc = "copiar"]
     \/ hilos' = hilos
  /\ UNCHANGED <<stParameters, con, backlog, xmlArriba, cola, histVars>>

-----------------------------------------------------------------------------
(* clientFunction.                                                         *)

\* The thread copies *threadParameters.
CopiarParametros(t) ==
  /\ hilos[t].pc = "copiar"
  /\ hilos' = [hilos EXCEPT ![t].pc = "recvHandshake", ![t].con = stParameters]
  /\ UNCHANGED <<mainXml, stParameters, con, backlog, xmlArriba, cola, histVars>>

\* The first recv, parsed as a handshake: anything that is not one fails the
\* validation of the descriptors.
RecvHandshakeXml(t) ==
  /\ hilos[t].pc = "recvHandshake"
  /\ LET c == hilos[t].con
     IN \E m \in LeidoPorServidor(con[c]) :
          /\ con' = [con EXCEPT ![c] = TrasLeerServidor(@)]
          /\ hilos' = [hilos EXCEPT ![t].pc =
                         IF m = Handshake THEN "valido" ELSE "invalido"]
  /\ UNCHANGED <<mainXml, stParameters, backlog, xmlArriba, cola, histVars>>

\* Invalid: answer "1" and end, without closing the socket.
RechazarHandshake(t) ==
  /\ hilos[t].pc = "invalido"
  /\ con' = [con EXCEPT ![hilos[t].con] = EnviarAPublisher(@, "1")]
  /\ hilos' = [hilos EXCEPT ![t] = HiloLibre]
  /\ UNCHANGED <<mainXml, stParameters, backlog, xmlArriba, cola, histVars>>

AceptarHandshake(t) ==
  /\ hilos[t].pc = "valido"
  /\ con' = [con EXCEPT ![hilos[t].con] = EnviarAPublisher(@, "2")]
  /\ hilos' = [hilos EXCEPT ![t].pc = "recvXml"]
  /\ UNCHANGED <<mainXml, stParameters, backlog, xmlArriba, cola, histVars>>

\* Mutants of Payload and TrasRecvXml: the packet with its header; a recv that
\* leaves what it read in the stream.
PayloadConEncabezado(m) == m
TrasMirarXml(c) == c

Payload(m) == IF m.tipo = "xml" THEN XmlDe(m.noticia) ELSE Basura
TrasRecvXml(c) == TrasLeerServidor(c)

\* The second recv.  Whatever else arrives is taken for an XML as well.
RecvXml(t) ==
  /\ hilos[t].pc = "recvXml"
  /\ LET c == hilos[t].con
     IN \E m \in LeidoPorServidor(con[c]) :
          /\ con' = [con EXCEPT ![c] = TrasRecvXml(@)]
          /\ hilos' = [hilos EXCEPT
               ![t].pc = IF m.tipo = "xml" THEN "responderXml"
                                           ELSE "responderCorrida",
               ![t].payload = Payload(m)]
  /\ UNCHANGED <<mainXml, stParameters, backlog, xmlArriba, cola, histVars>>

\* RequestOK goes out before the message is in the queue.
ResponderXml(t) ==
  /\ \/ /\ hilos[t].pc = "responderXml"
        /\ con' = [con EXCEPT ![hilos[t].con] = EnviarAPublisher(@, "RequestOK")]
        /\ confirmadas' = confirmadas \cup {hilos[t].payload}
     \/ /\ hilos[t].pc = "responderCorrida"
        /\ con' = [con EXCEPT ![hilos[t].con] = EnviarAPublisher(@, "corrida")]
        /\ confirmadas' = confirmadas
  /\ hilos' = [hilos EXCEPT ![t].pc = "insertarMensaje"]
  /\ UNCHANGED <<mainXml, stParameters, backlog, xmlArriba, cola, encoladas,
                 perdidas>>

Trae(t) == hilos[t].payload # Basura

\* Mutant of Cuerpo: a buffer without its terminator never parses.
CuerpoSinTerminar(payload) == Basura

\* recv reads at most BUFFERSIZE bytes: a longer XML is cut short.
Cuerpo(payload) ==
  IF payload # Basura /\ payload.noticia \in Largas THEN Basura ELSE payload

\* The body goes to the queue unverified, and the thread ends.
InsertarMensaje(t) ==
  /\ hilos[t].pc = "insertarMensaje"
  /\ cola' = insertarMensaje(cola, Cuerpo(hilos[t].payload))
  /\ encoladas' = encoladas \cup
               (IF Trae(t) THEN {hilos[t].payload} ELSE {})
  /\ hilos' = [hilos EXCEPT ![t] = HiloLibre]
  /\ UNCHANGED <<mainXml, stParameters, con, backlog, xmlArriba, confirmadas,
                 perdidas>>

-----------------------------------------------------------------------------
(* The process dies and is started again.                                  *)

EnMano == {t \in Hilos : hilos[t].pc = "insertarMensaje" /\ Trae(t)}

CaidaXml ==
  /\ xmlArriba
  /\ xmlArriba' = FALSE
  /\ mainXml' = "accept"
  /\ stParameters' = NoConexion
  /\ hilos' = [t \in Hilos |-> HiloLibre]
  /\ \E pierde \in BOOLEAN : con' = CaidaDelServidor(con, pierde)
  /\ backlog' = <<>>
  /\ perdidas' = perdidas \cup {hilos[t].payload : t \in EnMano}
  /\ UNCHANGED <<cola, confirmadas, encoladas>>

ArranqueXml ==
  /\ ~ xmlArriba
  /\ xmlArriba' = TRUE
  /\ UNCHANGED <<procVars, con, backlog, cola, histVars>>

HiloXml(t) ==
  \/ CopiarParametros(t)
  \/ RecvHandshakeXml(t)
  \/ RechazarHandshake(t)
  \/ AceptarHandshake(t)
  \/ RecvXml(t)
  \/ ResponderXml(t)
  \/ InsertarMensaje(t)

SistemaXml == Accept \/ BeginThread \/ \E t \in Hilos : HiloXml(t)

-----------------------------------------------------------------------------
(* The publishers, for checking this process alone: they connect, send the *)
(* XML of an article when the handshake is accepted, and close or die at   *)
(* any moment.                                                             *)

ClienteConecta(c) ==
  /\ xmlArriba
  /\ con[c].estado = "libre"
  /\ con' = [con EXCEPT ![c].estado = "abierta", ![c].aServidor = <<Handshake>>]
  /\ backlog' = Append(backlog, c)
  /\ UNCHANGED <<procVars, xmlArriba, cola, histVars>>

Envio(n) == [id |-> 1, grupo |-> "grupo", noticia |-> n]

ClienteEnviaXml(c, n) ==
  /\ con[c].estado = "abierta"
  /\ "2" \in LeidoPorPublisher(con[c])
  /\ con' = [con EXCEPT ![c] =
       EnviarAServidor(TrasLeerPublisher(@),
                       <<Xml(Envio(n)), Relleno>>)]
  /\ UNCHANGED <<procVars, backlog, xmlArriba, cola, histVars>>

ClienteCierra(c) ==
  /\ con[c].estado = "abierta"
  /\ con' = [con EXCEPT ![c].estado = "cerrada"]
  /\ UNCHANGED <<procVars, backlog, xmlArriba, cola, histVars>>

Publishers ==
  \E c \in Conexiones :
    \/ ClienteConecta(c)
    \/ \E n \in Noticias : ClienteEnviaXml(c, n)
    \/ ClienteCierra(c)

vars == <<procVars, con, backlog, xmlArriba, cola, histVars>>

Next == SistemaXml \/ CaidaXml \/ ArranqueXml \/ Publishers

Spec == InitXml /\ [][Next]_vars

-----------------------------------------------------------------------------
Articulos == {XmlDe(Envio(n)) : n \in Noticias}
Mensajes == {Basura} \cup Articulos
Unidades == {Handshake, Relleno} \cup {Xml(Envio(n)) : n \in Noticias}
PcHilo == {"libre", "copiar", "recvHandshake", "valido", "invalido", "recvXml",
           "responderXml", "responderCorrida", "insertarMensaje"}

TypeOK ==
  /\ mainXml \in {"accept", "beginthreadex"}
  /\ stParameters \in Conexiones \cup {NoConexion}
  /\ hilos \in [Hilos -> [pc : PcHilo, con : Conexiones \cup {NoConexion},
                         payload : Mensajes]]
  /\ con \in [Conexiones -> [estado : {"libre", "abierta", "cerrada", "caida"},
                             aServidor : Seq(Unidades),
                             aPublisher : Seq(Respuestas)]]
  /\ backlog \in Seq(Conexiones)
  /\ xmlArriba \in BOOLEAN
  /\ cola \in Seq(Mensajes)
  /\ confirmadas \subseteq Articulos
  /\ encoladas \subseteq Articulos
  /\ perdidas \subseteq Articulos

(* An article the publisher was told RequestOK for is in the queue, or a   *)
(* thread is about to put it there, or the process died in between         *)
(* (xmlNewsPS.cpp:268 answers, xmlNewsPS.cpp:281 enqueues).                *)
ConfirmadaNoSePierde ==
  \A m \in confirmadas :
    \/ m \in encoladas
    \/ m \in perdidas
    \/ \E t \in EnMano : hilos[t].payload = m

(* What goes into the queue after an acknowledgement is that very article: *)
(* an article is lost only by a crash, or by an XML longer than BUFFERSIZE, *)
(* which is acknowledged all the same and enqueued cut short.               *)
ConfirmadaSeEntrega ==
  \A m \in confirmadas \ perdidas :
    \/ m.noticia \in Largas
    \/ \E i \in DOMAIN cola : cola[i] = m
    \/ \E t \in EnMano : hilos[t].payload = m

(* A connection is acknowledged at most once, and no thread but the one    *)
(* that read its XML acknowledges it, even when two threads were given the *)
(* same socket through stParameters (xmlNewsPS.cpp:361-368).               *)
UnSoloRequestOK ==
  \A c \in Conexiones :
    LET pendientes == {t \in Hilos : hilos[t].pc = "responderXml" /\ hilos[t].con = c}
        enStream   == {i \in DOMAIN con[c].aServidor : con[c].aServidor[i].tipo = "xml"}
        enviados   == {i \in DOMAIN con[c].aPublisher : con[c].aPublisher[i] = "RequestOK"}
    IN Cardinality(pendientes) + Cardinality(enStream) + Cardinality(enviados) <= 1
=============================================================================
