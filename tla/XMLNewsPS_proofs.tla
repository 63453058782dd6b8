-------------------------- MODULE XMLNewsPS_proofs --------------------------
(***************************************************************************)
(* XMLNewsPS, for any number of connections, threads and articles: its     *)
(* types, that an acknowledged article is enqueued, about to be, or was    *)
(* taken by a crash, and that a connection is acknowledged once.           *)
(***************************************************************************)
EXTENDS XMLNewsPS, SequenceTheorems, FiniteSetTheorems, TLAPS

-----------------------------------------------------------------------------
(* The operations on one connection.                                       *)

Estados == {"libre", "abierta", "cerrada", "caida"}
Conexion == [estado : Estados, aServidor : Seq(Unidades),
             aPublisher : Seq(Respuestas)]

LEMMA Lecturas ==
  ASSUME NEW c \in Conexion
  PROVE  /\ TrasLeerServidor(c) \in Conexion
         /\ TrasLeerPublisher(c) \in Conexion
         /\ LeidoPorServidor(c) \subseteq Unidades \cup {Cierre}
<1>1. /\ c.aServidor # <<>> => Tail(c.aServidor) \in Seq(Unidades)
                             /\ Head(c.aServidor) \in Unidades
      /\ c.aPublisher # <<>> => Tail(c.aPublisher) \in Seq(Respuestas)
  BY DEF Conexion
<1>2. QED
  BY <1>1 DEF Conexion, TrasLeerServidor, TrasLeerPublisher, LeidoPorServidor

LEMMA Envios ==
  ASSUME NEW c \in Conexion
  PROVE  /\ \A r \in Respuestas : EnviarAPublisher(c, r) \in Conexion
         /\ \A n \in Noticias :
              EnviarAServidor(c, <<Xml(Envio(n)), Relleno>>) \in Conexion
<1>1. \A r \in Respuestas : EnviarAPublisher(c, r) \in Conexion
  <2>1. \A r \in Respuestas : Append(c.aPublisher, r) \in Seq(Respuestas)
    BY DEF Conexion
  <2>2. QED
    BY <2>1 DEF Conexion, EnviarAPublisher
<1>2. ASSUME NEW n \in Noticias
      PROVE  EnviarAServidor(c, <<Xml(Envio(n)), Relleno>>) \in Conexion
  <2>1. Xml(Envio(n)) \in Unidades /\ Relleno \in Unidades
    BY DEF Unidades
  <2>2. <<Xml(Envio(n)), Relleno>> \in Seq(Unidades)
    BY <2>1
  <2>3. c.aServidor \o <<Xml(Envio(n)), Relleno>> \in Seq(Unidades)
    BY <2>2 DEF Conexion
  <2>4. QED
    BY <2>3 DEF Conexion, EnviarAServidor
<1>3. QED
  BY <1>1, <1>2

LEMMA CaidaTipo ==
  ASSUME NEW co \in [Conexiones -> Conexion], NEW pierde \in BOOLEAN
  PROVE  CaidaDelServidor(co, pierde) \in [Conexiones -> Conexion]
<1>1. <<>> \in Seq(Unidades) /\ <<>> \in Seq(Respuestas)
  OBVIOUS
<1>2. QED
  BY <1>1 DEF Conexion, Estados, CaidaDelServidor

\* What recvXml makes of what it read.
LEMMA Leido ==
  ASSUME NEW m \in Unidades \cup {Cierre}, m.tipo = "xml"
  PROVE  XmlDe(m.noticia) \in Mensajes \ {Basura}
BY DEF Unidades, Mensajes, Articulos, Handshake, Relleno, Cierre, Xml, XmlDe, Envio, Basura

-----------------------------------------------------------------------------
(* Types.                                                                  *)

\* A thread past the copy of its parameters has a connection, and one about to
\* acknowledge has an article.
ConexionDelHilo ==
  /\ mainXml = "beginthreadex" => stParameters \in Conexiones
  /\ \A t \in Hilos :
       /\ hilos[t].pc = "copiar" => stParameters \in Conexiones
       /\ hilos[t].pc \notin {"libre", "copiar"} => hilos[t].con \in Conexiones
       /\ hilos[t].pc = "responderXml" => hilos[t].payload # Basura

Hilo == [pc : PcHilo, con : Conexiones \cup {NoConexion}, payload : Mensajes]

Tipos == TypeOK /\ ConexionDelHilo

LEMMA TipoDeMensaje ==
  /\ HiloLibre \in Hilo /\ Basura \in Mensajes
  /\ Mensajes \ {Basura} \subseteq Articulos
BY DEF HiloLibre, Hilo, PcHilo, Mensajes, Basura, XmlDe, Envio

LEMMA TiposInvariante == Spec => []Tipos
<1>1. InitXml => Tipos
  <2> SUFFICES ASSUME InitXml PROVE Tipos
    OBVIOUS
  <2>1. ConexionLibre \in Conexion
    BY DEF ConexionLibre, Conexion, Estados
  <2>2. con \in [Conexiones -> Conexion] /\ hilos \in [Hilos -> Hilo]
    BY <2>1, TipoDeMensaje DEF InitXml
  <2>3. backlog \in Seq(Conexiones) /\ cola \in Seq(Mensajes)
    BY DEF InitXml
  <2>4. QED
    BY <2>2, <2>3 DEF InitXml, Tipos, TypeOK, ConexionDelHilo, Conexion, Estados,
                      Hilo, HiloLibre, NoConexion
<1>2. Tipos /\ [Next]_vars => Tipos'
  <2> SUFFICES ASSUME Tipos, [Next]_vars PROVE Tipos'
    OBVIOUS
  <2>0. /\ con \in [Conexiones -> Conexion] /\ hilos \in [Hilos -> Hilo]
        /\ backlog \in Seq(Conexiones) /\ cola \in Seq(Mensajes)
    BY DEF Tipos, TypeOK, Conexion, Estados, Hilo
  <2>1. CASE Accept
    <3>1. Head(backlog) \in Conexiones /\ Tail(backlog) \in Seq(Conexiones)
      BY <2>1, <2>0 DEF Accept
    <3>2. QED
      BY <2>1, <3>1 DEF Accept, Tipos, TypeOK, ConexionDelHilo, histVars
  <2>2. CASE BeginThread
    <3>0. stParameters \in Conexiones
      BY <2>2 DEF BeginThread, Tipos, ConexionDelHilo
    <3>1. ASSUME NEW t \in Hilos, hilos[t].pc = "libre",
                 hilos' = [hilos EXCEPT ![t].pc = "copiar"]
          PROVE  hilos' \in [Hilos -> Hilo] /\ ConexionDelHilo'
      <4> DEFINE h == [hilos[t] EXCEPT !.pc = "copiar"]
      <4>1. hilos' = [hilos EXCEPT ![t] = h]
        BY <3>1, <2>0
      <4>2. h \in Hilo /\ h.pc = "copiar"
        BY <3>0, <2>0 DEF Hilo, PcHilo
      <4> HIDE DEF h
      <4>3. hilos' \in [Hilos -> Hilo]
        BY <4>1, <4>2, <2>0
      <4>4. QED
        BY <2>2, <3>0, <4>1, <4>2, <4>3, <2>0
           DEF BeginThread, Tipos, ConexionDelHilo
    <3>2. CASE hilos' = hilos
      BY <2>2, <3>0, <3>2, <2>0
         DEF BeginThread, Tipos, TypeOK, ConexionDelHilo, Hilo, histVars
    <3>3. QED
      BY <2>2, <3>1, <3>2
         DEF BeginThread, Tipos, TypeOK, Hilo, histVars
  <2>3. CASE \E t \in Hilos : CopiarParametros(t)
    <3>1. hilos' \in [Hilos -> Hilo]
      <4> PICK t \in Hilos : CopiarParametros(t)
        BY <2>3
      <4> DEFINE h == [hilos[t] EXCEPT !.pc = "recvHandshake", !.con = stParameters]
      <4>1. hilos' = [hilos EXCEPT ![t] = h]
        BY <2>0 DEF CopiarParametros
      <4>2. h \in Hilo
        BY <2>0 DEF Tipos, TypeOK, Hilo, PcHilo
      <4>3. QED
        BY <4>1, <4>2, <2>0
    <3>2. QED
      BY <2>3, <3>1, <2>0 DEF CopiarParametros, Tipos, TypeOK, ConexionDelHilo,
                              Hilo, histVars
  <2>4. CASE \E t \in Hilos : RecvHandshakeXml(t)
    <3> PICK t \in Hilos : RecvHandshakeXml(t)
      BY <2>4
    <3>1. hilos' \in [Hilos -> Hilo]
      BY <2>0 DEF RecvHandshakeXml, Hilo, PcHilo
    <3>2. con' \in [Conexiones -> Conexion]
      <4>1. hilos[t].con \in Conexiones
        BY DEF RecvHandshakeXml, Tipos, ConexionDelHilo
      <4>2. TrasLeerServidor(con[hilos[t].con]) \in Conexion
        BY <4>1, <2>0, Lecturas
      <4>3. QED
        BY <4>2, <2>0 DEF RecvHandshakeXml
    <3>3. QED
      BY <3>1, <3>2, <2>0 DEF RecvHandshakeXml, Tipos, TypeOK, ConexionDelHilo,
         Conexion, Estados, Hilo, HiloLibre, histVars
  <2>5. CASE \E t \in Hilos : RechazarHandshake(t)
    <3> PICK t \in Hilos : RechazarHandshake(t)
      BY <2>5
    <3>1. hilos' \in [Hilos -> Hilo]
      BY <2>0, TipoDeMensaje DEF RechazarHandshake
    <3>2. con' \in [Conexiones -> Conexion]
      <4>1. hilos[t].con \in Conexiones
        BY DEF RechazarHandshake, Tipos, ConexionDelHilo
      <4>2. \A r \in Respuestas :
              EnviarAPublisher(con[hilos[t].con], r) \in Conexion
        BY <4>1, <2>0, Envios
      <4>3. QED
        BY <4>2, <2>0 DEF RechazarHandshake, Respuestas
    <3>3. QED
      BY <3>1, <3>2, <2>0 DEF RechazarHandshake, Tipos, TypeOK, ConexionDelHilo,
         Conexion, Estados, Hilo, HiloLibre, histVars
  <2>6. CASE \E t \in Hilos : AceptarHandshake(t)
    <3> PICK t \in Hilos : AceptarHandshake(t)
      BY <2>6
    <3>1. hilos' \in [Hilos -> Hilo]
      BY <2>0 DEF AceptarHandshake, Hilo, PcHilo
    <3>2. con' \in [Conexiones -> Conexion]
      <4>1. hilos[t].con \in Conexiones
        BY DEF AceptarHandshake, Tipos, ConexionDelHilo
      <4>2. \A r \in Respuestas :
              EnviarAPublisher(con[hilos[t].con], r) \in Conexion
        BY <4>1, <2>0, Envios
      <4>3. QED
        BY <4>2, <2>0 DEF AceptarHandshake, Respuestas
    <3>3. QED
      BY <3>1, <3>2, <2>0 DEF AceptarHandshake, Tipos, TypeOK, ConexionDelHilo,
         Conexion, Estados, Hilo, HiloLibre, histVars
  <2>7. CASE \E t \in Hilos : RecvXml(t)
    <3> PICK t \in Hilos : RecvXml(t)
      BY <2>7
    <3>0. hilos[t].con \in Conexiones
      BY DEF RecvXml, Tipos, ConexionDelHilo
    <3> DEFINE h(m) == [hilos[t] EXCEPT
                          !.pc = IF m.tipo = "xml" THEN "responderXml"
                                                   ELSE "responderCorrida",
                          !.payload = Payload(m)]
    <3>1. PICK m \in LeidoPorServidor(con[hilos[t].con]) :
            /\ con' = [con EXCEPT ![hilos[t].con] =
                                    TrasLeerServidor(con[hilos[t].con])]
            /\ hilos' = [hilos EXCEPT ![t] = h(m)]
      BY <3>0, <2>0 DEF RecvXml, TrasRecvXml
    <3>2. con' \in [Conexiones -> Conexion]
      BY <3>0, <3>1, <2>0, Lecturas
    <3>3. /\ Payload(m) \in Mensajes
          /\ m.tipo = "xml" => Payload(m) # Basura
      BY <3>0, <3>1, <2>0, Lecturas, Leido, TipoDeMensaje DEF Payload
    <3>4. hilos' \in [Hilos -> Hilo]
      BY <3>1, <3>3, <2>0, TipoDeMensaje DEF Hilo, PcHilo
    <3>5. ConexionDelHilo'
      <4>1. /\ h(m).con \in Conexiones
            /\ h(m).pc \in {"responderXml", "responderCorrida"}
            /\ h(m).pc = "responderXml" => h(m).payload # Basura
        BY <3>0, <3>3, <2>0 DEF Hilo
      <4> HIDE DEF h
      <4>2. \A u \in Hilos : hilos'[u] = IF u = t THEN h(m) ELSE hilos[u]
        BY <3>1, <2>0
      <4>3. mainXml' = mainXml /\ stParameters' = stParameters
        BY DEF RecvXml
      <4>4. QED
        BY <4>1, <4>2, <4>3 DEF Tipos, ConexionDelHilo
    <3>6. QED
      BY <3>2, <3>4, <3>5 DEF RecvXml, Tipos, TypeOK, Conexion, Estados, Hilo,
                              histVars
  <2>8. CASE \E t \in Hilos : ResponderXml(t)
    <3> PICK t \in Hilos : ResponderXml(t)
      BY <2>8
    <3>0. hilos[t].con \in Conexiones
      BY DEF ResponderXml, Tipos, ConexionDelHilo
    <3>1. \A r \in Respuestas : EnviarAPublisher(con[hilos[t].con], r) \in Conexion
      BY <3>0, <2>0, Envios
    <3>2. con' \in [Conexiones -> Conexion]
      BY <3>1, <2>0 DEF ResponderXml, Respuestas
    <3>3. hilos' \in [Hilos -> Hilo]
      BY <2>0 DEF ResponderXml, Hilo, PcHilo
    <3>4. confirmadas' \subseteq Articulos
      <4>1. hilos[t].pc = "responderXml" => hilos[t].payload \in Articulos
        BY <2>0, TipoDeMensaje DEF Tipos, ConexionDelHilo, Hilo
      <4>2. QED
        BY <4>1 DEF ResponderXml, Tipos, TypeOK
    <3>5. ConexionDelHilo'
      BY <3>0, <2>0 DEF ResponderXml, Tipos, ConexionDelHilo, Hilo
    <3>6. QED
      BY <3>2, <3>3, <3>4, <3>5 DEF ResponderXml, Tipos, TypeOK, Conexion,
                                    Estados, Hilo
  <2>9. CASE \E t \in Hilos : InsertarMensaje(t)
    <3> PICK t \in Hilos : InsertarMensaje(t)
      BY <2>9
    <3>1. hilos' \in [Hilos -> Hilo]
      BY <2>0, TipoDeMensaje DEF InsertarMensaje
    <3>2. PICK m \in Mensajes : cola' = Append(cola, m)
      BY <2>0, TipoDeMensaje DEF InsertarMensaje, insertarMensaje, Cuerpo, Hilo
    <3>3. cola' \in Seq(Mensajes)
      BY <3>2, <2>0
    <3>4. encoladas' \subseteq Articulos
      BY <2>0, TipoDeMensaje DEF InsertarMensaje, Trae, Tipos, TypeOK, Hilo
    <3>5. ConexionDelHilo'
      BY <2>0 DEF InsertarMensaje, Tipos, ConexionDelHilo, Hilo, HiloLibre
    <3>6. QED
      BY <3>1, <3>3, <3>4, <3>5 DEF InsertarMensaje, Tipos, TypeOK, Hilo
  <2>10. CASE CaidaXml
    <3>1. con' \in [Conexiones -> Conexion]
      BY <2>10, <2>0, CaidaTipo DEF CaidaXml
    <3>2. hilos' \in [Hilos -> Hilo]
      BY <2>10, TipoDeMensaje DEF CaidaXml
    <3>3. perdidas' \subseteq Articulos
      BY <2>10, <2>0, TipoDeMensaje
         DEF CaidaXml, EnMano, Trae, Tipos, TypeOK, Hilo
    <3>4. backlog' \in Seq(Conexiones)
      BY <2>10 DEF CaidaXml
    <3>5. QED
      BY <2>10, <3>1, <3>2, <3>3, <3>4
         DEF CaidaXml, Tipos, TypeOK, ConexionDelHilo, Conexion, Estados, Hilo,
             HiloLibre, NoConexion
  <2>11. CASE ArranqueXml
    BY <2>11 DEF ArranqueXml, Tipos, TypeOK, ConexionDelHilo, procVars, histVars
  <2>12. CASE Publishers
    <3> PICK c \in Conexiones :
          ClienteConecta(c) \/ (\E n \in Noticias : ClienteEnviaXml(c, n))
                            \/ ClienteCierra(c)
      BY <2>12 DEF Publishers
    <3>1. con' \in [Conexiones -> Conexion]
      <4>1. CASE ClienteConecta(c)
        <5>1. <<Handshake>> \in Seq(Unidades)
          BY DEF Unidades
        <5>2. QED
          BY <4>1, <5>1, <2>0 DEF ClienteConecta, Conexion, Estados
      <4>2. ASSUME NEW n \in Noticias, ClienteEnviaXml(c, n)
            PROVE  con' \in [Conexiones -> Conexion]
        <5>1. TrasLeerPublisher(con[c]) \in Conexion
          BY <2>0, Lecturas
        <5>2. EnviarAServidor(TrasLeerPublisher(con[c]),
                              <<Xml(Envio(n)), Relleno>>) \in Conexion
          BY <5>1, Envios
        <5>3. QED
          BY <4>2, <5>2, <2>0 DEF ClienteEnviaXml
      <4>3. CASE ClienteCierra(c)
        BY <4>3, <2>0 DEF ClienteCierra, Conexion, Estados
      <4>4. QED
        BY <4>1, <4>2, <4>3
    <3>2. backlog' \in Seq(Conexiones)
      <4>1. Append(backlog, c) \in Seq(Conexiones)
        BY <2>0
      <4>2. QED
        BY <4>1, <2>0 DEF ClienteConecta, ClienteEnviaXml, ClienteCierra
    <3>3. QED
      BY <3>1, <3>2 DEF ClienteConecta, ClienteEnviaXml, ClienteCierra, Tipos,
         TypeOK, ConexionDelHilo, Conexion, Estados, procVars, histVars
  <2>13. CASE UNCHANGED vars
    BY <2>13 DEF vars, Tipos, TypeOK, ConexionDelHilo, procVars, histVars
  <2>14. QED
    BY <2>1, <2>2, <2>3, <2>4, <2>5, <2>6, <2>7, <2>8, <2>9, <2>10, <2>11, <2>12, <2>13
       DEF Next, SistemaXml, HiloXml
<1>3. QED
  BY <1>1, <1>2, PTL DEF Spec

(* Type correctness of XMLNewsPS, its connections and the queue.           *)
THEOREM TipoCorrecto == Spec => []TypeOK
BY TiposInvariante, PTL DEF Tipos

-----------------------------------------------------------------------------
(* Acknowledged articles.                                                  *)

EnManoDe(t, n) == hilos[t].pc = "insertarMensaje" /\ Trae(t)
                  /\ hilos[t].payload = n

Segura(n) == n \in encoladas \/ n \in perdidas \/ \E t \in Hilos : EnManoDe(t, n)

LEMMA SeguraEs ==
  ConfirmadaNoSePierde <=> \A n \in confirmadas : Segura(n)
BY DEF ConfirmadaNoSePierde, Segura, EnManoDe, EnMano

\* A step of a thread that is not about to enqueue leaves the others as they are.
LEMMA OtroHilo ==
  ASSUME NEW t \in Hilos, NEW v, hilos' = [hilos EXCEPT ![t] = v],
         hilos \in [Hilos -> Hilo], hilos[t].pc # "insertarMensaje",
         UNCHANGED <<encoladas, perdidas>>, NEW n, Segura(n)
  PROVE  Segura(n)'
BY DEF Segura, EnManoDe, Trae

LEMMA PasoSegura ==
  ASSUME Tipos, [Next]_vars, NEW n, Segura(n)
  PROVE  Segura(n)'
<1>0. hilos \in [Hilos -> Hilo]
  BY DEF Tipos, TypeOK, Hilo
<1>1. CASE UNCHANGED <<hilos, encoladas, perdidas>>
  BY <1>1 DEF Segura, EnManoDe, Trae
<1>2. CASE BeginThread
  <2>1. UNCHANGED <<encoladas, perdidas>>
    BY <1>2 DEF BeginThread, histVars
  <2>2. ASSUME NEW t \in Hilos, hilos[t].pc = "libre",
               hilos' = [hilos EXCEPT ![t].pc = "copiar"]
        PROVE  Segura(n)'
    <3>1. hilos' = [hilos EXCEPT ![t] = hilos'[t]]
      BY <1>0, <2>2
    <3>2. QED
      BY <1>0, <2>1, <2>2, <3>1, OtroHilo
  <2>3. QED
    BY <1>1, <1>2, <2>1, <2>2 DEF BeginThread
<1>3. ASSUME NEW t \in Hilos,
             \/ CopiarParametros(t) \/ RecvHandshakeXml(t) \/ RechazarHandshake(t)
             \/ AceptarHandshake(t) \/ RecvXml(t) \/ ResponderXml(t)
      PROVE  Segura(n)'
  <2>1. UNCHANGED <<encoladas, perdidas>> /\ hilos[t].pc # "insertarMensaje"
    BY <1>3 DEF CopiarParametros, RecvHandshakeXml, RechazarHandshake,
                AceptarHandshake, RecvXml, ResponderXml, histVars
  <2>2. hilos' = [hilos EXCEPT ![t] = hilos'[t]]
    BY <1>0, <1>3 DEF CopiarParametros, RecvHandshakeXml, RechazarHandshake,
                AceptarHandshake, RecvXml, ResponderXml
  <2>3. QED
    BY <1>0, <2>1, <2>2, OtroHilo
<1>4. ASSUME NEW t \in Hilos, InsertarMensaje(t) PROVE Segura(n)'
  <2>1. /\ hilos' = [hilos EXCEPT ![t] = HiloLibre]
        /\ perdidas' = perdidas /\ encoladas \subseteq encoladas'
        /\ Trae(t) => hilos[t].payload \in encoladas'
    BY <1>4 DEF InsertarMensaje
  <2>2. CASE EnManoDe(t, n)
    BY <2>1, <2>2 DEF EnManoDe, Segura
  <2>3. CASE ~ EnManoDe(t, n)
    BY <1>0, <2>1, <2>3 DEF EnManoDe, Trae, Segura
  <2>4. QED
    BY <2>2, <2>3
<1>5. CASE CaidaXml
  <2>1. /\ encoladas' = encoladas
        /\ perdidas' = perdidas \cup {hilos[t].payload : t \in EnMano}
    BY <1>5 DEF CaidaXml
  <2>2. QED
    BY <2>1 DEF Segura, EnManoDe, EnMano
<1>6. CASE Accept \/ ArranqueXml \/ Publishers \/ UNCHANGED vars
  BY <1>1, <1>6 DEF Accept, ArranqueXml, Publishers, ClienteConecta,
     ClienteEnviaXml, ClienteCierra, vars, procVars, histVars
<1>7. QED
  BY <1>2, <1>3, <1>4, <1>5, <1>6 DEF Next, SistemaXml, HiloXml

(* Between RequestOK (xmlNewsPS.cpp:268) and insertarMensaje (281) only a  *)
(* crash of XMLNewsPS can take an acknowledged article away.               *)
THEOREM ConfirmadaNoSePierdeNunca == Spec => []ConfirmadaNoSePierde
<1>1. InitXml => ConfirmadaNoSePierde
  BY DEF InitXml, ConfirmadaNoSePierde
<1>2. Tipos /\ ConfirmadaNoSePierde /\ [Next]_vars => ConfirmadaNoSePierde'
  <2> SUFFICES ASSUME Tipos, ConfirmadaNoSePierde, [Next]_vars,
                      NEW n \in confirmadas'
               PROVE  Segura(n)'
    BY DEF ConfirmadaNoSePierde, Segura, EnManoDe, EnMano
  <2>1. CASE n \in confirmadas
    BY <2>1, SeguraEs, PasoSegura
  <2>2. ASSUME NEW t \in Hilos, ResponderXml(t), n \notin confirmadas
        PROVE  Segura(n)'
    <3>1. hilos[t].pc = "responderXml" /\ n = hilos[t].payload
          /\ hilos' = [hilos EXCEPT ![t].pc = "insertarMensaje"]
      BY <2>2 DEF ResponderXml
    <3>2. hilos[t].payload # Basura
      BY <3>1 DEF Tipos, ConexionDelHilo
    <3>3. hilos'[t].pc = "insertarMensaje" /\ hilos'[t].payload = hilos[t].payload
      BY <3>1 DEF Tipos, TypeOK
    <3>4. QED
      BY <3>1, <3>2, <3>3 DEF Segura, EnManoDe, Trae
  <2>3. confirmadas' = confirmadas \/ \E t \in Hilos : ResponderXml(t)
    BY DEF Next, SistemaXml, HiloXml, Accept, BeginThread, CopiarParametros,
       RecvHandshakeXml, RechazarHandshake, AceptarHandshake, RecvXml,
       InsertarMensaje, CaidaXml, ArranqueXml, Publishers, ClienteConecta,
       ClienteEnviaXml, ClienteCierra, vars, histVars
  <2>4. QED
    BY <2>1, <2>2, <2>3
<1>3. QED
  BY <1>1, <1>2, TiposInvariante, PTL DEF Spec

-----------------------------------------------------------------------------
(* What is enqueued is what was acknowledged.                              *)

EnCola(n) == \E i \in DOMAIN cola : cola[i] = n

EncoladaEntera == \A n \in encoladas : n.noticia \in Largas \/ EnCola(n)

(* Past the acknowledgement an article is in the queue, or in the thread   *)
(* that is about to enqueue it, unless a crash took it or it was cut short *)
(* (xmlNewsPS.cpp:246-281).                                                *)
THEOREM ConfirmadaSeEntregaSiempre == Spec => []ConfirmadaSeEntrega
<1>1. InitXml => EncoladaEntera
  BY DEF InitXml, EncoladaEntera
<1>2. Tipos /\ EncoladaEntera /\ [Next]_vars => EncoladaEntera'
  <2> SUFFICES ASSUME Tipos, EncoladaEntera, [Next]_vars, NEW n \in encoladas',
                      n.noticia \notin Largas
               PROVE  EnCola(n)'
    BY DEF EncoladaEntera
  <2>0. cola \in Seq(Mensajes) /\ hilos \in [Hilos -> Hilo]
    BY DEF Tipos, TypeOK, Hilo
  <2>1. CASE UNCHANGED <<cola, encoladas>>
    BY <2>1 DEF EncoladaEntera, EnCola
  <2>2. ASSUME NEW t \in Hilos, InsertarMensaje(t) PROVE EnCola(n)'
    <3> DEFINE m == Cuerpo(hilos[t].payload)
    <3>1. /\ cola' = Append(cola, m)
          /\ encoladas' = encoladas \cup (IF Trae(t) THEN {hilos[t].payload} ELSE {})
      BY <2>2 DEF InsertarMensaje, insertarMensaje
    <3>2. m \in Mensajes
      BY <2>0, TipoDeMensaje DEF Cuerpo, Hilo
    <3>3. CASE n \in encoladas
      <4>1. PICK i \in DOMAIN cola : cola[i] = n
        BY <3>3 DEF EncoladaEntera, EnCola
      <4> HIDE DEF m
      <4>2. i \in DOMAIN cola' /\ cola'[i] = cola[i]
        BY <2>0, <3>1, <3>2
      <4>3. QED
        BY <4>1, <4>2 DEF EnCola
    <3>4. CASE n \notin encoladas
      <4>1. Trae(t) /\ n = hilos[t].payload
        BY <3>1, <3>4
      <4>2. m = n
        BY <4>1 DEF Cuerpo, Trae
      <4> HIDE DEF m
      <4>3. Len(cola) + 1 \in DOMAIN cola' /\ cola'[Len(cola) + 1] = m
        BY <2>0, <3>1, <3>2
      <4>4. QED
        BY <4>2, <4>3 DEF EnCola
    <3>5. QED
      BY <3>3, <3>4
  <2>3. UNCHANGED <<cola, encoladas>> \/ \E t \in Hilos : InsertarMensaje(t)
    BY DEF Next, SistemaXml, HiloXml, Accept, BeginThread, CopiarParametros,
       RecvHandshakeXml, RechazarHandshake, AceptarHandshake, RecvXml,
       ResponderXml, CaidaXml, ArranqueXml, Publishers, ClienteConecta,
       ClienteEnviaXml, ClienteCierra, vars, histVars
  <2>4. QED
    BY <2>1, <2>2, <2>3
<1>3. ConfirmadaNoSePierde /\ EncoladaEntera => ConfirmadaSeEntrega
  BY DEF ConfirmadaNoSePierde, EncoladaEntera, EnCola, ConfirmadaSeEntrega
<1>4. QED
  BY <1>1, <1>2, <1>3, TiposInvariante, ConfirmadaNoSePierdeNunca, PTL DEF Spec

-----------------------------------------------------------------------------
(* One acknowledgement for each connection.  The right to send it goes     *)
(* round as the only mark of its kind: the handshake on its way, a thread  *)
(* that took it for valid, the answer "2", the XML, the thread that        *)
(* received it, RequestOK.                                                 *)

MarcasS == Unidades \ {Relleno}
MarcasP == {"2", "RequestOK"}

Unica(s, marcas) == \A i, j \in DOMAIN s : s[i] \in marcas /\ s[j] \in marcas => i = j
Ninguna(s, marcas) == \A i \in DOMAIN s : s[i] \notin marcas

LaTiene(t, c) == hilos[t].con = c /\ hilos[t].pc \in {"valido", "responderXml"}

UnaMarca(c) ==
  /\ Unica(con[c].aServidor, MarcasS) /\ Unica(con[c].aPublisher, MarcasP)
  /\ \A t, u \in Hilos : LaTiene(t, c) /\ LaTiene(u, c) => t = u
  /\ Ninguna(con[c].aServidor, MarcasS) \/ Ninguna(con[c].aPublisher, MarcasP)
  /\ (\E t \in Hilos : LaTiene(t, c)) \/ con[c].estado = "libre"
       => Ninguna(con[c].aServidor, MarcasS) /\ Ninguna(con[c].aPublisher, MarcasP)
  /\ con[c].estado = "libre" => \A t \in Hilos : ~ LaTiene(t, c)

UnaMarcaSiempre == \A c \in Conexiones : UnaMarca(c)

LEMMA UnicaAlLeer ==
  ASSUME NEW S, NEW marcas, NEW s \in Seq(S), s # <<>>
  PROVE  /\ Unica(s, marcas) => Unica(Tail(s), marcas)
         /\ Unica(s, marcas) /\ Head(s) \in marcas => Ninguna(Tail(s), marcas)
         /\ Ninguna(s, marcas) => Ninguna(Tail(s), marcas) /\ Head(s) \notin marcas
<1>1. /\ Tail(s) \in Seq(S) /\ Len(Tail(s)) = Len(s) - 1 /\ Len(s) \in Nat /\ Len(s) # 0
      /\ \A i \in 1 .. Len(Tail(s)) : Tail(s)[i] = s[i + 1]
  BY HeadTailProperties, LenProperties, EmptySeq
<1>2. DOMAIN s = 1 .. Len(s) /\ DOMAIN Tail(s) = 1 .. Len(s) - 1 /\ Head(s) = s[1]
  BY <1>1, LenProperties
<1>3. \A i \in DOMAIN Tail(s) : i + 1 \in DOMAIN s /\ i + 1 # 1 /\ Tail(s)[i] = s[i + 1]
  BY <1>1, <1>2
<1>4. 1 \in DOMAIN s
  BY <1>1, <1>2
<1>5. Unica(s, marcas) => Unica(Tail(s), marcas)
  <2> SUFFICES ASSUME Unica(s, marcas), NEW i \in DOMAIN Tail(s), NEW j \in DOMAIN Tail(s),
                      Tail(s)[i] \in marcas, Tail(s)[j] \in marcas
               PROVE  i = j
    BY DEF Unica
  <2>1. i + 1 = j + 1
    BY <1>3 DEF Unica
  <2>2. i \in Int /\ j \in Int
    BY <1>2
  <2>3. QED
    BY <2>1, <2>2
<1>6. Unica(s, marcas) /\ Head(s) \in marcas => Ninguna(Tail(s), marcas)
  BY <1>2, <1>3, <1>4 DEF Unica, Ninguna
<1>7. Ninguna(s, marcas) => Ninguna(Tail(s), marcas) /\ Head(s) \notin marcas
  BY <1>2, <1>3, <1>4 DEF Ninguna
<1>8. QED
  BY <1>5, <1>6, <1>7

LEMMA UnicaAlEnviar ==
  ASSUME NEW S, NEW marcas, NEW s \in Seq(S), NEW e \in S
  PROVE  /\ Unica(s, marcas) /\ e \notin marcas => Unica(Append(s, e), marcas)
         /\ Ninguna(s, marcas) => Unica(Append(s, e), marcas)
         /\ Ninguna(s, marcas) /\ e \notin marcas => Ninguna(Append(s, e), marcas)
<1>1. /\ Len(s) \in Nat /\ DOMAIN s = 1 .. Len(s)
      /\ DOMAIN Append(s, e) = 1 .. Len(s) + 1 /\ Append(s, e)[Len(s) + 1] = e
      /\ \A i \in 1 .. Len(s) : Append(s, e)[i] = s[i]
  BY LenProperties, AppendProperties
<1>2. \A i \in DOMAIN Append(s, e) : /\ i \in DOMAIN s \/ i = Len(s) + 1
                                     /\ i \in DOMAIN s => Append(s, e)[i] = s[i]
                                     /\ i = Len(s) + 1 => Append(s, e)[i] = e
  BY <1>1
<1>3. QED
  BY <1>2 DEF Unica, Ninguna

\* The other connections, and the threads that attend them.
LEMMA OtraConexion ==
  ASSUME NEW d \in Conexiones, UnaMarca(d), con'[d] = con[d],
         \A u \in Hilos : LaTiene(u, d)' => LaTiene(u, d)
  PROVE  UnaMarca(d)'
BY DEF UnaMarca, Unica, Ninguna

\* Two units at the end.
LEMMA DosMas ==
  ASSUME NEW S, NEW s \in Seq(S), NEW a \in S, NEW b \in S
  PROVE  s \o <<a, b>> = Append(Append(s, a), b)
<1>1. <<a, b>> \in Seq(S) /\ Len(<<a, b>>) = 2
  OBVIOUS
<1>2. Append(s, a) \in Seq(S) /\ Append(Append(s, a), b) \in Seq(S)
  OBVIOUS
<1>3. QED
  BY <1>1, <1>2, SeqEqual

\* A step of a thread on the connection it attends.
LEMMA PasoDeHilo ==
  ASSUME Tipos, UnaMarcaSiempre, NEW t \in Hilos, NEW w, NEW v,
         NEW c \in Conexiones, c = hilos[t].con,
         hilos' = [hilos EXCEPT ![t] = w], con' = [con EXCEPT ![c] = v],
         w.con = c \/ w.pc = "libre",
         UnaMarca(c)'
  PROVE  UnaMarcaSiempre'
<1>0. con \in [Conexiones -> Conexion] /\ hilos \in [Hilos -> Hilo]
  BY DEF Tipos, TypeOK, Conexion, Estados, Hilo
<1>1. ASSUME NEW d \in Conexiones, d # c PROVE UnaMarca(d)'
  <2>1. con'[d] = con[d]
    BY <1>0, <1>1
  <2>2. \A u \in Hilos : LaTiene(u, d)' => LaTiene(u, d)
    BY <1>0, <1>1 DEF LaTiene
  <2>3. QED
    BY <1>1, <2>1, <2>2, OtraConexion DEF UnaMarcaSiempre
<1>2. QED
  BY <1>1 DEF UnaMarcaSiempre

\* A step of the publishers on a connection.
LEMMA PasoDePublisher ==
  ASSUME Tipos, UnaMarcaSiempre, NEW c \in Conexiones, NEW v, UNCHANGED hilos,
         con' = [con EXCEPT ![c] = v], UnaMarca(c)'
  PROVE  UnaMarcaSiempre'
<1>0. con \in [Conexiones -> Conexion]
  BY DEF Tipos, TypeOK, Conexion, Estados
<1>1. ASSUME NEW d \in Conexiones, d # c PROVE UnaMarca(d)'
  <2>1. con'[d] = con[d]
    BY <1>0, <1>1
  <2>2. QED
    BY <1>1, <2>1, OtraConexion DEF UnaMarcaSiempre, LaTiene
<1>2. QED
  BY <1>1 DEF UnaMarcaSiempre

LEMMA UnaMarcaInvariante == Spec => []UnaMarcaSiempre
<1>1. InitXml => UnaMarcaSiempre
  BY DEF InitXml, UnaMarcaSiempre, UnaMarca, Unica, Ninguna, LaTiene, ConexionLibre, HiloLibre
<1>2. Tipos /\ UnaMarcaSiempre /\ [Next]_vars => UnaMarcaSiempre'
  <2> SUFFICES ASSUME Tipos, UnaMarcaSiempre, [Next]_vars PROVE UnaMarcaSiempre'
    OBVIOUS
  <2>0. /\ con \in [Conexiones -> Conexion] /\ hilos \in [Hilos -> Hilo]
        /\ \A c \in Conexiones : /\ con[c].aServidor \in Seq(Unidades)
                                 /\ con[c].aPublisher \in Seq(Respuestas)
    BY DEF Tipos, TypeOK, Conexion, Estados, Hilo
  <2>1. CASE Accept \/ ArranqueXml \/ UNCHANGED vars
    BY <2>1 DEF Accept, ArranqueXml, vars, procVars, UnaMarcaSiempre, UnaMarca, Unica,
                Ninguna, LaTiene
  <2>2. ASSUME con' = con, \A u \in Hilos, d \in Conexiones : LaTiene(u, d)' => LaTiene(u, d)
        PROVE  UnaMarcaSiempre'
    BY <2>2, OtraConexion DEF UnaMarcaSiempre
  <2>3. CASE BeginThread
    <3>1. \A u \in Hilos : hilos'[u].pc # "copiar" => hilos'[u] = hilos[u]
      BY <2>0, <2>3 DEF BeginThread, Hilo
    <3>2. QED
      BY <2>2, <2>3, <3>1 DEF BeginThread, LaTiene
  <2>4. ASSUME NEW t \in Hilos, CopiarParametros(t) PROVE UnaMarcaSiempre'
    <3>1. \A u \in Hilos : hilos'[u].pc # "recvHandshake" => hilos'[u] = hilos[u]
      BY <2>0, <2>4 DEF CopiarParametros, Hilo
    <3>2. QED
      BY <2>2, <2>4, <3>1 DEF CopiarParametros, LaTiene
  <2>5. ASSUME NEW t \in Hilos, InsertarMensaje(t) PROVE UnaMarcaSiempre'
    <3>1. \A u \in Hilos : hilos'[u].pc # "libre" => hilos'[u] = hilos[u]
      BY <2>0, <2>5 DEF InsertarMensaje, HiloLibre
    <3>2. QED
      BY <2>2, <2>5, <3>1 DEF InsertarMensaje, LaTiene
  <2>6. ASSUME NEW t \in Hilos, RecvHandshakeXml(t) PROVE UnaMarcaSiempre'
    <3> PICK c \in Conexiones : c = hilos[t].con
      BY <2>6 DEF RecvHandshakeXml, Tipos, ConexionDelHilo
    <3>1. hilos[t].pc = "recvHandshake"
      BY <2>6 DEF RecvHandshakeXml
    <3>2. PICK m \in LeidoPorServidor(con[c]) :
            /\ con' = [con EXCEPT ![c] = TrasLeerServidor(con[c])]
            /\ hilos' = [hilos EXCEPT ![t].pc = IF m = Handshake THEN "valido" ELSE "invalido"]
      BY <2>0, <2>6, <3>1 DEF RecvHandshakeXml
    <3> DEFINE w == [hilos[t] EXCEPT !.pc = IF m = Handshake THEN "valido" ELSE "invalido"]
               v == TrasLeerServidor(con[c])
    <3>3. /\ hilos' = [hilos EXCEPT ![t] = w] /\ w.con = c
          /\ w.pc = IF m = Handshake THEN "valido" ELSE "invalido"
      BY <2>0, <3>2 DEF Hilo
    <3>4. /\ con'[c] = v /\ v.estado = con[c].estado /\ v.aPublisher = con[c].aPublisher
          /\ v.aServidor = IF con[c].aServidor # <<>> THEN Tail(con[c].aServidor) ELSE <<>>
      BY <2>0, <3>1, <3>2 DEF TrasLeerServidor, Conexion
    <3>5. Handshake \in MarcasS /\ Handshake # Cierre
      BY DEF MarcasS, Unidades, Handshake, Relleno, Cierre
    <3>6. m = Handshake => con[c].aServidor # <<>> /\ Head(con[c].aServidor) = m
      BY <3>2, <3>5 DEF LeidoPorServidor
    <3> HIDE DEF w, v
    <3>7. UnaMarca(c)
      BY <3>1 DEF UnaMarcaSiempre
    <3>8. \A u \in Hilos : LaTiene(u, c)' => LaTiene(u, c) \/ (u = t /\ m = Handshake)
      BY <2>0, <3>3 DEF LaTiene
    <3>9. /\ Unica(v.aServidor, MarcasS)
          /\ Ninguna(con[c].aServidor, MarcasS) => Ninguna(v.aServidor, MarcasS)
          /\ m = Handshake => /\ Ninguna(v.aServidor, MarcasS)
                              /\ ~ Ninguna(con[c].aServidor, MarcasS)
      <4>1. CASE con[c].aServidor = <<>>
        BY <3>4, <3>6, <4>1 DEF Unica, Ninguna
      <4>2. CASE con[c].aServidor # <<>>
        <5>1. /\ Unica(con[c].aServidor, MarcasS)
              /\ con[c].aServidor \in Seq(Unidades)
              /\ v.aServidor = Tail(con[c].aServidor)
          BY <2>0, <3>4, <3>7, <4>2 DEF UnaMarca
        <5>2. /\ Unica(Tail(con[c].aServidor), MarcasS)
              /\ Head(con[c].aServidor) \in MarcasS => Ninguna(Tail(con[c].aServidor), MarcasS)
              /\ Ninguna(con[c].aServidor, MarcasS)
                   => /\ Ninguna(Tail(con[c].aServidor), MarcasS)
                      /\ Head(con[c].aServidor) \notin MarcasS
          BY <4>2, <5>1, UnicaAlLeer
        <5>3. QED
          BY <3>5, <3>6, <5>1, <5>2
      <4>3. QED
        BY <4>1, <4>2
    <3>10. UnaMarca(c)'
      <4>1. CASE m = Handshake
        <5>1. /\ Ninguna(con[c].aPublisher, MarcasP) /\ con[c].estado # "libre"
              /\ \A u \in Hilos : ~ LaTiene(u, c)
          BY <3>7, <3>9, <4>1 DEF UnaMarca
        <5>2. QED
          BY <3>4, <3>7, <3>8, <3>9, <4>1, <5>1 DEF UnaMarca
      <4>2. CASE m # Handshake
        BY <3>4, <3>7, <3>8, <3>9, <4>2 DEF UnaMarca
      <4>3. QED
        BY <4>1, <4>2
    <3>11. con' = [con EXCEPT ![c] = v]
      BY <3>2 DEF v
    <3>12. QED
      BY <3>1, <3>3, <3>10, <3>11, PasoDeHilo
  <2>7. ASSUME NEW t \in Hilos, RecvXml(t) PROVE UnaMarcaSiempre'
    <3> PICK c \in Conexiones : c = hilos[t].con
      BY <2>7 DEF RecvXml, Tipos, ConexionDelHilo
    <3>1. hilos[t].pc = "recvXml"
      BY <2>7 DEF RecvXml
    <3> DEFINE w(m) == [hilos[t] EXCEPT !.pc = IF m.tipo = "xml" THEN "responderXml"
                                              ELSE "responderCorrida",
                                        !.payload = Payload(m)]
               v == TrasLeerServidor(con[c])
    <3>2. PICK m \in LeidoPorServidor(con[c]) :
            con' = [con EXCEPT ![c] = v] /\ hilos' = [hilos EXCEPT ![t] = w(m)]
      BY <2>0, <2>7, <3>1 DEF RecvXml, TrasRecvXml
    <3>3. /\ w(m).con = c
          /\ w(m).pc = IF m.tipo = "xml" THEN "responderXml" ELSE "responderCorrida"
      BY <2>0 DEF Hilo
    <3>4. /\ con'[c] = v /\ v.estado = con[c].estado /\ v.aPublisher = con[c].aPublisher
          /\ v.aServidor = IF con[c].aServidor # <<>> THEN Tail(con[c].aServidor) ELSE <<>>
      BY <2>0, <3>1, <3>2 DEF TrasLeerServidor, Conexion
    <3>5. m.tipo = "xml" => /\ con[c].aServidor # <<>> /\ Head(con[c].aServidor) = m
                            /\ m \in MarcasS
      <4>1. \A x \in Unidades : x.tipo = "xml" => x \in MarcasS
        BY DEF MarcasS, Unidades, Relleno, Handshake, Xml
      <4>2. Cierre.tipo # "xml"
        BY DEF Cierre
      <4>3. con[c].aServidor # <<>> => Head(con[c].aServidor) \in Unidades
        BY <2>0, <3>1
      <4>4. QED
        BY <3>2, <4>1, <4>2, <4>3 DEF LeidoPorServidor
    <3> HIDE DEF w, v
    <3>6. UnaMarca(c)
      BY <3>1 DEF UnaMarcaSiempre
    <3>7. \A u \in Hilos : LaTiene(u, c)' => LaTiene(u, c) \/ (u = t /\ m.tipo = "xml")
      BY <2>0, <3>2, <3>3 DEF LaTiene
    <3>8. /\ Unica(v.aServidor, MarcasS)
          /\ Ninguna(con[c].aServidor, MarcasS) => Ninguna(v.aServidor, MarcasS)
          /\ m.tipo = "xml" => /\ Ninguna(v.aServidor, MarcasS)
                               /\ ~ Ninguna(con[c].aServidor, MarcasS)
      <4>1. CASE con[c].aServidor = <<>>
        BY <3>4, <3>5, <4>1 DEF Unica, Ninguna
      <4>2. CASE con[c].aServidor # <<>>
        <5>1. /\ Unica(con[c].aServidor, MarcasS)
              /\ con[c].aServidor \in Seq(Unidades)
              /\ v.aServidor = Tail(con[c].aServidor)
          BY <2>0, <3>4, <3>6, <4>2 DEF UnaMarca
        <5>2. /\ Unica(Tail(con[c].aServidor), MarcasS)
              /\ Head(con[c].aServidor) \in MarcasS => Ninguna(Tail(con[c].aServidor), MarcasS)
              /\ Ninguna(con[c].aServidor, MarcasS)
                   => /\ Ninguna(Tail(con[c].aServidor), MarcasS)
                      /\ Head(con[c].aServidor) \notin MarcasS
          BY <4>2, <5>1, UnicaAlLeer
        <5>3. QED
          BY <3>5, <5>1, <5>2
      <4>3. QED
        BY <4>1, <4>2
    <3>9. UnaMarca(c)'
      <4>1. CASE m.tipo = "xml"
        <5>1. /\ Ninguna(con[c].aPublisher, MarcasP) /\ con[c].estado # "libre"
              /\ \A u \in Hilos : ~ LaTiene(u, c)
          BY <3>6, <3>8, <4>1 DEF UnaMarca
        <5>2. QED
          BY <3>4, <3>6, <3>7, <3>8, <4>1, <5>1 DEF UnaMarca
      <4>2. CASE m.tipo # "xml"
        BY <3>4, <3>6, <3>7, <3>8, <4>2 DEF UnaMarca
      <4>3. QED
        BY <4>1, <4>2
    <3>10. QED
      BY <3>1, <3>2, <3>3, <3>9, PasoDeHilo
  <2>8. ASSUME NEW t \in Hilos, NEW r \in Respuestas, NEW w,
               NEW c \in Conexiones, c = hilos[t].con,
               hilos[t].pc \in {"valido", "invalido", "responderXml", "responderCorrida"},
               r \in MarcasP => hilos[t].pc \in {"valido", "responderXml"},
               con' = [con EXCEPT ![c] = EnviarAPublisher(con[c], r)],
               hilos' = [hilos EXCEPT ![t] = w],
               w.pc \in {"libre", "recvXml", "insertarMensaje"},
               w.con = c \/ w.pc = "libre"
        PROVE  UnaMarcaSiempre'
    <3> DEFINE v == EnviarAPublisher(con[c], r)
    <3>1. /\ con'[c] = v /\ v.estado = con[c].estado /\ v.aServidor = con[c].aServidor
          /\ v.aPublisher \in {con[c].aPublisher, Append(con[c].aPublisher, r)}
          /\ v.estado = "libre" => v.aPublisher = con[c].aPublisher
      BY <2>0, <2>8 DEF EnviarAPublisher, Conexion
    <3> HIDE DEF v
    <3>2. UnaMarca(c)
      BY <2>8 DEF UnaMarcaSiempre
    <3>3. \A u \in Hilos : LaTiene(u, c)' => LaTiene(u, c) /\ u # t
      BY <2>0, <2>8 DEF LaTiene
    <3>4. /\ Unica(con[c].aPublisher, MarcasP) /\ r \notin MarcasP
                => Unica(v.aPublisher, MarcasP)
          /\ Ninguna(con[c].aPublisher, MarcasP) => Unica(v.aPublisher, MarcasP)
          /\ Ninguna(con[c].aPublisher, MarcasP) /\ r \notin MarcasP
                => Ninguna(v.aPublisher, MarcasP)
      <4>1. con[c].aPublisher \in Seq(Respuestas)
        BY <2>0
      <4> DEFINE s == con[c].aPublisher
      <4> HIDE DEF s
      <4>2. /\ Unica(s, MarcasP) /\ r \notin MarcasP => Unica(Append(s, r), MarcasP)
            /\ Ninguna(s, MarcasP) => Unica(Append(s, r), MarcasP)
            /\ Ninguna(s, MarcasP) /\ r \notin MarcasP => Ninguna(Append(s, r), MarcasP)
        BY <4>1, UnicaAlEnviar DEF s
      <4>3. Ninguna(s, MarcasP) => Unica(s, MarcasP)
        BY DEF Unica, Ninguna
      <4>4. v.aPublisher = s \/ v.aPublisher = Append(s, r)
        BY <3>1 DEF s
      <4>5. QED
        BY <4>2, <4>3, <4>4 DEF s
    <3>5. UnaMarca(c)'
      <4>1. CASE r \in MarcasP
        <5>1. LaTiene(t, c)
          BY <2>8, <4>1 DEF LaTiene
        <5>2. /\ Ninguna(con[c].aServidor, MarcasS) /\ Ninguna(con[c].aPublisher, MarcasP)
              /\ \A u \in Hilos : LaTiene(u, c) => u = t
              /\ con[c].estado # "libre" /\ Unica(con[c].aServidor, MarcasS)
          BY <3>2, <5>1 DEF UnaMarca
        <5>3. \A u \in Hilos : ~ LaTiene(u, c)'
          BY <3>3, <5>2
        <5>4. QED
          BY <3>1, <3>4, <5>2, <5>3 DEF UnaMarca
      <4>2. CASE r \notin MarcasP
        BY <3>1, <3>2, <3>3, <3>4, <4>2 DEF UnaMarca
      <4>3. QED
        BY <4>1, <4>2
    <3>6. QED
      BY <2>8, <3>5, PasoDeHilo
  <2>9. ASSUME NEW t \in Hilos, RechazarHandshake(t) \/ AceptarHandshake(t) \/ ResponderXml(t)
        PROVE  UnaMarcaSiempre'
    <3> PICK c \in Conexiones : c = hilos[t].con
      BY <2>9 DEF RechazarHandshake, AceptarHandshake, ResponderXml, Tipos, ConexionDelHilo
    <3>1. c = hilos[t].con
      OBVIOUS
    <3>2. CASE RechazarHandshake(t)
      BY <2>0, <2>8, <3>1, <3>2 DEF RechazarHandshake, HiloLibre, Respuestas, MarcasP
    <3>3. CASE AceptarHandshake(t)
      <4> DEFINE w == [hilos[t] EXCEPT !.pc = "recvXml"]
      <4>1. hilos' = [hilos EXCEPT ![t] = w] /\ w.pc = "recvXml" /\ w.con = hilos[t].con
        BY <2>0, <3>3 DEF AceptarHandshake, Hilo
      <4> HIDE DEF w
      <4>2. QED
        <5>1. /\ hilos[t].pc = "valido" /\ "2" \in Respuestas
              /\ con' = [con EXCEPT ![c] = EnviarAPublisher(con[c], "2")]
          BY <2>0, <3>1, <3>3 DEF AceptarHandshake, Respuestas
        <5>2. QED
          BY <2>8, <3>1, <4>1, <5>1
    <3>4. CASE ResponderXml(t)
      <4> DEFINE w == [hilos[t] EXCEPT !.pc = "insertarMensaje"]
      <4>1. /\ hilos' = [hilos EXCEPT ![t] = w]
            /\ w.pc = "insertarMensaje" /\ w.con = hilos[t].con
        BY <2>0, <3>4 DEF ResponderXml, Hilo
      <4> HIDE DEF w
      <4>2. PICK r \in {"RequestOK", "corrida"} :
              /\ con' = [con EXCEPT ![c] = EnviarAPublisher(con[c], r)]
              /\ r = "RequestOK" => hilos[t].pc = "responderXml"
              /\ r = "corrida" => hilos[t].pc = "responderCorrida"
        BY <2>0, <3>1, <3>4 DEF ResponderXml
      <4>3. QED
        BY <2>8, <3>1, <4>1, <4>2 DEF Respuestas, MarcasP
    <3>5. QED
      BY <2>9, <3>2, <3>3, <3>4
  <2>10. CASE CaidaXml
    <3>1. \A u \in Hilos, d \in Conexiones : ~ LaTiene(u, d)'
      BY <2>10 DEF CaidaXml, LaTiene, HiloLibre
    <3>2. PICK pierde \in BOOLEAN : con' = CaidaDelServidor(con, pierde)
      BY <2>10 DEF CaidaXml
    <3> SUFFICES ASSUME NEW d \in Conexiones PROVE UnaMarca(d)'
      BY DEF UnaMarcaSiempre
    <3>3. UnaMarca(d)
      BY DEF UnaMarcaSiempre
    <3>4. CASE con[d].estado = "abierta"
      <4>1. /\ con'[d].aServidor = <<>> /\ con'[d].aPublisher \in {<<>>, con[d].aPublisher}
            /\ con'[d].estado = "caida"
        BY <3>2, <3>4 DEF CaidaDelServidor
      <4>2. Ninguna(<<>>, MarcasS) /\ Unica(<<>>, MarcasS) /\ Unica(<<>>, MarcasP)
        BY DEF Unica, Ninguna
      <4>3. QED
        BY <3>1, <3>3, <4>1, <4>2 DEF UnaMarca
    <3>5. CASE con[d].estado # "abierta"
      BY <3>1, <3>2, <3>3, <3>5, OtraConexion DEF CaidaDelServidor
    <3>6. QED
      BY <3>4, <3>5
  <2>11. ASSUME NEW c \in Conexiones, ClienteConecta(c) PROVE UnaMarcaSiempre'
    <3> DEFINE v == [con[c] EXCEPT !.estado = "abierta", !.aServidor = <<Handshake>>]
    <3>1. con' = [con EXCEPT ![c] = v] /\ UNCHANGED hilos
      BY <2>0, <2>11 DEF ClienteConecta, procVars
    <3>2. /\ con'[c] = v /\ v.estado = "abierta" /\ v.aServidor = <<Handshake>>
          /\ v.aPublisher = con[c].aPublisher
      BY <2>0, <3>1 DEF Conexion
    <3>3. /\ Ninguna(con[c].aPublisher, MarcasP) /\ Unica(con[c].aPublisher, MarcasP)
          /\ \A t \in Hilos : ~ LaTiene(t, c)
      BY <2>11 DEF ClienteConecta, UnaMarcaSiempre, UnaMarca
    <3>4. Unica(<<Handshake>>, MarcasS)
      BY DEF Unica
    <3> HIDE DEF v
    <3>5. \A t \in Hilos : ~ LaTiene(t, c)'
      BY <3>1, <3>3 DEF LaTiene
    <3>6. UnaMarca(c)'
      BY <3>2, <3>3, <3>4, <3>5 DEF UnaMarca
    <3>7. QED
      BY <3>1, <3>6, PasoDePublisher
  <2>12. ASSUME NEW c \in Conexiones, NEW n \in Noticias, ClienteEnviaXml(c, n)
         PROVE  UnaMarcaSiempre'
    <3> DEFINE s == con[c].aPublisher
               x == Xml(Envio(n))
               v == EnviarAServidor(TrasLeerPublisher(con[c]), <<x, Relleno>>)
    <3>1. con' = [con EXCEPT ![c] = v] /\ UNCHANGED hilos
      BY <2>0, <2>12 DEF ClienteEnviaXml, procVars
    <3>2. s # <<>> /\ Head(s) = "2" /\ con[c].estado = "abierta"
      BY <2>12 DEF ClienteEnviaXml, LeidoPorPublisher
    <3>3. /\ con'[c] = v /\ v.estado = "abierta" /\ v.aPublisher = Tail(s)
          /\ v.aServidor = con[c].aServidor \o <<x, Relleno>>
      BY <2>0, <3>1, <3>2 DEF Conexion, EnviarAServidor, TrasLeerPublisher
    <3>4. UnaMarca(c)
      BY DEF UnaMarcaSiempre
    <3>5. ~ Ninguna(s, MarcasP) /\ Ninguna(Tail(s), MarcasP) /\ Unica(Tail(s), MarcasP)
      <4>1. "2" \in MarcasP
        BY DEF MarcasP
      <4>2. QED
        <5>1. Unica(s, MarcasP) /\ s \in Seq(Respuestas)
          BY <2>0, <3>4 DEF UnaMarca
        <5> HIDE DEF s
        <5>2. QED
          BY <3>2, <4>1, <5>1, UnicaAlLeer
    <3>6. Ninguna(con[c].aServidor, MarcasS) /\ \A t \in Hilos : ~ LaTiene(t, c)
      BY <3>4, <3>5 DEF UnaMarca
    <3>7. Unica(con[c].aServidor \o <<x, Relleno>>, MarcasS)
      <4>1. x \in Unidades /\ Relleno \in Unidades /\ Relleno \notin MarcasS
        BY DEF Unidades, MarcasS
      <4> HIDE DEF x
      <4>2. con[c].aServidor \in Seq(Unidades)
        BY <2>0
      <4>3. Append(con[c].aServidor, x) \in Seq(Unidades)
        BY <4>1, <4>2
      <4>4. Unica(Append(Append(con[c].aServidor, x), Relleno), MarcasS)
        BY <3>6, <4>1, <4>2, <4>3, UnicaAlEnviar
      <4>5. con[c].aServidor \o <<x, Relleno>> = Append(Append(con[c].aServidor, x), Relleno)
        <5>1. \A q \in Seq(Unidades), a, b \in Unidades : q \o <<a, b>> = Append(Append(q, a), b)
          BY DosMas
        <5>2. QED
          BY <4>1, <4>2, <5>1, Zenon
      <4>6. QED
        BY <4>4, <4>5
    <3> HIDE DEF v
    <3>8. \A t \in Hilos : ~ LaTiene(t, c)'
      BY <3>1, <3>6 DEF LaTiene
    <3>9. UnaMarca(c)'
      BY <3>3, <3>5, <3>7, <3>8 DEF UnaMarca
    <3>10. QED
      BY <3>1, <3>9, PasoDePublisher
  <2>13. ASSUME NEW c \in Conexiones, ClienteCierra(c) PROVE UnaMarcaSiempre'
    <3> DEFINE v == [con[c] EXCEPT !.estado = "cerrada"]
    <3>1. con' = [con EXCEPT ![c] = v] /\ UNCHANGED hilos /\ con[c].estado = "abierta"
      BY <2>0, <2>13 DEF ClienteCierra, procVars
    <3>2. /\ con'[c] = v /\ v.estado = "cerrada" /\ v.aServidor = con[c].aServidor
          /\ v.aPublisher = con[c].aPublisher
      BY <2>0, <3>1 DEF Conexion
    <3> HIDE DEF v
    <3>3. UnaMarca(c)'
      BY <3>1, <3>2 DEF UnaMarcaSiempre, UnaMarca, LaTiene
    <3>4. QED
      BY <3>1, <3>3, PasoDePublisher
  <2>14. QED
    BY <2>1, <2>3, <2>4, <2>5, <2>6, <2>7, <2>9, <2>10, <2>11, <2>12, <2>13
       DEF Next, SistemaXml, HiloXml, Publishers
<1>3. QED
  BY <1>1, <1>2, TiposInvariante, PTL DEF Spec

LEMMA UnicaEsUna ==
  ASSUME NEW S, \A x, y \in S : x = y
  PROVE  IsFiniteSet(S) /\ Cardinality(S) <= 1 /\ (S = {} => Cardinality(S) = 0)
         /\ Cardinality(S) \in Nat
<1>1. CASE S = {}
  BY <1>1, FS_EmptySet
<1>2. CASE S # {}
  <2>1. PICK x : S = {x}
    BY <1>2
  <2>2. QED
    BY <2>1, FS_Singleton
<1>3. QED
  BY <1>1, <1>2

(* A connection is acknowledged at most once, whatever number of threads   *)
(* were given its socket through stParameters (xmlNewsPS.cpp:361-368).     *)
THEOREM UnSoloRequestOKSiempre == Spec => []UnSoloRequestOK
<1>1. Tipos /\ UnaMarcaSiempre => UnSoloRequestOK
  <2> SUFFICES ASSUME Tipos, UnaMarcaSiempre, NEW c \in Conexiones
      PROVE  LET pendientes == {t \in Hilos : hilos[t].pc = "responderXml" /\ hilos[t].con = c}
                 enStream   == {i \in DOMAIN con[c].aServidor :
                                  con[c].aServidor[i].tipo = "xml"}
                 enviados   == {i \in DOMAIN con[c].aPublisher :
                                  con[c].aPublisher[i] = "RequestOK"}
             IN Cardinality(pendientes) + Cardinality(enStream) + Cardinality(enviados) <= 1
    BY DEF UnSoloRequestOK
  <2> DEFINE pendientes == {t \in Hilos : hilos[t].pc = "responderXml" /\ hilos[t].con = c}
             enStream   == {i \in DOMAIN con[c].aServidor : con[c].aServidor[i].tipo = "xml"}
             enviados   == {i \in DOMAIN con[c].aPublisher :
                              con[c].aPublisher[i] = "RequestOK"}
  <2>0. UnaMarca(c) /\ con[c].aServidor \in Seq(Unidades)
    BY DEF UnaMarcaSiempre, Tipos, TypeOK
  <2>1. \A t \in pendientes : LaTiene(t, c)
    BY DEF LaTiene
  <2>2. \A i \in enStream : con[c].aServidor[i] \in MarcasS
    <3>1. \A i \in DOMAIN con[c].aServidor : con[c].aServidor[i] \in Unidades
      BY <2>0
    <3>2. QED
      BY <3>1 DEF MarcasS, Relleno
  <2>3. \A i \in enviados : con[c].aPublisher[i] \in MarcasP
    BY DEF MarcasP
  <2>4. /\ \A t, u \in pendientes : t = u
        /\ \A i, j \in enStream : i = j
        /\ \A i, j \in enviados : i = j
    BY <2>0, <2>1, <2>2, <2>3 DEF UnaMarca, Unica
  <2>5. /\ enStream = {} \/ enviados = {}
        /\ pendientes # {} => enStream = {} /\ enviados = {}
    BY <2>0, <2>1, <2>2, <2>3 DEF UnaMarca, Ninguna
  <2> HIDE DEF pendientes, enStream, enviados
  <2>6. /\ Cardinality(pendientes) \in Nat /\ Cardinality(pendientes) <= 1
        /\ Cardinality(enStream) \in Nat /\ Cardinality(enStream) <= 1
        /\ Cardinality(enviados) \in Nat /\ Cardinality(enviados) <= 1
        /\ pendientes = {} => Cardinality(pendientes) = 0
        /\ enStream = {} => Cardinality(enStream) = 0
        /\ enviados = {} => Cardinality(enviados) = 0
    BY <2>4, UnicaEsUna
  <2>7. Cardinality(pendientes) + Cardinality(enStream) + Cardinality(enviados) <= 1
    BY <2>5, <2>6
  <2>8. QED
    BY <2>7 DEF pendientes, enStream, enviados
<1>2. QED
  BY <1>1, TiposInvariante, UnaMarcaInvariante, PTL
=============================================================================
