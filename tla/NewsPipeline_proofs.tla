------------------------- MODULE NewsPipeline_proofs -------------------------
(***************************************************************************)
(* The pipeline, for any number of articles, senders, threads and          *)
(* connections and with every process dying at any step.                   *)
(*                                                                         *)
(* First PublisherWin and XMLNewsPS together (Publicacion): nothing        *)
(* travels that was not stored, and an article marked as transmitted was   *)
(* acknowledged and is in the queue.  The argument is about conversations: *)
(* a connection belongs to the sender that opened it until it gives it up, *)
(* and while it does, the article on it, in the hands of the threads that  *)
(* read it and behind a RequestOK, is the one under that sender's cursor.  *)
(*                                                                         *)
(* Then the whole (NewsPipeline): it implements NewsDelivery, and an       *)
(* article marked as transmitted is accounted for.                         *)
(***************************************************************************)
EXTENDS NewsPipeline, SequenceTheorems, TLAPS

-----------------------------------------------------------------------------
(* Types.                                                                  *)

Estados == {"libre", "abierta", "cerrada", "caida"}
MensajesPub == {Mensaje(i, n) : i \in Ids, n \in Noticias}
Unidades == {Handshake, Relleno} \cup {Xml(m) : m \in MensajesPub}
Cuerpos == {Servidor!Basura} \cup {Servidor!XmlDe(m) : m \in MensajesPub}
Conexion == [estado : Estados, aServidor : Seq(Unidades),
             aPublisher : Seq(Respuestas)]

Paginas == UNION {[D -> Guardados] : D \in SUBSET Ids}
Cache == [leida : BOOLEAN, sucia : BOOLEAN, pagina : Paginas]
PcCliente == {"ingreso", "createDb", "putArticle", "closeDb", "pregunta", "fin"}
PcSender == {"libre", "c_get", "connect", "recvHandshake", "sendXml",
             "recvRespuesta", "put", "closeDb"}
Cliente == [pc : PcCliente, noticia : Noticias \cup {NoNoticia},
            id : Ids \cup {0}, cache : Cache]
Sender == [pc : PcSender, key : Ids \cup {0},
           con : Conexiones \cup {NoConexion}, cache : Cache]
Hilo == [pc : Servidor!PcHilo, con : Conexiones \cup {NoConexion},
         payload : Cuerpos]

EnConversacion == {"recvHandshake", "sendXml", "recvRespuesta"}
ConNoticia == EnConversacion \cup {"connect", "put"}

\* What a sender has at each place.
EnSuLugar(w) ==
  /\ w.pc \in EnConversacion <=> w.con \in Conexiones
  /\ w.pc \in ConNoticia => w.key \in DOMAIN w.cache.pagina

TiposPublisher ==
  /\ hora \in Ids
  /\ archivo \in Paginas
  /\ pub \in Cliente
  /\ snd \in [Senders -> Sender]
  /\ publicadas \subseteq [id : Ids, noticia : Noticias]
  /\ pub.pc \in {"createDb", "putArticle", "closeDb"} => pub.noticia \in Noticias
  /\ pub.pc \in {"putArticle", "closeDb"} => pub.id \in Ids
  /\ pub.pc # "closeDb" => pub.cache = SinPagina
  /\ \A s \in Senders : EnSuLugar(snd[s])

TipoRed == con \in [Conexiones -> Conexion]

\* What a thread has at each place.
Ubicado(h) ==
  /\ h.pc = "copiar" => stParameters \in Conexiones
  /\ h.pc \in {"libre", "copiar"} <=> h.con = NoConexion
  /\ h.pc = "responderXml" => h.payload # Servidor!Basura
  /\ h.payload # Servidor!Basura => h.pc \in {"responderXml", "insertarMensaje"}

TiposXml ==
  /\ backlog \in Seq(Conexiones)
  /\ stParameters \in Conexiones \cup {NoConexion}
  /\ mainXml = "beginthreadex" => stParameters \in Conexiones
  /\ hilos \in [Hilos -> Hilo]
  /\ cola \in Seq(Cuerpos)
  /\ \A t \in Hilos : Ubicado(hilos[t])

Esta(x, q) == \E i \in DOMAIN q : q[i] = x


-----------------------------------------------------------------------------
(* Queues, streams and pages.                                              *)

\* Reading the head of a stream.
LEMMA EstaTail ==
  ASSUME NEW S, NEW q \in Seq(S), q # <<>>
  PROVE  /\ Head(q) \in S /\ Tail(q) \in Seq(S)
         /\ Esta(Head(q), q)
         /\ \A x : Esta(x, Tail(q)) => Esta(x, q)
         /\ \A x : Esta(x, q) => x = Head(q) \/ Esta(x, Tail(q))
<1>1. /\ Head(q) \in S /\ Tail(q) \in Seq(S)
      /\ 1 \in DOMAIN q /\ q[1] = Head(q)
  OBVIOUS
<1>2. ASSUME NEW i \in DOMAIN Tail(q)
      PROVE  i + 1 \in DOMAIN q /\ q[i + 1] = Tail(q)[i]
  OBVIOUS
<1>3. ASSUME NEW i \in DOMAIN q, q[i] # Head(q)
      PROVE  i - 1 \in DOMAIN Tail(q) /\ Tail(q)[i - 1] = q[i]
  <2>1. i \in 1 .. Len(q) /\ i # 1
    BY <1>1, <1>3
  <2>2. QED
    BY <2>1
<1>4. QED
  BY <1>1, <1>2, <1>3 DEF Esta

\* Writing behind a stream.
LEMMA EstaAppend ==
  ASSUME NEW S, NEW q \in Seq(S), NEW a \in S
  PROVE  /\ Append(q, a) \in Seq(S)
         /\ Esta(a, Append(q, a))
         /\ \A x : Esta(x, q) => Esta(x, Append(q, a))
         /\ \A x : Esta(x, Append(q, a)) => x = a \/ Esta(x, q)
<1>1. /\ Append(q, a) \in Seq(S)
      /\ DOMAIN Append(q, a) = 1 .. Len(q) + 1
      /\ DOMAIN q = 1 .. Len(q)
  OBVIOUS
<1>2. Append(q, a)[Len(q) + 1] = a /\ Len(q) + 1 \in 1 .. Len(q) + 1
  OBVIOUS
<1>3. \A i \in 1 .. Len(q) : i \in 1 .. Len(q) + 1 /\ Append(q, a)[i] = q[i]
  OBVIOUS
<1>4. \A i \in 1 .. Len(q) + 1 : i = Len(q) + 1 \/ i \in 1 .. Len(q)
  OBVIOUS
<1>5. QED
  BY <1>1, <1>2, <1>3, <1>4 DEF Esta

LEMMA EstaDosMas ==
  ASSUME NEW S, NEW q \in Seq(S), NEW a \in S, NEW b \in S
  PROVE  /\ q \o <<a, b>> \in Seq(S)
         /\ \A x : Esta(x, q \o <<a, b>>) => x = a \/ x = b \/ Esta(x, q)
<1>1. q \o <<a, b>> = Append(Append(q, a), b)
  OBVIOUS
<1>2. Append(q, a) \in Seq(S)
  OBVIOUS
<1>3. QED
  BY <1>1, <1>2, EstaAppend

\* The pages put and put(DB_CURRENT) leave.
LEMMA PaginaConOtra ==
  ASSUME NEW p \in Paginas, NEW k \in Ids, NEW g \in Guardados
  PROVE  [i \in DOMAIN p \cup {k} |-> IF i = k THEN g ELSE p[i]] \in Paginas
<1>1. PICK D \in SUBSET Ids : p \in [D -> Guardados]
  BY DEF Paginas
<1>2. D \cup {k} \in SUBSET Ids /\ DOMAIN p = D
  BY <1>1
<1>3. [i \in DOMAIN p \cup {k} |-> IF i = k THEN g ELSE p[i]]
        \in [D \cup {k} -> Guardados]
  BY <1>1, <1>2
<1>4. QED
  BY <1>2, <1>3 DEF Paginas

LEMMA PaginaMarcada ==
  ASSUME NEW p \in Paginas, NEW k \in DOMAIN p
  PROVE  LET q == [p EXCEPT ![k].transmitted = "1"]
         IN /\ q \in Paginas /\ DOMAIN q = DOMAIN p
            /\ \A i \in DOMAIN p : q[i].noticia = p[i].noticia
            /\ \A i \in DOMAIN p : i # k => q[i] = p[i]
<1>1. PICK D \in SUBSET Ids : p \in [D -> Guardados]
  BY DEF Paginas
<1> DEFINE g == [p[k] EXCEPT !.transmitted = "1"]
<1>2. g \in Guardados /\ g.noticia = p[k].noticia
  BY <1>1 DEF Guardados
<1> HIDE DEF g
<1>3. [p EXCEPT ![k] = g] \in [D -> Guardados]
  BY <1>1, <1>2
<1>4. [p EXCEPT ![k].transmitted = "1"] = [p EXCEPT ![k] = g]
  BY DEF g
<1>5. QED
  BY <1>1, <1>2, <1>3, <1>4 DEF Paginas

LEMMA PaginaVacia == <<>> \in Paginas /\ SinPagina \in Cache
<1>1. <<>> \in [{} -> Guardados]
  OBVIOUS
<1>2. QED
  BY <1>1 DEF Paginas, SinPagina, Cache

LEMMA PaginaLeida ==
  ASSUME NEW p \in Paginas
  PROVE  /\ DOMAIN p \subseteq Ids
         /\ \A i \in DOMAIN p : p[i] \in Guardados /\ p[i].noticia \in Noticias
BY DEF Paginas, Guardados
-----------------------------------------------------------------------------
(* The steps of XMLNewsPS.                                                 *)

\* A connection nobody opened yet is empty, and nobody has it.
Libres ==
  \A c \in Conexiones : con[c].estado = "libre" =>
    /\ con[c].aServidor = <<>> /\ con[c].aPublisher = <<>>
    /\ stParameters # c
    /\ ~ Esta(c, backlog)
    /\ \A t \in Hilos : hilos[t].con # c
    /\ \A s \in Senders : snd[s].con # c

\* What a step of XMLNewsPS may do: connections only lose units, a thread's
\* article is one it had or one of the stream it read, and a RequestOK is of
\* an article of the thread that has the connection.
EfectoXml ==
  /\ con' \in [Conexiones -> Conexion]
  /\ confirmadas \subseteq confirmadas'
  /\ \A c \in Conexiones :
       /\ con[c].estado = "libre" => con'[c] = con[c]
       /\ con'[c].estado = "libre" => con[c].estado = "libre"
       /\ \A u : Esta(u, con'[c].aServidor) => Esta(u, con[c].aServidor)
       /\ Esta("RequestOK", con'[c].aPublisher) =>
            \/ Esta("RequestOK", con[c].aPublisher)
            \/ \E t \in Hilos : /\ hilos[t].con = c
                               /\ hilos[t].payload # Servidor!Basura
                               /\ hilos[t].payload \in confirmadas'
       /\ stParameters' = c => stParameters = c \/ Esta(c, backlog)
       /\ Esta(c, backlog') => Esta(c, backlog)
       /\ \A t \in Hilos : hilos'[t].con = c => hilos[t].con = c \/ stParameters = c
  /\ \A t \in Hilos : hilos'[t].payload # Servidor!Basura =>
       /\ hilos'[t].con = hilos[t].con
       /\ \/ hilos'[t].payload = hilos[t].payload
          \/ \E m \in MensajesPub :
               /\ Esta(Xml(m), con[hilos[t].con].aServidor)
               /\ hilos'[t].payload = Servidor!XmlDe(m)

LEMMA MismaRed ==
  /\ Servidor!Conexiones = Conexiones /\ Servidor!NoConexion = NoConexion
  /\ Servidor!ConexionLibre = ConexionLibre
  /\ Servidor!Handshake = Handshake /\ Servidor!Cierre = Cierre
  /\ NoConexion \notin Conexiones
BY DEF Servidor!Conexiones, Conexiones, Servidor!NoConexion, NoConexion,
       Servidor!ConexionLibre, ConexionLibre, Servidor!Handshake, Handshake,
       Servidor!Cierre, Cierre

\* The operations of XMLNewsPS on one connection.
LEMMA RedDelServidor ==
  ASSUME NEW x \in Conexion
  PROVE  /\ LET y == Servidor!TrasLeerServidor(x)
            IN /\ y \in Conexion /\ y.estado = x.estado
               /\ y.aPublisher = x.aPublisher
               /\ \A u : Esta(u, y.aServidor) => Esta(u, x.aServidor)
         /\ \A u \in Servidor!LeidoPorServidor(x) :
              u = Cierre \/ (u \in Unidades /\ Esta(u, x.aServidor))
         /\ \A r \in Respuestas :
              LET y == Servidor!EnviarAPublisher(x, r)
              IN /\ y \in Conexion /\ y.estado = x.estado
                 /\ y.aServidor = x.aServidor
                 /\ \A q : Esta(q, y.aPublisher) => q = r \/ Esta(q, x.aPublisher)
<1>0. x.aServidor \in Seq(Unidades) /\ x.aPublisher \in Seq(Respuestas)
  BY DEF Conexion
<1>1. LET y == Servidor!TrasLeerServidor(x)
      IN /\ y \in Conexion /\ y.estado = x.estado
         /\ y.aPublisher = x.aPublisher
         /\ \A u : Esta(u, y.aServidor) => Esta(u, x.aServidor)
  <2>1. CASE x.aServidor = <<>>
    BY <2>1 DEF Servidor!TrasLeerServidor
  <2>2. CASE x.aServidor # <<>>
    <3> DEFINE q == Tail(x.aServidor)
    <3>1. q \in Seq(Unidades) /\ \A u : Esta(u, q) => Esta(u, x.aServidor)
      BY <1>0, <2>2, EstaTail
    <3>2. Servidor!TrasLeerServidor(x) = [x EXCEPT !.aServidor = q]
      BY <2>2 DEF Servidor!TrasLeerServidor
    <3> HIDE DEF q
    <3>3. QED
      BY <3>1, <3>2 DEF Conexion
  <2>3. QED
    BY <2>1, <2>2
<1>2. \A u \in Servidor!LeidoPorServidor(x) :
        u = Cierre \/ (u \in Unidades /\ Esta(u, x.aServidor))
  <2>1. CASE x.aServidor = <<>>
    <3>1. Servidor!LeidoPorServidor(x) \in {{}, {Cierre}}
      BY <2>1, MismaRed DEF Servidor!LeidoPorServidor
    <3>2. \A u \in Servidor!LeidoPorServidor(x) : u = Cierre
      BY <3>1
    <3>3. QED
      BY <3>2
  <2>2. CASE x.aServidor # <<>>
    <3>1. Head(x.aServidor) \in Unidades /\ Esta(Head(x.aServidor), x.aServidor)
      BY <1>0, <2>2, EstaTail
    <3>2. Servidor!LeidoPorServidor(x) = {Head(x.aServidor)}
      BY <2>2 DEF Servidor!LeidoPorServidor
    <3>3. QED
      BY <3>1, <3>2
  <2>3. QED
    BY <2>1, <2>2
<1>3. ASSUME NEW r \in Respuestas
      PROVE  LET y == Servidor!EnviarAPublisher(x, r)
             IN /\ y \in Conexion /\ y.estado = x.estado
                /\ y.aServidor = x.aServidor
                /\ \A q : Esta(q, y.aPublisher) => q = r \/ Esta(q, x.aPublisher)
  <2> DEFINE p == Append(x.aPublisher, r)
  <2>1. p \in Seq(Respuestas) /\ \A q : Esta(q, p) => q = r \/ Esta(q, x.aPublisher)
    BY <1>0, EstaAppend
  <2>2. Servidor!EnviarAPublisher(x, r) \in {x, [x EXCEPT !.aPublisher = p]}
    BY DEF Servidor!EnviarAPublisher
  <2> HIDE DEF p
  <2>3. QED
    BY <2>1, <2>2 DEF Conexion
<1>4. QED
  BY <1>1, <1>2, <1>3

\* What a step of thread t may leave in the thread and in connection c.
HiloQueda(t, w) ==
  /\ Ubicado(w)
  /\ w.con \in {hilos[t].con, NoConexion, stParameters}
  /\ w.payload # Servidor!Basura =>
       /\ w.con = hilos[t].con
       /\ \/ w.payload = hilos[t].payload
          \/ \E m \in MensajesPub :
               /\ Esta(Xml(m), con[hilos[t].con].aServidor)
               /\ w.payload = Servidor!XmlDe(m)

ConexionQueda(t, c, x) ==
  /\ x.estado = con[c].estado
  /\ \A u : Esta(u, x.aServidor) => Esta(u, con[c].aServidor)
  /\ Esta("RequestOK", x.aPublisher) =>
       \/ Esta("RequestOK", con[c].aPublisher)
       \/ /\ hilos[t].con = c /\ hilos[t].payload # Servidor!Basura
          /\ hilos[t].payload \in confirmadas'

\* A step of one thread, from what it leaves in the thread and in the
\* connection it used.
LEMMA UnHilo ==
  ASSUME TipoRed, TiposXml, NEW t \in Hilos, NEW w \in Hilo,
         NEW c \in Conexiones, con[c].estado # "libre", NEW x \in Conexion,
         hilos' = [hilos EXCEPT ![t] = w], con' = [con EXCEPT ![c] = x],
         UNCHANGED <<mainXml, stParameters, backlog>>, cola' \in Seq(Cuerpos),
         confirmadas \subseteq confirmadas', HiloQueda(t, w), ConexionQueda(t, c, x)
  PROVE  TiposXml' /\ EfectoXml
<1>0. HiloQueda(t, w) /\ ConexionQueda(t, c, x)
  OBVIOUS
<1>1. /\ hilos' \in [Hilos -> Hilo] /\ hilos'[t] = w
      /\ \A u \in Hilos : u # t => hilos'[u] = hilos[u]
  BY DEF TiposXml
<1>2. /\ con' \in [Conexiones -> Conexion] /\ con'[c] = x
      /\ \A d \in Conexiones : d # c => con'[d] = con[d]
  BY DEF TipoRed
<1>3. \A u \in Hilos : Ubicado(hilos[u])
  BY DEF TiposXml
<1>4. TiposXml'
  <2>1. \A u \in Hilos : Ubicado(hilos[u])'
    BY <1>0, <1>1, <1>3 DEF Ubicado, HiloQueda
  <2>2. QED
    BY <1>1, <2>1 DEF TiposXml
<1>5. \A d \in Conexiones :
        /\ con[d].estado = "libre" => con'[d] = con[d]
        /\ con'[d].estado = "libre" => con[d].estado = "libre"
        /\ \A u : Esta(u, con'[d].aServidor) => Esta(u, con[d].aServidor)
  BY <1>0, <1>2 DEF ConexionQueda
<1>6. \A d \in Conexiones : Esta("RequestOK", con'[d].aPublisher) =>
        \/ Esta("RequestOK", con[d].aPublisher)
        \/ \E u \in Hilos : /\ hilos[u].con = d
                           /\ hilos[u].payload # Servidor!Basura
                           /\ hilos[u].payload \in confirmadas'
  BY <1>0, <1>2 DEF ConexionQueda
<1>7. \A d \in Conexiones :
        /\ stParameters' = d => stParameters = d \/ Esta(d, backlog)
        /\ Esta(d, backlog') => Esta(d, backlog)
        /\ \A u \in Hilos : hilos'[u].con = d => hilos[u].con = d \/ stParameters = d
  BY <1>0, <1>1, MismaRed DEF HiloQueda
<1>8. \A u \in Hilos : hilos'[u].payload # Servidor!Basura =>
        /\ hilos'[u].con = hilos[u].con
        /\ \/ hilos'[u].payload = hilos[u].payload
           \/ \E m \in MensajesPub :
                /\ Esta(Xml(m), con[hilos[u].con].aServidor)
                /\ hilos'[u].payload = Servidor!XmlDe(m)
  BY <1>0, <1>1 DEF HiloQueda
<1>9. QED
  BY <1>2, <1>4, <1>5, <1>6, <1>7, <1>8 DEF EfectoXml

LEMMA CuerposDe ==
  /\ Servidor!Basura \in Cuerpos /\ Servidor!HiloLibre \in Hilo
  /\ Ubicado(Servidor!HiloLibre)
  /\ \A m \in MensajesPub : /\ Servidor!XmlDe(m) \in Cuerpos \ {Servidor!Basura}
                          /\ Servidor!XmlDe(m).noticia = m.noticia
  /\ \A u \in Unidades : u.tipo = "xml" <=> \E m \in MensajesPub : u = Xml(m)
  /\ Cierre.tipo # "xml"
  /\ \A m \in MensajesPub : Xml(m).noticia = m /\ Xml(m) # Cierre
<1>1. Servidor!Basura \in Cuerpos /\ Servidor!HiloLibre \in Hilo
  BY DEF Cuerpos, Servidor!HiloLibre, Hilo, Servidor!PcHilo, Servidor!NoConexion,
         NoConexion
<1>2. Ubicado(Servidor!HiloLibre)
  BY DEF Ubicado, Servidor!HiloLibre, Servidor!NoConexion, NoConexion
<1>3. \A m \in MensajesPub : /\ Servidor!XmlDe(m) \in Cuerpos \ {Servidor!Basura}
                          /\ Servidor!XmlDe(m).noticia = m.noticia
  <2> TAKE m \in MensajesPub
  <2>1. Servidor!XmlDe(m) \in Cuerpos
    BY DEF Cuerpos
  <2>2. Servidor!XmlDe(m).tipo = "noticia" /\ Servidor!Basura.tipo = "basura"
        /\ Servidor!XmlDe(m).noticia = m.noticia
    BY DEF Servidor!XmlDe, Servidor!Basura
  <2>3. QED
    BY <2>1, <2>2
<1>4. QED
  BY <1>1, <1>2, <1>3 DEF Unidades, Xml, Handshake, Relleno, Cierre

LEMMA HiloEfecto ==
  ASSUME TipoRed, TiposXml, Libres, NEW t \in Hilos, Servidor!HiloXml(t)
  PROVE  TiposXml' /\ EfectoXml
<1>0. /\ hilos[t] \in Hilo /\ Ubicado(hilos[t])
      /\ hilos[t].con \in Conexiones \cup {NoConexion}
      /\ hilos[t].payload \in Cuerpos
      /\ hilos[t].con \in Conexiones => con[hilos[t].con] \in Conexion
                                       /\ con[hilos[t].con].estado # "libre"
      /\ cola \in Seq(Cuerpos) /\ con \in [Conexiones -> Conexion]
      /\ hilos \in [Hilos -> Hilo]
      /\ stParameters \in Conexiones \cup {NoConexion}
      /\ stParameters \in Conexiones => con[stParameters].estado # "libre"
  BY DEF TiposXml, Hilo, TipoRed, Libres
<1>1. CASE Servidor!CopiarParametros(t)
  <2> DEFINE w == [hilos[t] EXCEPT !.pc = "recvHandshake", !.con = stParameters]
  <2>1. hilos' = [hilos EXCEPT ![t] = w]
    BY <1>0, <1>1 DEF Servidor!CopiarParametros
  <2>2. /\ hilos[t].pc = "copiar" /\ con' = con /\ cola' = cola
        /\ confirmadas' = confirmadas
        /\ UNCHANGED <<mainXml, stParameters, backlog>>
    BY <1>1 DEF Servidor!CopiarParametros, Servidor!histVars
  <2>3. /\ stParameters \in Conexiones
        /\ hilos[t].payload = Servidor!Basura
    BY <1>0, <2>2 DEF Ubicado
  <2>4. /\ w \in Hilo /\ w.pc = "recvHandshake" /\ w.con = stParameters
        /\ w.payload = Servidor!Basura
    BY <1>0, <2>3 DEF Hilo, Servidor!PcHilo
  <2> HIDE DEF w
  <2>5. Ubicado(w)
    BY <2>3, <2>4, MismaRed DEF Ubicado
  <2>6. con' = [con EXCEPT ![stParameters] = con[stParameters]]
    BY <1>0, <2>2, <2>3
  <2>7. con[stParameters] \in Conexion
    BY <1>0, <2>3
  <2>8. HiloQueda(t, w) /\ ConexionQueda(t, stParameters, con[stParameters])
    BY <2>4, <2>5 DEF HiloQueda, ConexionQueda
  <2>9. QED
    BY <1>0, <2>1, <2>2, <2>3, <2>4, <2>6, <2>7, <2>8, UnHilo
<1>2. CASE Servidor!InsertarMensaje(t)
  <2> DEFINE w == Servidor!HiloLibre
  <2>1. /\ hilos[t].pc = "insertarMensaje" /\ con' = con
        /\ hilos' = [hilos EXCEPT ![t] = w]
        /\ confirmadas' = confirmadas
        /\ UNCHANGED <<mainXml, stParameters, backlog>>
        /\ cola' = Append(cola, Servidor!Cuerpo(hilos[t].payload))
    BY <1>2 DEF Servidor!InsertarMensaje, Servidor!insertarMensaje
  <2>2. cola' \in Seq(Cuerpos)
    <3>1. Servidor!Cuerpo(hilos[t].payload) \in Cuerpos
      BY <1>0, CuerposDe DEF Servidor!Cuerpo
    <3>2. QED
      BY <1>0, <2>1, <3>1
  <2>3. hilos[t].con \in Conexiones
    BY <1>0, <2>1 DEF Ubicado
  <2>4. /\ w \in Hilo /\ Ubicado(w) /\ w.con = NoConexion /\ w.pc # "copiar"
        /\ w.payload = Servidor!Basura
    BY CuerposDe DEF Servidor!HiloLibre, Servidor!NoConexion, NoConexion
  <2> HIDE DEF w
  <2>5. con' = [con EXCEPT ![hilos[t].con] = con[hilos[t].con]]
    BY <1>0, <2>1, <2>3
  <2>6. HiloQueda(t, w) /\ ConexionQueda(t, hilos[t].con, con[hilos[t].con])
    BY <2>4 DEF HiloQueda, ConexionQueda
  <2>7. QED
    BY <1>0, <2>1, <2>2, <2>3, <2>4, <2>5, <2>6, UnHilo
<1>3. CASE Servidor!RecvHandshakeXml(t)
  <2> PICK pc \in {"valido", "invalido"} :
        /\ hilos' = [hilos EXCEPT ![t].pc = pc]
        /\ con' = [con EXCEPT ![hilos[t].con] =
                     Servidor!TrasLeerServidor(con[hilos[t].con])]
    BY <1>0, <1>3 DEF Servidor!RecvHandshakeXml
  <2> DEFINE w == [hilos[t] EXCEPT !.pc = pc]
             x == Servidor!TrasLeerServidor(con[hilos[t].con])
  <2>1. /\ hilos[t].pc = "recvHandshake" /\ cola' = cola
        /\ confirmadas' = confirmadas
        /\ UNCHANGED <<mainXml, stParameters, backlog>>
    BY <1>3 DEF Servidor!RecvHandshakeXml, Servidor!histVars
  <2>2. hilos[t].con \in Conexiones /\ hilos[t].payload = Servidor!Basura
    BY <1>0, <2>1 DEF Ubicado
  <2>3. /\ x \in Conexion /\ x.estado = con[hilos[t].con].estado
        /\ x.aPublisher = con[hilos[t].con].aPublisher
        /\ \A u : Esta(u, x.aServidor) => Esta(u, con[hilos[t].con].aServidor)
    BY <1>0, <2>2, RedDelServidor
  <2>4. /\ w \in Hilo /\ w.pc = pc /\ w.con = hilos[t].con
        /\ w.payload = Servidor!Basura
        /\ hilos' = [hilos EXCEPT ![t] = w]
    BY <1>0, <2>2 DEF Hilo, Servidor!PcHilo
  <2>5. con' = [con EXCEPT ![hilos[t].con] = x]
    OBVIOUS
  <2> HIDE DEF w, x
  <2>6. Ubicado(w)
    BY <2>2, <2>4, MismaRed DEF Ubicado
  <2>7. HiloQueda(t, w) /\ ConexionQueda(t, hilos[t].con, x)
    BY <2>3, <2>4, <2>6 DEF HiloQueda, ConexionQueda
  <2>8. QED
    BY <1>0, <2>1, <2>2, <2>3, <2>4, <2>5, <2>7, UnHilo
<1>4. CASE Servidor!RechazarHandshake(t) \/ Servidor!AceptarHandshake(t)
  <2> PICK w \in {Servidor!HiloLibre, [hilos[t] EXCEPT !.pc = "recvXml"]},
           r \in {"1", "2"} :
        /\ hilos' = [hilos EXCEPT ![t] = w]
        /\ con' = [con EXCEPT ![hilos[t].con] =
                     Servidor!EnviarAPublisher(con[hilos[t].con], r)]
    BY <1>0, <1>4 DEF Servidor!RechazarHandshake, Servidor!AceptarHandshake
  <2> DEFINE x == Servidor!EnviarAPublisher(con[hilos[t].con], r)
  <2>1. /\ hilos[t].pc \in {"valido", "invalido"} /\ cola' = cola
        /\ confirmadas' = confirmadas
        /\ UNCHANGED <<mainXml, stParameters, backlog>>
    BY <1>4 DEF Servidor!RechazarHandshake, Servidor!AceptarHandshake,
                Servidor!histVars
  <2>2. hilos[t].con \in Conexiones /\ hilos[t].payload = Servidor!Basura
    BY <1>0, <2>1 DEF Ubicado
  <2>3. /\ x \in Conexion /\ x.estado = con[hilos[t].con].estado
        /\ x.aServidor = con[hilos[t].con].aServidor
        /\ \A q : Esta(q, x.aPublisher) => q = r \/ Esta(q, con[hilos[t].con].aPublisher)
    <3>1. r \in Respuestas /\ con[hilos[t].con] \in Conexion
      BY <1>0, <2>2 DEF Respuestas
    <3>2. QED
      BY <3>1, RedDelServidor
  <2>4. /\ w \in Hilo /\ w.pc # "copiar" /\ w.con \in {hilos[t].con, NoConexion}
        /\ w.payload = Servidor!Basura /\ Ubicado(w)
    <3>1. CASE w = Servidor!HiloLibre
      BY <3>1, CuerposDe DEF Servidor!HiloLibre, Servidor!NoConexion, NoConexion
    <3>2. CASE w = [hilos[t] EXCEPT !.pc = "recvXml"]
      <4>1. /\ w \in Hilo /\ w.pc = "recvXml" /\ w.con = hilos[t].con
            /\ w.payload = Servidor!Basura
        BY <1>0, <2>2, <3>2 DEF Hilo, Servidor!PcHilo
      <4>2. QED
        BY <2>2, <4>1, MismaRed DEF Ubicado
    <3>3. QED
      BY <3>1, <3>2
  <2>5. con' = [con EXCEPT ![hilos[t].con] = x]
    OBVIOUS
  <2> HIDE DEF x
  <2>6. HiloQueda(t, w) /\ ConexionQueda(t, hilos[t].con, x)
    BY <2>3, <2>4 DEF HiloQueda, ConexionQueda
  <2>7. QED
    BY <1>0, <2>1, <2>2, <2>3, <2>4, <2>5, <2>6, UnHilo
<1>5. CASE Servidor!RecvXml(t)
  <2>1. /\ hilos[t].pc = "recvXml" /\ cola' = cola
        /\ confirmadas' = confirmadas
        /\ UNCHANGED <<mainXml, stParameters, backlog>>
    BY <1>5 DEF Servidor!RecvXml, Servidor!histVars
  <2>2. hilos[t].con \in Conexiones /\ hilos[t].payload = Servidor!Basura
    BY <1>0, <2>1 DEF Ubicado
  <2> DEFINE h(m) == [hilos[t] EXCEPT
                        !.pc = IF m.tipo = "xml" THEN "responderXml"
                                                 ELSE "responderCorrida",
                        !.payload = Servidor!Payload(m)]
             x == Servidor!TrasLeerServidor(con[hilos[t].con])
  <2>3. PICK m \in Servidor!LeidoPorServidor(con[hilos[t].con]) :
          /\ con' = [con EXCEPT ![hilos[t].con] = x]
          /\ hilos' = [hilos EXCEPT ![t] = h(m)]
    BY <1>0, <1>5, <2>2 DEF Servidor!RecvXml, Servidor!TrasRecvXml
  <2>4. /\ x \in Conexion /\ x.estado = con[hilos[t].con].estado
        /\ x.aPublisher = con[hilos[t].con].aPublisher
        /\ \A u : Esta(u, x.aServidor) => Esta(u, con[hilos[t].con].aServidor)
    BY <1>0, <2>2, RedDelServidor
  <2>5. m = Cierre \/ (m \in Unidades /\ Esta(m, con[hilos[t].con].aServidor))
    BY <1>0, <2>2, RedDelServidor
  <2>6. /\ Servidor!Payload(m) \in Cuerpos
        /\ m.tipo = "xml" => Servidor!Payload(m) # Servidor!Basura
        /\ Servidor!Payload(m) # Servidor!Basura =>
             /\ m.tipo = "xml"
             /\ \E n \in MensajesPub :
                  /\ Esta(Xml(n), con[hilos[t].con].aServidor)
                  /\ Servidor!Payload(m) = Servidor!XmlDe(n)
    <3>1. CASE m.tipo # "xml"
      BY <3>1, CuerposDe DEF Servidor!Payload
    <3>2. CASE m.tipo = "xml"
      <4>1. PICK n \in MensajesPub : m = Xml(n)
        BY <2>5, <3>2, CuerposDe
      <4>2. Servidor!Payload(m) = Servidor!XmlDe(n)
        BY <3>2, <4>1, CuerposDe DEF Servidor!Payload
      <4>3. QED
        BY <2>5, <3>2, <4>1, <4>2, CuerposDe
    <3>3. QED
      BY <3>1, <3>2
  <2>7. /\ h(m) \in Hilo /\ h(m).con = hilos[t].con
        /\ h(m).payload = Servidor!Payload(m)
        /\ h(m).pc \in {"responderXml", "responderCorrida"}
        /\ h(m).pc = "responderXml" <=> m.tipo = "xml"
    BY <1>0, <2>6 DEF Hilo, Servidor!PcHilo
  <2> HIDE DEF h, x
  <2>8. Ubicado(h(m))
    BY <2>2, <2>6, <2>7, MismaRed DEF Ubicado
  <2> DEFINE w == h(m)
  <2>9. /\ w \in Hilo /\ w.con = hilos[t].con /\ Ubicado(w) /\ w.pc # "copiar"
        /\ hilos' = [hilos EXCEPT ![t] = w]
        /\ w.payload # Servidor!Basura =>
             \E n \in MensajesPub :
                  /\ Esta(Xml(n), con[hilos[t].con].aServidor)
                  /\ w.payload = Servidor!XmlDe(n)
    BY <2>3, <2>6, <2>7, <2>8
  <2> HIDE DEF w
  <2>10. HiloQueda(t, w) /\ ConexionQueda(t, hilos[t].con, x)
    BY <2>4, <2>9 DEF HiloQueda, ConexionQueda
  <2>11. QED
    BY <1>0, <2>1, <2>2, <2>3, <2>4, <2>9, <2>10, UnHilo
<1>6. CASE Servidor!ResponderXml(t)
  <2>1. /\ hilos[t].pc \in {"responderXml", "responderCorrida"} /\ cola' = cola
        /\ UNCHANGED <<mainXml, stParameters, backlog>>
        /\ hilos' = [hilos EXCEPT ![t].pc = "insertarMensaje"]
    BY <1>6 DEF Servidor!ResponderXml
  <2>2. hilos[t].con \in Conexiones
    BY <1>0, <2>1 DEF Ubicado
  <2>3. PICK r \in {"RequestOK", "corrida"} :
          /\ con' = [con EXCEPT ![hilos[t].con] =
                       Servidor!EnviarAPublisher(con[hilos[t].con], r)]
          /\ confirmadas \subseteq confirmadas'
          /\ r = "RequestOK" => /\ hilos[t].pc = "responderXml"
                                /\ hilos[t].payload \in confirmadas'
    BY <1>6, <2>2, <1>0 DEF Servidor!ResponderXml
  <2> DEFINE w == [hilos[t] EXCEPT !.pc = "insertarMensaje"]
             x == Servidor!EnviarAPublisher(con[hilos[t].con], r)
  <2>4. /\ x \in Conexion /\ x.estado = con[hilos[t].con].estado
        /\ x.aServidor = con[hilos[t].con].aServidor
        /\ \A q : Esta(q, x.aPublisher) => q = r \/ Esta(q, con[hilos[t].con].aPublisher)
    <3>1. r \in Respuestas /\ con[hilos[t].con] \in Conexion
      BY <1>0, <2>2 DEF Respuestas
    <3>2. QED
      BY <3>1, RedDelServidor
  <2>5. /\ w \in Hilo /\ w.pc = "insertarMensaje" /\ w.con = hilos[t].con
        /\ w.payload = hilos[t].payload
        /\ hilos' = [hilos EXCEPT ![t] = w]
    BY <1>0, <2>1 DEF Hilo, Servidor!PcHilo
  <2>6. con' = [con EXCEPT ![hilos[t].con] = x]
    BY <2>3
  <2> HIDE DEF w, x
  <2>7. Ubicado(w)
    BY <2>2, <2>5, MismaRed DEF Ubicado
  <2>8. Esta("RequestOK", x.aPublisher) =>
          \/ Esta("RequestOK", con[hilos[t].con].aPublisher)
          \/ /\ hilos[t].payload # Servidor!Basura
             /\ hilos[t].payload \in confirmadas'
    BY <1>0, <2>3, <2>4 DEF Ubicado
  <2>9. HiloQueda(t, w) /\ ConexionQueda(t, hilos[t].con, x)
    BY <2>4, <2>5, <2>7, <2>8 DEF HiloQueda, ConexionQueda
  <2>10. QED
    BY <1>0, <2>1, <2>2, <2>3, <2>4, <2>5, <2>6, <2>9, UnHilo
<1>7. QED
  BY <1>1, <1>2, <1>3, <1>4, <1>5, <1>6 DEF Servidor!HiloXml

(* The steps of XMLNewsPS, its crash and its restart keep the types and    *)
(* have no effect but those of EfectoXml.                                  *)
LEMMA XmlEfecto ==
  ASSUME TipoRed, TiposXml, Libres, PasoXml
  PROVE  TiposXml' /\ EfectoXml
<1>0. /\ cola \in Seq(Cuerpos) /\ con \in [Conexiones -> Conexion]
      /\ hilos \in [Hilos -> Hilo] /\ backlog \in Seq(Conexiones)
      /\ stParameters \in Conexiones \cup {NoConexion}
      /\ mainXml = "beginthreadex" => stParameters \in Conexiones
      /\ \A t \in Hilos : Ubicado(hilos[t])
  BY DEF TiposXml, TipoRed
<1>1. CASE Servidor!Accept
  <2>1. /\ backlog # <<>> /\ stParameters' = Head(backlog)
        /\ backlog' = Tail(backlog)
        /\ UNCHANGED <<hilos, con, cola, confirmadas>>
    BY <1>1 DEF Servidor!Accept, Servidor!histVars
  <2>2. /\ Head(backlog) \in Conexiones /\ Tail(backlog) \in Seq(Conexiones)
        /\ Esta(Head(backlog), backlog)
        /\ \A c : Esta(c, Tail(backlog)) => Esta(c, backlog)
    BY <1>0, <2>1, EstaTail
  <2>3. TiposXml'
    BY <1>0, <2>1, <2>2 DEF TiposXml, Ubicado
  <2>4. EfectoXml
    BY <1>0, <2>1, <2>2 DEF EfectoXml
  <2>5. QED
    BY <2>3, <2>4
<1>2. CASE Servidor!BeginThread
  <2>1. /\ mainXml = "beginthreadex" /\ mainXml' = "accept"
        /\ UNCHANGED <<stParameters, con, backlog, cola, confirmadas>>
    BY <1>2 DEF Servidor!BeginThread, Servidor!histVars
  <2>2. stParameters \in Conexiones
    BY <1>0, <2>1
  <2>3. ASSUME NEW t \in Hilos, hilos[t].pc = "libre",
               hilos' = [hilos EXCEPT ![t].pc = "copiar"]
        PROVE  TiposXml' /\ EfectoXml
    <3> DEFINE w == [hilos[t] EXCEPT !.pc = "copiar"]
    <3>1. /\ w \in Hilo /\ w.pc = "copiar" /\ w.con = hilos[t].con
          /\ w.payload = hilos[t].payload /\ hilos' = [hilos EXCEPT ![t] = w]
      BY <1>0, <2>3 DEF Hilo, Servidor!PcHilo
    <3> HIDE DEF w
    <3>2. w.con = NoConexion /\ w.payload = Servidor!Basura
      BY <1>0, <2>3, <3>1 DEF Ubicado
    <3>3. Ubicado(w)
      BY <2>2, <3>1, <3>2 DEF Ubicado
    <3>4. /\ hilos' \in [Hilos -> Hilo] /\ hilos'[t] = w
          /\ \A u \in Hilos : u # t => hilos'[u] = hilos[u]
      BY <1>0, <3>1
    <3>5. TiposXml'
      <4>1. \A u \in Hilos : Ubicado(hilos[u])'
        BY <1>0, <2>1, <3>3, <3>4 DEF Ubicado
      <4>2. QED
        BY <1>0, <2>1, <3>4, <4>1 DEF TiposXml
    <3>6. EfectoXml
      BY <1>0, <2>1, <3>2, <3>4, MismaRed DEF EfectoXml
    <3>7. QED
      BY <3>5, <3>6
  <2>4. CASE hilos' = hilos
    BY <1>0, <2>1, <2>4 DEF TiposXml, EfectoXml, Ubicado
  <2>5. QED
    BY <1>2, <2>3, <2>4 DEF Servidor!BeginThread
<1>3. CASE \E t \in Hilos : Servidor!HiloXml(t)
  BY <1>3, HiloEfecto
<1>4. CASE Servidor!CaidaXml
  <2>1. PICK pierde \in BOOLEAN : con' = Servidor!CaidaDelServidor(con, pierde)
    BY <1>4 DEF Servidor!CaidaXml
  <2>2. /\ mainXml' = "accept" /\ stParameters' = NoConexion
        /\ hilos' = [t \in Hilos |-> Servidor!HiloLibre] /\ backlog' = <<>>
        /\ UNCHANGED <<cola, confirmadas>>
    BY <1>4, MismaRed DEF Servidor!CaidaXml
  <2>3. \A c \in Conexiones :
          \/ con'[c] = con[c]
          \/ /\ con[c].estado = "abierta" /\ con'[c].estado = "caida"
             /\ con'[c].aServidor = <<>>
             /\ con'[c].aPublisher \in {<<>>, con[c].aPublisher}
    BY <2>1, MismaRed DEF Servidor!CaidaDelServidor
  <2>4. con' \in [Conexiones -> Conexion]
    <3>1. <<>> \in Seq(Unidades) /\ <<>> \in Seq(Respuestas)
      OBVIOUS
    <3>2. QED
      BY <1>0, <2>1, <3>1, MismaRed DEF Servidor!CaidaDelServidor, Conexion, Estados
  <2>5. \A u : ~ Esta(u, <<>>)
    BY DEF Esta
  <2>6. TiposXml'
    <3>1. backlog' \in Seq(Conexiones)
      BY <2>2
    <3>2. hilos' \in [Hilos -> Hilo] /\ \A t \in Hilos : Ubicado(hilos[t])'
      <4>1. \A t \in Hilos : hilos'[t] = Servidor!HiloLibre
        BY <2>2
      <4>2. Ubicado(Servidor!HiloLibre)'
        BY DEF Ubicado, Servidor!HiloLibre, Servidor!NoConexion, NoConexion
      <4>3. QED
        BY <2>2, <4>1, <4>2, CuerposDe DEF Ubicado
    <3>3. QED
      BY <1>0, <2>2, <3>1, <3>2 DEF TiposXml
  <2>7. \A t \in Hilos : hilos'[t].con = NoConexion
                        /\ hilos'[t].payload = Servidor!Basura
    BY <2>2 DEF Servidor!HiloLibre, Servidor!NoConexion, NoConexion
  <2>8. EfectoXml
    BY <2>2, <2>3, <2>4, <2>5, <2>7, MismaRed DEF EfectoXml
  <2>9. QED
    BY <2>6, <2>8
<1>5. CASE Servidor!ArranqueXml
  <2>1. UNCHANGED <<mainXml, stParameters, hilos, con, backlog, cola, confirmadas>>
    BY <1>5 DEF Servidor!ArranqueXml, Servidor!procVars, Servidor!histVars
  <2>2. QED
    BY <1>0, <2>1 DEF TiposXml, EfectoXml, Ubicado
<1>6. QED
  BY <1>1, <1>2, <1>3, <1>4, <1>5 DEF PasoXml, Servidor!SistemaXml

-----------------------------------------------------------------------------
(* The steps of PublisherWin.                                              *)

\* The sender has sent its XML, which is of the article under its cursor.
Enviada(s) == snd[s].pc = "recvRespuesta"
Suyo(s) == Mensaje(snd[s].key, snd[s].cache.pagina[snd[s].key].noticia)

\* What a step of PublisherWin may do to the connection c that sender s has
\* afterwards: nothing; go on with its conversation; or open it.
Sigue(s, c) == snd'[s] = snd[s] /\ con'[c] = con[c]

Avanza(s, c) ==
  /\ ~ Enviada(s)
  /\ Esta("RequestOK", con'[c].aPublisher) => Esta("RequestOK", con[c].aPublisher)
  /\ \A m \in MensajesPub : Esta(Xml(m), con'[c].aServidor) =>
       \/ Esta(Xml(m), con[c].aServidor)
       \/ Enviada(s)' /\ m = Suyo(s)'

Abre(s, c) ==
  /\ con[c].estado = "libre"
  /\ ~ Esta("RequestOK", con'[c].aPublisher)
  /\ \A m \in MensajesPub : ~ Esta(Xml(m), con'[c].aServidor)
  /\ \A r \in Senders : snd'[r].con = c => r = s

EfectoPublisher ==
  /\ publicadas \subseteq publicadas'
  /\ \A c \in Conexiones :
       /\ con'[c].estado = "libre" => con'[c] = con[c]
       /\ Esta(c, backlog') => Esta(c, backlog) \/ con'[c].estado # "libre"
       /\ \A m \in MensajesPub : Esta(Xml(m), con'[c].aServidor) =>
            \/ Esta(Xml(m), con[c].aServidor)
            \/ \E s \in Senders : snd[s].pc = "sendXml" /\ m = Suyo(s)
  /\ \A s \in Senders, c \in Conexiones : snd'[s].con = c =>
       /\ con'[c].estado # "libre"
       /\ \/ snd[s].con = c /\ Sigue(s, c)
          \/ snd[s].con = c /\ Avanza(s, c)
          \/ Abre(s, c)

\* The operations of a sender on its connection.
LEMMA RedDelPublisher ==
  ASSUME NEW x \in Conexion
  PROVE  /\ LET y == TrasLeerPublisher(x)
            IN /\ y \in Conexion /\ y.estado = x.estado
               /\ y.aServidor = x.aServidor
               /\ \A r : Esta(r, y.aPublisher) => Esta(r, x.aPublisher)
         /\ \A r \in LeidoPorPublisher(x) : r = "cierre" \/ Esta(r, x.aPublisher)
         /\ \A m \in MensajesPub :
              LET y == EnviarAServidor(x, <<Xml(m), Relleno>>)
              IN /\ y \in Conexion /\ y.estado = x.estado
                 /\ y.aPublisher = x.aPublisher
                 /\ \A n \in MensajesPub : Esta(Xml(n), y.aServidor)
                                            => n = m \/ Esta(Xml(n), x.aServidor)
<1>0. x.aServidor \in Seq(Unidades) /\ x.aPublisher \in Seq(Respuestas)
  BY DEF Conexion
<1>1. LET y == TrasLeerPublisher(x)
      IN /\ y \in Conexion /\ y.estado = x.estado
         /\ y.aServidor = x.aServidor
         /\ \A r : Esta(r, y.aPublisher) => Esta(r, x.aPublisher)
  <2>1. CASE x.aPublisher = <<>>
    BY <2>1 DEF TrasLeerPublisher
  <2>2. CASE x.aPublisher # <<>>
    <3> DEFINE q == Tail(x.aPublisher)
    <3>1. q \in Seq(Respuestas) /\ \A u : Esta(u, q) => Esta(u, x.aPublisher)
      BY <1>0, <2>2, EstaTail
    <3>2. TrasLeerPublisher(x) = [x EXCEPT !.aPublisher = q]
      BY <2>2 DEF TrasLeerPublisher
    <3> HIDE DEF q
    <3>3. QED
      BY <3>1, <3>2 DEF Conexion
  <2>3. QED
    BY <2>1, <2>2
<1>2. \A r \in LeidoPorPublisher(x) : r = "cierre" \/ Esta(r, x.aPublisher)
  <2>1. CASE x.aPublisher = <<>>
    <3>1. LeidoPorPublisher(x) \in {{}, {"cierre"}}
      BY <2>1 DEF LeidoPorPublisher
    <3>2. \A r \in LeidoPorPublisher(x) : r = "cierre"
      BY <3>1
    <3>3. QED
      BY <3>2
  <2>2. CASE x.aPublisher # <<>>
    <3>1. Esta(Head(x.aPublisher), x.aPublisher)
      BY <1>0, <2>2, EstaTail
    <3>2. LeidoPorPublisher(x) = {Head(x.aPublisher)}
      BY <2>2 DEF LeidoPorPublisher
    <3>3. QED
      BY <3>1, <3>2
  <2>3. QED
    BY <2>1, <2>2
<1>3. ASSUME NEW m \in MensajesPub
      PROVE  LET y == EnviarAServidor(x, <<Xml(m), Relleno>>)
             IN /\ y \in Conexion /\ y.estado = x.estado
                /\ y.aPublisher = x.aPublisher
                /\ \A n \in MensajesPub : Esta(Xml(n), y.aServidor)
                                           => n = m \/ Esta(Xml(n), x.aServidor)
  <2> DEFINE q == x.aServidor \o <<Xml(m), Relleno>>
  <2>1. Xml(m) \in Unidades /\ Relleno \in Unidades
    BY DEF Unidades
  <2>2. /\ q \in Seq(Unidades)
        /\ \A u : Esta(u, q) => u = Xml(m) \/ u = Relleno \/ Esta(u, x.aServidor)
    BY <1>0, <2>1, EstaDosMas
  <2>3. \A n \in MensajesPub : Xml(n) # Relleno /\ (Xml(n) = Xml(m) => n = m)
    BY DEF Xml, Relleno
  <2>4. EnviarAServidor(x, <<Xml(m), Relleno>>) \in {x, [x EXCEPT !.aServidor = q]}
    BY DEF EnviarAServidor
  <2> HIDE DEF q
  <2>5. CASE EnviarAServidor(x, <<Xml(m), Relleno>>) = x
    BY <2>5
  <2>6. CASE EnviarAServidor(x, <<Xml(m), Relleno>>) = [x EXCEPT !.aServidor = q]
    BY <2>2, <2>3, <2>6 DEF Conexion
  <2>7. QED
    BY <2>4, <2>5, <2>6
<1>4. QED
  BY <1>1, <1>2, <1>3

\* No two senders share a connection.
UnDueno ==
  \A s, r \in Senders :
    snd[s].con \in Conexiones /\ snd[s].con = snd[r].con => s = r

\* A step of one sender that uses no connection afterwards, and none in it.
LEMMA SenderSinRed ==
  ASSUME TipoRed, TiposPublisher, Libres, NEW s \in Senders, NEW w \in Sender,
         snd' = [snd EXCEPT ![s] = w], w.con = NoConexion, EnSuLugar(w),
         archivo' \in Paginas,
         UNCHANGED <<hora, pub, publicadas, con, backlog>>
  PROVE  TipoRed' /\ TiposPublisher' /\ EfectoPublisher
<1>1. /\ snd' \in [Senders -> Sender] /\ snd'[s] = w
      /\ \A r \in Senders : r # s => snd'[r] = snd[r]
  BY DEF TiposPublisher
<1>2. TipoRed' /\ TiposPublisher'
  <2>1. \A r \in Senders : EnSuLugar(snd[r])'
    BY <1>1 DEF TiposPublisher, EnSuLugar
  <2>2. QED
    BY <1>1, <2>1 DEF TipoRed, TiposPublisher
<1>3. \A r \in Senders, c \in Conexiones : snd'[r].con = c =>
        snd[r].con = c /\ Sigue(r, c)
  BY <1>1, MismaRed DEF Sigue
<1>4. EfectoPublisher
  BY <1>3 DEF EfectoPublisher, Sigue, Libres
<1>5. QED
  BY <1>2, <1>4

\* A step of a sender in its conversation.
LEMMA SenderConversa ==
  ASSUME TipoRed, TiposPublisher, Libres, UnDueno, NEW s \in Senders,
         NEW w \in Sender, NEW c \in Conexiones, NEW x \in Conexion,
         snd[s].con = c, ~ Enviada(s) \/ w.con = NoConexion,
         snd' = [snd EXCEPT ![s] = w], con' = [con EXCEPT ![c] = x],
         w.con \in {c, NoConexion}, EnSuLugar(w),
         UNCHANGED <<hora, archivo, pub, publicadas, backlog>>,
         x.estado # "libre",
         Esta("RequestOK", x.aPublisher) => Esta("RequestOK", con[c].aPublisher),
         \A m \in MensajesPub : Esta(Xml(m), x.aServidor) =>
           \/ Esta(Xml(m), con[c].aServidor)
           \/ /\ snd[s].pc = "sendXml" /\ w.pc = "recvRespuesta"
              /\ w.key = snd[s].key /\ w.cache = snd[s].cache
              /\ m = Suyo(s)
  PROVE  TipoRed' /\ TiposPublisher' /\ EfectoPublisher
<1>1. /\ snd' \in [Senders -> Sender] /\ snd'[s] = w
      /\ \A r \in Senders : r # s => snd'[r] = snd[r]
  BY DEF TiposPublisher
<1>2. /\ con' \in [Conexiones -> Conexion] /\ con'[c] = x
      /\ \A d \in Conexiones : d # c => con'[d] = con[d]
  BY DEF TipoRed
<1>3. TipoRed' /\ TiposPublisher'
  <2>1. \A r \in Senders : EnSuLugar(snd[r])'
    BY <1>1 DEF TiposPublisher, EnSuLugar
  <2>2. QED
    BY <1>1, <1>2, <2>1 DEF TipoRed, TiposPublisher
<1>4. ASSUME NEW r \in Senders, NEW d \in Conexiones, snd'[r].con = d
      PROVE  /\ con'[d].estado # "libre"
             /\ snd[r].con = d /\ (Sigue(r, d) \/ Avanza(r, d))
  <2>1. CASE r # s
    <3>1. snd[r].con = d
      BY <1>1, <1>4, <2>1
    <3>2. d # c
      BY <2>1, <3>1 DEF UnDueno
    <3>3. QED
      BY <1>1, <1>2, <2>1, <3>1, <3>2 DEF Sigue, Libres
  <2>2. CASE r = s
    <3>1. w.con = d /\ d = c
      BY <1>1, <1>4, <2>2, MismaRed
    <3>2. ~ Enviada(s)
      BY <3>1, MismaRed
    <3>3. Avanza(s, c)
      <4>1. Esta("RequestOK", con'[c].aPublisher)
              => Esta("RequestOK", con[c].aPublisher)
        BY <1>2
      <4>2. ASSUME NEW m \in MensajesPub, Esta(Xml(m), con'[c].aServidor),
                   ~ Esta(Xml(m), con[c].aServidor)
            PROVE  Enviada(s)' /\ m = Suyo(s)'
        <5>1. /\ w.pc = "recvRespuesta" /\ w.key = snd[s].key
              /\ w.cache = snd[s].cache /\ m = Suyo(s)
          BY <1>2, <4>2
        <5>2. QED
          BY <1>1, <5>1 DEF Enviada, Suyo, Mensaje
      <4>3. QED
        BY <3>2, <4>1, <4>2 DEF Avanza
    <3>4. QED
      BY <1>2, <2>2, <3>1, <3>3
  <2>3. QED
    BY <2>1, <2>2
<1>5. ASSUME NEW d \in Conexiones
      PROVE  /\ con'[d].estado = "libre" => con'[d] = con[d]
             /\ Esta(d, backlog') => Esta(d, backlog)
             /\ \A m \in MensajesPub : Esta(Xml(m), con'[d].aServidor) =>
                  \/ Esta(Xml(m), con[d].aServidor)
                  \/ \E r \in Senders : snd[r].pc = "sendXml" /\ m = Suyo(r)
  BY <1>2
<1>6. EfectoPublisher
  BY <1>4, <1>5 DEF EfectoPublisher
<1>7. QED
  BY <1>3, <1>6

LEMMA SenderEfecto ==
  ASSUME TipoRed, TiposPublisher, Libres, UnDueno, backlog \in Seq(Conexiones),
         NEW s \in Senders, IniciarSender(s) \/ HiloSender(s)
  PROVE  TipoRed' /\ TiposPublisher' /\ EfectoPublisher
                 /\ backlog' \in Seq(Conexiones)
<1>0. /\ snd[s] \in Sender /\ EnSuLugar(snd[s]) /\ snd \in [Senders -> Sender]
      /\ snd[s].pc \in PcSender /\ snd[s].key \in Ids \cup {0}
      /\ snd[s].cache \in Cache /\ snd[s].cache.pagina \in Paginas
      /\ snd[s].con \in Conexiones \cup {NoConexion}
      /\ con \in [Conexiones -> Conexion] /\ archivo \in Paginas
  BY DEF TiposPublisher, TipoRed, Sender, Cache
<1>1. CASE IniciarSender(s) \/ CerrarSender(s)
  <2> PICK pc \in {"c_get", "libre"} :
        snd' = [snd EXCEPT ![s] = [SndInicial EXCEPT !.pc = pc]]
    BY <1>1 DEF IniciarSender, CerrarSender, SndInicial
  <2> DEFINE w == [SndInicial EXCEPT !.pc = pc]
  <2>1. /\ w \in Sender /\ w.con = NoConexion /\ EnSuLugar(w)
    BY PaginaVacia, MismaRed DEF Sender, SndInicial, PcSender, EnSuLugar,
       EnConversacion, ConNoticia
  <2>2. archivo' \in Paginas
    BY <1>0, <1>1 DEF IniciarSender, CerrarSender
  <2>3. UNCHANGED <<hora, pub, publicadas, con, backlog>>
    BY <1>1 DEF IniciarSender, CerrarSender, redVars
  <2> HIDE DEF w
  <2>4. snd' = [snd EXCEPT ![s] = w]
    BY DEF w
  <2>5. QED
    BY <2>1, <2>2, <2>3, <2>4, SenderSinRed
<1>2. CASE SiguienteNoticia(s)
  <2> DEFINE p == Pagina(snd[s].cache)
             leida == [snd[s].cache EXCEPT !.leida = TRUE, !.pagina = p]
  <2>1. p \in Paginas /\ leida \in Cache /\ leida.pagina = p
    BY <1>0 DEF Pagina, Cache
  <2>2. \E w \in Sender : /\ snd' = [snd EXCEPT ![s] = w] /\ w.con = NoConexion
                         /\ EnSuLugar(w)
    <3>0. snd[s].con = NoConexion /\ snd[s].pc = "c_get"
      BY <1>0, <1>2 DEF SiguienteNoticia, EnSuLugar, EnConversacion
    <3>1. CASE snd' = [snd EXCEPT ![s].pc = "closeDb", ![s].cache = leida]
      <4> DEFINE w == [snd[s] EXCEPT !.pc = "closeDb", !.cache = leida]
      <4>1. w \in Sender /\ w.pc = "closeDb" /\ w.con = NoConexion
        BY <1>0, <2>1, <3>0 DEF Sender, PcSender
      <4>2. snd' = [snd EXCEPT ![s] = w]
        BY <1>0, <3>1
      <4> HIDE DEF w
      <4>3. EnSuLugar(w)
        BY <4>1, MismaRed DEF EnSuLugar, EnConversacion, ConNoticia
      <4>4. QED
        BY <4>1, <4>2, <4>3
    <3>2. ASSUME NEW i \in DOMAIN p, NEW pc \in {"connect", "c_get"},
                 snd' = [snd EXCEPT ![s].key = i, ![s].cache = leida, ![s].pc = pc]
          PROVE  \E w \in Sender : /\ snd' = [snd EXCEPT ![s] = w]
                                  /\ w.con = NoConexion /\ EnSuLugar(w)
      <4> DEFINE w == [snd[s] EXCEPT !.key = i, !.cache = leida, !.pc = pc]
      <4>0. i \in Ids
        BY <2>1, PaginaLeida
      <4>1. w \in Sender /\ w.pc = pc /\ w.con = NoConexion /\ w.key = i
            /\ w.cache = leida
        BY <1>0, <2>1, <3>0, <4>0 DEF Sender, PcSender
      <4>2. snd' = [snd EXCEPT ![s] = w]
        BY <1>0, <3>2
      <4> HIDE DEF w
      <4>3. EnSuLugar(w)
        BY <2>1, <4>1, MismaRed DEF EnSuLugar, EnConversacion, ConNoticia
      <4>4. QED
        BY <4>1, <4>2, <4>3
    <3>3. \/ snd' = [snd EXCEPT ![s].pc = "closeDb", ![s].cache = leida]
          \/ \E i \in DOMAIN p, pc \in {"connect", "c_get"} :
               snd' = [snd EXCEPT ![s].key = i, ![s].cache = leida, ![s].pc = pc]
      BY <1>2 DEF SiguienteNoticia, Siguientes
    <3>4. QED
      BY <3>1, <3>2, <3>3
  <2>3. UNCHANGED <<hora, archivo, pub, publicadas, con, backlog>>
    BY <1>2 DEF SiguienteNoticia, redVars
  <2>4. archivo' \in Paginas
    BY <1>0, <2>3
  <2>5. QED
    BY <2>2, <2>3, <2>4, SenderSinRed
<1>3. CASE Connect(s)
  <2>0. /\ snd[s].pc = "connect" /\ snd[s].con = NoConexion
        /\ snd[s].key \in DOMAIN snd[s].cache.pagina
        /\ UNCHANGED <<hora, archivo, pub, publicadas>>
    BY <1>0, <1>3 DEF Connect, EnSuLugar, EnConversacion, ConNoticia
  <2>1. CASE /\ snd' = [snd EXCEPT ![s].pc = "c_get", ![s].con = NoConexion]
             /\ UNCHANGED <<con, backlog>>
    <3> DEFINE w == [snd[s] EXCEPT !.pc = "c_get", !.con = NoConexion]
    <3>1. w \in Sender /\ w.pc = "c_get" /\ w.con = NoConexion
      BY <1>0 DEF Sender, PcSender
    <3>2. snd' = [snd EXCEPT ![s] = w]
      BY <1>0, <2>1
    <3> HIDE DEF w
    <3>3. EnSuLugar(w)
      BY <3>1, MismaRed DEF EnSuLugar, EnConversacion, ConNoticia
    <3>4. archivo' \in Paginas
      BY <1>0, <2>0
    <3>5. QED
      BY <2>0, <2>1, <3>1, <3>2, <3>3, <3>4, SenderSinRed
  <2>2. ASSUME NEW c \in Conexiones, con[c].estado = "libre",
               con' = [con EXCEPT ![c].estado = "abierta",
                                  ![c].aServidor = <<Handshake>>],
               backlog' = Append(backlog, c),
               snd' = [snd EXCEPT ![s].pc = "recvHandshake", ![s].con = c]
        PROVE  TipoRed' /\ TiposPublisher' /\ EfectoPublisher
                       /\ backlog' \in Seq(Conexiones)
    <3> DEFINE w == [snd[s] EXCEPT !.pc = "recvHandshake", !.con = c]
               x == [con[c] EXCEPT !.estado = "abierta", !.aServidor = <<Handshake>>]
    <3>1. /\ w \in Sender /\ w.pc = "recvHandshake" /\ w.con = c
          /\ w.key = snd[s].key /\ w.cache = snd[s].cache
          /\ snd' = [snd EXCEPT ![s] = w]
      BY <1>0, <2>2 DEF Sender, PcSender
    <3>2. /\ x \in Conexion /\ x.estado = "abierta" /\ x.aServidor = <<Handshake>>
          /\ x.aPublisher = con[c].aPublisher
          /\ con' = [con EXCEPT ![c] = x]
      <4>1. <<Handshake>> \in Seq(Unidades)
        BY DEF Unidades
      <4>2. QED
        BY <1>0, <2>2, <4>1 DEF Conexion, Estados
    <3> HIDE DEF w, x
    <3>3. EnSuLugar(w)
      BY <2>0, <3>1 DEF EnSuLugar, EnConversacion, ConNoticia
    <3>4. /\ snd' \in [Senders -> Sender] /\ snd'[s] = w
          /\ \A r \in Senders : r # s => snd'[r] = snd[r]
      BY <1>0, <3>1
    <3>5. /\ con' \in [Conexiones -> Conexion] /\ con'[c] = x
          /\ \A d \in Conexiones : d # c => con'[d] = con[d]
      BY <1>0, <3>2
    <3>6. TipoRed' /\ TiposPublisher'
      <4>1. \A r \in Senders : EnSuLugar(snd[r])'
        BY <3>3, <3>4 DEF TiposPublisher, EnSuLugar
      <4>2. QED
        BY <2>0, <3>4, <3>5, <4>1 DEF TipoRed, TiposPublisher
    <3>7. /\ backlog' \in Seq(Conexiones)
          /\ \A d : Esta(d, backlog') => d = c \/ Esta(d, backlog)
      BY <2>2, EstaAppend
    <3>8. /\ ~ Esta("RequestOK", x.aPublisher)
          /\ \A m \in MensajesPub : ~ Esta(Xml(m), x.aServidor)
      <4>1. x.aPublisher = <<>>
        BY <2>2, <3>2 DEF Libres
      <4>2. \A m \in MensajesPub : Handshake # Xml(m)
        BY DEF Handshake, Xml
      <4>3. QED
        BY <3>2, <4>1, <4>2 DEF Esta
    <3>9. \A r \in Senders : snd[r].con # c
      BY <2>2 DEF Libres
    <3>10. Abre(s, c)
      BY <2>2, <3>4, <3>5, <3>8, <3>9 DEF Abre
    <3>11. ASSUME NEW r \in Senders, NEW d \in Conexiones, snd'[r].con = d
           PROVE  /\ con'[d].estado # "libre"
                  /\ (snd[r].con = d /\ Sigue(r, d)) \/ Abre(r, d)
      <4>1. CASE r = s
        BY <3>1, <3>2, <3>4, <3>5, <3>10, <3>11, <4>1
      <4>2. CASE r # s
        BY <3>4, <3>5, <3>9, <3>11, <4>2 DEF Sigue, Libres
      <4>3. QED
        BY <4>1, <4>2
    <3>12. EfectoPublisher
      <4>1. ASSUME NEW d \in Conexiones
            PROVE  /\ con'[d].estado = "libre" => con'[d] = con[d]
                   /\ Esta(d, backlog') => Esta(d, backlog) \/ con'[d].estado # "libre"
                   /\ \A m \in MensajesPub : Esta(Xml(m), con'[d].aServidor) =>
                        Esta(Xml(m), con[d].aServidor)
        BY <3>2, <3>5, <3>7, <3>8
      <4>2. QED
        BY <2>0, <3>11, <4>1 DEF EfectoPublisher
    <3>13. QED
      BY <3>6, <3>7, <3>12
  <2>3. QED
    BY <1>3, <2>1, <2>2 DEF Connect
<1>4. CASE RecvHandshake(s)
  <2> DEFINE c == snd[s].con
  <2>0. /\ snd[s].pc = "recvHandshake" /\ snd[s].con \in Conexiones
        /\ snd[s].key \in DOMAIN snd[s].cache.pagina
        /\ UNCHANGED <<hora, archivo, pub, publicadas, backlog>>
    BY <1>0, <1>4 DEF RecvHandshake, EnSuLugar, EnConversacion, ConNoticia
  <2> DEFINE x == TrasLeerPublisher(con[c])
  <2>1. /\ x \in Conexion /\ x.estado = con[c].estado
        /\ x.aServidor = con[c].aServidor
        /\ \A r : Esta(r, x.aPublisher) => Esta(r, con[c].aPublisher)
    BY <1>0, <2>0, RedDelPublisher
  <2>2. con[c].estado # "libre" /\ ~ Enviada(s)
    BY <2>0 DEF Libres, Enviada
  <2>3. \E w \in Sender : /\ snd' = [snd EXCEPT ![s] = w] /\ EnSuLugar(w)
                         /\ w.con \in {c, NoConexion}
    <3>1. CASE snd' = [snd EXCEPT ![s].pc = "c_get", ![s].con = NoConexion]
      <4> DEFINE w == [snd[s] EXCEPT !.pc = "c_get", !.con = NoConexion]
      <4>1. w \in Sender /\ w.pc = "c_get" /\ w.con = NoConexion
        BY <1>0 DEF Sender, PcSender
      <4>2. snd' = [snd EXCEPT ![s] = w]
        BY <1>0, <3>1
      <4> HIDE DEF w
      <4>3. EnSuLugar(w)
        BY <4>1, MismaRed DEF EnSuLugar, EnConversacion, ConNoticia
      <4>4. QED
        BY <4>1, <4>2, <4>3
    <3>2. CASE snd' = [snd EXCEPT ![s].pc = "sendXml"]
      <4> DEFINE w == [snd[s] EXCEPT !.pc = "sendXml"]
      <4>1. w \in Sender /\ w.pc = "sendXml" /\ w.con = c
            /\ w.key = snd[s].key /\ w.cache = snd[s].cache
        BY <1>0 DEF Sender, PcSender
      <4>2. snd' = [snd EXCEPT ![s] = w]
        BY <1>0, <3>2
      <4> HIDE DEF w
      <4>3. EnSuLugar(w)
        BY <2>0, <4>1 DEF EnSuLugar, EnConversacion, ConNoticia
      <4>4. QED
        BY <4>1, <4>2, <4>3
    <3>3. QED
      BY <1>4, <3>1, <3>2 DEF RecvHandshake
  <2>4. con' = [con EXCEPT ![c] = x]
    BY <1>4, <2>0, <1>0 DEF RecvHandshake
  <2>5. PICK w \in Sender : /\ snd' = [snd EXCEPT ![s] = w] /\ EnSuLugar(w)
                          /\ w.con \in {c, NoConexion}
    BY <2>3
  <2> HIDE DEF x
  <2>6. QED
    BY <1>0, <2>0, <2>1, <2>2, <2>4, <2>5, SenderConversa
<1>5. CASE SendXml(s)
  <2> DEFINE c == snd[s].con
             m == Suyo(s)
             x == EnviarAServidor(con[c], <<Xml(m), Relleno>>)
  <2>0. /\ snd[s].pc = "sendXml" /\ snd[s].con \in Conexiones
        /\ snd[s].key \in DOMAIN snd[s].cache.pagina
        /\ UNCHANGED <<hora, archivo, pub, publicadas, backlog>>
    BY <1>0, <1>5 DEF SendXml, EnSuLugar, EnConversacion, ConNoticia
  <2>1. con[c].estado # "libre" /\ ~ Enviada(s) /\ con[c] \in Conexion
    BY <1>0, <2>0 DEF Libres, Enviada
  <2>2. CASE /\ con' = con
             /\ snd' = [snd EXCEPT ![s].pc = "c_get", ![s].con = NoConexion]
    <3> DEFINE w == [snd[s] EXCEPT !.pc = "c_get", !.con = NoConexion]
    <3>1. w \in Sender /\ w.pc = "c_get" /\ w.con = NoConexion
      BY <1>0 DEF Sender, PcSender
    <3>2. snd' = [snd EXCEPT ![s] = w]
      BY <1>0, <2>2
    <3> HIDE DEF w
    <3>3. EnSuLugar(w)
      BY <3>1, MismaRed DEF EnSuLugar, EnConversacion, ConNoticia
    <3>4. archivo' \in Paginas
      BY <1>0, <2>0
    <3>5. TipoRed' /\ TiposPublisher' /\ EfectoPublisher
      BY <2>0, <2>2, <3>1, <3>2, <3>3, <3>4, SenderSinRed
    <3>6. QED
      BY <2>0, <3>5
  <2>3. CASE /\ con' = [con EXCEPT ![c] = x]
             /\ snd' = [snd EXCEPT ![s].pc = "recvRespuesta"]
    <3> DEFINE w == [snd[s] EXCEPT !.pc = "recvRespuesta"]
    <3>1. /\ w \in Sender /\ w.pc = "recvRespuesta" /\ w.con = c
          /\ w.key = snd[s].key /\ w.cache = snd[s].cache
          /\ snd' = [snd EXCEPT ![s] = w]
      BY <1>0, <2>3 DEF Sender, PcSender
    <3>2. m \in MensajesPub
      BY <1>0, <2>0, PaginaLeida DEF Suyo, MensajesPub
    <3>3. /\ x \in Conexion /\ x.estado = con[c].estado
          /\ x.aPublisher = con[c].aPublisher
          /\ \A n \in MensajesPub : Esta(Xml(n), x.aServidor)
                                    => n = m \/ Esta(Xml(n), con[c].aServidor)
      BY <2>1, <3>2, RedDelPublisher
    <3> HIDE DEF w, x, m
    <3>4. EnSuLugar(w)
      BY <2>0, <3>1 DEF EnSuLugar, EnConversacion, ConNoticia
    <3>5. \A n \in MensajesPub : Esta(Xml(n), x.aServidor) =>
            \/ Esta(Xml(n), con[c].aServidor)
            \/ /\ snd[s].pc = "sendXml" /\ w.pc = "recvRespuesta"
               /\ w.key = snd[s].key /\ w.cache = snd[s].cache
               /\ n = Suyo(s)
      BY <2>0, <3>1, <3>3 DEF m
    <3>6. TipoRed' /\ TiposPublisher' /\ EfectoPublisher
      BY <2>0, <2>1, <2>3, <3>1, <3>3, <3>4, <3>5, SenderConversa
    <3>7. QED
      BY <2>0, <3>6
  <2>4. QED
    BY <1>5, <2>2, <2>3 DEF SendXml, Suyo
<1>6. CASE RecvRespuesta(s)
  <2> DEFINE c == snd[s].con
  <2>0. /\ snd[s].pc = "recvRespuesta" /\ snd[s].con \in Conexiones
        /\ snd[s].key \in DOMAIN snd[s].cache.pagina
        /\ UNCHANGED <<hora, archivo, pub, publicadas, backlog>>
    BY <1>0, <1>6 DEF RecvRespuesta, EnSuLugar, EnConversacion, ConNoticia
  <2>1. con[c].estado # "libre" /\ con[c] \in Conexion
    BY <1>0, <2>0 DEF Libres
  <2> DEFINE y == TrasLeerPublisher(con[c])
  <2>2. /\ y \in Conexion /\ y.estado = con[c].estado
        /\ y.aServidor = con[c].aServidor
        /\ \A r : Esta(r, y.aPublisher) => Esta(r, con[c].aPublisher)
    BY <2>1, RedDelPublisher
  <2>3. PICK x \in {y, [y EXCEPT !.estado = "cerrada"]}, pc \in {"put", "c_get"} :
          /\ con' = [con EXCEPT ![c] = x]
          /\ snd' = [snd EXCEPT ![s].con = NoConexion, ![s].pc = pc]
    <3>1. PICK r \in LeidoPorPublisher(con[c]) :
            /\ con' = [con EXCEPT ![c] = IF r = "cierre" THEN y
                                         ELSE [y EXCEPT !.estado = "cerrada"]]
            /\ snd' = [snd EXCEPT ![s].con = NoConexion,
                         ![s].pc = IF EsRequestOK(r) THEN "put" ELSE "c_get"]
      BY <1>6 DEF RecvRespuesta
    <3> HIDE DEF y, c
    <3>2. (IF EsRequestOK(r) THEN "put" ELSE "c_get") \in {"put", "c_get"}
      BY DEF EsRequestOK
    <3>3. QED
      BY <3>1, <3>2
  <2> DEFINE w == [snd[s] EXCEPT !.con = NoConexion, !.pc = pc]
  <2>4. /\ w \in Sender /\ w.pc = pc /\ w.con = NoConexion
        /\ w.key = snd[s].key /\ w.cache = snd[s].cache
        /\ snd' = [snd EXCEPT ![s] = w]
    BY <1>0, <2>3 DEF Sender, PcSender
  <2> HIDE DEF y
  <2>5. /\ x \in Conexion /\ x.estado # "libre" /\ x.aServidor = con[c].aServidor
        /\ x.aPublisher = y.aPublisher
    BY <2>1, <2>2, <2>3 DEF Conexion, Estados
  <2> HIDE DEF w
  <2>6. EnSuLugar(w)
    BY <2>0, <2>4, MismaRed DEF EnSuLugar, EnConversacion, ConNoticia
  <2>7. /\ Esta("RequestOK", x.aPublisher) => Esta("RequestOK", con[c].aPublisher)
        /\ \A n \in MensajesPub : Esta(Xml(n), x.aServidor) =>
                                     Esta(Xml(n), con[c].aServidor)
    BY <2>2, <2>5
  <2>8. TipoRed' /\ TiposPublisher' /\ EfectoPublisher
    BY <2>0, <2>3, <2>4, <2>5, <2>6, <2>7, SenderConversa
  <2>9. QED
    BY <2>0, <2>8
<1>7. CASE PutTransmitted(s)
  <2> DEFINE k == snd[s].key
             p == [snd[s].cache.pagina EXCEPT ![k].transmitted = "1"]
             leida == [snd[s].cache EXCEPT !.sucia = TRUE, !.pagina = p]
             w == [snd[s] EXCEPT !.pc = "c_get", !.cache = leida]
  <2>0. /\ snd[s].pc = "put" /\ snd[s].con = NoConexion
        /\ k \in DOMAIN snd[s].cache.pagina
        /\ UNCHANGED <<hora, archivo, pub, publicadas, con, backlog>>
    BY <1>0, <1>7 DEF PutTransmitted, EnSuLugar, EnConversacion, ConNoticia, redVars
  <2>1. p \in Paginas
    BY <1>0, <2>0, PaginaMarcada
  <2>2. snd' = [snd EXCEPT ![s] = w]
    BY <1>0, <1>7 DEF PutTransmitted, Sender, Cache
  <2> HIDE DEF p
  <2>3. leida \in Cache
    BY <1>0, <2>1 DEF Cache
  <2> HIDE DEF leida
  <2>4. w \in Sender /\ w.pc = "c_get" /\ w.con = NoConexion
    BY <1>0, <2>0, <2>3 DEF Sender, PcSender
  <2> HIDE DEF w
  <2>5. EnSuLugar(w)
    BY <2>4, MismaRed DEF EnSuLugar, EnConversacion, ConNoticia
  <2>6. archivo' \in Paginas
    BY <1>0, <2>0
  <2>7. QED
    BY <2>0, <2>2, <2>4, <2>5, <2>6, SenderSinRed
<1>8. QED
  BY <1>1, <1>2, <1>3, <1>4, <1>5, <1>6, <1>7 DEF HiloSender

\* Steps that touch neither senders nor connections.
LEMMA SinSenders ==
  ASSUME TipoRed, TiposPublisher, Libres, UNCHANGED <<snd, con, backlog>>,
         publicadas \subseteq publicadas'
  PROVE  TipoRed' /\ EfectoPublisher
<1>1. \A r \in Senders, c \in Conexiones : snd'[r].con = c =>
        snd[r].con = c /\ Sigue(r, c)
  BY DEF Sigue
<1>2. QED
  BY <1>1 DEF EfectoPublisher, Libres, TipoRed

LEMMA ClienteEfecto ==
  ASSUME TipoRed, TiposPublisher, Libres, HiloCliente \/ PasaUnSegundo
  PROVE  TipoRed' /\ TiposPublisher' /\ EfectoPublisher /\ backlog' = backlog
<1>0. /\ pub \in Cliente /\ pub.pc \in PcCliente /\ pub.cache \in Cache
      /\ pub.cache.pagina \in Paginas /\ archivo \in Paginas
      /\ publicadas \subseteq [id : Ids, noticia : Noticias] /\ hora \in Ids
      /\ pub.pc # "closeDb" => pub.cache = SinPagina
      /\ pub.pc \in {"createDb", "putArticle", "closeDb"} => pub.noticia \in Noticias
      /\ pub.pc \in {"putArticle", "closeDb"} => pub.id \in Ids
  BY DEF TiposPublisher, Cliente, Cache
<1>1. UNCHANGED <<snd, con, backlog>>
  BY DEF HiloCliente, Ingresar, CreateDbYGenerateNewID, PutArticle, CloseDb,
         OtraNoticia, PasaUnSegundo, redVars
<1>2. CASE \E n \in Noticias : Ingresar(n)
  <2> PICK n \in Noticias : Ingresar(n)
    BY <1>2
  <2>1. UNCHANGED <<hora, archivo, publicadas>>
    BY DEF Ingresar
  <2> DEFINE w == [pub EXCEPT !.pc = "createDb", !.noticia = n]
  <2>2. /\ w \in Cliente /\ w.pc = "createDb" /\ w.noticia \in Noticias
        /\ w.cache = SinPagina /\ pub' = w
    BY <1>0 DEF Cliente, PcCliente, Ingresar
  <2> HIDE DEF w
  <2>3. QED
    BY <1>1, <2>1, <2>2, SinSenders DEF TiposPublisher, EnSuLugar
<1>3. CASE CreateDbYGenerateNewID
  <2>1. UNCHANGED <<hora, archivo, publicadas>> /\ pub.noticia \in Noticias
    BY <1>0, <1>3 DEF CreateDbYGenerateNewID
  <2> DEFINE w == [pub EXCEPT !.pc = "putArticle", !.id = hora, !.cache = SinPagina]
  <2>2. /\ w \in Cliente /\ w.pc = "putArticle" /\ w.noticia \in Noticias
        /\ w.id \in Ids /\ w.cache = SinPagina /\ pub' = w
    BY <1>0, <1>3, <2>1, PaginaVacia DEF Cliente, PcCliente, CreateDbYGenerateNewID
  <2> HIDE DEF w
  <2>3. QED
    BY <1>1, <2>1, <2>2, SinSenders DEF TiposPublisher, EnSuLugar
<1>4. CASE PutArticle
  <2> DEFINE p == Pagina(pub.cache)
             q == [i \in DOMAIN p \cup {pub.id} |->
                     IF i = pub.id THEN Nuevo(pub.noticia) ELSE p[i]]
  <2>1. /\ UNCHANGED <<hora, archivo, publicadas>>
        /\ pub.noticia \in Noticias /\ pub.id \in Ids
    BY <1>0, <1>4 DEF PutArticle
  <2>2. p \in Paginas
    BY <1>0 DEF Pagina
  <2>3. q \in Paginas
    <3>1. Nuevo(pub.noticia) \in Guardados
      BY <2>1 DEF Nuevo, Guardados
    <3> HIDE DEF p
    <3>2. QED
      BY <2>1, <2>2, <3>1, PaginaConOtra
  <2>4. PICK k \in Cache : pub' = [pub EXCEPT !.pc = "closeDb", !.cache = k]
    <3> HIDE DEF p, q
    <3>1. /\ [leida |-> TRUE, sucia |-> FALSE, pagina |-> p] \in Cache
          /\ [leida |-> TRUE, sucia |-> TRUE, pagina |-> q] \in Cache
      BY <2>2, <2>3 DEF Cache
    <3>2. pub' = [pub EXCEPT !.pc = "closeDb",
                   !.cache = IF pub.id \in DOMAIN p
                             THEN [leida |-> TRUE, sucia |-> FALSE, pagina |-> p]
                             ELSE [leida |-> TRUE, sucia |-> TRUE, pagina |-> q]]
      BY <1>4 DEF PutArticle, p, q
    <3>3. QED
      BY <3>1, <3>2
  <2>5. /\ pub' \in Cliente /\ pub'.pc = "closeDb" /\ pub'.noticia = pub.noticia
        /\ pub'.id = pub.id
    BY <1>0, <2>4 DEF Cliente, PcCliente
  <2>6. QED
    BY <1>1, <2>1, <2>5, SinSenders DEF TiposPublisher, EnSuLugar
<1>5. CASE CloseDb
  <2>1. pub.noticia \in Noticias /\ pub.id \in Ids /\ hora' = hora
    BY <1>0, <1>5 DEF CloseDb
  <2>2. /\ publicadas \subseteq publicadas'
        /\ publicadas' \subseteq [id : Ids, noticia : Noticias]
    BY <1>0, <1>5, <2>1 DEF CloseDb
  <2>3. archivo' \in Paginas
    BY <1>0, <1>5 DEF CloseDb
  <2> DEFINE w == [pub EXCEPT !.pc = "pregunta", !.cache = SinPagina]
  <2>4. w \in Cliente /\ w.pc = "pregunta" /\ w.cache = SinPagina /\ pub' = w
    BY <1>0, <1>5, PaginaVacia DEF Cliente, PcCliente, CloseDb
  <2> HIDE DEF w
  <2>5. QED
    BY <1>1, <2>1, <2>2, <2>3, <2>4, SinSenders DEF TiposPublisher, EnSuLugar
<1>6. CASE OtraNoticia
  <2>1. UNCHANGED <<hora, archivo, publicadas>>
    BY <1>6 DEF OtraNoticia
  <2>2. PICK pc \in {"ingreso", "fin"} : pub' = [PubInicial EXCEPT !.pc = pc]
    BY <1>6 DEF OtraNoticia
  <2>3. /\ pub' \in Cliente /\ pub'.pc \in {"ingreso", "fin"}
        /\ pub'.cache = SinPagina
    BY <2>2, PaginaVacia DEF PubInicial, Cliente, PcCliente
  <2>4. QED
    BY <1>1, <2>1, <2>3, SinSenders DEF TiposPublisher, EnSuLugar
<1>7. CASE PasaUnSegundo
  <2>1. UNCHANGED <<archivo, publicadas, pub>> /\ hora' \in Ids
    BY <1>0, <1>7, PublisherAssumption DEF PasaUnSegundo, Ids
  <2>2. QED
    BY <1>1, <2>1, SinSenders DEF TiposPublisher, EnSuLugar
<1>8. QED
  BY <1>2, <1>3, <1>4, <1>5, <1>6, <1>7 DEF HiloCliente

(* The steps of PublisherWin and its crash keep the types and have no      *)
(* effect on connections but those of EfectoPublisher.                     *)
LEMMA PublisherEfecto ==
  ASSUME TipoRed, TiposPublisher, TiposXml, Libres, UnDueno, PasoPublisher
  PROVE  /\ TipoRed' /\ TiposPublisher' /\ TiposXml'
         /\ EfectoPublisher /\ UNCHANGED soloXml
<1>0. UNCHANGED soloXml /\ backlog \in Seq(Conexiones)
  BY DEF PasoPublisher, TiposXml
<1>1. SUFFICES /\ TipoRed' /\ TiposPublisher' /\ EfectoPublisher
               /\ backlog' \in Seq(Conexiones)
  BY <1>0 DEF TiposXml, Ubicado, soloXml
<1>2. CASE HiloCliente \/ PasaUnSegundo
  BY <1>0, <1>2, ClienteEfecto
<1>3. CASE \E s \in Senders : IniciarSender(s) \/ HiloSender(s)
  BY <1>0, <1>3, SenderEfecto
<1>4. CASE CaidaPublisher
  <2>1. /\ pub' = PubInicial /\ snd' = [s \in Senders |-> SndInicial]
        /\ con' = CierreDelPublisher(con)
        /\ UNCHANGED <<hora, archivo, publicadas, backlog>>
    BY <1>4 DEF CaidaPublisher
  <2>2. \A c \in Conexiones :
          \/ con'[c] = con[c]
          \/ con[c].estado = "abierta" /\ con'[c] = [con[c] EXCEPT !.estado = "cerrada"]
    BY <2>1 DEF CierreDelPublisher
  <2>3. /\ con' \in [Conexiones -> Conexion]
        /\ \A c \in Conexiones : /\ con'[c].aServidor = con[c].aServidor
                                 /\ con'[c].estado = "libre" => con'[c] = con[c]
    <3>1. ASSUME NEW c \in Conexiones
          PROVE  /\ con'[c] \in Conexion /\ con'[c].aServidor = con[c].aServidor
                 /\ con'[c].estado = "libre" => con'[c] = con[c]
      BY <2>2 DEF TipoRed, Conexion, Estados
    <3>2. con' = [c \in Conexiones |-> con'[c]]
      BY <2>1 DEF CierreDelPublisher
    <3>3. QED
      BY <3>1, <3>2
  <2>4. /\ SndInicial \in Sender /\ EnSuLugar(SndInicial)
        /\ SndInicial.con = NoConexion
    BY PaginaVacia, MismaRed DEF Sender, SndInicial, PcSender, EnSuLugar,
       EnConversacion, ConNoticia
  <2>5. /\ PubInicial \in Cliente /\ PubInicial.pc = "ingreso"
        /\ PubInicial.cache = SinPagina
    BY PaginaVacia DEF PubInicial, Cliente, PcCliente
  <2>6. \A s \in Senders : snd'[s] = SndInicial
    BY <2>1
  <2>7. TiposPublisher'
    <3>1. \A s \in Senders : EnSuLugar(snd[s])'
      BY <2>4, <2>6 DEF EnSuLugar
    <3>2. snd' \in [Senders -> Sender]
      BY <2>1, <2>4
    <3>3. QED
      BY <2>1, <2>5, <3>1, <3>2 DEF TiposPublisher
  <2>8. EfectoPublisher
    BY <2>1, <2>3, <2>4, <2>6, MismaRed DEF EfectoPublisher
  <2>9. QED
    BY <1>0, <2>1, <2>3, <2>7, <2>8 DEF TipoRed
<1>5. QED
  BY <1>2, <1>3, <1>4 DEF PasoPublisher, SistemaPublisher

-----------------------------------------------------------------------------
(* Conversations.                                                          *)

\* While sender s has connection c, the article on it, in the hands of the
\* threads that have it and behind a RequestOK is the one under the cursor of
\* s, and there is none before s sends its XML.
Conversacion(s, c) ==
  /\ \A m \in MensajesPub :
       Esta(Xml(m), con[c].aServidor) => Enviada(s) /\ m = Suyo(s)
  /\ \A t \in Hilos :
       hilos[t].con = c /\ hilos[t].payload # Servidor!Basura
         => Enviada(s) /\ hilos[t].payload = Servidor!XmlDe(Suyo(s))
  /\ Esta("RequestOK", con[c].aPublisher)
         => Enviada(s) /\ Servidor!XmlDe(Suyo(s)) \in confirmadas

Conversaciones ==
  \A s \in Senders, c \in Conexiones : snd[s].con = c => Conversacion(s, c)

Base == TipoRed /\ TiposPublisher /\ TiposXml /\ Libres /\ UnDueno

LEMMA BaseInicial == InitPublicacion => Base /\ Conversaciones
<1> SUFFICES ASSUME InitPublicacion PROVE Base /\ Conversaciones
  OBVIOUS
<1> USE DEF InitPublicacion, Init, Servidor!InitXml
<1>0. \A u : ~ Esta(u, <<>>)
  BY DEF Esta
<1>1. TipoRed /\ \A c \in Conexiones : con[c] = ConexionLibre
  <2>1. ConexionLibre \in Conexion
    BY DEF ConexionLibre, Conexion, Estados
  <2>2. QED
    BY <2>1 DEF TipoRed
<1>2. /\ SndInicial \in Sender /\ EnSuLugar(SndInicial)
      /\ SndInicial.con = NoConexion
  BY PaginaVacia, MismaRed DEF Sender, SndInicial, PcSender, EnSuLugar,
     EnConversacion, ConNoticia
<1>3. TiposPublisher
  <2>1. hora \in Ids
    BY PublisherAssumption DEF Ids
  <2>2. pub \in Cliente /\ pub.pc = "ingreso" /\ pub.cache = SinPagina
    BY PaginaVacia DEF PubInicial, Cliente, PcCliente
  <2>3. QED
    BY <1>2, <2>1, <2>2, PaginaVacia DEF TiposPublisher
<1>4. TiposXml
  <2>1. \A t \in Hilos : hilos[t] = Servidor!HiloLibre
    OBVIOUS
  <2>2. backlog \in Seq(Conexiones) /\ cola \in Seq(Cuerpos)
    OBVIOUS
  <2>3. QED
    BY <2>1, <2>2, CuerposDe, MismaRed DEF TiposXml
<1>5. Libres /\ UnDueno /\ Conversaciones
  <2>1. /\ \A s \in Senders : snd[s].con \notin Conexiones
        /\ \A t \in Hilos : hilos[t].con \notin Conexiones
        /\ stParameters \notin Conexiones
    BY <1>2, MismaRed DEF Servidor!HiloLibre
  <2>2. \A c \in Conexiones : con[c].aServidor = <<>> /\ con[c].aPublisher = <<>>
    BY <1>1 DEF ConexionLibre
  <2>3. QED
    BY <1>0, <2>1, <2>2 DEF Libres, UnDueno, Conversaciones
<1>6. QED
  BY <1>1, <1>3, <1>4, <1>5 DEF Base

LEMMA PasoConversaciones ==
  ASSUME Base, Conversaciones, [NextPublicacion]_varsPublicacion
  PROVE  Base' /\ Conversaciones'
<1> USE DEF Base
<1>1. CASE PasoXml
  <2>0. TiposXml' /\ EfectoXml /\ UNCHANGED pubVars
    BY <1>1, XmlEfecto DEF PasoXml
  <2>1. /\ UNCHANGED <<hora, archivo, pub, snd, publicadas>> /\ TipoRed'
    BY <2>0 DEF pubVars, EfectoXml, TipoRed
  <2>2. TiposPublisher' /\ UnDueno'
    BY <2>1 DEF TiposPublisher, EnSuLugar, UnDueno
  <2>3. Libres'
    BY <2>0, <2>1 DEF EfectoXml, Libres
  <2>4. ASSUME NEW s \in Senders, NEW c \in Conexiones, snd[s].con = c
        PROVE  Conversacion(s, c)'
    <3>0. Conversacion(s, c)
      BY <2>4 DEF Conversaciones
    <3>1. Suyo(s)' = Suyo(s) /\ (Enviada(s)' <=> Enviada(s))
      BY <2>1 DEF Suyo, Enviada
    <3>2. \A m \in MensajesPub : Esta(Xml(m), con'[c].aServidor)
                                 => Enviada(s) /\ m = Suyo(s)
      BY <2>0, <3>0 DEF EfectoXml, Conversacion
    <3>3. ASSUME NEW t \in Hilos, hilos'[t].con = c,
                 hilos'[t].payload # Servidor!Basura
          PROVE  Enviada(s) /\ hilos'[t].payload = Servidor!XmlDe(Suyo(s))
      <4>1. /\ hilos[t].con = c
            /\ \/ hilos'[t].payload = hilos[t].payload
               \/ \E m \in MensajesPub : /\ Esta(Xml(m), con[c].aServidor)
                                        /\ hilos'[t].payload = Servidor!XmlDe(m)
        BY <2>0, <3>3 DEF EfectoXml
      <4>2. QED
        BY <3>0, <3>3, <4>1 DEF Conversacion
    <3>4. ASSUME Esta("RequestOK", con'[c].aPublisher)
          PROVE  Enviada(s) /\ Servidor!XmlDe(Suyo(s)) \in confirmadas'
      <4>1. CASE Esta("RequestOK", con[c].aPublisher)
        BY <2>0, <3>0, <4>1 DEF EfectoXml, Conversacion
      <4>2. ASSUME NEW t \in Hilos, hilos[t].con = c,
                   hilos[t].payload # Servidor!Basura,
                   hilos[t].payload \in confirmadas'
            PROVE  Enviada(s) /\ Servidor!XmlDe(Suyo(s)) \in confirmadas'
        <5>1. Enviada(s) /\ hilos[t].payload = Servidor!XmlDe(Suyo(s))
          BY <3>0, <4>2 DEF Conversacion
        <5>2. QED
          BY <4>2, <5>1
      <4>3. QED
        BY <2>0, <3>4, <4>1, <4>2 DEF EfectoXml
    <3>5. QED
      BY <3>1, <3>2, <3>3, <3>4 DEF Conversacion
  <2>5. Conversaciones'
    BY <2>1, <2>4 DEF Conversaciones
  <2>6. QED
    BY <2>0, <2>1, <2>2, <2>3, <2>5
<1>2. CASE PasoPublisher
  <2>0. /\ TipoRed' /\ TiposPublisher' /\ TiposXml'
        /\ EfectoPublisher /\ UNCHANGED soloXml
    BY <1>2, PublisherEfecto
  <2>1. UNCHANGED <<mainXml, stParameters, hilos, confirmadas>>
    BY <2>0 DEF soloXml
  <2>2. Libres'
    BY <2>0, <2>1 DEF EfectoPublisher, Libres
  <2>3. UnDueno'
    <3> SUFFICES ASSUME NEW s \in Senders, NEW r \in Senders,
                        NEW c \in Conexiones, snd'[s].con = c, snd'[r].con = c
                 PROVE  s = r
      BY DEF UnDueno
    <3>1. (snd[s].con = c \/ Abre(s, c)) /\ (snd[r].con = c \/ Abre(r, c))
      BY <2>0 DEF EfectoPublisher
    <3>2. CASE Abre(s, c) \/ Abre(r, c)
      BY <3>2 DEF Abre
    <3>3. CASE snd[s].con = c /\ snd[r].con = c
      BY <3>3 DEF UnDueno
    <3>4. QED
      BY <3>1, <3>2, <3>3
  <2>4. ASSUME NEW s \in Senders, NEW c \in Conexiones, snd'[s].con = c
        PROVE  Conversacion(s, c)'
    <3>1. CASE snd[s].con = c /\ Sigue(s, c)
      <4>1. Conversacion(s, c)
        BY <3>1 DEF Conversaciones
      <4>2. Suyo(s)' = Suyo(s) /\ (Enviada(s)' <=> Enviada(s)) /\ con'[c] = con[c]
        BY <3>1 DEF Sigue, Suyo, Enviada
      <4>3. QED
        BY <2>1, <4>1, <4>2 DEF Conversacion
    <3>2. CASE snd[s].con = c /\ Avanza(s, c)
      <4>1. Conversacion(s, c)
        BY <3>2 DEF Conversaciones
      <4>2. /\ \A m \in MensajesPub : ~ Esta(Xml(m), con[c].aServidor)
            /\ \A t \in Hilos : hilos[t].con = c => hilos[t].payload = Servidor!Basura
            /\ ~ Esta("RequestOK", con[c].aPublisher)
        BY <3>2, <4>1 DEF Avanza, Conversacion
      <4>3. /\ ~ Esta("RequestOK", con'[c].aPublisher)
            /\ \A m \in MensajesPub : Esta(Xml(m), con'[c].aServidor)
                                       => Enviada(s)' /\ m = Suyo(s)'
        BY <3>2, <4>2 DEF Avanza
      <4>4. QED
        BY <2>1, <4>2, <4>3 DEF Conversacion
    <3>3. CASE Abre(s, c)
      <4>1. \A t \in Hilos : hilos[t].con # c
        BY <3>3 DEF Abre, Libres
      <4>2. QED
        BY <2>1, <3>3, <4>1 DEF Abre, Conversacion
    <3>4. QED
      BY <2>0, <2>4, <3>1, <3>2, <3>3 DEF EfectoPublisher
  <2>5. Conversaciones'
    BY <2>4 DEF Conversaciones
  <2>6. QED
    BY <2>0, <2>2, <2>3, <2>5
<1>3. CASE UNCHANGED varsPublicacion
  <2>1. UNCHANGED <<hora, archivo, pub, snd, con, backlog, publicadas, mainXml,
                    stParameters, hilos, cola, confirmadas>>
    BY <1>3 DEF varsPublicacion, vars, pubVars, redVars, soloXml
  <2>2. QED
    BY <2>1 DEF TipoRed, TiposPublisher, EnSuLugar, TiposXml, Ubicado, Libres,
                UnDueno, Conversaciones, Conversacion, Enviada, Suyo
<1>4. QED
  BY <1>1, <1>2, <1>3 DEF NextPublicacion

-----------------------------------------------------------------------------
(* Pages, and what travels.                                                *)

DePublicada(b) == \E m \in Enviables : b = Servidor!XmlDe(m)

LEMMA EnviablesCrecen ==
  /\ publicadas \subseteq publicadas' => Enviables \subseteq Enviables'
  /\ publicadas' = publicadas => Enviables' = Enviables
BY DEF Enviables

\* The XML of article n stored under ID i.
XmlDel(i, n) == Servidor!XmlDe(Mensaje(i, n))

\* Every XML on a connection or in a thread is of an article some closeDb wrote.
EnViajePublicado ==
  /\ \A c \in Conexiones, m \in MensajesPub :
       Esta(Xml(m), con[c].aServidor) => m \in Enviables
  /\ \A t \in Hilos :
       hilos[t].payload # Servidor!Basura => DePublicada(hilos[t].payload)

\* The articles of a page were stored as they are on it, and the ones marked
\* as transmitted were acknowledged.
PaginaBien(p) ==
  \A i \in DOMAIN p :
    /\ Mensaje(i, p[i].noticia) \in Enviables
    /\ p[i].transmitted = "1" => XmlDel(i, p[i].noticia) \in confirmadas

\* The page of the client thread holds, besides, the article it is storing.
PaginaDelCliente ==
  LET p == pub.cache.pagina
  IN \A i \in DOMAIN p :
       /\ \/ Mensaje(i, p[i].noticia) \in Enviables
          \/ pub.cache.sucia /\ i = pub.id /\ p[i].noticia = pub.noticia
       /\ p[i].transmitted = "1" => XmlDel(i, p[i].noticia) \in confirmadas

PaginasBien ==
  /\ PaginaBien(archivo)
  /\ PaginaDelCliente
  /\ \A s \in Senders :
       /\ PaginaBien(snd[s].cache.pagina)
       /\ snd[s].pc = "put" => Servidor!XmlDe(Suyo(s)) \in confirmadas

\* Where a sender's page comes from, and the file's.
LEMMA SenderPaginas ==
  ASSUME Base, NEW s \in Senders, IniciarSender(s) \/ HiloSender(s)
  PROVE  /\ \A r \in Senders : r # s => snd'[r] = snd[r]
         /\ archivo' \in {archivo, snd[s].cache.pagina}
         /\ UNCHANGED <<pub, publicadas>>
         /\ \/ snd'[s].cache.pagina \in {snd[s].cache.pagina, archivo, <<>>}
            \/ /\ snd[s].pc = "put" /\ snd[s].key \in DOMAIN snd[s].cache.pagina
               /\ snd'[s].cache.pagina =
                    [snd[s].cache.pagina EXCEPT ![snd[s].key].transmitted = "1"]
         /\ snd'[s].pc = "put" =>
              /\ snd[s].pc = "recvRespuesta" /\ snd[s].con \in Conexiones
              /\ Suyo(s)' = Suyo(s)
              /\ Esta("RequestOK", con[snd[s].con].aPublisher)
<1>0. /\ snd[s] \in Sender /\ EnSuLugar(snd[s]) /\ snd \in [Senders -> Sender]
      /\ snd[s].cache \in Cache /\ con \in [Conexiones -> Conexion]
  BY DEF Base, TiposPublisher, TipoRed, Sender
<1>1. /\ \A r \in Senders : r # s => snd'[r] = snd[r]
      /\ archivo' \in {archivo, snd[s].cache.pagina}
      /\ UNCHANGED <<pub, publicadas>>
  BY <1>0 DEF IniciarSender, HiloSender, SiguienteNoticia, Connect, RecvHandshake,
     SendXml, RecvRespuesta, PutTransmitted, CerrarSender
<1>2. CASE IniciarSender(s) \/ CerrarSender(s)
  <2>1. snd'[s].cache.pagina = <<>> /\ snd'[s].pc # "put"
    BY <1>0, <1>2 DEF IniciarSender, CerrarSender, SndInicial, SinPagina
  <2>2. QED
    BY <1>1, <2>1
<1>3. CASE SiguienteNoticia(s)
  <2>1. snd'[s].cache.pagina = Pagina(snd[s].cache) /\ snd'[s].pc # "put"
    <3> DEFINE p == Pagina(snd[s].cache)
               leida == [snd[s].cache EXCEPT !.leida = TRUE, !.pagina = p]
    <3>1. leida.pagina = p
      BY <1>0 DEF Cache
    <3>2. \/ snd' = [snd EXCEPT ![s].pc = "closeDb", ![s].cache = leida]
          \/ \E i \in DOMAIN p, pc \in {"connect", "c_get"} :
               snd' = [snd EXCEPT ![s].key = i, ![s].cache = leida, ![s].pc = pc]
      BY <1>3 DEF SiguienteNoticia, Siguientes
    <3> HIDE DEF leida
    <3>3. snd'[s].cache = leida /\ snd'[s].pc \in {"closeDb", "connect", "c_get"}
      <4>1. CASE snd' = [snd EXCEPT ![s].pc = "closeDb", ![s].cache = leida]
        BY <1>0, <4>1 DEF Sender
      <4>2. ASSUME NEW i, NEW pc \in {"connect", "c_get"},
                   snd' = [snd EXCEPT ![s].key = i, ![s].cache = leida, ![s].pc = pc]
            PROVE  snd'[s].cache = leida /\ snd'[s].pc = pc
        BY <1>0, <4>2 DEF Sender
      <4>3. QED
        BY <3>2, <4>1, <4>2
    <3>4. QED
      BY <3>1, <3>3
  <2>2. Pagina(snd[s].cache) \in {snd[s].cache.pagina, archivo}
    BY DEF Pagina
  <2>3. QED
    BY <1>1, <2>1, <2>2
<1>4. CASE Connect(s) \/ RecvHandshake(s) \/ SendXml(s)
  <2>1. snd'[s].cache = snd[s].cache /\ snd'[s].pc # "put"
    <3>1. CASE Connect(s)
      <4>1. ASSUME NEW c, snd' = [snd EXCEPT ![s].pc = "recvHandshake", ![s].con = c]
            PROVE  snd'[s].cache = snd[s].cache /\ snd'[s].pc = "recvHandshake"
        BY <1>0, <4>1 DEF Sender
      <4>2. CASE snd' = [snd EXCEPT ![s].pc = "c_get", ![s].con = NoConexion]
        BY <1>0, <4>2 DEF Sender
      <4>3. \/ \E c \in Conexiones :
                 snd' = [snd EXCEPT ![s].pc = "recvHandshake", ![s].con = c]
            \/ snd' = [snd EXCEPT ![s].pc = "c_get", ![s].con = NoConexion]
        BY <3>1 DEF Connect
      <4>4. QED
        BY <4>1, <4>2, <4>3
    <3>2. CASE RecvHandshake(s)
      <4>1. \/ snd' = [snd EXCEPT ![s].pc = "c_get", ![s].con = NoConexion]
            \/ snd' = [snd EXCEPT ![s].pc = "sendXml"]
        BY <3>2 DEF RecvHandshake
      <4>2. QED
        BY <1>0, <4>1 DEF Sender
    <3>3. CASE SendXml(s)
      <4>1. \/ snd' = [snd EXCEPT ![s].pc = "c_get", ![s].con = NoConexion]
            \/ snd' = [snd EXCEPT ![s].pc = "recvRespuesta"]
        BY <3>3 DEF SendXml
      <4>2. QED
        BY <1>0, <4>1 DEF Sender
    <3>4. QED
      BY <1>4, <3>1, <3>2, <3>3
  <2>2. QED
    BY <1>1, <2>1
<1>5. CASE RecvRespuesta(s)
  <2>1. PICK r \in LeidoPorPublisher(con[snd[s].con]) :
          snd' = [snd EXCEPT ![s].con = NoConexion,
                   ![s].pc = IF EsRequestOK(r) THEN "put" ELSE "c_get"]
    BY <1>5 DEF RecvRespuesta
  <2>2. snd'[s].cache = snd[s].cache /\ snd'[s].key = snd[s].key
    BY <1>0, <2>1 DEF Sender
  <2>3. snd[s].pc = "recvRespuesta" /\ snd[s].con \in Conexiones
    BY <1>0, <1>5 DEF RecvRespuesta, EnSuLugar, EnConversacion
  <2>4. snd'[s].pc = "put" => r = "RequestOK"
    BY <1>0, <2>1 DEF EsRequestOK, Sender
  <2>5. r = "cierre" \/ Esta(r, con[snd[s].con].aPublisher)
    BY <1>0, <2>1, <2>3, RedDelPublisher
  <2>6. QED
    BY <1>1, <2>2, <2>3, <2>4, <2>5 DEF Suyo
<1>6. CASE PutTransmitted(s)
  <2>1. /\ snd[s].pc = "put" /\ snd[s].key \in DOMAIN snd[s].cache.pagina
        /\ snd'[s].pc # "put"
    BY <1>0, <1>6 DEF PutTransmitted, EnSuLugar, EnConversacion, ConNoticia, Sender
  <2>2. snd'[s].cache.pagina =
          [snd[s].cache.pagina EXCEPT ![snd[s].key].transmitted = "1"]
    BY <1>0, <1>6 DEF PutTransmitted, Sender, Cache
  <2>3. QED
    BY <1>1, <2>1, <2>2
<1>7. QED
  BY <1>2, <1>3, <1>4, <1>5, <1>6 DEF HiloSender

LEMMA PasoPaginas ==
  ASSUME Base, Conversaciones, PaginasBien, PasoPublisher
  PROVE  PaginasBien'
<1>0. /\ confirmadas' = confirmadas
      /\ \A s \in Senders : snd[s].cache.pagina \in Paginas
      /\ archivo \in Paginas /\ pub \in Cliente /\ pub.cache \in Cache
      /\ pub.cache.pagina \in Paginas
  BY DEF PasoPublisher, soloXml, Base, TiposPublisher, Sender, Cache, Cliente
<1>1. ASSUME NEW s \in Senders, IniciarSender(s) \/ HiloSender(s)
      PROVE  PaginasBien'
  <2>1. /\ \A r \in Senders : r # s => snd'[r] = snd[r]
        /\ archivo' \in {archivo, snd[s].cache.pagina}
        /\ UNCHANGED <<pub, Enviables>>
    BY <1>1, SenderPaginas, EnviablesCrecen
  <2>2. \/ snd'[s].cache.pagina \in {snd[s].cache.pagina, archivo, <<>>}
        \/ /\ snd[s].pc = "put" /\ snd[s].key \in DOMAIN snd[s].cache.pagina
           /\ snd'[s].cache.pagina =
                [snd[s].cache.pagina EXCEPT ![snd[s].key].transmitted = "1"]
    BY <1>1, SenderPaginas
  <2>3. snd'[s].pc = "put" =>
          /\ snd[s].pc = "recvRespuesta" /\ snd[s].con \in Conexiones
          /\ Suyo(s)' = Suyo(s)
          /\ Esta("RequestOK", con[snd[s].con].aPublisher)
    BY <1>1, SenderPaginas
  <2>4. PaginaBien(archivo)'
    BY <1>0, <2>1 DEF PaginasBien, PaginaBien
  <2>5. PaginaDelCliente'
    BY <1>0, <2>1 DEF PaginasBien, PaginaDelCliente
  <2>6. PaginaBien(snd[s].cache.pagina)'
    <3>1. CASE snd'[s].cache.pagina \in {snd[s].cache.pagina, archivo}
      BY <1>0, <2>1, <3>1 DEF PaginasBien, PaginaBien
    <3>2. CASE snd'[s].cache.pagina = <<>>
      BY <3>2 DEF PaginaBien
    <3>3. CASE /\ snd[s].pc = "put" /\ snd[s].key \in DOMAIN snd[s].cache.pagina
               /\ snd'[s].cache.pagina =
                    [snd[s].cache.pagina EXCEPT ![snd[s].key].transmitted = "1"]
      <4> DEFINE p == snd[s].cache.pagina
                 k == snd[s].key
                 q == [p EXCEPT ![k].transmitted = "1"]
      <4>1. /\ DOMAIN q = DOMAIN p
            /\ \A i \in DOMAIN p : q[i].noticia = p[i].noticia
            /\ \A i \in DOMAIN p : i # k => q[i] = p[i]
        BY <1>0, <3>3, PaginaMarcada
      <4>2. PaginaBien(p) /\ XmlDel(k, p[k].noticia) \in confirmadas
        BY <3>3 DEF PaginasBien, Suyo, XmlDel
      <4>3. snd'[s].cache.pagina = q
        BY <3>3
      <4> HIDE DEF p, k, q
      <4>4. \A i \in DOMAIN q :
              /\ Mensaje(i, q[i].noticia) \in Enviables
              /\ q[i].transmitted = "1" => XmlDel(i, q[i].noticia) \in confirmadas
        BY <4>1, <4>2 DEF PaginaBien
      <4>5. QED
        BY <1>0, <2>1, <4>3, <4>4 DEF PaginaBien
    <3>4. QED
      BY <2>2, <3>1, <3>2, <3>3
  <2>7. snd'[s].pc = "put" => Servidor!XmlDe(Suyo(s)') \in confirmadas
    <3> SUFFICES ASSUME snd'[s].pc = "put" PROVE Servidor!XmlDe(Suyo(s)) \in confirmadas
      BY <2>3
    <3>1. Conversacion(s, snd[s].con)
      BY <2>3 DEF Conversaciones
    <3>2. QED
      BY <2>3, <3>1 DEF Conversacion
  <2>8. \A r \in Senders : r # s =>
          /\ PaginaBien(snd[r].cache.pagina)'
          /\ snd'[r].pc = "put" => Servidor!XmlDe(Suyo(r)') \in confirmadas
    BY <1>0, <2>1 DEF PaginasBien, PaginaBien, Suyo
  <2>9. QED
    BY <1>0, <2>4, <2>5, <2>6, <2>7, <2>8 DEF PaginasBien
<1>2. ASSUME Enviables \subseteq Enviables', snd' = snd
      PROVE  \A s \in Senders :
               /\ PaginaBien(snd[s].cache.pagina)'
               /\ snd'[s].pc = "put" => Servidor!XmlDe(Suyo(s)') \in confirmadas'
  BY <1>0, <1>2 DEF PaginasBien, PaginaBien, Suyo
<1>3. CASE PasaUnSegundo
  <2>1. UNCHANGED <<archivo, pub, snd, Enviables>>
    BY <1>3, EnviablesCrecen DEF PasaUnSegundo
  <2>2. QED
    BY <1>0, <1>2, <2>1 DEF PaginasBien, PaginaBien, PaginaDelCliente
<1>4. CASE \/ \E n \in Noticias : Ingresar(n)
           \/ CreateDbYGenerateNewID \/ OtraNoticia
  <2>1. /\ UNCHANGED <<archivo, snd, Enviables>> /\ pub'.cache = SinPagina
    BY <1>0, <1>4, EnviablesCrecen DEF Ingresar, CreateDbYGenerateNewID, OtraNoticia, PubInicial,
       Cliente, Base, TiposPublisher
  <2>2. PaginaDelCliente'
    BY <2>1 DEF PaginaDelCliente, SinPagina
  <2>3. QED
    BY <1>0, <1>2, <2>1, <2>2 DEF PaginasBien, PaginaBien
<1>5. CASE PutArticle
  <2> DEFINE p == Pagina(pub.cache)
             q == [i \in DOMAIN p \cup {pub.id} |->
                     IF i = pub.id THEN Nuevo(pub.noticia) ELSE p[i]]
  <2>1. UNCHANGED <<archivo, snd, Enviables>> /\ pub.cache = SinPagina
    BY <1>5, EnviablesCrecen DEF PutArticle, Base, TiposPublisher
  <2>2. p = archivo
    BY <2>1 DEF Pagina, SinPagina
  <2>3. /\ pub'.id = pub.id /\ pub'.noticia = pub.noticia
        /\ \/ pub'.cache.pagina = p
           \/ pub'.cache.pagina = q /\ pub'.cache.sucia
    <3> HIDE DEF p, q
    <3>1. pub' = [pub EXCEPT !.pc = "closeDb",
                   !.cache = IF pub.id \in DOMAIN p
                             THEN [leida |-> TRUE, sucia |-> FALSE, pagina |-> p]
                             ELSE [leida |-> TRUE, sucia |-> TRUE, pagina |-> q]]
      BY <1>5 DEF PutArticle, p, q
    <3>2. QED
      BY <1>0, <3>1 DEF Cliente
  <2>4. /\ DOMAIN q = DOMAIN p \cup {pub.id}
        /\ \A i \in DOMAIN q : i # pub.id => q[i] = p[i]
        /\ q[pub.id] = [noticia |-> pub.noticia, transmitted |-> "0"]
    BY DEF Nuevo
  <2> HIDE DEF p, q
  <2>5. PaginaBien(p)
    BY <2>2 DEF PaginasBien
  <2>6. PaginaDelCliente'
    <3>1. CASE pub'.cache.pagina = p
      BY <1>0, <2>1, <2>5, <3>1 DEF PaginaDelCliente, PaginaBien
    <3>2. CASE pub'.cache.pagina = q /\ pub'.cache.sucia
      <4>1. ASSUME NEW i \in DOMAIN q
            PROVE  /\ \/ Mensaje(i, q[i].noticia) \in Enviables
                      \/ i = pub.id /\ q[i].noticia = pub.noticia
                   /\ q[i].transmitted = "1" => XmlDel(i, q[i].noticia) \in confirmadas
        BY <2>4, <2>5 DEF PaginaBien
      <4>2. QED
        BY <1>0, <2>1, <2>3, <3>2, <4>1 DEF PaginaDelCliente
    <3>3. QED
      BY <2>3, <3>1, <3>2
  <2>7. QED
    BY <1>0, <1>2, <2>1, <2>6 DEF PaginasBien, PaginaBien
<1>6. CASE CloseDb
  <2>1. /\ snd' = snd /\ pub'.cache = SinPagina
        /\ archivo' = IF pub.cache.sucia THEN pub.cache.pagina ELSE archivo
        /\ publicadas' =
             IF pub.cache.sucia
             THEN publicadas \cup {[id |-> pub.id, noticia |-> pub.noticia]}
             ELSE publicadas
    BY <1>0, <1>6 DEF CloseDb, Cliente
  <2>2. PaginaDelCliente'
    BY <2>1 DEF PaginaDelCliente, SinPagina
  <2>3. Enviables \subseteq Enviables'
    BY <2>1, EnviablesCrecen
  <2>4. PaginaBien(archivo)'
    <3>1. CASE pub.cache.sucia
      <4>1. archivo' = pub.cache.pagina
        BY <2>1, <3>1
      <4>2. Mensaje(pub.id, pub.noticia) \in Enviables'
        <5> DEFINE a == [id |-> pub.id, noticia |-> pub.noticia]
        <5>1. a \in publicadas' /\ a.id = pub.id /\ a.noticia = pub.noticia
          BY <2>1, <3>1
        <5> HIDE DEF a
        <5>2. QED
          BY <5>1 DEF Enviables
      <4>3. QED
        BY <1>0, <2>3, <4>1, <4>2 DEF PaginasBien, PaginaDelCliente, PaginaBien
    <3>2. CASE ~ pub.cache.sucia
      BY <1>0, <2>1, <2>3, <3>2 DEF PaginasBien, PaginaBien
    <3>3. QED
      BY <3>1, <3>2
  <2>5. QED
    BY <1>0, <1>2, <2>1, <2>2, <2>3, <2>4 DEF PaginasBien
<1>7. CASE CaidaPublisher
  <2>1. /\ UNCHANGED <<archivo, Enviables>> /\ pub'.cache = SinPagina
        /\ \A s \in Senders : snd'[s] = SndInicial
    BY <1>7, EnviablesCrecen DEF CaidaPublisher, PubInicial
  <2>2. /\ SndInicial.cache.pagina = <<>> /\ SndInicial.pc # "put"
        /\ SinPagina.pagina = <<>>
    BY DEF SndInicial, SinPagina
  <2>3. QED
    BY <1>0, <2>1, <2>2 DEF PaginasBien, PaginaBien, PaginaDelCliente
<1>8. QED
  BY <1>1, <1>3, <1>4, <1>5, <1>6, <1>7
     DEF PasoPublisher, SistemaPublisher, HiloCliente

\* XMLNewsPS does not touch the pages, and its acknowledgements only grow.
LEMMA PaginasAjenas ==
  ASSUME PaginasBien, UNCHANGED <<archivo, pub, snd, Enviables>>,
         confirmadas \subseteq confirmadas'
  PROVE  PaginasBien'
BY DEF PaginasBien, PaginaBien, PaginaDelCliente, Suyo

LEMMA PasoEnViaje ==
  ASSUME Base, EnViajePublicado, PaginasBien, [NextPublicacion]_varsPublicacion
  PROVE  EnViajePublicado'
<1> USE DEF Base
<1>1. CASE PasoXml
  <2>0. TiposXml' /\ EfectoXml /\ Enviables' = Enviables
    BY <1>1, XmlEfecto, EnviablesCrecen DEF PasoXml, pubVars
  <2>1. \A c \in Conexiones, m \in MensajesPub :
          Esta(Xml(m), con'[c].aServidor) => m \in Enviables
    BY <2>0 DEF EfectoXml, EnViajePublicado
  <2>2. ASSUME NEW t \in Hilos, hilos'[t].payload # Servidor!Basura
        PROVE  \E m \in Enviables : hilos'[t].payload = Servidor!XmlDe(m)
    <3>1. /\ hilos'[t].con = hilos[t].con
          /\ \/ hilos'[t].payload = hilos[t].payload
             \/ \E m \in MensajesPub :
                  /\ Esta(Xml(m), con[hilos[t].con].aServidor)
                  /\ hilos'[t].payload = Servidor!XmlDe(m)
      BY <2>0, <2>2 DEF EfectoXml
    <3>2. hilos[t].con \in Conexiones
      BY <2>0, <2>2, <3>1 DEF TiposXml, Ubicado, Hilo
    <3>3. QED
      BY <2>2, <3>1, <3>2 DEF EnViajePublicado, DePublicada
  <2>3. QED
    BY <2>0, <2>1, <2>2 DEF EnViajePublicado, DePublicada
<1>2. CASE PasoPublisher
  <2>0. EfectoPublisher /\ hilos' = hilos /\ Enviables \subseteq Enviables'
    BY <1>2, PublisherEfecto, EnviablesCrecen DEF soloXml, EfectoPublisher
  <2>1. ASSUME NEW s \in Senders, snd[s].pc = "sendXml"
        PROVE  Suyo(s) \in Enviables
    <3>1. snd[s].key \in DOMAIN snd[s].cache.pagina
      BY <2>1 DEF TiposPublisher, EnSuLugar, EnConversacion, ConNoticia
    <3>2. QED
      BY <3>1 DEF PaginasBien, PaginaBien, Suyo
  <2>2. QED
    BY <2>0, <2>1 DEF EfectoPublisher, EnViajePublicado, DePublicada
<1>3. CASE UNCHANGED varsPublicacion
  <2>1. UNCHANGED <<con, hilos, Enviables>>
    BY <1>3, EnviablesCrecen DEF varsPublicacion, vars, pubVars, redVars, soloXml
  <2>2. QED
    BY <2>1 DEF EnViajePublicado, DePublicada
<1>4. QED
  BY <1>1, <1>2, <1>3 DEF NextPublicacion

Camino == Base /\ Conversaciones /\ PaginasBien /\ EnViajePublicado

LEMMA CaminoInicial == InitPublicacion => Camino
<1> SUFFICES ASSUME InitPublicacion PROVE Camino
  OBVIOUS
<1>1. PaginasBien
  <2>1. archivo = <<>> /\ pub.cache.pagina = <<>>
        /\ \A s \in Senders : snd[s] = SndInicial
    BY DEF InitPublicacion, Init, PubInicial, SinPagina
  <2>2. SndInicial.cache.pagina = <<>> /\ SndInicial.pc # "put"
    BY DEF SndInicial, SinPagina
  <2>3. QED
    BY <2>1, <2>2 DEF PaginasBien, PaginaBien, PaginaDelCliente
<1>2. EnViajePublicado
  <2>1. /\ \A c \in Conexiones : con[c].aServidor = <<>>
        /\ \A t \in Hilos : hilos[t].payload = Servidor!Basura
    BY DEF InitPublicacion, Init, ConexionLibre, Servidor!InitXml, Servidor!HiloLibre
  <2>2. QED
    BY <2>1 DEF EnViajePublicado, Esta
<1>3. QED
  BY <1>1, <1>2, BaseInicial DEF Camino

LEMMA PasoCamino ==
  ASSUME Camino, [NextPublicacion]_varsPublicacion
  PROVE  Camino'
<1> USE DEF Camino
<1>1. Base' /\ Conversaciones' /\ EnViajePublicado'
  BY PasoConversaciones, PasoEnViaje
<1>2. PaginasBien'
  <2>1. CASE PasoPublisher
    BY <2>1, PasoPaginas
  <2>2. CASE PasoXml
    <3>1. EfectoXml /\ UNCHANGED <<archivo, pub, snd, Enviables>>
      BY <2>2, XmlEfecto, EnviablesCrecen DEF PasoXml, Base, pubVars
    <3>2. QED
      BY <3>1, PaginasAjenas DEF EfectoXml
  <2>3. CASE UNCHANGED varsPublicacion
    <3>1. UNCHANGED <<archivo, pub, snd, Enviables, confirmadas>>
      BY <2>3, EnviablesCrecen DEF varsPublicacion, vars, pubVars, soloXml
    <3>2. QED
      BY <3>1, PaginasAjenas
  <2>4. QED
    BY <2>1, <2>2, <2>3 DEF NextPublicacion
<1>3. QED
  BY <1>1, <1>2

-----------------------------------------------------------------------------
(* The queue.                                                              *)

EnManoDe(n) == \E t \in Servidor!EnMano : hilos[t].payload = n

\* What a step of XMLNewsPS does to the queue: it only grows, with bodies of
\* its threads; an acknowledged article goes from the thread to the queue.
EfectoCola ==
  /\ perdidas \subseteq perdidas'
  /\ \A b : Esta(b, cola) => Esta(b, cola')
  /\ \A b : Esta(b, cola') =>
       \/ b = Servidor!Basura \/ Esta(b, cola)
       \/ \E t \in Hilos : b = hilos[t].payload
  /\ \A n : EnManoDe(n) =>
       EnManoDe(n)' \/ EnLaCola(n)' \/ n.noticia \in Largas \/ n \in perdidas'
  /\ \A n \in confirmadas' : n \in confirmadas \/ EnManoDe(n)'

LEMMA EnLaColaEs ==
  \A n : EnLaCola(n) <=> Esta(n, cola)
BY DEF EnLaCola, Esta

LEMMA XmlCola ==
  ASSUME Camino, PasoXml
  PROVE  EfectoCola
<1>0. /\ hilos \in [Hilos -> Hilo] /\ \A t \in Hilos : Ubicado(hilos[t])
      /\ cola \in Seq(Cuerpos)
  BY DEF Camino, Base, TiposXml
<1>1. CASE Servidor!Accept \/ Servidor!ArranqueXml
  <2>1. UNCHANGED <<hilos, cola, confirmadas, perdidas>>
    BY <1>1 DEF Servidor!Accept, Servidor!ArranqueXml, Servidor!procVars,
                Servidor!histVars
  <2>2. QED
    BY <2>1 DEF EfectoCola, EnManoDe, Servidor!EnMano, Servidor!Trae, EnLaCola
\* Threads other than t, and t if it was not about to enqueue, keep theirs.
<1>2. ASSUME NEW t \in Hilos, \A u \in Hilos : u # t => hilos'[u] = hilos[u],
             hilos[t].pc # "insertarMensaje", NEW n, EnManoDe(n)
      PROVE  EnManoDe(n)'
  BY <1>2 DEF EnManoDe, Servidor!EnMano, Servidor!Trae
<1>3. CASE Servidor!BeginThread
  <2>1. UNCHANGED <<cola, confirmadas, perdidas>>
    BY <1>3 DEF Servidor!BeginThread, Servidor!histVars
  <2>2. \A n : EnManoDe(n) => EnManoDe(n)'
    <3>1. CASE hilos' = hilos
      BY <3>1 DEF EnManoDe, Servidor!EnMano, Servidor!Trae
    <3>2. ASSUME NEW t \in Hilos, hilos[t].pc = "libre",
                 hilos' = [hilos EXCEPT ![t].pc = "copiar"]
          PROVE  \A n : EnManoDe(n) => EnManoDe(n)'
      BY <1>0, <1>2, <3>2
    <3>3. QED
      BY <1>3, <3>1, <3>2 DEF Servidor!BeginThread
  <2>3. QED
    BY <2>1, <2>2 DEF EfectoCola
<1>4. ASSUME NEW t \in Hilos,
             \/ Servidor!CopiarParametros(t) \/ Servidor!RecvHandshakeXml(t)
             \/ Servidor!RechazarHandshake(t) \/ Servidor!AceptarHandshake(t)
             \/ Servidor!RecvXml(t) \/ Servidor!ResponderXml(t)
      PROVE  EfectoCola
  <2>1. /\ UNCHANGED <<cola, perdidas>> /\ hilos[t].pc # "insertarMensaje"
        /\ \A u \in Hilos : u # t => hilos'[u] = hilos[u]
    BY <1>0, <1>4 DEF Servidor!CopiarParametros, Servidor!RecvHandshakeXml,
       Servidor!RechazarHandshake, Servidor!AceptarHandshake, Servidor!RecvXml,
       Servidor!ResponderXml, Servidor!histVars
  <2>2. \A n : EnManoDe(n) => EnManoDe(n)'
    BY <1>2, <2>1
  <2>3. ASSUME NEW n \in confirmadas', n \notin confirmadas
        PROVE  EnManoDe(n)'
    <3>1. /\ hilos[t].pc = "responderXml" /\ n = hilos[t].payload
          /\ hilos' = [hilos EXCEPT ![t].pc = "insertarMensaje"]
      BY <1>4, <2>3 DEF Servidor!CopiarParametros, Servidor!RecvHandshakeXml,
         Servidor!RechazarHandshake, Servidor!AceptarHandshake, Servidor!RecvXml,
         Servidor!ResponderXml, Servidor!histVars
    <3>2. hilos[t].payload # Servidor!Basura
      BY <1>0, <3>1 DEF Ubicado
    <3>3. hilos'[t].pc = "insertarMensaje" /\ hilos'[t].payload = hilos[t].payload
      BY <1>0, <3>1 DEF Hilo
    <3>4. QED
      BY <3>1, <3>2, <3>3 DEF EnManoDe, Servidor!EnMano, Servidor!Trae
  <2>4. QED
    BY <2>1, <2>2, <2>3 DEF EfectoCola
<1>5. ASSUME NEW t \in Hilos, Servidor!InsertarMensaje(t)
      PROVE  EfectoCola
  <2> DEFINE b == Servidor!Cuerpo(hilos[t].payload)
  <2>1. /\ cola' = Append(cola, b) /\ UNCHANGED <<confirmadas, perdidas>>
        /\ hilos[t].pc = "insertarMensaje"
        /\ hilos' = [hilos EXCEPT ![t] = Servidor!HiloLibre]
    BY <1>5 DEF Servidor!InsertarMensaje, Servidor!insertarMensaje
  <2>2. b \in Cuerpos /\ b \in {hilos[t].payload, Servidor!Basura}
    BY <1>0, CuerposDe DEF Hilo, Servidor!Cuerpo
  <2>3. hilos[t].payload # Servidor!Basura /\ hilos[t].payload.noticia \notin Largas
          => b = hilos[t].payload
    BY DEF Servidor!Cuerpo
  <2> HIDE DEF b
  <2>4. /\ Esta(b, cola')
        /\ \A x : Esta(x, cola) => Esta(x, cola')
        /\ \A x : Esta(x, cola') => x = b \/ Esta(x, cola)
    BY <1>0, <2>1, <2>2, EstaAppend
  <2>5. ASSUME NEW n, EnManoDe(n), n.noticia \notin Largas
        PROVE  EnManoDe(n)' \/ EnLaCola(n)'
    <3>1. PICK u \in Hilos : /\ hilos[u].pc = "insertarMensaje"
                            /\ hilos[u].payload # Servidor!Basura
                            /\ hilos[u].payload = n
      BY <2>5 DEF EnManoDe, Servidor!EnMano, Servidor!Trae
    <3>2. CASE u = t
      <4>1. b = n
        BY <2>3, <2>5, <3>1, <3>2
      <4>2. QED
        BY <2>4, <4>1 DEF EnLaCola, Esta
    <3>3. CASE u # t
      <4>1. hilos'[u] = hilos[u]
        BY <1>0, <2>1, <3>3
      <4>2. QED
        BY <3>1, <4>1 DEF EnManoDe, Servidor!EnMano, Servidor!Trae
    <3>4. QED
      BY <3>2, <3>3
  <2>6. QED
    BY <2>1, <2>2, <2>4, <2>5 DEF EfectoCola
<1>6. CASE Servidor!CaidaXml
  <2>1. /\ UNCHANGED <<cola, confirmadas>>
        /\ perdidas' = perdidas \cup {hilos[t].payload : t \in Servidor!EnMano}
    BY <1>6 DEF Servidor!CaidaXml
  <2>2. QED
    BY <2>1 DEF EfectoCola, EnManoDe
<1>7. QED
  BY <1>1, <1>3, <1>4, <1>5, <1>6
     DEF PasoXml, Servidor!SistemaXml, Servidor!HiloXml

ColaPublicada ==
  \A b : Esta(b, cola) => b = Servidor!Basura \/ DePublicada(b)

Llega ==
  \A n \in confirmadas \ perdidas : n.noticia \in Largas \/ EnLaCola(n) \/ EnManoDe(n)

\* What XMLNewsPS puts in the queue is of an article of the file.
LEMMA PasoColaPublicada ==
  ASSUME Camino, ColaPublicada, PasoXml
  PROVE  ColaPublicada'
<1>1. EfectoCola /\ Enviables' = Enviables
  BY XmlCola, EnviablesCrecen DEF PasoXml, pubVars
<1>2. QED
  BY <1>1 DEF EfectoCola, ColaPublicada, DePublicada, Camino, EnViajePublicado

LEMMA PublicacionInvariante ==
  SpecPublicacion => [](Camino /\ ColaPublicada /\ Llega)
<1>1. InitPublicacion => Camino /\ ColaPublicada /\ Llega
  <2> SUFFICES ASSUME InitPublicacion PROVE ColaPublicada /\ Llega
    BY CaminoInicial
  <2>1. cola = <<>> /\ confirmadas = {}
    BY DEF InitPublicacion, Servidor!InitXml
  <2>2. QED
    BY <2>1 DEF ColaPublicada, Llega, Esta
<1>2. Camino /\ ColaPublicada /\ Llega /\ [NextPublicacion]_varsPublicacion
        => (Camino /\ ColaPublicada /\ Llega)'
  <2> SUFFICES ASSUME Camino, ColaPublicada, Llega, [NextPublicacion]_varsPublicacion
               PROVE  ColaPublicada' /\ Llega'
    BY PasoCamino
  <2>1. CASE PasoXml
    <3>1. EfectoCola /\ ColaPublicada'
      BY <2>1, XmlCola, PasoColaPublicada
    <3>2. \A n : EnLaCola(n) => EnLaCola(n)'
      BY <3>1 DEF EfectoCola, EnLaCola, Esta
    <3>3. QED
      BY <3>1, <3>2 DEF EfectoCola, Llega
  <2>2. CASE PasoPublisher
    <3>1. /\ UNCHANGED <<hilos, cola, confirmadas, perdidas>>
          /\ Enviables \subseteq Enviables'
      BY <2>2, PublisherEfecto, EnviablesCrecen
         DEF soloXml, Camino, Base, EfectoPublisher
    <3>2. QED
      BY <3>1 DEF ColaPublicada, DePublicada, Llega, EnLaCola, EnManoDe,
                  Servidor!EnMano, Servidor!Trae
  <2>3. CASE UNCHANGED varsPublicacion
    <3>1. UNCHANGED <<hilos, cola, confirmadas, perdidas, Enviables>>
      BY <2>3, EnviablesCrecen DEF varsPublicacion, vars, pubVars, soloXml
    <3>2. QED
      BY <3>1 DEF ColaPublicada, DePublicada, Llega, EnLaCola, EnManoDe,
                  Servidor!EnMano, Servidor!Trae
  <2>4. QED
    BY <2>1, <2>2, <2>3 DEF NextPublicacion
<1>3. QED
  BY <1>1, <1>2, PTL DEF SpecPublicacion

-----------------------------------------------------------------------------
(* Type correctness of PublisherWin: pages, clocks, cursors and sockets.   *)
THEOREM TipoPublisherCorrecto == SpecPublicacion => []TypeOKPublisher
<1>1. Camino => TypeOKPublisher
  <2> SUFFICES ASSUME TiposPublisher PROVE TypeOKPublisher
    BY DEF Camino, Base
  <2>1. \A p \in Paginas : EsPagina(p)
    BY DEF Paginas, EsPagina
  <2>2. \A k \in Cache : EsCache(k)
    BY <2>1 DEF Cache, EsCache
  <2>3. pub.pc \in PcCliente /\ pub.cache \in Cache /\ pub.id \in Ids \cup {0}
        /\ pub.noticia \in Noticias \cup {NoNoticia}
    BY DEF TiposPublisher, Cliente
  <2>4. \A s \in Senders : /\ snd[s].pc \in PcSender /\ snd[s].key \in Ids \cup {0}
                          /\ snd[s].con \in Conexiones \cup {NoConexion}
                          /\ snd[s].cache \in Cache
    BY DEF TiposPublisher, Sender
  <2>5. hora \in Ids /\ archivo \in Paginas
    BY DEF TiposPublisher
  <2>6. QED
    BY <2>1, <2>2, <2>3, <2>4, <2>5 DEF TypeOKPublisher, PcCliente, PcSender
<1>2. QED
  BY <1>1, PublicacionInvariante, PTL

(* Every XML on a connection or in a thread, and every body of the queue   *)
(* that parses, is that of an article closeDb wrote: under the ID it was   *)
(* written with, and with what encoding() makes of the text it was written *)
(* with (berkeleyFunctions.c:199, xmlFunctions.c:34-59, 75-76, 196),       *)
(* however the handles of the client and sender threads overlap.           *)
THEOREM SoloLoPublicadoViaja == SpecPublicacion => []SoloLoPublicado
<1>1. Camino /\ ColaPublicada => SoloLoPublicado
  <2> SUFFICES ASSUME Camino, ColaPublicada PROVE SoloLoPublicado
    OBVIOUS
  <2>1. ASSUME NEW c \in Conexiones, NEW i \in DOMAIN con[c].aServidor,
               con[c].aServidor[i].tipo = "xml"
        PROVE  con[c].aServidor[i].noticia \in Enviables
    <3>1. con[c].aServidor[i] \in Unidades
      BY DEF Camino, Base, TipoRed, Conexion
    <3>2. PICK m \in MensajesPub : con[c].aServidor[i] = Xml(m)
      BY <2>1, <3>1, CuerposDe
    <3>3. m \in Enviables
      BY <3>2 DEF Camino, EnViajePublicado, Esta
    <3>4. QED
      BY <3>2, <3>3, CuerposDe
  <2>2. ASSUME NEW i \in DOMAIN cola, cola[i] # Servidor!Basura
        PROVE  \E m \in Enviables : cola[i] = Servidor!XmlDe(m)
    BY <2>2 DEF ColaPublicada, DePublicada, Esta
  <2>3. ASSUME NEW t \in Hilos, Servidor!Trae(t)
        PROVE  \E m \in Enviables : hilos[t].payload = Servidor!XmlDe(m)
    BY <2>3 DEF Camino, EnViajePublicado, DePublicada, Servidor!Trae
  <2>4. QED
    BY <2>1, <2>2, <2>3 DEF SoloLoPublicado
<1>2. QED
  BY <1>1, PublicacionInvariante, PTL

(* An article marked as transmitted in the file was acknowledged: no       *)
(* "RequestOK" meant for another article, connection or stage reaches the  *)
(* sender that marks (xmlFunctions.c:230-244, berkeleyFunctions.c:93-98).  *)
THEOREM MarcadaFueConfirmadaSiempre == SpecPublicacion => []MarcadaFueConfirmada
<1>1. Camino => MarcadaFueConfirmada
  BY DEF Camino, PaginasBien, PaginaBien, MarcadaFueConfirmada, Marcadas, XmlDel
<1>2. QED
  BY <1>1, PublicacionInvariante, PTL

(* So an article PublisherWin will never send again is in the queue or in  *)
(* the hands of a thread that is about to put it there, unless XMLNewsPS   *)
(* died holding it or its XML was longer than BUFFERSIZE.                  *)
THEOREM MarcadaLlegaSiempre == SpecPublicacion => []MarcadaLlega
<1>1. Camino /\ Llega => MarcadaLlega
  <2>1. Camino => Marcadas \subseteq confirmadas
    BY DEF Camino, PaginasBien, PaginaBien, Marcadas, XmlDel
  <2>2. QED
    BY <2>1 DEF Llega, MarcadaLlega, EnManoDe
<1>2. QED
  BY <1>1, PublicacionInvariante, PTL

-----------------------------------------------------------------------------
(* The message in the hands of NNTPProcessServer.                          *)

ManoPS ==
  /\ mano \in Cuerpos \cup {Proceso!NoMensaje}
  /\ pcPS = "reencolar" => mano \in Articulos
  /\ pcPS = "insertar" => mano \in Cuerpos
  /\ pcPS \notin {"insertar", "reencolar"} => mano = Proceso!NoMensaje
  /\ mano \in Articulos => DePublicada(mano)

\* An acknowledged article is accounted for.
Rastro(m) == EnCamino(m) \/ m \in rechazadas \cup perdidasPS

ConRastro ==
  /\ confirmadas \subseteq Articulos
  /\ \A m \in confirmadas \ perdidas : m.noticia \in Largas \/ Rastro(m)

LEMMA ValoresPS ==
  /\ Proceso!Basura = Servidor!Basura
  /\ Proceso!NoMensaje \notin Cuerpos
  /\ Servidor!Basura \notin Articulos
  /\ Cuerpos = Articulos \cup {Servidor!Basura}
  /\ \A m \in MensajesPosibles :
       /\ Servidor!XmlDe(m) \in Articulos /\ m.id # Prueba
       /\ Servidor!XmlDe(m).id = m.id /\ Servidor!XmlDe(m).grupo = m.grupo
       /\ Servidor!XmlDe(m).noticia = m.noticia
<1>1. MensajesPosibles = MensajesPub
  BY DEF MensajesPosibles, MensajesPub
<1>2. Cuerpos = Articulos \cup {Servidor!Basura}
  BY <1>1 DEF Cuerpos, Articulos
<1>3. \A m \in MensajesPosibles :
        /\ Servidor!XmlDe(m) \in Articulos /\ m.id \in Ids
        /\ Servidor!XmlDe(m).id = m.id /\ Servidor!XmlDe(m).grupo = m.grupo
        /\ Servidor!XmlDe(m).noticia = m.noticia
        /\ Servidor!XmlDe(m).tipo = "noticia"
  BY DEF Servidor!XmlDe, Articulos, MensajesPosibles, Mensaje
<1>4. \A b \in Articulos : b.tipo = "noticia"
  BY <1>3 DEF Articulos
<1>5. /\ Proceso!Basura = Servidor!Basura /\ Servidor!Basura.tipo = "basura"
      /\ Proceso!NoMensaje.tipo = "ninguno"
  BY DEF Proceso!Basura, Servidor!Basura, Proceso!NoMensaje
<1>6. QED
  BY <1>2, <1>3, <1>4, <1>5, PruebaFueraDeRango

\* What readers may find changes only when an article that was in hand is
\* stored, under an ID that was free: the three programs' probes come and go
\* apart.
Almacenada(m) ==
  /\ m.id \notin DOMAIN Tablero
  /\ Tablero' = [i \in DOMAIN Tablero \cup {m.id} |->
                   IF i = m.id THEN [grupo |-> m.grupo, noticia |-> m.noticia]
                               ELSE Tablero[i]]

LEMMA Sonda ==
  ASSUME NEW codigo, NEW e,
         \/ bd' = Proceso!TrasAdd(bd, codigo, Prueba, e)
         \/ bd' = Proceso!TrasDelete(bd, codigo, Prueba)
  PROVE  Tablero' = Tablero
<1>1. CASE bd' = bd
  BY <1>1 DEF Tablero
<1>2. CASE bd' = [i \in DOMAIN bd \cup {Prueba} |-> IF i = Prueba THEN e ELSE bd[i]]
  <2>1. DOMAIN bd' \ {Prueba} = DOMAIN bd \ {Prueba}
    BY <1>2
  <2>2. \A i \in DOMAIN bd \ {Prueba} : bd'[i] = bd[i]
    BY <1>2
  <2>3. QED
    BY <2>1, <2>2 DEF Tablero
<1>3. CASE bd' = [i \in DOMAIN bd \ {Prueba} |-> bd[i]]
  <2>1. DOMAIN bd' \ {Prueba} = DOMAIN bd \ {Prueba}
    BY <1>3
  <2>2. \A i \in DOMAIN bd \ {Prueba} : bd'[i] = bd[i]
    BY <1>3
  <2>3. QED
    BY <2>1, <2>2 DEF Tablero
<1>4. QED
  BY <1>1, <1>2, <1>3 DEF Proceso!TrasAdd, Proceso!TrasDelete

LEMMA Insercion ==
  ASSUME NEW m, m.id # Prueba, m.id \notin DOMAIN bd,
         bd' = [i \in DOMAIN bd \cup {m.id} |->
                  IF i = m.id THEN [grupo |-> m.grupo, noticia |-> m.noticia]
                              ELSE bd[i]]
  PROVE  Almacenada(m)
<1>1. DOMAIN bd' \ {Prueba} = (DOMAIN bd \ {Prueba}) \cup {m.id}
  OBVIOUS
<1>2. \A i \in DOMAIN bd \ {Prueba} : i # m.id /\ bd'[i] = bd[i]
  OBVIOUS
<1>3. bd'[m.id] = [grupo |-> m.grupo, noticia |-> m.noticia]
  OBVIOUS
<1>4. DOMAIN Tablero = DOMAIN bd \ {Prueba}
      /\ \A i \in DOMAIN bd \ {Prueba} : Tablero[i] = bd[i]
  BY DEF Tablero
<1>5. Tablero' = [i \in (DOMAIN bd \ {Prueba}) \cup {m.id} |-> bd'[i]]
  BY <1>1 DEF Tablero
<1>6. QED
  BY <1>2, <1>3, <1>4, <1>5 DEF Almacenada

-----------------------------------------------------------------------------
(* The steps of NNTPProcessServer and of OpenDS.                           *)

\* Before and after a step: a message stays in the queue or comes to hand; one
\* in hand stays, goes back, is stored, refused or lost with the process.
EfectoPS ==
  /\ cola' \in Seq(Cuerpos)
  /\ \A b : Esta(b, cola') => Esta(b, cola) \/ b = mano
  /\ mano' \in {mano, Proceso!NoMensaje} \/ Esta(mano', cola)
  /\ \A b : Esta(b, cola) => Esta(b, cola') \/ b = mano'
  /\ mano \in Articulos =>
       \/ mano' = mano \/ Esta(mano, cola')
       \/ mano \in rechazadas' \cup perdidasPS'
       \/ Almacenada(mano)
  /\ rechazadas \subseteq rechazadas' /\ perdidasPS \subseteq perdidasPS'
  /\ Tablero' = Tablero \/ (mano \in Articulos /\ Almacenada(mano))

LEMMA PasoPS ==
  ASSUME ManoPS, ColaPublicada, cola \in Seq(Cuerpos), PasoProceso
  PROVE  EfectoPS /\ ManoPS'
<1>0. Enviables' = Enviables
  BY EnviablesCrecen DEF PasoProceso, todoMenosCola, vars, pubVars
<1>1. ASSUME UNCHANGED <<mano, cola, rechazadas, perdidasPS>>, Tablero' = Tablero,
             \/ pcPS' \notin {"insertar", "reencolar"} /\ pcPS \notin {"insertar", "reencolar"}
             \/ pcPS' = pcPS
      PROVE  EfectoPS /\ ManoPS'
  BY <1>0, <1>1 DEF EfectoPS, ManoPS, DePublicada
\* The message in hand leaves it, for a reason, or stays to go back.
<1>2. ASSUME UNCHANGED <<cola>>, Tablero' = Tablero \/ (mano \in Articulos /\ Almacenada(mano)),
             \/ mano' = Proceso!NoMensaje /\ pcPS' \notin {"insertar", "reencolar"}
             \/ mano' = mano /\ mano \in Articulos /\ pcPS' = "reencolar",
             \/ mano' = mano \/ mano \notin Articulos \/ Almacenada(mano)
             \/ mano \in rechazadas' \cup perdidasPS',
             rechazadas \subseteq rechazadas', perdidasPS \subseteq perdidasPS'
      PROVE  EfectoPS /\ ManoPS'
  <2>1. EfectoPS
    BY <1>2 DEF EfectoPS
  <2>2. ManoPS'
    BY <1>0, <1>2, ValoresPS DEF ManoPS, DePublicada
  <2>3. QED
    BY <2>1, <2>2
<1>3. CASE \/ Proceso!Conectar \/ Proceso!BorrarPrueba
           \/ Proceso!Reconectar \/ Proceso!BorrarPruebaReconexion
  <2>1. /\ UNCHANGED <<mano, cola, rechazadas, perdidasPS>>
        /\ pcPS' \notin {"insertar", "reencolar"}
        /\ pcPS \notin {"insertar", "reencolar"}
    BY <1>3 DEF Proceso!Conectar, Proceso!BorrarPrueba, Proceso!Reconectar,
                Proceso!BorrarPruebaReconexion, Proceso!histPS
  <2>2. \E codigo, e : \/ bd' = Proceso!TrasAdd(bd, codigo, Prueba, e)
                       \/ bd' = Proceso!TrasDelete(bd, codigo, Prueba)
    BY <1>3 DEF Proceso!Conectar, Proceso!BorrarPrueba, Proceso!Reconectar,
                Proceso!BorrarPruebaReconexion
  <2>3. Tablero' = Tablero
    BY <2>2, Sonda
  <2>4. QED
    BY <1>1, <2>1, <2>3
<1>4. CASE Proceso!Despertar \/ Proceso!ArranquePS
  <2>1. /\ UNCHANGED <<cola, rechazadas, perdidasPS, bd>>
        /\ pcPS' \notin {"insertar", "reencolar"}
        /\ pcPS \notin {"insertar", "reencolar"}
        /\ mano' \in {mano, Proceso!NoMensaje}
    BY <1>4 DEF Proceso!Despertar, Proceso!ArranquePS, Proceso!histPS
  <2>2. mano' = mano /\ Tablero' = Tablero
    BY <2>1 DEF ManoPS, Tablero
  <2>3. QED
    BY <1>1, <2>1, <2>2
<1>5. CASE Proceso!Desencolar
  <2>1. UNCHANGED <<rechazadas, perdidasPS, bd>> /\ pcPS = "desencolar"
    BY <1>5 DEF Proceso!Desencolar, Proceso!histPS
  <2>2. mano = Proceso!NoMensaje /\ Tablero' = Tablero
    BY <2>1 DEF ManoPS, Tablero
  <2>3. CASE UNCHANGED <<mano, cola>> /\ pcPS' = "sleep"
    BY <1>1, <2>1, <2>2, <2>3
  <2>4. CASE cola # <<>> /\ mano' = Head(cola) /\ cola' = Tail(cola) /\ pcPS' = "insertar"
    <3>1. /\ mano' \in Cuerpos /\ cola' \in Seq(Cuerpos) /\ Esta(mano', cola)
          /\ \A b : Esta(b, cola') => Esta(b, cola)
          /\ \A b : Esta(b, cola) => b = mano' \/ Esta(b, cola')
      BY <2>4, EstaTail
    <3>2. EfectoPS
      BY <2>1, <2>2, <3>1, ValoresPS DEF EfectoPS
    <3>3. mano' \in Articulos => DePublicada(mano')
      BY <3>1, ValoresPS DEF ColaPublicada
    <3>4. ManoPS'
      BY <1>0, <2>4, <3>1, <3>3 DEF ManoPS, DePublicada
    <3>5. QED
      BY <3>2, <3>4
  <2>5. QED
    BY <1>5, <2>3, <2>4 DEF Proceso!Desencolar, Proceso!HayMensaje,
       Proceso!MensajeRecibido, Proceso!desencolarMensaje
<1>6. CASE Proceso!DescartarBasura
  BY <1>2, <1>6, ValoresPS DEF Proceso!DescartarBasura, Proceso!histPS, Tablero
<1>7. CASE Proceso!Insertar
  <2>1. mano \in Articulos
    BY <1>7, ValoresPS DEF Proceso!Insertar, ManoPS
  <2>2. mano.id # Prueba
    BY <2>1, ValoresPS DEF Articulos
  <2>3. PICK codigo \in Proceso!ResultadoInsertar :
          /\ bd' = Proceso!TrasAdd(bd, codigo, mano.id, Proceso!EntradaDe(mano))
          /\ rechazadas' = rechazadas \cup
               (IF codigo \in {Proceso!LDAP_BUSY, Proceso!LDAP_ALREADY_EXISTS}
                THEN {mano} ELSE {})
          /\ \/ mano' = mano /\ pcPS' = "reencolar"
             \/ /\ Proceso!ErrorCode(sesion.errorCode, codigo) # Proceso!LDAP_SERVER_DOWN
                /\ mano' = Proceso!NoMensaje
                /\ pcPS' = Proceso!TrasDevolver1(openDSEstaCaido)
    BY <1>7 DEF Proceso!Insertar
  <2>4. UNCHANGED <<cola, perdidasPS>> /\ rechazadas \subseteq rechazadas'
    BY <1>7, <2>3 DEF Proceso!Insertar
  <2>5. \/ codigo = Proceso!LDAP_SUCCESS /\ mano.id \notin DOMAIN bd
        \/ codigo \in {Proceso!LDAP_BUSY, Proceso!LDAP_ALREADY_EXISTS}
        \/ codigo = Proceso!LDAP_SERVER_DOWN
    BY DEF Proceso!ResultadoInsertar, Proceso!ResultadoAdd
  <2>6. \/ Almacenada(mano)
        \/ /\ Tablero' = Tablero
           /\ mano \in rechazadas' \/ mano' = mano
    <3>1. CASE codigo = Proceso!LDAP_SUCCESS /\ mano.id \notin DOMAIN bd
      BY <2>2, <2>3, <3>1, Insercion DEF Proceso!TrasAdd, Proceso!EntradaDe
    <3>2. CASE codigo \in {Proceso!LDAP_BUSY, Proceso!LDAP_ALREADY_EXISTS}
      BY <2>3, <3>2 DEF Proceso!TrasAdd, Proceso!LDAP_BUSY, Proceso!LDAP_SUCCESS,
         Proceso!LDAP_ALREADY_EXISTS, Tablero
    <3>3. CASE codigo = Proceso!LDAP_SERVER_DOWN
      BY <2>3, <3>3 DEF Proceso!TrasAdd, Proceso!ErrorCode, Proceso!LDAP_SUCCESS,
         Proceso!LDAP_SERVER_DOWN, Tablero
    <3>4. QED
      BY <2>5, <3>1, <3>2, <3>3
  <2>7. \/ mano' = mano /\ pcPS' = "reencolar"
        \/ mano' = Proceso!NoMensaje /\ pcPS' \notin {"insertar", "reencolar"}
    BY <2>3 DEF Proceso!TrasDevolver1
  <2>8. QED
    BY <1>2, <2>1, <2>4, <2>6, <2>7
<1>8. CASE Proceso!Reencolar
  <2>1. /\ UNCHANGED <<rechazadas, perdidasPS, bd>> /\ pcPS = "reencolar"
        /\ cola' = Append(cola, mano) /\ mano' = Proceso!NoMensaje
        /\ pcPS' \notin {"insertar", "reencolar"}
    BY <1>8 DEF Proceso!Reencolar, Proceso!histPS, Proceso!insertarMensaje,
                Proceso!TrasDevolver1
  <2>2. mano \in Cuerpos
    BY <2>1, ValoresPS DEF ManoPS
  <2>3. /\ cola' \in Seq(Cuerpos) /\ Esta(mano, cola')
        /\ \A b : Esta(b, cola) => Esta(b, cola')
        /\ \A b : Esta(b, cola') => b = mano \/ Esta(b, cola)
    BY <2>1, <2>2, EstaAppend
  <2>4. EfectoPS
    BY <2>1, <2>3 DEF EfectoPS, Tablero
  <2>5. ManoPS'
    BY <1>0, <2>1, ValoresPS DEF ManoPS
  <2>6. QED
    BY <2>4, <2>5
<1>9. CASE Proceso!CaidaPS \/ Proceso!MuereAlUsarSesion
  BY <1>2, <1>9 DEF Proceso!CaidaPS, Proceso!MuereAlUsarSesion, Tablero
<1>10. CASE Proceso!EntornoOpenDS
  <2>1. UNCHANGED <<pcPS, mano, cola, rechazadas, perdidasPS>>
    BY <1>10 DEF Proceso!EntornoOpenDS, Proceso!CaeOpenDS, Proceso!VuelveOpenDS,
       Proceso!SondaAjena, Proceso!psVars, Proceso!histPS
  <2>2. \/ bd' = bd
        \/ \E codigo, e : \/ bd' = Proceso!TrasAdd(bd, codigo, Prueba, e)
                          \/ bd' = Proceso!TrasDelete(bd, codigo, Prueba)
    BY <1>10 DEF Proceso!EntornoOpenDS, Proceso!CaeOpenDS, Proceso!VuelveOpenDS,
       Proceso!SondaAjena
  <2>3. Tablero' = Tablero
    BY <2>2, Sonda DEF Tablero
  <2>4. QED
    BY <1>1, <2>1, <2>3
<1>11. QED
  BY <1>3, <1>4, <1>5, <1>6, <1>7, <1>8, <1>9, <1>10 DEF PasoProceso, Proceso!SistemaPS

-----------------------------------------------------------------------------
(* The invariant of the pipeline.                                          *)

Tuberia == Camino /\ ColaPublicada /\ ManoPS /\ ConRastro

\* Only NNTPProcessServer and OpenDS move: the way to the queue is as it was.
LEMMA CaminoAjeno ==
  ASSUME Camino, cola' \in Seq(Cuerpos), PasoProceso
  PROVE  Camino'
<1>1. /\ UNCHANGED <<hora, archivo, pub, snd, publicadas, con, backlog>>
      /\ UNCHANGED <<mainXml, stParameters, hilos, confirmadas>>
  BY DEF PasoProceso, todoMenosCola, vars, pubVars, redVars
<1>2. PaginasBien'
  BY <1>1, PaginasAjenas, EnviablesCrecen DEF Camino
<1>3. EnViajePublicado'
  BY <1>1, EnviablesCrecen DEF Camino, EnViajePublicado, DePublicada
<1>4. TiposPublisher' /\ TipoRed'
  BY <1>1 DEF Camino, Base, TiposPublisher, EnSuLugar, TipoRed
<1>5. TiposXml'
  BY <1>1 DEF Camino, Base, TiposXml, Ubicado
<1>6. Libres' /\ UnDueno'
  BY <1>1 DEF Camino, Base, Libres, UnDueno
<1>7. Conversaciones'
  BY <1>1 DEF Camino, Conversaciones, Conversacion, Suyo, Enviada
<1>8. QED
  BY <1>2, <1>3, <1>4, <1>5, <1>6, <1>7 DEF Camino, Base

\* Where a step of NNTPProcessServer leaves an article that was on its way.
LEMMA EnCaminoPS ==
  ASSUME Tuberia, EfectoPS, PasoProceso, NEW m \in Articulos, Rastro(m)
  PROVE  Rastro(m)'
<1>0. /\ hilos' = hilos
      /\ rechazadas \subseteq rechazadas' /\ perdidasPS \subseteq perdidasPS'
  BY DEF PasoProceso, todoMenosCola, EfectoPS
<1>1. CASE EnLaCola(m)
  <2>1. Esta(m, cola') \/ m = mano'
    BY <1>1, EnLaColaEs DEF EfectoPS
  <2>2. QED
    BY <2>1 DEF Rastro, EnCamino, EnLaCola, Esta
<1>2. CASE EnManoDelServidor(m)
  <2>1. EnManoDelServidor(m)'
    BY <1>0, <1>2 DEF EnManoDelServidor, Servidor!EnMano, Servidor!Trae
  <2>2. QED
    BY <2>1 DEF Rastro, EnCamino
<1>3. CASE mano = m
  <2>1. CASE mano' = mano
    BY <1>3, <2>1 DEF Rastro, EnCamino
  <2>2. CASE Esta(mano, cola')
    <3>1. EnLaCola(m)'
      BY <1>3, <2>2 DEF EnLaCola, Esta
    <3>2. QED
      BY <3>1 DEF Rastro, EnCamino
  <2>3. CASE mano \in rechazadas' \cup perdidasPS'
    BY <1>3, <2>3 DEF Rastro
  <2>4. CASE Almacenada(mano)
    <3>1. EnElTablero(m)'
      BY <1>3, <2>4 DEF Almacenada, EnElTablero, Proceso!EntradaDe
    <3>2. QED
      BY <3>1 DEF Rastro, EnCamino
  <2>5. QED
    BY <1>3, <2>1, <2>2, <2>3, <2>4 DEF EfectoPS
<1>4. CASE EnElTablero(m)
  <2>1. EnElTablero(m)'
    BY <1>4 DEF EfectoPS, Almacenada, EnElTablero
  <2>2. QED
    BY <2>1 DEF Rastro, EnCamino
<1>5. CASE m \in rechazadas \cup perdidasPS
  BY <1>0, <1>5 DEF Rastro
<1>6. QED
  BY <1>1, <1>2, <1>3, <1>4, <1>5 DEF Rastro, EnCamino

\* The same of the steps before the queue.
LEMMA EnCaminoPublicacion ==
  ASSUME Tuberia, Camino', NextPublicacion, UNCHANGED soloProceso
  PROVE  ConRastro'
<1>0. /\ UNCHANGED <<mano, bd, rechazadas, perdidasPS>>
      /\ Tablero' = Tablero
  BY DEF soloProceso, Tablero
<1>1. CASE PasoXml
  <2>1. EfectoCola
    BY <1>1, XmlCola DEF Tuberia
  <2>2. ASSUME NEW m, Rastro(m), m.noticia \notin Largas, m \notin perdidas'
        PROVE  Rastro(m)'
    <3>1. EnLaCola(m) => EnLaCola(m)'
      BY <2>1 DEF EfectoCola, EnLaCola, Esta
    <3>2. EnManoDelServidor(m) => EnManoDelServidor(m)' \/ EnLaCola(m)'
      BY <2>1, <2>2 DEF EfectoCola, EnManoDe, EnManoDelServidor
    <3>3. EnElTablero(m) => EnElTablero(m)'
      BY <1>0 DEF EnElTablero
    <3>4. QED
      BY <1>0, <2>2, <3>1, <3>2, <3>3 DEF Rastro, EnCamino
  <2>3. ASSUME NEW m \in confirmadas', m \notin confirmadas
        PROVE  m \in Articulos /\ Rastro(m)'
    <3>1. EnManoDe(m)'
      BY <2>1, <2>3 DEF EfectoCola
    <3>2. PICK t \in Hilos : hilos'[t].payload = m /\ m # Servidor!Basura
      BY <3>1 DEF EnManoDe, Servidor!EnMano, Servidor!Trae
    <3>3. hilos'[t].payload \in Cuerpos
      BY DEF Camino, Base, TiposXml, Hilo
    <3>4. QED
      BY <3>1, <3>2, <3>3, ValoresPS DEF EnManoDe, EnManoDelServidor, Rastro, EnCamino
  <2>4. perdidas \subseteq perdidas'
    BY <2>1 DEF EfectoCola
  <2>5. QED
    BY <2>2, <2>3, <2>4 DEF ConRastro, Tuberia
<1>2. CASE PasoPublisher
  <2>1. UNCHANGED <<hilos, cola, confirmadas, perdidas>>
    BY <1>2 DEF PasoPublisher, soloXml
  <2>2. \A m : Rastro(m) => Rastro(m)'
    BY <1>0, <2>1 DEF Rastro, EnCamino, EnElTablero, EnLaCola, EnManoDelServidor,
                      Servidor!EnMano, Servidor!Trae
  <2>3. QED
    BY <2>1, <2>2 DEF ConRastro, Tuberia
<1>3. QED
  BY <1>1, <1>2 DEF NextPublicacion

LEMMA TuberiaInicial == InitPipeline => Tuberia
<1> SUFFICES ASSUME InitPipeline PROVE Tuberia
  OBVIOUS
<1>1. Camino /\ cola = <<>> /\ confirmadas = {}
  BY CaminoInicial DEF InitPipeline, InitPublicacion, Servidor!InitXml
<1>2. ColaPublicada /\ ConRastro
  BY <1>1 DEF ColaPublicada, ConRastro, Esta
<1>3. ManoPS
  BY ValoresPS DEF InitPipeline, Proceso!InitPS, ManoPS
<1>4. QED
  BY <1>1, <1>2, <1>3 DEF Tuberia

\* What a step before the queue leaves: the same in hand and in OpenDS, and in
\* the queue nothing that is not of a published article.
LEMMA PasoAntes ==
  ASSUME Tuberia, NextPublicacion, UNCHANGED soloProceso
  PROVE  Tuberia'
<1>0. pcPS' = pcPS /\ mano' = mano
  BY DEF soloProceso
<1>1. Camino'
  BY PasoCamino DEF Tuberia
<1>2. CASE PasoXml
  <2>1. ColaPublicada' /\ Enviables' = Enviables
    BY <1>2, PasoColaPublicada, EnviablesCrecen DEF Tuberia, PasoXml, pubVars
  <2>2. QED
    BY <1>0, <1>1, <2>1, EnCaminoPublicacion DEF Tuberia, ManoPS, DePublicada
<1>3. CASE PasoPublisher
  <2>1. cola' = cola /\ Enviables \subseteq Enviables'
    BY <1>3, PublisherEfecto, EnviablesCrecen DEF soloXml, Tuberia, Camino, Base, EfectoPublisher
  <2>2. ColaPublicada'
    BY <2>1 DEF Tuberia, ColaPublicada, DePublicada
  <2>3. ManoPS'
    BY <1>0, <2>1 DEF Tuberia, ManoPS, DePublicada
  <2>4. QED
    BY <1>0, <1>1, <2>1, <2>2, <2>3, EnCaminoPublicacion DEF Tuberia
<1>4. QED
  BY <1>2, <1>3 DEF NextPublicacion

LEMMA PasoDespues ==
  ASSUME Tuberia, PasoProceso
  PROVE  Tuberia' /\ EfectoPS /\ Enviables' = Enviables
<1>0. UNCHANGED <<Enviables, confirmadas, perdidas>>
  BY EnviablesCrecen DEF PasoProceso, todoMenosCola, vars, pubVars
<1>1. EfectoPS /\ ManoPS'
  BY PasoPS DEF Tuberia, Camino, Base, TiposXml
<1>2. Camino'
  BY <1>1, CaminoAjeno DEF Tuberia, EfectoPS
<1>3. ColaPublicada'
  <2>1. ASSUME NEW b, Esta(b, cola')
        PROVE  b \in Articulos \cup {Servidor!Basura} /\ (Esta(b, cola) \/ b = mano)
    BY <1>1, <2>1, ValoresPS DEF EfectoPS, Esta
  <2>2. \A b : Esta(b, cola) => b = Servidor!Basura \/ DePublicada(b)
    BY DEF Tuberia, ColaPublicada
  <2>3. mano \in Articulos => DePublicada(mano)
    BY DEF Tuberia, ManoPS
  <2>4. \A b : Esta(b, cola') => b = Servidor!Basura \/ DePublicada(b)
    BY <2>1, <2>2, <2>3
  <2>5. QED
    BY <1>0, <2>4 DEF ColaPublicada, DePublicada
<1>4. ConRastro'
  <2>1. \A m \in Articulos : Rastro(m) => Rastro(m)'
    BY <1>1, EnCaminoPS
  <2>2. QED
    BY <1>0, <2>1 DEF Tuberia, ConRastro
<1>5. QED
  BY <1>0, <1>1, <1>2, <1>3, <1>4 DEF Tuberia

LEMMA PasoQuieto ==
  ASSUME Tuberia, UNCHANGED varsPipeline
  PROVE  Tuberia' /\ UNCHANGED <<Enviables, Tablero>>
<1>1. /\ UNCHANGED varsPublicacion /\ UNCHANGED <<hilos, cola, confirmadas, perdidas>>
      /\ UNCHANGED <<Enviables, pcPS, mano, bd, rechazadas, perdidasPS>>
  BY EnviablesCrecen DEF varsPipeline, soloProceso, varsPublicacion, soloXml, vars, pubVars
<1>2. Camino'
  BY <1>1, PasoCamino DEF Tuberia
<1>3. Tablero' = Tablero
  BY <1>1 DEF Tablero
<1>4. ColaPublicada' /\ ManoPS'
  BY <1>1 DEF Tuberia, ColaPublicada, ManoPS, DePublicada
<1>5. \A m : Rastro(m) => Rastro(m)'
  BY <1>1, <1>3 DEF Rastro, EnCamino, EnElTablero, EnLaCola, EnManoDelServidor,
                    Servidor!EnMano, Servidor!Trae
<1>6. ConRastro'
  BY <1>1, <1>5 DEF Tuberia, ConRastro
<1>7. QED
  BY <1>1, <1>2, <1>3, <1>4, <1>6 DEF Tuberia

LEMMA PipelineInvariante == SpecPipeline => []Tuberia
<1>1. Tuberia /\ [NextPipeline]_varsPipeline => Tuberia'
  BY PasoAntes, PasoDespues, PasoQuieto DEF NextPipeline
<1>2. QED
  BY <1>1, TuberiaInicial, PTL DEF SpecPipeline

-----------------------------------------------------------------------------
(* Once PublisherWin has marked an article as transmitted it never sends   *)
(* it again (xmlFunctions.c:230-244).  It need not: the article is in the  *)
(* queue, in the hands of XMLNewsPS or of NNTPProcessServer, or in OpenDS, *)
(* unless a process died holding it, OpenDS refused it, or its XML was     *)
(* longer than BUFFERSIZE.                                                 *)
THEOREM TransmitidaEnCaminoSiempre == SpecPipeline => []TransmitidaEnCamino
<1>1. Tuberia => TransmitidaEnCamino
  <2>1. Tuberia => Marcadas \subseteq confirmadas
    BY DEF Tuberia, Camino, PaginasBien, PaginaBien, Marcadas, XmlDel
  <2>2. QED
    BY <2>1 DEF Tuberia, ConRastro, Rastro, TransmitidaEnCamino
<1>2. QED
  BY <1>1, PipelineInvariante, PTL

-----------------------------------------------------------------------------
(* The refinement of NewsDelivery.                                         *)

\* The closeDb of the client thread is the only step that publishes.
LEMMA UnaPublicada ==
  ASSUME Tuberia, NextPublicacion
  PROVE  \/ Enviables' = Enviables
         \/ \E m \in MensajesPosibles : Enviables' = Enviables \cup {m}
<1>1. CASE CloseDb /\ pub.cache.sucia
  <2> DEFINE a == [id |-> pub.id, noticia |-> pub.noticia]
  <2>1. pub.pc = "closeDb" /\ publicadas' = publicadas \cup {a}
    BY <1>1 DEF CloseDb
  <2>2. pub.id \in Ids /\ pub.noticia \in Noticias
    BY <2>1 DEF Tuberia, Camino, Base, TiposPublisher
  <2>3. Mensaje(a.id, a.noticia) \in MensajesPosibles
    BY <2>2 DEF MensajesPosibles
  <2> HIDE DEF a
  <2>4. Enviables' = Enviables \cup {Mensaje(a.id, a.noticia)}
    BY <2>1 DEF Enviables
  <2>5. QED
    BY <2>3, <2>4
<1>2. CASE ~ (CloseDb /\ pub.cache.sucia) /\ PasoPublisher
  <2>1. CASE CaidaPublisher
    BY <2>1, EnviablesCrecen DEF CaidaPublisher
  <2>2. CASE \E s \in Senders : IniciarSender(s) \/ HiloSender(s)
    BY <2>2, SenderPaginas, EnviablesCrecen DEF Tuberia, Camino
  <2>3. CASE HiloCliente \/ PasaUnSegundo
    BY <1>2, <2>3, EnviablesCrecen DEF HiloCliente, Ingresar, CreateDbYGenerateNewID, PutArticle,
       CloseDb, OtraNoticia, PasaUnSegundo
  <2>4. QED
    BY <1>2, <2>1, <2>2, <2>3, EnviablesCrecen DEF PasoPublisher, SistemaPublisher
<1>3. CASE PasoXml
  BY <1>3, EnviablesCrecen DEF PasoXml, pubVars
<1>4. QED
  BY <1>1, <1>2, <1>3 DEF NextPublicacion, PasoPublisher, SistemaPublisher, HiloCliente

(* The pipeline keeps the promise of NewsDelivery whatever dies, is lost   *)
(* or is done twice on the way: publishing is the closeDb of PublisherWin  *)
(* (berkeleyFunctions.c:93-98), delivering the insertEntry that succeeds   *)
(* (NNTPProcessServer.cpp), and nothing else is seen by readers.           *)
THEOREM CumpleEntregaSiempre == SpecPipeline => CumpleEntrega
<1>1. InitPipeline => Entrega!Init
  <2> SUFFICES ASSUME InitPipeline PROVE Entrega!Init
    OBVIOUS
  <2>1. Enviables = {} /\ DOMAIN bd = {}
    BY DEF InitPipeline, InitPublicacion, Init, Proceso!InitPS, Enviables
  <2>2. Tablero = [i \in {} |-> {}]
    BY <2>1 DEF Tablero
  <2>3. QED
    BY <2>1, <2>2 DEF Entrega!Init
<1>2. Tuberia /\ [NextPipeline]_varsPipeline => [Entrega!Next]_<<Enviables, Tablero>>
  <2> SUFFICES ASSUME Tuberia, [NextPipeline]_varsPipeline
               PROVE  [Entrega!Next]_<<Enviables, Tablero>>
    OBVIOUS
  <2>1. CASE NextPublicacion /\ UNCHANGED soloProceso
    <3>1. Tablero' = Tablero
      BY <2>1 DEF soloProceso, Tablero
    <3>2. QED
      BY <2>1, <3>1, UnaPublicada DEF Entrega!Next, Entrega!Publicar
  <2>2. CASE PasoProceso
    <3>1. EfectoPS /\ Enviables' = Enviables
      BY <2>2, PasoDespues
    <3>2. CASE Tablero' = Tablero
      BY <3>1, <3>2
    <3>3. CASE mano \in Articulos /\ Almacenada(mano)
      <4>1. PICK p \in Enviables : mano = Servidor!XmlDe(p)
        BY <3>3 DEF Tuberia, ManoPS, DePublicada
      <4>2. p.id = mano.id /\ p.grupo = mano.grupo /\ p.noticia = mano.noticia
        BY <4>1 DEF Servidor!XmlDe
      <4>3. QED
        BY <3>1, <3>3, <4>2 DEF Almacenada, Entrega!Next, Entrega!Entregar
    <3>4. QED
      BY <3>1, <3>2, <3>3 DEF EfectoPS
  <2>3. CASE UNCHANGED varsPipeline
    BY <2>3, PasoQuieto
  <2>4. QED
    BY <2>1, <2>2, <2>3 DEF NextPipeline
<1>3. QED
  BY <1>1, <1>2, PipelineInvariante, PTL DEF SpecPipeline, CumpleEntrega, Entrega!Spec
=============================================================================
