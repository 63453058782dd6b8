--------------------------------- MODULE Red ---------------------------------
(***************************************************************************)
(* The TCP connections between PublisherWin and XMLNewsPS, as the two      *)
(* programs use them: connect / send / recv / closesocket on the publisher *)
(* side, accept / recv / send on the server side (which never closes).     *)
(*                                                                         *)
(* A connection keeps the two byte streams as sequences of the units the   *)
(* programs read with one recv.  The publisher's second send is longer     *)
(* than its XML (xmlFunctions.c:196 adds a pointer to the length), so the  *)
(* stream that carries an XML carries zero filling after it: Relleno.      *)
(***************************************************************************)
EXTENDS Naturals, Sequences

CONSTANT MaxConexiones  \* bound on the connection attempts of a behaviour

ASSUME MaxConexionesAssumption == MaxConexiones \in Nat

Conexiones == 1 .. MaxConexiones
NoConexion == 0

Handshake  == [tipo |-> "handshake"]
Relleno    == [tipo |-> "relleno"]
Cierre     == [tipo |-> "cierre"]          \* what recv reports as 0 or -1
Xml(n)     == [tipo |-> "xml", noticia |-> n]

\* Replies of XMLNewsPS, by what the publisher finds at the offsets it reads:
\* payload descriptor "1" or "2", "RequestOK" where it is expected, or a
\* "RequestOK" shifted by a stale descriptor and hence not recognised.
Respuestas == {"1", "2", "RequestOK", "corrida"}

ConexionLibre == [estado |-> "libre", aServidor |-> <<>>, aPublisher |-> <<>>]

\* recv on either side: the head of the stream, or the end of the connection
\* once the peer is gone and the stream is drained; otherwise it blocks.
LeidoPorServidor(c) ==
  IF c.aServidor # <<>> THEN {Head(c.aServidor)}
  ELSE IF c.estado # "abierta" THEN {Cierre} ELSE {}

TrasLeerServidor(c) ==
  IF c.aServidor # <<>> THEN [c EXCEPT !.aServidor = Tail(@)] ELSE c

LeidoPorPublisher(c) ==
  IF c.aPublisher # <<>> THEN {Head(c.aPublisher)}
  ELSE IF c.estado = "caida" THEN {"cierre"} ELSE {}

TrasLeerPublisher(c) ==
  IF c.aPublisher # <<>> THEN [c EXCEPT !.aPublisher = Tail(@)] ELSE c

\* A send to a peer that is gone is dropped.
EnviarAPublisher(c, r) ==
  IF c.estado = "abierta" THEN [c EXCEPT !.aPublisher = Append(@, r)] ELSE c

EnviarAServidor(c, ms) ==
  IF c.estado = "abierta" THEN [c EXCEPT !.aServidor = @ \o ms] ELSE c

\* The server process dies: every open connection is reset.  The reset may
\* (pierde) or may not take with it replies the publisher has not read yet.
CaidaDelServidor(con, pierde) ==
  [c \in Conexiones |->
     IF con[c].estado = "abierta"
     THEN [estado |-> "caida", aServidor |-> <<>>,
           aPublisher |-> IF pierde THEN <<>> ELSE con[c].aPublisher]
     ELSE con[c]]

\* The publisher process dies: its sockets are closed.
CierreDelPublisher(con) ==
  [c \in Conexiones |-> IF con[c].estado = "abierta"
                        THEN [con[c] EXCEPT !.estado = "cerrada"]
                        ELSE con[c]]
=============================================================================
