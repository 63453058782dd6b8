-------------------------- MODULE NNTPProcessServer --------------------------
(***************************************************************************)
(* NNTPProcessServer: every Interval it takes the messages out of the      *)
(* queue one by one and stores each article in OpenDS.  When OpenDS cannot *)
(* be reached the message goes back to the queue and the next round starts *)
(* by connecting again.                                                    *)
(*                                                                         *)
(* The reconnection (NNTPProcessServer.cpp:159-173) frees the session main *)
(* uses and opens a new one into variables declared inside the block, so   *)
(* main goes on with the freed one.  What it finds there is up to the      *)
(* allocator: the new session, if its memory was handed out again; some    *)
(* errorCode and some LDAP handle, otherwise; or the process dies.         *)
(***************************************************************************)
EXTENDS OpenDS, ColaMSMQ, FiniteSets

CONSTANTS Articulos  \* the messages that carry an article

ASSUME ArticulosAssumption ==
  \A m \in Articulos : m.tipo = "noticia" /\ m.id \in Nat /\ m.id # Prueba

VARIABLES pcPS,             \* main's place in its loop
          mano,             \* the message consumirMensajes... works on
          sesion,           \* errorCode of main's session, and its memory
          openDSEstaCaido,  \* the global flag
          cola,             \* the MSMQ queue
          bd,               \* the directory: article ID |-> entry
          openDSArriba,     \* OpenDS answers
          rechazadas,       \* history: articles OpenDS refused to add
          perdidasPS        \* history: in hand when the process died

psVars   == <<pcPS, mano, sesion, openDSEstaCaido>>
histPS   == <<rechazadas, perdidasPS>>

NoMensaje == [tipo |-> "ninguno"]
NuevaSesion(error) == [memoria |-> "valida", errorCode |-> error]

InitPS ==
  /\ pcPS = "conectar"
  /\ mano = NoMensaje
  /\ sesion = NuevaSesion(newLDAPSession)
  /\ openDSEstaCaido = FALSE
  /\ cola = <<>>
  /\ bd = [i \in {} |-> ArticuloDePrueba]
  /\ openDSArriba = TRUE
  /\ rechazadas = {}
  /\ perdidasPS = {}

EntradaDe(m) == [grupo |-> m.grupo, noticia |-> m.noticia]

Guardada(m) == m.id \in DOMAIN bd /\ bd[m.id] = EntradaDe(m)

-----------------------------------------------------------------------------
(* Connecting: crearConexionLDAP inserts a probe entry and deletes it.     *)

\* At start-up, a server that is down makes main return -1.
Conectar ==
  /\ pcPS = "conectar"
  /\ \E codigo \in ResultadoAdd(bd, openDSArriba, Prueba) :
       /\ bd' = TrasAdd(bd, codigo, Prueba, ArticuloDePrueba)
       /\ sesion' = NuevaSesion(ErrorCode(newLDAPSession, codigo))
       /\ pcPS' = IF codigo = LDAP_SERVER_DOWN THEN "terminado"
                                               ELSE "borrarPrueba"
  /\ UNCHANGED <<mano, openDSEstaCaido, cola, openDSArriba, histPS>>

\* crearConexionLDAP returns 1 whatever becomes of the probe.
BorrarPrueba ==
  /\ pcPS = "borrarPrueba"
  /\ \E codigo \in ResultadoDelete(bd, openDSArriba, Prueba) :
       /\ bd' = TrasDelete(bd, codigo, Prueba)
       /\ sesion' = [sesion EXCEPT !.errorCode = ErrorCode(@, codigo)]
  /\ openDSEstaCaido' = FALSE
  /\ pcPS' = "sleep"
  /\ UNCHANGED <<mano, cola, openDSArriba, histPS>>

\* Mutant of Despertar: it waits for OpenDS and does not connect again.
DespertarSinReconectar ==
  /\ pcPS = "sleep"
  /\ pcPS' = IF openDSEstaCaido THEN "sleep" ELSE "desencolar"
  /\ UNCHANGED <<mano, sesion, openDSEstaCaido, cola, bd, openDSArriba, histPS>>

\* Sleep(Interval), and the test of openDSEstaCaido.  liberarRecursosLdap
\* frees main's session; freeing it again may kill the process.
Despertar ==
  /\ pcPS = "sleep"
  /\ pcPS' \in IF ~ openDSEstaCaido THEN {"desencolar"}
               ELSE {"reconectar"} \cup
                    (IF sesion.memoria = "liberada" THEN {"muerto"} ELSE {})
  /\ UNCHANGED <<mano, sesion, openDSEstaCaido, cola, bd, openDSArriba, histPS>>

\* The new session lives in the variables of the inner block; main's own
\* pointer sees it only if the allocator reused the memory just freed.
Reconectar ==
  /\ pcPS = "reconectar"
  /\ \E codigo \in ResultadoAdd(bd, openDSArriba, Prueba) :
       /\ bd' = TrasAdd(bd, codigo, Prueba, ArticuloDePrueba)
       /\ \/ sesion' = NuevaSesion(ErrorCode(newLDAPSession, codigo))
          \/ \E basura \in Codigos :
               sesion' = [memoria |-> "liberada", errorCode |-> basura]
       /\ pcPS' = IF codigo = LDAP_SERVER_DOWN THEN "desencolar"
                                               ELSE "borrarPruebaReconexion"
  /\ UNCHANGED <<mano, openDSEstaCaido, cola, openDSArriba, histPS>>

BorrarPruebaReconexion ==
  /\ pcPS = "borrarPruebaReconexion"
  /\ \E codigo \in ResultadoDelete(bd, openDSArriba, Prueba) :
       /\ bd' = TrasDelete(bd, codigo, Prueba)
       /\ sesion' = IF sesion.memoria = "valida"
                    THEN [sesion EXCEPT !.errorCode = ErrorCode(@, codigo)]
                    ELSE sesion
  /\ openDSEstaCaido' = FALSE
  /\ pcPS' = "desencolar"
  /\ UNCHANGED <<mano, cola, openDSArriba, histPS>>

-----------------------------------------------------------------------------
(* consumirMensajesYAlmacenarEnBD, and the loop around it.                 *)

\* Where the loop of main goes when the function returned 1.
TrasDevolver1(caido) == IF caido THEN "sleep" ELSE "desencolar"

\* An empty queue returns 0, which ends the round.
Desencolar ==
  /\ pcPS = "desencolar"
  /\ \/ /\ HayMensaje(cola)
        /\ mano' = MensajeRecibido(cola)
        /\ cola' = desencolarMensaje(cola)
        /\ pcPS' = "insertar"
     \/ /\ ~ HayMensaje(cola)
        /\ pcPS' = "sleep"
        /\ UNCHANGED <<mano, cola>>
  /\ UNCHANGED <<sesion, openDSEstaCaido, bd, openDSArriba, histPS>>

\* A body that does not parse is dropped, and returns 0.
DescartarBasura ==
  /\ pcPS = "insertar"
  /\ mano = Basura
  /\ mano' = NoMensaje
  /\ pcPS' = "sleep"
  /\ UNCHANGED <<sesion, openDSEstaCaido, cola, bd, openDSArriba, histPS>>

\* What ldap_add_ext_s may return through main's session: the handle it finds
\* in a freed session may be of a lost connection, or none at all.
ResultadoInsertar ==
  ResultadoAdd(bd, openDSArriba, mano.id) \cup
  (IF sesion.memoria = "liberada" THEN {LDAP_SERVER_DOWN, LDAP_BUSY} ELSE {})

\* insertEntry, and the tests of the session's errorCode after it.
Insertar ==
  /\ pcPS = "insertar"
  /\ mano # Basura
  /\ \E codigo \in ResultadoInsertar :
       LET error == ErrorCode(sesion.errorCode, codigo)
       IN /\ bd' = TrasAdd(bd, codigo, mano.id, EntradaDe(mano))
          /\ sesion' = [sesion EXCEPT !.errorCode = error]
          /\ rechazadas' = rechazadas \cup
               (IF codigo \in {LDAP_BUSY, LDAP_ALREADY_EXISTS}
                THEN {mano} ELSE {})
          /\ \/ /\ error = LDAP_SERVER_DOWN
                /\ pcPS' = "reencolar"
                /\ mano' = mano
             \/ /\ error # LDAP_SERVER_DOWN
                /\ pcPS' = TrasDevolver1(openDSEstaCaido)
                /\ mano' = NoMensaje
  /\ UNCHANGED <<openDSEstaCaido, cola, openDSArriba, perdidasPS>>

\* The message goes back to the tail of the queue.
Reencolar ==
  /\ pcPS = "reencolar"
  /\ cola' = insertarMensaje(cola, mano)
  /\ mano' = NoMensaje
  /\ openDSEstaCaido' = TRUE
  /\ pcPS' = TrasDevolver1(TRUE)
  /\ UNCHANGED <<sesion, bd, openDSArriba, histPS>>

-----------------------------------------------------------------------------
(* The process dies (a use of the freed session may be why), taking the    *)
(* message in hand with it; someone starts it again.                       *)

CaidaPS ==
  /\ pcPS \notin {"muerto", "terminado"}
  /\ pcPS' = "muerto"
  /\ perdidasPS' = perdidasPS \cup ({mano} \cap Articulos)
  /\ mano' = NoMensaje
  /\ UNCHANGED <<sesion, openDSEstaCaido, cola, bd, openDSArriba, rechazadas>>

\* The memory behind main's pointer is touched by insertEntry.
MuereAlUsarSesion ==
  /\ pcPS = "insertar"
  /\ mano # Basura
  /\ sesion.memoria = "liberada"
  /\ CaidaPS

ArranquePS ==
  /\ pcPS \in {"muerto", "terminado"}
  /\ pcPS' = "conectar"
  /\ mano' = NoMensaje
  /\ sesion' = NuevaSesion(newLDAPSession)
  /\ openDSEstaCaido' = FALSE
  /\ UNCHANGED <<cola, bd, openDSArriba, histPS>>

SistemaPS ==
  \/ Conectar \/ BorrarPrueba \/ Despertar
  \/ Reconectar \/ BorrarPruebaReconexion
  \/ Desencolar \/ DescartarBasura \/ Insertar \/ Reencolar
  \/ MuereAlUsarSesion

-----------------------------------------------------------------------------
(* OpenDS stops and comes back; NNTPServerBAM and HTTPServer, when they    *)
(* start, leave their own probe (the same entry) there for a moment.       *)

CaeOpenDS == /\ openDSArriba
             /\ openDSArriba' = FALSE
             /\ UNCHANGED <<psVars, cola, bd, histPS>>

VuelveOpenDS == /\ ~ openDSArriba
                /\ openDSArriba' = TRUE
                /\ UNCHANGED <<psVars, cola, bd, histPS>>

SondaAjena ==
  /\ openDSArriba
  /\ \/ /\ LDAP_SUCCESS \in ResultadoAdd(bd, TRUE, Prueba)
        /\ bd' = TrasAdd(bd, LDAP_SUCCESS, Prueba, ArticuloDePrueba)
     \/ /\ LDAP_SUCCESS \in ResultadoDelete(bd, TRUE, Prueba)
        /\ bd' = TrasDelete(bd, LDAP_SUCCESS, Prueba)
  /\ UNCHANGED <<psVars, cola, openDSArriba, histPS>>

EntornoOpenDS == CaeOpenDS \/ VuelveOpenDS \/ SondaAjena
=============================================================================
