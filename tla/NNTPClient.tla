----------------------------- MODULE NNTPClient -----------------------------
(***************************************************************************)
(* NNTPClient: the user-interface thread reads a command line and hands it *)
(* to main, which sends it to the server and hands the answer back.  Both  *)
(* work on one Comando object and take turns with two mutexes used as      *)
(* binary semaphores: each side locks its own and unlocks the other's.     *)
(***************************************************************************)
EXTENDS Naturals, Sequences

CONSTANTS Lineas,      \* what the user may type
          Largas,      \* lines whose answer is longer than the read buffer
          MaxComandos  \* bound on the lines typed

ASSUME NNTPClientAssumption ==
  /\ Lineas \subseteq [nombre : {"QUIT", "OTRO"}, valida : BOOLEAN, texto : STRING]
  /\ Largas \subseteq Lineas
  /\ MaxComandos \in Nat

VARIABLES pcUI, pcMain,  \* where the threads are
          semUI,         \* the mutexes: TRUE when unlocked
          semConexion,
          linea,         \* strCadenaIngresada
          comando,       \* the shared Comando: its name and parameter
          respuesta,     \* the shared Comando: its answer
          bufer,         \* what an earlier answer left in cBuffer
          conexion,      \* the SSL connection
          aServidor,     \* commands the server has not read
          aCliente,      \* answers the client has not read
          tipeadas,      \* history: the number of lines typed
          fuera          \* history: an answer was cut short, or the
                         \* connection was reset

hilos == <<pcUI, pcMain, semUI, semConexion>>
datos == <<linea, comando, respuesta, bufer>>
red   == <<conexion, aServidor, aCliente>>
hist  == <<tipeadas, fuera>>
vars  == <<hilos, datos, red, hist>>

Vacio == [nombre |-> "", valida |-> FALSE, texto |-> ""]

\* Answers, by what they answer.  One read takes the whole of a short one; a
\* long one takes two.
Invalido  == [parte |-> "invalido", a |-> Vacio]
SinRespuesta == [parte |-> "vacia", a |-> Vacio]
Basura    == [parte |-> "basura", a |-> Vacio]
Entera(l) == [parte |-> "entera", a |-> l]
Inicio(l) == [parte |-> "inicio", a |-> l]
Resto(l)  == [parte |-> "resto", a |-> l]

Vivo == pcMain \notin {"fin", "muerto"}

\* main has locked both mutexes and not created the thread yet.
Init ==
  /\ pcUI = "sinCrear" /\ pcMain = "create"
  /\ semUI = FALSE /\ semConexion = FALSE
  /\ linea = Vacio /\ comando = Vacio
  /\ respuesta = SinRespuesta /\ bufer = Basura
  /\ conexion = "abierta" /\ aServidor = <<>> /\ aCliente = <<>>
  /\ tipeadas = 0 /\ fuera = FALSE

-----------------------------------------------------------------------------
(* threadInterfazDeUsuario.                                                *)

Getline ==
  /\ Vivo /\ pcUI = "getline"
  /\ tipeadas < MaxComandos
  /\ \E l \in Lineas : linea' = l
  /\ tipeadas' = tipeadas + 1
  /\ pcUI' = "reset"
  /\ UNCHANGED <<pcMain, semUI, semConexion, comando, respuesta, bufer, red, fuera>>

\* init: reset empties the object, then extraerNombreYParametro fills it in.
Reset ==
  /\ Vivo /\ pcUI = "reset"
  /\ comando' = Vacio /\ respuesta' = SinRespuesta
  /\ pcUI' = "extraer"
  /\ UNCHANGED <<pcMain, semUI, semConexion, linea, bufer, red, hist>>

ExtraerNombreYParametro ==
  /\ Vivo /\ pcUI = "extraer"
  /\ comando' = linea
  /\ pcUI' = "unlockConexion"
  /\ UNCHANGED <<pcMain, semUI, semConexion, linea, respuesta, bufer, red, hist>>

UnlockConexion ==
  /\ Vivo /\ pcUI = "unlockConexion"
  /\ semConexion' = TRUE
  /\ pcUI' = "lockUI"
  /\ UNCHANGED <<pcMain, semUI, datos, red, hist>>

\* Mutant of LockUI: a trylock whose result nobody looks at.
TryLockUI ==
  /\ Vivo /\ pcUI = "lockUI"
  /\ semUI' = FALSE
  /\ pcUI' = "print"
  /\ UNCHANGED <<pcMain, semConexion, datos, red, hist>>

LockUI ==
  /\ Vivo /\ pcUI = "lockUI"
  /\ semUI
  /\ semUI' = FALSE
  /\ pcUI' = "print"
  /\ UNCHANGED <<pcMain, semConexion, datos, red, hist>>

Imprimir ==
  /\ Vivo /\ pcUI = "print"
  /\ pcUI' = IF comando.nombre = "QUIT" THEN "exit" ELSE "getline"
  /\ UNCHANGED <<pcMain, semUI, semConexion, datos, red, hist>>

-----------------------------------------------------------------------------
(* main.                                                                   *)

\* pthread_create; its failure ends the process.
Create ==
  /\ pcMain = "create"
  /\ \/ pcMain' = "lock" /\ pcUI' = "getline"
     \/ pcMain' = "fin" /\ pcUI' = pcUI
  /\ UNCHANGED <<semUI, semConexion, datos, red, hist>>

\* Mutant of LockConexion: the same, on main's mutex.
TryLockConexion ==
  /\ pcMain = "lock"
  /\ semConexion' = FALSE
  /\ pcMain' = "validacion"
  /\ UNCHANGED <<pcUI, semUI, datos, red, hist>>

LockConexion ==
  /\ pcMain = "lock"
  /\ semConexion
  /\ semConexion' = FALSE
  /\ pcMain' = "validacion"
  /\ UNCHANGED <<pcUI, semUI, datos, red, hist>>

\* Mutant of Validacion: an invalid command makes main go on with the next.
ValidacionContinua ==
  /\ pcMain = "validacion"
  /\ pcMain' = IF comando.valida THEN "enviarMensaje" ELSE "while"
  /\ UNCHANGED <<pcUI, semUI, semConexion, datos, red, hist>>

Validacion ==
  /\ pcMain = "validacion"
  /\ \/ /\ comando.valida
        /\ pcMain' = "enviarMensaje"
        /\ respuesta' = respuesta
     \/ /\ ~ comando.valida
        /\ pcMain' = "unlockUI"
        /\ respuesta' = Invalido
  /\ UNCHANGED <<pcUI, semUI, semConexion, linea, comando, bufer, red, hist>>

\* SSL_write: on a lost connection it fails, which is only printed; once the
\* connection was reset the write raises SIGPIPE, which may kill the process.
EnviarMensaje ==
  /\ pcMain = "enviarMensaje"
  /\ aServidor' = IF conexion = "abierta" THEN Append(aServidor, comando)
                                          ELSE aServidor
  /\ \/ pcMain' = "recibirRespuesta"
     \/ conexion = "reset" /\ pcMain' = "muerto"
  /\ UNCHANGED <<pcUI, semUI, semConexion, datos, conexion, aCliente, hist>>

\* Mutant of Leida: everything that has arrived, as one answer.
LeidoTodo(s) == [parte |-> "todo", a |-> Head(s).a]

Leida(s) == Head(s)

\* SSL_read: 0 leaves an empty string; -1 leaves in the buffer whatever it
\* held, the last answer among others.
RecibirRespuesta ==
  /\ pcMain = "recibirRespuesta"
  /\ \/ /\ aCliente # <<>>
        /\ respuesta' = Leida(aCliente)
        /\ aCliente' = Tail(aCliente)
     \/ /\ aCliente = <<>> /\ conexion = "cerrada"
        /\ respuesta' = SinRespuesta
        /\ aCliente' = aCliente
     \/ /\ aCliente = <<>> /\ conexion = "reset"
        /\ respuesta' \in {bufer, Basura, SinRespuesta}
        /\ aCliente' = aCliente
  /\ bufer' = respuesta'
  /\ pcMain' = IF respuesta' = SinRespuesta THEN "servidorCaido" ELSE "unlockUI"
  /\ UNCHANGED <<pcUI, semUI, semConexion, linea, comando, conexion, aServidor,
                 hist>>

\* The connection is closed, both mutexes unlocked and main returns.
ServidorCaido ==
  /\ \/ /\ pcMain = "servidorCaido"
        /\ semConexion' = TRUE /\ pcMain' = "servidorCaidoUnlockUI"
        /\ semUI' = semUI
     \/ /\ pcMain = "servidorCaidoUnlockUI"
        /\ semUI' = TRUE /\ pcMain' = "fin"
        /\ semConexion' = semConexion
  /\ UNCHANGED <<pcUI, datos, red, hist>>

UnlockUI ==
  /\ pcMain = "unlockUI"
  /\ semUI' = TRUE
  /\ pcMain' = "while"
  /\ UNCHANGED <<pcUI, semConexion, datos, red, hist>>

\* indicaSalida reads the shared object after the turn was given away.
While ==
  /\ pcMain = "while"
  /\ pcMain' = IF comando.nombre = "QUIT" THEN "join" ELSE "lock"
  /\ UNCHANGED <<pcUI, semUI, semConexion, datos, red, hist>>

\* pthread_join; then the connection is closed and main returns.
Join ==
  /\ pcMain = "join"
  /\ pcUI = "exit"
  /\ pcMain' = "fin"
  /\ UNCHANGED <<pcUI, semUI, semConexion, datos, red, hist>>

-----------------------------------------------------------------------------
(* The server: one answer to each command, in order; it may close the      *)
(* connection or be cut off.                                               *)

Responder ==
  /\ conexion = "abierta"
  /\ aServidor # <<>>
  /\ LET c == Head(aServidor)
     IN \/ /\ c \notin Largas
           /\ aCliente' = Append(aCliente, Entera(c))
           /\ fuera' = fuera
        \/ /\ c \in Largas
           /\ aCliente' = aCliente \o <<Inicio(c), Resto(c)>>
           /\ fuera' = TRUE
  /\ aServidor' = Tail(aServidor)
  /\ UNCHANGED <<hilos, datos, conexion, tipeadas>>

SeCierra ==
  /\ conexion = "abierta"
  /\ conexion' \in {"cerrada", "reset"}
  /\ fuera' = (fuera \/ conexion' = "reset")
  /\ UNCHANGED <<hilos, datos, aServidor, aCliente, tipeadas>>

HiloUI == Reset \/ ExtraerNombreYParametro \/ UnlockConexion \/ LockUI \/ Imprimir

Main == \/ Create \/ LockConexion \/ Validacion \/ EnviarMensaje
        \/ RecibirRespuesta \/ ServidorCaido \/ UnlockUI \/ While \/ Join

Next == Getline \/ HiloUI \/ Main \/ Responder \/ SeCierra

Spec == Init /\ [][Next]_vars

\* The scheduler runs both threads and the server answers; nobody has to type.
FairSpec == Spec /\ WF_vars(HiloUI) /\ WF_vars(Main) /\ WF_vars(Responder)

-----------------------------------------------------------------------------
Comandos == Lineas \cup {Vacio}
Respuestas == [parte : {"invalido", "vacia", "basura", "entera", "inicio", "resto"},
               a : Comandos]

TypeOK ==
  /\ pcUI \in {"sinCrear", "getline", "reset", "extraer", "unlockConexion",
               "lockUI", "print", "exit"}
  /\ pcMain \in {"create", "lock", "validacion", "enviarMensaje",
                 "recibirRespuesta", "servidorCaido", "servidorCaidoUnlockUI",
                 "unlockUI", "while", "join", "fin", "muerto"}
  /\ semUI \in BOOLEAN /\ semConexion \in BOOLEAN
  /\ linea \in Comandos /\ comando \in Comandos
  /\ respuesta \in Respuestas /\ bufer \in Respuestas
  /\ conexion \in {"abierta", "cerrada", "reset"}
  /\ aServidor \in Seq(Comandos)
  /\ aCliente \in Seq(Respuestas)
  /\ tipeadas \in Nat /\ fuera \in BOOLEAN

EnTurnoDeMain == {"validacion", "enviarMensaje", "recibirRespuesta", "unlockUI"}

(* main works on the Comando only while the user interface waits for the   *)
(* answer, with the line typed complete in it (nntpClient.cpp:126-145      *)
(* against 41): it never validates or sends half a command.                *)
ComandoEnUnaMano ==
  pcMain \in EnTurnoDeMain => pcUI = "lockUI" /\ comando = linea

(* No unlock is lost: each mutex is locked when its waker unlocks it       *)
(* (nntpClient.cpp:42 and 145), so the threads never fall out of step.     *)
NingunUnlockPerdido ==
  /\ pcUI = "unlockConexion" /\ Vivo => ~ semConexion
  /\ pcMain = "unlockUI" => ~ semUI

(* The answer printed is the server's answer to the line just typed, or    *)
(* "Comando invalido.", unless an answer was longer than the buffer or the *)
(* connection was reset (nntpClient.cpp:44, 129, 144).                     *)
RespuestaDeLaLinea ==
  pcUI = "print" /\ pcMain \notin {"fin", "muerto"} =>
    \/ fuera
    \/ respuesta = IF linea.valida THEN Entera(linea) ELSE Invalido

Sesion == INSTANCE SesionNNTP WITH
  Comandos  <- Lineas,
  Ninguno   <- Vacio,
  pendiente <- IF pcMain = "recibirRespuesta" THEN comando ELSE Vacio,
  respuesta <- bufer,
  abierta   <- Vivo /\ pcMain \notin {"servidorCaido", "servidorCaidoUnlockUI"} /\ ~ fuera,
  Contesta  <- LAMBDA r, c : r = Entera(c)

(* NNTPClient is the client of a session with its server: it sends one     *)
(* command at a time, and the Comando it waits with (nntpClient.cpp:129)   *)
(* is not touched by the user interface until the answer is in it.         *)
CumpleSesion == Sesion!Spec

(* Every command but QUIT is answered, or the process ends because the     *)
(* server went away.                                                       *)
TodaLineaSeResponde ==
  pcUI = "lockUI" /\ linea.nombre # "QUIT" ~> pcUI = "print" \/ ~ Vivo

(* nntpClient.cpp:148 "espero a que termine el thread de la ui": it does   *)
(* end.                                                                    *)
LaUITermina == pcMain = "join" ~> pcMain = "fin"
=============================================================================
