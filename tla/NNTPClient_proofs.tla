------------------------- MODULE NNTPClient_proofs -------------------------
(***************************************************************************)
(* The safety properties of NNTPClient for any set of lines, proved from   *)
(* an inductive invariant in two parts: Turno, who has the shared Comando  *)
(* and what the mutexes say of it, and Dialogo, what is in flight between  *)
(* client and server while every answer came whole.                        *)
(***************************************************************************)
EXTENDS NNTPClient, TLAPS

EnEspera == {"lock", "while", "join"}

Turno ==
  /\ pcMain = "create" => pcUI = "sinCrear"
  /\ pcUI = "sinCrear" => ~ semUI /\ ~ semConexion
                           /\ pcMain \in {"create", "fin"}
  /\ Vivo =>
       /\ pcUI \in {"unlockConexion", "lockUI", "print", "exit"}
            => comando = linea
       /\ pcUI \notin {"sinCrear", "lockUI"}
            => ~ semUI /\ ~ semConexion /\ pcMain \in EnEspera
       /\ semUI => ~ semConexion /\ pcMain \in EnEspera
       /\ semConexion => pcMain \in EnEspera \cup {"servidorCaidoUnlockUI"}

Correcta == IF linea.valida THEN Entera(linea) ELSE Invalido

Dialogo ==
  ~ fuera /\ Vivo =>
    /\ conexion # "reset"
    /\ pcMain \in {"create", "lock", "validacion", "enviarMensaje", "unlockUI",
                   "while", "join"}
         => aServidor = <<>> /\ aCliente = <<>>
    /\ pcMain \in {"enviarMensaje", "recibirRespuesta"} => linea.valida
    /\ pcMain = "recibirRespuesta" =>
         \/ aServidor = <<linea>> /\ aCliente = <<>>
         \/ aServidor = <<>> /\ aCliente = <<Entera(linea)>>
         \/ aServidor = <<>> /\ aCliente = <<>> /\ conexion = "cerrada"
    /\ pcMain = "unlockUI" \/ semUI \/ pcUI = "print" => respuesta = Correcta

IInv == TypeOK /\ Turno /\ Dialogo

-----------------------------------------------------------------------------
(* What the values of the model belong to.                                 *)

LEMMA Tipos ==
  /\ Vacio \in Comandos /\ Lineas \subseteq Comandos
  /\ Invalido \in Respuestas /\ SinRespuesta \in Respuestas
  /\ Basura \in Respuestas
  /\ \A c \in Comandos : /\ Entera(c) \in Respuestas /\ Inicio(c) \in Respuestas
                          /\ Resto(c) \in Respuestas
BY DEF Comandos, Respuestas, Vacio, Invalido, SinRespuesta, Basura, Entera,
       Inicio, Resto

\* One answer more, in one or two parts.
LEMMA Agregar ==
  ASSUME NEW S, NEW s \in Seq(S), NEW a \in S, NEW b \in S
  PROVE  Append(s, a) \in Seq(S) /\ s \o <<a, b>> \in Seq(S)
<1>1. <<a, b>> \in Seq(S)
  OBVIOUS
<1>2. QED
  BY <1>1

(* Type correctness: the two threads, the shared object and both streams   *)
(* keep to the values NNTPClient.cpp and Comando.cpp give them.            *)
THEOREM TipoCorrecto == Spec => []TypeOK
<1>1. Init => TypeOK
  <2> SUFFICES ASSUME Init PROVE TypeOK
    OBVIOUS
  <2>1. aServidor \in Seq(Comandos) /\ aCliente \in Seq(Respuestas)
    BY DEF Init
  <2>2. linea \in Comandos /\ comando \in Comandos
    BY Tipos DEF Init
  <2>3. respuesta \in Respuestas /\ bufer \in Respuestas
    BY Tipos DEF Init
  <2>4. QED
    BY <2>1, <2>2, <2>3 DEF Init, TypeOK
<1>2. TypeOK /\ [Next]_vars => TypeOK'
  <2> SUFFICES ASSUME TypeOK, [Next]_vars PROVE TypeOK'
    OBVIOUS
  <2> USE Tipos DEF TypeOK, hilos, datos, red, hist, Leida
  <2>1. CASE Getline
    BY <2>1 DEF Getline
  <2>2. CASE Reset
    BY <2>2 DEF Reset
  <2>3. CASE ExtraerNombreYParametro
    BY <2>3 DEF ExtraerNombreYParametro
  <2>4. CASE UnlockConexion
    BY <2>4 DEF UnlockConexion
  <2>5. CASE LockUI
    BY <2>5 DEF LockUI
  <2>6. CASE Imprimir
    BY <2>6 DEF Imprimir
  <2>7. CASE Create
    BY <2>7 DEF Create
  <2>8. CASE LockConexion
    BY <2>8 DEF LockConexion
  <2>9. CASE Validacion
    BY <2>9 DEF Validacion
  <2>10. CASE EnviarMensaje
    BY <2>10 DEF EnviarMensaje
  <2>11. CASE RecibirRespuesta
    BY <2>11 DEF RecibirRespuesta
  <2>12. CASE ServidorCaido
    BY <2>12 DEF ServidorCaido
  <2>13. CASE UnlockUI
    BY <2>13 DEF UnlockUI
  <2>14. CASE While
    BY <2>14 DEF While
  <2>15. CASE Join
    BY <2>15 DEF Join
  <2>16. CASE Responder
    <3>1. Head(aServidor) \in Comandos /\ Tail(aServidor) \in Seq(Comandos)
      BY <2>16 DEF Responder
    <3>2. aCliente' \in Seq(Respuestas)
      <4> DEFINE c == Head(aServidor)
      <4>1. Entera(c) \in Respuestas /\ Inicio(c) \in Respuestas
            /\ Resto(c) \in Respuestas
        BY <3>1, Tipos
      <4>2. \/ aCliente' = Append(aCliente, Entera(c))
            \/ aCliente' = aCliente \o <<Inicio(c), Resto(c)>>
        BY <2>16 DEF Responder
      <4> HIDE DEF c
      <4>3. aCliente \in Seq(Respuestas)
        OBVIOUS
      <4>4. Append(aCliente, Entera(c)) \in Seq(Respuestas)
            /\ aCliente \o <<Inicio(c), Resto(c)>> \in Seq(Respuestas)
        BY <4>1, <4>3, Agregar
      <4>5. QED
        BY <4>2, <4>4
    <3>3. QED
      BY <2>16, <3>1, <3>2 DEF Responder
  <2>17. CASE SeCierra
    BY <2>17 DEF SeCierra
  <2>18. CASE UNCHANGED vars
    BY <2>18 DEF vars
  <2>19. QED
    BY <2>1, <2>2, <2>3, <2>4, <2>5, <2>6, <2>7, <2>8, <2>9, <2>10, <2>11, <2>12, <2>13, <2>14, <2>15, <2>16, <2>17, <2>18 DEF Next, HiloUI, Main
<1>3. QED
  BY <1>1, <1>2, PTL DEF Spec

-----------------------------------------------------------------------------
(* The turns.                                                              *)

LEMMA TurnoInvariante == Spec => []Turno
<1>1. Init => Turno
  BY DEF Init, Turno, Vivo
<1>2. TypeOK /\ Turno /\ [Next]_vars => Turno'
  <2> SUFFICES ASSUME TypeOK, Turno, [Next]_vars PROVE Turno'
    OBVIOUS
  <2> USE DEF TypeOK, Turno, Vivo, EnEspera, hilos, datos, red, hist
  <2>1. CASE Getline
    BY <2>1 DEF Getline
  <2>2. CASE Reset
    BY <2>2 DEF Reset
  <2>3. CASE ExtraerNombreYParametro
    BY <2>3 DEF ExtraerNombreYParametro
  <2>4. CASE UnlockConexion
    BY <2>4 DEF UnlockConexion
  <2>5. CASE LockUI
    BY <2>5 DEF LockUI
  <2>6. CASE Imprimir
    BY <2>6 DEF Imprimir
  <2>7. CASE Create
    BY <2>7 DEF Create
  <2>8. CASE LockConexion
    BY <2>8 DEF LockConexion
  <2>9. CASE Validacion
    BY <2>9 DEF Validacion
  <2>10. CASE EnviarMensaje
    BY <2>10 DEF EnviarMensaje
  <2>11. CASE RecibirRespuesta
    BY <2>11 DEF RecibirRespuesta
  <2>12. CASE ServidorCaido
    BY <2>12 DEF ServidorCaido
  <2>13. CASE UnlockUI
    BY <2>13 DEF UnlockUI
  <2>14. CASE While
    BY <2>14 DEF While
  <2>15. CASE Join
    BY <2>15 DEF Join
  <2>16. CASE Responder
    BY <2>16 DEF Responder
  <2>17. CASE SeCierra
    BY <2>17 DEF SeCierra
  <2>18. CASE UNCHANGED vars
    BY <2>18 DEF vars
  <2>19. QED
    BY <2>1, <2>2, <2>3, <2>4, <2>5, <2>6, <2>7, <2>8, <2>9, <2>10, <2>11, <2>12, <2>13, <2>14, <2>15, <2>16, <2>17, <2>18 DEF Next, HiloUI, Main
<1>3. QED
  BY <1>1, <1>2, TipoCorrecto, PTL DEF Spec

(* main never works on a Comando the user interface is writing.            *)
THEOREM ComandoEnUnaManoSiempre == Spec => []ComandoEnUnaMano
<1>1. TypeOK /\ Turno => ComandoEnUnaMano
  BY DEF TypeOK, Turno, ComandoEnUnaMano, EnTurnoDeMain, EnEspera, Vivo
<1>2. QED
  BY <1>1, TipoCorrecto, TurnoInvariante, PTL

(* Neither thread unlocks a mutex that is unlocked already.                *)
THEOREM NingunUnlockPerdidoSiempre == Spec => []NingunUnlockPerdido
<1>1. TypeOK /\ Turno => NingunUnlockPerdido
  BY DEF TypeOK, Turno, NingunUnlockPerdido, EnEspera, Vivo
<1>2. QED
  BY <1>1, TipoCorrecto, TurnoInvariante, PTL

-----------------------------------------------------------------------------
(* The answers.                                                            *)

LEMMA DialogoInvariante == Spec => []Dialogo
<1>1. Init => Dialogo
  BY DEF Init, Dialogo, Vivo
<1>2. TypeOK /\ Turno /\ Dialogo /\ [Next]_vars => Dialogo'
  <2> SUFFICES ASSUME TypeOK, Turno, Dialogo, [Next]_vars PROVE Dialogo'
    OBVIOUS
  <2> USE DEF TypeOK, Turno, Dialogo, Vivo, EnEspera, Correcta, hilos, datos,
              red, hist, Leida
  <2>1. CASE Getline
    BY <2>1 DEF Getline
  <2>2. CASE Reset
    BY <2>2 DEF Reset
  <2>3. CASE ExtraerNombreYParametro
    BY <2>3 DEF ExtraerNombreYParametro
  <2>4. CASE UnlockConexion
    BY <2>4 DEF UnlockConexion
  <2>5. CASE LockUI
    BY <2>5 DEF LockUI
  <2>6. CASE Imprimir
    BY <2>6 DEF Imprimir
  <2>7. CASE Create
    BY <2>7 DEF Create
  <2>8. CASE LockConexion
    BY <2>8 DEF LockConexion
  <2>9. CASE Validacion
    BY <2>9 DEF Validacion
  <2>10. CASE EnviarMensaje
    BY <2>10 DEF EnviarMensaje
  <2>11. CASE RecibirRespuesta
    BY <2>11 DEF RecibirRespuesta
  <2>12. CASE ServidorCaido
    BY <2>12 DEF ServidorCaido
  <2>13. CASE UnlockUI
    BY <2>13 DEF UnlockUI
  <2>14. CASE While
    BY <2>14 DEF While
  <2>15. CASE Join
    BY <2>15 DEF Join
  <2>16. CASE Responder
    BY <2>16 DEF Responder
  <2>17. CASE SeCierra
    BY <2>17 DEF SeCierra
  <2>18. CASE UNCHANGED vars
    BY <2>18 DEF vars
  <2>19. QED
    BY <2>1, <2>2, <2>3, <2>4, <2>5, <2>6, <2>7, <2>8, <2>9, <2>10, <2>11, <2>12, <2>13, <2>14, <2>15, <2>16, <2>17, <2>18 DEF Next, HiloUI, Main
<1>3. QED
  BY <1>1, <1>2, TipoCorrecto, TurnoInvariante, PTL DEF Spec

(* What is printed answers the line just typed, as long as no answer was   *)
(* cut short and the connection was not reset.                             *)
THEOREM RespuestaDeLaLineaSiempre == Spec => []RespuestaDeLaLinea
<1>1. Dialogo => RespuestaDeLaLinea
  BY DEF Dialogo, RespuestaDeLaLinea, Correcta, Vivo
<1>2. QED
  BY <1>1, DialogoInvariante, PTL
-----------------------------------------------------------------------------
(* The session.                                                            *)

\* The user interface goes on with a line only when one was typed.
Tecleada == pcUI \notin {"sinCrear", "getline"} => linea \in Lineas

LEMMA TecleadaInvariante == Spec => []Tecleada
<1>1. Init => Tecleada
  BY DEF Init, Tecleada
<1>2. Tecleada /\ [Next]_vars => Tecleada'
  <2> SUFFICES ASSUME Tecleada, [Next]_vars PROVE Tecleada'
    OBVIOUS
  <2> USE DEF Tecleada, hilos, datos
  <2>1. CASE Getline
    BY <2>1 DEF Getline
  <2>2. CASE HiloUI
    BY <2>2 DEF HiloUI, Reset, ExtraerNombreYParametro, UnlockConexion, LockUI,
                Imprimir
  <2>3. CASE Main
    BY <2>3 DEF Main, Create, LockConexion, Validacion, EnviarMensaje,
                RecibirRespuesta, ServidorCaido, UnlockUI, While, Join
  <2>4. CASE Responder \/ SeCierra \/ UNCHANGED vars
    BY <2>4 DEF Responder, SeCierra, vars
  <2>5. QED
    BY <2>1, <2>2, <2>3, <2>4 DEF Next
<1>3. QED
  BY <1>1, <1>2, PTL DEF Spec

Guia == TypeOK /\ Turno /\ Dialogo /\ Tecleada

\* The session as the refinement mapping sees it.
Pendiente == IF pcMain = "recibirRespuesta" THEN comando ELSE Vacio
Abierta == /\ Vivo /\ pcMain \notin {"servidorCaido", "servidorCaidoUnlockUI"}
           /\ ~ fuera

\* A session that is over stays so.
LEMMA SesionAcabada ==
  ASSUME Guia, [Next]_vars, Abierta'
  PROVE  Abierta
<1> USE DEF Guia, TypeOK, Abierta, Vivo, hilos, datos, red, hist
<1>1. CASE Getline \/ HiloUI
  BY <1>1 DEF Getline, HiloUI, Reset, ExtraerNombreYParametro, UnlockConexion,
              LockUI, Imprimir
<1>2. CASE Main
  BY <1>2 DEF Main, Create, LockConexion, Validacion, EnviarMensaje,
              RecibirRespuesta, ServidorCaido, UnlockUI, While, Join
<1>3. CASE Responder \/ SeCierra \/ UNCHANGED vars
  BY <1>3 DEF Responder, SeCierra, vars
<1>4. QED
  BY <1>1, <1>2, <1>3 DEF Next

\* What is sent is the line typed.
LEMMA SesionEnvia ==
  ASSUME Guia, EnviarMensaje, Abierta'
  PROVE  /\ Pendiente = Vacio /\ Pendiente' \in Lineas
         /\ bufer' = bufer
<1>1. /\ pcMain = "enviarMensaje" /\ pcMain' = "recibirRespuesta"
      /\ UNCHANGED <<comando, bufer>>
  BY DEF EnviarMensaje, Abierta, Vivo, datos
<1>2. pcUI = "lockUI" /\ comando = linea
  BY <1>1 DEF Guia, TypeOK, Turno, Vivo, EnEspera
<1>3. linea \in Lineas
  BY <1>2 DEF Guia, Tecleada
<1>4. QED
  BY <1>1, <1>2, <1>3 DEF Pendiente

\* What is received answers it.
LEMMA SesionRecibe ==
  ASSUME Guia, RecibirRespuesta, Abierta, Abierta'
  PROVE  /\ Pendiente # Vacio /\ Pendiente' = Vacio
         /\ bufer' = Entera(Pendiente)
<1>1. /\ pcMain = "recibirRespuesta" /\ pcMain' = "unlockUI"
      /\ respuesta' # SinRespuesta /\ bufer' = respuesta'
  BY DEF RecibirRespuesta, Abierta, Vivo
<1>2. pcUI = "lockUI" /\ comando = linea
  BY <1>1 DEF Guia, TypeOK, Turno, Vivo, EnEspera
<1>3. linea \in Lineas /\ linea # Vacio
  <2>1. linea \in Lineas
    BY <1>2 DEF Guia, Tecleada
  <2>2. linea.nombre \in {"QUIT", "OTRO"}
    BY <2>1, NNTPClientAssumption
  <2>3. Vacio.nombre = ""
    BY DEF Vacio
  <2>4. QED
    BY <2>1, <2>2, <2>3
<1>4. aCliente # <<>> /\ respuesta' = Head(aCliente) /\ conexion # "reset"
  BY <1>1 DEF RecibirRespuesta, Leida, Guia, Dialogo, Abierta
<1>5. aCliente = <<Entera(linea)>>
  BY <1>1, <1>4 DEF Guia, Dialogo, Abierta, Vivo
<1>6. respuesta' = Entera(linea)
  BY <1>4, <1>5
<1>7. QED
  BY <1>1, <1>2, <1>3, <1>6 DEF Pendiente

\* Nothing else is part of the session.
LEMMA SesionQuieta ==
  ASSUME Guia, [Next]_vars, ~ EnviarMensaje, ~ RecibirRespuesta, Abierta
  PROVE  Pendiente' = Pendiente /\ bufer' = bufer
<1> USE DEF Pendiente, hilos, datos
<1>1. CASE Getline \/ HiloUI
  <2>1. pcMain' = pcMain /\ bufer' = bufer
    BY <1>1 DEF Getline, HiloUI, Reset, ExtraerNombreYParametro, UnlockConexion,
                LockUI, Imprimir
  <2>2. pcMain = "recibirRespuesta" => pcUI = "lockUI"
    BY DEF Guia, TypeOK, Turno, Vivo, EnEspera
  <2>3. pcUI = "lockUI" => comando' = comando
    BY <1>1 DEF Getline, HiloUI, Reset, ExtraerNombreYParametro, UnlockConexion,
                LockUI, Imprimir
  <2>4. QED
    BY <2>1, <2>2, <2>3
<1>2. CASE Main
  BY <1>2 DEF Main, Create, LockConexion, Validacion, ServidorCaido, UnlockUI,
              While, Join
<1>3. CASE Responder \/ SeCierra \/ UNCHANGED vars
  BY <1>3 DEF Responder, SeCierra, vars
<1>4. QED
  BY <1>1, <1>2, <1>3 DEF Next

(* NNTPClient is the client of a session, for any lines: it sends only     *)
(* lines that were typed whole, one at a time, and the answer it takes is  *)
(* to the Comando it waits with, which the user interface does not touch   *)
(* meanwhile (nntpClient.cpp:129).                                         *)
THEOREM CumpleSesionSiempre == Spec => CumpleSesion
<1>1. Init => Sesion!Init
  <2> SUFFICES ASSUME Init PROVE Sesion!Init
    OBVIOUS
  <2>1. Pendiente = Vacio /\ Abierta
    BY DEF Init, Pendiente, Abierta, Vivo
  <2>2. QED
    BY <2>1 DEF Sesion!Init, Pendiente, Abierta
<1>2. Guia /\ [Next]_vars => [Sesion!Next]_(Sesion!vars)
  <2> SUFFICES ASSUME Guia, [Next]_vars PROVE [Sesion!Next]_(Sesion!vars)
    OBVIOUS
  <2>1. CASE ~ Abierta'
    BY <2>1 DEF Sesion!Next, Sesion!Terminar, Abierta
  <2>2. ASSUME Abierta' PROVE [Sesion!Next]_(Sesion!vars)
    <3>1. Abierta /\ Abierta' = Abierta
      <4>1. Abierta
        BY <2>2, SesionAcabada
      <4>2. Abierta = TRUE /\ Abierta' = TRUE
        BY <4>1, <2>2, Zenon DEF Abierta
      <4>3. QED
        BY <4>1, <4>2
    <3>2. CASE EnviarMensaje
      <4>1. Pendiente = Vacio /\ Pendiente' \in Lineas /\ bufer' = bufer
        BY <2>2, <3>2, SesionEnvia
      <4>2. Sesion!Enviar
        BY <3>1, <4>1 DEF Sesion!Enviar, Pendiente, Abierta
      <4>3. QED
        BY <4>2 DEF Sesion!Next
    <3>3. CASE RecibirRespuesta
      <4>1. Pendiente # Vacio /\ Pendiente' = Vacio /\ bufer' = Entera(Pendiente)
        BY <2>2, <3>1, <3>3, SesionRecibe
      <4>2. Sesion!Responder
        BY <3>1, <4>1 DEF Sesion!Responder, Pendiente, Abierta
      <4>3. QED
        BY <4>2 DEF Sesion!Next
    <3>4. CASE ~ EnviarMensaje /\ ~ RecibirRespuesta
      <4>1. Pendiente' = Pendiente /\ bufer' = bufer
        BY <3>1, <3>4, SesionQuieta
      <4>2. QED
        BY <3>1, <4>1 DEF Sesion!vars, Pendiente, Abierta
    <3>5. QED
      BY <3>2, <3>3, <3>4
  <2>3. QED
    BY <2>1, <2>2
<1>3. QED
  BY <1>1, <1>2, TipoCorrecto, TurnoInvariante, DialogoInvariante,
     TecleadaInvariante, PTL DEF Spec, CumpleSesion, Sesion!Spec, Guia
=============================================================================
