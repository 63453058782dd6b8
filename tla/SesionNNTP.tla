------------------------------ MODULE SesionNNTP ------------------------------
(***************************************************************************)
(* What NNTPClient and NNTPServerBAM promise each other: while the session *)
(* lasts, the client sends a command only when it has the answer to the    *)
(* one before, and every answer is to the command pending.  NNTPClient     *)
(* sends (NNTPClientDAO::enviarMensaje) and waits (recibirRespuesta); the  *)
(* server reads, executes and writes in one round of its loop.             *)
(***************************************************************************)
CONSTANTS Comandos, Ninguno,
          Contesta(_, _)  \* whether an answer is one to a command

VARIABLES pendiente,  \* the command without an answer, or Ninguno
          respuesta,  \* the last answer
          abierta     \* the session lasts

vars == <<pendiente, respuesta, abierta>>

Init == pendiente = Ninguno /\ abierta = TRUE

Enviar ==
  /\ abierta /\ pendiente = Ninguno
  /\ pendiente' \in Comandos
  /\ UNCHANGED <<respuesta, abierta>>

Responder ==
  /\ abierta /\ pendiente # Ninguno
  /\ pendiente' = Ninguno
  /\ Contesta(respuesta', pendiente)
  /\ abierta' = abierta

\* Either side is gone, or out of step with the other: nothing is promised.
Terminar == abierta' = FALSE

Next == Enviar \/ Responder \/ Terminar

Spec == Init /\ [][Next]_vars
=============================================================================
