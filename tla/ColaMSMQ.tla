------------------------------- MODULE ColaMSMQ -------------------------------
(***************************************************************************)
(* The private MSMQ queue colaDeNoticias between XMLNewsPS and             *)
(* NNTPProcessServer, through the operations of MsmqProcess: insertarMensaje*)
(* appends, desencolarMensaje receives the head and removes it at once (no *)
(* transaction).  The queue belongs to MSMQ and outlives both processes.   *)
(*                                                                         *)
(* A message is the XML of an article, or Basura: a body that does not     *)
(* parse.                                                                  *)
(***************************************************************************)
EXTENDS Sequences

Basura == [tipo |-> "basura"]
XmlDe(m) == [tipo |-> "noticia", id |-> m.id, grupo |-> m.grupo,
             noticia |-> m.noticia]

insertarMensaje(cola, m) == Append(cola, m)

\* Receive waits one second; NULL when the queue stays empty.
HayMensaje(cola) == cola # <<>>
MensajeRecibido(cola) == Head(cola)

\* Mutant of desencolarMensaje: peeking at the message leaves it in the queue.
mirarMensaje(cola) == cola

desencolarMensaje(cola) == Tail(cola)
=============================================================================
