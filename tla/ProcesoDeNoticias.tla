-------------------------- MODULE ProcesoDeNoticias --------------------------
(***************************************************************************)
(* NNTPProcessServer on its own: anything XMLNewsPS may have put in the    *)
(* queue arrives there, OpenDS comes and goes, the process may die.        *)
(***************************************************************************)
EXTENDS NNTPProcessServer

CONSTANT MaxRecibidos  \* bound on the messages XMLNewsPS enqueues

ASSUME MaxRecibidosAssumption == MaxRecibidos \in Nat

VARIABLE recibidos  \* history: the messages XMLNewsPS enqueued, in order

vars == <<psVars, cola, bd, openDSArriba, histPS, recibidos>>

Init == InitPS /\ recibidos = <<>>

\* insertarMensaje by a thread of XMLNewsPS.
Recibir(m) ==
  /\ Len(recibidos) < MaxRecibidos
  /\ cola' = insertarMensaje(cola, m)
  /\ recibidos' = Append(recibidos, m)
  /\ UNCHANGED <<psVars, bd, openDSArriba, histPS>>

Entorno == EntornoOpenDS \/ CaidaPS \/ ArranquePS

Next ==
  \/ (SistemaPS \/ Entorno) /\ UNCHANGED recibidos
  \/ \E m \in Articulos \cup {Basura} : Recibir(m)

Spec == Init /\ [][Next]_vars

\* main runs by itself; nobody promises to start it again, to enqueue, or to
\* keep OpenDS up.
FairSpec == Spec /\ WF_vars(SistemaPS /\ UNCHANGED recibidos)

-----------------------------------------------------------------------------
Entradas == {EntradaDe(m) : m \in Articulos} \cup {ArticuloDePrueba}

TypeOK ==
  /\ pcPS \in {"conectar", "borrarPrueba", "sleep", "reconectar",
               "borrarPruebaReconexion", "desencolar", "insertar", "reencolar",
               "terminado", "muerto"}
  /\ mano \in Articulos \cup {Basura, NoMensaje}
  /\ sesion \in [memoria : {"valida", "liberada"}, errorCode : Codigos]
  /\ openDSEstaCaido \in BOOLEAN
  /\ cola \in Seq(Articulos \cup {Basura})
  /\ DOMAIN bd \subseteq Nat /\ bd \in [DOMAIN bd -> Entradas]
  /\ openDSArriba \in BOOLEAN
  /\ rechazadas \subseteq Articulos
  /\ perdidasPS \subseteq Articulos
  /\ recibidos \in Seq(Articulos \cup {Basura})

En(m, s) == \E i \in DOMAIN s : s[i] = m

EnCola(m) == En(m, cola)

Copias(m, s) == Cardinality({i \in DOMAIN s : s[i] = m})

(* An article that reached the queue is still in it, or being stored, or   *)
(* in the directory, or OpenDS refused it (its ID was taken, or an error   *)
(* other than 81), or the process died with it: OpenDS stopping at any     *)
(* point of NNTPProcessServer.cpp:155-180, with the session freed or not,  *)
(* loses nothing.                                                          *)
NadaSePierde ==
  \A i \in DOMAIN recibidos :
    LET m == recibidos[i]
    IN m = Basura \/ EnCola(m) \/ mano = m \/ Guardada(m)
         \/ m \in rechazadas \cup perdidasPS

(* Putting a message back (NNTPProcessServer.cpp:277-281) never multiplies *)
(* it: whatever OpenDS does between the dequeue and the re-enqueue, there  *)
(* are no more copies of a message around than XMLNewsPS enqueued.         *)
CopiasNoCrecen ==
  \A m \in Articulos \cup {Basura} :
    Copias(m, cola) + (IF mano = m THEN 1 ELSE 0) <= Copias(m, recibidos)

-----------------------------------------------------------------------------
EnMarcha == pcPS \notin {"muerto", "terminado"}

(* If from some moment on OpenDS stays up, the process alive and its       *)
(* session the one it opened last, every article in the queue is stored or *)
(* refused (or died with an earlier process): the sticky errorCode, the    *)
(* re-enqueueing and the reconnection (NNTPProcessServer.cpp:155-180) do   *)
(* not turn in circles.                                                    *)
Drenaje ==
  <>[](openDSArriba /\ EnMarcha /\ sesion.memoria = "valida") =>
    \A m \in Articulos : EnCola(m) ~> (Guardada(m) \/ m \in rechazadas \cup perdidasPS)

(* NNTPProcessServer.cpp:171 logs "Reconexion con OpenDS OK.": the session *)
(* the next articles are stored through is connected.                      *)
ReconexionOK ==
  [][pcPS = "borrarPruebaReconexion" /\ pcPS' = "desencolar"
       => sesion'.memoria = "valida"]_vars
=============================================================================
