---------------------------- MODULE NewsDelivery ----------------------------
(***************************************************************************)
(* What the news system promises its readers, whatever the processes, the  *)
(* network, the queue and the directory go through: the board holds only   *)
(* articles a journalist published, under the ID they were published with, *)
(* and an article that is on the board stays as it is.                     *)
(***************************************************************************)
CONSTANTS Mensajes  \* the articles there may be: ID, newsgroup and text

VARIABLES publicadas,  \* the articles published so far
          tablero      \* what a reader may find: the articles by ID

Publicar ==
  /\ \E m \in Mensajes : publicadas' = publicadas \cup {m}
  /\ UNCHANGED tablero

\* The first article to arrive under an ID is the one readers will see.
Entregar ==
  /\ \E m \in publicadas :
       /\ m.id \notin DOMAIN tablero
       /\ tablero' = [i \in DOMAIN tablero \cup {m.id} |->
                      IF i = m.id THEN [grupo |-> m.grupo, noticia |-> m.noticia]
                                  ELSE tablero[i]]
  /\ UNCHANGED publicadas

Init == publicadas = {} /\ tablero = [i \in {} |-> {}]
Next == Publicar \/ Entregar
Spec == Init /\ [][Next]_<<publicadas, tablero>>
=============================================================================
