--------------------------- MODULE MCNNTPServerBAM ---------------------------
(* Two articles of one newsgroup, written in two ways, with                *)
(* IDs as PublisherWin makes them; the commands of NNTPClient.             *)
(*                                                                         *)
(* Three scenarios: one client alone, that sends several commands; all of  *)
(* them, with a command each; and one client with one command about names  *)
(* that a query does not take well, while OpenDS answers and the directory  *)
(* stays as it is once a client connected: a parenthesis in the name of an *)
(* article's newsgroup, a pattern, and a long name.                        *)
EXTENDS NNTPServerBAM

VARIABLE escenario

Nombres == {"ole", "Ole", "clarin", "ole (uno)", "o*", "largo"}
MCMayusculas == [g \in Nombres |-> IF g = "ole" THEN "Ole" ELSE g]
MCLargo == [g \in Nombres |-> IF g = "largo" THEN 245 ELSE IF g = "ole (uno)" THEN 70 ELSE 6]
MCFiltro == [g \in Nombres \ {"ole (uno)"} |->
               IF g = "o*" THEN {"ole", "Ole", "ole (uno)"}
               ELSE {h \in Nombres : MismoGrupo(h, g)}]

MCNoticias == (305123045 :> [grupo |-> "ole", noticia |-> "n1"])
              @@ (305123046 :> [grupo |-> "Ole", noticia |-> "n2"])
              @@ (305123047 :> [grupo |-> "ole (uno)", noticia |-> "n3"])

MCComandos == {[nombre |-> "LIST"], [nombre |-> "QUIT"],
               [nombre |-> "LISTGROUP", grupo |-> "ole"],
               [nombre |-> "ARTICLE", grupo |-> "ole", id |-> 305123046]}
MCRaros == {[nombre |-> "LISTGROUP", grupo |-> g] : g \in {"ole (uno)", "o*", "largo"}}
           \cup {[nombre |-> "ARTICLE", grupo |-> g, id |-> 305123047] :
                   g \in {"ole (uno)", "o*"}}
MCTodos == MCComandos \cup MCRaros \cup
           {[nombre |-> "LISTGROUP", grupo |-> ""],
            [nombre |-> "STAT", grupo |-> "clarin", id |-> 305123045]}

MCConocidos == MCComandos \cup MCRaros

Comunes == MCTodos \ MCRaros
SoloComunes ==
  /\ 305123047 \notin DOMAIN bd
  /\ \A c \in Clientes : \A i \in DOMAIN pedidos[c] : pedidos[c][i] \in Comunes
UnaSesion == \A c, d \in Clientes : estado[c] # "libre" /\ estado[d] # "libre" => c = d
UnComandoCadaUno == \A c \in Clientes : Len(pedidos[c]) <= 1
BuscaNombres == openDSArriba' /\ (bd' = bd \/ \A c \in Clientes : estado[c] = "libre")

MCInit == Init /\ escenario \in {"unaSesion", "todos", "nombres"}

MCNext ==
  /\ Next
  /\ CASE escenario = "unaSesion" -> UnaSesion' /\ SoloComunes'
       [] escenario = "todos"     -> UnComandoCadaUno' /\ SoloComunes'
       [] escenario = "nombres"   -> UnaSesion' /\ UnComandoCadaUno' /\ BuscaNombres
  /\ escenario' = escenario

MCSpec == MCInit /\ [][MCNext]_<<vars, escenario>> /\ WF_vars(Servidor)
=============================================================================
