----------------------------- MODULE MCHTTPServer -----------------------------
(* Two scenarios.  In "hilos" there is one article, asked for by its       *)
(* newsgroup and by another one, and threads run together.  In "enSerie"   *)
(* there is one thread at a time, the directory stays as it is and OpenDS  *)
(* up, and there are also a URL typed without ".html" and articles of      *)
(* newsgroups whose names do not fit in a link (an accent, a "#") or in    *)
(* the criterion of a search (a parenthesis).                              *)
EXTENDS HTTPServer

VARIABLE escenario

Ole == <<"ole">>
OleUno == <<"ole", " ", "uno">>
Movil == <<"m", "o_acento", "vil">>
OleDos == <<"ole", " ", "(dos)">>
OleTres == <<"ole", "#", "3">>

\* Names as they are, as a URL writes them and as the threads may read them.
MCMayusculas == [g \in {Ole, OleUno, Movil, OleDos, OleTres,
                        <<"ole", "%20", "uno">>, <<"ole", "%20", "(dos)">>,
                        <<"m", "%C3", "%B3", "vil">>, <<"m", " ", " ", "vil">>,
                        <<"ole", " ", "HTTP">>} |-> g]

MCLargo == [g \in DOMAIN MCMayusculas |-> IF g = OleTres THEN 70 ELSE 10]
MCFiltro == [g \in {h \in DOMAIN MCMayusculas : Last(h) # "(dos)"} |-> {g}]

MCEscapes == {"%20", "%C3", "%B3"}
MCCortes == {"#", "comillas"}
MCCodificar == (" " :> <<"%20">>) @@ ("o_acento" :> <<"%C3", "%B3">>)

Id1 == <<"112203344">>
Id2 == <<"112203345">>
Id3 == <<"112203346">>
Id4 == <<"112203347">>
MCNoticias == (Id1 :> [grupo |-> OleUno, noticia |-> "n1"])
              @@ (Id2 :> [grupo |-> Movil, noticia |-> "n2"])
              @@ (Id3 :> [grupo |-> OleDos, noticia |-> "n3"])
              @@ (Id4 :> [grupo |-> OleTres, noticia |-> "n4"])

Noticia(g, i) == [tipo |-> "noticia", grupo |-> g, id |-> i]

PedidosDeHilos == {Noticia(OleUno, Id1), Noticia(Ole, Id1),
                   [tipo |-> "grupo", grupo |-> OleUno],
                   [tipo |-> "index"], [tipo |-> "favicon"]}

MCPedidos == PedidosDeHilos \cup
             {Noticia(Movil, Id2), [tipo |-> "tecleada", grupo |-> Ole],
              Noticia(OleDos, Id3), [tipo |-> "grupo", grupo |-> OleDos],
              Noticia(OleTres, Id4)}

ASSUME MCPedidosClaros == PedidosClaros

UnaNoticia == DOMAIN bd \subseteq {Id1}
Sencillos == \A c \in Clientes : pedidos[c] \in PedidosDeHilos \cup {SinPedido}
EnSerie ==
  /\ Cardinality({t \in Hilos : hilos[t].pc # "libre"}) <= 1
  /\ openDSArriba
  /\ \A c \in Clientes : pedidos[c] # SinPedido => Aceptado(c) \/ estado[c] # "abierto"

DirectorioChico == DOMAIN bd \subseteq {Id1, Id2} \/ DOMAIN bd \in {{Id3}, {Id4}}

MCInit == /\ Init
          /\ \/ escenario = "hilos" /\ UnaNoticia
             \/ escenario = "enSerie" /\ DirectorioChico

MCNext ==
  /\ Next
  /\ IF escenario = "hilos" THEN UnaNoticia' /\ Sencillos' ELSE EnSerie' /\ bd' = bd
  /\ escenario' = escenario

MCSpec == MCInit /\ [][MCNext]_<<vars, escenario>>
          /\ WF_vars(Main) /\ \A t \in Hilos : WF_vars(Hilo(t))
=============================================================================
