------------------------------ MODULE MCSoporte ------------------------------
(* Machines the programs have of their own, in one run: the reading of the *)
(* configuration, the log, and a query of a reader.  Only one of them      *)
(* moves in a behaviour.                                                   *)
EXTENDS Configuracion, Logger, ResultSetLDAP, TLC

VARIABLE escenario

MCMaxLineas == (1 :> 2) @@ (2 :> 1)

Texto(k) == IF EsPuerto(k) THEN "puerto" ELSE "ip"
DeClaves(ks) == [i \in DOMAIN ks |-> [clave |-> ks[i], texto |-> Texto(ks[i])]]
Pedida(p, ls, cr, fin) ==
  [programa |-> p, origen |-> "archivo", lineas |-> ls, conCR |-> cr, conFin |-> fin]

Archivo(p) == DeClaves(Reverse(Claves[p]))

\* Every file of up to four lines of the keys of NNTPServerBAM, and of up to
\* three of those of NNTPClient.
HastaCuatro == UNION {{DeClaves(ks) : ks \in [1..n -> ToSet(Claves.NNTPServerBAM)]} : n \in 0..4}
HastaTres == UNION {{DeClaves(ks) : ks \in [1..n -> ToSet(Claves.NNTPClient)]} : n \in 0..3}

\* The file of the repository with two lines exchanged, one of them missing,
\* repeated, a comment or a blank line before it, or its text spoiled.
Cambios(a) ==
  {[a EXCEPT ![i] = a[j], ![j] = a[i]] : i, j \in DOMAIN a}
  \cup {RemoveAt(a, i) : i \in DOMAIN a}
  \cup {InsertAt(a, i, l) : i \in 1..Len(a) + 1,
                            l \in ToSet(a) \cup {[clave |-> c, texto |-> "otro"] : c \in {"#", ""}}}
  \cup {[a EXCEPT ![i].texto = t] : i \in DOMAIN a, t \in {"", "otro", "ip", "puerto"}}

Archivos(p) == Cambios(Archivo(p)) \cup
               CASE p = "NNTPServerBAM" -> HastaCuatro
                 [] p = "NNTPClient" -> HastaTres
                 [] OTHER -> {}

MCPedidas ==
  UNION {{Pedida(p, ls, cr, fin) : ls \in Archivos(p), cr, fin \in BOOLEAN} : p \in DOMAIN Claves}
  \cup {[programa |-> p, origen |-> "argumentos", lineas |-> [Archivo(p) EXCEPT ![i].texto = t],
         conCR |-> FALSE, conFin |-> FALSE] :
          p \in {"NNTPServerBAM", "NNTPClient"}, i \in 1..2, t \in {"puerto", "ip", "otro"}}

\* Three articles, two of them of a newsgroup written in two ways; a pattern that
\* finds all of them, and a name whose criterion does not parse.
MCNombres == {"Ole", "ole", "movil", "*", "(ole"}
MCMayusculas == [g \in MCNombres |-> IF g = "Ole" THEN "ole" ELSE g]
MCLargo == [g \in MCNombres |-> 5]
MCFiltro == [g \in MCNombres \ {"(ole"} |->
               IF g = "*" THEN MCNombres ELSE {h \in MCNombres : MismoGrupo(h, g)}]
MCEntradas == <<[grupo |-> "ole", noticia |-> "n1"], [grupo |-> "Ole", noticia |-> "n2"],
                [grupo |-> "movil", noticia |-> "n3"]>>
MCBusquedas == [tipo : Tipos, grupo : {"ole", "*", "(ole"}, id : {2}]

Ninguna == Pedida("NNTPClient", <<>>, FALSE, FALSE)

\* The machines that do not move start in one way only.
MCInit ==
  /\ escenario \in {"configuracion", "log", "consulta"}
  /\ InitConf /\ InitLog /\ InitRS
  /\ escenario # "configuracion" => pedida = Ninguna
  /\ escenario # "log" => variante = "win"
  /\ escenario # "consulta" => busqueda.tipo = "getArticle" /\ \A id \in DOMAIN Entradas : directorio[id]

MCNext ==
  /\ \/ escenario = "configuracion" /\ NextConf /\ UNCHANGED <<varsLog, varsRS>>
     \/ escenario = "log" /\ NextLog /\ UNCHANGED <<varsConf, varsRS>>
     \/ escenario = "consulta" /\ NextRS /\ UNCHANGED <<varsConf, varsLog>>
  /\ escenario' = escenario

MCSpec == MCInit /\ [][MCNext]_<<varsConf, varsLog, varsRS, escenario>>
=============================================================================
