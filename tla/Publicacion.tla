----------------------------- MODULE Publicacion -----------------------------
(***************************************************************************)
(* PublisherWin and XMLNewsPS together: from the article typed to the      *)
(* message in the queue, over the TCP connections of Red.                  *)
(***************************************************************************)
EXTENDS Publisher, FiniteSets

CONSTANTS Hilos,  \* client threads of XMLNewsPS
          Largas, \* texts that make an XML longer than BUFFERSIZE
          Caidas  \* the processes that may die in this instance

ASSUME CaidasAssumption == Caidas \subseteq {"publisher", "xml", "procesador", "opends"}

VARIABLES mainXml, stParameters, hilos, cola, confirmadas, encoladas, perdidas

Servidor == INSTANCE XMLNewsPS WITH Noticias <- Textos

soloXml == <<mainXml, stParameters, hilos, cola, confirmadas, encoladas, perdidas>>
varsPublicacion == <<vars, soloXml>>

InitPublicacion == Init /\ Servidor!InitXml

PasoPublisher ==
  /\ \/ SistemaPublisher
     \/ "publisher" \in Caidas /\ CaidaPublisher
  /\ UNCHANGED soloXml

PasoXml ==
  /\ \/ Servidor!SistemaXml
     \/ "xml" \in Caidas /\ Servidor!CaidaXml
     \/ Servidor!ArranqueXml
  /\ UNCHANGED pubVars

NextPublicacion == PasoPublisher \/ PasoXml

SpecPublicacion == InitPublicacion /\ [][NextPublicacion]_varsPublicacion

-----------------------------------------------------------------------------
Guardados == [noticia : Noticias, transmitted : {"0", "1"}]

EsPagina(p) == DOMAIN p \subseteq Ids /\ \A i \in DOMAIN p : p[i] \in Guardados

EsCache(c) == c.leida \in BOOLEAN /\ c.sucia \in BOOLEAN /\ EsPagina(c.pagina)

TypeOKPublisher ==
  /\ hora \in Ids
  /\ EsPagina(archivo)
  /\ pub.pc \in {"ingreso", "createDb", "putArticle", "closeDb", "pregunta", "fin"}
  /\ pub.noticia \in Noticias \cup {NoNoticia}
  /\ pub.id \in Ids \cup {0}
  /\ EsCache(pub.cache)
  /\ \A s \in Senders :
       /\ snd[s].pc \in {"libre", "c_get", "connect", "recvHandshake", "sendXml",
                         "recvRespuesta", "put", "closeDb"}
       /\ snd[s].key \in Ids \cup {0}
       /\ snd[s].con \in Conexiones \cup {NoConexion}
       /\ EsCache(snd[s].cache)

\* The XML of every article marked as transmitted.
Marcadas == {Servidor!XmlDe(Mensaje(i, archivo[i].noticia)) :
               i \in {j \in DOMAIN archivo : archivo[j].transmitted = "1"}}

(* An article marked as transmitted in the file was acknowledged by        *)
(* XMLNewsPS: no reply meant for another stage or another sender, no       *)
(* connection lost half way, no page written back by another thread makes  *)
(* the mark appear (xmlFunctions.c:230-244, berkeleyFunctions.c:93-98).    *)
MarcadaFueConfirmada == Marcadas \subseteq confirmadas

EnLaCola(m) == \E i \in DOMAIN cola : cola[i] = m

(* And unless XMLNewsPS died in between, it is in the queue or about to be *)
(* put there, except an XML longer than BUFFERSIZE.                        *)
MarcadaLlega ==
  \A m \in Marcadas \ perdidas :
    \/ m.noticia \in Largas
    \/ EnLaCola(m)
    \/ \E t \in Servidor!EnMano : hilos[t].payload = m

\* The articles closeDb has written, as their XML carries them.
Enviables == {Mensaje(p.id, p.noticia) : p \in publicadas}

(* A journalist's article is never sent under an ID it was not stored with, *)
(* nor with a text other than what encoding() makes of the one it was       *)
(* stored with (xmlFunctions.c:34-59, 75-76): every XML on its way, in a    *)
(* thread or in the queue is that of an article some closeDb wrote.         *)
SoloLoPublicado ==
  /\ \A c \in Conexiones : \A i \in DOMAIN con[c].aServidor :
       con[c].aServidor[i].tipo = "xml"
         => con[c].aServidor[i].noticia \in Enviables
  /\ \A t \in Hilos : Servidor!Trae(t) =>
       \E m \in Enviables : hilos[t].payload = Servidor!XmlDe(m)
  /\ \A i \in DOMAIN cola :
       cola[i] # Servidor!Basura => \E m \in Enviables : cola[i] = Servidor!XmlDe(m)

(* berkeleyFunctions.c:199 says "Articulo guardado:" of an article: from    *)
(* then on it is in the file.                                               *)
GuardadoQueda ==
  \A p \in publicadas : p.id \in DOMAIN archivo
                        /\ archivo[p.id].noticia = p.noticia
=============================================================================
