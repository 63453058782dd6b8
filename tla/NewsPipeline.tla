---------------------------- MODULE NewsPipeline ----------------------------
(***************************************************************************)
(* The whole way of an article: PublisherWin, XMLNewsPS, the MSMQ queue,   *)
(* NNTPProcessServer and OpenDS, each a process of its own.                *)
(***************************************************************************)
EXTENDS Publicacion

CONSTANT Prueba  \* the ID of the LDAP probe

ASSUME PruebaFueraDeRango == Prueba \notin Ids

VARIABLES pcPS, mano, sesion, openDSEstaCaido, bd, openDSArriba,
          rechazadas, perdidasPS

\* The messages with an article that may come out of the queue.
MensajesPosibles == {Mensaje(i, n) : i \in Ids, n \in Noticias}

Articulos == {Servidor!XmlDe(m) : m \in MensajesPosibles}

Proceso == INSTANCE NNTPProcessServer

soloProceso == <<pcPS, mano, sesion, openDSEstaCaido, bd, openDSArriba,
                 rechazadas, perdidasPS>>
todoMenosCola == <<vars, mainXml, stParameters, hilos, confirmadas, encoladas,
                   perdidas>>
varsPipeline == <<varsPublicacion, soloProceso>>

InitPipeline == InitPublicacion /\ Proceso!InitPS

PasoProceso ==
  /\ \/ Proceso!SistemaPS
     \/ "opends" \in Caidas /\ Proceso!EntornoOpenDS
     \/ "procesador" \in Caidas /\ Proceso!CaidaPS
     \/ Proceso!ArranquePS
  /\ UNCHANGED todoMenosCola

NextPipeline ==
  \/ NextPublicacion /\ UNCHANGED soloProceso
  \/ PasoProceso

SpecPipeline == InitPipeline /\ [][NextPipeline]_varsPipeline

-----------------------------------------------------------------------------
Tablero == [i \in DOMAIN bd \ {Prueba} |-> bd[i]]

Entrega == INSTANCE NewsDelivery WITH
             Mensajes <- MensajesPosibles, publicadas <- Enviables,
             tablero <- Tablero

(* The pipeline implements NewsDelivery: through lost updates of the file, *)
(* articles sent twice, messages put back in the queue, probes of three    *)
(* programs and the freed session, readers find an article only if it was  *)
(* published, under its own ID and with its text as encoding() left it,    *)
(* and never see it change or go away.                                     *)
CumpleEntrega == Entrega!Spec

EnManoDelServidor(m) == \E t \in Servidor!EnMano : hilos[t].payload = m

EnElTablero(m) == m.id \in DOMAIN Tablero /\ Tablero[m.id] = Proceso!EntradaDe(m)

EnCamino(m) ==
  EnLaCola(m) \/ EnManoDelServidor(m) \/ mano = m \/ EnElTablero(m)

(* Once PublisherWin has marked an article as transmitted it will not send *)
(* it again, so from then on it must be somewhere on its way or in OpenDS. *)
(* It is, unless a process died holding it, OpenDS refused it, or its XML  *)
(* was longer than BUFFERSIZE.                                             *)
TransmitidaEnCamino ==
  \A m \in Marcadas \ perdidas :
    m.noticia \in Largas \/ EnCamino(m) \/ m \in rechazadas \cup perdidasPS
=============================================================================
