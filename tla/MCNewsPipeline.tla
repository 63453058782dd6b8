---------------------------- MODULE MCNewsPipeline ----------------------------
(* The whole pipeline with one thread of each kind that may overlap, in    *)
(* three scenarios: two articles of two seconds, where only PublisherWin   *)
(* may die; and one article, where PublisherWin, NNTPProcessServer and     *)
(* OpenDS may die at any step, or XMLNewsPS alone.                         *)
EXTENDS NewsPipeline

VARIABLE escenario

MCEncoding == [n \in Noticias |-> IF n = "n2" THEN "n2 sin tildes" ELSE n]

Unica == "n1"

MCInit == InitPipeline /\ escenario \in {"dosArticulos", "fallas", "caeXml"}

UnArticulo == hora' = hora /\ pub'.noticia \in {Unica, NoNoticia}

DosArticulos ==
  /\ \/ NextPublicacion /\ UNCHANGED soloProceso
     \/ Proceso!SistemaPS /\ UNCHANGED todoMenosCola
  /\ xmlArriba'

Fallas == NextPipeline /\ UnArticulo /\ xmlArriba'

CaeXml ==
  /\ \/ SistemaPublisher /\ UNCHANGED <<soloXml, soloProceso>>
     \/ PasoXml /\ UNCHANGED soloProceso
     \/ Proceso!SistemaPS /\ UNCHANGED todoMenosCola
  /\ UnArticulo

MCNext ==
  /\ \/ escenario = "dosArticulos" /\ DosArticulos
     \/ escenario = "fallas" /\ Fallas
     \/ escenario = "caeXml" /\ CaeXml
  /\ UNCHANGED escenario

MCSpec == MCInit /\ [][MCNext]_<<varsPipeline, escenario>>
=============================================================================
