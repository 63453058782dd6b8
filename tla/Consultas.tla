------------------------------ MODULE Consultas ------------------------------
(***************************************************************************)
(* The queries of the two readers, NNTPServerBAM and HTTPServer, over the  *)
(* directory: LdapWrapperHandler (getArticle, selectEntries,               *)
(* selectArticles) and util.c on top of it.  A directory is a function     *)
(* from article IDs to entries [grupo, noticia], as in OpenDS.  OpenDS     *)
(* compares names of newsgroups without regard to case, and so does        *)
(* quitarRepetidos, through pasarAMayusculas.                              *)
(*                                                                         *)
(* A search gives no result set (NULL) on any error of ldap_search_ext_s:  *)
(* OpenDS cannot be reached, or does not want to answer; the session the   *)
(* readers open when they start, and never again, is lost; or the library  *)
(* cannot parse the criterion.  The name asked for goes into the criterion *)
(* as it is: a parenthesis in it, or a backslash, makes one that does not  *)
(* parse or that looks for another name; a "*" makes a pattern.            *)
(***************************************************************************)
EXTENDS Naturals, Sequences, FiniteSets, SequencesExt

CONSTANTS pasarAMayusculas,  \* name of a newsgroup |-> the name in upper case
          largo,             \* name of a newsgroup |-> its number of characters
          filtro,            \* name asked for |-> the names its criterion finds;
                             \* its domain is of those whose criterion parses
          MaxListado         \* what the array of a listing holds

ASSUME ConsultasAssumption == MaxListado \in Nat

MismoGrupo(g, h) == pasarAMayusculas[g] = pasarAMayusculas[h]

\* The criterion of obtenerListadoNoticiasParaUnGrupo and getArticle parses.
CriterioValido(g) == g \in DOMAIN filtro

Coincide(nombre, g) == CriterioValido(g) /\ nombre \in filtro[g]

\* Names with nothing of the syntax of a criterion in them: the search for one
\* finds it, however it is written.
Buscable(g) ==
  /\ CriterioValido(g)
  /\ \A h \in DOMAIN pasarAMayusculas : MismoGrupo(h, g) => Coincide(h, g)

\* Whether searchEntry may give a result set.  A session that outlived a stop of
\* OpenDS may or may not be connected again by the library.
HayResultSet(openDSArriba, sesionPerdida, criterioValido) ==
  IF ~ openDSArriba \/ ~ criterioValido THEN {FALSE}
  ELSE IF sesionPerdida THEN BOOLEAN ELSE {TRUE}

\* uiArticleID = -1, with sHead and sBody uninitialised.
NoEncontrado == [encontrado |-> FALSE]
Encontrado(id, g, n) == [encontrado |-> TRUE, id |-> id, grupo |-> g, noticia |-> n]

\* The article carries the name of the newsgroup as it was asked for.
getArticle(bd, hayResultSet, g, id) ==
  IF hayResultSet /\ id \in DOMAIN bd /\ Coincide(bd[id].grupo, g)
  THEN Encontrado(id, g, bd[id].noticia)
  ELSE NoEncontrado

\* obtenerListadoNoticiasParaUnGrupo: the IDs of a newsgroup.
selectArticles(bd, g) == {id \in DOMAIN bd : Coincide(bd[id].grupo, g)}

\* The newsgroup of every entry, in an order of the server's choice.
selectEntries(bd) == {[i \in DOMAIN ids |-> bd[ids[i]].grupo] :
                         ids \in SetToSeqs(DOMAIN bd)}

\* The arrays of a listing are filled with an element for each entry, repeated
\* names of newsgroups too, and nobody counts: the rest is written past the end.
SeDesborda(encontrados) == Cardinality(encontrados) > MaxListado

\* What quitarRepetidos copies a name to, and what the criterion leaves for one,
\* each with its terminator.
grupoDeNoticias == 70
sCriterio == 246

\* quitarRepetidos copies every name of the directory.
NombreDesborda(bd) == \E id \in DOMAIN bd : largo[bd[id].grupo] >= grupoDeNoticias

Repetido == "0"

\* Mutant of quitarRepetidos: names compared as they are written.
quitarRepetidosExactos(s) ==
  [j \in DOMAIN s |-> IF \E i \in 1 .. j - 1 : s[i] = s[j]
                      THEN Repetido ELSE s[j]]

\* Every later occurrence of a name is overwritten with "0".
quitarRepetidos(s) ==
  [j \in DOMAIN s |-> IF \E i \in 1 .. j - 1 : MismoGrupo(s[i], s[j])
                      THEN Repetido ELSE s[j]]

\* What pasarArrayEnLimpio has copied when it has seen n names.
copiados(s) ==
  LET copia[n \in 0 .. Len(s)] ==
        IF n = 0 THEN <<>>
        ELSE IF s[n] = Repetido THEN copia[n - 1] ELSE Append(copia[n - 1], s[n])
  IN copia

pasarArrayEnLimpio(s) == copiados(s)[Len(s)]

\* The listings obtenerListadoGruposDeNoticias may give.
ListadosDeGrupos(bd) == {pasarArrayEnLimpio(quitarRepetidos(s)) :
                           s \in selectEntries(bd)}

\* What a listing of newsgroups should be: each one once, none left out.
EsListadoDeGrupos(s, bd) ==
  /\ \A i, j \in DOMAIN s : i # j => ~ MismoGrupo(s[i], s[j])
  /\ {pasarAMayusculas[s[i]] : i \in DOMAIN s}
       = {pasarAMayusculas[bd[id].grupo] : id \in DOMAIN bd}
=============================================================================
