----------------------------- MODULE ResultSetLDAP -----------------------------
(***************************************************************************)
(* A query of a reader step by step, which Consultas takes as one: the     *)
(* search, the iterator of the result set, the attributes of each record,  *)
(* and the memory of each message given back while the ones after it are   *)
(* still to be read.  Meanwhile the directory goes on changing.            *)
(***************************************************************************)
EXTENDS Consultas

CONSTANTS
  Entradas,   \* article ID |-> the entry it has in the directory when there
  Busquedas   \* the queries: their kind, newsgroup and article

Tipos == {"selectEntries", "selectArticles", "getArticle"}

ASSUME ResultSetAssumption ==
  IsFiniteSet(DOMAIN Entradas) /\ \A b \in Busquedas : b.tipo \in Tipos

VARIABLES
  busqueda,   \* the query
  directorio, \* the entries OpenDS has
  alBuscar,   \* history: the entries it had at the search
  mensajes,   \* the messages of the result: an entry and its attributes
  liberados,  \* those whose memory was given back
  siguiente,  \* resultSet->next, 0 for NULL
  record,     \* the message being read, 0 if none
  porLeer,    \* its attributes not read yet
  articulo,   \* stArticle, on the stack: it keeps what it had
  listado,    \* pczListado
  paso

varsRS == <<busqueda, directorio, alBuscar, mensajes, liberados, siguiente, record,
            porLeer, articulo, listado, paso>>

Atributos == {"id", "grupo", "noticia"}
Basura == "basura"

InitRS ==
  /\ busqueda \in Busquedas
  /\ directorio \in [DOMAIN Entradas -> BOOLEAN]
  /\ alBuscar = {}
  /\ mensajes = <<>> /\ liberados = {}
  /\ siguiente = 0 /\ record = 0 /\ porLeer = {}
  /\ articulo = [a \in Atributos |-> Basura]
  /\ listado = <<>>
  /\ paso = "buscar"

Presentes == {id \in DOMAIN Entradas : directorio[id]}
Bd(ids) == [id \in ids |-> Entradas[id]]

\* NNTPProcessServer stores an article, or somebody deletes its probe.
OtroEscribe ==
  /\ \E id \in DOMAIN Entradas : directorio' = [directorio EXCEPT ![id] = ~@]
  /\ UNCHANGED <<busqueda, alBuscar, mensajes, liberados, siguiente, record, porLeer,
                 articulo, listado, paso>>

\* sCriterio: the whole directory, a newsgroup, or an article of a newsgroup.
Criterio(id) ==
  /\ busqueda.tipo # "selectEntries" => Coincide(Entradas[id].grupo, busqueda.grupo)
  /\ busqueda.tipo = "getArticle" => id = busqueda.id

Mensaje(id) == [id |-> id, grupo |-> Entradas[id].grupo, noticia |-> Entradas[id].noticia]

\* ldap_search_ext_s and ldap_first_entry.
searchEntry ==
  /\ paso = "buscar"
  /\ busqueda.tipo # "selectEntries" => CriterioValido(busqueda.grupo)
  /\ \E ids \in SetToSeqs({id \in Presentes : Criterio(id)}) :
       /\ mensajes' = [i \in DOMAIN ids |-> Mensaje(ids[i])]
       /\ siguiente' = IF ids = <<>> THEN 0 ELSE 1
  /\ alBuscar' = Presentes
  /\ paso' = "iterar"
  /\ UNCHANGED <<busqueda, directorio, liberados, record, porLeer, articulo, listado>>

\* An error, that of a criterion that does not parse too: the result set is NULL.
SinConexion ==
  /\ paso = "buscar"
  /\ paso' = "sinResultado"
  /\ UNCHANGED <<busqueda, directorio, alBuscar, mensajes, liberados, siguiente, record,
                 porLeer, articulo, listado>>

\* The next message is taken before this one is read and given back.
next ==
  /\ paso = "iterar" /\ record = 0 /\ siguiente # 0
  /\ record' = siguiente
  /\ siguiente' = IF siguiente = Len(mensajes) THEN 0 ELSE siguiente + 1
  /\ porLeer' = Atributos
  /\ UNCHANGED <<busqueda, directorio, alBuscar, mensajes, liberados, articulo, listado, paso>>

Leido(i, a) == IF i \in liberados THEN Basura ELSE mensajes[i][a]

\* ldap_first_attribute and ldap_next_attribute, in the order of the server.
nextField ==
  /\ record # 0
  /\ \E a \in porLeer :
       /\ articulo' = [articulo EXCEPT ![a] = Leido(record, a)]
       /\ porLeer' = porLeer \ {a}
  /\ UNCHANGED <<busqueda, directorio, alBuscar, mensajes, liberados, siguiente, record,
                 listado, paso>>

\* Mutant of Liberado: ldap_msgfree, which gives back the chain from there on.
LiberadoConLaCadena == record .. Len(mensajes)

\* ldap_memfree: the message alone.
Liberado == {record}

\* pczListado[n] = stArticle and freeLDAPRecord.  getArticle has enough with one.
freeLDAPRecord ==
  /\ record # 0 /\ porLeer = {}
  /\ liberados' = liberados \cup Liberado
  /\ listado' = Append(listado, articulo)
  /\ record' = 0
  /\ paso' = IF busqueda.tipo = "getArticle" THEN "fin" ELSE paso
  /\ UNCHANGED <<busqueda, directorio, alBuscar, mensajes, siguiente, porLeer, articulo>>

\* hasNext is FALSE.
Terminar ==
  /\ paso = "iterar" /\ record = 0 /\ siguiente = 0
  /\ paso' = "fin"
  /\ UNCHANGED <<busqueda, directorio, alBuscar, mensajes, liberados, siguiente, record,
                 porLeer, articulo, listado>>

NextRS ==
  \/ OtroEscribe \/ searchEntry \/ SinConexion \/ next \/ nextField
  \/ freeLDAPRecord \/ Terminar

SpecRS == InitRS /\ [][NextRS]_varsRS
-----------------------------------------------------------------------------
\* A query returns what Consultas says of the directory as it was at one moment,
\* the search: the articles stored or deleted while the records are read and
\* their memory is given back change nothing of it (getArticle, selectEntries and
\* selectArticles, LDAP/LdapWrapperHandler.c:131-344).
ConsultaDeUnMomento ==
  paso = "fin" =>
    LET bd == Bd(alBuscar)
        grupos == [i \in DOMAIN listado |-> listado[i].grupo]
        ids == [i \in DOMAIN listado |-> listado[i].id]
    IN CASE busqueda.tipo = "selectEntries" -> grupos \in selectEntries(bd)
         [] busqueda.tipo = "selectArticles" ->
              /\ IsInjective(ids) /\ ToSet(ids) = selectArticles(bd, busqueda.grupo)
              /\ \A i \in DOMAIN listado : listado[i] = Mensaje(ids[i])
         [] busqueda.tipo = "getArticle" ->
              getArticle(bd, TRUE, busqueda.grupo, busqueda.id) =
                IF listado = <<>> THEN NoEncontrado
                ELSE Encontrado(busqueda.id, busqueda.grupo, listado[1].noticia)
=============================================================================
