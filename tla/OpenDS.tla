-------------------------------- MODULE OpenDS --------------------------------
(***************************************************************************)
(* The OpenDS directory, as the LDAP wrapper uses it: entries under        *)
(* ou=so,dn=utn,dn=edu whose dn is built from the article ID alone         *)
(* (getDNFor), holding the newsgroup, head and body as attributes; and the *)
(* wrapper's session, whose errorCode is written when an operation fails   *)
(* and never reset when one succeeds.                                      *)
(***************************************************************************)
EXTENDS Naturals

CONSTANT Prueba  \* the ID 999999 crearConexionLDAP probes the server with

ASSUME PruebaAssumption == Prueba \in Nat

LDAP_SUCCESS        == 0
LDAP_NO_SUCH_OBJECT == 32
LDAP_ALREADY_EXISTS == 68
LDAP_SERVER_DOWN    == 81
LDAP_BUSY           == 51   \* stands for every other failure of an add
Codigos == {LDAP_SUCCESS, LDAP_NO_SUCH_OBJECT, LDAP_ALREADY_EXISTS,
            LDAP_SERVER_DOWN, LDAP_BUSY}

ArticuloDePrueba == [grupo |-> "test", noticia |-> "test"]

\* addEntry and deleteEntryDn on the server: the results it may give, and the
\* directory each one leaves.
ResultadoAdd(bd, arriba, dn) ==
  IF ~ arriba THEN {LDAP_SERVER_DOWN}
  ELSE IF dn \in DOMAIN bd THEN {LDAP_ALREADY_EXISTS}
  ELSE {LDAP_SUCCESS, LDAP_BUSY}

TrasAdd(bd, codigo, dn, entrada) ==
  IF codigo = LDAP_SUCCESS
  THEN [i \in DOMAIN bd \cup {dn} |-> IF i = dn THEN entrada ELSE bd[i]]
  ELSE bd

ResultadoDelete(bd, arriba, dn) ==
  IF ~ arriba THEN {LDAP_SERVER_DOWN}
  ELSE IF dn \in DOMAIN bd THEN {LDAP_SUCCESS, LDAP_BUSY}
  ELSE {LDAP_NO_SUCH_OBJECT}

\* Mutants of TrasDelete and ErrorCode: a deleted entry stays, empty; the
\* first failure of a session hides the later ones.
TrasMarcar(bd, codigo, dn) ==
  IF codigo = LDAP_SUCCESS THEN [bd EXCEPT ![dn].noticia = ""] ELSE bd
PrimerErrorCode(anterior, codigo) ==
  IF anterior # LDAP_SUCCESS THEN anterior ELSE codigo

TrasDelete(bd, codigo, dn) ==
  IF codigo = LDAP_SUCCESS THEN [i \in DOMAIN bd \ {dn} |-> bd[i]] ELSE bd

\* The wrapper stores the code of a failure in the session, and only that.
ErrorCode(anterior, codigo) == IF codigo # LDAP_SUCCESS THEN codigo ELSE anterior

newLDAPSession == LDAP_SUCCESS
=============================================================================
