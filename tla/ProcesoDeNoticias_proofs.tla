---------------------- MODULE ProcesoDeNoticias_proofs ----------------------
(***************************************************************************)
(* NNTPProcessServer, for any set of articles and any number of messages:  *)
(* its types, and that no article is lost, and no message multiplied,      *)
(* between the queue and OpenDS.                                           *)
(***************************************************************************)
EXTENDS ProcesoDeNoticias, FiniteSetTheorems, FunctionTheorems, TLAPS

-----------------------------------------------------------------------------
(* Queues.                                                                 *)

\* What was in a queue stays there when a message is put in, which is there.
LEMMA EnAppend ==
  ASSUME NEW S, NEW s \in Seq(S), NEW a \in S
  PROVE  /\ Append(s, a) \in Seq(S)
         /\ En(a, Append(s, a))
         /\ \A m : En(m, s) => En(m, Append(s, a))
<1>1. Append(s, a) \in Seq(S) /\ DOMAIN Append(s, a) = 1 .. Len(s) + 1
  OBVIOUS
<1>2. Append(s, a)[Len(s) + 1] = a /\ Len(s) + 1 \in 1 .. Len(s) + 1
  OBVIOUS
<1>3. \A i \in DOMAIN s : i \in 1 .. Len(s) + 1 /\ Append(s, a)[i] = s[i]
  OBVIOUS
<1>4. QED
  BY <1>1, <1>2, <1>3 DEF En

\* Taking the head out of a queue leaves the rest in it.
LEMMA EnTail ==
  ASSUME NEW S, NEW s \in Seq(S), s # <<>>
  PROVE  /\ Head(s) \in S /\ Tail(s) \in Seq(S)
         /\ \A m : En(m, s) => m = Head(s) \/ En(m, Tail(s))
<1>1. Head(s) \in S /\ Tail(s) \in Seq(S)
  OBVIOUS
<1>2. ASSUME NEW m, NEW i \in DOMAIN s, s[i] = m, m # Head(s)
      PROVE  En(m, Tail(s))
  <2>1. i \in 1 .. Len(s) /\ i # 1
    BY <1>2
  <2>2. i - 1 \in DOMAIN Tail(s) /\ Tail(s)[i - 1] = s[i]
    BY <2>1
  <2>3. QED
    BY <1>2, <2>2 DEF En
<1>3. QED
  BY <1>1, <1>2 DEF En

-----------------------------------------------------------------------------
(* The directory.                                                          *)

EsDirectorio(d) == DOMAIN d \subseteq Nat /\ d \in [DOMAIN d -> Entradas]

\* An add leaves a directory, with what was there before as it was.
LEMMA Add ==
  ASSUME NEW d, EsDirectorio(d), NEW arriba, NEW dn \in Nat, NEW e \in Entradas,
         NEW codigo \in ResultadoAdd(d, arriba, dn)
  PROVE  LET n == TrasAdd(d, codigo, dn, e)
         IN /\ codigo \in Codigos
            /\ EsDirectorio(n)
            /\ \A i \in DOMAIN d : i \in DOMAIN n /\ n[i] = d[i]
            /\ codigo = LDAP_SUCCESS => dn \in DOMAIN n /\ n[dn] = e
BY DEF EsDirectorio, ResultadoAdd, TrasAdd, Codigos, LDAP_SUCCESS,
       LDAP_NO_SUCH_OBJECT, LDAP_ALREADY_EXISTS, LDAP_SERVER_DOWN, LDAP_BUSY

\* A delete takes away the entry it names, and no other.
LEMMA Delete ==
  ASSUME NEW d, EsDirectorio(d), NEW arriba, NEW dn,
         NEW codigo \in ResultadoDelete(d, arriba, dn)
  PROVE  LET n == TrasDelete(d, codigo, dn)
         IN /\ codigo \in Codigos
            /\ EsDirectorio(n)
            /\ \A i \in DOMAIN d : i # dn => i \in DOMAIN n /\ n[i] = d[i]
BY DEF EsDirectorio, ResultadoDelete, TrasDelete, Codigos, LDAP_SUCCESS,
       LDAP_NO_SUCH_OBJECT, LDAP_ALREADY_EXISTS, LDAP_SERVER_DOWN, LDAP_BUSY

-----------------------------------------------------------------------------
(* What every step keeps of the model's values.                            *)

Mensajes == Articulos \cup {Basura}

LEMMA Valores ==
  /\ Basura \notin Articulos /\ NoMensaje \notin Articulos \cup {Basura}
  /\ \A m \in Articulos : m.id \in Nat /\ m.id # Prueba /\ EntradaDe(m) \in Entradas
  /\ ArticuloDePrueba \in Entradas
  /\ LDAP_SUCCESS \in Codigos /\ newLDAPSession \in Codigos
  /\ \A a, c \in Codigos : ErrorCode(a, c) \in Codigos
<1>1. Basura \notin Articulos /\ NoMensaje \notin Articulos \cup {Basura}
  BY ArticulosAssumption DEF Basura, NoMensaje
<1>2. \A m \in Articulos : m.id \in Nat /\ m.id # Prueba /\ EntradaDe(m) \in Entradas
  BY ArticulosAssumption DEF Entradas
<1>3. ArticuloDePrueba \in Entradas
  BY DEF Entradas
<1>4. QED
  BY <1>1, <1>2, <1>3 DEF Codigos, newLDAPSession, LDAP_SUCCESS, ErrorCode

\* The article in hand while it is being stored or put back.
ManoEnUso ==
  /\ pcPS = "reencolar" => mano \in Articulos
  /\ pcPS \notin {"insertar", "reencolar"} => mano = NoMensaje
  /\ pcPS = "insertar" => mano \in Mensajes

Tipos == TypeOK /\ ManoEnUso

\* Whatever a step does to the directory, articles stay in it as they were.
LEMMA PasoDelDirectorio ==
  ASSUME Tipos, [Next]_vars
  PROVE  /\ EsDirectorio(bd')
         /\ \A i \in DOMAIN bd : i # Prueba => i \in DOMAIN bd' /\ bd'[i] = bd[i]
<1>0. EsDirectorio(bd) /\ ArticuloDePrueba \in Entradas /\ Prueba \in Nat
  BY Valores, PruebaAssumption DEF Tipos, TypeOK, EsDirectorio
<1>1. ASSUME NEW arriba, NEW codigo \in ResultadoAdd(bd, arriba, Prueba),
             bd' = TrasAdd(bd, codigo, Prueba, ArticuloDePrueba)
      PROVE  /\ EsDirectorio(bd')
             /\ \A i \in DOMAIN bd : i \in DOMAIN bd' /\ bd'[i] = bd[i]
  BY <1>0, <1>1, Add
<1>2. ASSUME NEW arriba, NEW codigo \in ResultadoDelete(bd, arriba, Prueba),
             bd' = TrasDelete(bd, codigo, Prueba)
      PROVE  /\ EsDirectorio(bd')
             /\ \A i \in DOMAIN bd : i # Prueba => i \in DOMAIN bd' /\ bd'[i] = bd[i]
  BY <1>0, <1>2, Delete
<1>3. CASE UNCHANGED bd
  BY <1>0, <1>3
<1>4. CASE Conectar \/ Reconectar
  BY <1>4, <1>1 DEF Conectar, Reconectar
<1>5. CASE BorrarPrueba \/ BorrarPruebaReconexion
  BY <1>5, <1>2 DEF BorrarPrueba, BorrarPruebaReconexion
<1>6. CASE SondaAjena
  BY <1>6, <1>1, <1>2 DEF SondaAjena
<1>7. CASE Insertar
  <2>1. mano \in Articulos
    BY <1>7 DEF Insertar, Tipos, ManoEnUso, Mensajes
  <2>2. mano.id \in Nat /\ EntradaDe(mano) \in Entradas
    BY <2>1, Valores
  <2>3. PICK codigo \in ResultadoInsertar :
               bd' = TrasAdd(bd, codigo, mano.id, EntradaDe(mano))
    BY <1>7 DEF Insertar
  <2>4. CASE codigo \in ResultadoAdd(bd, openDSArriba, mano.id)
    BY <1>0, <2>2, <2>3, <2>4, Add
  <2>5. CASE codigo \in {LDAP_SERVER_DOWN, LDAP_BUSY}
    <3>1. bd' = bd
      BY <2>3, <2>5 DEF TrasAdd, LDAP_SUCCESS, LDAP_SERVER_DOWN, LDAP_BUSY
    <3>2. QED
      BY <1>0, <3>1
  <2>6. QED
    BY <2>4, <2>5 DEF ResultadoInsertar
<1>8. QED
  <2>1. CASE UNCHANGED vars
    BY <2>1, <1>3 DEF vars
  <2>2. CASE \E m \in Articulos \cup {Basura} : Recibir(m)
    BY <2>2, <1>3 DEF Recibir
  <2>3. CASE SistemaPS
    BY <2>3, <1>3, <1>4, <1>5, <1>7
       DEF SistemaPS, Despertar, Desencolar, DescartarBasura, Reencolar,
           MuereAlUsarSesion, CaidaPS
  <2>4. CASE Entorno
    BY <2>4, <1>3, <1>6
       DEF Entorno, EntornoOpenDS, CaeOpenDS, VuelveOpenDS, CaidaPS, ArranquePS
  <2>5. QED
    BY <2>1, <2>2, <2>3, <2>4 DEF Next

LEMMA TiposInvariante == Spec => []Tipos
<1>1. Init => Tipos
  <2> SUFFICES ASSUME Init PROVE Tipos
    OBVIOUS
  <2>1. DOMAIN bd = {} /\ bd \in [{} -> Entradas]
    BY DEF Init, InitPS
  <2>2. cola \in Seq(Mensajes) /\ recibidos \in Seq(Mensajes)
    BY DEF Init, InitPS
  <2>3. sesion \in [memoria : {"valida", "liberada"}, errorCode : Codigos]
    BY Valores DEF Init, InitPS, NuevaSesion
  <2>4. QED
    BY <2>1, <2>2, <2>3 DEF Init, InitPS, Tipos, TypeOK, ManoEnUso, Mensajes
<1>2. Tipos /\ [Next]_vars => Tipos'
  <2> SUFFICES ASSUME Tipos, [Next]_vars PROVE Tipos'
    OBVIOUS
  <2> DEFINE S == [memoria : {"valida", "liberada"}, errorCode : Codigos]
  <2> USE DEF Tipos, TypeOK, ManoEnUso, Mensajes
  <2>0. /\ DOMAIN bd' \subseteq Nat
        /\ bd' \in [DOMAIN bd' -> Entradas]
    BY PasoDelDirectorio DEF EsDirectorio
  <2>a. ASSUME NEW arriba, NEW dn, NEW codigo \in ResultadoAdd(bd, arriba, dn)
                 \cup ResultadoDelete(bd, arriba, dn) \cup {LDAP_SERVER_DOWN, LDAP_BUSY}
        PROVE  codigo \in Codigos
    BY <2>a DEF ResultadoAdd, ResultadoDelete, Codigos, LDAP_SUCCESS,
         LDAP_NO_SUCH_OBJECT, LDAP_ALREADY_EXISTS, LDAP_SERVER_DOWN, LDAP_BUSY
  <2>b. \A e \in Codigos : /\ NuevaSesion(e) \in S
                           /\ [memoria |-> "liberada", errorCode |-> e] \in S
                           /\ [sesion EXCEPT !.errorCode = e] \in S
    BY DEF NuevaSesion
  <2>1. ASSUME \/ Conectar \/ BorrarPrueba \/ Reconectar
               \/ BorrarPruebaReconexion \/ Insertar \/ ArranquePS
        PROVE  sesion' \in S
    <3> USE Valores, <2>a, <2>b
    <3>1. CASE Conectar
      <4>1. PICK codigo \in ResultadoAdd(bd, openDSArriba, Prueba) :
              sesion' = NuevaSesion(ErrorCode(newLDAPSession, codigo))
        BY <3>1 DEF Conectar
      <4>2. ErrorCode(newLDAPSession, codigo) \in Codigos
        OBVIOUS
      <4>3. QED
        BY <4>1, <4>2
    <3>2. CASE BorrarPrueba
      <4>1. PICK codigo \in ResultadoDelete(bd, openDSArriba, Prueba) :
              sesion' \in {sesion, [sesion EXCEPT !.errorCode =
                                      ErrorCode(sesion.errorCode, codigo)]}
        BY <3>2 DEF BorrarPrueba
      <4>2. codigo \in Codigos /\ sesion.errorCode \in Codigos
        OBVIOUS
      <4>3. QED
        BY <4>1, <4>2
    <3>3. CASE Reconectar
      <4>1. PICK codigo \in ResultadoAdd(bd, openDSArriba, Prueba) :
              \/ sesion' = NuevaSesion(ErrorCode(newLDAPSession, codigo))
              \/ \E e \in Codigos :
                      sesion' = [memoria |-> "liberada", errorCode |-> e]
        BY <3>3 DEF Reconectar
      <4>2. ErrorCode(newLDAPSession, codigo) \in Codigos
        OBVIOUS
      <4>3. QED
        BY <4>1, <4>2
    <3>4. CASE BorrarPruebaReconexion
      <4>1. PICK codigo \in ResultadoDelete(bd, openDSArriba, Prueba) :
              sesion' \in {sesion, [sesion EXCEPT !.errorCode =
                                      ErrorCode(sesion.errorCode, codigo)]}
        BY <3>4 DEF BorrarPruebaReconexion
      <4>2. codigo \in Codigos /\ sesion.errorCode \in Codigos
        OBVIOUS
      <4>3. QED
        BY <4>1, <4>2
    <3>5. CASE Insertar
      BY <3>5 DEF Insertar, ResultadoInsertar
    <3>6. CASE ArranquePS
      BY <3>6 DEF ArranquePS
    <3>7. QED
      BY <2>1, <3>1, <3>2, <3>3, <3>4, <3>5, <3>6
  <2>2. CASE Conectar /\ UNCHANGED recibidos
    BY <2>2, <2>0, <2>1, Valores DEF Conectar, histPS
  <2>3. CASE BorrarPrueba /\ UNCHANGED recibidos
    BY <2>3, <2>0, <2>1, Valores DEF BorrarPrueba, histPS
  <2>4. CASE Despertar /\ UNCHANGED recibidos
    BY <2>4, <2>0, <2>1, Valores DEF Despertar, histPS
  <2>5. CASE Reconectar /\ UNCHANGED recibidos
    BY <2>5, <2>0, <2>1, Valores DEF Reconectar, histPS
  <2>6. CASE BorrarPruebaReconexion /\ UNCHANGED recibidos
    BY <2>6, <2>0, <2>1, Valores DEF BorrarPruebaReconexion, histPS
  <2>7. CASE Desencolar /\ UNCHANGED recibidos
    <3>1. CASE HayMensaje(cola)
      <4>1. Head(cola) \in Articulos \cup {Basura}
            /\ Tail(cola) \in Seq(Articulos \cup {Basura})
        BY <3>1 DEF HayMensaje
      <4>2. mano' = Head(cola) /\ cola' = Tail(cola) /\ pcPS' = "insertar"
        BY <3>1, <2>7 DEF Desencolar, MensajeRecibido, desencolarMensaje
      <4>3. QED
        BY <4>1, <4>2, <2>7, <2>0 DEF Desencolar, histPS
    <3>2. CASE ~ HayMensaje(cola)
      BY <3>2, <2>7, <2>0 DEF Desencolar, histPS
    <3>3. QED
      BY <3>1, <3>2
  <2>8. CASE DescartarBasura /\ UNCHANGED recibidos
    BY <2>8, <2>0, <2>1, Valores DEF DescartarBasura, histPS
  <2>9. CASE Insertar /\ UNCHANGED recibidos
    BY <2>9, <2>0, <2>1, Valores DEF Insertar, TrasDevolver1
  <2>10. CASE Reencolar /\ UNCHANGED recibidos
    BY <2>10, <2>0, <2>1, Valores DEF Reencolar, TrasDevolver1, insertarMensaje, histPS
  <2>11. CASE CaidaPS /\ UNCHANGED recibidos
    BY <2>11, <2>0, <2>1, Valores DEF CaidaPS
  <2>12. CASE ArranquePS /\ UNCHANGED recibidos
    BY <2>12, <2>0, <2>1, Valores DEF ArranquePS, histPS
  <2>13. CASE EntornoOpenDS /\ UNCHANGED recibidos
    BY <2>13, <2>0, <2>1, Valores DEF EntornoOpenDS, CaeOpenDS, VuelveOpenDS, SondaAjena, psVars, histPS
  <2>14. CASE \E m \in Articulos \cup {Basura} : Recibir(m)
    BY <2>14, <2>0 DEF Recibir, insertarMensaje, psVars, histPS
  <2>15. CASE UNCHANGED vars
    BY <2>15 DEF vars, psVars, histPS
  <2>16. QED
    BY <2>2, <2>3, <2>4, <2>5, <2>6, <2>7, <2>8, <2>9, <2>10, <2>11, <2>12, <2>13, <2>14, <2>15 DEF Next, SistemaPS, Entorno,
       MuereAlUsarSesion
<1>3. QED
  BY <1>1, <1>2, PTL DEF Spec

(* Type correctness of NNTPProcessServer, its queue and the directory.     *)
THEOREM TipoCorrecto == Spec => []TypeOK
BY TiposInvariante, PTL DEF Tipos

-----------------------------------------------------------------------------
(* No article is lost.                                                     *)

Salvo(m) == EnCola(m) \/ mano = m \/ Guardada(m) \/ m \in rechazadas \cup perdidasPS

\* A step that enqueues nothing new keeps safe every article that was.
LEMMA PasoSalvo ==
  ASSUME Tipos, [Next]_vars, NEW m \in Articulos, Salvo(m)
  PROVE  Salvo(m)'
<1> USE DEF Tipos, TypeOK, ManoEnUso, Mensajes
<1>1. Guardada(m) => Guardada(m)'
  BY PasoDelDirectorio, Valores DEF Guardada
<1>2. m # Basura /\ m # NoMensaje
  BY Valores
<1>3. ASSUME UNCHANGED <<cola, mano, rechazadas, perdidasPS>> PROVE Salvo(m)'
  BY <1>1, <1>3 DEF Salvo, EnCola
<1>4. CASE Desencolar
  <2>1. CASE HayMensaje(cola)
    <3>1. mano = NoMensaje /\ mano' = Head(cola) /\ cola' = Tail(cola)
          /\ UNCHANGED <<rechazadas, perdidasPS>>
      BY <1>4, <2>1 DEF Desencolar, MensajeRecibido, desencolarMensaje, histPS
    <3>2. En(m, cola) => m = Head(cola) \/ En(m, Tail(cola))
      BY <2>1, EnTail DEF HayMensaje
    <3>3. QED
      BY <1>1, <1>2, <3>1, <3>2 DEF Salvo, EnCola
  <2>2. CASE ~ HayMensaje(cola)
    BY <1>3, <1>4, <2>2 DEF Desencolar, histPS
  <2>3. QED
    BY <2>1, <2>2
<1>5. CASE DescartarBasura
  <2>1. mano = Basura /\ UNCHANGED <<cola, rechazadas, perdidasPS>>
    BY <1>5 DEF DescartarBasura, histPS
  <2>2. QED
    BY <1>1, <1>2, <2>1 DEF Salvo, EnCola
<1>6. CASE Insertar
  <2>1. mano \in Articulos /\ UNCHANGED <<cola, perdidasPS>>
        /\ rechazadas \subseteq rechazadas'
    BY <1>6 DEF Insertar
  <2>2. CASE mano' = mano
    BY <1>1, <2>1, <2>2 DEF Salvo, EnCola
  <2>3. CASE mano' # mano
    <3>1. PICK codigo \in ResultadoInsertar :
            /\ bd' = TrasAdd(bd, codigo, mano.id, EntradaDe(mano))
            /\ codigo \in {LDAP_BUSY, LDAP_ALREADY_EXISTS} => mano \in rechazadas'
            /\ ErrorCode(sesion.errorCode, codigo) # LDAP_SERVER_DOWN
      BY <1>6, <2>3 DEF Insertar
    <3>2. codigo \in {LDAP_SUCCESS, LDAP_BUSY, LDAP_ALREADY_EXISTS}
      BY <3>1 DEF ErrorCode, ResultadoInsertar, ResultadoAdd, LDAP_SUCCESS,
                  LDAP_SERVER_DOWN
    <3>3. ASSUME m = mano, codigo = LDAP_SUCCESS PROVE Guardada(m)'
      <4>1. m.id \in DOMAIN bd' /\ bd'[m.id] = EntradaDe(m)
        BY <3>1, <3>3 DEF TrasAdd
      <4>2. QED
        BY <4>1 DEF Guardada
    <3>4. m = mano => Salvo(m)'
      BY <3>1, <3>2, <3>3 DEF Salvo
    <3>5. QED
      BY <1>1, <2>1, <3>4 DEF Salvo, EnCola
  <2>4. QED
    BY <2>2, <2>3
<1>7. CASE Reencolar
  <2>1. mano \in Articulos /\ cola' = Append(cola, mano)
        /\ UNCHANGED <<rechazadas, perdidasPS>>
    BY <1>7 DEF Reencolar, insertarMensaje, histPS
  <2>2. En(mano, cola') /\ (En(m, cola) => En(m, cola'))
    BY <2>1, EnAppend
  <2>3. QED
    BY <1>1, <2>1, <2>2 DEF Salvo, EnCola
<1>8. CASE CaidaPS
  <2>1. cola' = cola /\ rechazadas' = rechazadas
        /\ perdidasPS' = perdidasPS \cup ({mano} \cap Articulos)
    BY <1>8 DEF CaidaPS
  <2>2. QED
    BY <1>1, <2>1 DEF Salvo, EnCola
<1>9. CASE ArranquePS
  <2>1. mano = NoMensaje /\ UNCHANGED <<cola, rechazadas, perdidasPS>>
    BY <1>9 DEF ArranquePS, histPS
  <2>2. QED
    BY <1>1, <1>2, <2>1 DEF Salvo, EnCola
<1>10. CASE Conectar \/ BorrarPrueba \/ Despertar \/ Reconectar
            \/ BorrarPruebaReconexion
  BY <1>3, <1>10 DEF Conectar, BorrarPrueba, Despertar, Reconectar,
                     BorrarPruebaReconexion, histPS
<1>11. CASE EntornoOpenDS
  BY <1>3, <1>11 DEF EntornoOpenDS, CaeOpenDS, VuelveOpenDS, SondaAjena, psVars,
                     histPS
<1>12. CASE UNCHANGED vars
  BY <1>3, <1>12 DEF vars, psVars, histPS
<1>13. CASE \E a \in Articulos \cup {Basura} : Recibir(a)
  <2>1. PICK a \in Mensajes : Recibir(a)
    BY <1>13
  <2>2. cola' = Append(cola, a) /\ UNCHANGED <<mano, rechazadas, perdidasPS>>
    BY <2>1 DEF Recibir, insertarMensaje, psVars, histPS
  <2>3. En(m, cola) => En(m, cola')
    BY <2>2, EnAppend
  <2>4. QED
    BY <1>1, <2>2, <2>3 DEF Salvo, EnCola
<1>14. QED
  BY <1>4, <1>5, <1>6, <1>7, <1>8, <1>9, <1>10, <1>11, <1>12, <1>13
     DEF Next, SistemaPS, Entorno, MuereAlUsarSesion

(* However OpenDS and the freed session behave, an article that reached    *)
(* the queue is in it, in hand, stored, refused, or died with the process. *)
THEOREM NadaSePierdeNunca == Spec => []NadaSePierde
<1>1. Init => NadaSePierde
  BY DEF Init, NadaSePierde
<1>2. Tipos /\ NadaSePierde /\ [Next]_vars => NadaSePierde'
  <2> SUFFICES ASSUME Tipos, NadaSePierde, [Next]_vars,
                      NEW i \in DOMAIN recibidos',
                      NEW m, m = recibidos'[i], m # Basura
               PROVE  Salvo(m)'
    BY DEF NadaSePierde, Salvo
  <2>1. recibidos \in Seq(Mensajes)
    BY DEF Tipos, TypeOK, Mensajes
  <2>2. CASE i \in DOMAIN recibidos /\ recibidos[i] = m
    <3>1. m \in Articulos /\ Salvo(m)
      BY <2>1, <2>2 DEF NadaSePierde, Salvo, Mensajes
    <3>2. QED
      BY <3>1, PasoSalvo
  <2>3. ASSUME NEW a \in Mensajes, Recibir(a),
               ~ (i \in DOMAIN recibidos /\ recibidos[i] = m)
        PROVE  Salvo(m)'
    <3>1. recibidos' = Append(recibidos, a) /\ cola' = Append(cola, a)
      BY <2>3 DEF Recibir, insertarMensaje
    <3>2. m = a
      BY <2>1, <2>3, <3>1
    <3>3. En(a, cola')
      BY <3>1, EnAppend DEF Tipos, TypeOK, Mensajes
    <3>4. QED
      BY <3>2, <3>3 DEF Salvo, EnCola
  <2>4. CASE UNCHANGED recibidos
    BY <2>2, <2>4
  <2>5. QED
    BY <2>2, <2>3, <2>4 DEF Next, vars, Mensajes
<1>3. QED
  BY <1>1, <1>2, TiposInvariante, PTL DEF Spec
-----------------------------------------------------------------------------
(* No message multiplies.                                                  *)

Puestos(m, s) == {i \in DOMAIN s : s[i] = m}

Una(si) == IF si THEN 1 ELSE 0

\* The places a message has in a queue are counted by a number.
LEMMA PuestosFinitos ==
  ASSUME NEW S, NEW s \in Seq(S), NEW m
  PROVE  /\ IsFiniteSet(Puestos(m, s))
         /\ Copias(m, s) = Cardinality(Puestos(m, s))
         /\ Copias(m, s) \in Nat
<1>1. Len(s) \in Nat /\ DOMAIN s = 1 .. Len(s)
  OBVIOUS
<1>2. IsFiniteSet(1 .. Len(s))
  BY <1>1, FS_Interval
<1>3. Puestos(m, s) \in SUBSET (1 .. Len(s))
  BY <1>1 DEF Puestos
<1>4. IsFiniteSet(Puestos(m, s))
  BY <1>2, <1>3, FS_Subset
<1>5. Copias(m, s) = Cardinality(Puestos(m, s))
  BY DEF Copias, Puestos
<1>6. QED
  BY <1>4, <1>5, FS_CardinalityType

\* Putting a message in a queue adds one copy of it, and of no other.
LEMMA CopiasAppend ==
  ASSUME NEW S, NEW s \in Seq(S), NEW a \in S, NEW m
  PROVE  Copias(m, Append(s, a)) = Copias(m, s) + Una(a = m)
<1> DEFINE t == Append(s, a)
           n == Len(s) + 1
<1>1. n \in Nat /\ n \notin DOMAIN s /\ t \in Seq(S) /\ DOMAIN t = DOMAIN s \cup {n}
  OBVIOUS
<1>2. t[n] = a /\ \A i \in DOMAIN s : t[i] = s[i]
  OBVIOUS
<1>3. n \notin Puestos(m, s) /\ IsFiniteSet(Puestos(m, s))
      /\ Cardinality(Puestos(m, s)) \in Nat
  BY <1>1, PuestosFinitos DEF Puestos
<1>4. Copias(m, s) = Cardinality(Puestos(m, s)) /\ Copias(m, t) = Cardinality(Puestos(m, t))
  BY <1>1, PuestosFinitos
<1> HIDE DEF t, n
<1>5. CASE a = m
  <2>1. Puestos(m, t) = Puestos(m, s) \cup {n}
    BY <1>1, <1>2, <1>5 DEF Puestos
  <2>2. Cardinality(Puestos(m, t)) = Cardinality(Puestos(m, s)) + 1
    BY <1>3, <2>1, FS_AddElement
  <2>3. QED
    BY <1>4, <1>5, <2>2 DEF Una, t
<1>6. CASE a # m
  <2>1. Puestos(m, t) = Puestos(m, s)
    BY <1>1, <1>2, <1>6 DEF Puestos
  <2>2. QED
    BY <1>3, <1>4, <1>6, <2>1 DEF Una, t
<1>7. QED
  BY <1>5, <1>6

\* Taking the head out of a queue takes one copy of it, and of no other.
LEMMA CopiasTail ==
  ASSUME NEW S, NEW s \in Seq(S), s # <<>>, NEW m
  PROVE  Copias(m, s) = Copias(m, Tail(s)) + Una(Head(s) = m)
<1> DEFINE t == Tail(s)
           R == Puestos(m, s) \ {1}
           corre == [i \in Puestos(m, t) |-> i + 1]
<1>1. /\ t \in Seq(S)
      /\ \A i : i \in DOMAIN t <=> i \in Nat /\ i + 1 \in DOMAIN s /\ i # 0
      /\ \A i \in DOMAIN t : t[i] = s[i + 1]
      /\ \A j \in DOMAIN s : j # 1 => j - 1 \in DOMAIN t /\ j \in Nat
  OBVIOUS
<1>2. 1 \in DOMAIN s /\ s[1] = Head(s)
  OBVIOUS
<1>3. /\ IsFiniteSet(Puestos(m, s)) /\ Cardinality(Puestos(m, s)) \in Nat
      /\ IsFiniteSet(Puestos(m, t)) /\ Cardinality(Puestos(m, t)) \in Nat
      /\ Copias(m, s) = Cardinality(Puestos(m, s))
      /\ Copias(m, t) = Cardinality(Puestos(m, t))
  BY <1>1, PuestosFinitos
<1> HIDE DEF t
<1>4. corre \in [Puestos(m, t) -> R]
  BY <1>1 DEF Puestos
<1>5. \A i, j \in Puestos(m, t) : corre[i] = corre[j] => i = j
  BY <1>1 DEF Puestos
<1>6. ASSUME NEW j \in R PROVE \E i \in Puestos(m, t) : corre[i] = j
  <2>1. j \in DOMAIN s /\ s[j] = m /\ j # 1
    BY DEF Puestos
  <2>2. j - 1 \in DOMAIN t /\ t[j - 1] = m /\ (j - 1) + 1 = j
    BY <1>1, <2>1
  <2>3. QED
    BY <2>2 DEF Puestos
<1>7. corre \in Bijection(Puestos(m, t), R)
  BY <1>4, <1>5, <1>6, Fun_IsBij
<1>8. Cardinality(R) = Cardinality(Puestos(m, t))
  BY <1>3, <1>7, FS_Bijection DEF ExistsBijection
<1>9. 1 \in Puestos(m, s) <=> Head(s) = m
  BY <1>2 DEF Puestos
<1>10. Cardinality(R) = IF 1 \in Puestos(m, s) THEN Cardinality(Puestos(m, s)) - 1
                                               ELSE Cardinality(Puestos(m, s))
  BY <1>3, FS_RemoveElement
<1>11. QED
  BY <1>3, <1>8, <1>9, <1>10 DEF Una, t

(* Whatever OpenDS does between the dequeue and the re-enqueue, there are  *)
(* never more copies of a message around than XMLNewsPS enqueued.          *)
THEOREM CopiasNoCrecenNunca == Spec => []CopiasNoCrecen
<1> DEFINE EnMano(m) == Una(mano = m)
           Cuenta(m) == Copias(m, cola) + EnMano(m) <= Copias(m, recibidos)
<1>1. CopiasNoCrecen <=> \A m \in Mensajes : Cuenta(m)
  BY DEF CopiasNoCrecen, Mensajes, Una
<1>2. Init => CopiasNoCrecen
  <2> SUFFICES ASSUME Init, NEW m \in Mensajes PROVE Cuenta(m)
    BY <1>1
  <2>1. cola = <<>> /\ recibidos = <<>> /\ mano = NoMensaje
    BY DEF Init, InitPS
  <2>2. mano # m
    BY <2>1, Valores DEF Mensajes
  <2>3. Copias(m, cola) \in Nat /\ Copias(m, recibidos) = Copias(m, cola)
    <3>1. cola \in Seq(Mensajes)
      BY <2>1
    <3>2. QED
      BY <2>1, <3>1, PuestosFinitos
  <2>4. QED
    BY <2>2, <2>3 DEF Una
<1>3. Tipos /\ CopiasNoCrecen /\ [Next]_vars => CopiasNoCrecen'
  <2> SUFFICES ASSUME Tipos, CopiasNoCrecen, [Next]_vars, NEW m \in Mensajes
               PROVE  Cuenta(m)'
    BY DEF CopiasNoCrecen, Mensajes, Una
  <2>1. cola \in Seq(Mensajes) /\ recibidos \in Seq(Mensajes)
        /\ mano \in Mensajes \cup {NoMensaje} /\ NoMensaje # m
    BY Valores DEF Tipos, TypeOK, Mensajes
  <2>2. Copias(m, cola) \in Nat /\ Copias(m, recibidos) \in Nat
    BY <2>1, PuestosFinitos
  <2>3. Copias(m, cola) + Una(mano = m) <= Copias(m, recibidos)
    BY <1>1
  \* The message in hand stays there, or is gone from it.
  <2>4. ASSUME UNCHANGED <<cola, recibidos>>, mano' \in {mano, NoMensaje}
        PROVE  Cuenta(m)'
    BY <2>1, <2>2, <2>3, <2>4 DEF Una
  <2>5. CASE Desencolar /\ UNCHANGED recibidos
    <3>1. CASE HayMensaje(cola)
      <4>1. mano = NoMensaje
        BY <2>5 DEF Desencolar, Tipos, ManoEnUso
      <4>2. cola # <<>> /\ mano' = Head(cola) /\ cola' = Tail(cola)
            /\ recibidos' = recibidos
        BY <2>5, <3>1 DEF Desencolar, HayMensaje, MensajeRecibido, desencolarMensaje
      <4>3. Tail(cola) \in Seq(Mensajes)
        BY <2>1, <4>2
      <4>4. Copias(m, Tail(cola)) \in Nat
        BY <4>3, PuestosFinitos
      <4>5. Copias(m, cola) = Copias(m, Tail(cola)) + Una(Head(cola) = m)
        BY <2>1, <4>2, CopiasTail
      <4>6. Una(mano = m) = 0
        BY <2>1, <4>1 DEF Una
      <4>7. Copias(m, Tail(cola)) + Una(Head(cola) = m) <= Copias(m, recibidos)
        BY <2>2, <2>3, <4>5, <4>6
      <4>8. QED
        BY <4>2, <4>7
    <3>2. CASE ~ HayMensaje(cola)
      BY <2>4, <2>5, <3>2 DEF Desencolar
    <3>3. QED
      BY <3>1, <3>2
  <2>6. CASE Reencolar /\ UNCHANGED recibidos
    <3>1. mano \in Mensajes /\ cola' = Append(cola, mano) /\ mano' = NoMensaje
          /\ recibidos' = recibidos
      BY <2>6 DEF Reencolar, insertarMensaje, Tipos, ManoEnUso, Mensajes
    <3>2. Copias(m, Append(cola, mano)) = Copias(m, cola) + Una(mano = m)
      BY <2>1, <3>1, CopiasAppend
    <3>3. Una(NoMensaje = m) = 0
      BY <2>1 DEF Una
    <3>4. Copias(m, Append(cola, mano)) + Una(NoMensaje = m) <= Copias(m, recibidos)
      BY <2>2, <2>3, <3>2, <3>3 DEF Una
    <3>5. QED
      BY <3>1, <3>4
  <2>7. CASE \E a \in Mensajes : Recibir(a)
    <3>1. PICK a \in Mensajes : Recibir(a)
      BY <2>7
    <3>2. cola' = Append(cola, a) /\ recibidos' = Append(recibidos, a) /\ mano' = mano
      BY <3>1 DEF Recibir, insertarMensaje, psVars
    <3>3. /\ Copias(m, Append(cola, a)) = Copias(m, cola) + Una(a = m)
          /\ Copias(m, Append(recibidos, a)) = Copias(m, recibidos) + Una(a = m)
      BY <2>1, CopiasAppend
    <3>4. Copias(m, Append(cola, a)) + Una(mano = m) <= Copias(m, Append(recibidos, a))
      BY <2>2, <2>3, <3>3 DEF Una
    <3>5. QED
      BY <3>2, <3>4
  <2>8. CASE Insertar /\ UNCHANGED recibidos
    BY <2>4, <2>8 DEF Insertar
  <2>9. CASE (DescartarBasura \/ CaidaPS \/ ArranquePS) /\ UNCHANGED recibidos
    BY <2>4, <2>9 DEF DescartarBasura, CaidaPS, ArranquePS
  <2>10. CASE (\/ Conectar \/ BorrarPrueba \/ Despertar \/ Reconectar
               \/ BorrarPruebaReconexion) /\ UNCHANGED recibidos
    BY <2>4, <2>10 DEF Conectar, BorrarPrueba, Despertar, Reconectar,
                       BorrarPruebaReconexion
  <2>11. CASE EntornoOpenDS /\ UNCHANGED recibidos
    BY <2>4, <2>11 DEF EntornoOpenDS, CaeOpenDS, VuelveOpenDS, SondaAjena, psVars
  <2>12. CASE UNCHANGED vars
    BY <2>4, <2>12 DEF vars, psVars
  <2>13. QED
    BY <2>5, <2>6, <2>7, <2>8, <2>9, <2>10, <2>11, <2>12
       DEF Next, SistemaPS, Entorno, MuereAlUsarSesion, Mensajes
<1>4. QED
  BY <1>2, <1>3, TiposInvariante, PTL DEF Spec
=============================================================================
