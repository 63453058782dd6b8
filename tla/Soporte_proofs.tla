---------------------------- MODULE Soporte_proofs ----------------------------
(***************************************************************************)
(* What every program of the system stands on, for any number of threads,  *)
(* lines, files and entries:                                               *)
(*   the log (Logger): no line is cut by another, which lines may be       *)
(*     missing, and why the file is lost for good once the shared member   *)
(*     forgets the open handle; the invariant says who has the file open,  *)
(*     and what part of its line is in it;                                 *)
(*   a query (ResultSetLDAP): it is of one moment of the directory;        *)
(*   the configuration (Configuracion): what a server that starts has read *)
(*     under each key.                                                     *)
(***************************************************************************)
EXTENDS Configuracion, Logger, ResultSetLDAP, Consultas_proofs

-----------------------------------------------------------------------------
(* The log.                                                                *)

ConArchivo == {"asignar", "fin", "encabezado", "tipo", "texto", "cerrar"}
Lugares == {"fuera", "abrir", "volver", "muerto"} \cup ConArchivo

Hilo == [pc : Lugares, handle : Handles \cup {INVALIDO}, linea : Nat, solapada : BOOLEAN]
PiezaT == [hilo : Hilos, linea : Nat, parte : 1..3]
LineaT == [hilo : Hilos, linea : Nat, solapada : BOOLEAN]

TypeOKLog ==
  /\ variante \in {"solaris", "win", "clase"}
  /\ hilos \in [Hilos -> Hilo]
  /\ arch \in Handles \cup {INVALIDO}
  /\ abierto \in Handles \cup {INVALIDO}
  /\ archivo \in Seq(PiezaT)
  /\ posicion \in 1 .. Len(archivo) + 1
  /\ terminadas \subseteq LineaT
  /\ huboSolape \in BOOLEAN

\* The places each form of the logger goes through.
LugaresDe ==
  \A h \in Hilos :
    /\ variante = "solaris" => hilos[h].pc \in {"fuera", "abrir", "cerrar", "volver", "muerto"}
    /\ variante = "win" => hilos[h].pc \notin {"asignar", "muerto"}
    /\ variante = "clase" => hilos[h].pc # "muerto"
    /\ hilos[h].pc = "abrir" => hilos[h].handle = INVALIDO

\* Two threads inside know of each other.
SolapesVistos ==
  variante # "solaris" => \A h, g \in Hilos :
    h # g /\ hilos[h].pc # "fuera" /\ hilos[g].pc # "fuera"
      => hilos[h].solapada /\ huboSolape

Confiable == variante = "win" \/ (variante = "clase" /\ ~ huboSolape)

Ultima(h, p) == archivo[Len(archivo)] = Pieza(h, p)
LineaDe(h) == [hilo |-> h, linea |-> hilos[h].linea]

\* What is in the file of the line of the thread that has it open.
Avance(h) ==
  /\ hilos[h].handle = abierto
  /\ hilos[h].pc # "asignar" => Mio(h) = abierto
  /\ hilos[h].pc \in {"asignar", "fin", "encabezado", "cerrar"} => Len(archivo) % 3 = 0
  /\ hilos[h].pc \in {"encabezado", "tipo", "texto"} => posicion = Len(archivo) + 1
  /\ hilos[h].pc = "tipo" => Len(archivo) % 3 = 1 /\ Ultima(h, 1)
  /\ hilos[h].pc = "texto" => /\ Len(archivo) % 3 = 2 /\ Ultima(h, 2)
                              /\ archivo[Len(archivo) - 1] = Pieza(h, 1)
  /\ hilos[h].pc = "cerrar" => Escrita(LineaDe(h))

\* One thread has the file open, and only while it does is a line unfinished.
UnoConArchivo ==
  Confiable =>
    /\ \A h \in Hilos : hilos[h].pc \in ConArchivo => abierto # INVALIDO /\ Avance(h)
    /\ abierto # INVALIDO => \E h \in Hilos : hilos[h].pc \in ConArchivo
    /\ \A h, g \in Hilos : hilos[h].pc \in ConArchivo /\ hilos[g].pc \in ConArchivo => h = g
    /\ abierto = INVALIDO => Len(archivo) % 3 = 0

Enteras == variante = "solaris" \/ Confiable => PorLineas
DeATres == variante = "solaris" => Len(archivo) % 3 = 0

\* Nobody leaves EscribirLog without its line in the file, but for the excuse.
Excusa(solapada) == (variante = "win" /\ solapada) \/ (variante = "clase" /\ huboSolape)
AlVolver ==
  \A h \in Hilos :
    hilos[h].pc = "volver" => Escrita(LineaDe(h)) \/ Excusa(hilos[h].solapada)

\* The invariant, but for the types.
Conj == UnoConArchivo /\ Enteras /\ DeATres /\ AlVolver /\ PerdidaExplicada

-----------------------------------------------------------------------------
(* The file.                                                               *)

\* WriteFile at the position of the handle: over what is there, or at the end.
LEMMA Escribir ==
  ASSUME archivo \in Seq(PiezaT), posicion \in 1 .. Len(archivo) + 1, NEW x \in PiezaT,
         archivo' = [i \in DOMAIN archivo \cup {posicion} |->
                       IF i = posicion THEN x ELSE archivo[i]]
  PROVE  /\ archivo' \in Seq(PiezaT)
         /\ Len(archivo') = IF posicion = Len(archivo) + 1 THEN Len(archivo) + 1
                                                           ELSE Len(archivo)
         /\ archivo'[posicion] = x
         /\ \A i \in 1 .. Len(archivo) : i # posicion => archivo'[i] = archivo[i]
<1> DEFINE n == IF posicion = Len(archivo) + 1 THEN Len(archivo) + 1 ELSE Len(archivo)
<1>1. n \in Nat /\ DOMAIN archivo \cup {posicion} = 1 .. n
  OBVIOUS
<1>2. \A i \in 1 .. n : archivo'[i] \in PiezaT
  BY <1>1
<1>3. archivo' \in [1 .. n -> PiezaT]
  BY <1>1, <1>2
<1>4. archivo' \in Seq(PiezaT) /\ Len(archivo') = n
  <2>0. n \in Nat
    BY <1>1
  <2> HIDE DEF n
  <2>1. archivo' \in Seq(PiezaT)
    BY <2>0, <1>3, SeqDef
  <2>2. DOMAIN archivo' = 1 .. n /\ DOMAIN archivo' = 1 .. Len(archivo') /\ Len(archivo') \in Nat
    BY <1>3, <2>1, LenProperties
  <2> QED
    BY <1>1, <2>1, <2>2
<1>5. \A i \in 1 .. n : archivo'[i] = IF i = posicion THEN x ELSE archivo[i]
  BY <1>1
<1>6. QED
  BY <1>1, <1>4, <1>5

\* A line in the file stays there when the file grows.
LEMMA EscritaQueda ==
  ASSUME archivo \in Seq(PiezaT), archivo' \in Seq(PiezaT),
         Len(archivo) <= Len(archivo'),
         \A i \in 1 .. Len(archivo) : archivo'[i] = archivo[i]
  PROVE  \A l : Escrita(l) => Escrita(l)'
BY DEF Escrita

-----------------------------------------------------------------------------
(* Types, and who knows of whom.                                           *)

Base == TypeOKLog /\ LugaresDe /\ SolapesVistos

\* One piece of a line.
EscribeParte(h, p) ==
  /\ hilos[h].pc = Partes[p]
  /\ IF Sirve(h)
     THEN /\ archivo' = [i \in DOMAIN archivo \cup {posicion} |->
                           IF i = posicion THEN Pieza(h, p) ELSE archivo[i]]
          /\ posicion' = posicion + 1
     ELSE UNCHANGED <<archivo, posicion>>
  /\ Ir(h, IF p = 3 THEN "cerrar" ELSE Partes[p + 1])
  /\ UNCHANGED <<variante, arch, abierto, terminadas, huboSolape>>

\* A thread inside goes on to its next place.
LEMMA PasoDeLugar ==
  ASSUME hilos \in [Hilos -> Hilo], LugaresDe, SolapesVistos, UNCHANGED <<variante, huboSolape>>,
         NEW h \in Hilos, hilos[h].pc # "fuera", NEW l \in Lugares, Ir(h, l),
         variante = "solaris" => l \in {"fuera", "cerrar", "volver"},
         variante = "win" => l # "asignar",
         l \notin {"abrir", "muerto"}
  PROVE  hilos' \in [Hilos -> Hilo] /\ LugaresDe' /\ SolapesVistos'
<1>1. hilos' \in [Hilos -> Hilo] /\ hilos'[h].pc = l
  BY DEF Ir, Hilo
<1>2. \A g \in Hilos : /\ g # h => hilos'[g].pc = hilos[g].pc
                       /\ hilos'[g].handle = hilos[g].handle
  BY DEF Ir, Hilo
<1>3. \A g \in Hilos : hilos'[g].solapada = hilos[g].solapada
  BY DEF Ir, Hilo
<1>4. LugaresDe'
  BY <1>1, <1>2 DEF LugaresDe
<1>5. \A g \in Hilos : hilos'[g].pc # "fuera" => hilos[g].pc # "fuera"
  BY <1>1, <1>2
<1>6. SolapesVistos'
  BY <1>3, <1>5, Zenon DEF SolapesVistos
<1>7. QED
  BY <1>1, <1>4, <1>6

LEMMA BaseInvariante == SpecLog => []Base
<1>1. InitLog => Base
  <2> SUFFICES ASSUME InitLog PROVE Base
    OBVIOUS
  <2>1. hilos \in [Hilos -> Hilo]
    BY DEF InitLog, Hilo, Lugares
  <2>2. archivo \in Seq(PiezaT) /\ posicion \in 1 .. Len(archivo) + 1
    BY DEF InitLog
  <2>3. QED
    BY <2>1, <2>2 DEF InitLog, Base, TypeOKLog, LugaresDe, SolapesVistos
<1>2. Base /\ [NextLog]_varsLog => Base'
  <2> SUFFICES ASSUME Base, [NextLog]_varsLog PROVE Base'
    OBVIOUS
  <2>0. hilos \in [Hilos -> Hilo]
    BY DEF Base, TypeOKLog
  <2>1. ASSUME NEW h \in Hilos, Empezar(h) PROVE Base'
    <3>1. hilos' \in [Hilos -> Hilo]
      <4> SUFFICES ASSUME NEW g \in Hilos PROVE hilos'[g] \in Hilo
        BY <2>1 DEF Empezar
      <4> DEFINE b == Adentro # {}
                 d == hilos[g].solapada \/ g \in Adentro
      <4>1. b \in BOOLEAN /\ d \in BOOLEAN
        OBVIOUS
      <4>2. hilos'[g] = IF g = h THEN [pc |-> "abrir", handle |-> INVALIDO,
                                       linea |-> hilos[h].linea + 1, solapada |-> b]
                        ELSE [hilos[g] EXCEPT !.solapada = d]
        BY <2>1 DEF Empezar
      <4> HIDE DEF b, d
      <4>3. QED
        BY <4>1, <4>2, <2>0 DEF Hilo, Lugares
    <3>2. TypeOKLog' /\ LugaresDe'
      BY <2>1, <2>0, <3>1 DEF Empezar, Base, TypeOKLog, LugaresDe
    <3>3. SolapesVistos'
      <4> SUFFICES ASSUME variante # "solaris", NEW f \in Hilos, NEW g \in Hilos, f # g,
                          hilos'[f].pc # "fuera", hilos'[g].pc # "fuera"
                   PROVE  hilos'[f].solapada /\ huboSolape'
        BY <2>1 DEF Empezar, SolapesVistos
      <4>1. \A k \in Hilos : k # h => hilos'[k].pc = hilos[k].pc
        BY <2>1, <2>0 DEF Empezar, Hilo
      <4>2. Adentro # {}
        BY <4>1 DEF Adentro
      <4>3. huboSolape'
        BY <2>1, <4>2 DEF Empezar
      <4>4. hilos'[h].solapada
        BY <2>1, <4>2 DEF Empezar
      <4>5. f # h => hilos'[f].solapada
        BY <2>1, <2>0, <4>1 DEF Empezar, Adentro, Hilo
      <4>6. QED
        BY <4>3, <4>4, <4>5
    <3>4. QED
      BY <3>2, <3>3 DEF Base
  <2>2. ASSUME NEW h \in Hilos, Fopen(h) PROVE Base'
    <3>1. hilos' \in [Hilos -> Hilo] /\ LugaresDe' /\ SolapesVistos'
      BY <2>2, <2>0, PasoDeLugar DEF Fopen, Base, Lugares, ConArchivo
    <3>2. QED
      BY <2>2, <3>1 DEF Fopen, Base, TypeOKLog
  <2>3. ASSUME NEW h \in Hilos, FopenFalla(h) PROVE Base'
    <3>1. hilos' \in [Hilos -> Hilo]
      BY <2>3, <2>0 DEF FopenFalla, Hilo, Lugares
    <3>2. LugaresDe' /\ SolapesVistos'
      <4>1. variante' = "solaris" /\ \A g \in Hilos : hilos'[g].pc = "muerto"
        BY <2>3, <2>0 DEF FopenFalla, Hilo
      <4>2. QED
        BY <4>1 DEF LugaresDe, SolapesVistos
    <3>3. QED
      BY <2>3, <3>1, <3>2 DEF FopenFalla, Base, TypeOKLog
  <2>4. ASSUME NEW h \in Hilos, CreateFile(h) PROVE Base'
    <3> PICK k \in Handles : /\ abierto' = k
                             /\ hilos' = [hilos EXCEPT ![h].pc = Siguiente, ![h].handle = k]
      BY <2>4 DEF CreateFile
    <3> DEFINE v == [hilos[h] EXCEPT !.pc = Siguiente, !.handle = k]
    <3>1. v \in Hilo /\ v.pc = Siguiente /\ v.solapada = hilos[h].solapada
      BY <2>0 DEF Hilo, Lugares, ConArchivo, Siguiente
    <3>2. hilos' = [hilos EXCEPT ![h] = v]
      BY <2>0
    <3> HIDE DEF v
    <3>3. hilos' \in [Hilos -> Hilo]
      BY <2>0, <3>1, <3>2
    <3>4. LugaresDe'
      BY <2>4, <2>0, <3>1, <3>2 DEF CreateFile, Base, LugaresDe, Siguiente
    <3>5. \A g \in Hilos : /\ hilos'[g].pc # "fuera" => hilos[g].pc # "fuera"
                           /\ hilos'[g].solapada = hilos[g].solapada
      BY <2>4, <2>0, <3>1, <3>2 DEF CreateFile
    <3>6. SolapesVistos'
      <4>1. UNCHANGED <<variante, huboSolape>>
        BY <2>4 DEF CreateFile
      <4>2. QED
        BY <4>1, <3>5, Zenon DEF Base, SolapesVistos
    <3>7. TypeOKLog'
      BY <2>4, <3>3 DEF CreateFile, Base, TypeOKLog
    <3>8. QED
      BY <3>4, <3>6, <3>7 DEF Base
  <2>5. ASSUME NEW h \in Hilos, NoAbre(h) PROVE Base'
    <3>1. hilos' \in [Hilos -> Hilo] /\ LugaresDe' /\ SolapesVistos'
      BY <2>5, <2>0, PasoDeLugar DEF NoAbre, Base, Lugares, ConArchivo
    <3>2. QED
      BY <2>5, <3>1 DEF NoAbre, Base, TypeOKLog
  <2>6. ASSUME NEW h \in Hilos, Asignar(h) PROVE Base'
    <3>1. hilos' \in [Hilos -> Hilo] /\ LugaresDe' /\ SolapesVistos'
      BY <2>6, <2>0, PasoDeLugar DEF Asignar, Base, LugaresDe, Lugares, ConArchivo
    <3>2. arch' \in Handles \cup {INVALIDO}
      BY <2>6, <2>0 DEF Asignar, Hilo
    <3>3. QED
      BY <2>6, <3>1, <3>2 DEF Asignar, Base, TypeOKLog
  <2>7. ASSUME NEW h \in Hilos, SetFilePointer(h) PROVE Base'
    <3>1. hilos' \in [Hilos -> Hilo] /\ LugaresDe' /\ SolapesVistos'
      BY <2>7, <2>0, PasoDeLugar DEF SetFilePointer, Partes, Base, LugaresDe, Lugares, ConArchivo
    <3>2. posicion' \in 1 .. Len(archivo') + 1
      BY <2>7 DEF SetFilePointer, Base, TypeOKLog
    <3>3. QED
      BY <2>7, <3>1, <3>2 DEF SetFilePointer, Base, TypeOKLog
  <2>8. ASSUME NEW h \in Hilos, WriteFile(h) PROVE Base'
    <3> PICK p \in 1..3 : EscribeParte(h, p)
      BY <2>8 DEF WriteFile, EscribeParte
    <3>1. hilos' \in [Hilos -> Hilo] /\ LugaresDe' /\ SolapesVistos'
      <4> DEFINE l == IF p = 3 THEN "cerrar" ELSE Partes[p + 1]
      <4>1. l \in {"tipo", "texto", "cerrar"} /\ hilos[h].pc \in {"encabezado", "tipo", "texto"}
        BY DEF EscribeParte, Partes
      <4>2. variante # "solaris"
        BY <4>1 DEF Base, LugaresDe
      <4>3. Ir(h, l) /\ UNCHANGED <<variante, huboSolape>>
        BY DEF EscribeParte
      <4> HIDE DEF l
      <4>4. QED
        BY <2>0, <4>1, <4>2, <4>3, PasoDeLugar DEF Base, Lugares, ConArchivo
    <3>2. Pieza(h, p) \in PiezaT
      BY <2>0 DEF Pieza, PiezaT, Hilo
    <3>3. archivo' \in Seq(PiezaT) /\ posicion' \in 1 .. Len(archivo') + 1
      <4>1. archivo \in Seq(PiezaT) /\ posicion \in 1 .. Len(archivo) + 1
        BY DEF Base, TypeOKLog
      <4>2. CASE Sirve(h)
        <5>1. /\ archivo' = [i \in DOMAIN archivo \cup {posicion} |->
                               IF i = posicion THEN Pieza(h, p) ELSE archivo[i]]
              /\ posicion' = posicion + 1
          BY <4>2 DEF EscribeParte
        <5>2. /\ archivo' \in Seq(PiezaT)
              /\ Len(archivo') = IF posicion = Len(archivo) + 1 THEN Len(archivo) + 1
                                                                ELSE Len(archivo)
          BY <3>2, <4>1, <5>1, Escribir
        <5>3. Len(archivo) \in Nat
          BY <4>1, LenProperties
        <5>4. posicion' \in 1 .. Len(archivo') + 1
          <6>1. posicion' = posicion + 1
            BY <5>1
          <6>2. Len(archivo') = IF posicion = Len(archivo) + 1 THEN Len(archivo) + 1
                                                             ELSE Len(archivo)
            BY <5>2
          <6>3. QED
            BY <4>1, <5>3, <6>1, <6>2
        <5>5. QED
          BY <5>2, <5>4
      <4>3. CASE ~ Sirve(h)
        BY <4>1, <4>3 DEF EscribeParte
      <4>4. QED
        BY <4>2, <4>3
    <3>4. QED
      BY <3>1, <3>3 DEF EscribeParte, Base, TypeOKLog
  <2>9. ASSUME NEW h \in Hilos, Fclose(h) PROVE Base'
    <3>1. hilos' \in [Hilos -> Hilo] /\ LugaresDe' /\ SolapesVistos'
      BY <2>9, <2>0, PasoDeLugar DEF Fclose, Base, LugaresDe, Lugares, ConArchivo
    <3>2. Volcado(h) \in Seq(PiezaT)
      BY <2>0 DEF Volcado, Pieza, PiezaT, Hilo
    <3>3. archivo' \in Seq(PiezaT) /\ Len(archivo') >= Len(archivo)
      BY <2>9, <3>2 DEF Fclose, Base, TypeOKLog
    <3>4. QED
      BY <2>9, <3>1, <3>3 DEF Fclose, Base, TypeOKLog
  <2>10. ASSUME NEW h \in Hilos, CloseHandle(h) PROVE Base'
    <3>1. hilos' \in [Hilos -> Hilo] /\ LugaresDe' /\ SolapesVistos'
      BY <2>10, <2>0, PasoDeLugar DEF CloseHandle, Base, LugaresDe, Lugares, ConArchivo
    <3>2. QED
      BY <2>10, <3>1 DEF CloseHandle, TrasCerrar, Base, TypeOKLog
  <2>11. ASSUME NEW h \in Hilos, Volver(h) PROVE Base'
    <3>1. hilos' \in [Hilos -> Hilo] /\ LugaresDe' /\ SolapesVistos'
      BY <2>11, <2>0, PasoDeLugar DEF Volver, Base, LugaresDe, Lugares, ConArchivo
    <3>2. terminadas' \subseteq LineaT
      BY <2>11, <2>0 DEF Volver, Base, TypeOKLog, LineaT, Hilo
    <3>3. QED
      BY <2>11, <3>1, <3>2 DEF Volver, Base, TypeOKLog
  <2>12. CASE UNCHANGED varsLog
    BY <2>12 DEF varsLog, Base, TypeOKLog, LugaresDe, SolapesVistos
  <2>13. QED
    BY <2>1, <2>2, <2>3, <2>4, <2>5, <2>6, <2>7, <2>8, <2>9, <2>10, <2>11, <2>12 DEF NextLog
<1>3. QED
  BY <1>1, <1>2, PTL DEF SpecLog

-----------------------------------------------------------------------------
(* The file through every step.                                            *)

LEMMA Monotono ==
  ASSUME [NextLog]_varsLog
  PROVE  variante' = variante /\ (huboSolape => huboSolape')
<1>1. variante' = variante /\ (huboSolape' = huboSolape \/ \E h \in Hilos : Empezar(h))
  BY DEF NextLog, varsLog, Empezar, Fopen, FopenFalla, CreateFile, NoAbre, Asignar,
         SetFilePointer, WriteFile, Fclose, CloseHandle, Volver
<1>2. ASSUME NEW h \in Hilos, Empezar(h) PROVE huboSolape => huboSolape'
  BY <1>2, Zenon DEF Empezar
<1>3. CASE huboSolape' = huboSolape
  BY <1>1, <1>3, Zenon
<1>4. QED
  BY <1>1, <1>2, <1>3

\* Once two threads have been inside, the shared member promises nothing.
LEMMA SinConfianza ==
  ASSUME Base', variante' # "solaris", ~ Confiable'
  PROVE  Conj'
<1>1. variante' = "clase" /\ huboSolape'
  BY DEF Base, TypeOKLog, Confiable
<1>2. QED
  BY <1>1 DEF Conj, UnoConArchivo, Enteras, DeATres, AlVolver, PerdidaExplicada,
              Excusa, Confiable

\* What leaves the file as it is leaves its lines as they are.
LEMMA MismoArchivo ==
  ASSUME archivo' = archivo
  PROVE  /\ \A l : Escrita(l)' <=> Escrita(l)
         /\ PorLineas' <=> PorLineas
BY DEF Escrita, PorLineas

\* The excuse for a missing line does not go away.
LEMMA SigueExplicada ==
  ASSUME PerdidaExplicada, [NextLog]_varsLog, UNCHANGED terminadas,
         \A l : Escrita(l) => Escrita(l)'
  PROVE  PerdidaExplicada'
<1>1. variante' = variante /\ (huboSolape => huboSolape')
  BY Monotono
<1>2. QED
  BY <1>1, Zenon DEF PerdidaExplicada

\* A thread that comes back leaves its line behind, or the excuse.
LEMMA PasoVolver ==
  ASSUME Base, AlVolver, PerdidaExplicada, NEW h \in Hilos, Volver(h)
  PROVE  AlVolver' /\ PerdidaExplicada'
<1> DEFINE l == [hilo |-> h, linea |-> hilos[h].linea, solapada |-> hilos[h].solapada]
<1>0. hilos \in [Hilos -> Hilo]
  BY DEF Base, TypeOKLog
<1>1. /\ hilos[h].pc = "volver" /\ terminadas' = terminadas \cup {l}
      /\ UNCHANGED <<variante, archivo, huboSolape>>
  BY DEF Volver
<1>2. \A m : Escrita(m)' <=> Escrita(m)
  BY <1>1, MismoArchivo
<1>3. Escrita(l) \/ (variante = "win" /\ l.solapada) \/ (variante = "clase" /\ huboSolape)
  <2>1. Escrita(LineaDe(h)) \/ Excusa(hilos[h].solapada)
    BY <1>1 DEF AlVolver
  <2>2. Escrita(LineaDe(h)) => Escrita(l)
    BY DEF Escrita, LineaDe
  <2>3. l.solapada <=> hilos[h].solapada
    OBVIOUS
  <2> HIDE DEF l
  <2>4. QED
    BY <2>1, <2>2, <2>3 DEF Excusa
<1>4. PerdidaExplicada'
  BY <1>1, <1>2, <1>3, Zenon DEF PerdidaExplicada
<1>5. \A g \in Hilos : hilos'[g].pc = "volver" =>
        hilos[g].pc = "volver" /\ hilos'[g] = hilos[g]
  BY <1>0 DEF Volver, Ir, Hilo
<1>6. AlVolver'
  <2> SUFFICES ASSUME NEW g \in Hilos, hilos'[g].pc = "volver"
               PROVE  Escrita(LineaDe(g))' \/ Excusa(hilos[g].solapada)'
    BY DEF AlVolver
  <2>1. hilos[g].pc = "volver" /\ hilos'[g] = hilos[g]
    BY <1>5
  <2>2. Escrita(LineaDe(g)) \/ Excusa(hilos[g].solapada)
    BY <2>1 DEF AlVolver
  <2>3. LineaDe(g)' = LineaDe(g)
    BY <2>1 DEF LineaDe
  <2>4. Escrita(LineaDe(g))' <=> Escrita(LineaDe(g))
    BY <1>1, <2>3 DEF Escrita
  <2>5. Excusa(hilos[g].solapada)' <=> Excusa(hilos[g].solapada)
    BY <1>1, <2>1 DEF Excusa
  <2>6. QED
    BY <2>2, <2>4, <2>5
<1>7. QED
  BY <1>4, <1>6

LEMMA Modulo ==
  \A n \in Nat : /\ n % 3 = 0 => (n + 1) % 3 = 1
                 /\ n % 3 = 1 => (n + 1) % 3 = 2
                 /\ n % 3 = 2 => (n + 1) % 3 = 0
                 /\ n % 3 \in 0..2
OBVIOUS

\* The three pieces of a line at the end of a file of whole lines.
LEMMA AgregarLinea ==
  ASSUME archivo \in Seq(PiezaT), Len(archivo) % 3 = 0, PorLineas,
         NEW h \in Hilos, hilos[h].linea \in Nat, archivo' = archivo \o Volcado(h)
  PROVE  /\ archivo' \in Seq(PiezaT) /\ Len(archivo') = Len(archivo) + 3
         /\ \A i \in 1 .. Len(archivo) : archivo'[i] = archivo[i]
         /\ archivo'[Len(archivo) + 1] = Pieza(h, 1)
         /\ archivo'[Len(archivo) + 2] = Pieza(h, 2)
         /\ archivo'[Len(archivo) + 3] = Pieza(h, 3)
         /\ PorLineas'
<1> DEFINE n == Len(archivo)
<1>0. n \in Nat /\ DOMAIN archivo = 1 .. n
  BY LenProperties
<1>1. Volcado(h) \in Seq(PiezaT) /\ Len(Volcado(h)) = 3
  <2>1. Volcado(h) \in [1..3 -> PiezaT]
    BY DEF Volcado, Pieza, PiezaT
  <2>2. 3 \in Nat
    OBVIOUS
  <2>3. \E k \in Nat : Volcado(h) \in [1..k -> PiezaT]
    BY <2>1, <2>2
  <2>4. Volcado(h) \in Seq(PiezaT)
    BY <2>3, SeqDef
  <2>5. 1 .. Len(Volcado(h)) = 1 .. 3 /\ Len(Volcado(h)) \in Nat
    BY <2>1, <2>4, LenProperties
  <2>6. 3 \in 1 .. Len(Volcado(h)) /\ 4 \notin 1 .. Len(Volcado(h))
    BY <2>5
  <2>7. \A k \in Nat : 3 \in 1 .. k /\ 4 \notin 1 .. k => k = 3
    OBVIOUS
  <2>8. QED
    BY <2>4, <2>5, <2>6, <2>7
<1>2. /\ archivo' \in Seq(PiezaT) /\ Len(archivo') = n + 3
      /\ \A i \in 1 .. n + 3 : archivo'[i] = IF i <= n THEN archivo[i] ELSE Volcado(h)[i - n]
  <2>1. /\ archivo \o Volcado(h) \in Seq(PiezaT)
        /\ Len(archivo \o Volcado(h)) = Len(archivo) + Len(Volcado(h))
        /\ \A i \in 1 .. Len(archivo) + Len(Volcado(h)) :
             (archivo \o Volcado(h))[i] = IF i <= Len(archivo) THEN archivo[i]
                                         ELSE Volcado(h)[i - Len(archivo)]
    BY <1>1, ConcatProperties
  <2>2. QED
    BY <1>1, <2>1
<1>3. DOMAIN archivo' = 1 .. n + 3
  BY <1>2, LenProperties
<1>4. \A i \in 1 .. n : archivo'[i] = archivo[i]
  BY <1>0, <1>2
<1>5. /\ archivo'[n + 1] = Pieza(h, 1) /\ archivo'[n + 2] = Pieza(h, 2)
      /\ archivo'[n + 3] = Pieza(h, 3)
  BY <1>0, <1>2 DEF Volcado
<1> HIDE DEF n
<1>6. PorLineas'
  <2> SUFFICES ASSUME NEW i \in 1 .. n + 3
               PROVE  /\ archivo'[i].parte = ((i - 1) % 3) + 1
                      /\ archivo'[i].parte > 1 =>
                           /\ archivo'[i].hilo = archivo'[i - 1].hilo
                           /\ archivo'[i].linea = archivo'[i - 1].linea
    BY <1>3 DEF PorLineas
  <2>0. /\ n % 3 = 0 /\ (n + 1) % 3 = 1 /\ (n + 2) % 3 = 2
        /\ n + 1 \in Nat /\ n + 2 \in Nat
    <3>1. n % 3 = 0
      BY DEF n
    <3>2. (n + 1) % 3 = 1
      BY <1>0, <3>1, Modulo
    <3>3. n + 1 \in Nat /\ (n + 1) + 1 = n + 2
      BY <1>0
    <3>4. ((n + 1) + 1) % 3 = 2
      BY <3>2, <3>3, Modulo
    <3>5. QED
      BY <3>1, <3>2, <3>3, <3>4
  <2>1. CASE i \in 1 .. n
    <3>1. /\ archivo[i].parte = ((i - 1) % 3) + 1
          /\ archivo[i].parte > 1 => /\ archivo[i].hilo = archivo[i - 1].hilo
                                    /\ archivo[i].linea = archivo[i - 1].linea
      BY <1>0, <2>1 DEF PorLineas
    <3>2. archivo[i].parte > 1 => i - 1 \in 1 .. n
      <4>1. i = 1 => (i - 1) % 3 = 0
        OBVIOUS
      <4>2. i # 1 => i - 1 \in 1 .. n
        BY <1>0, <2>1
      <4>3. QED
        BY <3>1, <4>1, <4>2
    <3>3. QED
      BY <1>4, <2>1, <3>1, <3>2
  <2>2. CASE i = n + 1
    <3>1. i - 1 = n /\ (i - 1) % 3 = 0
      BY <1>0, <2>0, <2>2
    <3>2. archivo'[i] = Pieza(h, 1)
      BY <1>5, <2>2
    <3>3. QED
      BY <3>1, <3>2 DEF Pieza
  <2>3. CASE i = n + 2
    <3>1. (i - 1) % 3 = 1 /\ i - 1 = n + 1
      BY <1>0, <2>0, <2>3
    <3>2. archivo'[i] = Pieza(h, 2) /\ archivo'[i - 1] = Pieza(h, 1)
      BY <1>5, <2>3, <3>1
    <3>3. QED
      BY <3>1, <3>2 DEF Pieza
  <2>4. CASE i = n + 3
    <3>1. (i - 1) % 3 = 2 /\ i - 1 = n + 2
      BY <1>0, <2>0, <2>4
    <3>2. archivo'[i] = Pieza(h, 3) /\ archivo'[i - 1] = Pieza(h, 2)
      BY <1>5, <2>4, <3>1
    <3>3. QED
      BY <3>1, <3>2 DEF Pieza
  <2>5. i \in 1 .. n \/ i = n + 1 \/ i = n + 2 \/ i = n + 3
    BY <1>0
  <2>6. QED
    BY <2>1, <2>2, <2>3, <2>4, <2>5
<1>7. QED
  BY <1>2, <1>4, <1>5, <1>6 DEF n

\* A step that leaves the file, and the lines of those coming back, as they are.
LEMMA MismasLineas ==
  ASSUME [NextLog]_varsLog, archivo' = archivo, terminadas' = terminadas,
         AlVolver, PerdidaExplicada,
         \A g \in Hilos : hilos'[g].pc = "volver" =>
            \/ /\ hilos[g].pc = "volver" /\ hilos'[g].linea = hilos[g].linea
               /\ hilos[g].solapada => hilos'[g].solapada
            \/ Escrita(LineaDe(g))' \/ Excusa(hilos[g].solapada)'
  PROVE  AlVolver' /\ PerdidaExplicada'
<1>1. \A l : Escrita(l)' <=> Escrita(l)
  BY MismoArchivo
<1>2. variante' = variante /\ (huboSolape => huboSolape')
  BY Monotono
<1>3. ASSUME NEW g \in Hilos, hilos'[g].pc = "volver"
      PROVE  Escrita(LineaDe(g))' \/ Excusa(hilos[g].solapada)'
  <2>1. CASE /\ hilos[g].pc = "volver" /\ hilos'[g].linea = hilos[g].linea
             /\ hilos[g].solapada => hilos'[g].solapada
    <3>1. Escrita(LineaDe(g)) \/ Excusa(hilos[g].solapada)
      BY <2>1 DEF AlVolver
    <3>2. LineaDe(g)' = LineaDe(g)
      BY <2>1 DEF LineaDe
    <3>3. Escrita(LineaDe(g)) => Escrita(LineaDe(g))'
      BY <3>2 DEF Escrita
    <3>4. Excusa(hilos[g].solapada) => Excusa(hilos[g].solapada)'
      BY <1>2, <2>1, Zenon DEF Excusa
    <3>5. QED
      BY <3>1, <3>3, <3>4
  <2>2. QED
    BY <1>3, <2>1
<1>4. QED
  BY <1>1, <1>3, SigueExplicada DEF AlVolver

\* A FILE for each call: the file is whole lines at every moment.
LEMMA PasoSolaris ==
  ASSUME Base, Base', Conj, [NextLog]_varsLog, variante = "solaris"
  PROVE  Conj'
<1>0. /\ hilos \in [Hilos -> Hilo] /\ archivo \in Seq(PiezaT)
      /\ PorLineas /\ Len(archivo) % 3 = 0
      /\ AlVolver /\ PerdidaExplicada /\ LugaresDe
  BY DEF Base, TypeOKLog, Conj, Enteras, DeATres
<1>1. variante' = "solaris"
  BY Monotono
<1>2. UnoConArchivo'
  BY <1>1 DEF UnoConArchivo, Confiable
<1>3. ASSUME archivo' = archivo PROVE Enteras' /\ DeATres'
  BY <1>0, <1>3, MismoArchivo DEF Enteras, DeATres
<1>4. ASSUME NEW h \in Hilos, Empezar(h) PROVE Conj'
  <2>1. \A g \in Hilos : hilos'[g].pc = "volver" =>
            /\ hilos[g].pc = "volver" /\ hilos'[g].linea = hilos[g].linea
            /\ hilos[g].solapada => hilos'[g].solapada
    <3> SUFFICES ASSUME NEW g \in Hilos, hilos'[g].pc = "volver"
                 PROVE  /\ hilos[g].pc = "volver" /\ hilos'[g].linea = hilos[g].linea
                        /\ hilos[g].solapada => hilos'[g].solapada
      OBVIOUS
    <3>1. g # h
      BY <1>4 DEF Empezar
    <3>2. hilos'[g] = [hilos[g] EXCEPT !.solapada = hilos[g].solapada \/ g \in Adentro]
      BY <1>4, <3>1 DEF Empezar
    <3>3. hilos[g] \in Hilo
      BY <1>0
    <3>4. hilos'[g].pc = hilos[g].pc /\ hilos'[g].linea = hilos[g].linea
      BY <3>2, <3>3 DEF Hilo
    <3>5. hilos'[g].solapada = (hilos[g].solapada \/ g \in Adentro)
      BY <3>2, <3>3 DEF Hilo
    <3>6. QED
      BY <3>4, <3>5
  <2>2. AlVolver' /\ PerdidaExplicada'
    BY <1>0, <1>4, <2>1, MismasLineas DEF Empezar
  <2>3. QED
    BY <1>2, <1>3, <1>4, <2>2 DEF Empezar, Conj
<1>5. ASSUME NEW h \in Hilos, Fopen(h) PROVE Conj'
  <2>1. \A g \in Hilos : hilos'[g].pc = "volver" => hilos'[g] = hilos[g]
    BY <1>0, <1>5 DEF Fopen, Ir, Hilo
  <2>2. AlVolver' /\ PerdidaExplicada'
    BY <1>0, <1>5, <2>1, MismasLineas DEF Fopen
  <2>3. QED
    BY <1>2, <1>3, <1>5, <2>2 DEF Fopen, Conj
<1>6. ASSUME NEW h \in Hilos, FopenFalla(h) PROVE Conj'
  <2>1. \A g \in Hilos : hilos'[g].pc = "muerto"
    BY <1>0, <1>6 DEF FopenFalla, Hilo
  <2>2. AlVolver' /\ PerdidaExplicada'
    BY <1>0, <1>6, <2>1, MismasLineas DEF FopenFalla
  <2>3. QED
    BY <1>2, <1>3, <1>6, <2>2 DEF FopenFalla, Conj
<1>7. ASSUME NEW h \in Hilos, Fclose(h) PROVE Conj'
  <2>1. /\ archivo' = archivo \o Volcado(h) /\ hilos[h].linea \in Nat
        /\ terminadas' = terminadas /\ huboSolape' = huboSolape
    BY <1>0, <1>7 DEF Fclose, Hilo
  <2>2. /\ archivo' \in Seq(PiezaT) /\ Len(archivo') = Len(archivo) + 3
        /\ \A i \in 1 .. Len(archivo) : archivo'[i] = archivo[i]
        /\ archivo'[Len(archivo) + 1] = Pieza(h, 1)
        /\ archivo'[Len(archivo) + 2] = Pieza(h, 2)
        /\ archivo'[Len(archivo) + 3] = Pieza(h, 3)
        /\ PorLineas'
    BY <1>0, <2>1, AgregarLinea
  <2>3. Len(archivo) \in Nat
    BY <1>0, LenProperties
  <2>4. \A l : Escrita(l) => Escrita(l)'
    BY <1>0, <2>2, <2>3, EscritaQueda
  <2>5. \A g \in Hilos : /\ hilos'[g].linea = hilos[g].linea
                         /\ hilos'[g].solapada = hilos[g].solapada
                         /\ g # h => hilos'[g].pc = hilos[g].pc
    BY <1>0, <1>7 DEF Fclose, Ir, Hilo
  <2>6. Escrita(LineaDe(h))'
    <3>1. /\ DOMAIN archivo' = 1 .. Len(archivo) + 3 
          /\ \A p \in 1..3 : Len(archivo) + p \in 1 .. Len(archivo) + 3
      BY <2>2, <2>3, LenProperties
    <3>2. \A p \in 1..3 : archivo'[Len(archivo) + p] = Pieza(h, p)
      BY <2>2
    <3>3. LineaDe(h)' = [hilo |-> h, linea |-> hilos[h].linea]
      BY <2>5 DEF LineaDe
    <3>4. \A p \in 1..3 : Pieza(h, p) = [hilo |-> h, linea |-> hilos[h].linea, parte |-> p]
      BY DEF Pieza
    <3>5. QED
      BY <3>1, <3>2, <3>3, <3>4 DEF Escrita
  <2>7. AlVolver'
    <3> SUFFICES ASSUME NEW g \in Hilos, g # h, hilos'[g].pc = "volver"
                 PROVE  Escrita(LineaDe(g))' 
      BY <2>6 DEF AlVolver
    <3>1. Escrita(LineaDe(g))
      BY <1>0, <2>5 DEF AlVolver, Excusa
    <3>2. LineaDe(g)' = LineaDe(g)
      BY <2>5 DEF LineaDe
    <3>3. QED
      BY <2>4, <3>1, <3>2
  <2>8. PerdidaExplicada'
    BY <1>0, <2>1, <2>4, SigueExplicada
  <2>9. Enteras' /\ DeATres'
    <3>1. Len(archivo') % 3 = 0
      BY <1>0, <2>2, <2>3
    <3>2. QED
      BY <2>2, <3>1 DEF Enteras, DeATres
  <2>10. QED
    BY <1>2, <2>7, <2>8, <2>9 DEF Conj
<1>8. ASSUME NEW h \in Hilos, Volver(h) PROVE Conj'
  BY <1>0, <1>2, <1>3, <1>8, PasoVolver DEF Volver, Conj
<1>9. CASE UNCHANGED varsLog
  <2>1. AlVolver' /\ PerdidaExplicada'
    BY <1>0, <1>9, MismasLineas DEF varsLog
  <2>2. QED
    BY <1>2, <1>3, <1>9, <2>1 DEF varsLog, Conj
<1>10. ASSUME NEW h \in Hilos,
              \/ CreateFile(h) \/ NoAbre(h) \/ Asignar(h) \/ SetFilePointer(h)
              \/ WriteFile(h) \/ CloseHandle(h)
       PROVE  FALSE
  <2>1. hilos[h].pc \in {"fuera", "abrir", "cerrar", "volver", "muerto"}
    BY <1>0 DEF LugaresDe
  <2>2. hilos[h].pc \notin {"asignar", "fin", "encabezado", "tipo", "texto"}
    BY <2>1
  <2>3. QED
    BY <1>10, <2>2 DEF CreateFile, NoAbre, Asignar, SetFilePointer, WriteFile, CloseHandle, Partes
<1>11. QED
  BY <1>4, <1>5, <1>6, <1>7, <1>8, <1>9, <1>10 DEF NextLog

\* The thread that has the file open keeps it while another one moves.
LEMMA SigueConArchivo ==
  ASSUME UnoConArchivo, Confiable, UNCHANGED <<variante, arch, abierto, posicion, archivo>>,
         \A g \in Hilos :
           hilos[g].pc \in ConArchivo \/ hilos'[g].pc \in ConArchivo =>
             /\ hilos'[g].pc = hilos[g].pc /\ hilos'[g].handle = hilos[g].handle
             /\ hilos'[g].linea = hilos[g].linea
  PROVE  UnoConArchivo'
<1>1. \A g \in Hilos : hilos'[g].pc \in ConArchivo <=> hilos[g].pc \in ConArchivo
  OBVIOUS
<1>2. ASSUME NEW g \in Hilos, hilos'[g].pc \in ConArchivo
      PROVE  abierto' # INVALIDO /\ Avance(g)'
  <2>1. hilos[g].pc \in ConArchivo /\ abierto # INVALIDO /\ Avance(g)
    BY <1>1, <1>2 DEF UnoConArchivo
  <2>2. /\ hilos'[g].pc = hilos[g].pc /\ hilos'[g].handle = hilos[g].handle
        /\ hilos'[g].linea = hilos[g].linea
    BY <1>2
  <2>3. Avance(g)'
    BY <2>1, <2>2 DEF Avance, Mio, Ultima, Pieza, Escrita, LineaDe
  <2>4. QED
    BY <2>1, <2>3
<1>3. QED
  BY <1>1, <1>2 DEF UnoConArchivo

LEMMA SoloEste ==
  ASSUME NEW h \in Hilos, \A g \in Hilos : g # h => hilos'[g].pc \notin ConArchivo,
         abierto' # INVALIDO, hilos'[h].pc \in ConArchivo, Avance(h)'
  PROVE  UnoConArchivo'
BY DEF UnoConArchivo

\* One handle for each call, or a member nobody has fought for: the thread with
\* the file open writes its line at the end, and nobody else writes.
LEMMA PasoConfiable ==
  ASSUME Base, Base', Conj, [NextLog]_varsLog, variante # "solaris", Confiable'
  PROVE  Conj'
<1>0. /\ hilos \in [Hilos -> Hilo] /\ archivo \in Seq(PiezaT) /\ Len(archivo) \in Nat
      /\ AlVolver /\ PerdidaExplicada /\ UnoConArchivo /\ LugaresDe /\ SolapesVistos
  BY LenProperties DEF Base, TypeOKLog, Conj
<1>1. /\ variante' = variante /\ Confiable /\ variante' # "solaris"
      /\ variante = "clase" => ~ huboSolape'
  BY Monotono DEF Confiable
<1>2. PorLineas
  BY <1>1, <1>0 DEF Conj, Enteras
<1>3. DeATres'
  BY <1>1 DEF DeATres
<1>4. archivo' = archivo => Enteras'
  BY <1>2, MismoArchivo DEF Enteras
<1>5. ASSUME NEW h \in Hilos, hilos[h].pc \in ConArchivo, NEW l \in Lugares, Ir(h, l)
      PROVE  /\ abierto # INVALIDO /\ Avance(h)
             /\ hilos'[h].pc = l
             /\ \A g \in Hilos : g # h => hilos[g].pc \notin ConArchivo /\ hilos'[g] = hilos[g]
             /\ \A g \in Hilos : /\ hilos'[g].handle = hilos[g].handle
                                 /\ hilos'[g].linea = hilos[g].linea
                                 /\ hilos'[g].solapada = hilos[g].solapada
  <2>1. abierto # INVALIDO /\ Avance(h)
    BY <1>0, <1>1, <1>5 DEF UnoConArchivo
  <2>2. \A g \in Hilos : g # h => hilos[g].pc \notin ConArchivo
    BY <1>0, <1>1, <1>5 DEF UnoConArchivo
  <2>3. QED
    BY <1>0, <1>5, <2>1, <2>2 DEF Ir, Hilo
<1>6. ASSUME NEW h \in Hilos, Empezar(h) PROVE Conj'
  <2>1. \A g \in Hilos : g # h =>
            /\ hilos'[g].pc = hilos[g].pc /\ hilos'[g].handle = hilos[g].handle
            /\ hilos'[g].linea = hilos[g].linea
    BY <1>0, <1>6 DEF Empezar, Hilo
  <2>2. hilos[h].pc = "fuera" /\ hilos'[h].pc = "abrir"
    BY <1>6 DEF Empezar
  <2>3. \A g \in Hilos : g # h => (hilos[g].solapada => hilos'[g].solapada)
    <3> SUFFICES ASSUME NEW g \in Hilos, g # h PROVE hilos[g].solapada => hilos'[g].solapada
      OBVIOUS
    <3>1. hilos'[g] = [hilos[g] EXCEPT !.solapada = hilos[g].solapada \/ g \in Adentro]
      BY <1>6 DEF Empezar
    <3>2. hilos[g] \in Hilo
      BY <1>0
    <3>3. hilos'[g].solapada = (hilos[g].solapada \/ g \in Adentro)
      BY <3>1, <3>2 DEF Hilo
    <3>4. QED
      BY <3>3
  <2>4. UnoConArchivo'
    <3>1. UNCHANGED <<variante, arch, abierto, posicion, archivo>>
      BY <1>6 DEF Empezar
    <3>2. QED
      BY <1>0, <1>1, <2>1, <2>2, <3>1, SigueConArchivo DEF ConArchivo
  <2>5. AlVolver' /\ PerdidaExplicada'
    BY <1>0, <1>6, <2>1, <2>2, <2>3, MismasLineas DEF Empezar
  <2>6. QED
    BY <1>3, <1>4, <1>6, <2>4, <2>5 DEF Empezar, Conj
<1>7. ASSUME NEW h \in Hilos, CreateFile(h) PROVE Conj'
  <2> PICK k \in Handles : /\ abierto' = k
                           /\ hilos' = [hilos EXCEPT ![h].pc = Siguiente, ![h].handle = k]
    BY <1>7 DEF CreateFile
  <2>1. /\ hilos'[h].pc = Siguiente /\ hilos'[h].handle = k
        /\ \A g \in Hilos : g # h => hilos'[g] = hilos[g]
    BY <1>0 DEF Hilo
  <2>2. abierto = INVALIDO /\ UNCHANGED <<variante, arch, archivo, terminadas, huboSolape>>
    BY <1>7 DEF CreateFile, SePuedeAbrir
  <2>3. /\ \A g \in Hilos : hilos[g].pc \notin ConArchivo
        /\ Len(archivo) % 3 = 0
    BY <1>0, <1>1, <2>2 DEF UnoConArchivo
  <2>4. abierto' # INVALIDO
    BY LoggerAssumption
  <2>5. Avance(h)'
    <3>1. /\ hilos'[h].pc \in {"asignar", "fin"}
          /\ hilos'[h].pc = "fin" => variante' = "win"
      BY <1>1, <2>1, <2>2 DEF Siguiente, Confiable
    <3>2. hilos'[h].pc # "asignar" => Mio(h)' = abierto'
      BY <2>1, <3>1 DEF Mio
    <3>3. Len(archivo') % 3 = 0 /\ hilos'[h].handle = abierto'
      BY <2>1, <2>2, <2>3
    <3>4. QED
      BY <3>1, <3>2, <3>3 DEF Avance
  <2>6. UnoConArchivo'
    BY <2>1, <2>3, <2>4, <2>5, SoloEste DEF ConArchivo, Siguiente
  <2>7. AlVolver' /\ PerdidaExplicada'
    BY <1>0, <2>1, <2>2, MismasLineas DEF Siguiente
  <2>8. QED
    BY <1>3, <1>4, <2>2, <2>6, <2>7 DEF Conj
<1>8. ASSUME NEW h \in Hilos, NoAbre(h) PROVE Conj'
  <2>1. PICK g \in Hilos : hilos[g].pc \in ConArchivo
    BY <1>0, <1>1, <1>8 DEF NoAbre, SePuedeAbrir, UnoConArchivo
  <2>2. /\ hilos[h].pc = "abrir" /\ g # h /\ hilos[g].pc # "fuera"
    BY <1>8, <2>1 DEF NoAbre, ConArchivo
  <2>3. hilos[h].solapada /\ huboSolape
    BY <1>0, <2>2 DEF SolapesVistos
  <2>4. variante = "win"
    BY <1>1, <2>3 DEF Confiable
  <2>5. /\ Ir(h, "volver") /\ UNCHANGED <<variante, arch, abierto, posicion, archivo, terminadas>>
    BY <1>8, <2>4 DEF NoAbre
  <2>6. /\ hilos'[h].pc = "volver" /\ \A f \in Hilos : f # h => hilos'[f] = hilos[f]
        /\ hilos'[h].solapada = hilos[h].solapada
    BY <1>0, <2>5 DEF Ir, Hilo
  <2>7. UnoConArchivo'
    BY <1>0, <1>1, <2>2, <2>5, <2>6, SigueConArchivo DEF ConArchivo
  <2>8. Excusa(hilos[h].solapada)'
    BY <2>3, <2>4, <2>5, <2>6 DEF Excusa
  <2>9. AlVolver' /\ PerdidaExplicada'
    BY <1>0, <2>5, <2>6, <2>8, MismasLineas
  <2>10. QED
    BY <1>3, <1>4, <2>5, <2>7, <2>9 DEF Conj
<1>9. ASSUME NEW h \in Hilos, Asignar(h) PROVE Conj'
  <2>1. /\ hilos[h].pc = "asignar" /\ Ir(h, "fin") /\ arch' = hilos[h].handle
        /\ UNCHANGED <<variante, abierto, posicion, archivo, terminadas, huboSolape>>
    BY <1>9 DEF Asignar
  <2>2. /\ abierto # INVALIDO /\ Avance(h) /\ hilos'[h].pc = "fin"
        /\ \A g \in Hilos : g # h => hilos[g].pc \notin ConArchivo /\ hilos'[g] = hilos[g]
        /\ hilos'[h].handle = hilos[h].handle
    BY <1>5, <2>1 DEF ConArchivo, Lugares
  <2>3. variante = "clase"
    BY <1>1, <2>1, <1>0 DEF LugaresDe, Confiable
  <2>4. Avance(h)'
    BY <2>1, <2>2, <2>3 DEF Avance, Mio
  <2>5. UnoConArchivo'
    BY <2>1, <2>2, <2>4, SoloEste DEF ConArchivo
  <2>6. AlVolver' /\ PerdidaExplicada'
    BY <1>0, <2>1, <2>2, MismasLineas
  <2>7. QED
    BY <1>3, <1>4, <2>1, <2>5, <2>6 DEF Conj
<1>10. ASSUME NEW h \in Hilos, SetFilePointer(h) PROVE Conj'
  <2>1. /\ hilos[h].pc = "fin" /\ Ir(h, "encabezado")
        /\ posicion' = IF Sirve(h) THEN Len(archivo) + 1 ELSE posicion
        /\ UNCHANGED <<variante, arch, abierto, archivo, terminadas, huboSolape>>
    BY <1>10 DEF SetFilePointer, Partes
  <2>2. /\ abierto # INVALIDO /\ Avance(h) /\ hilos'[h].pc = "encabezado"
        /\ \A g \in Hilos : g # h => hilos[g].pc \notin ConArchivo /\ hilos'[g] = hilos[g]
        /\ hilos'[h].handle = hilos[h].handle
    BY <1>5, <2>1 DEF ConArchivo, Lugares
  <2>3. posicion' = Len(archivo) + 1
    BY <2>1, <2>2 DEF Avance, Sirve
  <2>4. Avance(h)'
    BY <2>1, <2>2, <2>3 DEF Avance, Mio
  <2>5. UnoConArchivo'
    BY <2>1, <2>2, <2>4, SoloEste DEF ConArchivo
  <2>6. AlVolver' /\ PerdidaExplicada'
    BY <1>0, <2>1, <2>2, MismasLineas
  <2>7. QED
    BY <1>3, <1>4, <2>1, <2>5, <2>6 DEF Conj
<1>11. ASSUME NEW h \in Hilos, WriteFile(h) PROVE Conj'
  <2> PICK p \in 1..3 : EscribeParte(h, p)
    BY <1>11 DEF WriteFile, EscribeParte
  <2> DEFINE n == Len(archivo)
             l == IF p = 3 THEN "cerrar" ELSE Partes[p + 1]
  <2>1. /\ hilos[h].pc = Partes[p] /\ hilos[h].pc \in ConArchivo \ {"asignar", "fin", "cerrar"}
        /\ l \in Lugares /\ Ir(h, l)
        /\ UNCHANGED <<variante, arch, abierto, terminadas, huboSolape>>
    BY DEF EscribeParte, Partes, ConArchivo, Lugares
  <2>2. /\ abierto # INVALIDO /\ Avance(h) /\ hilos'[h].pc = l
        /\ \A g \in Hilos : g # h => hilos[g].pc \notin ConArchivo /\ hilos'[g] = hilos[g]
        /\ hilos'[h].handle = hilos[h].handle /\ hilos'[h].linea = hilos[h].linea
        /\ \A g \in Hilos : hilos'[g].linea = hilos[g].linea
    BY <1>5, <2>1
  <2>3. Sirve(h) /\ posicion = n + 1 /\ n % 3 = p - 1
    BY <2>1, <2>2 DEF Avance, Sirve, Partes, ConArchivo
  <2>4. /\ p > 1 => archivo[n] = Pieza(h, p - 1)
        /\ p = 3 => archivo[n - 1] = Pieza(h, 1)
    BY <2>1, <2>2 DEF Avance, Ultima, Partes
  <2>5. /\ archivo' = [i \in DOMAIN archivo \cup {posicion} |->
                         IF i = posicion THEN Pieza(h, p) ELSE archivo[i]]
        /\ posicion' = posicion + 1
    BY <2>3 DEF EscribeParte
  <2>6. Pieza(h, p) \in PiezaT
    BY <1>0 DEF Pieza, PiezaT, Hilo
  <2>7. /\ archivo' \in Seq(PiezaT) /\ Len(archivo') = n + 1
        /\ archivo'[n + 1] = Pieza(h, p) /\ \A i \in 1 .. n : archivo'[i] = archivo[i]
    <3>1. posicion \in 1 .. Len(archivo) + 1
      BY DEF Base, TypeOKLog
    <3>2. /\ archivo' \in Seq(PiezaT)
          /\ Len(archivo') = IF posicion = Len(archivo) + 1 THEN Len(archivo) + 1
                                                           ELSE Len(archivo)
          /\ archivo'[posicion] = Pieza(h, p)
          /\ \A i \in 1 .. Len(archivo) : i # posicion => archivo'[i] = archivo[i]
      BY <1>0, <2>5, <2>6, <3>1, Escribir
    <3>3. QED
      BY <1>0, <2>3, <3>2
  <2>8. DOMAIN archivo = 1 .. n /\ DOMAIN archivo' = 1 .. n + 1 /\ n \in Nat
    BY <1>0, <2>7, LenProperties
  <2>9. \A g \in Hilos, q \in 1..3 : Pieza(g, q)' = Pieza(g, q)
    BY <2>2 DEF Pieza
  <2>10. n % 3 = p - 1 => (n + 1) % 3 = IF p = 3 THEN 0 ELSE p
    BY <2>8, Modulo
  <2> HIDE DEF n, l
  <2>11. PorLineas'
    <3> SUFFICES ASSUME NEW i \in 1 .. n + 1
                 PROVE  /\ archivo'[i].parte = ((i - 1) % 3) + 1
                        /\ archivo'[i].parte > 1 =>
                             /\ archivo'[i].hilo = archivo'[i - 1].hilo
                             /\ archivo'[i].linea = archivo'[i - 1].linea
      BY <2>8 DEF PorLineas
    <3>1. CASE i \in 1 .. n
      <4>1. /\ archivo[i].parte = ((i - 1) % 3) + 1
            /\ archivo[i].parte > 1 => /\ archivo[i].hilo = archivo[i - 1].hilo
                                      /\ archivo[i].linea = archivo[i - 1].linea
        BY <1>2, <2>8, <3>1 DEF PorLineas
      <4>2. archivo[i].parte > 1 => i - 1 \in 1 .. n
        <5>1. i = 1 => (i - 1) % 3 = 0
          OBVIOUS
        <5>2. i # 1 => i - 1 \in 1 .. n
          BY <2>8, <3>1
        <5>3. QED
          BY <4>1, <5>1, <5>2
      <4>3. QED
        BY <2>7, <3>1, <4>1, <4>2
    <3>2. CASE i = n + 1
      <4>1. i - 1 = n /\ archivo'[i] = Pieza(h, p) /\ Pieza(h, p).parte = p
        BY <2>7, <2>8, <3>2 DEF Pieza
      <4>2. archivo'[i].parte = ((i - 1) % 3) + 1
        BY <2>3, <4>1
      <4>3. p > 1 => n \in 1 .. n
        <5>1. n = 0 => n % 3 = 0
          OBVIOUS
        <5>2. p > 1 => n # 0
          BY <2>3, <5>1
        <5>3. QED
          BY <2>8, <5>2
      <4>4. p > 1 => archivo'[n] = Pieza(h, p - 1)
        BY <2>4, <2>7, <4>3
      <4>5. QED
        BY <4>1, <4>2, <4>4 DEF Pieza
    <3>3. QED
      BY <2>8, <3>1, <3>2
  <2>12. \A m : Escrita(m) => Escrita(m)'
    BY <1>0, <2>7, <2>8, EscritaQueda DEF n
  <2>13. p = 3 => Escrita(LineaDe(h))'
    <3> SUFFICES ASSUME p = 3 PROVE Escrita(LineaDe(h))'
      OBVIOUS
    <3>1. n % 3 = 2
      BY <2>3
    <3>2. n - 1 \in 1 .. n /\ n \in 1 .. n
      BY <2>8, <3>1
    <3>3. archivo'[n - 1] = Pieza(h, 1) /\ archivo'[n] = Pieza(h, 2) /\ archivo'[n + 1] = Pieza(h, 3)
      BY <2>4, <2>7, <3>2
    <3>4. LineaDe(h)' = [hilo |-> h, linea |-> hilos[h].linea]
      BY <2>2 DEF LineaDe
    <3>5. \A q \in 1..3 : Pieza(h, q) = [hilo |-> h, linea |-> hilos[h].linea, parte |-> q]
      BY DEF Pieza
    <3>6. \A q \in 1..3 : \E i \in DOMAIN archivo' : archivo'[i] = Pieza(h, q)
      <4>1. \A q \in 1..3 : q = 1 \/ q = 2 \/ q = 3
        OBVIOUS
      <4>2. n - 1 \in DOMAIN archivo' /\ n \in DOMAIN archivo' /\ n + 1 \in DOMAIN archivo'
        BY <2>8, <3>2
      <4>3. QED
        BY <3>3, <4>1, <4>2
    <3>7. QED
      BY <3>4, <3>5, <3>6 DEF Escrita
  <2>14. Avance(h)'
    <3>1. Mio(h)' = abierto' /\ hilos'[h].handle = abierto'
      BY <2>1, <2>2 DEF Avance, Mio, ConArchivo
    <3>2. Len(archivo') = n + 1 /\ posicion' = n + 2
      BY <2>3, <2>5, <2>7, <2>8
    <3>3. CASE p = 1
      <4>1. hilos'[h].pc = "tipo" /\ (n + 1) % 3 = 1
        BY <2>2, <2>3, <2>10, <3>3 DEF l, Partes
      <4>2. Ultima(h, 1)'
        BY <2>7, <2>9, <3>2, <3>3 DEF Ultima
      <4>3. QED
        BY <2>8, <3>1, <3>2, <4>1, <4>2 DEF Avance
    <3>4. CASE p = 2
      <4>1. hilos'[h].pc = "texto" /\ (n + 1) % 3 = 2
        BY <2>2, <2>3, <2>10, <3>4 DEF l, Partes
      <4>2. Ultima(h, 2)'
        BY <2>7, <2>9, <3>2, <3>4 DEF Ultima
      <4>3. archivo'[n] = Pieza(h, 1)
        <5>1. n \in 1 .. n
          BY <2>3, <2>8, <3>4, Modulo
        <5>2. QED
          BY <2>4, <2>7, <3>4, <5>1
      <4>4. archivo'[Len(archivo') - 1] = Pieza(h, 1)'
        BY <2>8, <2>9, <3>2, <4>3
      <4>5. QED
        BY <2>8, <3>1, <3>2, <4>1, <4>2, <4>4 DEF Avance
    <3>5. CASE p = 3
      <4>1. hilos'[h].pc = "cerrar" /\ (n + 1) % 3 = 0
        BY <2>2, <2>3, <2>10, <3>5 DEF l
      <4>2. QED
        BY <2>13, <3>1, <3>2, <3>5, <4>1 DEF Avance
    <3>6. QED
      BY <3>3, <3>4, <3>5
  <2>15. UnoConArchivo'
    <3>1. hilos'[h].pc \in ConArchivo
      BY <2>2 DEF l, Partes, ConArchivo
    <3>2. QED
      BY <2>1, <2>2, <2>14, <3>1, SoloEste
  <2>16. AlVolver'
    <3>1. hilos'[h].pc # "volver"
      BY <2>2 DEF l, Partes
    <3> SUFFICES ASSUME NEW g \in Hilos, g # h, hilos'[g].pc = "volver"
                 PROVE  Escrita(LineaDe(g))' \/ Excusa(hilos[g].solapada)'
      BY <3>1 DEF AlVolver
    <3>2. hilos'[g] = hilos[g]
      BY <2>2
    <3>3. Escrita(LineaDe(g)) \/ Excusa(hilos[g].solapada)
      BY <1>0, <3>2 DEF AlVolver
    <3>4. LineaDe(g)' = LineaDe(g)
      BY <3>2 DEF LineaDe
    <3>5. Escrita(LineaDe(g)) => Escrita(LineaDe(g))'
      BY <2>12, <3>4 DEF Escrita
    <3>6. Excusa(hilos[g].solapada) => Excusa(hilos[g].solapada)'
      BY <2>1, <3>2 DEF Excusa
    <3>7. QED
      BY <3>3, <3>5, <3>6
  <2>17. PerdidaExplicada'
    BY <1>0, <2>1, <2>12, SigueExplicada
  <2>18. QED
    BY <1>3, <2>11, <2>15, <2>16, <2>17 DEF Conj, Enteras
<1>12. ASSUME NEW h \in Hilos, CloseHandle(h) PROVE Conj'
  <2>1. /\ hilos[h].pc = "cerrar" /\ Ir(h, "volver")
        /\ abierto' = TrasCerrar(h)
        /\ UNCHANGED <<variante, arch, posicion, archivo, terminadas, huboSolape>>
    BY <1>12 DEF CloseHandle
  <2>2. /\ abierto # INVALIDO /\ Avance(h) /\ hilos'[h].pc = "volver"
        /\ \A g \in Hilos : g # h => hilos[g].pc \notin ConArchivo /\ hilos'[g] = hilos[g]
        /\ hilos'[h].linea = hilos[h].linea
    BY <1>5, <2>1 DEF ConArchivo, Lugares
  <2>3. /\ abierto' = INVALIDO /\ Len(archivo) % 3 = 0 /\ Escrita(LineaDe(h))
    BY <2>1, <2>2 DEF Avance, TrasCerrar, Sirve
  <2>4. UnoConArchivo'
    BY <2>1, <2>2, <2>3 DEF UnoConArchivo, ConArchivo
  <2>5. Escrita(LineaDe(h))'
    BY <2>1, <2>2, <2>3 DEF Escrita, LineaDe
  <2>6. AlVolver' /\ PerdidaExplicada'
    BY <1>0, <2>1, <2>2, <2>5, MismasLineas
  <2>7. QED
    BY <1>3, <1>4, <2>1, <2>4, <2>6 DEF Conj
<1>13. ASSUME NEW h \in Hilos, Volver(h) PROVE Conj'
  <2>1. /\ hilos[h].pc = "volver" /\ Ir(h, "fuera")
        /\ UNCHANGED <<variante, arch, abierto, posicion, archivo, huboSolape>>
    BY <1>13 DEF Volver
  <2>2. hilos'[h].pc = "fuera" /\ \A g \in Hilos : g # h => hilos'[g] = hilos[g]
    BY <1>0, <2>1 DEF Ir, Hilo
  <2>3. UnoConArchivo'
    BY <1>0, <1>1, <2>1, <2>2, SigueConArchivo DEF ConArchivo
  <2>4. QED
    BY <1>0, <1>3, <1>4, <1>13, <2>1, <2>3, PasoVolver DEF Conj
<1>14. CASE UNCHANGED varsLog
  <2>1. UnoConArchivo'
    BY <1>0, <1>1, <1>14, SigueConArchivo DEF varsLog
  <2>2. AlVolver' /\ PerdidaExplicada'
    BY <1>0, <1>14, MismasLineas DEF varsLog
  <2>3. QED
    BY <1>3, <1>4, <1>14, <2>1, <2>2 DEF varsLog, Conj
<1>15. ASSUME NEW h \in Hilos, Fopen(h) \/ FopenFalla(h) \/ Fclose(h) PROVE FALSE
  BY <1>15 DEF Fopen, FopenFalla, Fclose
<1>16. QED
  BY <1>6, <1>7, <1>8, <1>9, <1>10, <1>11, <1>12, <1>13, <1>14, <1>15 DEF NextLog

-----------------------------------------------------------------------------
LEMMA ConjInvariante == SpecLog => [](Base /\ Conj)
<1>1. InitLog => Conj
  <2> SUFFICES ASSUME InitLog PROVE Conj
    OBVIOUS
  <2>1. /\ archivo = <<>> /\ Len(archivo) = 0 /\ DOMAIN archivo = {} /\ abierto = INVALIDO
        /\ terminadas = {} /\ \A h \in Hilos : hilos[h].pc = "fuera"
    BY DEF InitLog
  <2>2. UnoConArchivo /\ DeATres
    BY <2>1 DEF UnoConArchivo, DeATres, ConArchivo
  <2>3. Enteras /\ AlVolver /\ PerdidaExplicada
    BY <2>1 DEF Enteras, PorLineas, AlVolver, PerdidaExplicada
  <2>4. QED
    BY <2>2, <2>3 DEF Conj
<1>2. Base /\ Base' /\ Conj /\ [NextLog]_varsLog => Conj'
  <2> SUFFICES ASSUME Base, Base', Conj, [NextLog]_varsLog PROVE Conj'
    OBVIOUS
  <2>1. variante' = variante
    BY Monotono
  <2>2. QED
    BY <2>1, PasoSolaris, PasoConfiable, SinConfianza
<1>3. QED
  BY <1>1, <1>2, BaseInvariante, PTL DEF SpecLog

(* With a file or a handle for each call no line is cut by another, or     *)
(* written over, for any number of threads (logger-Solaris.c:60-65,        *)
(* logger-win.c:46-96); with the shared member of logger-win.cpp, until    *)
(* two of them have been inside EscribirLog.                               *)
THEOREM LineasEnterasSiempre == SpecLog => []LineasEnteras
<1>1. Base /\ Conj => LineasEnteras
  BY DEF Base, TypeOKLog, Conj, Enteras, Confiable, LineasEnteras
<1>2. QED
  BY <1>1, ConjInvariante, PTL

(* A line EscribirLog returned from is in the file, except the two ways    *)
(* the Windows loggers lose one.                                           *)
THEOREM PerdidaExplicadaSiempre == SpecLog => []PerdidaExplicada
<1>1. Base /\ Conj => PerdidaExplicada
  BY DEF Conj
<1>2. QED
  BY <1>1, ConjInvariante, PTL

(* Once the member the threads share has forgotten the handle the file is  *)
(* open with (logger-win.cpp:33), nothing is written to the file any more, *)
(* whatever the threads do.                                                *)
THEOREM ElLogPerdidoNoVuelve == SpecLog => LogPerdidoNoVuelve
<1>1. Base /\ [NextLog]_varsLog
        => [variante = "clase" /\ LogPerdido => archivo' = archivo /\ LogPerdido']_varsLog
  <2> SUFFICES ASSUME Base, [NextLog]_varsLog, variante = "clase", LogPerdido
               PROVE  archivo' = archivo /\ LogPerdido'
    OBVIOUS
  <2>0. hilos \in [Hilos -> Hilo] /\ LugaresDe
    BY DEF Base, TypeOKLog
  <2>1. ASSUME NEW h \in Hilos PROVE ~ Sirve(h)
    BY DEF LogPerdido, Sirve, Mio
  <2>2. ASSUME NEW h \in Hilos, NEW l \in Lugares \ {"asignar"}, Ir(h, l)
        PROVE  \A g \in Hilos : hilos'[g].pc = "asignar" =>
                                  hilos[g].pc = "asignar" /\ hilos'[g].handle = hilos[g].handle
    BY <2>0, <2>2 DEF Ir, Hilo
  <2>3. ASSUME NEW h \in Hilos, Empezar(h) PROVE archivo' = archivo /\ LogPerdido'
    <3>1. \A g \in Hilos : hilos'[g].pc = "asignar" =>
                              hilos[g].pc = "asignar" /\ hilos'[g].handle = hilos[g].handle
      BY <2>0, <2>3 DEF Empezar, Hilo
    <3>2. QED
      BY <2>3, <3>1 DEF Empezar, LogPerdido
  <2>4. ASSUME NEW h \in Hilos, CreateFile(h) PROVE FALSE
    BY <2>4 DEF CreateFile, SePuedeAbrir, LogPerdido
  <2>5. ASSUME NEW h \in Hilos, NoAbre(h) PROVE archivo' = archivo /\ LogPerdido'
    <3>1. hilos[h].handle = INVALIDO
      BY <2>0, <2>5 DEF NoAbre, LugaresDe
    <3>2. \A g \in Hilos : hilos'[g].handle = hilos[g].handle
                          /\ (g # h => hilos'[g] = hilos[g])
      BY <2>0, <2>5 DEF NoAbre, Ir, Hilo
    <3>3. QED
      BY <2>5, <3>1, <3>2 DEF NoAbre, LogPerdido
  <2>6. ASSUME NEW h \in Hilos, Asignar(h) PROVE archivo' = archivo /\ LogPerdido'
    BY <2>2, <2>6 DEF Asignar, LogPerdido, Lugares, ConArchivo
  <2>7. ASSUME NEW h \in Hilos, SetFilePointer(h) PROVE archivo' = archivo /\ LogPerdido'
    BY <2>2, <2>7 DEF SetFilePointer, Partes, LogPerdido, Lugares, ConArchivo
  <2>8. ASSUME NEW h \in Hilos, WriteFile(h) PROVE archivo' = archivo /\ LogPerdido'
    <3> PICK p \in 1..3 : EscribeParte(h, p)
      BY <2>8 DEF WriteFile, EscribeParte
    <3> DEFINE l == IF p = 3 THEN "cerrar" ELSE Partes[p + 1]
    <3>1. l \in Lugares \ {"asignar"} /\ Ir(h, l)
      BY DEF EscribeParte, Partes, Lugares, ConArchivo
    <3>2. UNCHANGED <<archivo, abierto, arch>>
      BY <2>1 DEF EscribeParte
    <3>3. QED
      BY <2>2, <3>1, <3>2 DEF LogPerdido
  <2>9. ASSUME NEW h \in Hilos, CloseHandle(h) PROVE archivo' = archivo /\ LogPerdido'
    BY <2>1, <2>2, <2>9 DEF CloseHandle, TrasCerrar, LogPerdido, Lugares, ConArchivo
  <2>10. ASSUME NEW h \in Hilos, Volver(h) PROVE archivo' = archivo /\ LogPerdido'
    BY <2>2, <2>10 DEF Volver, LogPerdido, Lugares, ConArchivo
  <2>11. CASE UNCHANGED varsLog
    BY <2>11 DEF varsLog, LogPerdido
  <2>12. ASSUME NEW h \in Hilos, Fopen(h) \/ FopenFalla(h) \/ Fclose(h) PROVE FALSE
    BY <2>12 DEF Fopen, FopenFalla, Fclose
  <2>13. QED
    BY <2>3, <2>4, <2>5, <2>6, <2>7, <2>8, <2>9, <2>10, <2>11, <2>12 DEF NextLog
<1>2. QED
  BY <1>1, BaseInvariante, PTL DEF SpecLog, LogPerdidoNoVuelve

-----------------------------------------------------------------------------
(* A query of a reader.                                                    *)

\* The entries the search found, in the order of the server.
Encontradas == {id \in alBuscar : Criterio(id)}
Hallados(ids) == ids \in SetToSeqs(Encontradas) /\ mensajes = [i \in DOMAIN ids |-> Mensaje(ids[i])]

\* The one after the message n.
Sucesor(n) == IF n = Len(mensajes) THEN 0 ELSE n + 1

\* What was read of a message is copied before its memory is given back, and
\* the ones after it are still whole.
Iteracion ==
  /\ \E ids : Hallados(ids)
  /\ Len(listado) <= Len(mensajes) /\ listado = [i \in 1 .. Len(listado) |-> mensajes[i]]
  /\ Len(listado) \in Nat
  /\ liberados = 1 .. Len(listado)
  /\ record # 0 => /\ record = Len(listado) + 1 /\ record <= Len(mensajes)
                   /\ paso = "iterar" /\ porLeer \subseteq Atributos
                   /\ \A a \in Atributos \ porLeer : articulo[a] = mensajes[record][a]
  /\ paso = "iterar" => /\ siguiente = Sucesor(IF record = 0 THEN Len(listado) ELSE record)
                        /\ busqueda.tipo = "getArticle" => listado = <<>>
  /\ paso = "fin" => \/ Len(listado) = Len(mensajes)
                     \/ busqueda.tipo = "getArticle" /\ Len(listado) = 1

Consulta ==
  /\ busqueda \in Busquedas
  /\ directorio \in [DOMAIN Entradas -> BOOLEAN] /\ alBuscar \subseteq DOMAIN Entradas
  /\ articulo = [a \in Atributos |-> articulo[a]]
  /\ paso \in {"buscar", "iterar", "fin", "sinResultado"}
  /\ paso \in {"buscar", "sinResultado"} => record = 0 /\ listado = <<>> /\ liberados = {}
  /\ paso \in {"iterar", "fin"} => Iteracion

\* The result of a search: each entry once, in a message of its own.
LEMMA LosMensajes ==
  ASSUME alBuscar \subseteq DOMAIN Entradas, NEW ids, Hallados(ids)
  PROVE  /\ Len(mensajes) \in Nat /\ DOMAIN mensajes = 1 .. Len(mensajes)
         /\ \A i \in 1 .. Len(mensajes) : ids[i] \in Encontradas /\ mensajes[i] = Mensaje(ids[i])
         /\ \A i, j \in 1 .. Len(mensajes) : ids[i] = ids[j] => i = j
         /\ \A id \in Encontradas : \E i \in 1 .. Len(mensajes) : ids[i] = id
<1> DEFINE n == Cardinality(Encontradas)
<1>1. IsFiniteSet(Encontradas)
  BY ResultSetAssumption, FS_Subset DEF Encontradas
<1>2. /\ n \in Nat /\ ids \in [1 .. n -> Encontradas]
      /\ \A i, j \in 1 .. n : ids[i] = ids[j] => i = j
      /\ \A id \in Encontradas : \E i \in 1 .. n : ids[i] = id
  BY <1>1, UnaVezCadaUno DEF Hallados
<1> HIDE DEF n
<1>3. mensajes = [i \in 1 .. n |-> Mensaje(ids[i])]
  BY <1>2 DEF Hallados
<1>4. Len(mensajes) = n /\ DOMAIN mensajes = 1 .. n
  BY <1>2, <1>3
<1>5. \A i \in 1 .. n : ids[i] \in Encontradas /\ mensajes[i] = Mensaje(ids[i])
  BY <1>2, <1>3
<1>6. QED
  BY <1>2, <1>4, <1>5

\* The search.
LEMMA PasoBuscar ==
  ASSUME Consulta, searchEntry
  PROVE  Consulta'
<1>1. PICK ids \in SetToSeqs({id \in Presentes : Criterio(id)}) :
        /\ mensajes' = [i \in DOMAIN ids |-> Mensaje(ids[i])]
        /\ siguiente' = IF ids = <<>> THEN 0 ELSE 1
  BY DEF searchEntry
<1>2. /\ paso = "buscar" /\ record = 0 /\ listado = <<>> /\ liberados = {}
      /\ alBuscar' = Presentes /\ paso' = "iterar"
      /\ UNCHANGED <<busqueda, directorio, liberados, record, porLeer, articulo, listado>>
  BY DEF Consulta, searchEntry
<1>3. Presentes \subseteq DOMAIN Entradas
  BY DEF Presentes
<1>4. Encontradas' = {id \in Presentes : Criterio(id)} /\ Hallados(ids)'
  BY <1>1, <1>2 DEF Encontradas, Hallados, Criterio, Mensaje
<1>5. Len(mensajes') \in Nat /\ (siguiente' = IF Len(mensajes') = 0 THEN 0 ELSE 1)
  <2>1. IsFiniteSet({id \in Presentes : Criterio(id)})
    BY <1>3, ResultSetAssumption, FS_Subset
  <2>2. \E T : ids \in Seq(T)
    BY <2>1, UnaVezCadaUno
  <2>3. /\ DOMAIN ids = 1 .. Len(ids) /\ Len(ids) \in Nat
        /\ ids = <<>> <=> Len(ids) = 0
    BY <2>2
  <2>4. Len(mensajes') = Len(ids)
    BY <1>1, <2>3
  <2>5. QED
    BY <1>1, <2>3, <2>4
<1>6. Iteracion'
  <2>1. Len(listado') = 0 /\ listado' = [i \in 1 .. 0 |-> mensajes'[i]] /\ 1 .. 0 = {}
    BY <1>2
  <2>2. siguiente' = Sucesor(0)'
    BY <1>5 DEF Sucesor
  <2>3. QED
    BY <1>2, <1>4, <1>5, <2>1, <2>2 DEF Iteracion, Sucesor
<1>7. QED
  BY <1>2, <1>3, <1>6 DEF Consulta

\* What the iteration rests on, when only the record and its copy change.
LEMMA MismaBusqueda ==
  ASSUME UNCHANGED <<busqueda, alBuscar, mensajes>>
  PROVE  /\ \A ids : Hallados(ids) => Hallados(ids)'
         /\ \A n : Sucesor(n)' = Sucesor(n)
BY DEF Hallados, Encontradas, Criterio, Mensaje, Sucesor

LEMMA PasoNext ==
  ASSUME Consulta, next
  PROVE  Consulta'
<1>1. /\ Iteracion /\ paso = "iterar" /\ record = 0 /\ siguiente # 0
      /\ record' = siguiente /\ porLeer' = Atributos
      /\ siguiente' = IF siguiente = Len(mensajes) THEN 0 ELSE siguiente + 1
      /\ UNCHANGED <<busqueda, directorio, alBuscar, mensajes, liberados, articulo, listado, paso>>
  BY DEF Consulta, next
<1>2. PICK ids : Hallados(ids)
  BY <1>1 DEF Iteracion
<1>3. Len(mensajes) \in Nat
  BY <1>2, LosMensajes DEF Consulta
<1>4. /\ siguiente = Len(listado) + 1 /\ siguiente <= Len(mensajes)
      /\ siguiente' = Sucesor(siguiente)
  BY <1>1, <1>3 DEF Iteracion, Sucesor
<1>5. Iteracion'
  BY <1>1, <1>2, <1>3, <1>4, MismaBusqueda DEF Iteracion
<1>6. QED
  BY <1>1, <1>5 DEF Consulta

\* The message being read is not one of those given back.
LEMMA PasoCampo ==
  ASSUME Consulta, nextField
  PROVE  Consulta'
<1>1. PICK a \in porLeer : /\ articulo' = [articulo EXCEPT ![a] = Leido(record, a)]
                           /\ porLeer' = porLeer \ {a}
  BY DEF nextField
<1>2. /\ Iteracion /\ record # 0 /\ paso = "iterar" /\ porLeer \subseteq Atributos
      /\ UNCHANGED <<busqueda, directorio, alBuscar, mensajes, liberados, siguiente, record,
                     listado, paso>>
  BY DEF Consulta, nextField, Iteracion
<1>3. Leido(record, a) = mensajes[record][a]
  BY <1>2 DEF Iteracion, Leido
<1>4. /\ articulo' = [b \in Atributos |-> articulo'[b]]
      /\ \A b \in Atributos \ porLeer' : articulo'[b] = mensajes[record][b]
  BY <1>1, <1>2, <1>3 DEF Consulta, Iteracion
<1>5. Iteracion'
  BY <1>1, <1>2, <1>4, MismaBusqueda DEF Iteracion
<1>6. QED
  BY <1>2, <1>4, <1>5 DEF Consulta

\* The article that is copied is the message, whole.
LEMMA ArticuloEntero ==
  ASSUME Consulta, record # 0, porLeer = {}
  PROVE  articulo = mensajes[record]
<1>1. Iteracion /\ record = Len(listado) + 1 /\ record <= Len(mensajes) /\ Len(listado) \in Nat
  BY DEF Consulta, Iteracion
<1>2. PICK ids : Hallados(ids)
  BY <1>1 DEF Iteracion
<1>3. mensajes[record] = Mensaje(ids[record])
  <2>1. Len(mensajes) \in Nat /\ \A i \in 1 .. Len(mensajes) : mensajes[i] = Mensaje(ids[i])
    BY <1>2, LosMensajes DEF Consulta
  <2>2. record \in 1 .. Len(mensajes)
    BY <1>1, <2>1
  <2>3. QED
    BY <2>1, <2>2
<1>4. mensajes[record] = [a \in Atributos |-> mensajes[record][a]]
  BY <1>3 DEF Mensaje, Atributos
<1>5. \A a \in Atributos : articulo[a] = mensajes[record][a]
  BY <1>1 DEF Iteracion
<1>6. QED
  BY <1>4, <1>5 DEF Consulta

LEMMA PasoLiberar ==
  ASSUME Consulta, freeLDAPRecord
  PROVE  Consulta'
<1>1. /\ Iteracion /\ record # 0 /\ porLeer = {} /\ paso = "iterar"
      /\ liberados' = liberados \cup {record}
      /\ listado' = Append(listado, articulo) /\ record' = 0
      /\ paso' = IF busqueda.tipo = "getArticle" THEN "fin" ELSE paso
      /\ UNCHANGED <<busqueda, directorio, alBuscar, mensajes, siguiente, porLeer, articulo>>
  BY DEF Consulta, freeLDAPRecord, Iteracion, Liberado
<1>2. PICK ids : Hallados(ids)
  BY <1>1 DEF Iteracion
<1>3. /\ Len(mensajes) \in Nat /\ Len(listado) \in Nat
      /\ record = Len(listado) + 1 /\ record <= Len(mensajes)
      /\ listado = [i \in 1 .. Len(listado) |-> mensajes[i]]
      /\ liberados = 1 .. Len(listado) /\ siguiente = Sucesor(record)
      /\ busqueda.tipo = "getArticle" => listado = <<>>
  BY <1>1, <1>2, LosMensajes DEF Iteracion, Consulta
<1>4. /\ listado' = [i \in 1 .. record |-> mensajes[i]] /\ Len(listado') = record
  <2>1. articulo = mensajes[record]
    BY <1>1, ArticuloEntero
  <2> DEFINE n == Len(listado)
  <2> HIDE DEF n
  <2>2. /\ n \in Nat /\ listado = [i \in 1 .. n |-> mensajes[i]]
        /\ Len(listado) = n /\ record = n + 1
    BY <1>3 DEF n
  <2> DEFINE S == {mensajes[i] : i \in 1 .. n + 1}
  <2>3. listado \in Seq(S) /\ articulo \in S
    <3>1. listado \in [1 .. n -> S] /\ n + 1 \in 1 .. n + 1
      BY <2>2
    <3>2. QED
      BY <2>1, <2>2, <3>1
  <2> HIDE DEF S
  <2>4. /\ listado' \in Seq(S) /\ Len(listado') = n + 1
        /\ \A i \in 1 .. n : listado'[i] = listado[i]
        /\ listado'[n + 1] = articulo
    BY <1>1, <2>2, <2>3, AppendProperties
  <2>5. \A i \in 1 .. n + 1 : listado'[i] = mensajes[i]
    BY <2>1, <2>2, <2>4
  <2>6. QED
    BY <2>2, <2>4, <2>5
<1>5. liberados' = 1 .. record
  BY <1>1, <1>3
<1>6. busqueda.tipo = "getArticle" => record = 1
  BY <1>3
<1>7. Iteracion'
  BY <1>1, <1>2, <1>3, <1>4, <1>5, <1>6, MismaBusqueda DEF Iteracion
<1>8. QED
  BY <1>1, <1>7 DEF Consulta

LEMMA ConsultaSiempre == SpecRS => []Consulta
<1>1. InitRS => Consulta
  BY DEF InitRS, Consulta, Atributos
<1>2. Consulta /\ [NextRS]_varsRS => Consulta'
  <2> SUFFICES ASSUME Consulta, [NextRS]_varsRS PROVE Consulta'
    OBVIOUS
  <2>1. CASE OtroEscribe
    <3>1. /\ directorio' \in [DOMAIN Entradas -> BOOLEAN]
          /\ UNCHANGED <<busqueda, alBuscar, mensajes, liberados, siguiente, record, porLeer,
                         articulo, listado, paso>>
      BY <2>1 DEF OtroEscribe, Consulta
    <3>2. Iteracion => Iteracion'
      BY <3>1, MismaBusqueda DEF Iteracion
    <3>3. QED
      BY <3>1, <3>2 DEF Consulta
  <2>2. CASE searchEntry
    BY <2>2, PasoBuscar
  <2>3. CASE SinConexion
    BY <2>3 DEF SinConexion, Consulta
  <2>4. CASE next
    BY <2>4, PasoNext
  <2>5. CASE nextField
    BY <2>5, PasoCampo
  <2>6. CASE freeLDAPRecord
    BY <2>6, PasoLiberar
  <2>7. CASE Terminar
    <3>1. /\ Iteracion /\ paso = "iterar" /\ paso' = "fin" /\ record = 0 /\ siguiente = 0
          /\ UNCHANGED <<busqueda, directorio, alBuscar, mensajes, liberados, siguiente, record,
                         porLeer, articulo, listado>>
      BY <2>7 DEF Terminar, Consulta
    <3>2. Len(listado) = Len(mensajes)
      BY <3>1 DEF Iteracion, Sucesor
    <3>3. Iteracion'
      BY <3>1, <3>2, MismaBusqueda DEF Iteracion
    <3>4. QED
      BY <3>1, <3>3 DEF Consulta
  <2>8. CASE UNCHANGED varsRS
    <3>1. Iteracion => Iteracion'
      BY <2>8, MismaBusqueda DEF varsRS, Iteracion
    <3>2. QED
      BY <2>8, <3>1 DEF varsRS, Consulta
  <2>9. QED
    BY <2>1, <2>2, <2>3, <2>4, <2>5, <2>6, <2>7, <2>8 DEF NextRS
<1>3. QED
  BY <1>1, <1>2, PTL DEF SpecRS

(* Whatever the directory, and however it changes while the records of the *)
(* result are read, what a query of a reader returns is what Consultas     *)
(* says of the directory at the moment of the search: giving back the      *)
(* memory of a message touches neither what was copied of it nor the       *)
(* messages after it.                                                      *)
THEOREM ConsultaDeUnMomentoSiempre == SpecRS => []ConsultaDeUnMomento
<1>1. Consulta => ConsultaDeUnMomento
  <2> SUFFICES ASSUME Consulta, paso = "fin" PROVE ConsultaDeUnMomento
    BY DEF ConsultaDeUnMomento
  <2> DEFINE bd == Bd(alBuscar)
             grupos == [i \in DOMAIN listado |-> listado[i].grupo]
             lids == [i \in DOMAIN listado |-> listado[i].id]
             n == Len(mensajes)
  <2>1. PICK ids : Hallados(ids)
    BY DEF Consulta, Iteracion
  <2>2. /\ n \in Nat /\ DOMAIN mensajes = 1 .. n
        /\ \A i \in 1 .. n : ids[i] \in Encontradas /\ mensajes[i] = Mensaje(ids[i])
        /\ \A i, j \in 1 .. n : ids[i] = ids[j] => i = j
        /\ \A id \in Encontradas : \E i \in 1 .. n : ids[i] = id
    BY <2>1, LosMensajes DEF Consulta
  <2>3. DOMAIN bd = alBuscar /\ \A id \in alBuscar : bd[id] = Entradas[id]
    BY DEF Bd
  <2>4. /\ Len(listado) \in Nat /\ Len(listado) <= n
        /\ listado = [i \in 1 .. Len(listado) |-> mensajes[i]]
        /\ busqueda.tipo # "getArticle" => Len(listado) = n
        /\ Len(listado) = n \/ Len(listado) = 1
    BY <2>2 DEF Consulta, Iteracion
  <2>5. /\ \A i \in 1 .. n : /\ mensajes[i].grupo = Entradas[ids[i]].grupo
                             /\ mensajes[i].id = ids[i]
                             /\ mensajes[i].noticia = Entradas[ids[i]].noticia
    BY <2>2 DEF Mensaje
  <2>6. ids \in SetToSeqs(Encontradas) /\ DOMAIN ids = 1 .. n
    <3>1. IsFiniteSet(Encontradas)
      BY ResultSetAssumption, FS_Subset DEF Encontradas, Consulta
    <3>2. ids \in Seq(Encontradas)
      BY <2>1, <3>1, UnaVezCadaUno DEF Hallados
    <3>3. QED
      BY <2>1, <2>2, <3>2 DEF Hallados
  <2> HIDE DEF bd, n
  <2>7. CASE busqueda.tipo = "selectEntries"
    <3>1. Encontradas = DOMAIN bd
      BY <2>3, <2>7 DEF Encontradas, Criterio
    <3>2. DOMAIN listado = 1 .. n
      BY <2>2, <2>4, <2>7
    <3>3. \A i \in 1 .. n : listado[i] = mensajes[i] /\ ids[i] \in alBuscar
      BY <2>2, <2>3, <2>4, <2>7, <3>1
    <3>4. grupos = [i \in DOMAIN ids |-> bd[ids[i]].grupo]
      BY <2>3, <2>5, <2>6, <3>2, <3>3
    <3>5. grupos \in selectEntries(bd)
      BY <2>6, <3>1, <3>4 DEF selectEntries
    <3>6. QED
      BY <2>7, <3>5 DEF ConsultaDeUnMomento, bd
  <2>8. CASE busqueda.tipo = "selectArticles"
    <3>1. Encontradas = selectArticles(bd, busqueda.grupo)
      BY <2>3, <2>8 DEF Encontradas, Criterio, selectArticles
    <3>2. DOMAIN listado = 1 .. n /\ \A i \in 1 .. n : listado[i] = mensajes[i]
      BY <2>2, <2>4, <2>8
    <3>3. DOMAIN lids = 1 .. n /\ \A i \in 1 .. n : lids[i] = ids[i]
      BY <2>5, <3>2
    <3>4. \A i \in DOMAIN listado : listado[i] = Mensaje(lids[i])
      BY <2>2, <3>2, <3>3
    <3> HIDE DEF lids
    <3>5. IsInjective(lids)
      BY <2>2, <3>3, Zenon DEF IsInjective
    <3>6. ToSet(lids) = Encontradas
      BY <2>2, <3>3 DEF ToSet
    <3>7. QED
      BY <2>8, <3>1, <3>4, <3>5, <3>6 DEF ConsultaDeUnMomento, bd, lids
  <2>9. CASE busqueda.tipo = "getArticle"
    <3> DEFINE id == busqueda.id
               g == busqueda.grupo
    <3>1. Encontradas = {i \in DOMAIN bd : i = id /\ Coincide(bd[i].grupo, g)}
      BY <2>3, <2>9 DEF Encontradas, Criterio
    <3>2. CASE listado = <<>>
      <4>1. n = 0
        BY <2>4, <3>2
      <4>2. Encontradas = {}
        BY <2>2, <4>1
      <4>3. getArticle(bd, TRUE, g, id) = NoEncontrado
        BY <3>1, <4>2 DEF getArticle
      <4>4. QED
        BY <2>9, <3>2, <4>3 DEF ConsultaDeUnMomento, bd
    <3>3. CASE listado # <<>>
      <4>1. 1 \in 1 .. n /\ 1 \in 1 .. Len(listado)
        <5>1. Len(listado) # 0
          BY <2>4, <3>3
        <5>2. Len(listado) \in Nat /\ Len(listado) <= n
          BY <2>4
        <5>3. QED
          BY <2>2, <5>1, <5>2
      <4>2. listado[1] = mensajes[1] /\ ids[1] \in Encontradas
        BY <2>2, <2>4, <4>1
      <4>3. /\ ids[1] = id /\ id \in DOMAIN bd /\ Coincide(bd[id].grupo, g)
            /\ listado[1].noticia = bd[id].noticia
        BY <2>3, <2>5, <3>1, <4>1, <4>2
      <4>4. getArticle(bd, TRUE, g, id) = Encontrado(id, g, listado[1].noticia)
        BY <4>3 DEF getArticle
      <4>5. QED
        BY <2>9, <3>3, <4>4 DEF ConsultaDeUnMomento, bd
    <3>4. QED
      BY <3>2, <3>3
  <2>10. QED
    BY <2>7, <2>8, <2>9, ResultSetAssumption DEF Consulta, Tipos
<1>2. QED
  BY <1>1, ConsultaSiempre, PTL

-----------------------------------------------------------------------------
(* The configuration.                                                      *)

Textos == {"puerto", "ip", "otro", ""}
Renglon == [clave : STRING, texto : Textos]
Campo == [de : Nat, texto : Textos \cup {"caida"}]

Leidos == Len(campos)
N == Len(Lectura)
\* The last key read was a port; none has been, or it was an address.
TrasPuerto == Leidos \in 1 .. N /\ EsPuerto(Lectura[Leidos])

TiposConf ==
  /\ estado \in {"inicio", "leyendo", "aceptada", "rechazada", "caida"}
  /\ campos \in Seq(Campo) /\ buffer \in Seq(Renglon)
  /\ sigue \in Nat /\ tapadas \subseteq Nat
  /\ Leidos <= N
  /\ estado = "inicio" => campos = <<>> /\ buffer = <<>> /\ tapadas = {} /\ sigue = 0
  /\ estado = "leyendo" => Leidos < N

\* What AceptadaFiel says, of a field already read.
CampoFiel(i) ==
  \/ Propia(i)
  \/ /\ ~ EsPuerto(Lectura[i])
     /\ pedida.programa # "NNTPClient" =>
          \A j \in DOMAIN buffer : j < campos[i - 1].de => buffer[j].clave # Lectura[i]

\* No line above the one of the port just read has been taken.
Fieles ==
  /\ \A i \in 1 .. Leidos : CampoFiel(i)
  /\ ~ TrasPuerto => sigue = 0
  /\ TrasPuerto => \A j \in tapadas : j >= campos[Leidos].de

ComoElRepositorio ==
  ComoLaDelRepositorio /\ (pedida.conCR = FALSE \/ pedida.programa = "NNTPClient")

\* A file in the order of the repository is read from its last line upwards.
HaciaArriba ==
  /\ estado \in {"inicio", "leyendo", "aceptada"}
  /\ estado # "inicio" =>
       /\ Len(buffer) \in {N, N + 1}
       /\ \A i \in 1 .. N :
            /\ buffer[i].clave = Lectura[N + 1 - i]
            /\ buffer[i].texto = IF EsPuerto(buffer[i].clave) THEN "puerto" ELSE "ip"
       /\ Len(buffer) = N + 1 => buffer[N + 1] = buffer[N]
       /\ tapadas = (N + 1 - Leidos) .. N
       /\ \A i \in 1 .. Leidos : campos[i].de = N + 1 - i

Conf ==
  /\ pedida \in Pedidas
  /\ pedida.origen = "archivo" =>
       TiposConf /\ Fieles /\ (ComoElRepositorio => HaciaArriba)

LEMMA LasClaves ==
  ASSUME pedida \in Pedidas
  PROVE  /\ N \in Nat /\ N >= 1 /\ DOMAIN Lectura = 1 .. N
         /\ \A i \in 1 .. N :
              /\ EsPuerto(Lectura[i]) => i = 1 \/ ~ EsPuerto(Lectura[i - 1])
              /\ ~ EsPuerto(Lectura[i]) => i > 1 /\ EsPuerto(Lectura[i - 1])
         /\ \A i, j \in 1 .. N : Lectura[i] = Lectura[j] => i = j
<1>1. pedida.programa \in {"HTTPServer", "NNTPServerBAM", "NNTPClient"}
  BY ConfiguracionAssumption DEF Claves
<1>2. CASE pedida.programa = "HTTPServer"
  <2>1. Lectura = ClavesHTTPServer
    BY <1>2 DEF Lectura, Claves
  <2>2. N = 7 /\ DOMAIN Lectura = 1 .. 7
    BY <2>1 DEF N, ClavesHTTPServer
  <2>3. /\ Lectura[1] = "Memc2Port" /\ Lectura[2] = "Memc2IP" /\ Lectura[3] = "Memc1Port"
        /\ Lectura[4] = "Memc1IP" /\ Lectura[5] = "OpenDSPort" /\ Lectura[6] = "OpenDSServer"
        /\ Lectura[7] = "AppPort"
    BY <2>1 DEF ClavesHTTPServer
  <2>4. \A i \in 1 .. 7 : i = 1 \/ i = 2 \/ i = 3 \/ i = 4 \/ i = 5 \/ i = 6 \/ i = 7
    OBVIOUS
  <2>5. QED
    BY <2>2, <2>3, <2>4 DEF EsPuerto
<1>3. CASE pedida.programa = "NNTPServerBAM"
  <2>1. Lectura = ClavesNNTPServerBAM
    BY <1>3 DEF Lectura, Claves
  <2>2. N = 4 /\ DOMAIN Lectura = 1 .. 4
    BY <2>1 DEF N, ClavesNNTPServerBAM
  <2>3. /\ Lectura[1] = "OPENDS_PORT" /\ Lectura[2] = "OPENDS_SERVER"
        /\ Lectura[3] = "LOCAL_PORT" /\ Lectura[4] = "LOCAL_IP"
    BY <2>1 DEF ClavesNNTPServerBAM
  <2>4. \A i \in 1 .. 4 : i = 1 \/ i = 2 \/ i = 3 \/ i = 4
    OBVIOUS
  <2>5. QED
    BY <2>2, <2>3, <2>4 DEF EsPuerto
<1>4. CASE pedida.programa = "NNTPClient"
  <2>1. Lectura = ClavesNNTPClient
    BY <1>4 DEF Lectura, Claves
  <2>2. N = 2 /\ DOMAIN Lectura = 1 .. 2
    BY <2>1 DEF N, ClavesNNTPClient
  <2>3. Lectura[1] = "PORT" /\ Lectura[2] = "SERVER"
    BY <2>1 DEF ClavesNNTPClient
  <2>4. \A i \in 1 .. 2 : i = 1 \/ i = 2
    OBVIOUS
  <2>5. QED
    BY <2>2, <2>3, <2>4 DEF EsPuerto
<1>5. QED
  BY <1>1, <1>2, <1>3, <1>4

-----------------------------------------------------------------------------
(* The loading of the file.                                                *)

Quedan(s, n, antes) ==
  IF n = 0 THEN <<>>
  ELSE IF Util(s[n]) THEN Append(antes, s[n]) ELSE antes

LEMMA LeidasDefinida ==
  ASSUME NEW s \in Seq(Renglon)
  PROVE  leidas(s) = [n \in 0 .. Len(s) |-> Quedan(s, n, leidas(s)[n - 1])]
<1> DEFINE M == Len(s)
           P == {k \in 0 .. M : \E g : g = [n \in 0 .. k |-> Quedan(s, n, g[n - 1])]}
<1>0. M \in Nat
  OBVIOUS
<1>1. 0 \in P
  <2>1. [n \in 0 .. 0 |-> <<>>] = [n \in 0 .. 0 |-> Quedan(s, n, [m \in 0 .. 0 |-> <<>>][n - 1])]
    BY DEF Quedan
  <2>2. QED
    BY <1>0, <2>1
<1>2. ASSUME NEW k \in 0 .. M - 1, k \in P
      PROVE  k + 1 \in P
  <2>1. PICK g : g = [n \in 0 .. k |-> Quedan(s, n, g[n - 1])]
    BY <1>2
  <2> DEFINE h == [n \in 0 .. k + 1 |-> IF n = k + 1 THEN Quedan(s, n, g[k]) ELSE g[n]]
  <2>2. ASSUME NEW n \in 0 .. k + 1
        PROVE  h[n] = Quedan(s, n, h[n - 1])
    <3>1. CASE n = k + 1
      BY <3>1
    <3>2. CASE n \in 1 .. k
      <4>1. h[n] = g[n] /\ h[n - 1] = g[n - 1]
        BY <3>2
      <4>2. QED
        BY <2>1, <3>2, <4>1
    <3>3. CASE n = 0
      <4>1. h[n] = g[n] /\ g[n] = Quedan(s, n, g[n - 1])
        BY <2>1, <3>3
      <4>2. QED
        BY <3>3, <4>1 DEF Quedan
    <3>4. QED
      BY <3>1, <3>2, <3>3
  <2>3. h = [n \in 0 .. k + 1 |-> Quedan(s, n, h[n - 1])]
    BY <2>2
  <2> HIDE DEF h
  <2>4. k + 1 \in 0 .. M /\ \E f : f = [n \in 0 .. k + 1 |-> Quedan(s, n, f[n - 1])]
    BY <1>0, <2>3
  <2>5. QED
    BY <2>4
<1> HIDE DEF P
<1>3. 0 .. M \subseteq P
  BY <1>0, <1>1, <1>2, InduccionHasta
<1>4. \E g : g = [n \in 0 .. M |-> Quedan(s, n, g[n - 1])]
  BY <1>0, <1>3 DEF P
<1>5. leidas(s) = CHOOSE g : g = [n \in 0 .. M |-> Quedan(s, n, g[n - 1])]
  BY DEF leidas, Quedan
<1>6. QED
  BY <1>4, <1>5

\* The lines kept are lines, and the last one of the file is if it is not blank.
LEMMA LasUtiles ==
  ASSUME NEW s \in Seq(Renglon)
  PROVE  /\ Utiles(s) \in Seq(Renglon)
         /\ s # <<>> /\ Util(Last(s)) => Utiles(s) # <<>>
<1> DEFINE c == leidas(s)
           M == Len(s)
           P == {n \in 0 .. M : c[n] \in Seq(Renglon)}
<1>1. M \in Nat /\ \A n \in 0 .. M : c[n] = Quedan(s, n, c[n - 1])
  BY LeidasDefinida
<1> HIDE DEF c
<1>2. 0 \in P
  <2>1. 0 \in 0 .. M /\ c[0] = <<>>
    BY <1>1 DEF Quedan
  <2>2. <<>> \in Seq(Renglon)
    OBVIOUS
  <2>3. QED
    BY <2>1, <2>2
<1>3. ASSUME NEW n \in 0 .. M - 1, n \in P PROVE n + 1 \in P
  <2>1. n + 1 \in 0 .. M /\ n + 1 # 0 /\ n + 1 - 1 = n /\ s[n + 1] \in Renglon
    BY <1>1
  <2>2. c[n + 1] = IF Util(s[n + 1]) THEN Append(c[n], s[n + 1]) ELSE c[n]
    BY <1>1, <2>1 DEF Quedan
  <2>3. c[n] \in Seq(Renglon)
    BY <1>3
  <2>4. c[n + 1] \in Seq(Renglon)
    BY <2>1, <2>2, <2>3
  <2>5. QED
    BY <2>1, <2>4
<1>4. 0 .. M \subseteq P
  <2> HIDE DEF P, M
  <2>1. QED
    BY <1>1, <1>2, <1>3, InduccionHasta
<1>5. Utiles(s) \in Seq(Renglon)
  BY <1>1, <1>4 DEF Utiles, c
<1>6. ASSUME s # <<>>, Util(Last(s)) PROVE Utiles(s) # <<>>
  <2>1. M \in 0 .. M /\ M # 0 /\ M - 1 \in 0 .. M
    BY <1>1, <1>6
  <2>2. c[M - 1] \in Seq(Renglon) /\ s[M] \in Renglon
    BY <1>4, <2>1
  <2>3. c[M] = Append(c[M - 1], s[M])
    BY <1>1, <1>6, <2>1 DEF Quedan, Last
  <2>4. QED
    BY <2>2, <2>3 DEF Utiles, c
<1>7. QED
  BY <1>5, <1>6

LEMMA LasCargadas ==
  ASSUME pedida \in Pedidas
  PROVE  /\ Cargadas \in Seq(Renglon)
         /\ ComoElRepositorio =>
              /\ Len(Cargadas) \in {N, N + 1}
              /\ \A i \in 1 .. N :
                   /\ Cargadas[i].clave = Lectura[N + 1 - i]
                   /\ Cargadas[i].texto = IF EsPuerto(Cargadas[i].clave) THEN "puerto" ELSE "ip"
              /\ Len(Cargadas) = N + 1 => Cargadas[N + 1] = Cargadas[N]
<1> DEFINE lineas == pedida.lineas
           utiles == Utiles(lineas)
           textos == [i \in DOMAIN utiles |->
                        IF pedida.conCR /\ utiles[i].texto = ""
                        THEN [utiles[i] EXCEPT !.texto = "otro"] ELSE utiles[i]]
           doble == /\ pedida.programa # "NNTPClient" /\ pedida.conFin
                    /\ lineas # <<>> /\ Util(Last(lineas))
<1>1. lineas \in Seq(Renglon)
  BY ConfiguracionAssumption DEF Renglon, Textos
<1>2. utiles \in Seq(Renglon) /\ (doble => utiles # <<>>)
  BY <1>1, LasUtiles
<1>3. Cargadas = IF doble THEN Append(textos, Last(textos)) ELSE textos
  BY DEF Cargadas
<1> HIDE DEF utiles, doble
<1>4. textos \in Seq(Renglon) /\ Len(textos) = Len(utiles) /\ Len(utiles) \in Nat
  <2>1. \A r \in Renglon : [r EXCEPT !.texto = "otro"] \in Renglon
    BY DEF Renglon, Textos
  <2>2. Len(utiles) \in Nat /\ DOMAIN utiles = 1 .. Len(utiles)
        /\ \A i \in DOMAIN utiles : utiles[i] \in Renglon
    BY <1>2
  <2>3. textos \in [1 .. Len(utiles) -> Renglon]
    BY <2>1, <2>2
  <2> HIDE DEF textos
  <2>4. QED
    BY <2>2, <2>3
<1>5. ASSUME doble
      PROVE  /\ Cargadas \in Seq(Renglon) /\ Len(Cargadas) = Len(utiles) + 1
             /\ Len(utiles) >= 1
             /\ \A i \in 1 .. Len(utiles) : Cargadas[i] = textos[i]
             /\ Cargadas[Len(utiles) + 1] = textos[Len(utiles)]
  <2> HIDE DEF textos
  <2>1. Len(utiles) >= 1
    BY <1>2, <1>4, <1>5
  <2>2. Last(textos) = textos[Len(utiles)] /\ Last(textos) \in Renglon
    BY <1>4, <2>1 DEF Last
  <2>3. QED
    BY <1>3, <1>4, <1>5, <2>1, <2>2, AppendProperties
<1>6. ASSUME ~ doble PROVE Cargadas = textos
  BY <1>3, <1>6
<1>7. Cargadas \in Seq(Renglon)
  BY <1>4, <1>5, <1>6
<1>8. ASSUME ComoElRepositorio
      PROVE  /\ Len(utiles) = N /\ N \in Nat
             /\ \A i \in 1 .. N :
                  /\ textos[i].clave = Lectura[N + 1 - i]
                  /\ textos[i].texto = IF EsPuerto(textos[i].clave) THEN "puerto" ELSE "ip"
  <2>1. /\ [i \in DOMAIN utiles |-> utiles[i].clave] = Reverse(Lectura)
        /\ \A i \in DOMAIN utiles :
             utiles[i].texto = IF EsPuerto(utiles[i].clave) THEN "puerto" ELSE "ip"
    BY <1>8 DEF ComoElRepositorio, ComoLaDelRepositorio, Lectura, utiles
  <2>2. N \in Nat /\ Reverse(Lectura) = [i \in 1 .. N |-> Lectura[N - i + 1]]
    BY LasClaves DEF Reverse, N
  <2>3. DOMAIN utiles = 1 .. Len(utiles)
    BY <1>2
  <2>4. DOMAIN utiles = 1 .. N /\ \A i \in 1 .. N : utiles[i].clave = Lectura[N - i + 1]
    BY <2>1, <2>2
  <2>5. Len(utiles) = N
    <3>1. utiles = [i \in 1 .. N |-> utiles[i]]
      <4>1. utiles \in [1 .. Len(utiles) -> Renglon]
        BY <1>2
      <4>2. QED
        BY <2>3, <2>4, <4>1
    <3>2. QED
      BY <2>2, <3>1
  <2>6. \A i \in 1 .. N : textos[i] = utiles[i]
    BY <2>1, <2>4
  <2>7. \A i \in 1 .. N : N - i + 1 = N + 1 - i
    BY <2>2
  <2>8. QED
    BY <2>1, <2>2, <2>4, <2>5, <2>6, <2>7
<1> HIDE DEF textos
<1>9. ASSUME ComoElRepositorio
      PROVE  /\ Len(Cargadas) \in {N, N + 1}
             /\ \A i \in 1 .. N : Cargadas[i] = textos[i]
             /\ Len(Cargadas) = N + 1 => Cargadas[N + 1] = Cargadas[N]
  <2>1. CASE doble
    <3>1. Len(utiles) \in 1 .. Len(utiles)
      BY <1>4, <1>5, <2>1
    <3>2. QED
      BY <1>5, <1>8, <1>9, <2>1, <3>1
  <2>2. CASE ~ doble
    BY <1>4, <1>6, <1>8, <1>9, <2>2
  <2>3. QED
    BY <2>1, <2>2
<1>10. QED
  BY <1>7, <1>8, <1>9

-----------------------------------------------------------------------------
(* GetVal.                                                                 *)

\* The line of a key: the first of those that can be seen, or where strtok was.
LEMMA LaLinea ==
  ASSUME NEW k, buffer \in Seq(Renglon), sigue \in Nat
  PROVE  /\ DOMAIN buffer = 1 .. Len(buffer) /\ Len(buffer) \in Nat /\ Linea(k) \in Nat
         /\ Visibles(k) # {} =>
              /\ Linea(k) \in DOMAIN buffer /\ buffer[Linea(k)].clave = k
              /\ \A j \in tapadas : Linea(k) < j
              /\ \A i \in Visibles(k) : Linea(k) <= i
         /\ Visibles(k) = {} => Linea(k) = sigue
<1>1. DOMAIN buffer = 1 .. Len(buffer) /\ Len(buffer) \in Nat
  OBVIOUS
<1>2. CASE Visibles(k) # {}
  <2>1. Visibles(k) \in SUBSET Nat
    BY <1>1 DEF Visibles
  <2>2. \E x \in Visibles(k) : \A y \in Visibles(k) : x <= y
    BY <1>2, <2>1, MinimoNatural
  <2>3. Linea(k) \in Visibles(k) /\ \A i \in Visibles(k) : Linea(k) <= i
    BY <1>2, <2>2 DEF Linea, Min
  <2>4. QED
    BY <1>1, <1>2, <2>1, <2>3 DEF Visibles
<1>3. CASE Visibles(k) = {}
  BY <1>1, <1>3 DEF Linea
<1>4. QED
  BY <1>2, <1>3

LEMMA LoLeido ==
  ASSUME NEW k, buffer \in Seq(Renglon), sigue \in Nat, NEW v \in GetVal(k), v # Caida
  PROVE  /\ v \in Campo
         /\ \/ /\ Linea(k) \notin DOMAIN buffer /\ v = Cero
            \/ /\ Linea(k) \in DOMAIN buffer \ tapadas
               /\ v = [de |-> Linea(k), texto |-> buffer[Linea(k)].texto]
            \/ /\ Linea(k) \in DOMAIN buffer \ tapadas /\ buffer[Linea(k)].texto = ""
               /\ v.texto = "otro"
<1> DEFINE i == Linea(k)
<1>1. i \in Nat
  BY LaLinea
<1> HIDE DEF i
<1>2. CASE i \notin DOMAIN buffer
  <2>1. v = Cero
    BY <1>2 DEF GetVal, i
  <2>2. Cero \in Campo
    BY DEF Cero, Campo, Textos
  <2>3. QED
    BY <1>2, <2>1, <2>2 DEF i
<1>3. CASE i \in tapadas /\ i \in DOMAIN buffer
  BY <1>3 DEF GetVal, i
<1>4. CASE i \in DOMAIN buffer \ tapadas /\ buffer[i].texto # ""
  <2>1. v = [de |-> i, texto |-> buffer[i].texto]
    BY <1>4 DEF GetVal, i
  <2>2. buffer[i].texto \in Textos
    <3>1. buffer[i] \in Renglon
      <4>1. i \in 1 .. Len(buffer)
        BY <1>4, LaLinea
      <4>2. QED
        BY <4>1
    <3>2. QED
      BY <3>1 DEF Renglon
  <2>3. QED
    BY <1>1, <1>4, <2>1, <2>2 DEF i, Campo
<1>5. CASE i \in DOMAIN buffer \ tapadas /\ buffer[i].texto = ""
  <2>1. v = [de |-> i + 1, texto |-> "otro"]
    BY <1>5 DEF GetVal, i
  <2>2. v \in Campo /\ v.texto = "otro"
    BY <1>1, <2>1 DEF Campo, Textos
  <2>3. QED
    BY <1>5, <2>2 DEF i
<1>6. QED
  BY <1>2, <1>3, <1>4, <1>5

-----------------------------------------------------------------------------
(* The steps.                                                              *)

LEMMA PasoCargar ==
  ASSUME Conf, pedida.origen = "archivo", CargarArchivo
  PROVE  Conf'
<1>1. /\ pedida \in Pedidas /\ estado = "inicio" /\ campos = <<>> /\ tapadas = {} /\ sigue = 0
      /\ buffer' = Cargadas /\ estado' = "leyendo"
      /\ UNCHANGED <<pedida, tapadas, sigue, campos>>
  BY DEF Conf, TiposConf, CargarArchivo
<1>2. /\ N' = N /\ Leidos' = 0 /\ Lectura' = Lectura /\ N \in Nat /\ N >= 1
      /\ campos' \in Seq(Campo) /\ (ComoElRepositorio' <=> ComoElRepositorio)
  BY <1>1, LasClaves DEF N, Leidos, Lectura, ComoElRepositorio, ComoLaDelRepositorio
<1>3. TiposConf'
  BY <1>1, <1>2, LasCargadas DEF TiposConf
<1>4. Fieles'
  BY <1>1, <1>2 DEF Fieles, TrasPuerto
<1>5. ASSUME ComoElRepositorio PROVE HaciaArriba'
  <2>1. /\ Len(Cargadas) \in {N, N + 1}
        /\ \A i \in 1 .. N :
             /\ Cargadas[i].clave = Lectura[N + 1 - i]
             /\ Cargadas[i].texto = IF EsPuerto(Cargadas[i].clave) THEN "puerto" ELSE "ip"
        /\ Len(Cargadas) = N + 1 => Cargadas[N + 1] = Cargadas[N]
    BY <1>1, <1>5, LasCargadas
  <2>2. (N + 1 - 0) .. N = {} /\ 1 .. 0 = {}
    BY <1>2
  <2>3. QED
    BY <1>1, <1>2, <2>1, <2>2 DEF HaciaArriba
<1>6. QED
  BY <1>1, <1>2, <1>3, <1>4, <1>5 DEF Conf

\* The next key is a port, or an address after its port.
LEMMA LaProxima ==
  ASSUME Conf, pedida.origen = "archivo", estado = "leyendo"
  PROVE  /\ N \in Nat /\ Leidos \in Nat /\ Leidos + 1 \in 1 .. N
         /\ Proxima = Lectura[Leidos + 1]
         /\ EsPuerto(Proxima) => sigue = 0
         /\ ~ EsPuerto(Proxima) => TrasPuerto /\ Leidos \in 1 .. Leidos
<1>1. /\ campos \in Seq(Campo) /\ Leidos < N /\ Fieles /\ pedida \in Pedidas
  BY DEF Conf, TiposConf
<1>2. N \in Nat /\ Leidos \in Nat /\ Leidos + 1 \in 1 .. N /\ Leidos + 1 - 1 = Leidos
  BY <1>1, LasClaves DEF Leidos
<1>3. Proxima = Lectura[Leidos + 1]
  BY DEF Proxima, Leidos
<1>4. ASSUME EsPuerto(Proxima) PROVE sigue = 0
  <2>1. Leidos = 0 \/ ~ EsPuerto(Lectura[Leidos])
    BY <1>1, <1>2, <1>3, <1>4, LasClaves
  <2>2. ~ TrasPuerto
    BY <1>2, <2>1 DEF TrasPuerto
  <2>3. QED
    BY <1>1, <2>2 DEF Fieles
<1>5. ASSUME ~ EsPuerto(Proxima) PROVE TrasPuerto /\ Leidos \in 1 .. Leidos
  <2>1. Leidos + 1 > 1 /\ EsPuerto(Lectura[Leidos])
    BY <1>1, <1>2, <1>3, <1>5, LasClaves
  <2>2. QED
    BY <1>2, <2>1 DEF TrasPuerto
<1>6. QED
  BY <1>2, <1>3, <1>4, <1>5

\* What is read for a port is the text of its own line, above all that were
\* taken; an address may come from elsewhere if its line cannot be seen.
LEMMA LoLeidoFiel ==
  ASSUME Conf, pedida.origen = "archivo", estado = "leyendo",
         NEW v \in GetVal(Proxima), v # Caida, Valido(Proxima, v.texto)
  PROVE  LET n == Leidos + 1
         IN /\ EsPuerto(Proxima) =>
                 /\ v.de = Linea(Proxima) /\ \A j \in tapadas : v.de < j
                 /\ v.de \in DOMAIN buffer /\ buffer[v.de].clave = Lectura[n]
            /\ ~ EsPuerto(Proxima) =>
                 \/ v.de \in DOMAIN buffer /\ buffer[v.de].clave = Lectura[n]
                 \/ pedida.programa # "NNTPClient" =>
                      \A j \in DOMAIN buffer : j < campos[Leidos].de => buffer[j].clave # Lectura[n]
<1> DEFINE k == Proxima
           i == Linea(k)
<1>1. /\ buffer \in Seq(Renglon) /\ sigue \in Nat /\ tapadas \subseteq Nat /\ Fieles
      /\ campos \in Seq(Campo)
  BY DEF Conf, TiposConf
<1>2. k = Lectura[Leidos + 1]
  BY LaProxima
<1>3. /\ DOMAIN buffer = 1 .. Len(buffer) /\ Len(buffer) \in Nat /\ i \in Nat
      /\ Visibles(k) # {} =>
           /\ i \in DOMAIN buffer /\ buffer[i].clave = k
           /\ \A j \in tapadas : i < j
      /\ Visibles(k) = {} => i = sigue
  BY <1>1, LaLinea
<1>4. \/ i \notin DOMAIN buffer /\ v.texto = "otro"
      \/ /\ i \in DOMAIN buffer \ tapadas
         /\ v.de = i /\ v.texto = buffer[i].texto
      \/ /\ i \in DOMAIN buffer \ tapadas /\ buffer[i].texto = ""
         /\ v.texto = "otro"
  <2> HIDE DEF i
  <2>1. \/ /\ i \notin DOMAIN buffer /\ v = Cero
        \/ /\ i \in DOMAIN buffer \ tapadas
           /\ v = [de |-> i, texto |-> buffer[i].texto]
        \/ /\ i \in DOMAIN buffer \ tapadas /\ buffer[i].texto = ""
           /\ v.texto = "otro"
    BY <1>1, LoLeido DEF i
  <2>2. CASE i \notin DOMAIN buffer /\ v = Cero
    <3>1. v.texto = "otro"
      BY <2>2 DEF Cero
    <3>2. QED
      BY <2>2, <3>1
  <2>3. CASE /\ i \in DOMAIN buffer \ tapadas
             /\ v = [de |-> i, texto |-> buffer[i].texto]
    <3>1. v.de = i /\ v.texto = buffer[i].texto
      BY <2>3
    <3>2. QED
      BY <2>3, <3>1
  <2>4. QED
    BY <2>1, <2>2, <2>3
<1>5. CASE EsPuerto(k)
  <2>1. v.texto \in {"puerto", "ip"}
    BY <1>5 DEF Valido
  <2>2. i \in DOMAIN buffer \ tapadas /\ v.de = i
    BY <1>4, <2>1
  <2>3. sigue = 0
    BY <1>5, LaProxima
  <2>4. Visibles(k) # {}
    BY <1>3, <2>2, <2>3
  <2>5. QED
    BY <1>2, <1>3, <1>5, <2>2, <2>4
<1>6. CASE ~ EsPuerto(k)
  <2>1. TrasPuerto /\ Leidos \in 1 .. Leidos
    BY <1>6, LaProxima
  <2>2. CASE Visibles(k) # {} /\ buffer[i].texto = ""
    <3>1. v.texto \in {"otro", ""}
      BY <1>3, <1>4, <2>2
    <3>2. pedida.programa = "NNTPClient"
      BY <1>6, <3>1 DEF Valido
    <3>3. QED
      BY <1>6, <3>2
  <2>3. CASE Visibles(k) # {} /\ buffer[i].texto # ""
    <3>1. v.de = i
      BY <1>3, <1>4, <2>3
    <3>2. v.de \in DOMAIN buffer /\ buffer[v.de].clave = k
      BY <1>3, <2>3, <3>1
    <3>3. QED
      BY <1>2, <1>6, <3>2
  <2>4. CASE Visibles(k) = {}
    <3>1. \A j \in tapadas : j >= campos[Leidos].de
      BY <1>1, <2>1 DEF Fieles
    <3>2. campos[Leidos].de \in Nat
      <4>1. campos[Leidos] \in Campo
        BY <1>1, <2>1 DEF Leidos
      <4>2. QED
        BY <4>1 DEF Campo
    <3>3. ASSUME NEW j \in DOMAIN buffer, j < campos[Leidos].de, buffer[j].clave = k
          PROVE  FALSE
      <4>1. PICK t \in tapadas : ~ (j < t)
        BY <2>4, <3>3 DEF Visibles
      <4>2. t >= campos[Leidos].de /\ t \in Nat /\ j \in Nat
        BY <1>1, <1>3, <3>1
      <4>3. QED
        BY <3>2, <3>3, <4>1, <4>2
    <3>4. QED
      BY <1>2, <1>6, <3>3
  <2>5. QED
    BY <2>2, <2>3, <2>4
<1>7. QED
  BY <1>5, <1>6

LEMMA PasoLeerCampo ==
  ASSUME Conf, pedida.origen = "archivo", LeerCampo
  PROVE  TiposConf' /\ Fieles' /\ Leidos' = Leidos + 1 /\ N' = N
<1>1. PICK v \in GetVal(Proxima) :
        /\ v # Caida /\ Valido(Proxima, v.texto)
        /\ campos' = Append(campos, v)
        /\ tapadas' = tapadas \cup {Linea(Proxima)}
        /\ sigue' = Continua(Proxima, v)
        /\ estado' = IF Len(campos') = Len(Lectura) THEN "aceptada" ELSE "leyendo"
  BY DEF LeerCampo
<1>2. /\ estado = "leyendo" /\ UNCHANGED <<pedida, buffer>>
      /\ buffer \in Seq(Renglon) /\ sigue \in Nat /\ tapadas \subseteq Nat /\ Fieles
      /\ campos \in Seq(Campo) /\ pedida \in Pedidas
  BY DEF LeerCampo, Conf, TiposConf
<1>3. /\ N \in Nat /\ Leidos \in Nat /\ Leidos + 1 \in 1 .. N /\ Proxima = Lectura[Leidos + 1]
      /\ N' = N /\ Lectura' = Lectura
  BY <1>2, LaProxima DEF N, Lectura
<1>4. v \in Campo /\ Linea(Proxima) \in Nat
  BY <1>1, <1>2, LoLeido, LaLinea
<1>5. /\ campos' \in Seq(Campo) /\ Leidos' = Leidos + 1 /\ Len(campos') = Leidos + 1
      /\ \A i \in 1 .. Leidos : campos'[i] = campos[i]
      /\ campos'[Leidos + 1] = v
  BY <1>1, <1>2, <1>4, AppendProperties DEF Leidos
<1>6. v.de \in Nat
  BY <1>4 DEF Campo
<1>7. TiposConf'
  <2>1. sigue' \in Nat /\ tapadas' \subseteq Nat
    <3>1. Continua(Proxima, v) \in Nat
      BY <1>6 DEF Continua
    <3>2. QED
      BY <1>1, <1>2, <1>4, <3>1
  <2>2. /\ estado' \in {"aceptada", "leyendo"} /\ Leidos' <= N'
        /\ estado' = "leyendo" => Leidos' < N'
    BY <1>1, <1>3, <1>5 DEF N
  <2>3. QED
    BY <1>2, <1>5, <2>1, <2>2 DEF TiposConf
<1>8. Fieles'
  <2>1. ASSUME NEW i \in 1 .. Leidos PROVE CampoFiel(i)'
    <3>1. CampoFiel(i) /\ i \in Nat /\ i \in 1 .. N
      BY <1>2, <1>3 DEF Fieles
    <3>2. campos'[i] = campos[i] /\ buffer' = buffer /\ pedida' = pedida
      BY <1>2, <1>5
    <3>3. CASE Propia(i)
      BY <3>2, <3>3 DEF CampoFiel, Propia
    <3>4. CASE ~ EsPuerto(Lectura[i])
      <4>1. i - 1 \in 1 .. Leidos
        BY <1>2, <1>3, <3>1, <3>4, LasClaves
      <4>2. campos'[i - 1] = campos[i - 1]
        BY <1>5, <4>1
      <4>3. QED
        BY <1>3, <3>1, <3>2, <4>2 DEF CampoFiel, Propia
    <3>5. QED
      BY <3>1, <3>3, <3>4 DEF CampoFiel
  <2> PICK n : n = Leidos + 1
    OBVIOUS
  <2>2. CampoFiel(n)'
    <3>1. CASE EsPuerto(Proxima)
      <4>1. v.de \in DOMAIN buffer /\ buffer[v.de].clave = Lectura[Leidos + 1]
        BY <1>1, <1>2, <3>1, LoLeidoFiel
      <4>2. Propia(n)'
        BY <1>2, <1>3, <1>5, <4>1 DEF Propia, Lectura
      <4>3. QED
        BY <1>5, <4>2 DEF CampoFiel
    <3>2. CASE ~ EsPuerto(Proxima)
      <4>1. \/ v.de \in DOMAIN buffer /\ buffer[v.de].clave = Lectura[Leidos + 1]
            \/ pedida.programa # "NNTPClient" =>
                 \A j \in DOMAIN buffer :
                   j < campos[Leidos].de => buffer[j].clave # Lectura[Leidos + 1]
        BY <1>1, <1>2, <3>2, LoLeidoFiel
      <4>2. Leidos \in 1 .. Leidos /\ n - 1 = Leidos
        BY <1>2, <1>3, <3>2, LaProxima
      <4>3. campos'[n - 1] = campos[Leidos]
        BY <1>5, <4>2
      <4>4. CASE v.de \in DOMAIN buffer /\ buffer[v.de].clave = Lectura[Leidos + 1]
        <5>1. Propia(n)'
          BY <1>2, <1>3, <1>5, <4>4 DEF Propia, Lectura
        <5>2. QED
          BY <1>5, <5>1 DEF CampoFiel
      <4>5. CASE pedida.programa # "NNTPClient" =>
                   \A j \in DOMAIN buffer :
                     j < campos[Leidos].de => buffer[j].clave # Lectura[Leidos + 1]
        BY <1>2, <1>3, <1>5, <3>2, <4>3, <4>5 DEF CampoFiel
      <4>6. QED
        BY <4>1, <4>4, <4>5
    <3>3. QED
      BY <3>1, <3>2
  <2>3. ASSUME TrasPuerto' PROVE \A j \in tapadas' : j >= campos'[Leidos'].de
    <3>1. EsPuerto(Proxima)
      BY <1>3, <1>5, <2>3 DEF TrasPuerto
    <3>2. v.de = Linea(Proxima) /\ \A j \in tapadas : v.de < j
      BY <1>1, <1>2, <3>1, LoLeidoFiel
    <3>3. \A j \in tapadas' : j \in tapadas \/ j = v.de
      BY <1>1, <3>2
    <3>4. campos'[Leidos'] = v /\ \A j \in tapadas : j \in Nat
      BY <1>2, <1>5
    <3>5. QED
      BY <1>6, <3>2, <3>3, <3>4
  <2>4. ASSUME ~ TrasPuerto' PROVE sigue' = 0
    <3>1. ~ EsPuerto(Proxima)
      BY <1>3, <1>5, <2>4 DEF TrasPuerto
    <3>2. QED
      BY <1>1, <3>1 DEF Continua
  <2>5. \A i \in 1 .. Leidos' : i \in 1 .. Leidos \/ i = Leidos + 1
    BY <1>3, <1>5
  <2>6. \A i \in 1 .. Leidos' : CampoFiel(i)'
    <3>1. ASSUME NEW i \in 1 .. Leidos' PROVE CampoFiel(i)'
      BY <2>1, <2>2, <2>5
    <3>2. QED
      BY <3>1
  <2>7. QED
    BY <2>3, <2>4, <2>6 DEF Fieles
<1>9. QED
  BY <1>3, <1>5, <1>7, <1>8

\* In the order of the repository, the line of the next key is the one above
\* those that were taken.
LEMMA LaDeArriba ==
  ASSUME Conf, pedida.origen = "archivo", estado = "leyendo", ComoElRepositorio,
         NEW v \in GetVal(Proxima)
  PROVE  /\ v # Caida /\ Valido(Proxima, v.texto)
         /\ Linea(Proxima) = N - Leidos /\ v.de = N - Leidos
<1> DEFINE k == Proxima
           i == Linea(k)
           a == N - Leidos
<1>1. /\ buffer \in Seq(Renglon) /\ sigue \in Nat /\ tapadas \subseteq Nat
      /\ pedida \in Pedidas /\ HaciaArriba
  BY DEF Conf, TiposConf
<1>2. /\ N \in Nat /\ Leidos \in Nat /\ Leidos + 1 \in 1 .. N
      /\ k = Lectura[Leidos + 1]
  BY LaProxima
<1>3. a \in 1 .. N /\ N + 1 - a = Leidos + 1
  BY <1>2
<1>4. /\ Len(buffer) \in {N, N + 1}
      /\ \A j \in 1 .. N :
           /\ buffer[j].clave = Lectura[N + 1 - j]
           /\ buffer[j].texto = IF EsPuerto(buffer[j].clave) THEN "puerto" ELSE "ip"
      /\ tapadas = (N + 1 - Leidos) .. N
  BY <1>1 DEF HaciaArriba
<1>5. /\ DOMAIN buffer = 1 .. Len(buffer) /\ i \in Nat
      /\ Visibles(k) # {} =>
           /\ i \in DOMAIN buffer /\ buffer[i].clave = k
           /\ \A j \in tapadas : i < j
           /\ \A j \in Visibles(k) : i <= j
  BY <1>1, LaLinea
<1> HIDE DEF a, k, i
<1>6. a \in Visibles(k)
  <2>1. a \in DOMAIN buffer
    <3>1. Len(buffer) \in {N, N + 1} /\ DOMAIN buffer = 1 .. Len(buffer)
      BY <1>4, <1>5
    <3>2. N \in Nat /\ a \in 1 .. N
      BY <1>2, <1>3
    <3>3. 1 .. N \subseteq 1 .. Len(buffer)
      <4>1. CASE Len(buffer) = N
        BY <4>1
      <4>2. CASE Len(buffer) = N + 1
        BY <3>2, <4>2
      <4>3. QED
        BY <3>1, <4>1, <4>2
    <3>4. QED
      BY <3>1, <3>2, <3>3
  <2>2. buffer[a].clave = k
    BY <1>2, <1>3, <1>4
  <2>3. \A j \in tapadas : a < j
    BY <1>2, <1>4 DEF a
  <2>4. QED
    BY <2>1, <2>2, <2>3 DEF Visibles
<1>7. i = a
  <2>1. i <= a /\ i \in DOMAIN buffer /\ buffer[i].clave = k
    BY <1>5, <1>6
  <2>2. i \in 1 .. N
    BY <1>2, <1>3, <1>5, <2>1
  <2>3. Lectura[N + 1 - i] = Lectura[Leidos + 1] /\ N + 1 - i \in 1 .. N
    BY <1>2, <1>4, <2>1, <2>2
  <2>4. N + 1 - i = Leidos + 1
    BY <1>1, <1>2, <2>3, LasClaves
  <2>5. QED
    BY <1>2, <2>2, <2>4 DEF a
<1>8. /\ i \in DOMAIN buffer \ tapadas
      /\ buffer[i].texto = IF EsPuerto(k) THEN "puerto" ELSE "ip"
  <2>1. i \notin tapadas
    BY <1>5, <1>6
  <2>2. QED
    BY <1>3, <1>4, <1>5, <1>6, <1>7, <2>1
<1>9. v = [de |-> i, texto |-> buffer[i].texto]
  <2>1. buffer[i].texto # ""
    BY <1>8
  <2>2. QED
    BY <1>8, <2>1 DEF GetVal, i, k
<1>10. v.de = i /\ v.texto = IF EsPuerto(k) THEN "puerto" ELSE "ip"
  BY <1>8, <1>9
<1>11. v # Caida
  <2>1. Caida.de = 0
    BY DEF Caida
  <2>2. v.de # 0
    BY <1>2, <1>3, <1>7, <1>10
  <2>3. QED
    BY <2>1, <2>2
<1>12. Valido(k, v.texto)
  BY <1>10 DEF Valido, ComoElRepositorio
<1>13. QED
  BY <1>7, <1>10, <1>11, <1>12 DEF i, k, a

LEMMA SigueHaciaArriba ==
  ASSUME Conf, pedida.origen = "archivo", ComoElRepositorio, LeerCampo
  PROVE  HaciaArriba'
<1>1. PICK v \in GetVal(Proxima) :
        /\ campos' = Append(campos, v) /\ v # Caida
        /\ tapadas' = tapadas \cup {Linea(Proxima)}
        /\ estado' = IF Len(campos') = Len(Lectura) THEN "aceptada" ELSE "leyendo"
  BY DEF LeerCampo
<1>2. /\ estado = "leyendo" /\ UNCHANGED <<pedida, buffer>> /\ HaciaArriba
      /\ buffer \in Seq(Renglon) /\ sigue \in Nat /\ campos \in Seq(Campo)
  BY DEF LeerCampo, Conf, TiposConf
<1>3. /\ N \in Nat /\ Leidos \in Nat /\ Leidos + 1 \in 1 .. N
      /\ N' = N /\ Lectura' = Lectura
  BY <1>2, LaProxima DEF N, Lectura
<1>4. Linea(Proxima) = N - Leidos /\ v.de = N - Leidos
  BY <1>1, <1>2, LaDeArriba
<1>5. /\ Leidos' = Leidos + 1 /\ \A i \in 1 .. Leidos : campos'[i] = campos[i]
      /\ campos'[Leidos + 1] = v
  <2>1. v \in Campo
    BY <1>1, <1>2, LoLeido
  <2>2. QED
    BY <1>1, <1>2, <2>1, AppendProperties DEF Leidos
<1>6. tapadas' = (N + 1 - Leidos') .. N
  <2>1. tapadas = (N + 1 - Leidos) .. N
    BY <1>2 DEF HaciaArriba
  <2>2. N + 1 - Leidos' = N - Leidos
    BY <1>3, <1>5
  <2>3. ((N + 1 - Leidos) .. N) \cup {N - Leidos} = (N - Leidos) .. N
    BY <1>3
  <2>4. QED
    BY <1>1, <1>4, <2>1, <2>2, <2>3
<1>7. \A i \in 1 .. Leidos' : campos'[i].de = N + 1 - i
  <2>1. \A i \in 1 .. Leidos : campos[i].de = N + 1 - i
    BY <1>2 DEF HaciaArriba
  <2>2. ASSUME NEW i \in 1 .. Leidos' PROVE campos'[i].de = N + 1 - i
    <3>1. CASE i \in 1 .. Leidos
      BY <1>5, <2>1, <3>1
    <3>2. CASE i = Leidos + 1
      BY <1>3, <1>4, <1>5, <3>2
    <3>3. QED
      BY <1>3, <1>5, <3>1, <3>2
  <2>3. QED
    BY <2>2
<1>8. QED
  BY <1>1, <1>2, <1>3, <1>6, <1>7 DEF HaciaArriba

LEMMA ConfSiempre == SpecConf => []Conf
<1>1. InitConf => Conf
  <2> SUFFICES ASSUME InitConf PROVE Conf
    OBVIOUS
  <2>1. /\ pedida \in Pedidas /\ estado = "inicio" /\ campos = <<>> /\ buffer = <<>>
        /\ tapadas = {} /\ sigue = 0 /\ Leidos = 0
    BY DEF InitConf, Leidos
  <2>2. N \in Nat /\ N >= 1 /\ <<>> \in Seq(Campo) /\ <<>> \in Seq(Renglon)
    BY <2>1, LasClaves
  <2>3. QED
    BY <2>1, <2>2 DEF Conf, TiposConf, Fieles, TrasPuerto, HaciaArriba
<1>2. Conf /\ [NextConf]_varsConf => Conf'
  <2> SUFFICES ASSUME Conf, [NextConf]_varsConf PROVE Conf'
    OBVIOUS
  <2>1. pedida' = pedida /\ pedida \in Pedidas
    BY DEF Conf, NextConf, varsConf, CargarArchivo, LeerCampo, Rechazar, Caer, LeerArgumentos
  <2>2. CASE pedida.origen # "archivo"
    BY <2>1, <2>2 DEF Conf
  <2>3. CASE pedida.origen = "archivo" /\ CargarArchivo
    BY <2>3, PasoCargar
  <2>4. CASE pedida.origen = "archivo" /\ LeerCampo
    <3>1. TiposConf' /\ Fieles'
      BY <2>4, PasoLeerCampo
    <3>2. ComoElRepositorio' => ComoElRepositorio
      BY <2>1 DEF ComoElRepositorio, ComoLaDelRepositorio
    <3>3. QED
      BY <2>1, <2>4, <3>1, <3>2, SigueHaciaArriba DEF Conf
  <2>5. CASE pedida.origen = "archivo" /\ (Rechazar \/ Caer)
    <3>1. /\ estado = "leyendo" /\ estado' \in {"rechazada", "caida"}
          /\ UNCHANGED <<pedida, buffer, tapadas, sigue, campos>>
      BY <2>5 DEF Rechazar, Caer
    <3>2. ~ ComoElRepositorio
      <4>1. PICK v \in GetVal(Proxima) : v = Caida \/ ~ Valido(Proxima, v.texto)
        BY <2>5 DEF Rechazar, Caer
      <4>2. QED
        BY <2>5, <3>1, <4>1, LaDeArriba
    <3>3. ~ ComoElRepositorio'
      BY <2>1, <3>2 DEF ComoElRepositorio, ComoLaDelRepositorio
    <3>4. TiposConf' /\ Fieles'
      BY <2>5, <3>1 DEF Conf, TiposConf, Fieles, CampoFiel, Propia, TrasPuerto, Leidos, N, Lectura
    <3>5. QED
      BY <2>1, <3>3, <3>4 DEF Conf
  <2>6. CASE pedida.origen = "archivo" /\ UNCHANGED varsConf
    BY <2>6 DEF varsConf, Conf, TiposConf, Fieles, CampoFiel, Propia, TrasPuerto, Leidos, N,
       Lectura, ComoElRepositorio, ComoLaDelRepositorio, HaciaArriba
  <2>7. QED
    BY <2>2, <2>3, <2>4, <2>5, <2>6 DEF NextConf, LeerArgumentos
<1>3. QED
  BY <1>1, <1>2, PTL DEF SpecConf

(* Whatever the file, of any length, with keys in any order, missing or    *)
(* repeated: a server that starts has every port under its own key, and an *)
(* address that is not its own is one whose key strstr could not see from  *)
(* the port read before it.  A port is never taken from where strtok was   *)
(* left, because Valida_IP took strtok away with the address before it.    *)
THEOREM AceptadaFielSiempre == SpecConf => []AceptadaFiel
<1>1. Conf => AceptadaFiel
  <2> SUFFICES ASSUME Conf, pedida.origen = "archivo", NEW i \in DOMAIN campos
               PROVE  CampoFiel(i)
    BY DEF AceptadaFiel, CampoFiel
  <2>1. campos \in Seq(Campo) /\ Fieles
    BY DEF Conf, TiposConf
  <2>2. i \in 1 .. Leidos
    BY <2>1 DEF Leidos
  <2>3. QED
    BY <2>1, <2>2 DEF Fieles
<1>2. QED
  BY <1>1, ConfSiempre, PTL

(* A file whose keys come in the order of the files of the repository,     *)
(* with any comments and blank lines, is accepted whole and each value is  *)
(* under its own key: it is read from its last line upwards, so that the   *)
(* line of the next key is always above the NULs strtok has written.       *)
THEOREM OrdenDelRepositorioSirveSiempre == SpecConf => []OrdenDelRepositorioSirve
<1>1. Conf => OrdenDelRepositorioSirve
  <2> SUFFICES ASSUME Conf, pedida.origen = "archivo", ComoElRepositorio
               PROVE  /\ estado \notin {"rechazada", "caida"}
                      /\ \A i \in DOMAIN campos : Propia(i)
    BY ConfiguracionAssumption DEF OrdenDelRepositorioSirve, ComoElRepositorio, Conf
  <2>1. /\ campos \in Seq(Campo) /\ buffer \in Seq(Renglon) /\ HaciaArriba /\ pedida \in Pedidas
        /\ estado = "inicio" => campos = <<>>
        /\ Leidos <= N
    BY DEF Conf, TiposConf
  <2>2. N \in Nat /\ Leidos \in Nat /\ DOMAIN campos = 1 .. Leidos
    BY <2>1, LasClaves DEF Leidos
  <2>3. ASSUME NEW i \in DOMAIN campos PROVE Propia(i)
    <3>1. estado # "inicio"
      BY <2>1, <2>3
    <3>2. campos[i].de = N + 1 - i /\ N + 1 - i \in 1 .. N
      BY <2>1, <2>2, <3>1 DEF HaciaArriba
    <3>3. DOMAIN buffer = 1 .. Len(buffer) /\ Len(buffer) \in {N, N + 1}
      BY <2>1, <3>1 DEF HaciaArriba
    <3>4. N + 1 - i \in DOMAIN buffer
      BY <2>2, <3>2, <3>3
    <3>5. buffer[N + 1 - i].clave = Lectura[N + 1 - (N + 1 - i)]
      BY <2>1, <3>1, <3>2 DEF HaciaArriba
    <3>6. N + 1 - (N + 1 - i) = i
      BY <2>2
    <3>7. QED
      BY <3>2, <3>4, <3>5, <3>6 DEF Propia, Lectura
  <2>4. QED
    BY <2>1, <2>3 DEF HaciaArriba
<1>2. QED
  BY <1>1, ConfSiempre, PTL
=============================================================================
