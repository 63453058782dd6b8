-------------------------------- MODULE Logger --------------------------------
(***************************************************************************)
(* The log file of a process whose threads write at the same time, in the  *)
(* three forms the repository has it:                                      *)
(*   "solaris"  logger-Solaris.c of HTTPServer: a FILE of the call's own;  *)
(*   "win"      logger-win.c of PublisherWin: a HANDLE of the call's own,  *)
(*              opened with share mode 0;                                  *)
(*   "clase"    logger-win.cpp of XMLNewsPS and NNTPProcessServer: the     *)
(*              same HANDLE, kept in a member of an object all threads     *)
(*              share.                                                     *)
(* A line is three pieces: the heading, the kind and the text.  In the     *)
(* first form it fits the buffer of the FILE, which fclose writes.         *)
(***************************************************************************)
EXTENDS Naturals, FiniteSets, Sequences

CONSTANTS
  Hilos,      \* the threads of the process
  Handles,    \* the values CreateFile may return
  INVALIDO,   \* INVALID_HANDLE_VALUE
  MaxLineas   \* thread |-> lines it writes: the bound of the instance

ASSUME LoggerAssumption == /\ MaxLineas \in [Hilos -> Nat]
                           /\ INVALIDO \notin Handles

VARIABLES
  variante,   \* the form of the logger
  hilos,      \* thread |-> where it is, the handle it got, its line's number
              \* and whether another thread was inside during it
  arch,       \* the member of the object ("clase")
  abierto,    \* the handle the file is open with, if any
  posicion,   \* where that handle writes
  archivo,    \* the pieces in the file
  terminadas, \* the lines EscribirLog has returned from
  huboSolape  \* two threads have been inside at the same time

varsLog == <<variante, hilos, arch, abierto, posicion, archivo, terminadas, huboSolape>>

Partes == <<"encabezado", "tipo", "texto">>

InitLog ==
  /\ variante \in {"solaris", "win", "clase"}
  /\ hilos = [h \in Hilos |-> [pc |-> "fuera", handle |-> INVALIDO,
                               linea |-> 0, solapada |-> FALSE]]
  /\ arch = INVALIDO
  /\ abierto = INVALIDO
  /\ posicion = 1
  /\ archivo = <<>>
  /\ terminadas = {}
  /\ huboSolape = FALSE

Adentro == {h \in Hilos : hilos[h].pc # "fuera"}

\* The handle a thread writes with: its own, or what the member is by now.
Mio(h) == IF variante = "clase" THEN arch ELSE hilos[h].handle
Sirve(h) == Mio(h) # INVALIDO /\ Mio(h) = abierto

Pieza(h, p) == [hilo |-> h, linea |-> hilos[h].linea, parte |-> p]
Ir(h, pc) == hilos' = [hilos EXCEPT ![h].pc = pc]

\* EscribirLog is called.
Empezar(h) ==
  /\ hilos[h].pc = "fuera" /\ hilos[h].linea < MaxLineas[h]
  /\ hilos' = [g \in Hilos |->
                 IF g = h THEN [pc |-> "abrir", handle |-> INVALIDO,
                                linea |-> hilos[h].linea + 1,
                                solapada |-> Adentro # {}]
                 ELSE [hilos[g] EXCEPT !.solapada = @ \/ g \in Adentro]]
  /\ huboSolape' = (huboSolape \/ Adentro # {})
  /\ UNCHANGED <<variante, arch, abierto, posicion, archivo, terminadas>>

\* fopen with "a+": everybody may have the file open.
Fopen(h) ==
  /\ variante = "solaris" /\ hilos[h].pc = "abrir"
  /\ Ir(h, "cerrar")
  /\ UNCHANGED <<variante, arch, abierto, posicion, archivo, terminadas, huboSolape>>

\* No file, or no descriptor for it: perror, and then fprintf on a NULL FILE.
FopenFalla(h) ==
  /\ variante = "solaris" /\ hilos[h].pc = "abrir"
  /\ hilos' = [g \in Hilos |-> [hilos[g] EXCEPT !.pc = "muerto"]]
  /\ UNCHANGED <<variante, arch, abierto, posicion, archivo, terminadas, huboSolape>>

\* Mutant of SePuedeAbrir: a share mode that lets others write.
SePuedeCompartir == TRUE

\* Share mode 0: a second CreateFile fails while the first is not closed.
SePuedeAbrir == abierto = INVALIDO

Siguiente == IF variante = "clase" THEN "asignar" ELSE "fin"

CreateFile(h) ==
  /\ variante # "solaris" /\ hilos[h].pc = "abrir"
  /\ SePuedeAbrir
  /\ \E k \in Handles :
       /\ hilos' = [hilos EXCEPT ![h].pc = Siguiente, ![h].handle = k]
       /\ abierto' = k
  /\ posicion' = 1
  /\ UNCHANGED <<variante, arch, archivo, terminadas, huboSolape>>

\* logger-win.c returns and the line is lost; the class goes on without a file.
NoAbre(h) ==
  /\ variante # "solaris" /\ hilos[h].pc = "abrir"
  /\ ~SePuedeAbrir
  /\ Ir(h, IF variante = "win" THEN "volver" ELSE "asignar")
  /\ UNCHANGED <<variante, arch, abierto, posicion, archivo, terminadas, huboSolape>>

\* arch = CreateFile(...), whatever it returned.
Asignar(h) ==
  /\ hilos[h].pc = "asignar"
  /\ arch' = hilos[h].handle
  /\ Ir(h, "fin")
  /\ UNCHANGED <<variante, abierto, posicion, archivo, terminadas, huboSolape>>

SetFilePointer(h) ==
  /\ hilos[h].pc = "fin"
  /\ posicion' = IF Sirve(h) THEN Len(archivo) + 1 ELSE posicion
  /\ Ir(h, Partes[1])
  /\ UNCHANGED <<variante, arch, abierto, archivo, terminadas, huboSolape>>

\* A WriteFile on a handle that is not open writes nothing and is not checked.
WriteFile(h) ==
  \E p \in 1..3 :
    /\ hilos[h].pc = Partes[p]
    /\ IF Sirve(h)
       THEN /\ archivo' = [i \in DOMAIN archivo \cup {posicion} |->
                             IF i = posicion THEN Pieza(h, p) ELSE archivo[i]]
            /\ posicion' = posicion + 1
       ELSE UNCHANGED <<archivo, posicion>>
    /\ Ir(h, IF p = 3 THEN "cerrar" ELSE Partes[p + 1])
    /\ UNCHANGED <<variante, arch, abierto, terminadas, huboSolape>>

\* Mutant of Volcado: a FILE without a buffer, one write for each fprintf.
VolcadoPorPartes(h) == <<Pieza(h, 1), Pieza(h, 3)>>

\* What fclose appends, in one write.
Volcado(h) == [p \in 1..3 |-> Pieza(h, p)]

Fclose(h) ==
  /\ variante = "solaris" /\ hilos[h].pc = "cerrar"
  /\ archivo' = archivo \o Volcado(h)
  /\ Ir(h, "volver")
  /\ UNCHANGED <<variante, arch, abierto, posicion, terminadas, huboSolape>>

\* Mutant of TrasCerrar: EscribirLog returns without CloseHandle.
SinCerrar(h) == abierto

\* CloseHandle of an INVALID handle, or of one already closed, fails.
TrasCerrar(h) == IF Sirve(h) THEN INVALIDO ELSE abierto

CloseHandle(h) ==
  /\ variante # "solaris" /\ hilos[h].pc = "cerrar"
  /\ abierto' = TrasCerrar(h)
  /\ Ir(h, "volver")
  /\ UNCHANGED <<variante, arch, posicion, archivo, terminadas, huboSolape>>

Volver(h) ==
  /\ hilos[h].pc = "volver"
  /\ terminadas' = terminadas \cup {[hilo |-> h, linea |-> hilos[h].linea,
                                     solapada |-> hilos[h].solapada]}
  /\ Ir(h, "fuera")
  /\ UNCHANGED <<variante, arch, abierto, posicion, archivo, huboSolape>>

NextLog ==
  \E h \in Hilos :
    \/ Empezar(h) \/ Fopen(h) \/ FopenFalla(h)
    \/ CreateFile(h) \/ NoAbre(h) \/ Asignar(h)
    \/ SetFilePointer(h) \/ WriteFile(h) \/ Fclose(h) \/ CloseHandle(h) \/ Volver(h)

SpecLog == InitLog /\ [][NextLog]_varsLog
-----------------------------------------------------------------------------
\* The pieces of the file come line by line, only the last one may be unfinished.
PorLineas ==
  \A i \in DOMAIN archivo :
    /\ archivo[i].parte = ((i - 1) % 3) + 1
    /\ archivo[i].parte > 1 =>
         /\ archivo[i].hilo = archivo[i - 1].hilo
         /\ archivo[i].linea = archivo[i - 1].linea

Escrita(l) ==
  \A p \in 1..3 : \E i \in DOMAIN archivo :
    archivo[i] = [hilo |-> l.hilo, linea |-> l.linea, parte |-> p]

\* With a file or a handle for each call no line is ever cut by another, or
\* written over, whatever the threads do (logger-Solaris.c:60-65,
\* logger-win.c:46-96); with the shared member (NNTPServerWin/logger-win.cpp:33)
\* that is so until two threads are inside EscribirLog.
LineasEnteras == variante # "clase" \/ ~huboSolape => PorLineas

\* A line EscribirLog returned from is in the file.  logger-win.c loses it
\* without a word if another thread had the file open during that very call,
\* and the class of the servers may lose it, and others much later, once two
\* threads have been inside at the same time.
PerdidaExplicada ==
  \A l \in terminadas :
    Escrita(l) \/ (variante = "win" /\ l.solapada) \/ (variante = "clase" /\ huboSolape)

\* The file is open, and nobody has the handle any more to write or close it.
LogPerdido ==
  /\ abierto # INVALIDO /\ arch # abierto
  /\ \A h \in Hilos : hilos[h].pc = "asignar" => hilos[h].handle # abierto

\* When a failed CreateFile overwrites the member of the thread that has the
\* file open (logger-win.cpp:33), that handle is never closed, every later
\* CreateFile fails and the process logs nothing until it is started again.
LogPerdidoNoVuelve ==
  [][variante = "clase" /\ LogPerdido => archivo' = archivo /\ LogPerdido']_varsLog
=============================================================================
