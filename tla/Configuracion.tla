----------------------------- MODULE Configuracion -----------------------------
(***************************************************************************)
(* How HTTPServer, NNTPServerBAM and NNTPClient read their configuration:  *)
(* the file goes into one buffer and GetVal looks for each key in it with  *)
(* strstr and strtok, which writes a NUL over the "=" and the end of line  *)
(* of what it takes.  After that strstr sees only what is above that line, *)
(* and a key it does not find is taken from where strtok was left.         *)
(*                                                                         *)
(* A line is its key and the kind of its text: "puerto", "ip", "otro" (not *)
(* valid as either) or "" (nothing after the "=").  Lines longer than the  *)
(* 100 bytes read at a time and files longer than the 1000 of the buffer   *)
(* are left out.                                                           *)
(***************************************************************************)
EXTENDS Naturals, Sequences, SequencesExt, FiniteSetsExt

CONSTANT Pedidas  \* the configurations the programs are started with

\* The keys in the order they are read, each port before its address.
ClavesHTTPServer ==
  <<"Memc2Port", "Memc2IP", "Memc1Port", "Memc1IP", "OpenDSPort", "OpenDSServer", "AppPort">>
ClavesNNTPServerBAM == <<"OPENDS_PORT", "OPENDS_SERVER", "LOCAL_PORT", "LOCAL_IP">>
ClavesNNTPClient == <<"PORT", "SERVER">>

Claves == [HTTPServer    |-> ClavesHTTPServer,
           NNTPServerBAM |-> ClavesNNTPServerBAM,
           NNTPClient    |-> ClavesNNTPClient]

\* A configuration: the lines of a file, or the values of the command line.
ASSUME ConfiguracionAssumption ==
  \A c \in Pedidas : /\ c.programa \in DOMAIN Claves
                     /\ c.origen \in {"archivo", "argumentos"}
                     /\ c.conCR \in BOOLEAN /\ c.conFin \in BOOLEAN
                     /\ c.lineas \in Seq([clave : STRING, texto : {"puerto", "ip", "otro", ""}])

VARIABLES
  pedida,   \* the configuration: program, lines, line ends, end of the last line
  buffer,   \* pszAux, line by line
  tapadas,  \* lines whose "=" is a NUL
  sigue,    \* the line strtok(NULL) goes on at, 0 if it has none
  campos,   \* key |-> the line its value was taken from and its text
  estado

varsConf == <<pedida, buffer, tapadas, sigue, campos, estado>>

InitConf ==
  /\ pedida \in Pedidas
  /\ buffer = <<>>
  /\ tapadas = {}
  /\ sigue = 0
  /\ campos = <<>>
  /\ estado = "inicio"

EsPuerto(k) ==
  k \in {"Memc2Port", "Memc1Port", "OpenDSPort", "AppPort", "OPENDS_PORT", "LOCAL_PORT", "PORT"}

\* Mutant of Lectura: the keys in the order of the file.
LecturaDeArriba == Reverse(Claves[pedida.programa])

Lectura == Claves[pedida.programa]

\* The range of a port, after atoi, and Valida_IP: the first number of an
\* address is a port too, and the CR of a file of Windows is the fourth
\* character of the last number.  The client does not validate the address.
Valido(k, texto) ==
  IF EsPuerto(k) THEN texto \in {"puerto", "ip"}
  ELSE pedida.programa = "NNTPClient" \/ (texto = "ip" /\ ~pedida.conCR)

Util(linea) == linea.clave \notin {"#", ""}

\* The lines kept of the first n: neither comments nor blank.
leidas(lineas) ==
  LET copia[n \in 0 .. Len(lineas)] ==
        IF n = 0 THEN <<>>
        ELSE IF Util(lineas[n]) THEN Append(copia[n - 1], lineas[n]) ELSE copia[n - 1]
  IN copia

Utiles(lineas) == leidas(lineas)[Len(lineas)]

\* The lines that reach the buffer.  At the end of a file fgets leaves the last
\* line where it is and it goes in twice; getline does not.
Cargadas ==
  LET lineas == pedida.lineas
      utiles == Utiles(lineas)
      textos == [i \in DOMAIN utiles |->
                   IF pedida.conCR /\ utiles[i].texto = "" THEN [utiles[i] EXCEPT !.texto = "otro"]
                   ELSE utiles[i]]
  IN IF /\ pedida.programa # "NNTPClient" /\ pedida.conFin
        /\ lineas # <<>> /\ Util(Last(lineas))
     THEN Append(textos, Last(textos))
     ELSE textos

CargarArchivo ==
  /\ estado = "inicio" /\ pedida.origen = "archivo"
  /\ buffer' = Cargadas
  /\ estado' = "leyendo"
  /\ UNCHANGED <<pedida, tapadas, sigue, campos>>

Proxima == Lectura[Len(campos) + 1]

\* strstr stops at the first NUL and finds the first of the lines above it.
Visibles(k) == {i \in DOMAIN buffer : buffer[i].clave = k /\ \A j \in tapadas : i < j}
Linea(k) == IF Visibles(k) # {} THEN Min(Visibles(k)) ELSE sigue

Cero == [de |-> 0, texto |-> "otro"]
Caida == [de |-> 0, texto |-> "caida"]

\* What GetVal may return, and Caida if it touches what it must not:
\*  - without a line to go on at, strtok has never been given a text or the one
\*    it was given is the ipaux of a Valida_IP that returned: "0", or a crash;
\*  - past the last line "0", or strlen(NULL) if there are blank lines there;
\*  - a line already taken has no "=": strlen(NULL);
\*  - after a line without text it takes the whole next line, if there is one.
GetVal(k) ==
  LET i == Linea(k)
  IN CASE i \notin DOMAIN buffer -> {Cero, Caida}
       [] i \in tapadas -> {Caida}
       [] i \in DOMAIN buffer \ tapadas /\ buffer[i].texto # "" ->
            {[de |-> i, texto |-> buffer[i].texto]}
       [] i \in DOMAIN buffer \ tapadas /\ buffer[i].texto = "" ->
            IF i = Len(buffer) THEN {Caida} ELSE {[de |-> i + 1, texto |-> "otro"]}

\* Mutant of Continua: Valida_IP does not take strtok away from the buffer.
ContinuaSiempre(k, v) == v.de + 1

\* Where strtok is left: after the line, or inside Valida_IP.
Continua(k, v) == IF EsPuerto(k) THEN v.de + 1 ELSE 0

LeerCampo ==
  /\ estado = "leyendo"
  /\ \E v \in GetVal(Proxima) :
       /\ v # Caida /\ Valido(Proxima, v.texto)
       /\ campos' = Append(campos, v)
       /\ tapadas' = tapadas \cup {Linea(Proxima)}
       /\ sigue' = Continua(Proxima, v)
       /\ estado' = IF Len(campos') = Len(Lectura) THEN "aceptada" ELSE "leyendo"
  /\ UNCHANGED <<pedida, buffer>>

\* "Puerto invalido.", "IP invalida.": the program ends.
Rechazar ==
  /\ estado = "leyendo"
  /\ \E v \in GetVal(Proxima) : v # Caida /\ ~Valido(Proxima, v.texto)
  /\ estado' = "rechazada"
  /\ UNCHANGED <<pedida, buffer, tapadas, sigue, campos>>

\* GetVal crashes, or a whole line is copied over an address of 16 bytes.
Caer ==
  /\ estado = "leyendo"
  /\ \E v \in GetVal(Proxima) :
       v = Caida \/ (~EsPuerto(Proxima) /\ ~Valido(Proxima, v.texto) /\ v.texto = "otro")
  /\ estado' = "caida"
  /\ UNCHANGED <<pedida, buffer, tapadas, sigue, campos>>

\* Values of the command line, which NNTPServerBAM and NNTPClient take in the
\* order of the file.  cargarDesdeParametros ends without a return, and what
\* main compares with 0 may be anything.
LeerArgumentos ==
  /\ estado = "inicio" /\ pedida.origen = "argumentos"
  /\ LET valores == Reverse(pedida.lineas)
     IN IF \A i \in DOMAIN valores : Valido(Lectura[i], valores[i].texto)
        THEN /\ campos' = [i \in DOMAIN valores |-> [de |-> i, texto |-> valores[i].texto]]
             /\ buffer' = valores
             /\ estado' \in {"aceptada"} \cup
                  (IF pedida.programa = "NNTPClient" THEN {"rechazada"} ELSE {})
        ELSE /\ estado' = "rechazada"
             /\ UNCHANGED <<campos, buffer>>
  /\ UNCHANGED <<pedida, tapadas, sigue>>

NextConf == CargarArchivo \/ LeerCampo \/ Rechazar \/ Caer \/ LeerArgumentos

SpecConf == InitConf /\ [][NextConf]_varsConf
-----------------------------------------------------------------------------
Propia(i) == /\ campos[i].de \in DOMAIN buffer
             /\ buffer[campos[i].de].clave = Claves[pedida.programa][i]

\* The keys once each, in the order of the files of the repository (which is the
\* reverse of the one they are read in), with valid texts.
ComoLaDelRepositorio ==
  LET utiles == Utiles(pedida.lineas)
  IN /\ [i \in DOMAIN utiles |-> utiles[i].clave] = Reverse(Claves[pedida.programa])
     /\ \A i \in DOMAIN utiles :
          utiles[i].texto = IF EsPuerto(utiles[i].clave) THEN "puerto" ELSE "ip"

\* A file in the order of config.conf, server.conf and cliente.conf, with any
\* comments and blank lines, and ends of line of Unix, is accepted whole, each
\* value under its own key; the client takes ends of line of Windows too.
OrdenDelRepositorioSirve ==
  /\ pedida.origen = "archivo" /\ ComoLaDelRepositorio
  /\ ~pedida.conCR \/ pedida.programa = "NNTPClient"
  => /\ estado \notin {"rechazada", "caida"}
     /\ \A i \in DOMAIN campos : Propia(i)

\* Whatever the order of the file, keys missing or repeated: a server that
\* starts has its ports under their own keys, and an address that is not its
\* own was read because its key is not above the line of the port read before
\* it (GetVal, NNTPServerBAM/configuration.c:8-23).  The client's port is its
\* own as well; its address it does not check.
AceptadaFiel ==
  estado = "aceptada" /\ pedida.origen = "archivo" =>
    \A i \in DOMAIN campos :
      \/ Propia(i)
      \/ /\ ~EsPuerto(Lectura[i])
         /\ pedida.programa # "NNTPClient" =>
              \A j \in DOMAIN buffer :
                j < campos[i - 1].de => buffer[j].clave # Lectura[i]
=============================================================================
