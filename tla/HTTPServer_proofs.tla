--------------------------- MODULE HTTPServer_proofs ---------------------------
(***************************************************************************)
(* HTTPServer, for any number of threads, browsers, requests and articles: *)
(* what memcached holds is what the directory says, a browser gets the     *)
(* answer to its own request, and a link of a page leads to what it names. *)
(***************************************************************************)
EXTENDS HTTPServer, Consultas_proofs

-----------------------------------------------------------------------------
(* The invariant.                                                          *)

Directorio ==
  /\ DOMAIN bd \subseteq DOMAIN Noticias
  /\ bd = [i \in DOMAIN bd |-> Noticias[i]]
  /\ openDSArriba \in BOOLEAN /\ sesionPerdida \in BOOLEAN

Lugares == {"libre", "copiar", "recv", "procesar", "memcached_get", "getArticle",
            "memcached_set", "aviso200", "send"}

DeNoticia == {Ok([noticia |-> n], TRUE) : n \in Textos}
             \cup {Ok([noticia |-> n], FALSE) : n \in Textos}
DeGrupo == {Ok([ids |-> S], TRUE) : S \in (SUBSET DOMAIN Noticias) \ {{}}}
DeIndex == {Ok([grupos |-> s], TRUE) : s \in Seq(Grupos)}
Posibles == {SinRespuesta, NotFound} \cup DeNoticia \cup DeGrupo \cup DeIndex

Registro == [pc : Lugares, fd : Fds \cup {NoFd}, pedido : Interpretados \cup {SinPedido},
             respuesta : Posibles, cruzado : BOOLEAN]

\* Past the copy of the parameters; with a request read and not yet answered.
Anda(t) == hilos[t].pc \notin {"libre", "copiar"}
Lee(t) == hilos[t].pc \in {"procesar", "memcached_get", "getArticle", "memcached_set"}
\* main has accepted a connection and no thread has copied its descriptor.
Pendiente == mainHttp = "thr_create" \/ \E t \in Hilos : hilos[t].pc = "copiar"

Tipos ==
  /\ hilos \in [Hilos -> Registro]
  /\ mainHttp \in {"accept", "thr_create"} /\ stParameters \in Fds \cup {NoFd}
  /\ Pendiente => stParameters \in Fds
  /\ fds \in [Fds -> Clientes \cup {NoCliente}]
  /\ backlog \in Seq(Clientes)
  /\ estado \in [Clientes -> {"abierto", "servido"} \cup Idos]
  /\ pedido \in [Clientes -> Pedidos \cup {SinPedido}]
  /\ pedidos \in [Clientes -> Pedidos \cup {SinPedido}]
  /\ \A c \in Clientes : pedido[c] \in {SinPedido, pedidos[c]}
  /\ respuestas \in [Clientes -> Seq(Posibles)]
  /\ vivo \in BOOLEAN /\ compartido \in BOOLEAN /\ desatendidos \subseteq Clientes
  /\ \A t \in Hilos :
       /\ Anda(t) => hilos[t].fd \in Fds
       /\ Lee(t) => hilos[t].pedido \in Interpretados
       /\ hilos[t].pc \in {"memcached_get", "getArticle", "memcached_set"} =>
            hilos[t].pedido.tipo = "noticia"

\* The text n is the one of the article of the directory b that i, a request
\* as a thread reads it, names.
Hallada(b, i, n) ==
  /\ i \in Interpretados /\ i.tipo = "noticia"
  /\ i.id \in DOMAIN b /\ Coincide(b[i.id].grupo, i.grupo)
  /\ n = b[i.id].noticia

\* What is in the cache, and what is about to be.
Cache ==
  /\ \A k \in DOMAIN cache :
       /\ cache[k].noticia \in Textos /\ cache[k].limpia \in BOOLEAN
       /\ cache[k].limpia = TRUE =>
            \E i \in Interpretados : Hallada(bd, i, cache[k].noticia) /\ k = Clave(i.grupo, i.id)
  /\ \A t \in Hilos : hilos[t].pc = "memcached_set" =>
       \/ hilos[t].respuesta = NotFound
       \/ \E n \in Textos : /\ hilos[t].respuesta = Ok([noticia |-> n], TRUE)
                            /\ Hallada(bd, hilos[t].pedido, n)

Base == Directorio /\ Tipos /\ Cache

\* A connection is in one place: the backlog, main's hands, a thread's, or none.
Conexiones ==
  /\ \A i, j \in DOMAIN backlog : backlog[i] = backlog[j] => i = j
  /\ \A i \in DOMAIN backlog, f \in Fds : fds[f] # backlog[i]
  /\ \A f, g \in Fds : fds[f] # NoCliente /\ fds[f] = fds[g] => f = g
  /\ \A t \in Hilos : Anda(t) => fds[hilos[t].fd] # NoCliente
  /\ \A t, u \in Hilos : Anda(t) /\ Anda(u) /\ hilos[t].fd = hilos[u].fd => t = u
  /\ mainHttp = "thr_create" => \A t \in Hilos : hilos[t].pc # "copiar"
  /\ \A t, u \in Hilos : hilos[t].pc = "copiar" /\ hilos[u].pc = "copiar" => t = u
  /\ Pendiente => /\ fds[stParameters] # NoCliente
                  /\ \A t \in Hilos : Anda(t) => hilos[t].fd # stParameters

\* Contesta, with the directory b.
ContestaEn(b, r, p) ==
  LET c == r.contenido
  IN CASE p.tipo = "index" ->
            /\ DOMAIN c = {"grupos"}
            /\ \E d \in {[i \in S |-> b[i]] : S \in SUBSET DOMAIN b} :
                 EsListadoDeGrupos(c.grupos, d)
       [] p.tipo = "grupo" -> DOMAIN c = {"ids"} /\ c.ids \subseteq selectArticles(b, p.grupo)
       [] p.tipo = "noticia" ->
            /\ DOMAIN c = {"noticia"}
            /\ p \in Confusas \/
                 \E id \in DOMAIN b : /\ id = p.id /\ Coincide(b[id].grupo, p.grupo)
                                      /\ c.noticia = b[id].noticia
       [] OTHER -> FALSE

Bien(b, r, p) ==
  PedidosClaros /\ r.codigo = 200 /\ r.limpia = TRUE => ContestaEn(b, r, p)

\* The connection of c is new: nobody has read from it.
Nueva(c) == respuestas[c] = <<>> /\ pedido[c] = pedidos[c]

\* A thread at work for c, whose browser has not left.
Atiende(t, c) ==
  /\ pedidos[c] # SinPedido
  /\ Lee(t) => hilos[t].pedido = Interpretacion[pedidos[c]]
  /\ hilos[t].pc \in {"aviso200", "send"} =>
       Bien(bd, hilos[t].respuesta, pedidos[c])

Tramites ==
  /\ \A i \in DOMAIN backlog : Nueva(backlog[i])
  /\ Pendiente => Nueva(fds[stParameters])
  /\ \A t \in Hilos : Anda(t) =>
       LET c == fds[hilos[t].fd]
       IN /\ respuestas[c] = <<>>
          /\ IF hilos[t].pc = "recv" THEN pedido[c] = pedidos[c]
             ELSE estado[c] = "abierto" => Atiende(t, c)
  /\ \A c \in Clientes : respuestas[c] # <<>> =>
       /\ Len(respuestas[c]) = 1 /\ Bien(bd, respuestas[c][1], pedidos[c])
       /\ pedidos[c] # SinPedido

Ordenada == Conexiones /\ Tramites

Http == Base /\ (compartido = FALSE => Ordenada)

-----------------------------------------------------------------------------
(* The answers.                                                            *)

LEMMA ClaveEscrita ==
  ASSUME NEW g \in Grupos, NEW id \in Ids
  PROVE  Escrita[<<g, id>>] = Clave(g, id)
BY DEF Escrita, Clave

LEMMA Interpretar ==
  /\ \A p \in Pedidos : Interpretacion[p] = Interpretado(p) /\ Interpretacion[p] \in Interpretados
  /\ \A i \in Interpretados : \E p \in Pedidos : i = Interpretado(p)
BY DEF Interpretacion, Interpretados

\* What is right stays right while the directory grows.
LEMMA BienCrece ==
  ASSUME NEW b, NEW d, DOMAIN b \subseteq DOMAIN d, \A i \in DOMAIN b : d[i] = b[i],
         NEW r, NEW p, Bien(b, r, p)
  PROVE  Bien(d, r, p)
<1> DEFINE c == r.contenido
<1> SUFFICES ASSUME ContestaEn(b, r, p) PROVE ContestaEn(d, r, p)
  BY DEF Bien
<1>1. CASE p.tipo = "index"
  <2>1. PICK S \in SUBSET DOMAIN b : EsListadoDeGrupos(c.grupos, [i \in S |-> b[i]])
    BY <1>1 DEF ContestaEn
  <2>2. [i \in S |-> b[i]] = [i \in S |-> d[i]] /\ S \in SUBSET DOMAIN d
    OBVIOUS
  <2>3. DOMAIN c = {"grupos"}
    BY <1>1 DEF ContestaEn
  <2>4. QED
    BY <1>1, <2>1, <2>2, <2>3 DEF ContestaEn
<1>2. CASE p.tipo = "grupo"
  BY <1>2 DEF ContestaEn, selectArticles
<1>3. CASE p.tipo = "noticia"
  BY <1>3 DEF ContestaEn
<1>4. CASE p.tipo \notin {"index", "grupo", "noticia"}
  BY <1>4 DEF ContestaEn
<1>5. QED
  BY <1>1, <1>2, <1>3, <1>4

LEMMA HalladaCrece ==
  ASSUME NEW b, NEW d, DOMAIN b \subseteq DOMAIN d, \A i \in DOMAIN b : d[i] = b[i],
         NEW i, NEW n, Hallada(b, i, n)
  PROVE  Hallada(d, i, n)
BY DEF Hallada

\* What is not a 200, or is one that a crossing may have spoiled, is bound to
\* nothing.
LEMMA BienSinOk == \A b, p : Bien(b, NotFound, p) /\ \A x : Bien(b, Ok(x, FALSE), p)
BY DEF Bien, NotFound, Ok

LEMMA Entre ==
  /\ SinRespuesta \in Posibles /\ NotFound \in Posibles
  /\ \A n \in Textos : /\ Ok([noticia |-> n], TRUE) \in Posibles
                      /\ Ok([noticia |-> n], FALSE) \in Posibles
  /\ \A S \in (SUBSET DOMAIN Noticias) \ {{}} : Ok([ids |-> S], TRUE) \in Posibles
  /\ \A s \in Seq(Grupos) : Ok([grupos |-> s], TRUE) \in Posibles
<1>1. SinRespuesta \in Posibles /\ NotFound \in Posibles
  BY DEF Posibles
<1>2. \A n \in Textos : /\ Ok([noticia |-> n], TRUE) \in Posibles
                      /\ Ok([noticia |-> n], FALSE) \in Posibles
  BY DEF Posibles, DeNoticia
<1>3. \A S \in (SUBSET DOMAIN Noticias) \ {{}} : Ok([ids |-> S], TRUE) \in Posibles
  BY DEF Posibles, DeGrupo
<1>4. \A s \in Seq(Grupos) : Ok([grupos |-> s], TRUE) \in Posibles
  BY DEF Posibles, DeIndex
<1>5. QED
  BY <1>1, <1>2, <1>3, <1>4

LEMMA RespuestaIndex ==
  ASSUME Directorio, NEW s \in ListadosDeGrupos(bd)
  PROVE  /\ Ok([grupos |-> s], TRUE) \in Posibles
         /\ \A p \in Pedidos : Interpretado(p).tipo = "index" =>
              Bien(bd, Ok([grupos |-> s], TRUE), p)
<1>1. /\ IsFiniteSet(DOMAIN bd)
      /\ \A id \in DOMAIN bd : bd[id].grupo \in Grupos \ {Repetido}
  BY NoticiasAssumption, FS_Subset DEF Directorio
<1>2. GruposDe(bd) \subseteq Grupos \ {Repetido}
  BY <1>1 DEF GruposDe
<1>3. s \in Seq(GruposDe(bd)) /\ EsListadoDeGrupos(s, bd)
  BY <1>1, <1>2, ListadoCorrecto
<1>4. s \in Seq(Grupos)
  BY <1>2, <1>3
<1>5. ASSUME NEW p \in Pedidos, Interpretado(p).tipo = "index"
      PROVE  Bien(bd, Ok([grupos |-> s], TRUE), p)
  <2> SUFFICES ASSUME PedidosClaros PROVE Bien(bd, Ok([grupos |-> s], TRUE), p)
    BY DEF Bien
  <2>1. Interpretado(p) = p
    BY <1>5 DEF PedidosClaros, NadaNombra
  <2>2. p.tipo = "index"
    BY <1>5, <2>1
  <2>3. bd = [i \in DOMAIN bd |-> bd[i]]
    BY DEF Directorio
  <2>4. EsListadoDeGrupos(s, [i \in DOMAIN bd |-> bd[i]])
    BY <1>3, <2>3
  <2>5. Ok([grupos |-> s], TRUE).contenido = [grupos |-> s]
    BY DEF Ok
  <2>6. QED
    BY <2>2, <2>4, <2>5 DEF Bien, ContestaEn, Ok
<1>6. QED
  BY <1>4, <1>5, Entre

LEMMA RespuestaGrupo ==
  ASSUME Directorio, NEW i \in Interpretados, i.tipo = "grupo", NEW hay
  PROVE  /\ RespuestaListado(i.grupo, hay) \in Posibles
         /\ \A p \in Pedidos : Interpretado(p) = i =>
              Bien(bd, RespuestaListado(i.grupo, hay), p)
<1> DEFINE ids == selectArticles(bd, i.grupo)
<1>1. ids \in SUBSET DOMAIN Noticias
  BY DEF selectArticles, Directorio
<1>2. CASE hay /\ ids # {}
  <2>1. RespuestaListado(i.grupo, hay) = Ok([ids |-> ids], TRUE)
    BY <1>2 DEF RespuestaListado
  <2>2. \E id \in DOMAIN Noticias : Coincide(Noticias[id].grupo, i.grupo)
    BY <1>2 DEF selectArticles, Directorio
  <2>3. ASSUME NEW p \in Pedidos, Interpretado(p) = i
        PROVE  Bien(bd, Ok([ids |-> ids], TRUE), p)
    <3> SUFFICES ASSUME PedidosClaros PROVE Bien(bd, Ok([ids |-> ids], TRUE), p)
      BY DEF Bien
    <3>1. p = i
      BY <2>2, <2>3 DEF PedidosClaros, NadaNombra
    <3>2. p.tipo = "grupo" /\ ids = selectArticles(bd, p.grupo)
      BY <3>1
    <3> HIDE DEF ids
    <3>3. QED
      BY <3>2 DEF Bien, ContestaEn, Ok
  <2> HIDE DEF ids
  <2>4. QED
    BY <1>1, <1>2, <2>1, <2>3, Entre
<1>3. CASE ~ (hay /\ ids # {})
  <2>1. RespuestaListado(i.grupo, hay) = NotFound
    BY <1>3 DEF RespuestaListado
  <2>2. QED
    BY <2>1, BienSinOk, Entre
<1>4. QED
  BY <1>2, <1>3

LEMMA TextoHallado ==
  ASSUME Directorio, NEW i, NEW n, Hallada(bd, i, n)
  PROVE  n \in Textos /\ (PedidosClaros => \A p \in Pedidos : Interpretado(p) = i => p = i)
<1>1. /\ i.id \in DOMAIN Noticias /\ i.tipo = "noticia"
      /\ Coincide(Noticias[i.id].grupo, i.grupo) /\ n = Noticias[i.id].noticia
  BY DEF Hallada, Directorio
<1>2. n \in Textos
  BY <1>1 DEF Textos
<1>3. QED
  BY <1>1, <1>2 DEF PedidosClaros, NadaNombra

\* An article that the directory gave, or one that the cache had under the key
\* of the request.
LEMMA RespuestaNoticia ==
  ASSUME Directorio, NEW i, NEW n, Hallada(bd, i, n),
         NEW p \in Pedidos, Interpretado(p).tipo = "noticia",
         Clave(i.grupo, i.id) = Clave(Interpretado(p).grupo, Interpretado(p).id)
  PROVE  Bien(bd, Ok([noticia |-> n], TRUE), p)
<1> SUFFICES ASSUME PedidosClaros PROVE Bien(bd, Ok([noticia |-> n], TRUE), p)
  BY DEF Bien
<1> DEFINE j == Interpretado(p)
<1>1. PICK q \in Pedidos : i = Interpretado(q)
  BY Interpretar DEF Hallada
<1>2. i = q /\ q.tipo = "noticia"
  BY <1>1, TextoHallado DEF Hallada
<1>3. q.grupo \in Grupos /\ q.id \in Ids
  BY <1>2, PedidosAssumption DEF Ids
<1>4. Escrita[<<q.grupo, q.id>>] = Clave(j.grupo, j.id)
  BY <1>2, <1>3, ClaveEscrita
<1>5. ~ NadaNombra(j)
  BY <1>2, <1>4 DEF NadaNombra
<1>6. j = p
  BY <1>5 DEF PedidosClaros
<1>7. p.tipo = "noticia" /\ p.grupo \in Grupos /\ p.id \in Ids
  BY <1>6, PedidosAssumption DEF Ids
<1>8. Escrita[<<q.grupo, q.id>>] = Escrita[<<p.grupo, p.id>>]
  BY <1>4, <1>6, <1>7, ClaveEscrita
<1>9. p \in Confusas \/ p = q
  BY <1>2, <1>7, <1>8 DEF Confusas
<1>10. p = q => \E id \in DOMAIN bd : /\ id = p.id /\ Coincide(bd[id].grupo, p.grupo)
                                     /\ n = bd[id].noticia
  BY <1>2 DEF Hallada
<1> HIDE DEF j
<1>11. ContestaEn(bd, Ok([noticia |-> n], TRUE), p)
  BY <1>7, <1>9, <1>10 DEF ContestaEn, Ok
<1>12. QED
  BY <1>11 DEF Bien

-----------------------------------------------------------------------------
(* One thread at work.                                                     *)

\* The threads but t go on where they were.
Ajenos(t) ==
  \A u \in Hilos \ {t} : /\ hilos'[u].pc = hilos[u].pc /\ hilos'[u].fd = hilos[u].fd
                         /\ hilos'[u].pedido = hilos[u].pedido
                         /\ hilos'[u].respuesta = hilos[u].respuesta

\* t takes the record r.
LEMMA CambioDeHilo ==
  ASSUME NEW t \in Hilos, NEW r \in Registro, hilos \in [Hilos -> Registro],
         hilos' = [hilos EXCEPT ![t] = r]
  PROVE  /\ hilos' \in [Hilos -> Registro]
         /\ hilos'[t] = r /\ Ajenos(t)
BY DEF Ajenos

LEMMA RegistroCampos ==
  ASSUME NEW r \in Registro
  PROVE  /\ r.pc \in Lugares /\ r.fd \in Fds \cup {NoFd}
         /\ r.pedido \in Interpretados \cup {SinPedido}
         /\ r.respuesta \in Posibles
         /\ r.cruzado \in BOOLEAN
         /\ \A pc \in Lugares : /\ [r EXCEPT !.pc = pc] \in Registro
                                /\ [r EXCEPT !.pc = pc].pc = pc
                                /\ [r EXCEPT !.pc = pc].fd = r.fd
                                /\ [r EXCEPT !.pc = pc].pedido = r.pedido
                                /\ [r EXCEPT !.pc = pc].respuesta = r.respuesta
BY DEF Registro

\* The end of a thread's search: it has its answer.
LEMMA HiloConRespuesta ==
  ASSUME NEW t \in Hilos, hilos \in [Hilos -> Registro], NEW r \in Posibles,
         hilos' = ConRespuesta(t, r)
  PROVE  /\ hilos' \in [Hilos -> Registro] /\ Ajenos(t)
         /\ hilos'[t].pc \in {"aviso200", "send"} /\ hilos'[t].fd = hilos[t].fd
         /\ hilos'[t].respuesta = r
<1> DEFINE pc == IF r.codigo = 200 THEN "aviso200" ELSE "send"
           x == [hilos[t] EXCEPT !.respuesta = r, !.cruzado = FALSE,
                                 !.pedido = SinPedido, !.pc = pc]
<1>1. pc \in {"aviso200", "send"}
  OBVIOUS
<1> HIDE DEF pc
<1>2. hilos' = [hilos EXCEPT ![t] = x]
  BY DEF ConRespuesta, pc
<1>3. hilos[t] \in Registro
  OBVIOUS
<1>4. x \in Registro
  BY <1>1, <1>3 DEF Registro, Lugares
<1>5. x.pc = pc /\ x.fd = hilos[t].fd /\ x.respuesta = r
  BY <1>3 DEF Registro
<1> HIDE DEF x
<1>6. QED
  BY <1>1, <1>2, <1>4, <1>5, CambioDeHilo

\* The start of an operation on the cache.
LEMMA HiloEmpieza ==
  ASSUME NEW t \in Hilos, hilos \in [Hilos -> Registro],
         NEW pc \in {"memcached_get", "memcached_set"}, NEW h, h = Empezar(t, pc)
  PROVE  /\ h \in [Hilos -> Registro]
         /\ \A u \in Hilos \ {t} : /\ h[u].pc = hilos[u].pc /\ h[u].fd = hilos[u].fd
                                   /\ h[u].pedido = hilos[u].pedido
                                   /\ h[u].respuesta = hilos[u].respuesta
         /\ h[t].pc = pc /\ h[t].fd = hilos[t].fd
         /\ h[t].pedido = hilos[t].pedido /\ h[t].respuesta = hilos[t].respuesta
<1> DEFINE cruzado == EnMemcached # {}
<1>1. cruzado \in BOOLEAN
  OBVIOUS
<1> HIDE DEF cruzado
<1>2. h = [u \in Hilos |->
             IF u = t THEN [hilos[t] EXCEPT !.pc = pc, !.cruzado = cruzado]
             ELSE IF u \in EnMemcached THEN [hilos[u] EXCEPT !.cruzado = TRUE]
             ELSE hilos[u]]
  BY DEF Empezar, cruzado
<1>3. /\ [hilos[t] EXCEPT !.pc = pc, !.cruzado = cruzado] \in Registro
      /\ h[t] = [hilos[t] EXCEPT !.pc = pc, !.cruzado = cruzado]
  <2>1. hilos[t] \in Registro /\ pc \in Lugares
    BY DEF Lugares
  <2>2. QED
    BY <1>1, <1>2, <2>1 DEF Registro
<1>4. /\ h[t].pc = pc /\ h[t].fd = hilos[t].fd
      /\ h[t].pedido = hilos[t].pedido /\ h[t].respuesta = hilos[t].respuesta
  <2>1. hilos[t] \in Registro
    OBVIOUS
  <2>2. QED
    BY <1>3, <2>1 DEF Registro
<1>5. ASSUME NEW u \in Hilos \ {t}
      PROVE  /\ h[u] \in Registro /\ h[u].pc = hilos[u].pc /\ h[u].fd = hilos[u].fd
             /\ h[u].pedido = hilos[u].pedido /\ h[u].respuesta = hilos[u].respuesta
  <2>1. hilos[u] \in Registro
    OBVIOUS
  <2>2. h[u] = hilos[u] \/ h[u] = [hilos[u] EXCEPT !.cruzado = TRUE]
    BY <1>2
  <2>3. QED
    BY <2>1, <2>2 DEF Registro
<1>6. h \in [Hilos -> Registro]
  <2>1. DOMAIN h = Hilos /\ h = [u \in Hilos |-> h[u]]
    BY <1>2
  <2>2. \A u \in Hilos : h[u] \in Registro
    BY <1>3, <1>5
  <2>3. QED
    BY <2>1, <2>2
<1>7. QED
  BY <1>4, <1>5, <1>6

\* What a thread's own record must be.
DeTipo(t) == /\ Anda(t) => hilos[t].fd \in Fds
             /\ Lee(t) => hilos[t].pedido \in Interpretados
             /\ hilos[t].pc \in {"memcached_get", "getArticle", "memcached_set"} =>
                  hilos[t].pedido.tipo = "noticia"
Guarda(t) == hilos[t].pc = "memcached_set" =>
               \/ hilos[t].respuesta = NotFound
               \/ \E n \in Textos : /\ hilos[t].respuesta = Ok([noticia |-> n], TRUE)
                                    /\ Hallada(bd, hilos[t].pedido, n)
EnCache ==
  \A k \in DOMAIN cache :
    /\ cache[k].noticia \in Textos /\ cache[k].limpia \in BOOLEAN
    /\ cache[k].limpia = TRUE =>
         \E i \in Interpretados : Hallada(bd, i, cache[k].noticia) /\ k = Clave(i.grupo, i.id)

\* Every thread but t keeps its part of the invariant.
LEMMA AjenosBase ==
  ASSUME NEW t \in Hilos, Tipos, Cache, Ajenos(t), UNCHANGED bd
  PROVE  /\ \A u \in Hilos \ {t} : DeTipo(u)' /\ Guarda(u)'
         /\ mainHttp' = mainHttp /\ hilos'[t].pc # "copiar" => (Pendiente' => Pendiente)
<1>1. ASSUME NEW u \in Hilos \ {t} PROVE DeTipo(u)' /\ Guarda(u)'
  <2>1. DeTipo(u) /\ Guarda(u)
    BY DEF Tipos, DeTipo, Cache, Guarda
  <2>2. /\ hilos'[u].pc = hilos[u].pc /\ hilos'[u].fd = hilos[u].fd
        /\ hilos'[u].pedido = hilos[u].pedido
        /\ hilos'[u].respuesta = hilos[u].respuesta
    BY DEF Ajenos
  <2>3. DeTipo(u)'
    BY <2>1, <2>2 DEF DeTipo, Anda, Lee
  <2>4. Guarda(u)'
    BY <2>1, <2>2 DEF Guarda
  <2>5. QED
    BY <2>3, <2>4
<1>2. ASSUME mainHttp' = mainHttp, hilos'[t].pc # "copiar", Pendiente' PROVE Pendiente
  BY <1>2 DEF Pendiente, Ajenos
<1>3. QED
  BY <1>1, <1>2

LEMMA TrabajoBase ==
  ASSUME Base, NEW t \in Hilos,
         hilos' \in [Hilos -> Registro], Ajenos(t),
         UNCHANGED <<mainVars, fds, backlog, pedidos, respuestas, vivo, openDS, hist>>,
         hilos'[t].pc # "copiar", DeTipo(t)', Guarda(t)', EnCache',
         estado' \in [Clientes -> {"abierto", "servido"} \cup Idos],
         pedido' \in [Clientes -> Pedidos \cup {SinPedido}],
         \A c \in Clientes : pedido'[c] \in {SinPedido, pedidos[c]}
  PROVE  Base'
<1>1. bd' = bd /\ Directorio'
  BY DEF Base, Directorio, openDS
<1>2. /\ \A u \in Hilos \ {t} : DeTipo(u)' /\ Guarda(u)'
      /\ Pendiente' => Pendiente
  BY <1>1, AjenosBase DEF Base, mainVars
<1>3. \A u \in Hilos : DeTipo(u)' /\ Guarda(u)'
  BY <1>2
<1>4. Tipos'
  BY <1>2, <1>3 DEF Base, Tipos, DeTipo, mainVars, hist
<1>5. Cache'
  BY <1>3 DEF Cache, Guarda, EnCache
<1>6. QED
  BY <1>1, <1>4, <1>5 DEF Base

\* The connection of a thread that works stays its own, and nobody else's
\* request or answer is touched.
EnTramite(t) ==
  Anda(t) => LET c == fds[hilos[t].fd]
             IN /\ respuestas[c] = <<>>
                /\ IF hilos[t].pc = "recv" THEN pedido[c] = pedidos[c]
                   ELSE estado[c] = "abierto" => Atiende(t, c)
Contestada(c) == respuestas[c] # <<>> =>
                   /\ Len(respuestas[c]) = 1 /\ Bien(bd, respuestas[c][1], pedidos[c])
                   /\ pedidos[c] # SinPedido

LEMMA TrabajoConexiones ==
  ASSUME Base, Conexiones, NEW t \in Hilos, Anda(t),
         hilos'[t].pc \notin {"libre", "copiar"}, hilos'[t].fd = hilos[t].fd,
         Ajenos(t), UNCHANGED <<mainVars, fds, backlog>>
  PROVE  Conexiones'
<1>1. \A u \in Hilos : /\ hilos'[u].fd = hilos[u].fd /\ (Anda(u)' <=> Anda(u))
                       /\ hilos'[u].pc = "copiar" <=> hilos[u].pc = "copiar"
  BY DEF Ajenos, Anda
<1>2. Pendiente' <=> Pendiente
  BY <1>1 DEF Pendiente, mainVars
<1>3. QED
  BY <1>1, <1>2 DEF Conexiones, mainVars

LEMMA TrabajoTramites ==
  ASSUME Base, Conexiones, Tramites, NEW t \in Hilos, Anda(t),
         hilos'[t].pc \notin {"libre", "copiar", "recv"}, hilos'[t].fd = hilos[t].fd,
         Ajenos(t), UNCHANGED <<mainVars, fds, backlog, pedidos, respuestas, bd>>,
         \A c \in Clientes : estado'[c] = "abierto" => estado[c] = "abierto",
         \A c \in Clientes : c # fds[hilos[t].fd] => pedido'[c] = pedido[c],
         estado'[fds[hilos[t].fd]] = "abierto" => Atiende(t, fds[hilos[t].fd])'
  PROVE  Tramites'
<1> DEFINE c == fds[hilos[t].fd]
<1>0. /\ fds \in [Fds -> Clientes \cup {NoCliente}]
      /\ backlog \in Seq(Clientes)
      /\ \A u \in Hilos : Anda(u) => hilos[u].fd \in Fds
      /\ Pendiente => stParameters \in Fds
  BY DEF Base, Tipos
<1>1. c \in Clientes /\ hilos[t].fd \in Fds
  BY <1>0 DEF Conexiones
<1>2. \A u \in Hilos : /\ hilos'[u].fd = hilos[u].fd /\ (Anda(u)' <=> Anda(u))
                       /\ hilos'[u].pc = "copiar" <=> hilos[u].pc = "copiar"
  BY DEF Ajenos, Anda
<1>3. Pendiente' <=> Pendiente
  BY <1>2 DEF Pendiente, mainVars
<1>4. \A i \in DOMAIN backlog' : Nueva(backlog[i])'
  <2>1. ASSUME NEW i \in DOMAIN backlog PROVE Nueva(backlog[i])'
    <3>1. backlog[i] # c /\ backlog[i] \in Clientes /\ Nueva(backlog[i])
      BY <1>0, <1>1 DEF Conexiones, Tramites
    <3>2. pedido'[backlog[i]] = pedido[backlog[i]]
      BY <3>1
    <3>3. QED
      BY <3>1, <3>2 DEF Nueva
  <2>2. QED
    BY <2>1
<1>5. Pendiente' => Nueva(fds[stParameters])'
  <2>1. ASSUME Pendiente PROVE Nueva(fds[stParameters])'
    <3>1. /\ fds[stParameters] # c /\ fds[stParameters] \in Clientes
          /\ Nueva(fds[stParameters])
      BY <1>0, <1>1, <2>1 DEF Conexiones, Tramites
    <3>2. pedido'[fds[stParameters]] = pedido[fds[stParameters]]
      BY <3>1
    <3>3. QED
      BY <3>1, <3>2 DEF Nueva, mainVars
  <2>2. QED
    BY <1>3, <2>1
<1>6. ASSUME NEW u \in Hilos PROVE EnTramite(u)'
  <2>1. EnTramite(u)
    BY DEF Tramites, EnTramite
  <2>2. CASE u = t
    BY <1>2, <2>1, <2>2 DEF EnTramite
  <2>3. CASE u # t /\ Anda(u)
    <3> DEFINE d == fds[hilos[u].fd]
    <3>1. d # c /\ d \in Clientes
      BY <1>0, <1>1, <2>3 DEF Conexiones
    <3>2. /\ pedido'[d] = pedido[d] /\ (estado'[d] = "abierto" => estado[d] = "abierto")
      BY <3>1
    <3>3. /\ hilos'[u].pc = hilos[u].pc /\ hilos'[u].fd = hilos[u].fd
          /\ hilos'[u].pedido = hilos[u].pedido
          /\ hilos'[u].respuesta = hilos[u].respuesta
      BY <2>3 DEF Ajenos
    <3>4. Atiende(u, d) => Atiende(u, d)'
      BY <3>3 DEF Atiende, Lee
    <3>5. QED
      BY <2>1, <3>2, <3>3, <3>4 DEF EnTramite, Anda
  <2>4. CASE ~ Anda(u)
    BY <1>2, <2>4 DEF EnTramite
  <2>5. QED
    BY <2>2, <2>3, <2>4
<1>7. \A d \in Clientes : Contestada(d)'
  BY DEF Tramites, Contestada
<1>8. QED
  BY <1>4, <1>5, <1>6, <1>7 DEF Tramites, EnTramite, Contestada

\* A thread that goes on with the same request, or one that nobody waits for.
LEMMA TrabajoSigue ==
  ASSUME Base, NEW t \in Hilos, Anda(t),
         hilos' \in [Hilos -> Registro], Ajenos(t), hilos'[t].fd = hilos[t].fd,
         hilos'[t].pc \in {"procesar", "memcached_get", "getArticle", "memcached_set"},
         hilos'[t].pedido = hilos[t].pedido, Lee(t), Guarda(t)',
         hilos'[t].pc # "procesar" => hilos[t].pedido.tipo = "noticia",
         UNCHANGED <<mainVars, fds, navegadores, estado, pedido, respuestas, cache,
                     vivo, openDS, hist>>
  PROVE  Base' /\ (Ordenada => Ordenada')
<1>1. DeTipo(t)
  BY DEF Base, Tipos, DeTipo
<1>2. DeTipo(t)' /\ hilos'[t].pc \notin {"libre", "copiar", "recv"}
  BY <1>1 DEF DeTipo, Anda, Lee
<1>3. EnCache'
  BY DEF Base, Cache, EnCache, openDS
<1>4. /\ estado' \in [Clientes -> {"abierto", "servido"} \cup Idos]
      /\ pedido' \in [Clientes -> Pedidos \cup {SinPedido}]
      /\ \A c \in Clientes : pedido'[c] \in {SinPedido, pedidos[c]}
  BY DEF Base, Tipos
<1>5. Base'
  BY <1>2, <1>3, <1>4, TrabajoBase DEF navegadores
<1>6. ASSUME Ordenada PROVE Ordenada'
  <2>1. Conexiones'
    BY <1>2, <1>6, TrabajoConexiones DEF Ordenada, navegadores
  <2>2. estado'[fds[hilos[t].fd]] = "abierto" => Atiende(t, fds[hilos[t].fd])'
    <3>1. ASSUME estado[fds[hilos[t].fd]] = "abierto"
          PROVE  Atiende(t, fds[hilos[t].fd])
      BY <1>6, <3>1 DEF Ordenada, Tramites, Lee
    <3>2. QED
      BY <1>2, <3>1 DEF Atiende, Lee, navegadores
  <2>3. Tramites'
    BY <1>2, <1>6, <2>2, TrabajoTramites DEF Ordenada, navegadores, openDS
  <2>4. QED
    BY <2>1, <2>3 DEF Ordenada
<1>7. QED
  BY <1>5, <1>6

\* A thread that has its answer.
LEMMA TrabajoResponde ==
  ASSUME Base, NEW t \in Hilos, Lee(t), NEW r \in Posibles, hilos' = ConRespuesta(t, r),
         UNCHANGED <<mainVars, fds, navegadores, estado, pedido, respuestas, vivo,
                     openDS, hist>>,
         EnCache',
         \A p \in Pedidos : Interpretado(p) = hilos[t].pedido => Bien(bd, r, p)
  PROVE  Base' /\ (Ordenada => Ordenada')
<1>0. hilos \in [Hilos -> Registro] /\ Anda(t) /\ hilos[t].fd \in Fds
  BY DEF Base, Tipos, Lee, Anda
<1>1. /\ hilos' \in [Hilos -> Registro] /\ Ajenos(t)
      /\ hilos'[t].pc \in {"aviso200", "send"} /\ hilos'[t].fd = hilos[t].fd
      /\ hilos'[t].respuesta = r
  BY <1>0, HiloConRespuesta
<1>2. DeTipo(t)' /\ Guarda(t)' /\ hilos'[t].pc \notin {"libre", "copiar", "recv"}
  BY <1>0, <1>1 DEF DeTipo, Guarda, Anda, Lee
<1>3. /\ estado' \in [Clientes -> {"abierto", "servido"} \cup Idos]
      /\ pedido' \in [Clientes -> Pedidos \cup {SinPedido}]
      /\ \A c \in Clientes : pedido'[c] \in {SinPedido, pedidos[c]}
      /\ pedidos \in [Clientes -> Pedidos \cup {SinPedido}]
  BY DEF Base, Tipos
<1>4. Base'
  BY <1>1, <1>2, <1>3, TrabajoBase DEF navegadores
<1>5. ASSUME Ordenada PROVE Ordenada'
  <2>1. Conexiones'
    BY <1>0, <1>1, <1>2, <1>5, TrabajoConexiones DEF Ordenada, navegadores
  <2>2. ASSUME estado[fds[hilos[t].fd]] = "abierto"
        PROVE  Atiende(t, fds[hilos[t].fd])'
    <3> DEFINE c == fds[hilos[t].fd]
    <3>1. c \in Clientes
      BY <1>0, <1>5 DEF Ordenada, Conexiones, Base, Tipos
    <3>2. pedidos[c] # SinPedido /\ hilos[t].pedido = Interpretacion[pedidos[c]]
      BY <1>0, <1>5, <2>2 DEF Ordenada, Tramites, Lee, Atiende
    <3>3. pedidos[c] \in Pedidos
      BY <1>3, <3>1, <3>2
    <3>4. Bien(bd, r, pedidos[c])
      BY <1>5, <3>2, <3>3, Interpretar
    <3>5. fds'[hilos'[t].fd] = c /\ pedidos' = pedidos /\ bd' = bd
      BY <1>1 DEF navegadores, openDS
    <3>6. QED
      BY <1>1, <3>2, <3>4, <3>5 DEF Atiende, Lee
  <2>3. Tramites'
    BY <1>0, <1>1, <1>2, <1>5, <2>2, TrabajoTramites DEF Ordenada, navegadores, openDS
  <2>4. QED
    BY <2>1, <2>3 DEF Ordenada
<1>6. QED
  BY <1>4, <1>5

-----------------------------------------------------------------------------
(* The steps of a thread.                                                  *)

LEMMA PasoRecv ==
  ASSUME Base, NEW t \in Hilos, Recv(t)
  PROVE  Base' /\ (Ordenada => Ordenada')
<1> DEFINE c == fds[hilos[t].fd]
           x == [hilos[t] EXCEPT !.pc = "procesar", !.pedido = Interpretacion[pedido[c]]]
<1>0. /\ hilos \in [Hilos -> Registro] /\ Anda(t) /\ hilos[t].fd \in Fds
      /\ hilos[t].pc = "recv" /\ hilos[t] \in Registro
  BY DEF Recv, Base, Tipos, Anda
<1>1. /\ c \in Clientes /\ pedido[c] \in Pedidos /\ pedido[c] = pedidos[c]
  BY <1>0 DEF Recv, Base, Tipos
<1>2. Interpretacion[pedido[c]] \in Interpretados
  BY <1>1, Interpretar
<1> HIDE DEF c
<1>3. hilos' = [hilos EXCEPT ![t] = x]
  BY <1>0 DEF Recv, c
<1>4. x \in Registro
  BY <1>0, <1>2 DEF Registro, Lugares
<1>5. x.pc = "procesar" /\ x.fd = hilos[t].fd /\ x.pedido = Interpretacion[pedido[c]]
  BY <1>0 DEF Registro
<1> HIDE DEF x
<1>6. /\ hilos' \in [Hilos -> Registro] /\ Ajenos(t)
      /\ hilos'[t] = x
  BY <1>0, <1>3, <1>4, CambioDeHilo
<1>7. DeTipo(t)' /\ Guarda(t)' /\ hilos'[t].pc \notin {"libre", "copiar", "recv"}
  BY <1>0, <1>2, <1>5, <1>6 DEF DeTipo, Guarda, Anda, Lee
<1>8. /\ pedido' = [pedido EXCEPT ![c] = SinPedido]
      /\ UNCHANGED <<mainVars, fds, navegadores, estado, respuestas, cache, vivo,
                     openDS, hist>>
  BY DEF Recv, c
<1>9. /\ EnCache'
      /\ estado' \in [Clientes -> {"abierto", "servido"} \cup Idos]
      /\ pedido' \in [Clientes -> Pedidos \cup {SinPedido}]
      /\ \A d \in Clientes : pedido'[d] \in {SinPedido, pedidos[d]}
  BY <1>8 DEF Base, Cache, EnCache, openDS, Tipos
<1>10. Base'
  BY <1>6, <1>7, <1>8, <1>9, TrabajoBase DEF navegadores
<1>11. ASSUME Ordenada PROVE Ordenada'
  <2>1. Conexiones'
    BY <1>0, <1>5, <1>6, <1>7, <1>8, <1>11, TrabajoConexiones DEF Ordenada, navegadores
  <2>2. Atiende(t, fds[hilos[t].fd])'
    <3>1. fds'[hilos'[t].fd] = c /\ pedidos' = pedidos
      BY <1>5, <1>6, <1>8 DEF navegadores, c
    <3>2. pedidos[c] # SinPedido /\ hilos'[t].pedido = Interpretacion[pedidos[c]]
      BY <1>1, <1>5, <1>6, NombresAssumption
    <3>3. QED
      BY <1>5, <1>6, <3>1, <3>2 DEF Atiende, Lee
  <2>3. \A d \in Clientes : d # fds[hilos[t].fd] => pedido'[d] = pedido[d]
    BY <1>8 DEF c
  <2>4. Tramites'
    BY <1>0, <1>5, <1>6, <1>7, <1>8, <1>11, <2>2, <2>3, TrabajoTramites
       DEF Ordenada, navegadores, openDS
  <2>5. QED
    BY <2>1, <2>4 DEF Ordenada
<1>12. QED
  BY <1>10, <1>11

\* What was on the stack goes for a request, but nobody is there to be answered.
LEMMA PasoRecvNada ==
  ASSUME Base, NEW t \in Hilos, RecvNada(t), ~ Morir
  PROVE  Base' /\ (Ordenada => Ordenada')
<1> DEFINE c == fds[hilos[t].fd]
<1>0. /\ hilos \in [Hilos -> Registro] /\ Anda(t) /\ hilos[t].fd \in Fds
      /\ hilos[t].pc = "recv" /\ hilos[t] \in Registro
      /\ c \in Clientes \cup {NoCliente}
      /\ c = NoCliente \/ estado[c] \in Idos
  BY DEF RecvNada, Base, Tipos, Anda
<1>1. PICK p \in PedidosLeidos :
        hilos' = [hilos EXCEPT ![t].pc = "procesar", ![t].pedido = Interpretacion[p]]
  BY DEF RecvNada
<1> DEFINE x == [hilos[t] EXCEPT !.pc = "procesar", !.pedido = Interpretacion[p]]
<1>2. p \in Pedidos
  BY DEF PedidosLeidos, Base, Tipos
<1>3. Interpretacion[p] \in Interpretados
  BY <1>2, Interpretar
<1>4. hilos' = [hilos EXCEPT ![t] = x]
  BY <1>0, <1>1
<1>5. x \in Registro /\ x.pc = "procesar" /\ x.fd = hilos[t].fd
      /\ x.pedido = Interpretacion[p]
  BY <1>0, <1>3 DEF Registro, Lugares
<1> HIDE DEF x
<1>6. /\ hilos' \in [Hilos -> Registro] /\ Ajenos(t) /\ hilos'[t] = x
  BY <1>0, <1>4, <1>5, CambioDeHilo
<1>7. DeTipo(t)' /\ Guarda(t)' /\ hilos'[t].pc \notin {"libre", "copiar", "recv"}
  BY <1>0, <1>3, <1>5, <1>6 DEF DeTipo, Guarda, Anda, Lee
<1>8. UNCHANGED <<mainVars, fds, navegadores, estado, pedido, respuestas, cache, vivo,
                  openDS, hist>>
  BY DEF RecvNada
<1>9. /\ EnCache'
      /\ estado' \in [Clientes -> {"abierto", "servido"} \cup Idos]
      /\ pedido' \in [Clientes -> Pedidos \cup {SinPedido}]
      /\ \A d \in Clientes : pedido'[d] \in {SinPedido, pedidos[d]}
  BY <1>8 DEF Base, Cache, EnCache, openDS, Tipos
<1>10. Base'
  BY <1>6, <1>7, <1>8, <1>9, TrabajoBase DEF navegadores
<1>11. ASSUME Ordenada PROVE Ordenada'
  <2>1. Conexiones'
    BY <1>0, <1>5, <1>6, <1>7, <1>8, <1>11, TrabajoConexiones DEF Ordenada, navegadores
  <2>2. estado'[c] # "abierto"
    BY <1>0, <1>8, <1>11 DEF Ordenada, Conexiones, Idos
  <2>3. Tramites'
    BY <1>0, <1>5, <1>6, <1>7, <1>8, <1>11, <2>2, TrabajoTramites
       DEF Ordenada, navegadores, openDS
  <2>4. QED
    BY <2>1, <2>3 DEF Ordenada
<1>12. QED
  BY <1>10, <1>11

LEMMA PasoListados ==
  ASSUME Base, NEW t \in Hilos, ListadoGruposDeNoticias(t) \/ ListadoDeNoticias(t)
  PROVE  Base' /\ (Ordenada => Ordenada')
<1>1. Lee(t) /\ hilos[t].pedido \in Interpretados
  BY DEF ListadoGruposDeNoticias, ListadoDeNoticias, Pide, Lee, Base, Tipos
<1>2. /\ UNCHANGED <<mainVars, fds, navegadores, estado, pedido, respuestas, vivo,
                     openDS, hist>>
      /\ cache' = cache
  BY DEF ListadoGruposDeNoticias, ListadoDeNoticias
<1>3. EnCache' /\ Directorio
  BY <1>2 DEF Base, Cache, EnCache, openDS
<1>4. CASE ListadoGruposDeNoticias(t)
  <2>1. CASE hilos' = ConRespuesta(t, NotFound)
    BY <1>1, <1>2, <1>3, <2>1, Entre, BienSinOk, TrabajoResponde
  <2>2. ASSUME NEW s \in ListadosDeGrupos(bd),
               hilos' = ConRespuesta(t, Ok([grupos |-> s], TRUE))
        PROVE  Base' /\ (Ordenada => Ordenada')
    <3> DEFINE r == Ok([grupos |-> s], TRUE)
    <3>1. r \in Posibles
          /\ (\A p \in Pedidos : Interpretado(p).tipo = "index" => Bien(bd, r, p))
      BY <1>3, RespuestaIndex
    <3>2. hilos[t].pedido.tipo = "index" /\ hilos' = ConRespuesta(t, r)
      BY <1>4, <2>2 DEF ListadoGruposDeNoticias, Pide
    <3> HIDE DEF r
    <3>3. QED
      BY <1>1, <1>2, <1>3, <3>1, <3>2, TrabajoResponde
  <2>3. QED
    BY <1>4, <2>1, <2>2 DEF ListadoGruposDeNoticias
<1>5. CASE ListadoDeNoticias(t)
  <2>1. PICK hay \in HayResultSet(openDSArriba, sesionPerdida,
                                 CriterioValido(hilos[t].pedido.grupo)) :
          hilos' = ConRespuesta(t, RespuestaListado(hilos[t].pedido.grupo, hay))
    BY <1>5 DEF ListadoDeNoticias
  <2> DEFINE r == RespuestaListado(hilos[t].pedido.grupo, hay)
  <2>2. hilos[t].pedido.tipo = "grupo"
    BY <1>5 DEF ListadoDeNoticias, Pide
  <2>3. r \in Posibles
        /\ (\A p \in Pedidos : Interpretado(p) = hilos[t].pedido => Bien(bd, r, p))
    BY <1>1, <1>3, <2>2, RespuestaGrupo
  <2>4. hilos' = ConRespuesta(t, r)
    BY <2>1
  <2> HIDE DEF r
  <2>5. QED
    BY <1>1, <1>2, <1>3, <2>3, <2>4, TrabajoResponde
<1>6. QED
  BY <1>4, <1>5

LEMMA PasoBuscarEnCache ==
  ASSUME Base, NEW t \in Hilos, BuscarNoticiaEnCache(t)
  PROVE  Base' /\ (Ordenada => Ordenada')
<1>1. /\ hilos \in [Hilos -> Registro] /\ Lee(t) /\ Anda(t)
      /\ hilos[t].pedido.tipo = "noticia" /\ hilos' = Empezar(t, "memcached_get")
      /\ UNCHANGED <<mainVars, fds, navegadores, estado, pedido, respuestas, cache,
                     vivo, openDS, hist>>
  BY DEF BuscarNoticiaEnCache, Pide, Lee, Anda, Base, Tipos
<1>2. /\ hilos' \in [Hilos -> Registro] /\ Ajenos(t)
      /\ hilos'[t].pc = "memcached_get" /\ hilos'[t].fd = hilos[t].fd
      /\ hilos'[t].pedido = hilos[t].pedido
  BY <1>1, HiloEmpieza DEF Ajenos
<1>3. Guarda(t)'
  BY <1>2 DEF Guarda
<1>4. QED
  BY <1>1, <1>2, <1>3, TrabajoSigue

\* A hit: the article is the one of the request, unless a crossing spoiled it.
LEMMA PasoAcierto ==
  ASSUME Base, NEW t \in Hilos, hilos[t].pc = "memcached_get",
         NEW k \in DOMAIN cache, NEW limpia \in BOOLEAN, Acierto(t, k, limpia),
         limpia = TRUE => k = Clave(hilos[t].pedido.grupo, hilos[t].pedido.id),
         UNCHANGED <<mainVars, fds, navegadores, estado, pedido, respuestas, cache,
                     vivo, openDS, hist>>
  PROVE  Base' /\ (Ordenada => Ordenada')
<1> DEFINE n == cache[k].noticia
<1>1. /\ Lee(t) /\ hilos[t].pedido \in Interpretados /\ hilos[t].pedido.tipo = "noticia"
      /\ EnCache' /\ Directorio /\ n \in Textos /\ cache[k].limpia \in BOOLEAN
  BY DEF Lee, Base, Tipos, Cache, EnCache, openDS
<1>2. CASE hilos' = ConRespuesta(t, NotFound)
  BY <1>1, <1>2, Entre, BienSinOk, TrabajoResponde
<1>3. CASE hilos' = ConRespuesta(t, Ok([noticia |-> n], FALSE))
  <2>1. Ok([noticia |-> n], FALSE) \in Posibles
        /\ \A p : Bien(bd, Ok([noticia |-> n], FALSE), p)
    BY <1>1, Entre, BienSinOk
  <2>2. QED
    BY <1>1, <1>3, <2>1, TrabajoResponde
<1>4. CASE /\ limpia = TRUE /\ cache[k].limpia = TRUE
           /\ hilos' = ConRespuesta(t, Ok([noticia |-> n], TRUE))
  <2> DEFINE r == Ok([noticia |-> n], TRUE)
  <2>1. PICK i \in Interpretados : Hallada(bd, i, n) /\ k = Clave(i.grupo, i.id)
    BY <1>4 DEF Base, Cache
  <2>2. ASSUME NEW p \in Pedidos, Interpretado(p) = hilos[t].pedido
        PROVE  Bien(bd, r, p)
    BY <1>1, <1>4, <2>1, <2>2, RespuestaNoticia
  <2>3. r \in Posibles
    BY <1>1, Entre
  <2>4. hilos' = ConRespuesta(t, r)
    BY <1>4
  <2> HIDE DEF r
  <2>5. QED
    BY <1>1, <2>2, <2>3, <2>4, TrabajoResponde
<1>5. (limpia /\ cache[k].limpia) = TRUE \/ (limpia /\ cache[k].limpia) = FALSE
  BY <1>1
<1>6. (limpia /\ cache[k].limpia) = TRUE => limpia = TRUE /\ cache[k].limpia = TRUE
  BY <1>1
<1>7. QED
  BY <1>2, <1>3, <1>4, <1>5, <1>6 DEF Acierto

LEMMA PasoMemcachedGet ==
  ASSUME Base, NEW t \in Hilos, Memcached_get(t)
  PROVE  Base' /\ (Ordenada => Ordenada')
<1> DEFINE clave == Clave(hilos[t].pedido.grupo, hilos[t].pedido.id)
<1>1. /\ hilos \in [Hilos -> Registro] /\ Lee(t) /\ Anda(t)
      /\ hilos[t].pc = "memcached_get" /\ hilos[t] \in Registro
      /\ hilos[t].pedido.tipo = "noticia"
      /\ UNCHANGED <<mainVars, fds, navegadores, estado, pedido, respuestas, cache,
                     vivo, openDS, hist>>
  BY DEF Memcached_get, Lee, Anda, Base, Tipos
<1>2. CASE clave \in DOMAIN cache /\ Acierto(t, clave, TRUE)
  BY <1>1, <1>2, PasoAcierto
<1>3. ASSUME NEW otra \in DOMAIN cache, Acierto(t, otra, FALSE)
      PROVE  Base' /\ (Ordenada => Ordenada')
  BY <1>1, <1>3, PasoAcierto
<1>4. CASE hilos' = [hilos EXCEPT ![t].pc = "getArticle", ![t].cruzado = FALSE]
  <2> DEFINE x == [hilos[t] EXCEPT !.pc = "getArticle", !.cruzado = FALSE]
  <2>1. hilos' = [hilos EXCEPT ![t] = x]
    BY <1>1, <1>4
  <2>2. x \in Registro /\ x.pc = "getArticle" /\ x.fd = hilos[t].fd
        /\ x.pedido = hilos[t].pedido
    BY <1>1 DEF Registro, Lugares
  <2> HIDE DEF x
  <2>3. /\ hilos' \in [Hilos -> Registro] /\ Ajenos(t) /\ hilos'[t] = x
    BY <1>1, <2>1, <2>2, CambioDeHilo
  <2>4. Guarda(t)'
    BY <2>2, <2>3 DEF Guarda
  <2>5. QED
    BY <1>1, <2>2, <2>3, <2>4, TrabajoSigue
<1> HIDE DEF clave
<1>5. QED
  BY <1>2, <1>3, <1>4 DEF Memcached_get, clave

\* Whatever getArticle finds is the article of the request.
LEMMA PasoBuscarEnBD ==
  ASSUME Base, NEW t \in Hilos, BuscarNoticiaEnBD(t), ~ Morir
  PROVE  Base' /\ (Ordenada => Ordenada')
<1> DEFINE i == hilos[t].pedido
           a(hay) == getArticle(bd, hay, i.grupo, i.id)
           res(hay) == IF a(hay).encontrado THEN Ok([noticia |-> a(hay).noticia], TRUE)
                       ELSE NotFound
<1>1. /\ hilos \in [Hilos -> Registro] /\ Lee(t) /\ Anda(t) /\ hilos[t].pc = "getArticle"
      /\ i \in Interpretados /\ i.tipo = "noticia" /\ Directorio
      /\ UNCHANGED <<mainVars, fds, navegadores, estado, pedido, respuestas, cache,
                     vivo, openDS, hist>>
  BY DEF BuscarNoticiaEnBD, Lee, Anda, Base, Tipos
<1>2. PICK hay \in HayResultSet(openDSArriba, sesionPerdida, CriterioValido(i.grupo)) :
        hilos' = [Empezar(t, "memcached_set") EXCEPT ![t].respuesta = res(hay)]
  BY DEF BuscarNoticiaEnBD
<1> DEFINE r == res(hay)
<1>3. \/ r = NotFound
      \/ \E n : Hallada(bd, i, n) /\ r = Ok([noticia |-> n], TRUE)
  <2>1. CASE hay /\ i.id \in DOMAIN bd /\ Coincide(bd[i.id].grupo, i.grupo)
    <3>1. a(hay) = Encontrado(i.id, i.grupo, bd[i.id].noticia)
      BY <2>1 DEF getArticle
    <3>2. a(hay).encontrado = TRUE /\ a(hay).noticia = bd[i.id].noticia
      BY <3>1 DEF Encontrado
    <3>3. r = Ok([noticia |-> bd[i.id].noticia], TRUE)
      BY <3>2
    <3>4. Hallada(bd, i, bd[i.id].noticia)
      BY <1>1, <2>1 DEF Hallada
    <3>5. QED
      BY <3>3, <3>4
  <2>2. CASE ~ (hay /\ i.id \in DOMAIN bd /\ Coincide(bd[i.id].grupo, i.grupo))
    <3>1. a(hay).encontrado = FALSE
      BY <2>2 DEF getArticle, NoEncontrado
    <3>2. QED
      BY <3>1
  <2>3. QED
    BY <2>1, <2>2
<1>4. hilos' = [Empezar(t, "memcached_set") EXCEPT ![t].respuesta = r]
  BY <1>2
<1> HIDE DEF r
<1>5. \/ r = NotFound
      \/ \E n \in Textos : r = Ok([noticia |-> n], TRUE) /\ Hallada(bd, i, n)
  BY <1>1, <1>3, TextoHallado
<1>6. r \in Posibles
  BY <1>5, Entre
<1> DEFINE h == Empezar(t, "memcached_set")
<1>7. /\ h \in [Hilos -> Registro]
      /\ \A u \in Hilos \ {t} : /\ h[u].pc = hilos[u].pc /\ h[u].fd = hilos[u].fd
                                /\ h[u].pedido = hilos[u].pedido
                                /\ h[u].respuesta = hilos[u].respuesta
      /\ h[t].pc = "memcached_set" /\ h[t].fd = hilos[t].fd
      /\ h[t].pedido = hilos[t].pedido
  BY <1>1, HiloEmpieza
<1>8. hilos' = [h EXCEPT ![t].respuesta = r]
  BY <1>4
<1> HIDE DEF h
<1>9. /\ hilos' \in [Hilos -> Registro] /\ Ajenos(t)
      /\ hilos'[t].pc = "memcached_set" /\ hilos'[t].fd = hilos[t].fd
      /\ hilos'[t].pedido = hilos[t].pedido /\ hilos'[t].respuesta = r
  BY <1>6, <1>7, <1>8 DEF Registro, Ajenos
<1>10. Guarda(t)'
  BY <1>1, <1>5, <1>9 DEF Guarda, openDS
<1>11. QED
  BY <1>1, <1>9, <1>10, TrabajoSigue

\* What is stored, if it is clean, is under the key of the request it answers.
LEMMA PasoMemcachedSet ==
  ASSUME Base, NEW t \in Hilos, Memcached_set(t)
  PROVE  Base' /\ (Ordenada => Ordenada')
<1> DEFINE i == hilos[t].pedido
           r == hilos[t].respuesta
           limpia == r.codigo = 200 /\ ~ hilos[t].cruzado
           k == Clave(i.grupo, IF r.codigo = 200 THEN i.id ELSE <<"-1">>)
           n == IF limpia THEN r.contenido.noticia ELSE Basura
           e == [noticia |-> n, limpia |-> limpia]
<1>1. /\ hilos \in [Hilos -> Registro] /\ Lee(t) /\ hilos[t].pc = "memcached_set"
      /\ i \in Interpretados /\ i.tipo = "noticia" /\ Directorio
      /\ UNCHANGED <<mainVars, fds, navegadores, estado, pedido, respuestas,
                     vivo, openDS, hist>>
  BY DEF Memcached_set, Lee, Base, Tipos
<1>2. /\ cache' \in {cache, Guardado(k, e)}
      /\ hilos' = ConRespuesta(t, r)
  BY DEF Memcached_set
<1>3. \/ r = NotFound
      \/ \E m \in Textos : r = Ok([noticia |-> m], TRUE) /\ Hallada(bd, i, m)
  BY <1>1 DEF Base, Cache
<1>4. /\ limpia \in BOOLEAN /\ n \in Textos
      /\ limpia => Hallada(bd, i, n) /\ k = Clave(i.grupo, i.id)
  <2>1. CASE r = NotFound
    <3>1. ~ limpia
      BY <2>1 DEF NotFound
    <3>2. QED
      BY <3>1 DEF Textos
  <2>2. ASSUME NEW m \in Textos, r = Ok([noticia |-> m], TRUE), Hallada(bd, i, m)
        PROVE  /\ limpia \in BOOLEAN /\ n \in Textos
               /\ limpia => Hallada(bd, i, n) /\ k = Clave(i.grupo, i.id)
    <3>1. r.codigo = 200 /\ r.contenido.noticia = m
      BY <2>2 DEF Ok
    <3>2. QED
      BY <2>2, <3>1 DEF Textos
  <2>3. QED
    BY <1>3, <2>1, <2>2
<1>5. /\ r \in Posibles
      /\ \A p \in Pedidos : Interpretado(p) = i => Bien(bd, r, p)
  <2>1. CASE r = NotFound
    BY <2>1, Entre, BienSinOk
  <2>2. ASSUME NEW m \in Textos, r = Ok([noticia |-> m], TRUE), Hallada(bd, i, m)
        PROVE  /\ r \in Posibles
               /\ \A p \in Pedidos : Interpretado(p) = i => Bien(bd, r, p)
    <3>1. ASSUME NEW p \in Pedidos, Interpretado(p) = i
          PROVE  Bien(bd, Ok([noticia |-> m], TRUE), p)
      BY <1>1, <2>2, <3>1, RespuestaNoticia
    <3>2. Ok([noticia |-> m], TRUE) \in Posibles
      BY Entre
    <3> HIDE DEF r
    <3>3. QED
      BY <2>2, <3>1, <3>2
  <2>3. QED
    BY <1>3, <2>1, <2>2
<1> HIDE DEF limpia, k, n
<1>6. e.noticia = n /\ e.limpia = limpia
  OBVIOUS
<1> HIDE DEF e
<1>7. EnCache'
  <2>1. EnCache /\ bd' = bd
    BY <1>1 DEF Base, Cache, EnCache, openDS
  <2>2. CASE cache' = cache
    BY <2>1, <2>2 DEF EnCache
  <2>3. CASE cache' = Guardado(k, e)
    <3>1. /\ DOMAIN cache' = DOMAIN cache \cup {k} /\ cache'[k] = e
          /\ \A otra \in DOMAIN cache : otra # k => cache'[otra] = cache[otra]
      BY <2>3 DEF Guardado
    <3>2. ASSUME NEW otra \in DOMAIN cache', otra # k
          PROVE  /\ cache'[otra].noticia \in Textos /\ cache'[otra].limpia \in BOOLEAN
                 /\ cache'[otra].limpia = TRUE =>
                      \E j \in Interpretados : Hallada(bd, j, cache'[otra].noticia)
                                               /\ otra = Clave(j.grupo, j.id)
      BY <2>1, <3>1, <3>2 DEF EnCache
    <3>3. /\ cache'[k].noticia \in Textos /\ cache'[k].limpia \in BOOLEAN
          /\ cache'[k].limpia = TRUE =>
               \E j \in Interpretados : Hallada(bd, j, cache'[k].noticia)
                                        /\ k = Clave(j.grupo, j.id)
      BY <1>1, <1>4, <1>6, <3>1
    <3>4. QED
      BY <2>1, <3>2, <3>3 DEF EnCache
  <2>4. QED
    BY <1>2, <2>2, <2>3
<1>8. QED
  BY <1>1, <1>2, <1>5, <1>7, TrabajoResponde

\* The status line: the answer is still to be sent.
LEMMA PasoAviso200 ==
  ASSUME Base, NEW t \in Hilos, Aviso200(t)
  PROVE  Base' /\ (Ordenada => Ordenada')
<1> DEFINE c == fds[hilos[t].fd]
           x == [hilos[t] EXCEPT !.pc = "send"]
<1>1. /\ hilos \in [Hilos -> Registro] /\ Anda(t) /\ hilos[t] \in Registro
      /\ hilos[t].pc = "aviso200" /\ hilos' = [hilos EXCEPT ![t] = x]
      /\ UNCHANGED <<mainVars, fds, navegadores, pedido, respuestas, cache, vivo,
                     openDS, hist>>
      /\ estado \in [Clientes -> {"abierto", "servido"} \cup Idos]
  BY DEF Aviso200, Anda, Base, Tipos
<1>2. x \in Registro /\ x.pc = "send" /\ x.fd = hilos[t].fd
      /\ x.respuesta = hilos[t].respuesta
  BY <1>1, RegistroCampos DEF Lugares
<1> HIDE DEF x
<1>3. /\ hilos' \in [Hilos -> Registro] /\ Ajenos(t) /\ hilos'[t] = x
  BY <1>1, <1>2, CambioDeHilo
<1>4. DeTipo(t)' /\ Guarda(t)' /\ hilos'[t].pc \notin {"libre", "copiar", "recv"}
  BY <1>1, <1>2, <1>3 DEF Base, Tipos, DeTipo, Guarda, Anda, Lee
<1>5. /\ estado' \in [Clientes -> {"abierto", "servido"} \cup Idos]
      /\ \A d \in Clientes : estado'[d] = "abierto" => estado[d] = "abierto"
  BY <1>1 DEF Aviso200, Idos
<1>6. /\ EnCache'
      /\ pedido' \in [Clientes -> Pedidos \cup {SinPedido}]
      /\ \A d \in Clientes : pedido'[d] \in {SinPedido, pedidos[d]}
  BY <1>1 DEF Base, Cache, EnCache, openDS, Tipos
<1>7. Base'
  BY <1>1, <1>3, <1>4, <1>5, <1>6, TrabajoBase DEF navegadores
<1>8. ASSUME Ordenada PROVE Ordenada'
  <2>1. Conexiones'
    BY <1>1, <1>2, <1>3, <1>4, <1>8, TrabajoConexiones DEF Ordenada, navegadores
  <2>2. c \in Clientes
    BY <1>1, <1>8 DEF Ordenada, Conexiones, Base, Tipos
  <2>3. ASSUME estado'[c] = "abierto" PROVE Atiende(t, c)'
    <3>1. Atiende(t, c)
      BY <1>1, <1>5, <1>8, <2>2, <2>3 DEF Ordenada, Tramites
    <3>2. /\ pedidos[c] # SinPedido /\ Bien(bd, hilos[t].respuesta, pedidos[c])
      BY <1>1, <3>1 DEF Atiende
    <3>3. fds'[hilos'[t].fd] = c /\ pedidos' = pedidos /\ bd' = bd
      BY <1>1, <1>2, <1>3 DEF navegadores, openDS
    <3>4. QED
      BY <1>2, <1>3, <3>2, <3>3 DEF Atiende, Lee
  <2>4. Tramites'
    BY <1>1, <1>2, <1>3, <1>4, <1>5, <1>8, <2>3, TrabajoTramites
       DEF Ordenada, navegadores, openDS
  <2>5. QED
    BY <2>1, <2>4 DEF Ordenada
<1>9. QED
  BY <1>7, <1>8

\* The end of a connection, after the answer or without one.
LEMMA PasoCierre ==
  ASSUME Base, NEW t \in Hilos, Favicon(t) \/ Send(t)
  PROVE  Base' /\ (Ordenada => Ordenada')
<1> DEFINE c == fds[hilos[t].fd]
<1>1. /\ hilos \in [Hilos -> Registro] /\ Anda(t) /\ hilos[t].fd \in Fds
      /\ hilos' = [hilos EXCEPT ![t] = HiloLibre]
      /\ fds' = [fds EXCEPT ![hilos[t].fd] = NoCliente]
      /\ UNCHANGED <<mainVars, navegadores, pedido, cache, vivo, openDS, hist>>
      /\ fds \in [Fds -> Clientes \cup {NoCliente}]
      /\ estado \in [Clientes -> {"abierto", "servido"} \cup Idos]
      /\ respuestas \in [Clientes -> Seq(Posibles)]
      /\ c \in Clientes \cup {NoCliente}
  BY DEF Favicon, Send, CerrarConexion, Cerrar, Pide, Anda, Base, Tipos
<1>2. /\ HiloLibre \in Registro /\ HiloLibre.pc = "libre"
  BY Entre DEF HiloLibre, Registro, Lugares
<1>3. /\ hilos' \in [Hilos -> Registro] /\ Ajenos(t) /\ hilos'[t].pc = "libre"
  BY <1>1, <1>2, CambioDeHilo
<1>4. /\ estado' \in [Clientes -> {"abierto", "servido"} \cup Idos]
      /\ \A d \in Clientes : estado'[d] = "abierto" => estado[d] = "abierto"
  BY <1>1 DEF Favicon, Send, CerrarConexion
<1>5. /\ fds' \in [Fds -> Clientes \cup {NoCliente}]
      /\ fds'[hilos[t].fd] = NoCliente
      /\ \A f \in Fds : f # hilos[t].fd => fds'[f] = fds[f]
  BY <1>1
<1>6. \/ respuestas' = respuestas
      \/ /\ c \in Clientes /\ hilos[t].pc = "send" /\ estado[c] = "abierto"
         /\ respuestas' = [respuestas EXCEPT ![c]
                             = Append(respuestas[c], hilos[t].respuesta)]
  BY DEF Favicon, Send
<1>7. respuestas' \in [Clientes -> Seq(Posibles)]
  <2>1. hilos[t].respuesta \in Posibles
    BY <1>1, RegistroCampos
  <2>2. c \in Clientes => Append(respuestas[c], hilos[t].respuesta) \in Seq(Posibles)
    BY <1>1, <2>1
  <2>3. QED
    BY <1>1, <1>6, <2>2
<1>8. /\ \A u \in Hilos : DeTipo(u)' /\ Guarda(u)'
      /\ Pendiente' => Pendiente
  <2>1. DeTipo(t)' /\ Guarda(t)'
    BY <1>3 DEF DeTipo, Guarda, Anda, Lee
  <2>2. QED
    BY <1>1, <1>3, <2>1, AjenosBase DEF Base, mainVars, openDS
<1>9. Base'
  <2>1. Directorio'
    BY <1>1 DEF Base, Directorio, openDS
  <2>2. Tipos'
    BY <1>1, <1>3, <1>4, <1>5, <1>7, <1>8
       DEF Base, Tipos, DeTipo, mainVars, navegadores, hist
  <2>3. Cache'
    BY <1>1, <1>8 DEF Base, Cache, Guarda, openDS
  <2>4. QED
    BY <2>1, <2>2, <2>3 DEF Base
<1>10. ASSUME Ordenada PROVE Ordenada'
  <2>0. /\ c \in Clientes /\ respuestas[c] = <<>>
        /\ hilos[t].pc # "recv"
        /\ estado[c] = "abierto" => Atiende(t, c)
        /\ backlog \in Seq(Clientes)
        /\ \A u \in Hilos : Anda(u) => hilos[u].fd \in Fds
        /\ Pendiente => stParameters \in Fds
    BY <1>1, <1>10 DEF Ordenada, Conexiones, Tramites, Favicon, Send, Pide, Base, Tipos
  <2>1. /\ \A u \in Hilos \ {t} : /\ hilos'[u].fd = hilos[u].fd /\ (Anda(u)' <=> Anda(u))
                                  /\ hilos'[u].pc = "copiar" <=> hilos[u].pc = "copiar"
        /\ ~ Anda(t)' /\ hilos'[t].pc # "copiar" /\ hilos[t].pc # "copiar"
        /\ Pendiente' <=> Pendiente
    BY <1>1, <1>3 DEF Ajenos, Anda, Pendiente, mainVars
  <2>2. \A u \in Hilos \ {t} : Anda(u) => fds'[hilos[u].fd] = fds[hilos[u].fd]
    BY <1>1, <1>5, <1>10, <2>0 DEF Ordenada, Conexiones
  <2>3. Pendiente => fds'[stParameters] = fds[stParameters]
    BY <1>1, <1>5, <1>10, <2>0 DEF Ordenada, Conexiones
  <2>4. Conexiones'
    <3>1. \A f, g \in Fds : fds'[f] # NoCliente /\ fds'[f] = fds'[g] => f = g
      BY <1>1, <1>5, <1>10 DEF Ordenada, Conexiones
    <3>2. \A i \in DOMAIN backlog, f \in Fds : fds'[f] # backlog[i]
      BY <1>1, <1>5, <1>10, <2>0, NombresAssumption DEF Ordenada, Conexiones
    <3>3. QED
      BY <1>1, <1>10, <2>1, <2>2, <2>3, <3>1, <3>2
         DEF Ordenada, Conexiones, mainVars, navegadores
  <2>5. \A d \in Clientes : d # c => respuestas'[d] = respuestas[d]
    BY <1>1, <1>6
  <2>6. \A i \in DOMAIN backlog' : Nueva(backlog[i])'
    <3>1. ASSUME NEW i \in DOMAIN backlog PROVE Nueva(backlog[i])'
      <4>1. backlog[i] # c /\ backlog[i] \in Clientes /\ Nueva(backlog[i])
        BY <1>1, <1>10, <2>0 DEF Ordenada, Conexiones, Tramites
      <4>2. QED
        BY <1>1, <2>5, <4>1 DEF Nueva, navegadores
    <3>2. QED
      BY <1>1, <3>1 DEF navegadores
  <2>7. Pendiente' => Nueva(fds[stParameters])'
    <3>1. ASSUME Pendiente PROVE Nueva(fds[stParameters])'
      <4>1. /\ fds[stParameters] # c /\ fds[stParameters] \in Clientes
            /\ Nueva(fds[stParameters])
        BY <1>1, <1>10, <2>0, <3>1 DEF Ordenada, Conexiones, Tramites
      <4>2. QED
        BY <1>1, <2>3, <2>5, <3>1, <4>1 DEF Nueva, mainVars, navegadores
    <3>2. QED
      BY <2>1, <3>1
  <2>8. ASSUME NEW u \in Hilos PROVE EnTramite(u)'
    <3>1. CASE u # t /\ Anda(u)
      <4> DEFINE d == fds[hilos[u].fd]
      <4>1. d # c /\ d \in Clientes /\ EnTramite(u)
        BY <1>1, <1>10, <2>0, <3>1 DEF Ordenada, Conexiones, Tramites, EnTramite
      <4>2. /\ pedido'[d] = pedido[d] /\ (estado'[d] = "abierto" => estado[d] = "abierto")
            /\ respuestas'[d] = respuestas[d] /\ fds'[hilos'[u].fd] = d
            /\ pedidos' = pedidos /\ bd' = bd
        BY <1>1, <1>4, <2>1, <2>2, <2>5, <3>1, <4>1 DEF navegadores, openDS
      <4>3. /\ hilos'[u].pc = hilos[u].pc /\ hilos'[u].fd = hilos[u].fd
            /\ hilos'[u].pedido = hilos[u].pedido
            /\ hilos'[u].respuesta = hilos[u].respuesta
        BY <1>3, <3>1 DEF Ajenos
      <4>4. QED
        BY <3>1, <4>1, <4>2, <4>3 DEF EnTramite, Anda, Atiende, Lee
    <3>2. CASE u = t \/ ~ Anda(u)
      BY <2>1, <3>2 DEF EnTramite
    <3>3. QED
      BY <3>1, <3>2
  <2>9. ASSUME NEW d \in Clientes PROVE Contestada(d)'
    <3>1. Contestada(d) /\ pedidos' = pedidos /\ bd' = bd
      BY <1>1, <1>10 DEF Ordenada, Tramites, Contestada, navegadores, openDS
    <3>2. CASE respuestas'[d] = respuestas[d]
      BY <3>1, <3>2 DEF Contestada
    <3>3. CASE respuestas'[d] # respuestas[d]
      <4>1. /\ d = c /\ hilos[t].pc = "send" /\ estado[c] = "abierto"
            /\ respuestas'[c] = Append(respuestas[c], hilos[t].respuesta)
        BY <1>1, <1>6, <2>5, <3>3
      <4>2. /\ pedidos[c] # SinPedido /\ Bien(bd, hilos[t].respuesta, pedidos[c])
        BY <2>0, <4>1 DEF Atiende
      <4>3. respuestas'[c] = <<hilos[t].respuesta>>
        BY <2>0, <4>1
      <4>4. QED
        BY <3>1, <4>1, <4>2, <4>3 DEF Contestada
    <3>4. QED
      BY <3>2, <3>3
  <2>10. QED
    BY <2>4, <2>6, <2>7, <2>8, <2>9 DEF Ordenada, Tramites, EnTramite, Contestada
<1>11. QED
  BY <1>9, <1>10

\* The copy: the descriptor main was holding is the thread's from here on.
LEMMA PasoCopiar ==
  ASSUME Base, NEW t \in Hilos, CopiarParametros(t)
  PROVE  Base' /\ (Ordenada => Ordenada')
<1> DEFINE x == [hilos[t] EXCEPT !.pc = "recv", !.fd = stParameters]
<1>1. /\ hilos \in [Hilos -> Registro] /\ hilos[t] \in Registro
      /\ hilos[t].pc = "copiar" /\ hilos' = [hilos EXCEPT ![t] = x]
      /\ stParameters \in Fds
      /\ UNCHANGED <<mainVars, fds, navegadores, estado, pedido, respuestas, cache,
                     vivo, openDS, hist>>
  BY DEF CopiarParametros, Base, Tipos, Pendiente
<1>2. x \in Registro /\ x.pc = "recv" /\ x.fd = stParameters
  BY <1>1 DEF Registro, Lugares
<1> HIDE DEF x
<1>3. /\ hilos' \in [Hilos -> Registro] /\ Ajenos(t) /\ hilos'[t] = x
  BY <1>1, <1>2, CambioDeHilo
<1>4. DeTipo(t)' /\ Guarda(t)'
  BY <1>1, <1>2, <1>3 DEF DeTipo, Guarda, Anda, Lee
<1>5. /\ EnCache'
      /\ estado' \in [Clientes -> {"abierto", "servido"} \cup Idos]
      /\ pedido' \in [Clientes -> Pedidos \cup {SinPedido}]
      /\ \A d \in Clientes : pedido'[d] \in {SinPedido, pedidos[d]}
  BY <1>1 DEF Base, Cache, EnCache, openDS, Tipos
<1>6. Base'
  BY <1>1, <1>2, <1>3, <1>4, <1>5, TrabajoBase DEF navegadores
<1>7. ASSUME Ordenada PROVE Ordenada'
  <2>1. /\ Pendiente /\ mainHttp # "thr_create"
        /\ \A u \in Hilos \ {t} : hilos[u].pc # "copiar"
    BY <1>1, <1>7 DEF Ordenada, Conexiones, Pendiente
  <2>2. /\ \A u \in Hilos \ {t} : /\ hilos'[u].fd = hilos[u].fd /\ (Anda(u)' <=> Anda(u))
        /\ hilos'[t].fd = stParameters /\ hilos'[t].pc = "recv"
        /\ \A u \in Hilos : hilos'[u].pc # "copiar"
    BY <1>2, <1>3, <2>1 DEF Ajenos, Anda
  <2>3. ~ Pendiente'
    BY <1>1, <2>1, <2>2 DEF Pendiente, mainVars, Base, Tipos
  <2>4. Conexiones'
    BY <1>1, <1>7, <2>1, <2>2, <2>3 DEF Ordenada, Conexiones, mainVars, navegadores
  <2>5. ASSUME NEW u \in Hilos PROVE EnTramite(u)'
    <3>1. CASE u = t
      <4>1. Nueva(fds[stParameters])
        BY <1>7, <2>1 DEF Ordenada, Tramites
      <4>2. QED
        BY <1>1, <2>2, <3>1, <4>1 DEF EnTramite, Nueva, navegadores
    <3>2. CASE u # t
      <4>1. EnTramite(u)
        BY <1>7 DEF Ordenada, Tramites, EnTramite
      <4>2. /\ hilos'[u].pc = hilos[u].pc /\ hilos'[u].fd = hilos[u].fd
            /\ hilos'[u].pedido = hilos[u].pedido
            /\ hilos'[u].respuesta = hilos[u].respuesta
        BY <1>3, <3>2 DEF Ajenos
      <4>3. QED
        BY <1>1, <4>1, <4>2 DEF EnTramite, Anda, Atiende, Lee, navegadores, openDS
    <3>3. QED
      BY <3>1, <3>2
  <2>6. /\ \A i \in DOMAIN backlog' : Nueva(backlog[i])'
        /\ \A d \in Clientes : Contestada(d)'
    BY <1>1, <1>7 DEF Ordenada, Tramites, Nueva, Contestada, navegadores, openDS
  <2>7. QED
    BY <2>3, <2>4, <2>5, <2>6 DEF Ordenada, Tramites, EnTramite, Contestada
<1>8. QED
  BY <1>6, <1>7

\* The end of the process: nobody is at work any more.
LEMMA PasoMorir ==
  ASSUME Base, Morir,
         UNCHANGED <<navegadores, estado, pedido, respuestas, cache, openDS, hist>>
  PROVE  Base' /\ (Ordenada => Ordenada')
<1>1. /\ HiloLibre \in Registro /\ HiloLibre.pc = "libre"
  BY Entre DEF HiloLibre, Registro, Lugares
<1>2. /\ hilos' = [t \in Hilos |-> HiloLibre] /\ hilos' \in [Hilos -> Registro]
      /\ \A t \in Hilos : hilos'[t].pc = "libre"
      /\ fds' = [f \in Fds |-> NoCliente] /\ mainHttp' = "accept" /\ stParameters' = NoFd
      /\ vivo' = FALSE
  BY <1>1 DEF Morir
<1>3. ~ Pendiente' /\ \A t \in Hilos : ~ Anda(t)' /\ DeTipo(t)' /\ Guarda(t)'
  BY <1>2 DEF Pendiente, Anda, DeTipo, Guarda, Lee
<1>4. Directorio'
  BY DEF Base, Directorio, openDS
<1>5. Tipos'
  BY <1>2, <1>3 DEF Base, Tipos, DeTipo, navegadores, hist
<1>6. Cache'
  BY <1>3 DEF Base, Cache, Guarda, openDS
<1>7. ASSUME Ordenada PROVE Ordenada'
  <2>1. backlog \in Seq(Clientes)
    BY DEF Base, Tipos
  <2>2. Conexiones'
    BY <1>2, <1>3, <1>7, <2>1, NombresAssumption DEF Ordenada, Conexiones, navegadores
  <2>3. Tramites'
    BY <1>3, <1>7 DEF Ordenada, Tramites, Nueva, navegadores, openDS
  <2>4. QED
    BY <2>2, <2>3 DEF Ordenada
<1>8. QED
  BY <1>4, <1>5, <1>6, <1>7 DEF Base

LEMMA PasoDeHilo ==
  ASSUME Base, NEW t \in Hilos, Hilo(t)
  PROVE  Base' /\ (Ordenada => Ordenada') /\ compartido' = compartido
<1>1. compartido' = compartido
  BY DEF Hilo, CopiarParametros, Recv, RecvNada, Favicon, ListadoGruposDeNoticias,
     ListadoDeNoticias, MuereListando, BuscarNoticiaEnCache, Memcached_get,
     BuscarNoticiaEnBD, Memcached_set, Aviso200, SigPipe, Send, hist
<1>2. CASE CopiarParametros(t)
  BY <1>1, <1>2, PasoCopiar
<1>3. CASE Recv(t)
  BY <1>1, <1>3, PasoRecv
<1>4. CASE RecvNada(t)
  <2>1. CASE Morir
    BY <1>1, <1>4, <2>1, PasoMorir DEF RecvNada
  <2>2. CASE ~ Morir
    BY <1>1, <1>4, <2>2, PasoRecvNada
  <2>3. QED
    BY <2>1, <2>2
<1>5. CASE ListadoGruposDeNoticias(t) \/ ListadoDeNoticias(t)
  BY <1>1, <1>5, PasoListados
<1>6. CASE MuereListando(t) \/ SigPipe(t)
  BY <1>1, <1>6, PasoMorir DEF MuereListando, SigPipe
<1>7. CASE BuscarNoticiaEnCache(t)
  BY <1>1, <1>7, PasoBuscarEnCache
<1>8. CASE Memcached_get(t)
  BY <1>1, <1>8, PasoMemcachedGet
<1>9. CASE BuscarNoticiaEnBD(t)
  <2>1. CASE Morir
    BY <1>1, <1>9, <2>1, PasoMorir DEF BuscarNoticiaEnBD
  <2>2. CASE ~ Morir
    BY <1>1, <1>9, <2>2, PasoBuscarEnBD
  <2>3. QED
    BY <2>1, <2>2
<1>10. CASE Memcached_set(t)
  BY <1>1, <1>10, PasoMemcachedSet
<1>11. CASE Aviso200(t)
  BY <1>1, <1>11, PasoAviso200
<1>12. CASE Favicon(t) \/ Send(t)
  BY <1>1, <1>12, PasoCierre
<1>13. QED
  BY <1>2, <1>3, <1>4, <1>5, <1>6, <1>7, <1>8, <1>9, <1>10, <1>11, <1>12 DEF Hilo

-----------------------------------------------------------------------------
(* main, and the world around.                                             *)

\* What depends on the threads, the directory and the cache, when none of them
\* changes.
LEMMA Quietos ==
  ASSUME Base, UNCHANGED <<hilos, bd>>
  PROVE  \A t \in Hilos : DeTipo(t)' /\ Guarda(t)'
<1> SUFFICES ASSUME NEW t \in Hilos PROVE DeTipo(t)' /\ Guarda(t)'
  OBVIOUS
<1>1. DeTipo(t) /\ Guarda(t)
  BY DEF Base, Tipos, Cache, DeTipo, Guarda
<1>2. QED
  BY <1>1 DEF DeTipo, Guarda, Anda, Lee

LEMMA PasoAccept ==
  ASSUME Base, Accept
  PROVE  Base' /\ (compartido = FALSE /\ Ordenada /\ compartido' = FALSE => Ordenada')
<1>1. PICK f \in Fds :
        /\ fds[f] = NoCliente /\ fds' = [fds EXCEPT ![f] = Head(backlog)]
        /\ stParameters' = f
  BY DEF Accept
<1>2. /\ backlog \in Seq(Clientes) /\ backlog # <<>> /\ backlog' = Tail(backlog)
      /\ mainHttp = "accept" /\ mainHttp' = "thr_create"
      /\ fds \in [Fds -> Clientes \cup {NoCliente}]
      /\ UNCHANGED <<hilos, estado, pedido, pedidos, respuestas, cache, vivo, openDS,
                     desatendidos>>
  BY DEF Accept, Base, Tipos
<1>3. /\ Head(backlog) \in Clientes /\ backlog' \in Seq(Clientes)
      /\ Len(backlog) \in Nat /\ Len(backlog) > 0 /\ Head(backlog) = backlog[1]
      /\ Len(backlog') = Len(backlog) - 1
      /\ \A i \in DOMAIN backlog' : i + 1 \in DOMAIN backlog /\ backlog'[i] = backlog[i + 1]
  BY <1>2
<1>4. /\ fds' \in [Fds -> Clientes \cup {NoCliente}]
      /\ fds'[f] = backlog[1] /\ \A g \in Fds : g # f => fds'[g] = fds[g]
  BY <1>1, <1>2, <1>3
<1>5. compartido' \in BOOLEAN
      /\ (compartido' = FALSE => \A t \in Hilos : hilos[t].pc # "copiar")
  BY DEF Accept, Base, Tipos
<1>6. Base'
  <2>1. Directorio'
    BY <1>2 DEF Base, Directorio, openDS
  <2>2. \A t \in Hilos : DeTipo(t)' /\ Guarda(t)'
    BY <1>2, Quietos DEF openDS
  <2>3. Tipos'
    BY <1>1, <1>2, <1>3, <1>4, <1>5, <2>2 DEF Base, Tipos, DeTipo
  <2>4. Cache'
    BY <1>2, <2>2 DEF Base, Cache, Guarda, openDS
  <2>5. QED
    BY <2>1, <2>3, <2>4 DEF Base
<1>7. ASSUME Ordenada, compartido' = FALSE PROVE Ordenada'
  <2>0. /\ \A t \in Hilos : Anda(t) => hilos[t].fd \in Fds /\ hilos[t].fd # f
        /\ 1 \in DOMAIN backlog
    BY <1>1, <1>2, <1>3, <1>7 DEF Ordenada, Conexiones, Base, Tipos
  <2>1. Conexiones'
    <3>1. \A i, j \in DOMAIN backlog' : backlog'[i] = backlog'[j] => i = j
      BY <1>3, <1>7 DEF Ordenada, Conexiones
    <3>2. \A i \in DOMAIN backlog', g \in Fds : fds'[g] # backlog'[i]
      <4>1. ASSUME NEW i \in DOMAIN backlog', NEW g \in Fds PROVE fds'[g] # backlog'[i]
        <5>1. i \in Nat /\ i + 1 # 1 /\ backlog'[i] = backlog[i + 1]
          BY <1>2, <1>3
        <5>2. backlog[i + 1] # backlog[1] /\ fds[g] # backlog[i + 1]
          BY <1>3, <1>7, <2>0, <5>1 DEF Ordenada, Conexiones
        <5>3. QED
          BY <1>4, <5>1, <5>2
      <4>2. QED
        BY <4>1
    <3>3. \A g, h \in Fds : fds'[g] # NoCliente /\ fds'[g] = fds'[h] => g = h
      BY <1>4, <1>7, <2>0 DEF Ordenada, Conexiones
    <3>4. \A t \in Hilos : Anda(t)' => fds'[hilos'[t].fd] # NoCliente
      BY <1>2, <1>4, <1>7, <2>0 DEF Ordenada, Conexiones, Anda
    <3>5. /\ fds'[stParameters'] # NoCliente
          /\ \A t \in Hilos : Anda(t)' => hilos'[t].fd # stParameters'
      BY <1>1, <1>2, <1>3, <1>4, <2>0, NombresAssumption DEF Anda
    <3>6. \A t, u \in Hilos : Anda(t)' /\ Anda(u)' /\ hilos'[t].fd = hilos'[u].fd => t = u
      BY <1>2, <1>7 DEF Ordenada, Conexiones, Anda
    <3>7. \A t \in Hilos : hilos'[t].pc # "copiar"
      BY <1>2, <1>5, <1>7
    <3>8. QED
      BY <3>1, <3>2, <3>3, <3>4, <3>5, <3>6, <3>7 DEF Conexiones
  <2>2. \A i \in DOMAIN backlog' : Nueva(backlog[i])'
    BY <1>2, <1>3, <1>7 DEF Ordenada, Tramites, Nueva
  <2>3. Nueva(fds[stParameters])'
    BY <1>1, <1>2, <1>3, <1>4, <1>7, <2>0 DEF Ordenada, Tramites, Nueva
  <2>4. ASSUME NEW t \in Hilos PROVE EnTramite(t)'
    <3>1. EnTramite(t)
      BY <1>7 DEF Ordenada, Tramites, EnTramite
    <3>2. Anda(t) => fds'[hilos[t].fd] = fds[hilos[t].fd]
      BY <1>4, <2>0
    <3>3. QED
      BY <1>2, <3>1, <3>2 DEF EnTramite, Anda, Atiende, Lee, openDS
  <2>5. \A d \in Clientes : Contestada(d)'
    BY <1>2, <1>7 DEF Ordenada, Tramites, Contestada, openDS
  <2>6. QED
    BY <2>1, <2>2, <2>3, <2>4, <2>5 DEF Ordenada, Tramites, EnTramite, Contestada
<1>8. QED
  BY <1>6, <1>7

LEMMA PasoThrCreate ==
  ASSUME Base, Thr_create
  PROVE  Base' /\ (Ordenada => Ordenada') /\ compartido' = compartido
<1>1. /\ hilos \in [Hilos -> Registro] /\ mainHttp = "thr_create" /\ mainHttp' = "accept"
      /\ stParameters \in Fds
      /\ UNCHANGED <<stParameters, fds, navegadores, estado, pedido, respuestas,
                     cache, vivo, openDS, compartido>>
      /\ desatendidos' \subseteq Clientes
  BY DEF Thr_create, Base, Tipos, Pendiente
<1>2. CASE hilos' = hilos
  <2>1. Directorio' /\ \A t \in Hilos : DeTipo(t)' /\ Guarda(t)'
    BY <1>1, <1>2, Quietos DEF Base, Directorio, openDS
  <2>2. Tipos'
    BY <1>1, <1>2, <2>1 DEF Base, Tipos, DeTipo, navegadores
  <2>3. Cache'
    BY <1>1, <1>2, <2>1 DEF Base, Cache, Guarda, openDS
  <2>4. ASSUME Ordenada PROVE Ordenada'
    <3>1. ~ Pendiente' /\ \A t \in Hilos : Anda(t)' <=> Anda(t)
      BY <1>1, <1>2, <2>4 DEF Ordenada, Conexiones, Pendiente, Anda
    <3>2. Conexiones'
      BY <1>1, <1>2, <2>4, <3>1 DEF Ordenada, Conexiones, navegadores
    <3>3. Tramites'
      BY <1>1, <1>2, <2>4, <3>1
         DEF Ordenada, Tramites, Nueva, Atiende, Lee, navegadores, openDS
    <3>4. QED
      BY <3>2, <3>3 DEF Ordenada
  <2>5. QED
    BY <1>1, <2>1, <2>2, <2>3, <2>4 DEF Base
<1>3. ASSUME NEW t \in Hilos, hilos[t].pc = "libre",
             hilos' = [hilos EXCEPT ![t].pc = "copiar"]
      PROVE  Base' /\ (Ordenada => Ordenada')
  <2> DEFINE x == [hilos[t] EXCEPT !.pc = "copiar"]
  <2>1. hilos' = [hilos EXCEPT ![t] = x] /\ hilos[t] \in Registro
    BY <1>1, <1>3
  <2>2. x \in Registro /\ x.pc = "copiar"
    BY <2>1 DEF Registro, Lugares
  <2> HIDE DEF x
  <2>3. /\ hilos' \in [Hilos -> Registro] /\ Ajenos(t) /\ hilos'[t] = x
    BY <1>1, <2>1, <2>2, CambioDeHilo
  <2>4. \A u \in Hilos : DeTipo(u)' /\ Guarda(u)'
    <3>1. \A u \in Hilos \ {t} : DeTipo(u)' /\ Guarda(u)'
      BY <1>1, <2>3, AjenosBase DEF Base, openDS
    <3>2. DeTipo(t)' /\ Guarda(t)'
      BY <2>2, <2>3 DEF DeTipo, Guarda, Anda, Lee
    <3>3. QED
      BY <3>1, <3>2
  <2>5. Directorio'
    BY <1>1 DEF Base, Directorio, openDS
  <2>6. Tipos'
    BY <1>1, <2>3, <2>4 DEF Base, Tipos, DeTipo, navegadores
  <2>7. Cache'
    BY <1>1, <2>4 DEF Base, Cache, Guarda, openDS
  <2>8. ASSUME Ordenada PROVE Ordenada'
    <3>1. Pendiente /\ \A u \in Hilos : hilos[u].pc # "copiar"
      BY <1>1, <2>8 DEF Ordenada, Conexiones, Pendiente
    <3>2. /\ \A u \in Hilos \ {t} : /\ hilos'[u].pc = hilos[u].pc
                                    /\ hilos'[u].fd = hilos[u].fd
                                    /\ hilos'[u].pedido = hilos[u].pedido
                                    /\ hilos'[u].respuesta = hilos[u].respuesta
          /\ hilos'[t].pc = "copiar"
      BY <2>2, <2>3 DEF Ajenos
    <3>3. /\ \A u \in Hilos \ {t} : Anda(u)' <=> Anda(u)
          /\ ~ Anda(t)' /\ ~ Anda(t)
      BY <1>3, <3>2 DEF Anda
    <3>4. Conexiones'
      BY <1>1, <2>8, <3>1, <3>2, <3>3 DEF Ordenada, Conexiones, navegadores
    <3>5. ASSUME NEW u \in Hilos PROVE EnTramite(u)'
      <4>1. EnTramite(u)
        BY <2>8 DEF Ordenada, Tramites, EnTramite
      <4>2. QED
        BY <1>1, <3>2, <3>3, <4>1 DEF EnTramite, Atiende, Lee, navegadores, openDS
    <3>6. /\ \A i \in DOMAIN backlog' : Nueva(backlog[i])'
          /\ Nueva(fds[stParameters])'
          /\ \A d \in Clientes : Contestada(d)'
      BY <1>1, <2>8, <3>1 DEF Ordenada, Tramites, Nueva, Contestada, navegadores, openDS
    <3>7. QED
      BY <3>4, <3>5, <3>6 DEF Ordenada, Tramites, EnTramite, Contestada
  <2>9. QED
    BY <2>5, <2>6, <2>7, <2>8 DEF Base
<1>4. QED
  BY <1>1, <1>2, <1>3 DEF Thr_create

\* The browsers: a request is sent once, on a connection that was not answered.
LEMMA PasoDelNavegador ==
  ASSUME Base, NEW c \in Clientes,
         ClienteSeVa(c) \/ \E p \in Pedidos : ClienteEnvia(c, p)
  PROVE  Base' /\ (Ordenada => Ordenada')
<1>1. /\ estado \in [Clientes -> {"abierto", "servido"} \cup Idos]
      /\ pedido \in [Clientes -> Pedidos \cup {SinPedido}]
      /\ pedidos \in [Clientes -> Pedidos \cup {SinPedido}]
      /\ \A d \in Clientes : pedido[d] \in {SinPedido, pedidos[d]}
      /\ backlog \in Seq(Clientes)
      /\ fds \in [Fds -> Clientes \cup {NoCliente}]
      /\ \A t \in Hilos : Anda(t) => hilos[t].fd \in Fds
      /\ Pendiente => stParameters \in Fds
      /\ respuestas \in [Clientes -> Seq(Posibles)]
  BY DEF Base, Tipos
<1>2. UNCHANGED <<mainVars, fds, hilos, backlog, respuestas, cache, vivo, openDS, hist>>
  BY DEF ClienteSeVa, ClienteEnvia, navegadores
<1>3. \/ /\ estado' = [estado EXCEPT ![c] = "cerrado"]
         /\ pedido' = pedido /\ pedidos' = pedidos
      \/ /\ \E p \in Pedidos : /\ pedido' = [pedido EXCEPT ![c] = p]
                               /\ pedidos' = [pedidos EXCEPT ![c] = p]
         /\ estado' = estado /\ pedidos[c] = SinPedido
  BY DEF ClienteSeVa, ClienteEnvia, navegadores
<1>4. /\ estado' \in [Clientes -> {"abierto", "servido"} \cup Idos]
      /\ pedido' \in [Clientes -> Pedidos \cup {SinPedido}]
      /\ pedidos' \in [Clientes -> Pedidos \cup {SinPedido}]
      /\ \A d \in Clientes : pedido'[d] \in {SinPedido, pedidos'[d]}
      /\ \A d \in Clientes : estado'[d] = "abierto" => estado[d] = "abierto"
      /\ \A d \in Clientes : pedidos[d] # SinPedido => pedidos'[d] = pedidos[d]
      /\ \A d \in Clientes : pedido[d] = pedidos[d] => pedido'[d] = pedidos'[d]
  BY <1>1, <1>3 DEF Idos
<1>5. Base'
  <2>1. Directorio' /\ \A t \in Hilos : DeTipo(t)' /\ Guarda(t)'
    BY <1>2, Quietos DEF Base, Directorio, openDS
  <2>2. Tipos'
    BY <1>2, <1>4, <2>1 DEF Base, Tipos, DeTipo, Pendiente, mainVars, hist
  <2>3. Cache'
    BY <1>2, <2>1 DEF Base, Cache, Guarda, openDS
  <2>4. QED
    BY <2>1, <2>2, <2>3 DEF Base
<1>6. ASSUME Ordenada PROVE Ordenada'
  <2>1. Pendiente' <=> Pendiente
    BY <1>2 DEF Pendiente, mainVars
  <2>2. Conexiones'
    BY <1>2, <1>6, <2>1 DEF Ordenada, Conexiones, Anda, mainVars
  <2>3. \A i \in DOMAIN backlog' : Nueva(backlog[i])'
    <3>1. ASSUME NEW i \in DOMAIN backlog PROVE Nueva(backlog[i])'
      <4>1. backlog[i] \in Clientes /\ Nueva(backlog[i])
        BY <1>1, <1>6, <3>1 DEF Ordenada, Tramites
      <4>2. QED
        BY <1>2, <1>4, <4>1 DEF Nueva
    <3>2. QED
      BY <1>2, <3>1
  <2>4. Pendiente' => Nueva(fds[stParameters])'
    <3>1. ASSUME Pendiente PROVE Nueva(fds[stParameters])'
      <4>1. fds[stParameters] \in Clientes /\ Nueva(fds[stParameters])
        BY <1>1, <1>6, <3>1 DEF Ordenada, Conexiones, Tramites
      <4>2. QED
        BY <1>2, <1>4, <4>1 DEF Nueva, mainVars
    <3>2. QED
      BY <2>1, <3>1
  <2>5. ASSUME NEW t \in Hilos PROVE EnTramite(t)'
    <3>1. CASE Anda(t)
      <4> DEFINE d == fds[hilos[t].fd]
      <4>1. EnTramite(t) /\ d \in Clientes
        BY <1>1, <1>6, <3>1 DEF Ordenada, Conexiones, Tramites, EnTramite
      <4>2. /\ fds'[hilos'[t].fd] = d /\ hilos'[t] = hilos[t] /\ respuestas' = respuestas
            /\ bd' = bd
        BY <1>2 DEF openDS
      <4>3. CASE hilos[t].pc = "recv"
        BY <1>4, <3>1, <4>1, <4>2, <4>3 DEF EnTramite, Anda
      <4>4. CASE hilos[t].pc # "recv" /\ estado'[d] = "abierto"
        <5>1. estado[d] = "abierto" /\ Atiende(t, d) /\ respuestas[d] = <<>>
          BY <1>4, <3>1, <4>1, <4>4 DEF EnTramite
        <5>2. pedidos'[d] = pedidos[d]
          BY <1>4, <4>1, <5>1 DEF Atiende
        <5>3. QED
          BY <3>1, <4>2, <4>4, <5>1, <5>2 DEF EnTramite, Anda, Atiende, Lee
      <4>5. CASE hilos[t].pc # "recv" /\ estado'[d] # "abierto"
        BY <3>1, <4>1, <4>2, <4>5 DEF EnTramite, Anda
      <4>6. QED
        BY <4>3, <4>4, <4>5
    <3>2. CASE ~ Anda(t)
      BY <1>2, <3>2 DEF EnTramite, Anda
    <3>3. QED
      BY <3>1, <3>2
  <2>6. ASSUME NEW d \in Clientes PROVE Contestada(d)'
    <3>1. Contestada(d)
      BY <1>6 DEF Ordenada, Tramites, Contestada
    <3>2. QED
      BY <1>2, <1>4, <3>1 DEF Contestada, openDS
  <2>7. QED
    BY <2>2, <2>3, <2>4, <2>5, <2>6 DEF Ordenada, Tramites, EnTramite, Contestada
<1>7. QED
  BY <1>5, <1>6

\* The directory grows; what was right stays right.
LEMMA PasoAlmacenar ==
  ASSUME Base, AlmacenarNoticia
  PROVE  Base' /\ (Ordenada => Ordenada') /\ compartido' = compartido
<1>1. PICK id \in DOMAIN Noticias \ DOMAIN bd :
        bd' = [i \in DOMAIN bd \cup {id} |-> Noticias[i]]
  BY DEF AlmacenarNoticia
<1>2. /\ UNCHANGED <<mainVars, fds, hilos, navegadores, estado, pedido, respuestas,
                     cache, vivo, openDSArriba, sesionPerdida, hist>>
      /\ bd = [i \in DOMAIN bd |-> Noticias[i]] /\ DOMAIN bd \subseteq DOMAIN Noticias
      /\ \A i \in DOMAIN bd : bd[i] = Noticias[i]
  BY DEF AlmacenarNoticia, Base, Directorio
<1>3. /\ DOMAIN bd \subseteq DOMAIN bd' /\ \A i \in DOMAIN bd : bd'[i] = bd[i]
  BY <1>1, <1>2
<1>4. /\ \A r, p : Bien(bd, r, p) => Bien(bd', r, p)
      /\ \A i, n : Hallada(bd, i, n) => Hallada(bd', i, n)
  BY <1>3, BienCrece, HalladaCrece
<1>5. Directorio'
  BY <1>1, <1>2 DEF Base, Directorio
<1>6. Tipos'
  BY <1>2 DEF Base, Tipos, Pendiente, Anda, Lee, mainVars, navegadores, hist
<1>7. Cache'
  BY <1>2, <1>4 DEF Base, Cache
<1>8. ASSUME Ordenada PROVE Ordenada'
  <2>1. Conexiones'
    BY <1>2, <1>8 DEF Ordenada, Conexiones, Pendiente, Anda, mainVars, navegadores
  <2>2. ASSUME NEW t \in Hilos PROVE EnTramite(t)'
    <3>1. EnTramite(t)
      BY <1>8 DEF Ordenada, Tramites, EnTramite
    <3>2. QED
      BY <1>2, <1>4, <3>1 DEF EnTramite, Anda, Atiende, Lee, navegadores
  <2>3. /\ \A i \in DOMAIN backlog' : Nueva(backlog[i])'
        /\ Pendiente' => Nueva(fds[stParameters])'
        /\ \A d \in Clientes : Contestada(d)'
    BY <1>2, <1>4, <1>8 DEF Ordenada, Tramites, Nueva, Pendiente, Contestada, mainVars,
       navegadores
  <2>4. QED
    BY <2>1, <2>2, <2>3 DEF Ordenada, Tramites, EnTramite, Contestada
<1>9. QED
  BY <1>2, <1>5, <1>6, <1>7, <1>8 DEF Base, hist

\* memcached and OpenDS by themselves, and stuttering.
LEMMA PasoQuieto ==
  ASSUME Base, Memcached_olvida \/ CaeOVuelveOpenDS \/ UNCHANGED vars
  PROVE  Base' /\ (Ordenada => Ordenada') /\ compartido' = compartido
<1>1. UNCHANGED <<mainVars, fds, hilos, navegadores, estado, pedido, respuestas, vivo,
                  bd, hist>>
  BY DEF Memcached_olvida, CaeOVuelveOpenDS, vars, openDS
<1>2. Directorio'
  BY DEF Base, Directorio, Memcached_olvida, CaeOVuelveOpenDS, vars, openDS
<1>3. Tipos'
  BY <1>1 DEF Base, Tipos, Pendiente, Anda, Lee, mainVars, navegadores, hist
<1>4. Cache'
  <2>1. /\ DOMAIN cache' \subseteq DOMAIN cache
        /\ \A k \in DOMAIN cache' : cache'[k] = cache[k]
    BY DEF Memcached_olvida, CaeOVuelveOpenDS, vars
  <2>2. QED
    BY <1>1, <2>1 DEF Base, Cache
<1>5. ASSUME Ordenada PROVE Ordenada'
  <2>1. Conexiones'
    BY <1>1, <1>5 DEF Ordenada, Conexiones, Pendiente, Anda, mainVars, navegadores
  <2>2. ASSUME NEW t \in Hilos PROVE EnTramite(t)'
    <3>1. EnTramite(t)
      BY <1>5 DEF Ordenada, Tramites, EnTramite
    <3>2. QED
      BY <1>1, <3>1 DEF EnTramite, Anda, Atiende, Lee, navegadores
  <2>3. /\ \A i \in DOMAIN backlog' : Nueva(backlog[i])'
        /\ Pendiente' => Nueva(fds[stParameters])'
        /\ \A d \in Clientes : Contestada(d)'
    BY <1>1, <1>5 DEF Ordenada, Tramites, Nueva, Pendiente, Contestada, mainVars,
       navegadores
  <2>4. QED
    BY <2>1, <2>2, <2>3 DEF Ordenada, Tramites, EnTramite, Contestada
<1>6. QED
  BY <1>1, <1>2, <1>3, <1>4, <1>5 DEF Base, hist

-----------------------------------------------------------------------------
(* The invariant holds.                                                    *)

\* The backlog starts with every browser, once.
LEMMA BacklogInicial ==
  /\ SetToSeq(Clientes) \in Seq(Clientes)
  /\ \A i, j \in DOMAIN SetToSeq(Clientes) :
       SetToSeq(Clientes)[i] = SetToSeq(Clientes)[j] => i = j
<1> DEFINE n == Cardinality(Clientes)
<1>1. n \in Nat /\ ExistsBijection(1..n, Clientes)
  BY HTTPServerAssumption, FS_CardinalityType
<1>2. PICK f \in Bijection(1..n, Clientes) : TRUE
  BY <1>1, Zenon DEF ExistsBijection
<1>3. f \in [1..n -> Clientes] /\ IsInjective(f)
  BY <1>2, Zenon DEF Bijection, Injection
<1>4. /\ SetToSeq(Clientes) \in [1..n -> Clientes]
      /\ IsInjective(SetToSeq(Clientes))
  BY <1>3, Zenon DEF SetToSeq
<1>5. SetToSeq(Clientes) \in Seq(Clientes)
  <2> HIDE DEF n
  <2>1. QED
    BY <1>1, <1>4
<1>6. QED
  BY <1>4, <1>5, Zenon DEF IsInjective

LEMMA Comienzo == Init => Http
<1> SUFFICES ASSUME Init PROVE Http
  OBVIOUS
<1>1. /\ HiloLibre \in Registro /\ HiloLibre.pc = "libre"
  BY Entre DEF HiloLibre, Registro, Lugares
<1>2. /\ hilos = [t \in Hilos |-> HiloLibre] /\ hilos \in [Hilos -> Registro]
      /\ \A t \in Hilos : hilos[t].pc = "libre"
      /\ fds = [f \in Fds |-> NoCliente] /\ mainHttp = "accept" /\ stParameters = NoFd
      /\ backlog = SetToSeq(Clientes)
      /\ respuestas = [c \in Clientes |-> <<>>]
      /\ pedido = [c \in Clientes |-> SinPedido] /\ pedidos = pedido
  BY <1>1 DEF Init
<1>3. ~ Pendiente /\ \A t \in Hilos : ~ Anda(t) /\ ~ Lee(t)
  BY <1>2 DEF Pendiente, Anda, Lee
<1>4. backlog \in Seq(Clientes) /\ \A i, j \in DOMAIN backlog : backlog[i] = backlog[j] => i = j
  BY <1>2, BacklogInicial
<1>5. Directorio
  <2>1. PICK S \in SUBSET DOMAIN Noticias : bd = [i \in S |-> Noticias[i]]
    BY DEF Init
  <2>2. QED
    BY <2>1 DEF Init, Directorio
<1>6. Tipos
  <2>1. <<>> \in Seq(Posibles)
    OBVIOUS
  <2>2. respuestas \in [Clientes -> Seq(Posibles)]
    BY <1>2, <2>1
  <2>3. /\ estado \in [Clientes -> {"abierto", "servido"} \cup Idos]
        /\ pedido \in [Clientes -> Pedidos \cup {SinPedido}]
        /\ pedidos \in [Clientes -> Pedidos \cup {SinPedido}]
        /\ \A c \in Clientes : pedido[c] \in {SinPedido, pedidos[c]}
        /\ fds \in [Fds -> Clientes \cup {NoCliente}]
    BY <1>2 DEF Init
  <2>4. vivo \in BOOLEAN /\ compartido \in BOOLEAN /\ desatendidos \subseteq Clientes
    BY DEF Init
  <2>5. \A t \in Hilos : hilos[t].pc \notin {"memcached_get", "getArticle", "memcached_set"}
    BY <1>2
  <2>6. QED
    BY <1>2, <1>3, <1>4, <2>2, <2>3, <2>4, <2>5 DEF Tipos
<1>7. Cache
  BY <1>2 DEF Init, Cache
<1>8. Conexiones
  BY <1>2, <1>3, <1>4, NombresAssumption DEF Conexiones
<1>9. Tramites
  <2>1. \A i \in DOMAIN backlog : Nueva(backlog[i])
    BY <1>2, <1>4 DEF Nueva
  <2>2. QED
    BY <1>2, <1>3, <2>1 DEF Tramites
<1>10. QED
  BY <1>5, <1>6, <1>7, <1>8, <1>9 DEF Http, Base, Ordenada

\* Once the parameters of a thread were overwritten, the order is lost for good.
LEMMA PasoHttp ==
  Base /\ [Next]_vars =>
    /\ Base' /\ (compartido' = FALSE => compartido = FALSE)
    /\ (compartido' = FALSE /\ Ordenada => Ordenada')
<1> SUFFICES ASSUME Base, [Next]_vars
             PROVE  /\ Base' /\ (compartido' = FALSE => compartido = FALSE)
                    /\ (compartido' = FALSE /\ Ordenada => Ordenada')
  OBVIOUS
<1>1. CASE Accept
  <2>1. compartido \in BOOLEAN
    BY DEF Base, Tipos
  <2>2. compartido' = FALSE => compartido = FALSE
    BY <1>1, <2>1 DEF Accept
  <2>3. QED
    BY <1>1, <2>2, PasoAccept
<1>2. CASE Thr_create
  BY <1>2, PasoThrCreate
<1>3. CASE \E t \in Hilos : Hilo(t)
  BY <1>3, PasoDeHilo
<1>4. CASE (\E c \in Clientes : ClienteSeVa(c))
           \/ (\E c \in Clientes, p \in Pedidos : ClienteEnvia(c, p))
  <2>1. PICK c \in Clientes : ClienteSeVa(c) \/ (\E p \in Pedidos : ClienteEnvia(c, p))
    BY <1>4
  <2>2. compartido' = compartido
    BY <2>1 DEF ClienteSeVa, ClienteEnvia, hist
  <2>3. QED
    BY <2>1, <2>2, PasoDelNavegador
<1>5. CASE GestionarSenialCtrlC
  <2>1. compartido' = compartido
    BY <1>5 DEF GestionarSenialCtrlC, hist
  <2>2. QED
    BY <1>5, <2>1, PasoMorir DEF GestionarSenialCtrlC
<1>6. CASE AlmacenarNoticia
  BY <1>6, PasoAlmacenar
<1>7. CASE Memcached_olvida \/ CaeOVuelveOpenDS \/ UNCHANGED vars
  BY <1>7, PasoQuieto
<1>8. QED
  BY <1>1, <1>2, <1>3, <1>4, <1>5, <1>6, <1>7 DEF Next, Main, Entorno

LEMMA BaseSiempre == Spec => []Base
<1>1. Init => Base
  BY Comienzo DEF Http
<1>2. Base /\ [Next]_vars => Base'
  BY PasoHttp
<1>3. QED
  BY <1>1, <1>2, PTL DEF Spec

LEMMA HttpSiempre == Spec => []Http
<1>1. Init => Http
  BY Comienzo
<1>2. Http /\ [Next]_vars => Http'
  BY PasoHttp DEF Http
<1>3. QED
  BY <1>1, <1>2, PTL DEF Spec

-----------------------------------------------------------------------------
(* The way of a link.                                                      *)

\* The first k values of a function, as a sequence.
LEMMA SecuenciaDe ==
  ASSUME NEW S, NEW k \in Nat, NEW f, \A i \in 1 .. k : f[i] \in S
  PROVE  [i \in 1 .. k |-> f[i]] \in Seq(S)
OBVIOUS

\* Pieces that the browser sends one by one come out of FlattenSeq as they are.
LEMMA UnoPorUno ==
  ASSUME NEW N \in Nat \ {0}, NEW f, DOMAIN f = 1 .. N, f = [i \in 1 .. N |-> f[i]]
  PROVE  FlattenSeq([i \in 1 .. N |-> <<f[i]>>]) = f
<1> DEFINE s == [i \in 1 .. N |-> <<f[i]>>]
           S == {f[i] : i \in 1 .. N}
           hasta(n) == [i \in 1 .. n |-> f[i]]
           Bloque(n, antes) == IF n = 1 THEN s[n] ELSE antes \o s[n]
           Solucion(g) == g = [n \in 1 .. N |-> Bloque(n, g[n - 1])]
<1>1. Len(s) = N /\ N # 0
  OBVIOUS
<1>2. FlattenSeq(s) = (CHOOSE g : Solucion(g))[N]
  BY <1>1 DEF FlattenSeq
<1>3. ASSUME NEW n \in 2 .. N
      PROVE  hasta(n - 1) \o s[n] = hasta(n)
  <2>0. n \in Nat /\ n - 1 \in Nat /\ n \in 1 .. N /\ \A i \in 1 .. n : f[i] \in S
    OBVIOUS
  <2>2. /\ s[n] = <<f[n]>> /\ f[n] \in S /\ \A i \in 1 .. n - 1 : f[i] \in S
        /\ Len(s[n]) = 1 /\ s[n][1] = f[n]
    BY <2>0
  <2> HIDE DEF S, s
  <2>9. ASSUME NEW k \in Nat, \A i \in 1 .. k : f[i] \in S
        PROVE  hasta(k) \in Seq(S)
    BY <2>9, SecuenciaDe
  <2>1. hasta(n - 1) \in Seq(S) /\ s[n] \in Seq(S) /\ hasta(n) \in Seq(S)
    <3>1. s[n] \in Seq(S)
      BY <2>2
    <3> HIDE DEF hasta
    <3>2. QED
      BY <2>0, <2>2, <2>9, <3>1
  <2>7. Len(hasta(n - 1)) = n - 1 /\ Len(hasta(n)) = n
    BY <2>0
  <2> DEFINE t == hasta(n - 1) \o s[n]
  <2>3. /\ t \in Seq(S) /\ Len(t) = n
        /\ \A i \in 1 .. n : t[i] = IF i <= n - 1 THEN hasta(n - 1)[i] ELSE s[n][i - (n - 1)]
    BY <2>0, <2>1, <2>2, <2>7, ConcatProperties
  <2>4. \A i \in 1 .. n : t[i] = hasta(n)[i]
    <3> HIDE DEF t
    <3>1. \A i \in 1 .. n : /\ i <= n - 1 => hasta(n - 1)[i] = f[i]
                            /\ ~ (i <= n - 1) => i = n /\ i - (n - 1) = 1
                            /\ hasta(n)[i] = f[i]
      BY <2>0
    <3> HIDE DEF hasta
    <3>2. QED
      BY <2>0, <2>2, <2>3, <3>1
  <2> HIDE DEF t
  <2>8. DOMAIN t = 1 .. n /\ DOMAIN hasta(n) = 1 .. n /\ t = [i \in 1 .. n |-> t[i]]
    BY <2>0, <2>3
  <2>5. t = hasta(n)
    BY <2>4, <2>8
  <2>6. QED
    BY <2>5 DEF t
<1>4. hasta(1) = s[1]
  OBVIOUS
<1> HIDE DEF s, hasta
<1>5. \E g : Solucion(g)
  <2> DEFINE g == [n \in 1 .. N |-> hasta(n)]
  <2>1. \A n \in 1 .. N : Bloque(n, g[n - 1]) = hasta(n)
    <3>1. ASSUME NEW n \in 1 .. N, n # 1
          PROVE  g[n - 1] = hasta(n - 1) /\ n \in 2 .. N
      BY <3>1
    <3> HIDE DEF g
    <3>2. QED
      BY <1>3, <1>4, <3>1
  <2>2. Solucion(g)
    BY <2>1
  <2>3. QED
    BY <2>2
<1>6. ASSUME NEW g, Solucion(g)
      PROVE  g[N] = hasta(N)
  <2> DEFINE P == {k \in 0 .. N : k # 0 => g[k] = hasta(k)}
  <2>1. 0 \in P
    OBVIOUS
  <2>2. ASSUME NEW k \in 0 .. N - 1, k \in P
        PROVE  k + 1 \in P
    <3>1. k + 1 \in 1 .. N /\ (k + 1) - 1 = k
      OBVIOUS
    <3>2. g[k + 1] = Bloque(k + 1, g[k])
      BY <1>6, <3>1
    <3>3. CASE k = 0
      BY <1>4, <3>1, <3>2, <3>3
    <3>4. CASE k # 0
      <4>1. g[k] = hasta(k) /\ k + 1 \in 2 .. N /\ k + 1 # 1
        BY <2>2, <3>4
      <4>2. Bloque(k + 1, g[k]) = hasta(k + 1)
        BY <1>3, <3>1, <4>1
      <4>3. QED
        BY <3>1, <3>2, <4>2
    <3>5. QED
      BY <3>3, <3>4
  <2> HIDE DEF P
  <2>3. 0 .. N \subseteq P
    BY <2>1, <2>2, InduccionHasta
  <2>4. QED
    BY <2>3 DEF P
<1> HIDE DEF Solucion
<1>7. FlattenSeq(s) = hasta(N)
  BY <1>2, <1>5, <1>6
<1>8. QED
  BY <1>7 DEF s, hasta

\* Where a piece is found, by what is before it.
LEMMA PrimeraEn ==
  ASSUME NEW s, NEW x, Len(s) \in Nat
  PROVE  /\ \A k \in 1 .. Len(s) :
              s[k] = x /\ (\A j \in 1 .. k - 1 : s[j] # x) => Primera(s, x) = k
         /\ (\A j \in 1 .. Len(s) : s[j] # x) => Primera(s, x) = 0
<1> DEFINE I == {i \in 1 .. Len(s) : s[i] = x}
<1>1. Primera(s, x) = IF I # {} THEN Min(I) ELSE 0
  BY DEF Primera, SelectInSeq
<1>2. ASSUME NEW k \in 1 .. Len(s), s[k] = x, \A j \in 1 .. k - 1 : s[j] # x
      PROVE  Primera(s, x) = k
  <2>1. k \in I /\ \A j \in I : k <= j
    BY <1>2
  <2>2. \A m \in I : (\A j \in I : m <= j) => m = k
    BY <2>1
  <2>3. Min(I) = k
    BY <2>1, <2>2 DEF Min
  <2>4. QED
    BY <1>1, <2>1, <2>3
<1>3. QED
  BY <1>1, <1>2

\* What the browser sends for a piece, and what needs nothing else.
Enviada(x) == IF x \in DOMAIN codificar THEN codificar[x][1] ELSE x
Llano(x) == x \notin Cortes /\ (x \in DOMAIN codificar => x = Espacio)

LEMMA PiezasDistintas ==
  /\ Espacio # Barra /\ Espacio # Punto /\ Barra # Punto
  /\ "GET" \notin {Espacio, Barra, Punto}
BY Zenon DEF Espacio, Barra, Punto

\* A space comes as a "%XX", any other piece as it is.
LEMMA EnvioLlano ==
  ASSUME NEW x, Llano(x)
  PROVE  /\ Codificado(x) = <<Enviada(x)>>
         /\ x = Espacio => Enviada(x) \in Escapes
         /\ x # Espacio => Enviada(x) = x
         /\ Enviada(x) # Espacio
<1>1. PICK e \in Escapes : codificar[Espacio] = <<e>>
  BY CodificarAssumption
<1>2. Espacio \notin Escapes /\ Espacio \in DOMAIN codificar
  BY CodificarAssumption
<1>3. QED
  BY <1>1, <1>2 DEF Llano, Codificado, Enviada

\* A URL with nothing that ends it is sent whole.
LEMMA SinCorte ==
  ASSUME NEW u, Len(u) \in Nat, \A i \in 1 .. Len(u) : u[i] \notin Cortes
  PROVE  HastaElCorte(u) = u
<1> DEFINE I == {i \in 1 .. Len(u) : u[i] \in Cortes}
<1>1. I = {}
  OBVIOUS
<1>2. SelectInSeq(u, LAMBDA x : x \in Cortes) = IF I # {} THEN Min(I) ELSE 0
  BY DEF SelectInSeq
<1>3. QED
  BY <1>1, <1>2 DEF HastaElCorte

\* The request line of a URL.
LEMMA MensajeDeURL ==
  ASSUME NEW p, NEW T, Url(p) \in Seq(T), Url(p) # <<>>,
         \A i \in 1 .. Len(Url(p)) : Llano(Url(p)[i])
  PROVE  LET s == sMensajeHTTPCliente(p)
             m == Len(Url(p))
         IN /\ \E S : s \in Seq(S)
            /\ Len(s) = m + 8
            /\ s[1] = "GET" /\ s[2] = Espacio
            /\ \A i \in 1 .. m : s[i + 2] = Enviada(Url(p)[i])
            /\ s[m + 3] = Espacio
<1> DEFINE u == Url(p)
           m == Len(u)
           w == [i \in 1 .. m |-> Enviada(u[i])]
           S == {Enviada(x) : x \in T} \cup {Espacio, Barra, Punto, "GET", "HTTP", "1"}
           ini == <<"GET", Espacio>>
           fin == <<Espacio, "HTTP", Barra, "1", Punto, "1">>
           s == sMensajeHTTPCliente(p)
<1>1. m \in Nat /\ m # 0 /\ DOMAIN u = 1 .. m
  OBVIOUS
<1>2. [i \in DOMAIN u |-> Codificado(u[i])] = [i \in 1 .. m |-> <<w[i]>>]
  BY <1>1, EnvioLlano
<1>3. w \in Seq(S) /\ Len(w) = m /\ DOMAIN w = 1 .. m /\ w = [i \in 1 .. m |-> w[i]]
      /\ \A i \in 1 .. m : w[i] = Enviada(u[i])
  BY <1>1
<1> HIDE DEF w
<1>4. FlattenSeq([i \in 1 .. m |-> <<w[i]>>]) = w
  BY <1>1, <1>3, UnoPorUno
<1>5. s = ini \o w \o fin
  <2>1. HastaElCorte(u) = u
    BY <1>1, SinCorte DEF Llano
  <2>2. QED
    BY <1>2, <1>4, <2>1 DEF sMensajeHTTPCliente
<1>6. /\ ini \in Seq(S) /\ Len(ini) = 2 /\ ini[1] = "GET" /\ ini[2] = Espacio
      /\ fin \in Seq(S) /\ Len(fin) = 6 /\ fin[1] = Espacio
  OBVIOUS
<1> HIDE DEF ini, fin, S, s, u, m
<1> DEFINE r == ini \o w
<1>7. /\ r \in Seq(S) /\ Len(r) = m + 2
      /\ \A i \in 1 .. m + 2 : r[i] = IF i <= 2 THEN ini[i] ELSE w[i - 2]
  <2>1. /\ r \in Seq(S) /\ Len(r) = Len(ini) + Len(w)
        /\ \A i \in 1 .. Len(ini) + Len(w) : r[i] = IF i <= Len(ini) THEN ini[i] ELSE w[i - Len(ini)]
    BY <1>3, <1>6, ConcatProperties
  <2> HIDE DEF r
  <2>2. Len(ini) + Len(w) = m + 2
    BY <1>1, <1>3, <1>6
  <2>3. QED
    BY <1>6, <2>1, <2>2
<1>8. /\ s \in Seq(S) /\ Len(s) = m + 8
      /\ \A i \in 1 .. m + 8 : s[i] = IF i <= m + 2 THEN r[i] ELSE fin[i - (m + 2)]
  <2>1. s = r \o fin
    BY <1>5
  <2> HIDE DEF r
  <2>2. /\ s \in Seq(S) /\ Len(s) = Len(r) + Len(fin)
        /\ \A i \in 1 .. Len(r) + Len(fin) : s[i] = IF i <= Len(r) THEN r[i] ELSE fin[i - Len(r)]
    BY <1>6, <1>7, <2>1, ConcatProperties
  <2>3. Len(r) + Len(fin) = m + 8
    BY <1>1, <1>6, <1>7
  <2>4. QED
    BY <1>7, <2>2, <2>3
<1> HIDE DEF r
<1>9. s[1] = "GET" /\ s[2] = Espacio
  <2>1. 1 \in 1 .. m + 2 /\ 2 \in 1 .. m + 2 /\ 1 \in 1 .. m + 8 /\ 2 \in 1 .. m + 8
    BY <1>1
  <2>2. QED
    BY <1>1, <1>6, <1>7, <1>8, <2>1
<1>10. \A i \in 1 .. m : s[i + 2] = Enviada(u[i])
  <2>1. \A i \in 1 .. m : /\ i + 2 \in 1 .. m + 2 /\ i + 2 \in 1 .. m + 8
                          /\ ~ (i + 2 <= 2) /\ (i + 2) - 2 = i /\ i + 2 <= m + 2
    BY <1>1
  <2>2. \A i \in 1 .. m : s[i + 2] = r[i + 2] /\ r[i + 2] = w[i]
    BY <1>7, <1>8, <2>1
  <2>3. QED
    BY <1>3, <2>2
<1>11. s[m + 3] = Espacio
  <2>1. m + 3 \in 1 .. m + 8 /\ ~ (m + 3 <= m + 2) /\ (m + 3) - (m + 2) = 1
    BY <1>1
  <2>2. QED
    BY <1>6, <1>8, <2>1
<1>12. QED
  BY <1>8, <1>9, <1>10, <1>11 DEF s, u, m

\* A link, "/" first and ".html" last, is found again in its request.
LEMMA RecursoDeEnlace ==
  ASSUME NEW p, NEW T, NEW b \in Seq(T), Url(p) = b \o Html,
         Len(b) >= 2, b[1] = Barra,
         \A i \in 1 .. Len(b) : b[i] # Punto /\ b[i] \notin Escapes /\ Llano(b[i])
  PROVE  LET r == obtenerRecursoDeCabecera(sMensajeHTTPCliente(p))
         IN r = [i \in 1 .. Len(b) |-> Enviada(b[i])] /\ formatearEspacios(r) = b
<1> DEFINE m == Len(b)
           S == T \cup {Punto, "html"}
           u == b \o Html
           s == sMensajeHTTPCliente(p)
           r == [i \in 1 .. m |-> Enviada(b[i])]
<1>0. m \in Nat /\ m >= 2 /\ b \in Seq(S) /\ b = [i \in 1 .. m |-> b[i]]
  OBVIOUS
<1>1. Html \in Seq(S) /\ Len(Html) = 2 /\ Html[1] = Punto /\ Html[2] = "html"
  BY DEF Html
<1>2. /\ u \in Seq(S) /\ Len(u) = m + 2
      /\ \A i \in 1 .. m : u[i] = b[i]
      /\ u[m + 1] = Punto /\ u[m + 2] = "html"
  <2> HIDE DEF S
  <2>1. /\ u \in Seq(S) /\ Len(u) = Len(b) + Len(Html)
        /\ \A i \in 1 .. Len(b) + Len(Html) : u[i] = IF i <= Len(b) THEN b[i] ELSE Html[i - Len(b)]
    BY <1>0, <1>1, ConcatProperties
  <2> HIDE DEF u
  <2>2. Len(u) = m + 2 /\ \A i \in 1 .. m + 2 : u[i] = IF i <= m THEN b[i] ELSE Html[i - m]
    BY <1>1, <2>1
  <2>3. /\ m + 1 \in 1 .. m + 2 /\ ~ (m + 1 <= m) /\ (m + 1) - m = 1
        /\ m + 2 \in 1 .. m + 2 /\ ~ (m + 2 <= m) /\ (m + 2) - m = 2
        /\ \A i \in 1 .. m : i \in 1 .. m + 2 /\ i <= m
    BY <1>0
  <2>4. QED
    BY <1>1, <2>1, <2>2, <2>3
<1> HIDE DEF u, S, s
<1>3. \A i \in 1 .. Len(u) : Llano(u[i])
  <2>1. Llano(Punto) /\ Llano("html")
    BY CodificarAssumption DEF Llano
  <2>2. \A i \in 1 .. Len(u) : i \in 1 .. m \/ i = m + 1 \/ i = m + 2
    BY <1>0, <1>2
  <2>3. QED
    BY <1>2, <2>1, <2>2
<1>4. /\ \E Z : s \in Seq(Z)
      /\ Len(s) = m + 10 /\ s[1] = "GET" /\ s[2] = Espacio
      /\ \A i \in 1 .. m + 2 : s[i + 2] = Enviada(u[i])
  <2>1. Url(p) = u /\ u # <<>>
    BY <1>0, <1>2 DEF u
  <2>2. Url(p) \in Seq(S) /\ Url(p) # <<>> /\ \A i \in 1 .. Len(Url(p)) : Llano(Url(p)[i])
    BY <1>2, <1>3, <2>1
  <2>3. /\ \E Z : s \in Seq(Z)
        /\ Len(s) = Len(Url(p)) + 8 /\ s[1] = "GET" /\ s[2] = Espacio
        /\ \A i \in 1 .. Len(Url(p)) : s[i + 2] = Enviada(Url(p)[i])
    BY <2>2, MensajeDeURL DEF s
  <2>4. Len(u) + 8 = m + 10
    BY <1>0, <1>2
  <2>5. QED
    BY <1>2, <2>1, <2>3, <2>4
<1>5. \A i \in 1 .. m : s[i + 2] = Enviada(b[i])
  BY <1>0, <1>2, <1>4
<1>6. s[m + 3] = Punto
  <2>1. m + 1 \in 1 .. m + 2 /\ (m + 1) + 2 = m + 3
    BY <1>0
  <2>2. Enviada(Punto) = Punto
    BY CodificarAssumption DEF Enviada
  <2>3. QED
    BY <1>2, <1>4, <2>1, <2>2
<1>7. \A i \in 1 .. m : /\ Enviada(b[i]) # Punto /\ Enviada(b[i]) # Espacio
                        /\ b[i] = Espacio => Enviada(b[i]) \in Escapes
                        /\ b[i] # Espacio => Enviada(b[i]) = b[i]
  BY EnvioLlano, CodificarAssumption
<1>8. Primera(s, Barra) = 3 /\ s[4] # Espacio
  <2>1. Enviada(Barra) = Barra
    BY CodificarAssumption DEF Enviada
  <2>2. 1 \in 1 .. m /\ 2 \in 1 .. m /\ 3 \in 1 .. Len(s) /\ Len(s) \in Nat
    BY <1>0, <1>4
  <2>3. 1 + 2 = 3 /\ 2 + 2 = 4
    OBVIOUS
  <2>4. s[3] = Barra /\ s[4] # Espacio
    BY <1>5, <1>7, <2>1, <2>2, <2>3
  <2>5. \A j \in 1 .. 3 - 1 : s[j] # Barra
    <3>1. \A j \in 1 .. 3 - 1 : j = 1 \/ j = 2
      OBVIOUS
    <3>2. QED
      BY <1>4, <3>1, PiezasDistintas
  <2>6. QED
    BY <2>2, <2>4, <2>5, PrimeraEn
<1>9. Primera(s, Punto) = m + 3
  <2>1. m + 3 \in 1 .. Len(s) /\ Len(s) \in Nat
    BY <1>0, <1>4
  <2>2. \A j \in 1 .. (m + 3) - 1 : s[j] # Punto
    <3>1. \A j \in 1 .. (m + 3) - 1 : j = 1 \/ j = 2 \/ (j - 2 \in 1 .. m /\ (j - 2) + 2 = j)
      BY <1>0
    <3>2. \A j \in 1 .. m : s[j + 2] # Punto
      BY <1>5, <1>7
    <3>3. QED
      BY <1>4, <3>1, <3>2, PiezasDistintas
  <2>3. QED
    BY <1>6, <2>1, <2>2, PrimeraEn
<1>10. SubSeq(s, 3, (m + 3) - 1) = r
  <2>1. PICK Z : s \in Seq(Z)
    BY <1>4
  <2>2. /\ (m + 3) - 1 \in Nat /\ 3 \in 1 .. Len(s) + 1 /\ (m + 3) - 1 \in 3 - 1 .. Len(s)
        /\ (m + 3) - 1 - 3 + 1 = m
    BY <1>0, <1>4
  <2> DEFINE q == SubSeq(s, 3, (m + 3) - 1)
  <2>3. /\ q \in Seq(Z) /\ Len(q) = m
        /\ \A i \in 1 .. m : q[i] = s[3 + i - 1]
    BY <1>0, <1>4, <2>1, <2>2, SubSeqProperties
  <2> HIDE DEF q
  <2>4. \A i \in 1 .. m : q[i] = r[i]
    <3>1. \A i \in 1 .. m : 3 + i - 1 = i + 2
      BY <1>0
    <3>2. QED
      BY <1>5, <2>3, <3>1
  <2>5. q = [i \in 1 .. m |-> q[i]]
    BY <2>3
  <2>6. q = r
    BY <2>4, <2>5
  <2>7. QED
    BY <2>6 DEF q
<1> HIDE DEF r
<1>11. obtenerRecursoDeCabecera(s) = r
  <2>1. s[Primera(s, Barra) + 1] # Espacio
    <3>1. 3 + 1 = 4
      OBVIOUS
    <3>2. QED
      BY <1>8, <3>1
  <2>2. QED
    BY <1>8, <1>9, <1>10, <2>1 DEF obtenerRecursoDeCabecera
<1>12. formatearEspacios(r) = b
  <2>1. DOMAIN r = 1 .. m /\ \A i \in 1 .. m : r[i] = Enviada(b[i])
    BY DEF r
  <2>2. \A i \in 1 .. m : (IF r[i] \in Escapes THEN Espacio ELSE r[i]) = b[i]
    BY <1>7, <2>1
  <2>3. QED
    BY <1>0, <2>1, <2>2 DEF formatearEspacios
<1>13. QED
  BY <1>11, <1>12 DEF s, r

\* "/" is the whole URL of the index.
LEMMA InicioDerecho ==
  ASSUME NEW p, p.tipo = "index"
  PROVE  Interpretado(p) = [tipo |-> "index"]
<1> DEFINE s == sMensajeHTTPCliente(p)
<1>1. Url(p) = <<Barra>>
  BY DEF Url
<1>2. Url(p) \in Seq({Barra}) /\ Url(p) # <<>> /\ Len(Url(p)) = 1 /\ Url(p)[1] = Barra
  BY <1>1
<1>3. \A i \in 1 .. Len(Url(p)) : Llano(Url(p)[i])
  <2>1. Llano(Barra)
    BY CodificarAssumption DEF Llano
  <2>2. QED
    BY <1>2, <2>1
<1>4. /\ Len(s) = 9 /\ s[1] = "GET" /\ s[2] = Espacio
      /\ s[3] = Barra /\ s[4] = Espacio
  <2>1. /\ Len(s) = Len(Url(p)) + 8 /\ s[1] = "GET" /\ s[2] = Espacio
        /\ \A i \in 1 .. Len(Url(p)) : s[i + 2] = Enviada(Url(p)[i])
        /\ s[Len(Url(p)) + 3] = Espacio
    BY <1>2, <1>3, MensajeDeURL
  <2> HIDE DEF s
  <2>2. 1 \in 1 .. Len(Url(p)) /\ 1 + 2 = 3 /\ 1 + 3 = 4 /\ 1 + 8 = 9
    BY <1>2
  <2>3. Enviada(Barra) = Barra
    BY CodificarAssumption DEF Enviada
  <2>4. QED
    BY <1>2, <2>1, <2>2, <2>3
<1> HIDE DEF s
<1>5. Primera(s, Barra) = 3
  <2>1. 3 \in 1 .. Len(s) /\ Len(s) \in Nat
    BY <1>4
  <2>2. \A j \in 1 .. 3 - 1 : s[j] # Barra
    <3>1. \A j \in 1 .. 3 - 1 : j = 1 \/ j = 2
      OBVIOUS
    <3>2. QED
      BY <1>4, <3>1, PiezasDistintas
  <2>3. QED
    BY <1>4, <2>1, <2>2, PrimeraEn
<1>6. obtenerRecursoDeCabecera(s) = <<Barra>>
  <2>1. s[Primera(s, Barra) + 1] = Espacio
    <3>1. 3 + 1 = 4
      OBVIOUS
    <3>2. QED
      BY <1>4, <1>5, <3>1
  <2>2. QED
    BY <2>1 DEF obtenerRecursoDeCabecera
<1>7. <<Barra>> # <<Barra, "favicon">>
  <2>1. Len(<<Barra>>) = 1 /\ Len(<<Barra, "favicon">>) = 2
    OBVIOUS
  <2>2. QED
    BY <2>1
<1>8. QED
  BY <1>6, <1>7 DEF s, Interpretado

\* A sequence without a "%XX" is left as it is.
LEMMA SinEscape ==
  ASSUME NEW x, DOMAIN x = 1 .. Len(x), x = [i \in 1 .. Len(x) |-> x[i]],
         \A i \in 1 .. Len(x) : x[i] \notin Escapes
  PROVE  formatearEspacios(x) = x
BY DEF formatearEspacios

\* No link to a newsgroup or an article is taken for a page of the server.
LEMMA NoEsPagina ==
  ASSUME NEW T, NEW b \in Seq(T), NEW r, formatearEspacios(r) = b,
         b \notin {<<Barra>>, <<Barra, "favicon">>, <<Barra, "index">>}
  PROVE  r \notin {<<Barra>>, <<Barra, "favicon">>, <<Barra, "index">>}
<1>1. Barra \notin Escapes /\ "favicon" \notin Escapes /\ "index" \notin Escapes
  BY CodificarAssumption
<1>2. formatearEspacios(<<Barra>>) = <<Barra>>
  <2> DEFINE x == <<Barra>>
  <2>1. DOMAIN x = 1 .. Len(x) /\ x = [i \in 1 .. Len(x) |-> x[i]] /\ \A i \in 1 .. Len(x) : x[i] \notin Escapes
    BY <1>1
  <2> HIDE DEF x
  <2>2. formatearEspacios(x) = x
    BY <2>1, SinEscape
  <2>3. QED
    BY <2>2 DEF x
<1>3. ASSUME NEW y \in {"favicon", "index"}
      PROVE  formatearEspacios(<<Barra, y>>) = <<Barra, y>>
  <2> DEFINE x == <<Barra, y>>
  <2>1. /\ DOMAIN x = 1 .. Len(x) /\ x = [i \in 1 .. Len(x) |-> x[i]]
        /\ Len(x) = 2 /\ x[1] = Barra /\ x[2] = y
    OBVIOUS
  <2> HIDE DEF x
  <2>2. \A i \in 1 .. Len(x) : x[i] \notin Escapes
    BY <1>1, <2>1
  <2>3. formatearEspacios(x) = x
    BY <2>1, <2>2, SinEscape
  <2>4. QED
    BY <2>3 DEF x
<1>4. QED
  BY <1>2, <1>3

\* A name between slashes, and what follows the second.
LEMMA Partido ==
  ASSUME NEW T, NEW g \in Seq(T), \A i \in 1 .. Len(g) : g[i] # Barra
  PROVE  /\ GrupoYNoticia(<<Barra>> \o g) = [tipo |-> "grupo", grupo |-> g]
         /\ \A id \in Seq(T) : GrupoYNoticia(<<Barra>> \o g \o <<Barra>> \o id) =
              [tipo |-> "noticia", grupo |-> g, id |-> id]
<1> DEFINE S == T \cup {Barra}
<1>0. g \in Seq(S) /\ Len(g) \in Nat /\ \A id \in Seq(T) : id \in Seq(S)
  OBVIOUS
<1>1. <<Barra>> \in Seq(S) /\ Len(<<Barra>>) = 1
  OBVIOUS
<1> HIDE DEF S
<1>2. \A q \in Seq(S) : Tail(<<Barra>> \o q) = q
  BY <1>1
<1>3. GrupoYNoticia(<<Barra>> \o g) = [tipo |-> "grupo", grupo |-> g]
  <2>1. Tail(<<Barra>> \o g) = g
    BY <1>0, <1>2
  <2>2. Primera(g, Barra) = 0
    BY <1>0, PrimeraEn
  <2>3. QED
    BY <2>1, <2>2 DEF GrupoYNoticia
<1>4. ASSUME NEW id \in Seq(T)
      PROVE  GrupoYNoticia(<<Barra>> \o g \o <<Barra>> \o id) =
               [tipo |-> "noticia", grupo |-> g, id |-> id]
  <2> DEFINE q == (g \o <<Barra>>) \o id
             n == Len(g)
             m == Len(id)
  <2>1. <<Barra>> \o g \o <<Barra>> \o id = <<Barra>> \o q
    <3>1. id \in Seq(S)
      BY <1>0
    <3>2. g \o <<Barra>> \in Seq(S)
      BY <1>0, <1>1, ConcatProperties
    <3>3. <<Barra>> \o (g \o <<Barra>>) = (<<Barra>> \o g) \o <<Barra>>
      BY <1>0, <1>1, ConcatAssociative
    <3>4. <<Barra>> \o ((g \o <<Barra>>) \o id) = (<<Barra>> \o (g \o <<Barra>>)) \o id
      BY <1>1, <3>1, <3>2, ConcatAssociative
    <3>5. QED
      BY <3>3, <3>4
  <2>2. /\ q \in Seq(S) /\ Len(q) = n + 1 + m
        /\ \A i \in 1 .. n : q[i] = g[i]
        /\ q[n + 1] = Barra
        /\ \A i \in 1 .. m : q[n + 1 + i] = id[i]
    <3> DEFINE h == g \o <<Barra>>
    <3>1. /\ h \in Seq(S) /\ Len(h) = Len(g) + Len(<<Barra>>)
          /\ \A i \in 1 .. Len(g) + Len(<<Barra>>) : h[i] = IF i <= Len(g) THEN g[i] ELSE <<Barra>>[i - Len(g)]
      BY <1>0, <1>1, ConcatProperties
    <3> HIDE DEF h
    <3>2. <<Barra>>[1] = Barra
      OBVIOUS
    <3>3. /\ h \in Seq(S) /\ Len(h) = n + 1 /\ \A i \in 1 .. n : h[i] = g[i]
          /\ h[n + 1] = Barra
      <4>1. n + 1 \in 1 .. n + 1 /\ ~ (n + 1 <= n) /\ (n + 1) - n = 1
            /\ \A i \in 1 .. n : i \in 1 .. n + 1 /\ i <= n
        BY <1>0
      <4>2. QED
        BY <1>0, <1>1, <3>1, <3>2, <4>1
    <3>4. id \in Seq(S) /\ m \in Nat
      BY <1>0
    <3>5. /\ q \in Seq(S) /\ Len(q) = Len(h) + Len(id)
          /\ \A i \in 1 .. Len(h) + Len(id) : q[i] = IF i <= Len(h) THEN h[i] ELSE id[i - Len(h)]
      BY <3>3, <3>4, ConcatProperties DEF h
    <3> HIDE DEF q
    <3>6. /\ \A i \in 1 .. n + 1 : i \in 1 .. n + 1 + m
          /\ \A i \in 1 .. m : n + 1 + i \in 1 .. n + 1 + m /\ ~ (n + 1 + i <= n + 1)
                               /\ (n + 1 + i) - (n + 1) = i
          /\ n + 1 \in 1 .. n + 1 /\ \A i \in 1 .. n : i \in 1 .. n + 1
      BY <1>0, <3>4
    <3>7. /\ Len(q) = n + 1 + m
          /\ \A i \in 1 .. n + 1 + m : q[i] = IF i <= n + 1 THEN h[i] ELSE id[i - (n + 1)]
      BY <3>3, <3>5
    <3>8. \A i \in 1 .. m : q[n + 1 + i] = id[i]
      BY <3>6, <3>7
    <3>9. \A i \in 1 .. n + 1 : q[i] = h[i]
      BY <3>6, <3>7
    <3>10. QED
      BY <3>3, <3>5, <3>6, <3>7, <3>8, <3>9
  <2>3. n \in Nat /\ m \in Nat /\ id = [i \in 1 .. m |-> id[i]] /\ g = [i \in 1 .. n |-> g[i]]
    BY <1>0
  <2> HIDE DEF q
  <2>4. Tail(<<Barra>> \o q) = q
    BY <1>2, <2>2
  <2>5. Primera(q, Barra) = n + 1
    <3>1. n + 1 \in 1 .. Len(q) /\ Len(q) \in Nat
      BY <2>2, <2>3
    <3>2. \A j \in 1 .. (n + 1) - 1 : q[j] # Barra
      BY <2>2, <2>3
    <3>3. QED
      BY <2>2, <3>1, <3>2, PrimeraEn
  <2>6. SubSeq(q, 1, (n + 1) - 1) = g
    <3> DEFINE z == SubSeq(q, 1, (n + 1) - 1)
    <3>0. 1 \in Int /\ (n + 1) - 1 \in Int /\ \A i \in 1 .. (n + 1) - 1 : q[i] \in S
      BY <2>2, <2>3
    <3>1. /\ z \in Seq(S) /\ Len(z) = IF 1 <= (n + 1) - 1 THEN (n + 1) - 1 - 1 + 1 ELSE 0
          /\ \A i \in 1 .. (n + 1) - 1 - 1 + 1 : z[i] = q[1 + i - 1]
      BY <3>0, SubSeqProperties
    <3> HIDE DEF z
    <3>2. Len(z) = n /\ \A i \in 1 .. n : z[i] = q[i]
      BY <2>3, <3>1
    <3>3. z = [i \in 1 .. n |-> z[i]]
      BY <3>1, <3>2
    <3>4. z = g
      BY <2>2, <2>3, <3>2, <3>3
    <3>5. QED
      BY <3>4 DEF z
  <2>7. SubSeq(q, (n + 1) + 1, Len(q)) = id
    <3> DEFINE z == SubSeq(q, (n + 1) + 1, Len(q))
    <3>0. (n + 1) + 1 \in Int /\ Len(q) \in Int /\ \A i \in (n + 1) + 1 .. Len(q) : q[i] \in S
      BY <2>2, <2>3
    <3>1. /\ z \in Seq(S)
          /\ Len(z) = IF (n + 1) + 1 <= Len(q) THEN Len(q) - ((n + 1) + 1) + 1 ELSE 0
          /\ \A i \in 1 .. Len(q) - ((n + 1) + 1) + 1 : z[i] = q[((n + 1) + 1) + i - 1]
      BY <3>0, SubSeqProperties
    <3> HIDE DEF z
    <3>2. Len(z) = m /\ Len(q) - ((n + 1) + 1) + 1 = m
      BY <2>2, <2>3, <3>1
    <3>3. \A i \in 1 .. m : ((n + 1) + 1) + i - 1 = n + 1 + i
      BY <2>3
    <3>4. \A i \in 1 .. m : z[i] = id[i]
      BY <2>2, <3>1, <3>2, <3>3
    <3>5. z = [i \in 1 .. m |-> z[i]]
      BY <3>1, <3>2
    <3>6. z = id
      BY <2>3, <3>4, <3>5
    <3>7. QED
      BY <3>6 DEF z
  <2>8. n + 1 # 0
    BY <2>3
  <2>9. GrupoYNoticia(<<Barra>> \o q) = [tipo |-> "noticia", grupo |-> g, id |-> id]
    BY <2>4, <2>5, <2>6, <2>7, <2>8 DEF GrupoYNoticia
  <2>10. QED
    BY <2>1, <2>9
<1>5. QED
  BY <1>3, <1>4

(* A thread takes out of a safe link what the link names: from the first   *)
(* "/" to the first "." of the request line is the link again, and a space *)
(* for each "%XX" gives back the name (httpServer.c:696-789, util.c:109),  *)
(* whatever its spaces.                                                    *)
THEOREM EnlaceDerecho ==
  ASSUME NEW p \in EnlacesSencillos
  PROVE  Interpretado(p) = p
<1>1. CASE p.tipo = "index"
  BY <1>1, InicioDerecho, EnlacesAssumption DEF EnlacesSencillos
<1>2. CASE p.tipo \in {"grupo", "noticia"}
  <2> DEFINE g == p.grupo
             T == Piezas \cup {Barra}
  <2>1. /\ p \in Pedidos /\ g \in Seq(Piezas) /\ Sencillo(g)
    BY <1>2, EnlacesAssumption DEF EnlacesSencillos
  <2>2. g \in Seq(T) /\ Len(g) \in Nat /\ DOMAIN g = 1 .. Len(g)
    BY <2>1
  <2>3. /\ g # <<>> /\ g # <<"index">> /\ g # <<"favicon">>
        /\ \A i \in 1 .. Len(g) : SinRiesgo(g[i])
    BY <2>1, <2>2 DEF Sencillo
  <2>4. \A x : SinRiesgo(x) => x # Punto /\ x # Barra /\ x \notin Escapes /\ Llano(x)
    BY DEF SinRiesgo, Llano
  <2>5. Barra # Punto /\ Barra \notin Escapes /\ Llano(Barra)
    BY PiezasDistintas, CodificarAssumption DEF Llano
  <2>6. Len(g) >= 1 /\ \A i \in 1 .. Len(g) : g[i] # Barra
    BY <2>2, <2>3, <2>4
  <2>7. <<Barra>> \in Seq(T) /\ Len(<<Barra>>) = 1 /\ <<Barra>>[1] = Barra
    OBVIOUS
  <2> HIDE DEF T
  <2> DEFINE a == <<Barra>> \o g
  <2>8. /\ a \in Seq(T) /\ Len(a) = 1 + Len(g) /\ a[1] = Barra
        /\ \A i \in 1 .. Len(a) : a[i] = Barra \/ SinRiesgo(a[i])
    <3>1. /\ a \in Seq(T) /\ Len(a) = Len(<<Barra>>) + Len(g)
          /\ \A i \in 1 .. Len(<<Barra>>) + Len(g) :
               a[i] = IF i <= Len(<<Barra>>) THEN <<Barra>>[i] ELSE g[i - Len(<<Barra>>)]
      BY <2>2, <2>7, ConcatProperties
    <3> HIDE DEF a
    <3>2. /\ Len(a) = 1 + Len(g)
          /\ \A i \in 1 .. 1 + Len(g) : a[i] = IF i <= 1 THEN <<Barra>>[i] ELSE g[i - 1]
      BY <2>7, <3>1
    <3>3. \A i \in 1 .. 1 + Len(g) : (i <= 1 /\ i = 1) \/ (~ (i <= 1) /\ i - 1 \in 1 .. Len(g))
      BY <2>2
    <3>4. 1 \in 1 .. 1 + Len(g)
      BY <2>2
    <3>5. a[1] = Barra
      BY <2>7, <3>2, <3>4
    <3>6. \A i \in 1 .. Len(a) : a[i] = Barra \/ SinRiesgo(a[i])
      BY <2>3, <2>7, <3>2, <3>3
    <3>7. QED
      BY <3>1, <3>2, <3>5, <3>6
  <2>9. ASSUME NEW b \in Seq(T), Url(p) = b \o Html, Len(b) >= 2, b[1] = Barra,
               \A i \in 1 .. Len(b) : b[i] = Barra \/ SinRiesgo(b[i]),
               b \notin {<<Barra>>, <<Barra, "favicon">>, <<Barra, "index">>},
               GrupoYNoticia(b) = p
        PROVE  Interpretado(p) = p
    <3> DEFINE r == obtenerRecursoDeCabecera(sMensajeHTTPCliente(p))
    <3>1. \A i \in 1 .. Len(b) : b[i] # Punto /\ b[i] \notin Escapes /\ Llano(b[i])
      BY <2>4, <2>5, <2>9
    <3>2. formatearEspacios(r) = b
      BY <2>9, <3>1, RecursoDeEnlace
    <3> HIDE DEF r
    <3>3. r \notin {<<Barra>>, <<Barra, "favicon">>, <<Barra, "index">>}
      BY <2>9, <3>2, NoEsPagina
    <3>4. QED
      BY <2>9, <3>2, <3>3 DEF Interpretado, r
  <2>10. CASE p.tipo = "grupo"
    <3>1. Url(p) = a \o Html
      BY <2>10 DEF Url
    <3>2. a \notin {<<Barra>>, <<Barra, "favicon">>, <<Barra, "index">>}
      <4>1. ASSUME NEW y, a = <<Barra, y>> PROVE g = <<y>>
        <5>1. Tail(a) = g
          BY <2>2, <2>7
        <5>2. Tail(<<Barra, y>>) = <<y>>
          OBVIOUS
        <5>3. QED
          BY <4>1, <5>1, <5>2
      <4>2. a # <<Barra>>
        BY <2>2, <2>6, <2>7, <2>8
      <4>3. QED
        BY <2>3, <4>1, <4>2
    <3>3. GrupoYNoticia(a) = p
      BY <2>2, <2>6, <2>10, Partido, EnlacesAssumption DEF EnlacesSencillos
    <3>4. Len(a) >= 2
      BY <2>2, <2>6, <2>8
    <3> HIDE DEF a
    <3>5. QED
      BY <2>8, <2>9, <3>1, <3>2, <3>3, <3>4
  <2>11. CASE p.tipo = "noticia"
    <3> DEFINE id == p.id
               h == a \o <<Barra>>
               b == h \o id
    <3>1. /\ id \in Seq(Piezas) /\ p = [tipo |-> "noticia", grupo |-> g, id |-> id]
          /\ \A i \in DOMAIN id : SinRiesgo(id[i])
      BY <2>11, EnlacesAssumption DEF EnlacesSencillos
    <3>2. id \in Seq(T) /\ Len(id) \in Nat /\ DOMAIN id = 1 .. Len(id)
      BY <3>1 DEF T
    <3>3. Url(p) = b \o Html
      BY <2>11 DEF Url
    <3>4. GrupoYNoticia(b) = p
      BY <2>2, <2>6, <3>1, <3>2, Partido
    <3> HIDE DEF id, a
    <3>5. /\ h \in Seq(T) /\ Len(h) = Len(a) + Len(<<Barra>>)
          /\ \A i \in 1 .. Len(a) + Len(<<Barra>>) :
               h[i] = IF i <= Len(a) THEN a[i] ELSE <<Barra>>[i - Len(a)]
      BY <2>7, <2>8, ConcatProperties
    <3> HIDE DEF h
    <3>6. /\ b \in Seq(T) /\ Len(b) = Len(h) + Len(id)
          /\ \A i \in 1 .. Len(h) + Len(id) : b[i] = IF i <= Len(h) THEN h[i] ELSE id[i - Len(h)]
      <4>1. h \in Seq(T) /\ id \in Seq(T)
        BY <3>2, <3>5
      <4>2. QED
        BY <4>1, ConcatProperties
    <3> HIDE DEF b
    <3>7. /\ Len(a) \in Nat /\ Len(a) >= 2 /\ Len(h) = Len(a) + 1 /\ Len(h) \in Nat
          /\ Len(b) \in Nat /\ Len(b) >= 3
      BY <2>2, <2>6, <2>7, <2>8, <3>2, <3>5, <3>6
    <3>8. \A i \in 1 .. Len(h) : h[i] = Barra \/ SinRiesgo(h[i])
      <4>1. \A i \in 1 .. Len(h) : i \in 1 .. Len(a) \/ (~ (i <= Len(a)) /\ i - Len(a) = 1)
        BY <3>7
      <4>2. \A i \in 1 .. Len(h) : i \in 1 .. Len(a) => i <= Len(a)
        BY <3>7
      <4>3. QED
        BY <2>7, <2>8, <3>5, <4>1, <4>2
    <3>9. \A i \in 1 .. Len(b) : b[i] = Barra \/ SinRiesgo(b[i])
      <4>1. \A i \in 1 .. Len(b) : (i \in 1 .. Len(h) /\ i <= Len(h))
                                   \/ (~ (i <= Len(h)) /\ i - Len(h) \in 1 .. Len(id))
        BY <3>2, <3>6, <3>7
      <4>2. QED
        BY <3>1, <3>2, <3>6, <3>8, <4>1 DEF id
    <3>10. b[1] = Barra
      <4>1. 1 \in 1 .. Len(h) /\ 1 <= Len(h) /\ 1 \in 1 .. Len(a) /\ 1 <= Len(a)
            /\ 1 \in 1 .. Len(h) + Len(id) /\ 1 \in 1 .. Len(a) + Len(<<Barra>>)
        BY <2>7, <3>2, <3>7
      <4>2. QED
        BY <2>8, <3>5, <3>6, <4>1
    <3>11. b \notin {<<Barra>>, <<Barra, "favicon">>, <<Barra, "index">>}
      <4>1. /\ Len(<<Barra>>) = 1 /\ Len(<<Barra, "favicon">>) = 2
            /\ Len(<<Barra, "index">>) = 2
        OBVIOUS
      <4>2. \A y : b = y => Len(y) >= 3
        BY <3>7
      <4>3. ~ (1 >= 3) /\ ~ (2 >= 3)
        OBVIOUS
      <4>4. QED
        BY <4>1, <4>2, <4>3, Zenon
    <3>12. Len(b) >= 2
      BY <3>7
    <3>13. QED
      BY <2>9, <3>3, <3>4, <3>6, <3>9, <3>10, <3>11, <3>12
  <2>12. QED
    BY <1>2, <2>10, <2>11
<1>3. QED
  BY <1>1, <1>2 DEF EnlacesSencillos

-----------------------------------------------------------------------------
(* While OpenDS answers every search there is a result set for every       *)
(* query whose criterion parses.                                           *)

SesionEntera == sesionPerdida = FALSE => openDSArriba = TRUE

LEMMA SesionEnteraSiempre == Spec => []SesionEntera
<1>1. Init => SesionEntera
  BY DEF Init, SesionEntera
<1>2. SesionEntera /\ [Next]_vars => SesionEntera'
  <2> SUFFICES ASSUME SesionEntera, [Next]_vars PROVE SesionEntera'
    OBVIOUS
  <2>1. UNCHANGED <<openDSArriba, sesionPerdida>> \/ sesionPerdida' = TRUE
    BY DEF Next, vars, openDS, Main, Accept, Thr_create, Hilo, CopiarParametros, Recv, RecvNada,
       Favicon, ListadoGruposDeNoticias, ListadoDeNoticias, MuereListando,
       BuscarNoticiaEnCache, Memcached_get, BuscarNoticiaEnBD, Memcached_set, Aviso200,
       SigPipe, Send, Entorno, GestionarSenialCtrlC, ClienteEnvia, ClienteSeVa,
       Memcached_olvida, AlmacenarNoticia, CaeOVuelveOpenDS
  <2>2. QED
    BY <2>1 DEF SesionEntera
<1>3. QED
  BY <1>1, <1>2, PTL DEF Spec

-----------------------------------------------------------------------------
(* No link is broken.                                                      *)

\* Who may get a 404: the thread that made a query or asked memcached.
LEMMA QuienNoEncuentra ==
  ASSUME Base, NEW u \in Hilos, Hilo(u), NEW t \in Hilos,
         hilos[t].respuesta # NotFound, hilos'[t].respuesta = NotFound
  PROVE  /\ u = t /\ ~ Morir
         /\ \/ ListadoGruposDeNoticias(t) \/ ListadoDeNoticias(t)
            \/ Memcached_get(t) \/ BuscarNoticiaEnBD(t)
<1>1. hilos \in [Hilos -> Registro] /\ hilos[t] \in Registro /\ hilos[u] \in Registro
  BY DEF Base, Tipos
<1>2. HiloLibre.respuesta # NotFound
  BY DEF HiloLibre, SinRespuesta, NotFound
<1>3. ~ Morir
  <2>1. Morir => hilos'[t] = HiloLibre
    BY DEF Morir
  <2>2. QED
    BY <1>2, <2>1
<1>4. CASE CopiarParametros(u)
  <2>1. hilos' = [hilos EXCEPT ![u].pc = "recv", ![u].fd = stParameters]
    BY <1>4 DEF CopiarParametros
  <2>2. hilos'[t].respuesta = hilos[t].respuesta
    BY <1>1, <2>1 DEF Registro
  <2>3. QED
    BY <2>2
<1>5. CASE Recv(u) \/ RecvNada(u)
  <2>1. PICK i : hilos' = [hilos EXCEPT ![u].pc = "procesar", ![u].pedido = i]
    BY <1>3, <1>5 DEF Recv, RecvNada
  <2>2. hilos'[t].respuesta = hilos[t].respuesta
    BY <1>1, <2>1 DEF Registro
  <2>3. QED
    BY <2>2
<1>6. CASE Favicon(u) \/ Send(u)
  <2>1. hilos' = [hilos EXCEPT ![u] = HiloLibre]
    BY <1>6 DEF Favicon, Send, CerrarConexion
  <2>2. hilos'[t] = hilos[t] \/ hilos'[t] = HiloLibre
    BY <1>1, <2>1
  <2>3. QED
    BY <1>2, <2>2
<1>7. CASE BuscarNoticiaEnCache(u)
  <2>1. hilos' = Empezar(u, "memcached_get")
    BY <1>7 DEF BuscarNoticiaEnCache
  <2>2. hilos'[t].respuesta = hilos[t].respuesta
    BY <1>1, <2>1, HiloEmpieza
  <2>3. QED
    BY <2>2
<1>8. CASE Memcached_set(u)
  <2>1. hilos' = ConRespuesta(u, hilos[u].respuesta)
    BY <1>8 DEF Memcached_set
  <2>2. hilos[u].respuesta \in Posibles
    BY <1>1, RegistroCampos
  <2>3. hilos'[t].respuesta = hilos[t].respuesta
    BY <1>1, <2>1, <2>2, HiloConRespuesta DEF Ajenos
  <2>4. QED
    BY <2>3
<1>9. CASE Aviso200(u)
  <2>1. hilos' = [hilos EXCEPT ![u].pc = "send"]
    BY <1>9 DEF Aviso200
  <2>2. hilos'[t].respuesta = hilos[t].respuesta
    BY <1>1, <2>1 DEF Registro
  <2>3. QED
    BY <2>2
<1>10. CASE \/ ListadoGruposDeNoticias(u) \/ ListadoDeNoticias(u) \/ Memcached_get(u)
  <2>1. \/ \E r : hilos' = ConRespuesta(u, r)
        \/ hilos' = [hilos EXCEPT ![u].pc = "getArticle", ![u].cruzado = FALSE]
    BY <1>10 DEF ListadoGruposDeNoticias, ListadoDeNoticias, Memcached_get, Acierto
  <2>2. u # t => hilos'[t] = hilos[t]
    BY <1>1, <2>1 DEF ConRespuesta
  <2>3. u = t
    BY <2>2
  <2>4. QED
    BY <1>3, <1>10, <2>3
<1>11. CASE BuscarNoticiaEnBD(u)
  <2>1. PICK r : hilos' = [Empezar(u, "memcached_set") EXCEPT ![u].respuesta = r]
    BY <1>3, <1>11 DEF BuscarNoticiaEnBD
  <2> DEFINE h == Empezar(u, "memcached_set")
  <2>2. h \in [Hilos -> Registro] /\ \A v \in Hilos \ {u} : h[v].respuesta = hilos[v].respuesta
    BY <1>1, HiloEmpieza
  <2>3. hilos' = [h EXCEPT ![u].respuesta = r]
    BY <2>1
  <2> HIDE DEF h
  <2>4. u # t => hilos'[t] = h[t]
    BY <2>2, <2>3
  <2>5. u = t
    BY <2>2, <2>4
  <2>6. QED
    BY <1>3, <1>11, <2>5
<1>12. ~ MuereListando(u) /\ ~ SigPipe(u)
  BY <1>3 DEF MuereListando, SigPipe
<1>13. QED
  BY <1>4, <1>5, <1>6, <1>7, <1>8, <1>9, <1>10, <1>11, <1>12 DEF Hilo

\* The search for a name that can be searched finds every article of its newsgroup.
LEMMA LoBuscadoSeEncuentra ==
  ASSUME Directorio, NEW g, Buscable(g), NEW id \in DOMAIN bd, MismoGrupo(g, bd[id].grupo)
  PROVE  Coincide(bd[id].grupo, g)
<1>1. bd[id].grupo \in DOMAIN pasarAMayusculas
  BY NoticiasAssumption DEF Directorio, Grupos
<1>2. MismoGrupo(bd[id].grupo, g)
  BY DEF MismoGrupo
<1>3. QED
  BY <1>1, <1>2 DEF Buscable

\* The query for what is in the directory finds it, if its name can be searched.
LEMMA SeEncuentra ==
  ASSUME Base, SesionEntera, sesionPerdida = FALSE, NEW t \in Hilos, NEW p \in Pedidos,
         hilos[t].pedido = p, Esta(p), ~ Morir,
         p.tipo \in {"grupo", "noticia"} => Buscable(p.grupo),
         \/ ListadoGruposDeNoticias(t) \/ ListadoDeNoticias(t) \/ BuscarNoticiaEnBD(t)
  PROVE  hilos'[t].respuesta # NotFound
<1>1. /\ HayResultSet(openDSArriba, sesionPerdida, TRUE) = {TRUE}
      /\ p.tipo \in {"grupo", "noticia"} =>
           HayResultSet(openDSArriba, sesionPerdida, CriterioValido(p.grupo)) = {TRUE}
  BY DEF SesionEntera, HayResultSet, Buscable
<1>2. hilos \in [Hilos -> Registro] /\ hilos[t] \in Registro /\ Directorio
  BY DEF Base, Tipos
<1>3. \A c, b : Ok(c, b) # NotFound
  BY DEF Ok, NotFound
<1>4. CASE ListadoGruposDeNoticias(t)
  <2>1. PICK s \in ListadosDeGrupos(bd) : hilos' = ConRespuesta(t, Ok([grupos |-> s], TRUE))
    BY <1>1, <1>4 DEF ListadoGruposDeNoticias
  <2> DEFINE r == Ok([grupos |-> s], TRUE)
  <2>2. r \in Posibles /\ hilos' = ConRespuesta(t, r)
    BY <1>2, <2>1, RespuestaIndex
  <2>3. r # NotFound
    BY <1>3
  <2> HIDE DEF r
  <2>4. QED
    BY <1>2, <2>2, <2>3, HiloConRespuesta
<1>5. CASE ListadoDeNoticias(t)
  <2> DEFINE r == RespuestaListado(p.grupo, TRUE)
  <2>1. hilos' = ConRespuesta(t, r) /\ p.tipo = "grupo" /\ p \in Interpretados
    <3>1. p \in Interpretados
      BY <1>5 DEF ListadoDeNoticias, Pide, Lee, Base, Tipos
    <3>2. QED
      BY <1>1, <1>5, <3>1 DEF ListadoDeNoticias, Pide
  <2>2. r \in Posibles
    BY <1>2, <2>1, RespuestaGrupo
  <2>3. r # NotFound
    <3>1. selectArticles(bd, p.grupo) # {}
      <4>1. PICK id \in DOMAIN bd : MismoGrupo(p.grupo, bd[id].grupo)
        BY <2>1 DEF Esta
      <4>2. Coincide(bd[id].grupo, p.grupo)
        BY <1>2, <2>1, <4>1, LoBuscadoSeEncuentra
      <4>3. QED
        BY <4>2 DEF selectArticles
    <3>2. QED
      BY <1>3, <3>1 DEF RespuestaListado
  <2> HIDE DEF r
  <2>4. QED
    BY <1>2, <2>1, <2>2, <2>3, HiloConRespuesta
<1>6. CASE BuscarNoticiaEnBD(t)
  <2> DEFINE a == getArticle(bd, TRUE, p.grupo, p.id)
             r == IF a.encontrado THEN Ok([noticia |-> a.noticia], TRUE) ELSE NotFound
             h == Empezar(t, "memcached_set")
  <2>1. p.tipo = "noticia"
    BY <1>6 DEF BuscarNoticiaEnBD, Base, Tipos
  <2>2. hilos' = [h EXCEPT ![t].respuesta = r]
    <3>1. PICK hay \in HayResultSet(openDSArriba, sesionPerdida, CriterioValido(p.grupo)) :
            LET e == getArticle(bd, hay, p.grupo, p.id)
            IN hilos' = [h EXCEPT ![t].respuesta =
                           IF e.encontrado THEN Ok([noticia |-> e.noticia], TRUE) ELSE NotFound]
      BY <1>6 DEF BuscarNoticiaEnBD
    <3>2. hay = TRUE
      BY <1>1, <2>1, <3>1
    <3>3. QED
      BY <3>1, <3>2
  <2>3. p.id \in DOMAIN bd /\ MismoGrupo(p.grupo, bd[p.id].grupo)
    BY <2>1 DEF Esta
  <2>4. a.encontrado = TRUE
    <3>1. Coincide(bd[p.id].grupo, p.grupo)
      BY <1>2, <2>1, <2>3, LoBuscadoSeEncuentra
    <3>2. QED
      BY <2>3, <3>1 DEF getArticle, Encontrado
  <2>5. r # NotFound
    BY <1>3, <2>4
  <2>6. h \in [Hilos -> Registro]
    BY <1>2, HiloEmpieza
  <2> HIDE DEF r, h
  <2>7. hilos'[t].respuesta = r
    BY <2>2, <2>6 DEF Registro
  <2>8. QED
    BY <2>5, <2>7
<1>7. QED
  BY <1>4, <1>5, <1>6

\* A connection that waits for its answer has not had it.
Vigentes ==
  compartido = FALSE =>
    /\ \A i \in DOMAIN backlog : estado[backlog[i]] # "servido"
    /\ \A f \in Fds : fds[f] # NoCliente => estado[fds[f]] # "servido"

LEMMA PasoVigentes == Http /\ Vigentes /\ [Next]_vars => Vigentes'
<1> SUFFICES ASSUME Http, Vigentes, [Next]_vars, compartido' = FALSE
             PROVE  /\ \A i \in DOMAIN backlog' : estado'[backlog'[i]] # "servido"
                    /\ \A f \in Fds : fds'[f] # NoCliente => estado'[fds'[f]] # "servido"
  BY DEF Vigentes
<1>1. /\ compartido = FALSE /\ Conexiones
      /\ fds \in [Fds -> Clientes \cup {NoCliente}]
      /\ backlog \in Seq(Clientes)
      /\ estado \in [Clientes -> {"abierto", "servido"} \cup Idos]
  BY PasoHttp DEF Http, Base, Tipos, Ordenada
<1>2. /\ \A i \in DOMAIN backlog : backlog[i] \in Clientes /\ estado[backlog[i]] # "servido"
      /\ \A f \in Fds : fds[f] # NoCliente => fds[f] \in Clientes /\ estado[fds[f]] # "servido"
  BY <1>1 DEF Vigentes
<1>3. CASE UNCHANGED <<backlog, fds, estado>>
  BY <1>2, <1>3
<1>4. CASE Accept
  <2>1. PICK f \in Fds : fds' = [fds EXCEPT ![f] = Head(backlog)]
    BY <1>4 DEF Accept
  <2>2. backlog # <<>> /\ backlog' = Tail(backlog) /\ estado' = estado
    BY <1>4 DEF Accept
  <2>3. /\ \A i \in DOMAIN backlog' : i + 1 \in DOMAIN backlog /\ backlog'[i] = backlog[i + 1]
        /\ 1 \in DOMAIN backlog /\ Head(backlog) = backlog[1]
    BY <1>1, <2>2
  <2>4. \A g \in Fds : fds'[g] = fds[g] \/ fds'[g] = backlog[1]
    BY <1>1, <2>1, <2>3
  <2>5. QED
    BY <1>2, <2>2, <2>3, <2>4
<1>5. CASE Morir /\ UNCHANGED <<backlog, estado>>
  BY <1>2, <1>5 DEF Morir
<1>6. ASSUME NEW t \in Hilos, Favicon(t) \/ Send(t)
      PROVE  /\ \A i \in DOMAIN backlog' : estado'[backlog'[i]] # "servido"
             /\ \A f \in Fds : fds'[f] # NoCliente => estado'[fds'[f]] # "servido"
  <2> DEFINE f0 == hilos[t].fd
             c == fds[f0]
  <2>1. /\ fds' = [fds EXCEPT ![f0] = NoCliente] /\ backlog' = backlog
        /\ estado' = estado \/ (c \in Clientes /\ estado' = [estado EXCEPT ![c] = "servido"])
    BY <1>6 DEF Favicon, Send, CerrarConexion, Cerrar, navegadores
  <2>2. f0 \in Fds /\ c # NoCliente
    BY <1>1, <1>6 DEF Favicon, Send, Pide, Anda, Conexiones, Http, Base, Tipos
  <2>3. /\ \A i \in DOMAIN backlog : backlog[i] # c
        /\ \A f \in Fds : f # f0 /\ fds[f] # NoCliente => fds[f] # c
    BY <1>1, <2>2 DEF Conexiones
  <2> HIDE DEF f0, c
  <2>4. \A d \in Clientes : d # c => estado'[d] = estado[d]
    BY <1>1, <2>1
  <2>5. \A f \in Fds : fds'[f] # NoCliente => f # f0 /\ fds'[f] = fds[f]
    BY <1>1, <2>1
  <2>6. QED
    BY <1>2, <2>1, <2>3, <2>4, <2>5
<1>7. ASSUME NEW c \in Clientes, NEW e \in Idos, estado' = [estado EXCEPT ![c] = e],
             UNCHANGED <<backlog, fds>>
      PROVE  /\ \A i \in DOMAIN backlog' : estado'[backlog'[i]] # "servido"
             /\ \A f \in Fds : fds'[f] # NoCliente => estado'[fds'[f]] # "servido"
  <2>1. \A d \in Clientes : estado'[d] = estado[d] \/ estado'[d] \in Idos
    BY <1>1, <1>7
  <2>2. "servido" \notin Idos
    BY DEF Idos
  <2>3. QED
    BY <1>2, <1>7, <2>1, <2>2
<1>8. ASSUME NEW t \in Hilos, Hilo(t)
      PROVE  \/ UNCHANGED <<backlog, fds, estado>>
             \/ Morir /\ UNCHANGED <<backlog, estado>>
             \/ Favicon(t) \/ Send(t)
             \/ \E c \in Clientes, e \in Idos : /\ estado' = [estado EXCEPT ![c] = e]
                                                /\ UNCHANGED <<backlog, fds>>
  <2>1. CASE CopiarParametros(t) \/ Recv(t) \/ ListadoGruposDeNoticias(t)
             \/ ListadoDeNoticias(t) \/ BuscarNoticiaEnCache(t) \/ Memcached_get(t)
             \/ Memcached_set(t)
    BY <2>1 DEF CopiarParametros, Recv, ListadoGruposDeNoticias, ListadoDeNoticias,
       BuscarNoticiaEnCache, Memcached_get, Memcached_set, navegadores
  <2>2. CASE RecvNada(t) \/ MuereListando(t) \/ BuscarNoticiaEnBD(t) \/ SigPipe(t)
    BY <2>2 DEF RecvNada, MuereListando, BuscarNoticiaEnBD, SigPipe, navegadores
  <2>3. CASE Aviso200(t)
    <3>1. "reset" \in Idos
      BY DEF Idos
    <3>2. QED
      BY <2>3, <3>1 DEF Aviso200, navegadores
  <2>4. QED
    BY <1>8, <2>1, <2>2, <2>3 DEF Hilo
<1>9. CASE \E c \in Clientes : ClienteSeVa(c)
  <2>1. "cerrado" \in Idos
    BY DEF Idos
  <2>2. QED
    BY <1>7, <1>9, <2>1 DEF ClienteSeVa, navegadores
<1>10. CASE Thr_create \/ (\E c \in Clientes, p \in Pedidos : ClienteEnvia(c, p))
            \/ Memcached_olvida \/ AlmacenarNoticia \/ CaeOVuelveOpenDS \/ UNCHANGED vars
  BY <1>3, <1>10 DEF Thr_create, ClienteEnvia, Memcached_olvida, AlmacenarNoticia,
     CaeOVuelveOpenDS, vars, navegadores
<1>11. CASE GestionarSenialCtrlC
  BY <1>5, <1>11 DEF GestionarSenialCtrlC, navegadores
<1>12. QED
  BY <1>3, <1>4, <1>5, <1>6, <1>7, <1>8, <1>9, <1>10, <1>11 DEF Next, Main, Entorno

LEMMA VigentesSiempre == Spec => []Vigentes
<1>1. Init => Vigentes
  <2> SUFFICES ASSUME Init PROVE Vigentes
    OBVIOUS
  <2>1. /\ \A f \in Fds : fds[f] = NoCliente
        /\ backlog \in Seq(Clientes) /\ estado = [c \in Clientes |-> "abierto"]
    BY BacklogInicial DEF Init
  <2>2. QED
    BY <2>1 DEF Vigentes
<1>2. Http /\ Vigentes /\ [Next]_vars => Vigentes'
  BY PasoVigentes
<1>3. QED
  BY <1>1, <1>2, HttpSiempre, PTL DEF Spec

\* The thread that works for a browser has the browser's request in its hands.
LEMMA PedidoPropio ==
  ASSUME Http, Vigentes, compartido = FALSE, NEW t \in Hilos, Lee(t),
         fds[hilos[t].fd] \in Clientes, estado[fds[hilos[t].fd]] \notin Idos
  PROVE  /\ pedidos[fds[hilos[t].fd]] \in Pedidos
         /\ hilos[t].pedido = Interpretado(pedidos[fds[hilos[t].fd]])
<1> DEFINE c == fds[hilos[t].fd]
<1>1. Anda(t) /\ hilos[t].pc # "recv"
  BY DEF Lee, Anda
<1>2. hilos[t].fd \in Fds /\ c # NoCliente
  BY <1>1, NombresAssumption DEF Http, Base, Tipos
<1>3. estado[c] = "abierto"
  BY <1>2 DEF Vigentes, Http, Base, Tipos
<1>4. Atiende(t, c)
  BY <1>1, <1>3 DEF Http, Ordenada, Tramites
<1>5. pedidos[c] \in Pedidos
  BY <1>4 DEF Atiende, Http, Base, Tipos
<1>6. QED
  BY <1>4, <1>5, Interpretar DEF Atiende

-----------------------------------------------------------------------------
(* The theorems.                                                           *)

LEMMA PosibleEsRespuesta ==
  ASSUME NEW r \in Posibles
  PROVE  EsRespuesta(r)
<1>1. CASE r \in {SinRespuesta, NotFound}
  BY <1>1 DEF EsRespuesta
<1>2. CASE r \in DeNoticia
  <2>1. PICK n \in Textos, b \in BOOLEAN : r = Ok([noticia |-> n], b)
    BY <1>2 DEF DeNoticia
  <2>2. r.codigo = 200 /\ r.limpia \in BOOLEAN /\ r.contenido = [noticia |-> n]
    BY <2>1 DEF Ok
  <2>3. QED
    BY <2>2 DEF EsRespuesta
<1>3. CASE r \in DeGrupo
  <2>1. PICK S \in (SUBSET DOMAIN Noticias) \ {{}} : r = Ok([ids |-> S], TRUE)
    BY <1>3 DEF DeGrupo
  <2>2. r.codigo = 200 /\ r.limpia \in BOOLEAN /\ r.contenido = [ids |-> S]
    BY <2>1 DEF Ok
  <2>3. QED
    BY <2>2 DEF EsRespuesta
<1>4. CASE r \in DeIndex
  <2>1. PICK s \in Seq(Grupos) : r = Ok([grupos |-> s], TRUE)
    BY <1>4 DEF DeIndex
  <2>2. r.codigo = 200 /\ r.limpia \in BOOLEAN /\ r.contenido = [grupos |-> s]
    BY <2>1 DEF Ok
  <2>3. QED
    BY <2>2 DEF EsRespuesta
<1>5. QED
  BY <1>1, <1>2, <1>3, <1>4 DEF Posibles

(* Type correctness of the HTTP server, for any number of threads,         *)
(* descriptors and browsers: whatever a thread finds in the descriptor     *)
(* it was handed, on its stack or in a spoiled reply of memcached, it      *)
(* keeps to the requests and the answers there are.                        *)
THEOREM TipoServidorHTTP == Spec => []TypeOK
<1>1. Base => TypeOK
  <2> SUFFICES ASSUME Base PROVE TypeOK
    OBVIOUS
  <2>1. /\ mainHttp \in {"accept", "thr_create"} /\ stParameters \in Fds \cup {NoFd}
        /\ fds \in [Fds -> Clientes \cup {NoCliente}]
        /\ backlog \in Seq(Clientes)
        /\ estado \in [Clientes -> {"abierto", "servido"} \cup Idos]
        /\ pedido \in [Clientes -> Pedidos \cup {SinPedido}]
        /\ pedidos \in [Clientes -> Pedidos \cup {SinPedido}]
        /\ vivo \in BOOLEAN /\ compartido \in BOOLEAN /\ desatendidos \subseteq Clientes
    BY DEF Base, Tipos
  <2>2. ASSUME NEW t \in Hilos
        PROVE  /\ hilos[t].pc \in Lugares /\ hilos[t].fd \in Fds \cup {NoFd}
               /\ hilos[t].pedido \in Interpretados \cup {SinPedido}
               /\ EsRespuesta(hilos[t].respuesta)
    <3>1. hilos[t] \in Registro
      BY DEF Base, Tipos
    <3>2. QED
      BY <3>1, RegistroCampos, PosibleEsRespuesta
  <2>3. ASSUME NEW c \in Clientes, NEW i \in DOMAIN respuestas[c]
        PROVE  EsRespuesta(respuestas[c][i])
    <3>1. respuestas[c] \in Seq(Posibles)
      BY DEF Base, Tipos
    <3>2. respuestas[c][i] \in Posibles
      BY <3>1
    <3>3. QED
      BY <3>2, PosibleEsRespuesta
  <2>4. \A k \in DOMAIN cache : cache[k].noticia \in Textos
    BY DEF Base, Cache
  <2>5. DOMAIN bd \subseteq DOMAIN Noticias /\ openDSArriba \in BOOLEAN /\ sesionPerdida \in BOOLEAN
    BY DEF Base, Directorio
  <2>6. QED
    BY <2>1, <2>2, <2>3, <2>4, <2>5 DEF TypeOK, Lugares
<1>2. QED
  BY <1>1, BaseSiempre, PTL

(* What memcached holds under a key and was not spoiled by a crossing is   *)
(* the article of the directory with that newsgroup and ID, with any       *)
(* number of threads at work on the one handle, and whatever descriptors   *)
(* main handed them: a thread stores what OpenDS gave it for the request   *)
(* in its hands, under the key of that same request, and the text of an    *)
(* article that was not found is never taken for one.                      *)
THEOREM CacheCoherenteSiempre == Spec => []CacheCoherente
<1>1. Base => CacheCoherente
  <2> SUFFICES ASSUME Base, NEW k \in DOMAIN cache, cache[k].limpia = TRUE
               PROVE  \E id \in DOMAIN bd, g \in Grupos :
                        /\ Coincide(bd[id].grupo, g) /\ k = Escrita[<<g, id>>]
                        /\ cache[k].noticia = bd[id].noticia
    BY DEF CacheCoherente, Base, Cache
  <2>1. PICK i \in Interpretados : Hallada(bd, i, cache[k].noticia) /\ k = Clave(i.grupo, i.id)
    BY DEF Base, Cache
  <2>2. PICK p \in Pedidos : i = Interpretado(p)
    BY Interpretar
  <2>3. i.grupo \in Grupos /\ i.id \in DOMAIN bd /\ i.id \in Ids
    BY <2>1, <2>2, PedidosAssumption DEF Hallada, Base, Directorio, Ids
  <2>4. k = Escrita[<<i.grupo, i.id>>]
    BY <2>1, <2>3, ClaveEscrita
  <2>5. Coincide(bd[i.id].grupo, i.grupo)
    BY <2>1 DEF Hallada
  <2>6. QED
    BY <2>1, <2>3, <2>4, <2>5 DEF Hallada
<1>2. QED
  BY <1>1, BaseSiempre, PTL

(* A browser gets at most one answer, and what it gets is the answer to    *)
(* its own request: the descriptor leads from the browser to one thread    *)
(* and back, though the number is used again, unless main overwrote the    *)
(* parameters of a thread that had not run yet.  PedidosClaros leaves out  *)
(* the requests whose URL the server reads as the name of another          *)
(* newsgroup that exists: those are answered with the other's articles.    *)
THEOREM RespuestaCorrectaSiempre ==
  ASSUME PedidosClaros
  PROVE  Spec => []RespuestaCorrecta
<1>1. Http => RespuestaCorrecta
  <2> SUFFICES ASSUME Http, compartido = FALSE, NEW c \in Clientes
               PROVE  /\ Len(respuestas[c]) <= 1
                      /\ \A i \in DOMAIN respuestas[c] :
                           respuestas[c][i].codigo = 200 /\ respuestas[c][i].limpia =>
                             Contesta(respuestas[c][i], pedidos[c])
    BY DEF RespuestaCorrecta, Http, Base, Tipos
  <2>1. respuestas[c] \in Seq(Posibles)
    BY DEF Http, Base, Tipos
  <2>2. CASE respuestas[c] = <<>>
    BY <2>2
  <2>3. CASE respuestas[c] # <<>>
    <3>1. Len(respuestas[c]) = 1 /\ Bien(bd, respuestas[c][1], pedidos[c])
      BY <2>3 DEF Http, Ordenada, Tramites
    <3>2. DOMAIN respuestas[c] = {1}
      BY <2>1, <3>1
    <3>3. \A r, p : ContestaEn(bd, r, p) => Contesta(r, p)
      BY DEF ContestaEn, Contesta
    <3>4. QED
      BY <3>1, <3>2, <3>3, PedidosClaros DEF Bien
  <2>4. QED
    BY <2>2, <2>3
<1>2. QED
  BY <1>1, HttpSiempre, PTL

(* A link of a page leads to what it names, for any newsgroup whose name   *)
(* is safe in a URL and can be searched, with any spaces, and any article: *)
(* what is in the directory is no 404 to its own link, unless OpenDS did   *)
(* not answer some search since the server started, main mixed the         *)
(* parameters of two threads up, the browser left, or a hit of the cache   *)
(* brought the 404.                                                        *)
THEOREM NingunEnlaceRotoSiempre == Spec => NingunEnlaceRoto
<1> DEFINE Derecho ==
      \A t \in Hilos :
        LET c == fds[hilos[t].fd]
        IN /\ hilos[t].respuesta # NotFound /\ hilos'[t].respuesta = NotFound
           /\ c \in Clientes /\ pedidos[c] \in EnlacesSencillos /\ Esta(pedidos[c])
           => \/ sesionPerdida \/ compartido \/ estado[c] \in Idos
              \/ hilos[t].pc = "memcached_get"
<1>1. Http /\ Vigentes /\ SesionEntera /\ [Next]_vars => [Derecho]_vars
  <2> SUFFICES ASSUME Http, Vigentes, SesionEntera, Next, NEW t \in Hilos,
                      hilos[t].respuesta # NotFound, hilos'[t].respuesta = NotFound,
                      fds[hilos[t].fd] \in Clientes,
                      pedidos[fds[hilos[t].fd]] \in EnlacesSencillos,
                      Esta(pedidos[fds[hilos[t].fd]]),
                      ~ sesionPerdida, ~ compartido,
                      estado[fds[hilos[t].fd]] \notin Idos,
                      hilos[t].pc # "memcached_get"
               PROVE  FALSE
    OBVIOUS
  <2> DEFINE c == fds[hilos[t].fd]
  <2>1. /\ Base /\ hilos \in [Hilos -> Registro]
        /\ compartido = FALSE /\ sesionPerdida = FALSE
    BY DEF Http, Base, Tipos, Directorio
  <2>2. PICK u \in Hilos : Hilo(u)
    <3>1. hilos' # hilos
      OBVIOUS
    <3>2. ~ GestionarSenialCtrlC
      <4>1. GestionarSenialCtrlC => hilos'[t] = HiloLibre
        BY DEF GestionarSenialCtrlC, Morir
      <4>2. HiloLibre.respuesta # NotFound
        BY DEF HiloLibre, SinRespuesta, NotFound
      <4>3. QED
        BY <4>1, <4>2
    <3>3. ~ Thr_create
      <4>1. ASSUME Thr_create PROVE hilos'[t].respuesta = hilos[t].respuesta
        <5>1. (\E u \in Hilos : hilos' = [hilos EXCEPT ![u].pc = "copiar"]) \/ hilos' = hilos
          BY <4>1 DEF Thr_create
        <5>2. QED
          BY <2>1, <5>1 DEF Registro
      <4>2. QED
        BY <4>1
    <3>4. QED
      BY <3>1, <3>2, <3>3 DEF Next, Main, Accept, Entorno, ClienteSeVa, ClienteEnvia,
         Memcached_olvida, AlmacenarNoticia, CaeOVuelveOpenDS
  <2>3. /\ u = t /\ ~ Morir
        /\ \/ ListadoGruposDeNoticias(t) \/ ListadoDeNoticias(t)
           \/ Memcached_get(t) \/ BuscarNoticiaEnBD(t)
    BY <2>1, <2>2, QuienNoEncuentra
  <2>4. ListadoGruposDeNoticias(t) \/ ListadoDeNoticias(t) \/ BuscarNoticiaEnBD(t)
    BY <2>3 DEF Memcached_get
  <2>5. Lee(t)
    BY <2>4 DEF ListadoGruposDeNoticias, ListadoDeNoticias, BuscarNoticiaEnBD, Pide, Lee
  <2>6. /\ pedidos[c] \in Pedidos /\ hilos[t].pedido = Interpretado(pedidos[c])
        /\ pedidos[c].tipo \in {"grupo", "noticia"} => Buscable(pedidos[c].grupo)
    BY <2>1, <2>5, PedidoPropio DEF EnlacesSencillos
  <2>7. hilos[t].pedido = pedidos[c]
    BY <2>6, EnlaceDerecho
  <2>8. hilos'[t].respuesta # NotFound
    BY <2>1, <2>3, <2>4, <2>6, <2>7, SeEncuentra
  <2>9. QED
    BY <2>8
<1>2. QED
  BY <1>1, HttpSiempre, VigentesSiempre, SesionEnteraSiempre, PTL DEF Spec, NingunEnlaceRoto
=============================================================================
