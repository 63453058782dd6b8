# TLA+ for aCtitud

Models, model checks and machine-checked proofs of aCtitud, a news system:
a journalist writes articles in a Windows program, they travel over TCP, a
message queue and an LDAP directory, and readers get them over NNTP or from a
browser. Every definition is translated from the code; `PROJECT.json` has, under
`map`, the lines each one stands for.

Names of operators are those of the code (`desencolarMensaje`, `RecvHandshake`,
`UnlockConexion`); comments are in English.

## The system

```
 journalist                                                        readers
     |                                                                |
 PublisherWin --TCP--> XMLNewsPS --> MSMQ queue --> NNTPProcessServer |
 (Berkeley DB)                                        |               |
                                                      v               |
                                                   OpenDS (LDAP) <--- NNTPServerBAM <--SSL-- NNTPClient
                                                              <--- HTTPServer <--TCP-- browser
                                                                      |
                                                                  memcached
```

| component | state | operations | talks to |
|---|---|---|---|
| PublisherWin (`publisher.c`, `berkeleyFunctions.c`, `xmlFunctions.c`) | the Berkeley DB file; in each thread a handle with its own page cache, a cursor, a socket | store an article (`publisherFunction`, `putArticle`, `closeDb`); every TIEMPO a new sender thread goes over the articles with `transmitted = '0'`, sends each one (`enviarXML`) and marks it | XMLNewsPS, TCP |
| XMLNewsPS (`xmlNewsPS.cpp`) | the accept loop's `stParameters`; a thread for each connection | handshake, receive XML, answer `RequestOK`, `insertarMensaje` | PublisherWin, MSMQ |
| MSMQ queue (`funcionesMSMQ.cpp`) | the messages | `insertarMensaje`, `desencolarMensaje` | both servers |
| NNTPProcessServer (`NNTPProcessServer.cpp`, `LdapWrapperHandler-Win.cpp`) | the LDAP session, its sticky `errorCode`, the flag `openDSEstaCaido`, the article in hand | a round every Interval: dequeue, parse, `insertEntry`; on `LDAP_SERVER_DOWN` re-enqueue and reconnect | MSMQ, OpenDS |
| OpenDS and the LDAP wrappers (`LdapWrapper*.c`) | the entries by dn | add, delete, search | NNTPProcessServer, the two readers |
| NNTPServerBAM (`nntpServerBam.c`, `funciones.c`, `conexion.c`) | the one client, `czMsg`, the descriptor set of `select` | accept and SSL handshake, the seven commands, keyboard | NNTPClient, OpenDS |
| NNTPClient (`nntpClient.cpp`, `Comando.cpp`, `NNTPClientDAO.cpp`) | two threads, the shared `Comando`, two mutexes that each side unlocks for the other | read a line, validate, send, receive, print | NNTPServerBAM |
| HTTPServer (`httpServer.c`, `funcionesMemcached.c`) | a thread for each connection, one memcached handle for all, `stParameters` | the three kinds of page, the cache | browser, memcached, OpenDS |
| queries (`LdapWrapperHandler.c`, `util.c`) | none | `getArticle`, `selectEntries`, `selectArticles`, the two listings | OpenDS |
| links of the pages (`httpServer.c`, `util.c`) | none | a page's link, what the browser makes of it, the newsgroup and article the thread reads in it | browser, HTTPServer |
| configuration (`configuration.c`, `Configuracion.cpp`) | the buffer of the file, where `strtok` was left | load a file, `GetVal` of each key, validate | every Unix program at its start |
| logger (`logger-*.c`, `logger-win.cpp`) | the log file, the handle it is open with | `EscribirLog` | every thread of every program |
| vendored headers and libraries | — | — | not modelled, see below |

### What is hard about it

* *Interleaving.* Two programs pass the address of a local variable to a new
  thread (`xmlNewsPS.cpp:368`, `httpServer.c:308`); several senders
  overlap on one file, each with its own cache; `NNTPClient` synchronises by
  unlocking the other thread's mutex; the HTTP threads share a memcached handle.
* *Failure.* Any process or OpenDS may stop between two steps. The acknowledgement
  precedes the enqueue; the dequeue precedes the store; the reconnection frees a
  session and keeps using it; nothing ignores SIGPIPE.
* *Stale state.* A page read before a conversation over TCP and written back
  after it; an `errorCode` that success never resets; a command buffer executed
  again when a read fails; a cache of articles that were not found.
* *Edges.* IDs are the current second; one read for a message that may be longer;
  a dn that leaves out the newsgroup; keys that run two fields together; arrays
  of 1000 elements that nobody counts; names of newsgroups that do not survive a URL, or
  that go into the criterion of a search unescaped.
* *Shared state nobody thinks of.* `strtok` keeps a position between two keys of
  the configuration; the log of the Windows servers keeps its handle in an object
  all threads share.

`PROJECT.json` lists each of these at its line under `hazards`, with the
properties that watch over it.

## The modules

| module | models | used by |
|---|---|---|
| `Red` | TCP between PublisherWin and XMLNewsPS: each stream is a sequence of the units the programs read with one `recv` | `Publisher`, `XMLNewsPS` |
| `Publisher` | PublisherWin. A handle's cache `[leida, sucia, pagina]` is filled at its first access and written at `closeDb`; the whole file is one page | `Publicacion` |
| `XMLNewsPS` | main (`Accept`, `BeginThread`), `clientFunction` one action per call that other processes can see, crashes, restarts; on its own it runs against publishers that do anything | `Publicacion` |
| `ColaMSMQ`, `OpenDS` | operators for the queue and for the directory (result and effect of add and delete, the session's error code) | the servers |
| `Publicacion` | PublisherWin and XMLNewsPS over their connections | `NewsPipeline` |
| `NNTPProcessServer` | main and its helpers, OpenDS stopping and returning, the probes other programs store and delete | `ProcesoDeNoticias`, `NewsPipeline` |
| `ProcesoDeNoticias` | NNTPProcessServer with a queue that XMLNewsPS fills | |
| `NewsDelivery` | the abstract specification: what readers are promised | `NewsPipeline` |
| `NewsPipeline` | `Publicacion` and `NNTPProcessServer` joined at the queue; `Entrega` is the refinement mapping to `NewsDelivery` | |
| `NNTPClient` | both threads, the mutexes, the connection | |
| `SesionNNTP` | the abstract session: one command, one answer, in order | `NNTPClient`, `NNTPServerBAM` |
| `Consultas` | the queries of the two readers over the directory, each in one step | the three below |
| `NNTPServerBAM` | the `select` loop, its clients, OpenDS stopping | |
| `Enlaces` | the way of a request: link, URL, request line, newsgroup and article, over pieces of text | `HTTPServer` |
| `HTTPServer` | main, the threads, the cache, the browsers | |
| `ResultSetLDAP` | a query of `Consultas` record by record, with the memory it gives back | |
| `Configuracion` | the reading of the configuration, one step for each key | |
| `Logger` | threads in `EscribirLog`, in the three forms of the logger | |
| `*_proofs` | the theorems of the module they are named after; `NewsPipeline_proofs` also has those of `Publicacion`, `Soporte_proofs` those of `Logger`, `ResultSetLDAP` and `Configuracion` | |

How to read them: an action is one stretch of code between two points at which
another thread or process can interfere (a blocking call, a send, a database or
directory operation). The `pc` of a process is the name of the call it is about
to make. Variables commented as *history* are not in the code; they record what a
property needs (`confirmadas`: articles for which `RequestOK` was sent) and no
guard reads them. A definition whose comment says *Mutant of X* is a plausible
mistake in `X` and is used by no specification.

Abstractions that matter:

* An article is an ID, a newsgroup and an opaque text. XML, HTML and answers are
  records of what they carry. `Largas` are the texts (or answers) longer than
  the buffer of one read.
* An article's XML does not carry it as it was typed: `crearXML` runs `encoding()` on
  its head and body ("ñ" becomes "n", an accent is dropped, "&" becomes "Y";
  `xmlFunctions.c:34-59`), while the file keeps what the journalist wrote. The constant
  `encoding` is that function, from what is typed to the text the XML carries. It may
  be any function: two articles may become one text. From the XML on, articles are
  known by ID and converted text.
* A search is described by two constants of `Consultas`. `filtro` says which names the
  criterion made of a name finds, and its domain is the names whose criterion the
  LDAP library can parse; nothing escapes a name on its way into the criterion
  (`util.c:153`, `LdapWrapperHandler.c:145`), so a parenthesis or a lone backslash makes
  one that does not parse, and "*" a pattern. `Buscable` are the names a search for which
  finds them. `largo` is the length of a name. `openDSArriba` means that OpenDS answers
  searches, `sesionPerdida` that it failed to, once, since the session was opened: whether it
  was stopped or refused makes no difference to `searchEntry`, which returns NULL for any
  error (`LdapWrapper-Debian.c:267-272`).
* What the C code leaves undefined is a choice: the stale stack buffer after a
  `recv` of 0 bytes, the freed LDAP session (it may be the new one, garbage, or
  the end of the process), uninitialised `uiArticleID`, the memcached handle used
  by two threads (replies exchanged, spoiled or missed).
* The publisher's clock is `hora`, one unit per second; two articles of the same
  second get one ID, as in the code.
* The browsers of `HTTPServer` wait in the backlog from the start, and nothing
  happens after the death of its process: neither changes what the program can
  do. A request arrives in one `recv`.
* A text that goes through a URL is a sequence of pieces: words, and the characters
  the code or the browser treats apart (`/`, `.`, `#`, a quote, a space, an accent, `%XX`).
  Functions that return a pointer into their own frame (`obtenerRecursoDeCabecera`)
  are taken to have been read before the frame was used again.
* The two memcached servers are one cache that may forget any entry and fail to
  store any.

## What is checked

`tlc -workers 2 -config <cfg> <module>` in this directory.

| run | module / cfg | properties | states |
|---|---|---|---|
| `xmlnewsps` | `MCXMLNewsPS` | `TypeOK`, `ConfirmadaNoSePierde`, `ConfirmadaSeEntrega`, `UnSoloRequestOK` | 11 thousand |
| `proceso` | `MCProcesoDeNoticias` | `TypeOK`, `NadaSePierde`, `CopiasNoCrecen`, `Drenaje` | 380 thousand |
| `publicacion` | `MCPublicacion` | `TypeOKPublisher`, `MarcadaFueConfirmada`, `MarcadaLlega`, `SoloLoPublicado` | 1.1 million |
| `pipeline` | `MCNewsPipeline` | `TransmitidaEnCamino`, `CumpleEntrega` | 2.2 million |
| `cliente` | `MCNNTPClient` | `TypeOK`, `ComandoEnUnaMano`, `NingunUnlockPerdido`, `RespuestaDeLaLinea`, `CumpleSesion`, `TodaLineaSeResponde` | 11 thousand |
| `bam` | `MCNNTPServerBAM` | `TypeOK`, `CumpleSesion`, `RespuestaVeraz`, `MuerteExplicada`, `TodosSonAtendidos` | 420 thousand |
| `http` | `MCHTTPServer` | `TypeOK`, `CacheCoherente`, `RespuestaCorrecta`, `NingunEnlaceRoto`, `TodoPedidoSeResponde` | 470 thousand |
| `soporte` | `MCSoporte` | `OrdenDelRepositorioSirve`, `AceptadaFiel`, `LineasEnteras`, `PerdidaExplicada`, `ConsultaDeUnMomento`, `LogPerdidoNoVuelve` | 115 thousand |

What they show, component by component:

* **XMLNewsPS.** After `RequestOK` an article is in the queue, or in a thread that
  is about to put it there, or a crash took it in between. It is that very
  article unless its XML was longer than `BUFFERSIZE`. Two threads that were
  handed the same socket through `stParameters` still acknowledge a connection
  only once.
* **PublisherWin.** Two senders with stale caches, lost connections and replies
  recognised by their offset never mark an article that was not acknowledged, and
  never send one under an ID it was not stored with, or with a text other than what
  `encoding()` makes of the one it was stored with. A mark means the article is in the
  queue or about to be, with the same two exceptions.
* **NNTPProcessServer.** However OpenDS stops and returns (while the session is
  freed too), an article that reached the queue is in it, in hand, stored, refused,
  or was in hand when the process died; it is never multiplied by being put back;
  and the queue is drained if from some moment on OpenDS is up and the session is
  a valid one.
* **The pipeline.** With all of that together, and the probes three programs store
  and delete in the directory, readers find only what was published, under its
  own ID and with its text as `encoding()` left it, and it never changes: `NewsPipeline`
  implements `NewsDelivery`.
* **NNTPClient.** The exchange of mutexes loses no unlock, `main` never works on
  half a command, and the answer printed is that of the line typed.
* **NNTPServerBAM.** `LIST` names each newsgroup once. A denial is true, unless OpenDS
  did not answer some search since the server started, or the name asked for is not one
  that its own criterion finds (`Buscable`): an article of the newsgroup "ole (uno)" is
  denied although it is there. A waiting client is accepted if the one being served leaves,
  however it leaves. And the server dies of four things only: a listing that gets no
  result set, whose -1 becomes the bound of a loop (`funciones.c:394-395`, `443-452`), because
  OpenDS does not answer or because the criterion of `LISTGROUP` does not parse; a lost
  client; more articles than the array of a listing holds; and a name longer than the
  array it is copied to (`util.c:77`, `152`).
* **The NNTP session.** Both ends implement `SesionNNTP` (`CumpleSesion`): a client
  has one command under way, and gets the answer to that one, although a failed
  read makes the server execute an old command again and an answer may come in two
  reads.
* **HTTPServer.** A browser gets at most one answer, to its own request, although
  descriptors are used again; the cache holds under a key only that key's article;
  every request is answered and its connection closed. A link of a page leads to
  what it names: the exceptions are a search OpenDS did not answer since the server
  started, a thread with the parameters of another, a hit of the cache answered with a 404
  (`funcionesMemcached.c:119`), and two kinds of newsgroups. Those whose name a link
  cannot carry: `Sencillo` says which it can. A name with a point is cut there, one with
  "#" or a quote is cut by the browser, and `formatearEspacios` makes a space of every
  "%XX" (`util.h:26` speaks of "%20"), so a name with an accent is another name. And those
  that a search for their name does not find (not `Buscable`): "Ole (uno)" comes back from
  its URL as it was, and its page is a 404 all the same.
* **Queries.** Reading a result record by record, with the memory of each given back
  before the next and the directory changing meanwhile, gives what `Consultas` says
  of the directory at the moment of the search: this is what lets the readers'
  modules take a query as one step.
* **Configuration.** `GetVal` finds a key only above the one it took last, so the
  order of the file matters; the files of the repository have it right. With any
  other order, a missing key or a repeated one, a server either does not start or
  has its ports right, but may take the line after a port for an address.
* **Log.** HTTPServer's lines are whole and none is lost. PublisherWin drops a line
  when another thread has the file open during that call. In XMLNewsPS the first
  overlap of two threads may leave the file open with its handle overwritten, and
  then nothing is logged any more (`LogPerdidoNoVuelve` says so of every state in
  which that has happened; TLC reaches them in six steps).

### Bounds, and why they are enough

| run | bounds |
|---|---|
| `xmlnewsps` | two connections, two threads, two articles, one of them long: two threads can be given one socket, and a crash can hit one thread while the other is at any step |
| `proceso` | two articles with the same ID, three messages: a repeated one, a refused one and one put back behind another. OpenDS and the process stop any number of times |
| `publicacion` | two seconds, two articles, two senders, two connections, two server threads: the ID collision, overlapping senders, a retry after a lost reply. `encoding()` changes the text of one article, whose XML is also the long one. Of the two programs only XMLNewsPS crashes here; PublisherWin does in `pipeline`. Senders and threads are symmetric, and no liveness is checked there |
| `pipeline` | three scenarios: two articles, one sender, one server thread and the publisher's death; one article, and PublisherWin, NNTPProcessServer and OpenDS may die at any step; one article, and XMLNewsPS alone dies and is started again at any step. No scenario has XMLNewsPS die together with another. Overlapping senders are the matter of `publicacion` |
| `cliente` | four lines out of five kinds: valid, valid with a long answer, invalid, `QUIT`, `QUIT` with a parameter |
| `bam` | three scenarios: two clients with one command each (one is served while the other waits, and the second finds the first one's command in `czMsg`), and one client with two commands; two articles of a newsgroup written in two ways; arrays of one element, so that two articles overflow them. In the third, "nombres", OpenDS answers always, the directory stays as it is while a client is there, and one client sends one command: names with parentheses, with a "*", of 70 characters in the directory and of 245 in a command |
| `http` | two browsers, two threads, two descriptors. In "hilos" five requests about one article that arrives at any moment, asked for by two newsgroups: both threads in the cache at once, and a descriptor used again. In "enSerie" one thread at a time, OpenDS up, four articles, of newsgroups with a space, an accent, parentheses and a "#", and a URL typed by hand |
| `soporte` | three machines that do not touch each other, one at a time. Configuration: every file of up to four lines with the keys of NNTPServerBAM, of up to three with those of NNTPClient, and for all programs the repository's file with two lines exchanged, one missing, repeated, spoiled, or a comment; both line ends. Log: two threads, three lines, two handle values, so that a handle may or may not come again. Query: the eight directories of three articles, changing at any step; searches for a name, for a pattern, and for a name whose criterion does not parse |

`CHECK_DEADLOCK FALSE` is in every cfg because each system may really stop: the
publisher and the client end, a process dies and is not restarted, the bounds are
used up.

### Fairness

* `ProcesoDeNoticias`: weak fairness of the process server's own steps; nobody
  promises to restart it, to keep OpenDS up or to send anything. `Drenaje` states
  as its premise what has to hold from some moment on.
* `NNTPClient`: weak fairness of each thread and of the server's answer. The
  scheduler of the operating system runs both threads; a mutex has one waiter at
  a time, so weak fairness is enough.
* `NNTPServerBAM`: weak fairness of its only thread. Clients are free to stay
  silent for ever; `TodosSonAtendidos` therefore assumes that the one being served
  leaves some day. A client that connects and never starts the handshake stops
  the server (`nntpServerBam.c:143`), which no fairness would repair.
* `HTTPServer`: weak fairness of main and of each thread.

### Where the code and what it says disagree

Each is a run that TLC ends with a counterexample.

| run | property | what happens |
|---|---|---|
| `reconexion_ok` | `ReconexionOK` | the reconnection stores the new session in variables that shadow main's (`NNTPProcessServer.cpp:164`); the log says "Reconexion con OpenDS OK." and the next article goes through freed memory |
| `guardado_queda` | `GuardadoQueda` | "Articulo guardado:" (`berkeleyFunctions.c:199`), and then a sender's `closeDb` writes the page it had read before over it |
| `la_ui_termina` | `LaUITermina` | "espero a que termine el thread de la ui" (`nntpClient.cpp:148`): main sees `QUIT` in the shared `Comando` one turn early and joins a thread that waits for main |
| `rango_del_grupo` | `RangoDelGrupo` | *low* in the answer to `LISTGROUP` "mas chico" (`funciones.c:491`) starts from 99999999, eight digits, and IDs have nine or ten |

Other behaviour of the code that the models contain and the properties name as
exceptions, because no document promises otherwise: an acknowledged article is
lost when XMLNewsPS dies before it enqueues; an article in hand dies with
NNTPProcessServer; one whose ID is taken in another newsgroup is refused
(`LdapWrapperHandler-Win.cpp:119`); the readers deny articles that are there after
OpenDS failed to answer, and those of a newsgroup whose name a criterion does not take;
`LISTGROUP` of such a name, or of a very long one, ends NNTPServerBAM; a browser may lose its
answer when main overwrites the parameters
of a thread that has not run; a hit in the cache may be answered with a 404.

## What is proved

`tlapm <module>` with the SMT, Zenon and PTL backends; the theorems hold for every
value of the constants that satisfies the assumptions of the modules. Every
invariant, action property and refinement that a passing run checks is also a
theorem; the liveness properties are not.

| module | theorem | states |
|---|---|---|
| `NNTPClient_proofs` | `TipoCorrecto` | `TypeOK` |
| | `ComandoEnUnaManoSiempre` | main works on a whole command, and only while the user interface waits |
| | `NingunUnlockPerdidoSiempre` | each mutex is locked when its waker unlocks it |
| | `RespuestaDeLaLineaSiempre` | the answer printed is that of the line typed |
| | `CumpleSesionSiempre` | `NNTPClient` implements `SesionNNTP` |
| `NNTPServerBAM_proofs` | `TipoServidorBAM` | `TypeOK` |
| | `RespuestaVerazSiempre` | what a client is told is true of the directory, if OpenDS answered every search and the name can be searched |
| | `MuerteExplicadaSiempre` | the server dies of the four things named above and of nothing else |
| | `CumpleSesionSiempre` | `NNTPServerBAM` implements `SesionNNTP` with each client |
| `XMLNewsPS_proofs` | `TipoCorrecto` | `TypeOK` |
| | `ConfirmadaNoSePierdeNunca` | no acknowledged article is lost but by a crash |
| | `ConfirmadaSeEntregaSiempre` | what is enqueued for it is that very article |
| | `UnSoloRequestOKSiempre` | a connection is acknowledged once |
| `ProcesoDeNoticias_proofs` | `TipoCorrecto` | `TypeOK` |
| | `NadaSePierdeNunca` | no article is lost between the queue and OpenDS |
| | `CopiasNoCrecenNunca` | none is multiplied |
| `NewsPipeline_proofs` | `TipoPublisherCorrecto` | `TypeOKPublisher` |
| | `SoloLoPublicadoViaja` | nothing travels but the converted text of a stored article, under its ID |
| | `MarcadaFueConfirmadaSiempre` | a mark is of an acknowledged article |
| | `MarcadaLlegaSiempre` | which is in the queue or about to be |
| | `TransmitidaEnCaminoSiempre` | and can be found later along the pipeline |
| | `CumpleEntregaSiempre` | `NewsPipeline` implements `NewsDelivery` |
| `Consultas_proofs` | `ListadoCorrecto` | a listing names each newsgroup once |
| `HTTPServer_proofs` | `TipoServidorHTTP` | `TypeOK` |
| | `CacheCoherenteSiempre` | the cache holds what the directory says |
| | `RespuestaCorrectaSiempre` | one answer for a browser, to its own request |
| | `EnlaceDerecho` | a safe link is read as what it names |
| | `NingunEnlaceRotoSiempre` | and is no 404 if that is in the directory, OpenDS answered every search and the name can be searched |
| `Soporte_proofs` | `LineasEnterasSiempre`, `PerdidaExplicadaSiempre`, `ElLogPerdidoNoVuelve` | the log |
| | `ConsultaDeUnMomentoSiempre` | a query is of one moment of the directory |
| | `AceptadaFielSiempre`, `OrdenDelRepositorioSirveSiempre` | the configuration |

### What they assume

Each module names its assumptions, and TLC evaluates them in the runs. Most say
what kind of value a constant is. The ones that say more:

* `NoticiasAssumption` (readers): no newsgroup is called "0". `quitarRepetidos` marks
  repeated names with it and `pasarArrayEnLimpio` drops what is so marked
  (`util.c:73-107`), so a newsgroup of that name would never be listed. The proof of
  `ListadoCorrecto` fails without it.
* `EncodingAssumption`: `encoding` has a text for each article that may be typed. That is all
  the proofs use of it.
* `ArticulosAssumption`, `PruebaAssumption`, `PruebaFueraDeRango`: the ID of an article
  is a number that is not that of the probes.
* `CodificarAssumption`: a browser writes a space as one "%XX", and "/", "." and "html"
  as they are, and ends no link at them. `EnlacesAssumption`: an article's ID, a number, has nothing to
  encode.
* `RespuestaCorrectaSiempre` has one hypothesis of its own, `PedidosClaros`. A newsgroup
  called "index", or with an accent or a point in its name, is read from its URL as
  something else; the hypothesis is that this something is neither the list of
  newsgroups nor another newsgroup or article that exists, for then the browser does get
  that instead of what it asked for.
  The instances of `MCHTTPServer` satisfy it, by an `ASSUME` TLC evaluates.

Two of these came out of proofs that failed. `Sencillo`, the names a link carries
safely, used to let the empty name and a name with "%20" in it pass: the link of the
first is that of the index, and the second is read with a space. No instance that
TLC ran had either. And `RespuestaCorrecta` is false of a directory with a newsgroup called
"index", whose page is the list of all of them; no instance had one.

### The arguments

* *NNTPClient.* `ComandoEnUnaMano` is not inductive: it says nothing of the
  moments between turns. `Turno` adds that at most one of the two mutexes is
  unlocked, and which thread is at which step while it is; `Dialogo` adds what may
  be in flight at each step (nothing, the command, or its whole answer), as long
  as no answer was cut short. The refinement needs `Tecleada` too: the user
  interface goes on with a line only when one was typed.
* *NNTPServerBAM.* `Bam` is three parts: `Directorio` (the entries are those NNTPProcessServer
  stores; if OpenDS is down the session was lost), `Atencion` (where the loop is
  and with whom) and `Sesiones` (a client in its turn has nothing unanswered, or its
  command waits to be read, or it is the one being executed). The last one is
  what makes a command left in `czMsg` by an earlier client harmless: when it is
  executed again, nobody is there to be answered. A denial rests on `LoBuscadoSeEncuentra`:
  the criterion of a name that can be searched parses, and finds each article of its
  newsgroup.
* *XMLNewsPS.* `TypeOK` needs `ConexionDelHilo`: a thread past the copy of its
  parameters has a connection, and one about to acknowledge has an article, not
  garbage. With it, each step keeps an acknowledged article safe. `UnSoloRequestOK` rests
  on `UnaMarca`: on a connection and in all the threads that attend it there is at
  most one of the units that lead to an acknowledgement.
* *ProcesoDeNoticias.* `TypeOK` needs `ManoEnUso`: while an article is stored or
  put back, there is one in hand. `NadaSePierde` then follows from four lemmas on what
  the queue and the directory keep. `CopiasNoCrecen` counts the copies as the number of
  positions of the queue that hold the article: to append adds one position at most, to
  take the head is a bijection between the others and those of the tail.
* *Publicacion.* The invariant `Camino` is about conversations, and speaks of whole XMLs, since
  two articles may have one text. A connection belongs to
  the sender that opened it until it gives it up (`UnDueno`), and while it does, the
  article on it, in the threads that read it and behind a `RequestOK` is the one under
  that sender's cursor (`Conversaciones`). `PaginasBien` relates every cached page to what
  was stored and
  acknowledged, which is why a stale page written back may lose a mark or an
  article, but never makes a mark.
* *NewsPipeline.* `Tuberia` adds to `Camino` that what is in the queue and in hand is of
  articles as their XML carries them (`Enviables`), and that an acknowledged one leaves a trace
  (`ConRastro`). Steps are taken
  by what they do to the queue (`EfectoXml`, `EfectoCola`, `EfectoPS`), so each half is proved
  without the other. In the refinement the `closeDb` of the client is a `Publicar`, the
  insert that succeeds an `Entregar`, and every other step a stutter.
* *Consultas.* What two nested loops over an array leave is computed by induction over
  its positions, in the form of sets: `InduccionHasta` says that a set with 0, and with
  each successor, has all the numbers up to a bound.
* *HTTPServer.* `Base` holds whatever happens: an article about to be cached was found in
  the directory for the very request of the thread. `Ordenada` holds until main
  overwrites the parameters of a thread (`compartido`): a connection is in one place
  (`Conexiones`), and the thread that has it holds the request of its browser
  (`Tramites`). For the links, the request line is computed piece by piece: its first "/"
  is the third piece, its first "." the one before "html".
* *Logger.* `UnoConArchivo`: who has the file open, and which part of its line is in it.
  With the shared member it is claimed until two threads overlap.
* *ResultSetLDAP.* `Consulta`: messages are given back in order, what was copied of the
  present one agrees with it, those after it are whole.
* *Configuracion.* Ports and addresses alternate, and `strtok` has nothing left when a port
  is next (`Fieles`): a port is only taken from its own line. In the repository's
  order (`HaciaArriba`) the lines taken are always the last ones of the file.

### Only model-checked

The liveness properties: `Drenaje`, `TodaLineaSeResponde`, `TodosSonAtendidos`,
`TodoPedidoSeResponde`. And the four properties that the code does not have.

What shaped the models for the provers: `SelectSeq` is opaque to them (so `copiados`,
`leidas` and `SinEspacios` stand on their own); the literal `" "` and the set
`STRING` are not understood by the SMT backend, so `Enlaces` names them (`Espacio`,
`Piezas`) and one leaf tells the pieces apart.

## What is not modelled

* XML and HTML text: sequential string functions of one thread. A request or
  a message longer than its buffer is modelled where the program goes on with it
  (`Largas`), not for HTTP.
* In the configuration, lines longer than 100 bytes and files longer than 1000,
  which overflow the buffers; the `.ini` files of the Windows programs, read with
  `GetPrivateProfileString`, which has none of `GetVal`'s hazards. Where `strtok`
  goes on in the frame of a `Valida_IP` that returned, the model takes the two
  outcomes a build shows: nothing there ("0"), or a crash.
* In the log, `logger-Debian.c`'s `stderr = arch`, which leaves `stderr` closed after
  each line: its program has one thread and writes nothing else there. A line of
  HTTPServer longer than the buffer of a FILE goes out in two writes; `Logger`
  takes lines that fit. When `fopen` fails the process dies on a NULL FILE, which
  is an action without a property.
* A name with parentheses so placed that `getArticle`'s criterion still parses, as another
  search; IDs in a command or a URL that are not digits; a name that ends in "%". Names and
  URLs longer than the buffers not named above (the 1024 bytes of a request, the criterion
  of `getArticle`). What XML does with characters `encoding()` leaves alone.
* `lastID`, `leerMensajes`, `updateEntry` and the other
  functions nothing calls; the test code that is commented out.
* The thread safety of the LDAP library under HTTPServer's one session.
* `empezando.c`, which belongs to no program.
* Vendored headers and libraries (libxml2, Berkeley DB, OpenSSL, LDAP SDKs): four
  fifths of the lines under `src/`. Several files of the repository are copies
  (`LdapWrapper-Solaris.c`, the loggers under `NNTPServerWin` and `Logger`), and the
  map names one of each.

## Plan

Done: the modules above; `SesionNNTP` and `NewsDelivery` with their implementations; and
a theorem for each safety property and refinement of the runs.

Next, in order of what they would tell:

1. `NNTPClient` and `NNTPServerBAM` over one connection; each is checked and proved
   against `SesionNNTP`, not against the other.
2. `ResultSetLDAP` as an implementation of the queries of `Consultas` in the form of a
   refinement, so that the readers' theorems hold of queries read record by record.
3. The premises of the liveness properties: that `Drenaje`'s and `TodoPedidoSeResponde`'s
   helpful steps decrease a measure, which is a safety property and can be proved.
