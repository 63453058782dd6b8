------------------------------- MODULE Enlaces -------------------------------
(***************************************************************************)
(* The way of a request through its URL: HTTPServer writes the links of    *)
(* its pages, the browser sends one back in the request line, and the      *)
(* thread takes the newsgroup and the article out of it.                   *)
(*                                                                         *)
(* A text is a sequence of pieces: words, and the characters the code or   *)
(* the browser treats apart.  A piece "%XX" is three characters.  What the *)
(* browser reads or writes as something else (an accent, a backslash, an   *)
(* "&" that names a character) is in the domain of codificar.              *)
(***************************************************************************)
EXTENDS Sequences, SequencesExt

CONSTANTS codificar,  \* piece |-> the pieces the browser sends in its place
          Escapes,    \* the pieces that start with "%"
          Cortes      \* where the browser ends the URL of a link: "#", which
                      \* starts what it keeps for itself, and the closing quote

\* The pieces the code and the browser look for, and any piece.
Espacio == " "
Barra == "/"
Punto == "."
Piezas == STRING

Html == <<Punto, "html">>

\* armarLinkCon and who calls it, and the URLs browsers ask for by themselves.
Url(p) ==
  CASE p.tipo = "index"    -> <<Barra>>
    [] p.tipo = "favicon"  -> <<Barra, "favicon", Punto, "ico">>
    [] p.tipo = "grupo"    -> <<Barra>> \o p.grupo \o Html
    [] p.tipo = "noticia"  -> <<Barra>> \o p.grupo \o <<Barra>> \o p.id \o Html
    [] p.tipo = "tecleada" -> <<Barra>> \o p.grupo

Codificado(x) == IF x \in DOMAIN codificar THEN codificar[x] ELSE <<x>>

HastaElCorte(u) ==
  LET k == SelectInSeq(u, LAMBDA x : x \in Cortes)
  IN IF k = 0 THEN u ELSE SubSeq(u, 1, k - 1)

\* The first line of the request.
sMensajeHTTPCliente(p) ==
  LET u == HastaElCorte(Url(p))
  IN <<"GET", Espacio>> \o FlattenSeq([i \in DOMAIN u |-> Codificado(u[i])])
       \o <<Espacio, "HTTP", Barra, "1", Punto, "1">>

Primera(s, x) == SelectInSeq(s, LAMBDA y : y = x)

\* From the first "/" to the first ".", wherever it is.
obtenerRecursoDeCabecera(s) ==
  IF s[Primera(s, Barra) + 1] = Espacio THEN <<Barra>>
  ELSE SubSeq(s, Primera(s, Barra), Primera(s, Punto) - 1)

\* Mutant of formatearEspacios: the URL as it came.
NoFormatearEspacios(r) == r

\* A space for every "%XX", not only for "%20".
formatearEspacios(r) == [i \in DOMAIN r |-> IF r[i] \in Escapes THEN Espacio ELSE r[i]]

\* obtenerGrupoDeNoticias, llevaNoticia and obtenerNoticia: what is before and
\* after the next "/".
GrupoYNoticia(r) ==
  LET resto == Tail(r)
      k == Primera(resto, Barra)
  IN IF k = 0 THEN [tipo |-> "grupo", grupo |-> resto]
     ELSE [tipo |-> "noticia", grupo |-> SubSeq(resto, 1, k - 1),
           id |-> SubSeq(resto, k + 1, Len(resto))]

\* What the thread makes of a request.
Interpretado(p) ==
  LET r == obtenerRecursoDeCabecera(sMensajeHTTPCliente(p))
  IN CASE r = <<Barra, "favicon">> -> [tipo |-> "favicon"]
       [] r = <<Barra>> \/ r = <<Barra, "index">> -> [tipo |-> "index"]
       [] OTHER -> GrupoYNoticia(formatearEspacios(r))

\* A piece that comes back from a URL as it was, a space included.
SinRiesgo(x) == /\ x \notin {Punto, Barra} \cup Escapes \cup Cortes
                /\ x \in DOMAIN codificar => x = Espacio

\* Names of newsgroups that are safe in a link: no point, no slash, no "%XX",
\* nothing that ends the link or that the browser writes as anything but a "%20",
\* not the name of a page of the server.
Sencillo(g) ==
  /\ g \notin {<<>>, <<"index">>, <<"favicon">>}
  /\ \A i \in DOMAIN g : SinRiesgo(g[i])

\* The browser writes a space as one "%XX", and what the server puts in every
\* link as it is.
ASSUME CodificarAssumption ==
  /\ Espacio \in DOMAIN codificar
  /\ \E e \in Escapes : codificar[Espacio] = <<e>>
  /\ (DOMAIN codificar \cup Cortes) \cap {Barra, Punto, "html"} = {}
  /\ Escapes \cap {Espacio, Barra, Punto, "index", "favicon"} = {}
=============================================================================
