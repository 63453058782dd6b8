------------------------- MODULE MCProcesoDeNoticias -------------------------
(* Two newsgroups, and two articles that got the same ID in the same       *)
(* second.                                                                 *)
EXTENDS ProcesoDeNoticias

Articulo(id, g, n) == [tipo |-> "noticia", id |-> id, grupo |-> g, noticia |-> n]

MCArticulos == {Articulo(1, "ole", "n1"), Articulo(1, "minuto", "n2")}
=============================================================================
