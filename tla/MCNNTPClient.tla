---------------------------- MODULE MCNNTPClient ----------------------------
(* A valid command, one with a long answer, an invalid one, QUIT, and QUIT *)
(* with a parameter, which does not validate but still ends the loops.     *)
EXTENDS NNTPClient

Linea(n, v, t) == [nombre |-> n, valida |-> v, texto |-> t]
Listgroup == Linea("OTRO", TRUE, "LISTGROUP ole")

MCLineas == {Linea("OTRO", TRUE, "BODY <ole@1>"), Listgroup,
             Linea("OTRO", FALSE, "BODI"), Linea("QUIT", TRUE, "QUIT"),
             Linea("QUIT", FALSE, "QUIT ya")}
MCLargas == {Listgroup}
=============================================================================
