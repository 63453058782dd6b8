---------------------------- MODULE MCPublicacion ----------------------------
(* One journalist, overlapping sender threads, two server threads.         *)
EXTENDS Publicacion, TLC

MCEncoding == [n \in Noticias |-> IF n = "n2" THEN "n2 sin tildes" ELSE n]

Simetria == Permutations(Senders) \cup Permutations(Hilos)
=============================================================================
