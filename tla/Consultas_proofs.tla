--------------------------- MODULE Consultas_proofs ---------------------------
(***************************************************************************)
(* What the queries of the readers return, whatever the directory and its  *)
(* newsgroups: the lemmas the proofs about NNTPServerBAM and HTTPServer    *)
(* rest on.                                                                *)
(***************************************************************************)
EXTENDS Consultas, FiniteSetTheorems, SequenceTheorems, TLAPS

-----------------------------------------------------------------------------
(* Induction, as a fact about sets of numbers.                             *)

LEMMA MinimoNatural ==
  ASSUME NEW T \in SUBSET Nat, T # {}
  PROVE  \E x \in T : \A y \in T : x <= y
<1> DEFINE Menor == {p \in Nat \X Nat : p[1] < p[2]}
<1>1. OpToRel(<, Nat) = Menor
  BY DEF OpToRel
<1>2. IsWellFoundedOn(Menor, Nat)
  BY <1>1, NatLessThanWellFounded
<1>3. \A x \in Nat, y \in Nat : y < x => <<y, x>> \in Menor
  OBVIOUS
<1> HIDE DEF Menor
<1>4. PICK x \in T : \A y \in T : ~ (<<y, x>> \in Menor)
  BY <1>2, WFMin
<1>5. ASSUME NEW y \in T
      PROVE  x <= y
  <2>1. ~ (y < x)
    BY <1>3, <1>4
  <2>2. QED
    BY <2>1
<1>6. QED
  BY <1>5

LEMMA InduccionHasta ==
  ASSUME NEW N \in Nat, NEW P, 0 \in P,
         \A n \in 0 .. N - 1 : n \in P => n + 1 \in P
  PROVE  0 .. N \subseteq P
<1> SUFFICES ASSUME (0 .. N) \ P # {} PROVE FALSE
  OBVIOUS
<1>0. (0 .. N) \ P \in SUBSET Nat
  OBVIOUS
<1>1. PICK m \in (0 .. N) \ P : \A y \in (0 .. N) \ P : m <= y
  BY <1>0, MinimoNatural
<1>2. m # 0 /\ m - 1 \in 0 .. N - 1
  BY <1>1
<1>3. m - 1 \in P
  BY <1>1, <1>2
<1>4. QED
  BY <1>1, <1>2, <1>3

-----------------------------------------------------------------------------
(* pasarArrayEnLimpio.                                                     *)

Paso(s, n, anterior) ==
  IF n = 0 THEN <<>>
  ELSE IF s[n] = Repetido THEN anterior ELSE Append(anterior, s[n])

\* The recursive definition has a solution: there is one for every prefix.
LEMMA CopiadosDefinida ==
  ASSUME NEW S, NEW s \in Seq(S)
  PROVE  copiados(s) = [n \in 0 .. Len(s) |-> Paso(s, n, copiados(s)[n - 1])]
<1> DEFINE N == Len(s)
           P == {k \in 0 .. N : \E g : g = [n \in 0 .. k |-> Paso(s, n, g[n - 1])]}
<1>0. N \in Nat
  OBVIOUS
<1>1. 0 \in P
  <2>1. [n \in 0 .. 0 |-> <<>>] = [n \in 0 .. 0 |-> Paso(s, n, [m \in 0 .. 0 |-> <<>>][n - 1])]
    BY DEF Paso
  <2>2. QED
    BY <1>0, <2>1
<1>2. ASSUME NEW k \in 0 .. N - 1, k \in P
      PROVE  k + 1 \in P
  <2>1. PICK g : g = [n \in 0 .. k |-> Paso(s, n, g[n - 1])]
    BY <1>2
  <2> DEFINE h == [n \in 0 .. k + 1 |-> IF n = k + 1 THEN Paso(s, n, g[k]) ELSE g[n]]
  <2>2. ASSUME NEW n \in 0 .. k + 1
        PROVE  h[n] = Paso(s, n, h[n - 1])
    <3>1. CASE n = k + 1
      BY <3>1
    <3>2. CASE n \in 1 .. k
      <4>1. h[n] = g[n] /\ h[n - 1] = g[n - 1]
        BY <3>2
      <4>2. QED
        BY <2>1, <3>2, <4>1
    <3>3. CASE n = 0
      <4>1. h[n] = g[n] /\ g[n] = Paso(s, n, g[n - 1])
        BY <2>1, <3>3
      <4>2. QED
        BY <3>3, <4>1 DEF Paso
    <3>4. QED
      BY <3>1, <3>2, <3>3
  <2>3. h = [n \in 0 .. k + 1 |-> Paso(s, n, h[n - 1])]
    BY <2>2
  <2> HIDE DEF h
  <2>4. k + 1 \in 0 .. N /\ \E f : f = [n \in 0 .. k + 1 |-> Paso(s, n, f[n - 1])]
    BY <1>0, <2>3
  <2>5. QED
    BY <2>4
<1> HIDE DEF P
<1>3. 0 .. N \subseteq P
  BY <1>0, <1>1, <1>2, InduccionHasta
<1>4. N \in P
  BY <1>0, <1>3
<1>5. \E g : g = [n \in 0 .. N |-> Paso(s, n, g[n - 1])]
  BY <1>4 DEF P
<1>6. copiados(s) = CHOOSE g : g = [n \in 0 .. N |-> Paso(s, n, g[n - 1])]
  BY DEF copiados, Paso
<1>7. QED
  BY <1>5, <1>6

\* t has the names among the first n of s that are left: each once, by h.
Copia(s, n, t, h) ==
  /\ h \in [DOMAIN t -> 1 .. n]
  /\ \A i \in DOMAIN t : t[i] = s[h[i]] /\ t[i] # Repetido
  /\ \A i, j \in DOMAIN t : h[i] = h[j] => i = j
  /\ \A k \in 1 .. n : s[k] # Repetido => \E i \in DOMAIN t : h[i] = k

LEMMA CopiaUnaMas ==
  ASSUME NEW S, NEW s \in Seq(S), NEW n \in 0 .. Len(s) - 1, NEW t \in Seq(S),
         NEW h, Copia(s, n, t, h)
  PROVE  Paso(s, n + 1, t) \in Seq(S) /\ \E g : Copia(s, n + 1, Paso(s, n + 1, t), g)
<1>0. n \in Nat /\ n + 1 # 0 /\ s[n + 1] \in S /\ Len(t) \in Nat /\ DOMAIN t = 1 .. Len(t)
  OBVIOUS
<1>1. CASE s[n + 1] = Repetido
  <2>1. Copia(s, n + 1, t, h)
    <3>1. \A k \in 1 .. n + 1 : k = n + 1 \/ k \in 1 .. n
      BY <1>0
    <3>2. h \in [DOMAIN t -> 1 .. n + 1]
      BY <1>0 DEF Copia
    <3>3. QED
      BY <1>1, <3>1, <3>2 DEF Copia
  <2>2. Paso(s, n + 1, t) = t
    BY <1>0, <1>1 DEF Paso
  <2>3. QED
    BY <2>1, <2>2
<1>2. CASE s[n + 1] # Repetido
  <2> DEFINE u == Append(t, s[n + 1])
             g == [i \in 1 .. Len(t) + 1 |-> IF i = Len(t) + 1 THEN n + 1 ELSE h[i]]
  <2>1. /\ u \in Seq(S) /\ DOMAIN u = 1 .. Len(t) + 1
        /\ u[Len(t) + 1] = s[n + 1]
        /\ \A i \in 1 .. Len(t) : u[i] = t[i]
    BY <1>0
  <2>2. /\ DOMAIN g = 1 .. Len(t) + 1 /\ g[Len(t) + 1] = n + 1
        /\ \A i \in 1 .. Len(t) : g[i] = h[i] /\ h[i] \in 1 .. n /\ g[i] # n + 1
    BY <1>0 DEF Copia
  <2>3. \A i \in 1 .. Len(t) + 1 : i = Len(t) + 1 \/ i \in 1 .. Len(t)
    BY <1>0
  <2>3a. /\ \A k \in 1 .. n + 1 : k = n + 1 \/ k \in 1 .. n
         /\ 1 .. n \subseteq 1 .. n + 1 /\ n + 1 \in 1 .. n + 1
         /\ 1 .. Len(t) \subseteq 1 .. Len(t) + 1 /\ Len(t) + 1 \in 1 .. Len(t) + 1
    BY <1>0
  <2>3b. g = [i \in 1 .. Len(t) + 1 |-> g[i]]
    OBVIOUS
  <2> HIDE DEF u, g
  <2>4. g \in [DOMAIN u -> 1 .. n + 1]
    BY <2>1, <2>2, <2>3, <2>3a, <2>3b
  <2>5. \A i \in DOMAIN u : u[i] = s[g[i]] /\ u[i] # Repetido
    BY <1>0, <1>2, <2>1, <2>2, <2>3 DEF Copia
  <2>6. \A i, j \in DOMAIN u : g[i] = g[j] => i = j
    BY <1>0, <2>1, <2>2, <2>3 DEF Copia
  <2>7. \A k \in 1 .. n + 1 : s[k] # Repetido => \E i \in DOMAIN u : g[i] = k
    <3>1. ASSUME NEW k \in 1 .. n, s[k] # Repetido
          PROVE  \E i \in DOMAIN u : g[i] = k
      <4>1. PICK i \in DOMAIN t : h[i] = k
        BY <3>1 DEF Copia
      <4>2. QED
        BY <1>0, <2>1, <2>2, <2>3a, <4>1
    <3>2. \E i \in DOMAIN u : g[i] = n + 1
      BY <2>1, <2>2, <2>3a
    <3>3. QED
      BY <2>3a, <3>1, <3>2
  <2>8. Paso(s, n + 1, t) = u
    BY <1>0, <1>2 DEF Paso, u
  <2>9. Copia(s, n + 1, u, g)
    BY <2>4, <2>5, <2>6, <2>7 DEF Copia
  <2>10. QED
    BY <2>1, <2>8, <2>9
<1>3. QED
  BY <1>1, <1>2

LEMMA EnLimpio ==
  ASSUME NEW S, NEW s \in Seq(S)
  PROVE  LET t == pasarArrayEnLimpio(s)
         IN t \in Seq(S) /\ \E h : Copia(s, Len(s), t, h)
<1> DEFINE c == copiados(s)
           P == {n \in 0 .. Len(s) : c[n] \in Seq(S) /\ \E h : Copia(s, n, c[n], h)}
<1>0. Len(s) \in Nat /\ \A n \in 0 .. Len(s) : c[n] = Paso(s, n, c[n - 1])
  BY CopiadosDefinida
<1> HIDE DEF c
<1>1. 0 \in P
  <2>1. c[0] = <<>>
    BY <1>0 DEF Paso
  <2>2. Copia(s, 0, <<>>, <<>>)
    BY DEF Copia
  <2>3. c[0] \in Seq(S) /\ Copia(s, 0, c[0], <<>>)
    BY <2>1, <2>2
  <2>4. 0 \in 0 .. Len(s) /\ \E h : Copia(s, 0, c[0], h)
    BY <1>0, <2>3
  <2>5. QED
    BY <2>3, <2>4
<1>2. ASSUME NEW n \in 0 .. Len(s) - 1, n \in P
      PROVE  n + 1 \in P
  <2>1. n + 1 \in 0 .. Len(s) /\ (n + 1) - 1 = n
    BY <1>0
  <2>2. c[n + 1] = Paso(s, n + 1, c[n])
    BY <1>0, <2>1
  <2>3. PICK h : Copia(s, n, c[n], h)
    BY <1>2
  <2>4. Paso(s, n + 1, c[n]) \in Seq(S) /\ \E g : Copia(s, n + 1, Paso(s, n + 1, c[n]), g)
    BY <1>2, <2>3, CopiaUnaMas
  <2>5. QED
    BY <2>1, <2>2, <2>4
<1> HIDE DEF P
<1>3. 0 .. Len(s) \subseteq P
  BY <1>0, <1>1, <1>2, InduccionHasta
<1>4. Len(s) \in P
  BY <1>0, <1>3
<1>5. QED
  BY <1>4 DEF P, pasarArrayEnLimpio, c

-----------------------------------------------------------------------------
(* quitarRepetidos.                                                        *)

\* Of the names of a newsgroup the first one is left, and no other.
LEMMA SinRepetidos ==
  ASSUME NEW S, NEW s \in Seq(S), Repetido \notin S
  PROVE  LET q == quitarRepetidos(s)
         IN /\ q \in Seq(S \cup {Repetido}) /\ Len(q) = Len(s)
            /\ \A j \in 1 .. Len(s) : q[j] # Repetido => q[j] = s[j]
            /\ \A i, j \in 1 .. Len(s) :
                 q[i] # Repetido /\ q[j] # Repetido /\ MismoGrupo(s[i], s[j]) => i = j
            /\ \A j \in 1 .. Len(s) : \E i \in 1 .. Len(s) :
                 q[i] # Repetido /\ MismoGrupo(s[i], s[j])
<1> DEFINE q == quitarRepetidos(s)
           N == Len(s)
<1>0. /\ N \in Nat /\ DOMAIN s = 1 .. N /\ \A j \in 1 .. N : s[j] \in S
      /\ q = [j \in 1 .. N |-> IF \E i \in 1 .. j - 1 : MismoGrupo(s[i], s[j])
                               THEN Repetido ELSE s[j]]
  BY DEF quitarRepetidos
<1> HIDE DEF q, N
<1>1. q \in Seq(S \cup {Repetido}) /\ Len(q) = N
  BY <1>0
<1>2. \A j \in 1 .. N : q[j] # Repetido => q[j] = s[j]
  BY <1>0
<1>3. ASSUME NEW i \in 1 .. N, NEW j \in 1 .. N, i < j, q[j] # Repetido
      PROVE  ~ MismoGrupo(s[i], s[j])
  BY <1>0, <1>3
<1>4. ASSUME NEW i \in 1 .. N, NEW j \in 1 .. N, q[i] # Repetido, q[j] # Repetido,
             MismoGrupo(s[i], s[j])
      PROVE  i = j
  <2>1. MismoGrupo(s[j], s[i])
    BY <1>4 DEF MismoGrupo
  <2>2. ~ (i < j) /\ ~ (j < i)
    BY <1>3, <1>4, <2>1
  <2>3. QED
    BY <1>0, <2>2
<1>5. ASSUME NEW j \in 1 .. N
      PROVE  \E i \in 1 .. N : q[i] # Repetido /\ MismoGrupo(s[i], s[j])
  <2> DEFINE T == {i \in 1 .. N : MismoGrupo(s[i], s[j])}
  <2>1. T \in SUBSET Nat /\ T # {}
    BY <1>0 DEF MismoGrupo
  <2>2. PICK m \in T : \A i \in T : m <= i
    BY <2>1, MinimoNatural
  <2>3. ASSUME NEW i \in 1 .. m - 1
        PROVE  ~ MismoGrupo(s[i], s[m])
    <3>1. i \in 1 .. N /\ ~ (m <= i)
      BY <1>0, <2>2
    <3>2. i \notin T
      BY <2>2, <3>1
    <3>3. QED
      BY <2>2, <3>1, <3>2 DEF MismoGrupo
  <2>4. q[m] = s[m]
    BY <1>0, <2>2, <2>3
  <2>5. QED
    BY <1>0, <2>2, <2>4
<1>6. QED
  BY <1>1, <1>2, <1>4, <1>5 DEF q, N

-----------------------------------------------------------------------------
(* The listings of the newsgroups.                                         *)

GruposDe(b) == {b[id].grupo : id \in DOMAIN b}

\* The orders a search may return a set in: each element has one place.
LEMMA UnaVezCadaUno ==
  ASSUME NEW T, IsFiniteSet(T), NEW ids \in SetToSeqs(T)
  PROVE  /\ Cardinality(T) \in Nat
         /\ ids \in [1 .. Cardinality(T) -> T]
         /\ ids \in Seq(T) /\ Len(ids) = Cardinality(T)
         /\ \A i, j \in 1 .. Cardinality(T) : ids[i] = ids[j] => i = j
         /\ \A id \in T : \E i \in 1 .. Cardinality(T) : ids[i] = id
<1> DEFINE n == Cardinality(T)
<1>1. n \in Nat /\ IsFiniteSet(1 .. n) /\ Cardinality(1 .. n) = n
  <2>1. n \in Nat
    BY FS_CardinalityType
  <2>2. QED
    BY <2>1, FS_Interval
<1>2. ids \in [1 .. n -> T] /\ \A i, j \in 1 .. n : i # j => ids[i] # ids[j]
  BY DEF SetToSeqs
<1>3. ids \in Injection(1 .. n, T)
  BY <1>2 DEF Injection, IsInjective
<1>4. ids \in Surjection(1 .. n, T)
  BY <1>1, <1>3, FS_Injection
<1>5. \A id \in T : \E i \in 1 .. n : ids[i] = id
  BY <1>4 DEF Surjection
<1> HIDE DEF n
<1>6. ids \in Seq(T) /\ Len(ids) = n
  BY <1>1, <1>2
<1>7. QED
  BY <1>1, <1>2, <1>5, <1>6 DEF n

\* The search returns every entry, once: each newsgroup is in the listing.
LEMMA TodasLasEntradas ==
  ASSUME NEW b, IsFiniteSet(DOMAIN b), NEW s \in selectEntries(b)
  PROVE  /\ s \in Seq(GruposDe(b))
         /\ \A g \in GruposDe(b) : \E j \in 1 .. Len(s) : s[j] = g
<1> DEFINE n == Cardinality(DOMAIN b)
<1>1. PICK ids \in SetToSeqs(DOMAIN b) : s = [i \in DOMAIN ids |-> b[ids[i]].grupo]
  BY DEF selectEntries
<1>2. /\ n \in Nat /\ ids \in [1 .. n -> DOMAIN b]
      /\ \A id \in DOMAIN b : \E i \in 1 .. n : ids[i] = id
  BY UnaVezCadaUno
<1> HIDE DEF n
<1>3. DOMAIN s = 1 .. n /\ \A i \in 1 .. n : s[i] = b[ids[i]].grupo /\ s[i] \in GruposDe(b)
  BY <1>1, <1>2 DEF GruposDe
<1>4. s \in Seq(GruposDe(b)) /\ Len(s) = n
  <2>1. s = [i \in 1 .. n |-> s[i]]
    BY <1>1, <1>3
  <2>2. s \in [1 .. n -> GruposDe(b)]
    BY <1>3, <2>1
  <2>3. QED
    BY <1>2, <2>2
<1>5. ASSUME NEW g \in GruposDe(b)
      PROVE  \E j \in 1 .. Len(s) : s[j] = g
  <2>1. PICK id \in DOMAIN b : g = b[id].grupo
    BY DEF GruposDe
  <2>2. PICK i \in 1 .. n : ids[i] = id
    BY <1>2
  <2>3. QED
    BY <1>3, <1>4, <2>1, <2>2
<1>6. QED
  BY <1>4, <1>5

\* What the readers list is each newsgroup of the directory, once.
THEOREM ListadoCorrecto ==
  ASSUME NEW b, IsFiniteSet(DOMAIN b), Repetido \notin GruposDe(b),
         NEW s \in ListadosDeGrupos(b)
  PROVE  s \in Seq(GruposDe(b)) /\ EsListadoDeGrupos(s, b)
<1>1. PICK e \in selectEntries(b) : s = pasarArrayEnLimpio(quitarRepetidos(e))
  BY DEF ListadosDeGrupos
<1> DEFINE G == GruposDe(b)
           q == quitarRepetidos(e)
<1>2. e \in Seq(G) /\ \A g \in G : \E j \in 1 .. Len(e) : e[j] = g
  BY <1>1, TodasLasEntradas
<1>3. /\ q \in Seq(G \cup {Repetido}) /\ Len(q) = Len(e)
      /\ \A j \in 1 .. Len(e) : q[j] # Repetido => q[j] = e[j]
      /\ \A i, j \in 1 .. Len(e) :
           q[i] # Repetido /\ q[j] # Repetido /\ MismoGrupo(e[i], e[j]) => i = j
      /\ \A j \in 1 .. Len(e) : \E i \in 1 .. Len(e) :
           q[i] # Repetido /\ MismoGrupo(e[i], e[j])
  BY <1>2, SinRepetidos
<1> HIDE DEF G, q
<1>4. s \in Seq(G \cup {Repetido}) /\ \E h : Copia(q, Len(q), s, h)
  BY <1>1, <1>3, EnLimpio DEF q
<1>5. PICK h : Copia(q, Len(q), s, h)
  BY <1>4
<1>6. /\ \A i \in DOMAIN s : h[i] \in 1 .. Len(e) /\ s[i] = q[h[i]] /\ s[i] # Repetido
      /\ \A i, j \in DOMAIN s : h[i] = h[j] => i = j
      /\ \A k \in 1 .. Len(e) : q[k] # Repetido => \E i \in DOMAIN s : h[i] = k
  BY <1>3, <1>5 DEF Copia
<1>7. \A i \in DOMAIN s : s[i] = e[h[i]]
  BY <1>3, <1>6
<1>8. s \in Seq(G)
  <2>1. \A i \in 1 .. Len(s) : s[i] \in G
    BY <1>4, <1>6
  <2>2. s = [i \in 1 .. Len(s) |-> s[i]] /\ Len(s) \in Nat
    BY <1>4
  <2>3. s \in [1 .. Len(s) -> G]
    BY <2>1, <2>2
  <2>4. QED
    BY <2>2, <2>3
<1>9. ASSUME NEW i \in DOMAIN s, NEW j \in DOMAIN s, i # j
      PROVE  ~ MismoGrupo(s[i], s[j])
  BY <1>3, <1>6, <1>7, <1>9
<1>10. \A i \in DOMAIN s : \E id \in DOMAIN b : s[i] = b[id].grupo
  BY <1>8 DEF G, GruposDe
<1>11. ASSUME NEW id \in DOMAIN b
       PROVE  \E i \in DOMAIN s : pasarAMayusculas[s[i]] = pasarAMayusculas[b[id].grupo]
  <2>1. PICK j \in 1 .. Len(e) : e[j] = b[id].grupo
    BY <1>2 DEF G, GruposDe
  <2>2. PICK k \in 1 .. Len(e) : q[k] # Repetido /\ MismoGrupo(e[k], e[j])
    BY <1>3
  <2>3. PICK i \in DOMAIN s : h[i] = k
    BY <1>6, <2>2
  <2>4. QED
    BY <1>7, <2>1, <2>2, <2>3 DEF MismoGrupo
<1>12. {pasarAMayusculas[s[i]] : i \in DOMAIN s}
         = {pasarAMayusculas[b[id].grupo] : id \in DOMAIN b}
  BY <1>10, <1>11
<1>13. QED
  BY <1>8, <1>9, <1>12 DEF EsListadoDeGrupos, G
=============================================================================
