------------------------- MODULE Planificador_proofs -------------------------
(***************************************************************************)
(* Proofs about Planificador for any Jobs, nodes, files and answers of the *)
(* Filesystem.                                                             *)
(***************************************************************************)
EXTENDS Planificador, Secuencias_proofs

(* What the lists of a plan are made of.                                   *)
CopiaDe == [nodo : Nodo, bloque : Nat]
Leido == {b \in [bloque : Nat, copias : Seq(CopiaDe)] : Len(b.copias) = 3}
EnLista == [bloque : Nat, nodo : Nodo, enNodo : Nat]
Lista == [nodo : Nodo, peso : Int, bloques : Seq(EnLista)]
Entrada == [nombre : Nombres, ip : Nombres, puerto : Nombres, pendientes : Int,
            bloques : Seq(Nat)]

Antes == {"inicio", "pregunta", "busca", "agrega", "ordena"}
Reparto == {"reparte", "suma", "sigue"}
Despues == {"envia", "resta", "trabaja", "fin"}

Tipos ==
  /\ disco \in [Archivo -> {NoEsta, SinRuta} \cup Seq(Seq(CopiaDe))]
  /\ pedido \in [Job -> [archivos : Seq(Archivo), combiner : BOOLEAN]]
  /\ lista_nodos \in Seq(Entrada)
  /\ socket_fs \in Job \cup {Nadie}
  /\ hilo \in [Job -> Antes \cup Reparto \cup Despues \cup {"perdido"}]
  /\ resto \in [Job -> Seq(Nombres)]
  /\ faltan \in [Job -> Nat]
  /\ bloques \in [Job -> Seq(Seq(Leido))]
  /\ listas \in [Job -> Seq(Seq(Lista))]
  /\ cursor \in [Job -> [archivo : Nat \ {0}, lista : Nat \ {0}]]
  /\ leida \in [Job -> [nodo : Nat, carga : Int]]
  /\ enviados \in [Job -> Seq(Tarea)]
  /\ DOMAIN total = Job
  /\ solapo \in BOOLEAN
  /\ caida \in {"no", "prof", "nodo", "entrada", "lectura"}

(* What a thread is about to read is there, and the nodes of the tasks are *)
(* in lista_nodos, where nothing is ever removed.                          *)
Alcanza ==
  /\ \A j \in Job : Len(resto[j]) >= 3 * faltan[j]
  /\ \A j \in Job : hilo[j] = "agrega" => faltan[j] > 0
  /\ \A j \in Job : Len(listas[j]) = Len(bloques[j])
  /\ \A j \in Job : hilo[j] \in {"suma", "resta"} => leida[j].nodo \in 1..Len(lista_nodos)
  /\ \A j \in Job : \A p \in 1..Len(enviados[j]) : BuscarNodo(enviados[j][p].nodo) # 0

TipoInv == Tipos /\ Alcanza

-----------------------------------------------------------------------------
(* buscarNodo gives the first entry of that name, 0 if there is none.      *)
Primero(ln, n) ==
  LET I == {k \in 1..Len(ln) : ln[k].nombre = n} IN IF I # {} THEN Min(I) ELSE 0

LEMMA PrimeroEs ==
  ASSUME NEW S, NEW ln \in Seq(S), NEW n
  PROVE  /\ Primero(ln, n) \in 0..Len(ln)
         /\ Primero(ln, n) = 0 => \A k \in 1..Len(ln) : ln[k].nombre # n
         /\ Primero(ln, n) # 0 =>
              /\ Primero(ln, n) \in 1..Len(ln) /\ ln[Primero(ln, n)].nombre = n
              /\ \A k \in 1..Len(ln) : ln[k].nombre = n => Primero(ln, n) <= k
<1>. DEFINE I == {k \in 1..Len(ln) : ln[k].nombre = n}
            m == Min(I)
<1>1. I # {} => m \in I /\ \A k \in I : m <= k
  <2>1. I \in SUBSET Nat
    OBVIOUS
  <2>. HIDE DEF I
  <2>. QED
    BY <2>1, MinEs
<1>2. Primero(ln, n) = IF I # {} THEN m ELSE 0
  BY DEF Primero
<1>3. Len(ln) \in Nat
  OBVIOUS
<1>. HIDE DEF m
<1>4. CASE I = {}
  BY <1>2, <1>3, <1>4
<1>5. CASE I # {}
  BY <1>1, <1>2, <1>3, <1>5
<1>. QED
  BY <1>4, <1>5

LEMMA BuscarPrimero ==
  /\ \A n : BuscarNodo(n) = Primero(lista_nodos, n)
  /\ \A n : BuscarNodo(n)' = Primero(lista_nodos', n)
BY DEF BuscarNodo, SelectInSeq, Primero

LEMMA BuscarEs ==
  ASSUME Tipos
  PROVE  \A n : /\ BuscarNodo(n) \in 0..Len(lista_nodos)
                /\ BuscarNodo(n) = 0 => \A k \in 1..Len(lista_nodos) : lista_nodos[k].nombre # n
                /\ BuscarNodo(n) # 0 =>
                     /\ BuscarNodo(n) \in 1..Len(lista_nodos)
                     /\ lista_nodos[BuscarNodo(n)].nombre = n
                     /\ \A k \in 1..Len(lista_nodos) : lista_nodos[k].nombre = n => BuscarNodo(n) <= k
<1>1. lista_nodos \in Seq(Entrada)
  BY DEF Tipos
<1>. TAKE n
<1>. QED
  BY <1>1, BuscarPrimero, PrimeroEs

(* Nodes are added at the end and keep their names.                        *)
Crece == /\ Len(lista_nodos) <= Len(lista_nodos')
         /\ \A i \in 1..Len(lista_nodos) : lista_nodos'[i].nombre = lista_nodos[i].nombre

LEMMA BuscarQueda ==
  ASSUME Tipos, Tipos', Crece, NEW n, BuscarNodo(n) # 0
  PROVE  BuscarNodo(n)' = BuscarNodo(n)
<1>. DEFINE i == BuscarNodo(n)
            k == Primero(lista_nodos', n)
<1>1. /\ i \in 1..Len(lista_nodos) /\ lista_nodos[i].nombre = n
      /\ \A h \in 1..Len(lista_nodos) : lista_nodos[h].nombre = n => i <= h
  BY BuscarEs
<1>2. lista_nodos' \in Seq(Entrada) /\ lista_nodos \in Seq(Entrada)
  BY DEF Tipos
<1>3. /\ k \in 0..Len(lista_nodos')
      /\ k = 0 => \A h \in 1..Len(lista_nodos') : lista_nodos'[h].nombre # n
      /\ k # 0 => /\ k \in 1..Len(lista_nodos') /\ lista_nodos'[k].nombre = n
                  /\ \A h \in 1..Len(lista_nodos') : lista_nodos'[h].nombre = n => k <= h
  BY <1>2, PrimeroEs
<1>4. BuscarNodo(n)' = k
  BY BuscarPrimero
<1>. HIDE DEF i, k
<1>5. /\ i \in 1..Len(lista_nodos') /\ lista_nodos'[i].nombre = n
      /\ \A h \in 1..Len(lista_nodos) : lista_nodos'[h].nombre = n => i <= h
      /\ Len(lista_nodos) \in Nat /\ Len(lista_nodos') \in Nat
  BY <1>1, <1>2 DEF Crece
<1>6. k # 0 /\ k <= i
  BY <1>3, <1>5
<1>7. k \in 1..Len(lista_nodos)
  BY <1>1, <1>3, <1>5, <1>6
<1>8. k = i
  BY <1>1, <1>3, <1>5, <1>6, <1>7
<1>. QED
  BY <1>4, <1>8 DEF i

-----------------------------------------------------------------------------
(* What the answer of the Filesystem turns into.                           *)

(* A list without repetitions has the same elements.                       *)
LEMMA DistintosEs ==
  ASSUME NEW S, NEW s \in Seq(S)
  PROVE  /\ Distintos(s) \in Seq(S)
         /\ Len(Distintos(s)) <= Len(s)
         /\ \A p, q \in 1..Len(Distintos(s)) : Distintos(s)[p] = Distintos(s)[q] => p = q
         /\ \A p \in 1..Len(Distintos(s)) : \E i \in 1..Len(s) : s[i] = Distintos(s)[p]
         /\ \A i \in 1..Len(s) : \E p \in 1..Len(Distintos(s)) : Distintos(s)[p] = s[i]
<1>. DEFINE N == Len(s)
            I == {i \in DOMAIN s : \A k \in 1..(i - 1) : s[k] # s[i]}
            D == Escogidos(s, I)
<1>1. Distintos(s) = D
  <2>1. [i \in DOMAIN s |-> IF \A k \in 1..(i - 1) : s[k] # s[i] THEN <<s[i]>> ELSE <<>>]
          = [i \in DOMAIN s |-> IF i \in I THEN <<s[i]>> ELSE <<>>]
    OBVIOUS
  <2>. QED
    BY <2>1 DEF Distintos, Algunos, Escogidos
<1>2. N \in Nat /\ DOMAIN s = 1..N
  OBVIOUS
<1>3. \A i \in 1..N : i \in I <=> \A k \in 1..(i - 1) : s[k] # s[i]
  BY <1>2
<1>. HIDE DEF N, I, D
<1>4. PICK c \in [1..Len(D) -> 1..N] :
        /\ D \in Seq(S)
        /\ \A p \in DOMAIN c : c[p] \in I /\ D[p] = s[c[p]]
        /\ \A i \in 1..N : i \in I => \E p \in DOMAIN c : c[p] = i
        /\ \A p, q \in DOMAIN c : p < q => c[p] < c[q]
  <2>1. D \in Seq(S) /\ EnSuOrden(D, s, I)
    BY EscogidosEs DEF D
  <2>. QED
    BY <2>1 DEF EnSuOrden, N
<1>5. DOMAIN c = 1..Len(D) /\ Len(D) \in Nat
  BY <1>4
<1>6. \A p, q \in 1..Len(D) : D[p] = D[q] => p = q
  <2>1. ASSUME NEW a \in 1..N, NEW b \in 1..N, a \in I, b \in I, s[a] = s[b]
        PROVE  a = b
    <3>1. ~(a < b) /\ ~(b < a)
      BY <1>2, <1>3, <2>1
    <3>. QED
      BY <1>2, <3>1
  <2>2. \A p, q \in 1..Len(D) : D[p] = D[q] => c[p] = c[q]
    BY <1>4, <1>5, <2>1, SMTT(30)
  <2>3. \A p, q \in 1..Len(D) : c[p] = c[q] => p = q
    <3>. SUFFICES ASSUME NEW p \in 1..Len(D), NEW q \in 1..Len(D), c[p] = c[q]
                  PROVE  p = q
      OBVIOUS
    <3>1. c[p] \in 1..N /\ c[q] \in 1..N
      BY <1>4
    <3>2. ~(p < q) /\ ~(q < p)
      BY <1>2, <1>4, <1>5, <3>1
    <3>. QED
      BY <1>5, <3>2
  <2>. QED
    BY <2>2, <2>3
<1>7. \A i \in 1..N : \E p \in 1..Len(D) : D[p] = s[i]
  <2>. TAKE i \in 1..N
  <2>. DEFINE M == {k \in 1..N : s[k] = s[i]}
              m == Min(M)
  <2>1. M \in SUBSET Nat /\ M # {}
    BY <1>2
  <2>2. m \in M /\ \A y \in M : m <= y
    BY <2>1, MinEs
  <2>. HIDE DEF m
  <2>3. m \in 1..N /\ s[m] = s[i] /\ m \in I
    BY <1>2, <1>3, <2>2
  <2>. QED
    BY <1>4, <1>5, <2>3
<1>8. Len(D) <= N
  <2>. DEFINE f == [p \in 1..Len(D) |-> c[p]]
  <2>1. f \in Injection(1..Len(D), 1..N)
    <3>1. \A p, q \in 1..Len(D) : c[p] = c[q] => p = q
      BY <1>4, <1>5, <1>6
    <3>. QED
      BY <3>1 DEF Injection, IsInjective
  <2>2. \A n \in Nat : IsFiniteSet(1..n) /\ Cardinality(1..n) = n
    BY FS_Interval
  <2>3. Cardinality(1..Len(D)) <= Cardinality(1..N)
    BY <1>2, <2>1, <2>2, FS_Injection
  <2>. QED
    BY <1>2, <1>5, <2>2, <2>3
<1>9. \A p \in 1..Len(D) : \E i \in 1..N : s[i] = D[p]
  BY <1>4, <1>5
<1>. QED
  BY <1>1, <1>4, <1>6, <1>7, <1>8, <1>9 DEF N

(* The elements of some indices of a sequence are in what is chosen of it. *)
LEMMA EscogidosSon ==
  ASSUME NEW S, NEW s \in Seq(S), NEW I
  PROVE  /\ Escogidos(s, I) \in Seq(S)
         /\ \A p \in 1..Len(Escogidos(s, I)) :
              \E i \in 1..Len(s) : i \in I /\ Escogidos(s, I)[p] = s[i]
         /\ \A i \in 1..Len(s) : i \in I =>
              \E p \in 1..Len(Escogidos(s, I)) : Escogidos(s, I)[p] = s[i]
<1>. DEFINE D == Escogidos(s, I)
<1>. HIDE DEF D
<1>1. PICK c \in [1..Len(D) -> 1..Len(s)] :
        /\ D \in Seq(S)
        /\ \A p \in DOMAIN c : c[p] \in I /\ D[p] = s[c[p]]
        /\ \A i \in 1..Len(s) : i \in I => \E p \in DOMAIN c : c[p] = i
        /\ \A p, q \in DOMAIN c : p < q => c[p] < c[q]
  <2>1. D \in Seq(S) /\ EnSuOrden(D, s, I)
    BY EscogidosEs DEF D
  <2>. QED
    BY <2>1 DEF EnSuOrden
<1>2. DOMAIN c = 1..Len(D) /\ \A p \in 1..Len(D) : c[p] \in 1..Len(s)
  OBVIOUS
<1>3. \A p \in 1..Len(D) : \E i \in 1..Len(s) : i \in I /\ D[p] = s[i]
  BY <1>1, <1>2
<1>4. \A i \in 1..Len(s) : i \in I => \E p \in 1..Len(D) : D[p] = s[i]
  BY <1>1, <1>2
<1>. QED
  BY <1>1, <1>3, <1>4 DEF D

(* FuncionMagica lists every copy of every block, under its node, and      *)
(* nothing else; it makes at most three lists for each block.              *)
Tres(b, k) == [bloque |-> b.bloque, nodo |-> Copia(b, k).nodo, enNodo |-> Copia(b, k).bloque]

LEMMA FuncionMagicaEs ==
  ASSUME NEW bs \in Seq(Leido)
  PROVE  /\ FuncionMagica(bs) \in Seq(Lista)
         /\ Len(FuncionMagica(bs)) <= 3 * Len(bs)
         /\ \A i \in 1..Len(FuncionMagica(bs)) : \A p \in 1..Len(FuncionMagica(bs)[i].bloques) :
              LET d == FuncionMagica(bs)[i].bloques[p]
              IN d.nodo = FuncionMagica(bs)[i].nodo /\
                 \E b \in 1..Len(bs), k \in 1..3 : d = Tres(bs[b], k)
         /\ \A b \in 1..Len(bs), k \in 1..3 :
              \E i \in 1..Len(FuncionMagica(bs)) : \E p \in 1..Len(FuncionMagica(bs)[i].bloques) :
                FuncionMagica(bs)[i].bloques[p] = Tres(bs[b], k)
<1>. DEFINE s == [i \in DOMAIN bs |-> [k \in 1..3 |-> Tres(bs[i], k)]]
            C == FlattenSeq(s)
            m == [i \in DOMAIN C |-> C[i].nodo]
            N == Distintos(m)
            I(n) == {i \in DOMAIN C : C[i].nodo = n}
            L == [n \in Nodo |-> [nodo |-> n, peso |-> 0, bloques |-> Escogidos(C, I(n))]]
            F == [i \in DOMAIN N |-> L[N[i]]]
<1>1. FuncionMagica(bs) = F
  <2>. DEFINE G(n) == FlattenSeq([i \in DOMAIN C |-> IF C[i].nodo = n THEN <<C[i]>> ELSE <<>>])
              M == [n \in Nodo |-> [nodo |-> n, peso |-> 0, bloques |-> G(n)]]
  <2>1. \A n : G(n) = Escogidos(C, I(n))
    <3>1. \A n : [i \in DOMAIN C |-> IF C[i].nodo = n THEN <<C[i]>> ELSE <<>>]
                 = [i \in DOMAIN C |-> IF i \in I(n) THEN <<C[i]>> ELSE <<>>]
      OBVIOUS
    <3>. QED
      BY <3>1 DEF Escogidos
  <2>2. FuncionMagica(bs) = [i \in DOMAIN N |-> M[N[i]]]
    BY DEF FuncionMagica, Algunos, Tres
  <2>. HIDE DEF G, I, N
  <2>3. M = L
    BY <2>1
  <2>. QED
    BY <2>2, <2>3
<1>2. Len(bs) \in Nat /\ DOMAIN bs = 1..Len(bs)
  OBVIOUS
<1>3. \A i \in 1..Len(bs) : \A k \in 1..3 : Tres(bs[i], k) \in EnLista
  <2>1. \A i \in 1..Len(bs) : bs[i].bloque \in Nat /\ bs[i].copias \in Seq(CopiaDe) /\ Len(bs[i].copias) = 3
    BY DEF Leido
  <2>2. \A i \in 1..Len(bs) : \A k \in 1..3 : bs[i].copias[k] \in CopiaDe
    BY <2>1
  <2>. QED
    BY <2>1, <2>2 DEF Tres, EnLista, Copia, CopiaDe
<1>4. /\ s \in Seq(Seq(EnLista)) /\ Len(s) = Len(bs)
      /\ \A i \in 1..Len(bs) : Len(s[i]) = 3 /\ \A k \in 1..3 : s[i][k] = Tres(bs[i], k)
  BY <1>2, <1>3
<1>. HIDE DEF s
<1>5. PICK o \in [0..Len(s) -> Nat] :
        /\ C \in Seq(EnLista)
        /\ \A i \in 1..Len(s) : o[i] = o[i - 1] + Len(s[i])
        /\ \A i \in 1..Len(s) : \A k \in 1..Len(s[i]) : C[o[i - 1] + k] = s[i][k]
        /\ \A p \in 1..Len(C) : \E i \in 1..Len(s) : p - o[i - 1] \in 1..Len(s[i])
        /\ o[Len(s)] = Len(C)
        /\ \A i, j \in 0..Len(s) : i <= j => o[i] <= o[j]
  BY <1>4, FlattenEs
<1>51. C \in Seq(EnLista)
  BY <1>5
<1>50. Len(C) \in Nat /\ DOMAIN C = 1..Len(C) /\ \A i \in 1..Len(C) : C[i] \in EnLista
  BY <1>51
<1>52. /\ \A i \in 0..Len(bs) : o[i] \in Nat
       /\ \A i \in 1..Len(bs) : o[i] = o[i - 1] + 3
       /\ \A i \in 0..Len(bs) : o[i] <= Len(C)
  <2>1. \A i \in 0..Len(s) : o[i] <= o[Len(s)]
    BY <1>2, <1>4, <1>5
  <2>. QED
    BY <1>4, <1>5, <2>1
<1>53. \A p \in 1..Len(C) : \E i \in 1..Len(bs) : p - o[i - 1] \in 1..3
  BY <1>4, <1>5
<1>54. \A i \in 1..Len(bs) : \A k \in 1..3 : C[o[i - 1] + k] = Tres(bs[i], k)
  <2>. TAKE i \in 1..Len(bs)
  <2>. TAKE k \in 1..3
  <2>1. i \in 1..Len(s) /\ Len(s[i]) = 3 /\ s[i][k] = Tres(bs[i], k)
    BY <1>4
  <2>. HIDE DEF C
  <2>2. k \in 1..Len(s[i])
    BY <2>1
  <2>3. C[o[i - 1] + k] = s[i][k]
    BY <1>5, <2>1, <2>2
  <2>. QED
    BY <2>1, <2>3
<1>6. Len(C) = 3 * Len(bs)
  BY <1>4, FlattenDeTres
<1>. HIDE DEF C
<1>7. \A p \in 1..Len(C) : \E b \in 1..Len(bs), k \in 1..3 : C[p] = Tres(bs[b], k)
  <2>. TAKE p \in 1..Len(C)
  <2>1. PICK i \in 1..Len(bs) : p - o[i - 1] \in 1..3
    BY <1>53
  <2>2. o[i - 1] \in Nat
    <3>1. i - 1 \in 0..Len(bs)
      BY <1>2
    <3>. QED
      BY <1>52, <3>1
  <2>. DEFINE k == p - o[i - 1]
  <2>3. o[i - 1] + k = p /\ k \in 1..3
    BY <1>50, <2>1, <2>2
  <2>. HIDE DEF k
  <2>. QED
    BY <1>54, <2>3
<1>8. \A b \in 1..Len(bs), k \in 1..3 : \E p \in 1..Len(C) : C[p] = Tres(bs[b], k)
  <2>. TAKE b \in 1..Len(bs), k \in 1..3
  <2>1. o[b - 1] \in Nat /\ o[b] \in Nat /\ o[b] = o[b - 1] + 3 /\ o[b] <= Len(C)
    <3>1. b - 1 \in 0..Len(bs) /\ b \in 0..Len(bs)
      BY <1>2
    <3>. QED
      BY <1>52, <3>1
  <2>2. o[b - 1] + k \in 1..Len(C)
    BY <1>50, <2>1, SMTT(30)
  <2>. QED
    BY <1>54, <2>2
<1>9. Len(C) \in Nat /\ DOMAIN C = 1..Len(C) /\ \A i \in 1..Len(C) : C[i].nodo \in Nodo
  BY <1>50 DEF EnLista
<1>10. m \in Seq(Nodo) /\ Len(m) = Len(C) /\ \A i \in 1..Len(C) : m[i] = C[i].nodo
  BY <1>9
<1>. HIDE DEF m, N
<1>11. /\ N \in Seq(Nodo) /\ Len(N) <= Len(C)
       /\ \A i \in 1..Len(C) : \E p \in 1..Len(N) : N[p] = C[i].nodo
  <2>1. ASSUME NEW S, m \in Seq(S)
        PROVE  /\ N \in Seq(S) /\ Len(N) <= Len(m)
               /\ \A i \in 1..Len(m) : \E p \in 1..Len(N) : N[p] = m[i]
    BY <2>1, DistintosEs DEF N
  <2>. QED
    BY <1>10, <2>1
<1>. HIDE DEF I
<1>12. \A n : /\ Escogidos(C, I(n)) \in Seq(EnLista)
              /\ \A p \in 1..Len(Escogidos(C, I(n))) :
                   Escogidos(C, I(n))[p].nodo = n /\
                   \E i \in 1..Len(C) : Escogidos(C, I(n))[p] = C[i]
              /\ \A i \in 1..Len(C) : C[i].nodo = n =>
                   \E p \in 1..Len(Escogidos(C, I(n))) : Escogidos(C, I(n))[p] = C[i]
  <2>. TAKE n
  <2>. DEFINE J == I(n)
              E == Escogidos(C, J)
  <2>. HIDE DEF J
  <2>. HIDE DEF E
  <2>1. /\ E \in Seq(EnLista)
        /\ \A p \in 1..Len(E) : \E i \in 1..Len(C) : i \in J /\ E[p] = C[i]
        /\ \A i \in 1..Len(C) : i \in J => \E p \in 1..Len(E) : E[p] = C[i]
    <3>1. ASSUME NEW S, C \in Seq(S)
          PROVE  /\ E \in Seq(S)
                 /\ \A p \in 1..Len(E) : \E i \in 1..Len(C) : i \in J /\ E[p] = C[i]
                 /\ \A i \in 1..Len(C) : i \in J => \E p \in 1..Len(E) : E[p] = C[i]
      BY <3>1, EscogidosSon DEF E
    <3>. QED
      BY <1>51, <3>1
  <2>2. \A i \in 1..Len(C) : i \in J <=> C[i].nodo = n
    BY <1>9 DEF I, J
  <2>. QED
    BY <2>1, <2>2 DEF E, J
<1>13. /\ \A n \in Nodo : L[n] = [nodo |-> n, peso |-> 0, bloques |-> Escogidos(C, I(n))]
       /\ \A n \in Nodo : L[n] \in Lista
  BY <1>12 DEF Lista
<1>. HIDE DEF L
<1>14. F \in Seq(Lista) /\ Len(F) = Len(N) /\ \A i \in 1..Len(N) : N[i] \in Nodo /\ F[i] = L[N[i]]
  <2>1. N \in Seq(Nodo)
    BY <1>11
  <2>2. DOMAIN N = 1..Len(N) /\ Len(N) \in Nat /\ \A i \in 1..Len(N) : N[i] \in Nodo
    BY <2>1
  <2>. QED
    BY <1>13, <2>2
<1>. HIDE DEF F
<1>15. \A i \in 1..Len(F) : /\ F[i].nodo = N[i] /\ N[i] \in Nodo
                            /\ F[i].bloques = Escogidos(C, I(N[i]))
  <2>. TAKE i \in 1..Len(F)
  <2>1. N[i] \in Nodo /\ F[i] = L[N[i]]
    BY <1>14
  <2>2. L[N[i]] = [nodo |-> N[i], peso |-> 0, bloques |-> Escogidos(C, I(N[i]))]
    BY <1>13, <2>1
  <2>. QED
    BY <2>1, <2>2
<1>16. \A i \in 1..Len(F) : \A p \in 1..Len(F[i].bloques) :
         /\ F[i].bloques[p].nodo = F[i].nodo
         /\ \E b \in 1..Len(bs), k \in 1..3 : F[i].bloques[p] = Tres(bs[b], k)
  <2>. TAKE i \in 1..Len(F)
  <2>1. /\ F[i].nodo = N[i] /\ F[i].bloques = Escogidos(C, I(N[i]))
    BY <1>15
  <2>2. \A p \in 1..Len(F[i].bloques) :
          F[i].bloques[p].nodo = F[i].nodo /\ \E h \in 1..Len(C) : F[i].bloques[p] = C[h]
    BY <1>12, <2>1
  <2>. QED
    BY <1>7, <2>2
<1>17. ASSUME NEW b \in 1..Len(bs), NEW k \in 1..3
       PROVE  \E i \in 1..Len(F) : \E p \in 1..Len(F[i].bloques) : F[i].bloques[p] = Tres(bs[b], k)
  <2>1. PICK h \in 1..Len(C) : C[h] = Tres(bs[b], k)
    BY <1>8
  <2>2. PICK i \in 1..Len(F) : N[i] = C[h].nodo
    BY <1>11, <1>14
  <2>3. F[i].bloques = Escogidos(C, I(C[h].nodo))
    BY <1>15, <2>2
  <2>4. \E p \in 1..Len(F[i].bloques) : F[i].bloques[p] = C[h]
    BY <1>12, <2>3
  <2>. QED
    BY <2>1, <2>4
<1>. QED
  BY <1>1, <1>4, <1>6, <1>11, <1>14, <1>16, <1>17
(* The names of the nodes in an answer.                                    *)
LEMMA NodosDeEs ==
  ASSUME NEW ps \in Seq(Seq(Seq(CopiaDe)))
  PROVE  NodosDe(ps) \in Seq(Nodo)
<1>. DEFINE C == FlattenSeq(FlattenSeq(ps))
            m == [i \in DOMAIN C |-> C[i].nodo]
<1>1. ASSUME NEW S, ps \in Seq(Seq(S))
      PROVE  FlattenSeq(ps) \in Seq(S)
  BY <1>1, FlattenEs
<1>2. FlattenSeq(ps) \in Seq(Seq(CopiaDe))
  BY <1>1
<1>3. ASSUME NEW S, FlattenSeq(ps) \in Seq(Seq(S))
      PROVE  C \in Seq(S)
  BY <1>3, FlattenEs
<1>4. C \in Seq(CopiaDe)
  BY <1>2, <1>3
<1>. HIDE DEF C
<1>5. \A i \in DOMAIN C : C[i] \in CopiaDe
  BY <1>4
<1>6. m \in Seq(Nodo)
  BY <1>4, <1>5 DEF CopiaDe
<1>7. NodosDe(ps) = Distintos(m)
  BY DEF NodosDe, C
<1>. HIDE DEF m
<1>. QED
  BY <1>6, <1>7, DistintosEs

(* In the text of an answer, and in any rest of it, a node's name is       *)
(* followed by its address and its port.                                   *)
Alineado(s) ==
  \A i \in 1..Len(s) : s[i] \in Nodo =>
    i + 2 <= Len(s) /\ s[i + 1] = Ip[s[i]] /\ s[i + 2] = Puerto[s[i]]

LEMMA TextoEs ==
  ASSUME NEW ns \in Seq(Nodo)
  PROVE  Texto(ns) \in Seq(Nombres) /\ Len(Texto(ns)) = 3 * Len(ns) /\ Alineado(Texto(ns))
<1>. DEFINE N == Len(ns)
            T == Texto(ns)
            d == [n \in Nodo |-> <<n, Ip[n], Puerto[n]>>]
<1>1. N \in Nat /\ \A i \in 1..N : ns[i] \in Nodo
  OBVIOUS
<1>2. T = [i \in 1..(3 * N) |-> d[ns[(i + 2) \div 3]][((i + 2) % 3) + 1]]
  BY DEF Texto, Dicho
<1>. HIDE DEF N, T
<1>3. ASSUME NEW q \in 0..(N - 1)
      PROVE  /\ T[3 * q + 1] = ns[q + 1] /\ ns[q + 1] \in Nodo
             /\ T[3 * q + 2] = Ip[ns[q + 1]]
             /\ T[3 * q + 3] = Puerto[ns[q + 1]]
  <2>1. /\ 3 * q + 1 \in 1..(3 * N) /\ 3 * q + 2 \in 1..(3 * N) /\ 3 * q + 3 \in 1..(3 * N)
        /\ q + 1 \in 1..N
    BY <1>1
  <2>2. /\ ((3 * q + 1) + 2) \div 3 = q + 1 /\ ((3 * q + 1) + 2) % 3 = 0
        /\ ((3 * q + 2) + 2) \div 3 = q + 1 /\ ((3 * q + 2) + 2) % 3 = 1
        /\ ((3 * q + 3) + 2) \div 3 = q + 1 /\ ((3 * q + 3) + 2) % 3 = 2
    BY <1>1
  <2>3. ns[q + 1] \in Nodo
    BY <1>1, <2>1
  <2>4. d[ns[q + 1]] = <<ns[q + 1], Ip[ns[q + 1]], Puerto[ns[q + 1]]>>
    BY <2>3
  <2>. HIDE DEF d
  <2>5. /\ T[3 * q + 1] = d[ns[q + 1]][1]
        /\ T[3 * q + 2] = d[ns[q + 1]][2]
        /\ T[3 * q + 3] = d[ns[q + 1]][3]
    <3>1. ASSUME NEW i \in 1..(3 * N), NEW k \in 0..2,
                 (i + 2) \div 3 = q + 1, (i + 2) % 3 = k
          PROVE  T[i] = d[ns[q + 1]][k + 1]
      <4>1. T[i] = d[ns[(i + 2) \div 3]][((i + 2) % 3) + 1]
        BY <1>2
      <4>. QED
        BY <3>1, <4>1
    <3>2. /\ T[3 * q + 1] = d[ns[q + 1]][0 + 1]
          /\ T[3 * q + 2] = d[ns[q + 1]][1 + 1]
          /\ T[3 * q + 3] = d[ns[q + 1]][2 + 1]
      BY <2>1, <2>2, <3>1
    <3>. QED
      BY <3>2
  <2>. QED
    BY <2>3, <2>4, <2>5
<1>4. ASSUME NEW i \in 1..(3 * N)
      PROVE  \E q \in 0..(N - 1) : i = 3 * q + 1 \/ i = 3 * q + 2 \/ i = 3 * q + 3
  <2>. DEFINE q == (i - 1) \div 3
  <2>1. q \in 0..(N - 1) /\ (i = 3 * q + 1 \/ i = 3 * q + 2 \/ i = 3 * q + 3)
    BY <1>1
  <2>. QED
    BY <2>1
<1>5. \A n \in Nodo : /\ n \in Nombres /\ Ip[n] \in Nombres /\ Puerto[n] \in Nombres
                      /\ Ip[n] \notin Nodo /\ Puerto[n] \notin Nodo
  BY PlanificadorAssumption DEF Nombres
<1>6. ASSUME NEW i \in 1..(3 * N)
      PROVE  /\ T[i] \in Nombres
             /\ T[i] \in Nodo => /\ i + 2 <= 3 * N
                                 /\ T[i + 1] = Ip[T[i]] /\ T[i + 2] = Puerto[T[i]]
  <2>1. PICK q \in 0..(N - 1) : i = 3 * q + 1 \/ i = 3 * q + 2 \/ i = 3 * q + 3
    BY <1>4
  <2>2. /\ T[3 * q + 1] = ns[q + 1] /\ ns[q + 1] \in Nodo
        /\ T[3 * q + 2] = Ip[ns[q + 1]]
        /\ T[3 * q + 3] = Puerto[ns[q + 1]]
    BY <1>3
  <2>3. /\ ns[q + 1] \in Nombres /\ Ip[ns[q + 1]] \in Nombres /\ Puerto[ns[q + 1]] \in Nombres
        /\ Ip[ns[q + 1]] \notin Nodo /\ Puerto[ns[q + 1]] \notin Nodo
    BY <1>5, <2>2
  <2>4. (3 * q + 1) + 1 = 3 * q + 2 /\ (3 * q + 1) + 2 = 3 * q + 3 /\ (3 * q + 1) + 2 <= 3 * N
    BY <1>1
  <2>. QED
    BY <2>1, <2>2, <2>3, <2>4
<1>7. DOMAIN T = 1..(3 * N) /\ 3 * N \in Nat
  BY <1>1, <1>2
<1>8. T \in Seq(Nombres) /\ Len(T) = 3 * N
  <2>1. T \in [1..(3 * N) -> Nombres]
    BY <1>2, <1>6, <1>7
  <2>. QED
    BY <1>7, <2>1
<1>9. Alineado(T)
  BY <1>6, <1>8 DEF Alineado
<1>. QED
  BY <1>8, <1>9 DEF T, N

LEMMA RestoAlineado ==
  ASSUME NEW s \in Seq(Nombres), Alineado(s), NEW k \in 0..Len(s)
  PROVE  LET r == SubSeq(s, k + 1, Len(s))
         IN r \in Seq(Nombres) /\ Len(r) = Len(s) - k /\ Alineado(r)
<1>. DEFINE r == SubSeq(s, k + 1, Len(s))
<1>1. Len(s) \in Nat
  OBVIOUS
<1>2. r \in Seq(Nombres) /\ Len(r) = Len(s) - k /\ \A i \in 1..(Len(s) - k) : r[i] = s[i + k]
  BY <1>1
<1>. HIDE DEF r
<1>3. ASSUME NEW i \in 1..Len(r), r[i] \in Nodo
      PROVE  i + 2 <= Len(r) /\ r[i + 1] = Ip[r[i]] /\ r[i + 2] = Puerto[r[i]]
  <2>1. i \in 1..(Len(s) - k) /\ i + k \in 1..Len(s) /\ r[i] = s[i + k]
    BY <1>1, <1>2
  <2>2. (i + k) + 2 <= Len(s) /\ s[(i + k) + 1] = Ip[r[i]] /\ s[(i + k) + 2] = Puerto[r[i]]
    BY <1>3, <2>1 DEF Alineado
  <2>3. /\ i + 1 \in 1..(Len(s) - k) /\ i + 2 \in 1..(Len(s) - k)
        /\ (i + k) + 1 = (i + 1) + k /\ (i + k) + 2 = (i + 2) + k
    BY <1>1, <2>1, <2>2
  <2>. QED
    BY <1>2, <2>2, <2>3
<1>4. Alineado(r)
  BY <1>3 DEF Alineado
<1>. QED
  BY <1>2, <1>4 DEF r
(* Planificar's order is a permutation: no list is lost or doubled.        *)
LEMMA OrdenaEs ==
  ASSUME NEW ls \in Seq(Lista)
  PROVE  \E r \in [1..Len(ls) -> 1..Len(ls)] :
           /\ Ordena(ls) = [i \in 1..Len(ls) |-> ls[r[i]]]
           /\ \A i \in 1..Len(ls) : \E k \in 1..Len(ls) : r[k] = i
           /\ \A k, l \in 1..Len(ls) : r[k] = r[l] => k = l
<1>. DEFINE n == Len(ls)
            A(i) == {b \in 1..n : ls[b].peso > ls[i].peso \/ (~(ls[i].peso > ls[b].peso) /\ b < i)}
            antes == [i \in 1..n |-> A(i)]
<1>1. n \in Nat /\ DOMAIN ls = 1..n /\ \A i \in 1..n : ls[i].peso \in Int
  <2>1. \A i \in 1..n : ls[i] \in Lista
    OBVIOUS
  <2>. QED
    BY <2>1 DEF Lista
<1>2. Ordena(ls) = [i \in 1..n |-> ls[CHOOSE a \in 1..n : Cardinality(A(a)) = i - 1]]
  BY <1>1 DEF Ordena, PorOrden
<1>. HIDE DEF n
<1>3. /\ antes \in [1..n -> SUBSET (1..n)]
      /\ \A i, b \in 1..n : b \in antes[i] <=>
           ls[b].peso > ls[i].peso \/ (ls[b].peso = ls[i].peso /\ b < i)
  BY <1>1
<1>4. \A a \in 1..n : antes[a] = A(a)
  OBVIOUS
<1>. HIDE DEF antes
<1>5. /\ \A i \in 1..n : i \notin antes[i]
      /\ \A i, j \in 1..n : i # j => i \in antes[j] \/ j \in antes[i]
  BY <1>1, <1>3, SMTT(30)
<1>6. ASSUME NEW i \in 1..n, NEW j \in 1..n, j \in antes[i], NEW b \in antes[j]
      PROVE  b \in antes[i]
  <2>1. b \in 1..n
    BY <1>3
  <2>. QED
    BY <1>1, <1>3, <1>6, <2>1
<1>7. PICK r \in [1..n -> 1..n] : Puestos(n, antes, r)
  <2>1. \A i, j \in 1..n : j \in antes[i] => antes[j] \subseteq antes[i]
    BY <1>6
  <2>2. EsOrden(n, antes)
    BY <1>5, <2>1 DEF EsOrden
  <2>. QED
    BY <1>1, <1>3, <2>2, PuestosEs
<1>8. \A k \in 1..n : (CHOOSE a \in 1..n : Cardinality(A(a)) = k - 1) = r[k]
  <2>. TAKE k \in 1..n
  <2>1. \A a : (a \in 1..n /\ Cardinality(antes[a]) = k - 1) <=> (a \in 1..n /\ Cardinality(A(a)) = k - 1)
    BY <1>4
  <2>. HIDE DEF A
  <2>2. (CHOOSE a \in 1..n : Cardinality(antes[a]) = k - 1)
          = (CHOOSE a \in 1..n : Cardinality(A(a)) = k - 1)
    BY <2>1
  <2>. QED
    BY <1>7, <2>2 DEF Puestos
<1>. HIDE DEF A
<1>9. Ordena(ls) = [i \in 1..n |-> ls[r[i]]]
  BY <1>2, <1>8
<1>. QED
  BY <1>7, <1>9 DEF n, Puestos
(* What is read of the blocks of an answer whose blocks have three copies  *)
(* each: block k of a file comes from block k of a file of that last name. *)
DeRespuesta(ar, ps) ==
  /\ ar \in Seq(Archivo) /\ Len(ps) = Len(ar)
  /\ ps \in Seq(Seq(Seq(CopiaDe)))
  /\ \A x \in 1..Len(ps) : \A k \in 1..Len(ps[x]) : Len(ps[x][k]) = 3

Vienen(ar, bs, ps) ==
  \A f \in 1..Len(ar) : \A i \in 1..Len(bs[f]) :
    \E x \in 1..Len(ar) : DeLaHoja(ar, x) = f /\
      \E k \in 1..Len(ps[x]) : bs[f][i] = [bloque |-> k, copias |-> ps[x][k]]

LEMMA LeidosEs ==
  ASSUME NEW ar, NEW ps, DeRespuesta(ar, ps)
  PROVE  /\ Leidos(ar, ps) \in Seq(Seq(Leido))
         /\ Len(Leidos(ar, ps)) = Len(ar)
         /\ Vienen(ar, Leidos(ar, ps), ps)
<1>. DEFINE n == Len(ar)
            B(x) == [k \in DOMAIN ps[x] |-> [bloque |-> k, copias |-> ps[x][k]]]
            G(f) == [x \in DOMAIN ar |-> IF DeLaHoja(ar, x) = f THEN B(x) ELSE <<>>]
            L == Leidos(ar, ps)
<1>0. ar \in Seq(Archivo) /\ Len(ps) = n /\ ps \in Seq(Seq(Seq(CopiaDe)))
  BY DEF DeRespuesta
<1>01. n \in Nat /\ DOMAIN ar = 1..n
  BY <1>0
<1>02. DOMAIN ps = 1..n /\ \A x \in 1..n : ps[x] \in Seq(Seq(CopiaDe))
  <2>1. ASSUME NEW S, ps \in Seq(S)
        PROVE  DOMAIN ps = 1..n /\ \A x \in 1..n : ps[x] \in S
    BY <1>0, <2>1
  <2>. QED
    BY <1>0, <2>1
<1>1. n \in Nat /\ DOMAIN ar = 1..n /\ DOMAIN ps = 1..n
  BY <1>01, <1>02
<1>2. L = [f \in 1..n |-> FlattenSeq(G(f))]
  BY <1>1 DEF Leidos
<1>3. ASSUME NEW x \in 1..n
      PROVE  B(x) \in Seq(Leido) /\ Len(B(x)) = Len(ps[x])
  <2>1. ps[x] \in Seq(Seq(CopiaDe)) /\ \A k \in 1..Len(ps[x]) : Len(ps[x][k]) = 3
    BY <1>0, <1>02 DEF DeRespuesta
  <2>2. DOMAIN ps[x] = 1..Len(ps[x]) /\ Len(ps[x]) \in Nat
        /\ \A k \in 1..Len(ps[x]) : ps[x][k] \in Seq(CopiaDe)
    BY <2>1
  <2>3. \A k \in 1..Len(ps[x]) : B(x)[k] \in Leido
    BY <2>1, <2>2 DEF Leido
  <2>4. DOMAIN B(x) = 1..Len(ps[x])
    BY <2>2
  <2>5. B(x) \in [1..Len(ps[x]) -> Leido]
    BY <2>3, <2>4
  <2>. HIDE DEF B
  <2>. QED
    BY <2>2, <2>5
<1>. HIDE DEF B, L
<1>4. ASSUME NEW f \in 1..n
      PROVE  /\ L[f] \in Seq(Leido)
             /\ \A i \in 1..Len(L[f]) : \E x \in 1..n : DeLaHoja(ar, x) = f /\
                  \E k \in 1..Len(ps[x]) : L[f][i] = B(x)[k]
  <2>. DEFINE g == G(f)
  <2>0. \A x \in 1..n : G(f)[x] \in Seq(Leido)
    BY <1>1, <1>3
  <2>1. g \in Seq(Seq(Leido)) /\ Len(g) = n
    <3>1. g \in [1..n -> Seq(Leido)]
      BY <1>1, <2>0
    <3>. QED
      BY <1>1, <3>1
  <2>2. \A x \in 1..n : g[x] = IF DeLaHoja(ar, x) = f THEN B(x) ELSE <<>>
    BY <1>1
  <2>3. L[f] = FlattenSeq(g)
    BY <1>2
  <2>. HIDE DEF g
  <2>4. ASSUME NEW S, g \in Seq(Seq(S))
        PROVE  /\ FlattenSeq(g) \in Seq(S)
               /\ \E o \in [0..Len(g) -> Nat] :
                    /\ \A i \in 1..Len(g) : \A k \in 1..Len(g[i]) : FlattenSeq(g)[o[i - 1] + k] = g[i][k]
                    /\ \A p \in 1..Len(FlattenSeq(g)) :
                         \E i \in 1..Len(g) : p - o[i - 1] \in 1..Len(g[i])
    BY <2>4, FlattenEs
  <2>5. PICK o \in [0..n -> Nat] :
          /\ \A i \in 1..n : \A k \in 1..Len(g[i]) : FlattenSeq(g)[o[i - 1] + k] = g[i][k]
          /\ \A p \in 1..Len(FlattenSeq(g)) : \E i \in 1..n : p - o[i - 1] \in 1..Len(g[i])
    BY <2>1, <2>4
  <2>6. L[f] \in Seq(Leido)
    BY <2>1, <2>3, <2>4
  <2>7. ASSUME NEW p \in 1..Len(L[f])
        PROVE  \E x \in 1..n : DeLaHoja(ar, x) = f /\ \E k \in 1..Len(ps[x]) : L[f][p] = B(x)[k]
    <3>1. PICK x \in 1..n : p - o[x - 1] \in 1..Len(g[x])
      BY <2>3, <2>5
    <3>. DEFINE k == p - o[x - 1]
    <3>2. p \in Nat /\ o[x - 1] \in Nat
      <4>1. x - 1 \in 0..n
        BY <1>1
      <4>2. Len(L[f]) \in Nat
        BY <2>6
      <4>. QED
        BY <2>5, <4>1, <4>2, SMTT(30)
    <3>3. o[x - 1] + k = p /\ k \in 1..Len(g[x])
      BY <3>1, <3>2
    <3>. HIDE DEF k
    <3>4. L[f][p] = g[x][k]
      BY <2>3, <2>5, <3>1, <3>3
    <3>5. DeLaHoja(ar, x) = f /\ g[x] = B(x)
      <4>1. CASE DeLaHoja(ar, x) # f
        <5>1. Len(g[x]) = 0
          BY <2>2, <3>1, <4>1
        <5>. QED
          BY <3>3, <5>1
      <4>. QED
        BY <2>2, <3>1, <4>1
    <3>. QED
      BY <1>3, <3>1, <3>3, <3>4, <3>5
  <2>. QED
    BY <2>6, <2>7
<1>5. L \in Seq(Seq(Leido)) /\ Len(L) = n
  <2>1. L \in [1..n -> Seq(Leido)]
    BY <1>2, <1>4
  <2>. QED
    BY <1>1, <2>1
<1>6. \A x \in 1..n : \A k \in 1..Len(ps[x]) : B(x)[k] = [bloque |-> k, copias |-> ps[x][k]]
  <2>1. \A x \in 1..n : DOMAIN ps[x] = 1..Len(ps[x])
    BY <1>1 DEF DeRespuesta
  <2>. QED
    BY <2>1 DEF B
<1>7. \A f \in 1..n : \A i \in 1..Len(L[f]) :
        \E x \in 1..n : DeLaHoja(ar, x) = f /\
          \E k \in 1..Len(ps[x]) : L[f][i] = [bloque |-> k, copias |-> ps[x][k]]
  <2>. TAKE f \in 1..n
  <2>. TAKE i \in 1..Len(L[f])
  <2>1. PICK x \in 1..n : DeLaHoja(ar, x) = f /\ \E k \in 1..Len(ps[x]) : L[f][i] = B(x)[k]
    BY <1>4
  <2>. QED
    BY <1>6, <2>1
<1>8. Vienen(ar, L, ps)
  <2>. HIDE DEF L
  <2>. QED
    BY <1>7 DEF Vienen
<1>. QED
  BY <1>5, <1>8 DEF L
-----------------------------------------------------------------------------
(* Type correctness.                                                       *)

(* The first block of the list at hand that is not marked, and the first   *)
(* task that was not sent.                                                 *)
LEMMA TomableEs ==
  ASSUME TipoInv, NEW j \in Job
  PROVE  /\ Tomable(j) # 0 =>
              /\ cursor[j].archivo \in 1..Len(bloques[j])
              /\ cursor[j].lista \in 1..Len(listas[j][cursor[j].archivo])
              /\ ListaEn(j) = listas[j][cursor[j].archivo][cursor[j].lista]
              /\ ListaEn(j) \in Lista
              /\ Tomable(j) \in 1..Len(ListaEn(j).bloques)
              /\ ListaEn(j).bloques[Tomable(j)] \in EnLista
              /\ ~Marcado(j, cursor[j].archivo, ListaEn(j).nodo, ListaEn(j).bloques[Tomable(j)].bloque)
         /\ Tomable(j) = 0 =>
              \A d \in 1..Len(ListaEn(j).bloques) :
                Marcado(j, cursor[j].archivo, ListaEn(j).nodo, ListaEn(j).bloques[d].bloque)
<1>. DEFINE l == ListaEn(j)
            c == cursor[j]
            libre(d) == ~Marcado(j, c.archivo, l.nodo, d.bloque)
            I == {i \in 1..Len(l.bloques) : libre(l.bloques[i])}
<1>1. Tomable(j) = IF I # {} THEN Min(I) ELSE 0
  BY DEF Tomable, SelectInSeq
<1>2. /\ c.archivo \in Nat \ {0} /\ c.lista \in Nat \ {0}
      /\ bloques[j] \in Seq(Seq(Leido)) /\ listas[j] \in Seq(Seq(Lista))
      /\ Len(listas[j]) = Len(bloques[j])
  BY DEF TipoInv, Tipos, Alcanza
<1>3. CASE c.archivo <= Len(bloques[j]) /\ c.lista <= Len(listas[j][c.archivo])
  <2>1. /\ c.archivo \in 1..Len(bloques[j]) /\ listas[j][c.archivo] \in Seq(Lista)
        /\ c.lista \in 1..Len(listas[j][c.archivo])
    BY <1>2, <1>3
  <2>2. l = listas[j][c.archivo][c.lista]
    BY <1>3 DEF ListaEn
  <2>3. l \in Lista
    BY <2>1, <2>2
  <2>4. l.bloques \in Seq(EnLista)
    BY <2>3 DEF Lista
  <2>. HIDE DEF l
  <2>5. I \in SUBSET Nat /\ DOMAIN l.bloques = 1..Len(l.bloques)
    BY <2>4
  <2>6. CASE I = {}
    <3>1. \A i \in 1..Len(l.bloques) : ~libre(l.bloques[i])
      BY <2>6
    <3>. QED
      BY <1>1, <2>6, <3>1 DEF l
  <2>7. CASE I # {}
    <3>1. Tomable(j) \in I
      BY <1>1, <2>5, <2>7, MinEs
    <3>2. Tomable(j) \in 1..Len(l.bloques) /\ libre(l.bloques[Tomable(j)])
      BY <3>1
    <3>3. l.bloques[Tomable(j)] \in EnLista /\ Tomable(j) # 0
      BY <2>4, <3>2
    <3>. QED
      BY <2>1, <2>2, <2>3, <3>2, <3>3 DEF l
  <2>. QED
    BY <2>6, <2>7
<1>4. CASE ~(c.archivo <= Len(bloques[j]) /\ c.lista <= Len(listas[j][c.archivo]))
  <2>1. l.bloques = <<>>
    BY <1>4 DEF ListaEn
  <2>. HIDE DEF l
  <2>2. I = {} /\ \A d \in 1..Len(l.bloques) : FALSE
    BY <2>1
  <2>. QED
    BY <1>1, <2>2 DEF l
<1>. QED
  BY <1>3, <1>4

LEMMA PorEnviarEs ==
  ASSUME TipoInv, NEW j \in Job
  PROVE  /\ PorEnviar(j) # 0 =>
              /\ PorEnviar(j) \in 1..Len(enviados[j])
              /\ enviados[j][PorEnviar(j)].estado = 0
              /\ enviados[j][PorEnviar(j)] \in Tarea
              /\ BuscarNodo(enviados[j][PorEnviar(j)].nodo) \in 1..Len(lista_nodos)
         /\ PorEnviar(j) = 0 => \A p \in 1..Len(enviados[j]) : enviados[j][p].estado # 0
<1>. DEFINE I == {p \in 1..Len(enviados[j]) : enviados[j][p].estado = 0}
<1>1. PorEnviar(j) = IF I # {} THEN Min(I) ELSE 0
  BY DEF PorEnviar, SelectInSeq
<1>2. enviados[j] \in Seq(Tarea) /\ I \in SUBSET Nat
  BY DEF TipoInv, Tipos
<1>3. CASE I = {}
  BY <1>1, <1>3
<1>4. CASE I # {}
  <2>1. PorEnviar(j) \in I
    BY <1>1, <1>2, <1>4, MinEs
  <2>2. PorEnviar(j) \in 1..Len(enviados[j]) /\ enviados[j][PorEnviar(j)].estado = 0
    BY <2>1
  <2>3. enviados[j][PorEnviar(j)] \in Tarea
    BY <1>2, <2>2
  <2>4. BuscarNodo(enviados[j][PorEnviar(j)].nodo) # 0
    BY <2>2 DEF TipoInv, Alcanza
  <2>5. BuscarNodo(enviados[j][PorEnviar(j)].nodo) \in 1..Len(lista_nodos)
    BY <2>4, BuscarEs DEF TipoInv
  <2>. QED
    BY <2>2, <2>3, <2>5
<1>. QED
  BY <1>3, <1>4

(* eliminarBloqueDeListaDeNodos keeps the type.                            *)
LEMMA SinBloqueEs ==
  ASSUME NEW s \in Seq(Nat), NEW b
  PROVE  SinBloque(s, b) \in Seq(Nat)
<1>1. SinBloque(s, b) = RemoveFirst(s, b)
  BY DEF SinBloque, RemoveFirstMatch, RemoveFirst
<1>2. ASSUME NEW S, s \in Seq(S)
      PROVE  RemoveFirst(s, b) \in Seq(S)
  BY <1>2, RemoveFirstEs, RemoveAtEs
<1>. QED
  BY <1>1, <1>2

(* An entry of lista_nodos changes, but not its name.                      *)
LEMMA CambiaEntrada ==
  ASSUME Tipos, NEW i \in 1..Len(lista_nodos), NEW e \in Entrada,
         e.nombre = lista_nodos[i].nombre,
         lista_nodos' = [lista_nodos EXCEPT ![i] = e]
  PROVE  /\ lista_nodos' \in Seq(Entrada) /\ Len(lista_nodos') = Len(lista_nodos)
         /\ lista_nodos'[i] = e
         /\ \A k \in 1..Len(lista_nodos) : k # i => lista_nodos'[k] = lista_nodos[k]
         /\ \A k \in 1..Len(lista_nodos) : lista_nodos'[k].nombre = lista_nodos[k].nombre
         /\ Crece
<1>1. lista_nodos \in Seq(Entrada)
  BY DEF Tipos
<1>2. /\ lista_nodos' \in Seq(Entrada) /\ Len(lista_nodos') = Len(lista_nodos)
      /\ lista_nodos'[i] = e
      /\ \A k \in 1..Len(lista_nodos) : k # i => lista_nodos'[k] = lista_nodos[k]
  BY <1>1
<1>3. Len(lista_nodos) \in Nat
  BY <1>1
<1>. QED
  BY <1>2, <1>3 DEF Crece
(* A node that is known stays known, at the same index.                    *)
LEMMA ConocidosSiguen ==
  ASSUME Tipos, Tipos', Crece \/ lista_nodos' = lista_nodos
  PROVE  /\ Len(lista_nodos) <= Len(lista_nodos')
         /\ \A n : BuscarNodo(n) # 0 => BuscarNodo(n)' = BuscarNodo(n)
<1>1. lista_nodos \in Seq(Entrada)
  BY DEF Tipos
<1>2. lista_nodos' = lista_nodos => Crece
  BY <1>1 DEF Crece
<1>. QED
  BY <1>2, BuscarQueda DEF Crece

LEMMA TareasConocidas ==
  ASSUME Tipos, Tipos', Crece \/ lista_nodos' = lista_nodos, enviados' = enviados,
         \A j \in Job : \A p \in 1..Len(enviados[j]) : BuscarNodo(enviados[j][p].nodo) # 0
  PROVE  \A j \in Job : \A p \in 1..Len(enviados'[j]) : BuscarNodo(enviados[j][p].nodo)' # 0
<1>1. \A n : BuscarNodo(n) # 0 => BuscarNodo(n)' # 0
  BY ConocidosSiguen
<1>2. \A n : BuscarNodo(n) # 0 => Primero(lista_nodos', n) # 0
  BY <1>1, BuscarPrimero
<1>3. \A j \in Job : \A p \in 1..Len(enviados'[j]) : Primero(lista_nodos', enviados'[j][p].nodo) # 0
  BY <1>2
<1>. QED
  BY <1>3, BuscarPrimero

LEMMA TipoInit == Init => TipoInv
<1>. SUFFICES ASSUME Init
              PROVE  TipoInv
  OBVIOUS
<1>1. PICK c \in Casos :
        /\ disco = c.disco /\ pedido = c.pedido
        /\ lista_nodos = [i \in DOMAIN c.nodos |->
                            NodoNuevo(c.nodos[i], Ip[c.nodos[i]], Puerto[c.nodos[i]])]
  BY DEF Init
<1>2. /\ c.disco \in [Archivo -> {NoEsta, SinRuta} \cup Seq(Seq(CopiaDe))]
      /\ c.pedido \in [Job -> [archivos : Seq(Archivo), combiner : BOOLEAN]]
      /\ c.nodos \in Seq(Nodo)
  BY PlanificadorAssumption DEF CopiaDe
<1>3. lista_nodos \in Seq(Entrada)
  <2>. DEFINE g(n) == NodoNuevo(n, Ip[n], Puerto[n])
  <2>1. \A n \in Nodo : g(n) \in Entrada
    BY DEF NodoNuevo, Entrada, Nombres
  <2>2. lista_nodos = [i \in 1..Len(c.nodos) |-> g(c.nodos[i])]
    BY <1>1, <1>2
  <2>. HIDE DEF g
  <2>3. Len(c.nodos) \in Nat /\ \A i \in 1..Len(c.nodos) : c.nodos[i] \in Nodo
    BY <1>2
  <2>. QED
    BY <2>1, <2>2, <2>3
<1>4. Tipos
  <2>1. \A S : <<>> \in Seq(S)
    OBVIOUS
  <2>2. /\ resto \in [Job -> Seq(Nombres)] /\ faltan \in [Job -> Nat]
        /\ bloques \in [Job -> Seq(Seq(Leido))] /\ listas \in [Job -> Seq(Seq(Lista))]
        /\ enviados \in [Job -> Seq(Tarea)]
    BY <2>1 DEF Init
  <2>3. /\ cursor \in [Job -> [archivo : Nat \ {0}, lista : Nat \ {0}]]
        /\ leida \in [Job -> [nodo : Nat, carga : Int]]
    BY DEF Init
  <2>4. /\ hilo \in [Job -> Antes] /\ socket_fs \in Job \cup {Nadie} /\ DOMAIN total = Job
        /\ solapo \in BOOLEAN /\ caida \in {"no", "prof", "nodo", "entrada", "lectura"}
    BY DEF Init, Antes
  <2>. QED
    BY <1>1, <1>2, <1>3, <2>2, <2>3, <2>4 DEF Tipos
<1>5. Alcanza
  BY DEF Init, Alcanza
<1>. QED
  BY <1>4, <1>5 DEF TipoInv

LEMMA ConectaFsTipo ==
  ASSUME TipoInv, NEW j \in Job, ConectaFs(j)
  PROVE  TipoInv'
<1>1. Tipos'
  BY DEF TipoInv, Tipos, ConectaFs, Pasa, mdfs, lectura, reparto, tareas, Antes
<1>2. \A n : BuscarNodo(n) # 0 => BuscarNodo(n)' # 0
  BY <1>1, ConocidosSiguen DEF TipoInv, ConectaFs
<1>3. Alcanza'
  BY <1>2 DEF TipoInv, Alcanza, Tipos, ConectaFs, Pasa, lectura, reparto, tareas
<1>. QED
  BY <1>1, <1>3 DEF TipoInv

LEMMA SePierdeTipo ==
  ASSUME TipoInv, NEW j \in Job, SePierde(j)
  PROVE  TipoInv'
<1>0. /\ hilo' = hilo \/ hilo' = [hilo EXCEPT ![j] = "perdido"]
      /\ caida' \in {"no", "prof", "nodo", "entrada", "lectura"}
      /\ UNCHANGED <<mdfs, lectura, reparto, tareas, lista_nodos, socket_fs>>
  BY DEF SePierde, Muere, TipoInv, Tipos
<1>1. Tipos'
  BY <1>0 DEF TipoInv, Tipos, mdfs, lectura, reparto, tareas
<1>2. \A n : BuscarNodo(n) # 0 => BuscarNodo(n)' # 0
  BY <1>0, <1>1, ConocidosSiguen DEF TipoInv
<1>3. Alcanza'
  BY <1>0, <1>2 DEF TipoInv, Alcanza, Tipos, lectura, reparto, tareas
<1>. QED
  BY <1>1, <1>3 DEF TipoInv

(* What the answer of the Filesystem becomes.                              *)
LEMMA PedidosSon ==
  ASSUME TipoInv, NEW j \in Job, SeLee(Pedidos(j))
  PROVE  DeRespuesta(pedido[j].archivos, Pedidos(j))
<1>. DEFINE ar == pedido[j].archivos
            ps == Pedidos(j)
<1>1. ar \in Seq(Archivo) /\ disco \in [Archivo -> {NoEsta, SinRuta} \cup Seq(Seq(CopiaDe))]
  BY DEF TipoInv, Tipos
<1>2. ps = [x \in DOMAIN ar |-> disco[ar[x]]]
  BY DEF Pedidos
<1>. HIDE DEF ar, ps
<1>3. DOMAIN ar = 1..Len(ar) /\ Len(ar) \in Nat /\ \A x \in 1..Len(ar) : ar[x] \in Archivo
  BY <1>1
<1>4. ASSUME NEW x \in 1..Len(ar)
      PROVE  /\ ps[x] \in Seq(Seq(CopiaDe))
             /\ \A k \in 1..Len(ps[x]) : Len(ps[x][k]) = 3
  <2>1. ps[x] = disco[ar[x]] /\ ps[x] \in {NoEsta, SinRuta} \cup Seq(Seq(CopiaDe))
    BY <1>1, <1>2, <1>3
  <2>2. x \in DOMAIN ps
    BY <1>2, <1>3
  <2>3. ps[x] \notin {SinRuta, NoEsta} /\ \A k \in DOMAIN ps[x] : Len(ps[x][k]) = 3
    BY <2>2 DEF SeLee, ToSet, ps
  <2>. QED
    BY <2>1, <2>3
<1>5. ps \in [1..Len(ar) -> Seq(Seq(CopiaDe))]
  BY <1>2, <1>3, <1>4
<1>6. ps \in Seq(Seq(Seq(CopiaDe))) /\ Len(ps) = Len(ar)
  BY <1>3, <1>5
<1>. QED
  BY <1>1, <1>4, <1>6 DEF DeRespuesta, ar, ps
(* What is left to read of an answer, and the nodes it says are in it.      *)
LEMMA RespondeDice ==
  ASSUME NEW j \in Job, Responde(j)
  PROVE  /\ resto' = [resto EXCEPT ![j] = IF DiceNo(Pedidos(j)) THEN <<>>
                                         ELSE Texto(NodosDe(Pedidos(j)))]
         /\ faltan' = [faltan EXCEPT ![j] = IF DiceNo(Pedidos(j)) THEN 0
                                           ELSE Len(NodosDe(Pedidos(j)))]
<1>1. Texto(<<>>) = <<>> /\ Len(<<>>) = 0
  BY DEF Texto
<1>. QED
  BY <1>1 DEF Responde

LEMMA RespondeTipo ==
  ASSUME TipoInv, NEW j \in Job, Responde(j)
  PROVE  TipoInv'
<1>. DEFINE ar == pedido[j].archivos
            ps == Pedidos(j)
            bs == bloques'[j]
            ls == listas'[j]
            rs == resto'[j]
            fs == faltan'[j]
<1>1. /\ hilo' = [hilo EXCEPT ![j] = "busca"]
      /\ bloques' = [bloques EXCEPT ![j] = bs] /\ listas' = [listas EXCEPT ![j] = ls]
      /\ resto' = [resto EXCEPT ![j] = rs] /\ faltan' = [faltan EXCEPT ![j] = fs]
      /\ UNCHANGED <<disco, pedido, leida, enviados, total, solapo, lista_nodos, socket_fs, cursor, caida>>
  BY DEF Responde, Pasa, mdfs, tareas, TipoInv, Tipos
<1>2. /\ DiceNo(ps) \/ SeLee(ps)
      /\ bs = IF DiceNo(ps) THEN [f \in DOMAIN ar |-> <<>>] ELSE Leidos(ar, ps)
      /\ ls = [f \in DOMAIN ar |-> FuncionMagica(bs[f])]
      /\ rs = IF DiceNo(ps) THEN <<>> ELSE Texto(NodosDe(ps))
      /\ fs = IF DiceNo(ps) THEN 0 ELSE Len(NodosDe(ps))
  <2>1. /\ DiceNo(ps) \/ SeLee(ps)
        /\ bs = IF DiceNo(ps) THEN [f \in DOMAIN ar |-> <<>>] ELSE Leidos(ar, ps)
        /\ ls = [f \in DOMAIN ar |-> FuncionMagica(bs[f])]
    BY DEF Responde, TipoInv, Tipos
  <2>2. /\ rs = IF DiceNo(ps) THEN <<>> ELSE Texto(NodosDe(ps))
        /\ fs = IF DiceNo(ps) THEN 0 ELSE Len(NodosDe(ps))
    <3>1. resto \in [Job -> Seq(Nombres)] /\ faltan \in [Job -> Nat]
      BY DEF TipoInv, Tipos
    <3>. HIDE DEF ps
    <3>2. /\ resto' = [resto EXCEPT ![j] = IF DiceNo(ps) THEN <<>> ELSE Texto(NodosDe(ps))]
          /\ faltan' = [faltan EXCEPT ![j] = IF DiceNo(ps) THEN 0 ELSE Len(NodosDe(ps))]
      BY RespondeDice DEF ps
    <3>. QED
      BY <3>1, <3>2
  <2>. QED
    BY <2>1, <2>2
<1>3. ar \in Seq(Archivo)
  BY DEF TipoInv, Tipos
<1>. HIDE DEF ar, ps, bs, ls, rs, fs
<1>4. DOMAIN ar = 1..Len(ar) /\ Len(ar) \in Nat
  BY <1>3
<1>5. bs \in Seq(Seq(Leido)) /\ Len(bs) = Len(ar)
  <2>1. CASE DiceNo(ps)
    <3>1. \A S : <<>> \in Seq(S)
      OBVIOUS
    <3>2. bs = [f \in 1..Len(ar) |-> <<>>]
      BY <1>2, <1>4, <2>1
    <3>. QED
      BY <1>4, <3>1, <3>2
  <2>2. CASE ~DiceNo(ps)
    <3>1. DeRespuesta(ar, ps)
      BY <1>2, <2>2, PedidosSon DEF ar, ps
    <3>. QED
      BY <1>2, <2>2, <3>1, LeidosEs
  <2>. QED
    BY <2>1, <2>2
<1>6. ls \in Seq(Seq(Lista)) /\ Len(ls) = Len(ar)
  <2>1. \A f \in 1..Len(ar) : bs[f] \in Seq(Leido)
    BY <1>5
  <2>2. \A f \in 1..Len(ar) : FuncionMagica(bs[f]) \in Seq(Lista)
    BY <2>1, FuncionMagicaEs
  <2>3. ls \in [1..Len(ar) -> Seq(Lista)]
    BY <1>2, <1>4, <2>2
  <2>. QED
    BY <1>4, <2>3
<1>7. rs \in Seq(Nombres) /\ fs \in Nat /\ Len(rs) = 3 * fs
  <2>1. CASE DiceNo(ps)
    BY <1>2, <2>1
  <2>2. CASE ~DiceNo(ps)
    <3>1. DeRespuesta(ar, ps)
      BY <1>2, <2>2, PedidosSon DEF ar, ps
    <3>2. NodosDe(ps) \in Seq(Nodo)
      BY <3>1, NodosDeEs DEF DeRespuesta
    <3>3. Len(NodosDe(ps)) \in Nat
      BY <3>2
    <3>. QED
      BY <1>2, <2>2, <3>2, <3>3, TextoEs
  <2>. QED
    BY <2>1, <2>2
<1>8. Tipos'
  BY <1>1, <1>5, <1>6, <1>7 DEF TipoInv, Tipos, Antes
<1>9. \A n : BuscarNodo(n) # 0 => BuscarNodo(n)' # 0
  BY <1>1, <1>8, ConocidosSiguen DEF TipoInv
<1>10. Alcanza'
  <2>1. \A k \in Job : /\ k # j => resto'[k] = resto[k] /\ faltan'[k] = faltan[k]
                                   /\ listas'[k] = listas[k] /\ bloques'[k] = bloques[k]
                                   /\ hilo'[k] = hilo[k]
                       /\ hilo'[j] = "busca"
    BY <1>1 DEF TipoInv, Tipos
  <2>2. Len(resto'[j]) >= 3 * faltan'[j] /\ Len(listas'[j]) = Len(bloques'[j])
    BY <1>5, <1>6, <1>7 DEF bs, ls, rs, fs
  <2>. QED
    BY <1>1, <1>9, <2>1, <2>2 DEF TipoInv, Alcanza
<1>. QED
  BY <1>8, <1>10 DEF TipoInv

LEMMA NodoConocidoTipo ==
  ASSUME TipoInv, NEW j \in Job, NodoConocido(j)
  PROVE  TipoInv'
<1>1. /\ resto[j] \in Seq(Nombres) /\ faltan[j] \in Nat /\ faltan[j] > 0
      /\ Len(resto[j]) >= 3 * faltan[j]
  BY DEF TipoInv, Tipos, Alcanza, NodoConocido
<1>2. /\ SubSeq(resto[j], 1 + 1, Len(resto[j])) \in Seq(Nombres)
      /\ Len(SubSeq(resto[j], 1 + 1, Len(resto[j]))) = Len(resto[j]) - 1
  BY <1>1
<1>3. /\ hilo' = [hilo EXCEPT ![j] = "busca"] /\ hilo' = hilo
      /\ resto' = [resto EXCEPT ![j] = SubSeq(resto[j], 1 + 1, Len(resto[j]))]
      /\ faltan' = [faltan EXCEPT ![j] = faltan[j] - 1]
      /\ UNCHANGED <<disco, pedido, leida, enviados, total, solapo, lista_nodos, socket_fs,
                     bloques, listas, cursor, caida>>
  BY DEF NodoConocido, Avanza, Pasa, mdfs, reparto, tareas, TipoInv, Tipos
<1>4. Tipos'
  <2>1. resto' \in [Job -> Seq(Nombres)] /\ faltan' \in [Job -> Nat]
    <3>1. resto \in [Job -> Seq(Nombres)] /\ faltan \in [Job -> Nat]
      BY DEF TipoInv, Tipos
    <3>2. faltan[j] - 1 \in Nat
      BY <1>1
    <3>. QED
      BY <1>2, <1>3, <3>1, <3>2
  <2>. QED
    BY <1>3, <2>1 DEF TipoInv, Tipos
<1>5. \A n : BuscarNodo(n) # 0 => BuscarNodo(n)' # 0
  BY <1>3, <1>4, ConocidosSiguen DEF TipoInv
<1>6. hilo[j] = "busca" /\ Len(resto'[j]) >= 3 * faltan'[j]
  BY <1>1, <1>2, <1>3, SMTT(30) DEF TipoInv, Tipos, NodoConocido, Pasa
<1>7. Alcanza'
  BY <1>3, <1>5, <1>6 DEF TipoInv, Tipos, Alcanza
<1>. QED
  BY <1>4, <1>7 DEF TipoInv

LEMMA NodoDesconocidoTipo ==
  ASSUME TipoInv, NEW j \in Job, NodoDesconocido(j)
  PROVE  TipoInv'
<1>1. /\ hilo' = [hilo EXCEPT ![j] = "agrega"] /\ faltan[j] > 0
      /\ UNCHANGED <<mdfs, lectura, reparto, tareas, lista_nodos, socket_fs, caida>>
  BY DEF NodoDesconocido, Pasa
<1>2. Tipos'
  BY <1>1 DEF TipoInv, Tipos, Antes, mdfs, lectura, reparto, tareas
<1>3. \A n : BuscarNodo(n) # 0 => BuscarNodo(n)' # 0
  BY <1>1, <1>2, ConocidosSiguen DEF TipoInv
<1>4. Alcanza'
  BY <1>1, <1>3 DEF TipoInv, Tipos, Alcanza, lectura, reparto, tareas
<1>. QED
  BY <1>2, <1>4 DEF TipoInv

LEMMA AgregaNodoTipo ==
  ASSUME TipoInv, NEW j \in Job, AgregaNodo(j)
  PROVE  TipoInv' /\ Crece
<1>. DEFINE e == NodoLeido(resto[j])
<1>1. /\ resto[j] \in Seq(Nombres) /\ faltan[j] \in Nat /\ faltan[j] > 0
      /\ Len(resto[j]) >= 3 * faltan[j]
  BY DEF TipoInv, Tipos, Alcanza, AgregaNodo, Pasa
<1>2. /\ SubSeq(resto[j], 3 + 1, Len(resto[j])) \in Seq(Nombres)
      /\ Len(SubSeq(resto[j], 3 + 1, Len(resto[j]))) = Len(resto[j]) - 3
  BY <1>1
<1>3. /\ hilo' = [hilo EXCEPT ![j] = "busca"]
      /\ resto' = [resto EXCEPT ![j] = SubSeq(resto[j], 3 + 1, Len(resto[j]))]
      /\ faltan' = [faltan EXCEPT ![j] = faltan[j] - 1]
      /\ lista_nodos' = Append(lista_nodos, e)
      /\ UNCHANGED <<disco, pedido, leida, enviados, total, solapo, socket_fs,
                     bloques, listas, cursor, caida>>
  BY DEF AgregaNodo, Avanza, Pasa, mdfs, reparto, tareas
<1>4. e \in Entrada
  <2>1. resto[j][1] \in Nombres /\ resto[j][2] \in Nombres /\ resto[j][3] \in Nombres
    BY <1>1
  <2>. QED
    BY <2>1 DEF NodoLeido, NodoNuevo, Entrada
<1>5. /\ lista_nodos' \in Seq(Entrada) /\ Len(lista_nodos') = Len(lista_nodos) + 1
      /\ Len(lista_nodos) \in Nat
      /\ \A i \in 1..Len(lista_nodos) : lista_nodos'[i] = lista_nodos[i]
  <2>1. lista_nodos \in Seq(Entrada)
    BY DEF TipoInv, Tipos
  <2>. HIDE DEF e
  <2>. QED
    BY <1>3, <1>4, <2>1
<1>6. Tipos'
  <2>1. resto' \in [Job -> Seq(Nombres)] /\ faltan' \in [Job -> Nat]
    <3>1. resto \in [Job -> Seq(Nombres)] /\ faltan \in [Job -> Nat]
      BY DEF TipoInv, Tipos
    <3>2. faltan[j] - 1 \in Nat
      BY <1>1
    <3>. QED
      BY <1>2, <1>3, <3>1, <3>2
  <2>2. hilo' \in [Job -> Antes \cup Reparto \cup Despues \cup {"perdido"}]
    BY <1>3 DEF TipoInv, Tipos, Antes
  <2>. QED
    BY <1>3, <1>5, <2>1, <2>2 DEF TipoInv, Tipos
<1>7. Crece
  BY <1>5 DEF Crece
<1>8. \A n : BuscarNodo(n) # 0 => BuscarNodo(n)' # 0
  BY <1>6, <1>7, ConocidosSiguen DEF TipoInv
<1>9. Len(resto'[j]) >= 3 * faltan'[j]
  BY <1>1, <1>2, <1>3, SMTT(30) DEF TipoInv, Tipos
<1>10. Alcanza'
  <2>1. /\ \A k \in Job : k # j => resto'[k] = resto[k] /\ faltan'[k] = faltan[k] /\ hilo'[k] = hilo[k]
        /\ hilo'[j] = "busca"
    BY <1>3 DEF TipoInv, Tipos
  <2>2. /\ \A k \in Job : Len(resto'[k]) >= 3 * faltan'[k]
        /\ \A k \in Job : hilo'[k] = "agrega" => faltan'[k] > 0
        /\ \A k \in Job : hilo'[k] \in {"suma", "resta"} => leida'[k].nodo \in 1..Len(lista_nodos')
    BY <1>3, <1>5, <1>9, <2>1 DEF TipoInv, Alcanza
  <2>3. \A k \in Job : \A p \in 1..Len(enviados'[k]) : BuscarNodo(enviados[k][p].nodo)' # 0
    BY <1>3, <1>6, <1>7, TareasConocidas DEF TipoInv, Alcanza
  <2>4. \A k \in Job : Len(listas'[k]) = Len(bloques'[k])
    BY <1>3 DEF TipoInv, Alcanza
  <2>. QED
    BY <2>2, <2>3, <2>4 DEF Alcanza
<1>. QED
  BY <1>6, <1>7, <1>10 DEF TipoInv
LEMMA CierraFsTipo ==
  ASSUME TipoInv, NEW j \in Job, CierraFs(j)
  PROVE  TipoInv'
<1>1. /\ hilo' = [hilo EXCEPT ![j] = "ordena"] /\ socket_fs' = Nadie
      /\ UNCHANGED <<mdfs, lectura, reparto, tareas, lista_nodos, caida>>
  BY DEF CierraFs, Pasa
<1>2. Tipos'
  BY <1>1 DEF TipoInv, Tipos, Antes, mdfs, lectura, reparto, tareas
<1>3. \A n : BuscarNodo(n) # 0 => BuscarNodo(n)' # 0
  BY <1>1, <1>2, ConocidosSiguen DEF TipoInv
<1>4. Alcanza'
  BY <1>1, <1>3 DEF TipoInv, Tipos, Alcanza, lectura, reparto, tareas
<1>. QED
  BY <1>2, <1>4 DEF TipoInv

(* Planificar weighs the lists of each file and puts them in order, and    *)
(* changes nothing else of them.                                           *)
MismasListas(ls, viejas) ==
  /\ ls \in Seq(Lista) /\ Len(ls) = Len(viejas)
  /\ \A i \in 1..Len(viejas) : \E k \in 1..Len(viejas) :
       ls[i].nodo = viejas[k].nodo /\ ls[i].bloques = viejas[k].bloques
  /\ \A k \in 1..Len(viejas) : \E i \in 1..Len(viejas) :
       ls[i].nodo = viejas[k].nodo /\ ls[i].bloques = viejas[k].bloques

LEMMA PesoEs ==
  ASSUME TipoInv, NEW j \in Job, NEW l \in Lista
  PROVE  Peso(j, l) \in Int
<1>1. lista_nodos \in Seq(Entrada) /\ bloques[j] \in Seq(Seq(Leido))
  BY DEF TipoInv, Tipos
<1>2. ASSUME NEW S, bloques[j] \in Seq(Seq(S))
      PROVE  FlattenSeq(bloques[j]) \in Seq(S)
  BY <1>2, FlattenEs
<1>3. FlattenSeq(bloques[j]) \in Seq(Leido)
  BY <1>1, <1>2
<1>4. Len(FlattenSeq(bloques[j])) \in Nat
  BY <1>3
<1>5. PesoMax(j) \in Int
  BY <1>1, <1>4 DEF PesoMax
<1>6. l.bloques \in Seq(EnLista)
  BY DEF Lista
<1>7. Len(l.bloques) \in Int
  BY <1>6
<1>. DEFINE i == BuscarNodo(l.nodo)
<1>8. i # 0 => lista_nodos[i].pendientes \in Int
  <2>1. ASSUME i # 0
        PROVE  lista_nodos[i] \in Entrada
    BY <1>1, <2>1, BuscarEs DEF TipoInv
  <2>. QED
    BY <2>1 DEF Entrada
<1>. HIDE DEF i
<1>9. Peso(j, l) = IF i = 0 THEN 0
                   ELSE (IF pedido[j].combiner THEN 1 ELSE Len(l.bloques)) * PesoMax(j)
                          - lista_nodos[i].pendientes
  BY DEF Peso, i
<1>10. \A x, y, z \in Int : x * y - z \in Int
  OBVIOUS
<1>11. (IF pedido[j].combiner THEN 1 ELSE Len(l.bloques)) \in Int
  BY <1>7
<1>. QED
  BY <1>5, <1>8, <1>9, <1>10, <1>11

LEMMA PlanificadaEs ==
  ASSUME TipoInv, NEW j \in Job, Planificar(j), NEW f \in 1..Len(listas[j])
  PROVE  MismasListas(listas'[j][f], listas[j][f])
<1>. DEFINE ls == listas[j][f]
            n == Len(ls)
            P == [i \in DOMAIN ls |-> [ls[i] EXCEPT !.peso = Peso(j, ls[i])]]
<1>1. listas[j] \in Seq(Seq(Lista)) /\ DOMAIN listas[j] = 1..Len(listas[j])
  BY DEF TipoInv, Tipos
<1>2. ls \in Seq(Lista)
  BY <1>1
<1>3. n \in Nat /\ DOMAIN ls = 1..n /\ \A i \in 1..n : ls[i] \in Lista
  BY <1>2
<1>4. listas'[j][f] = Ordena(P)
  BY <1>1 DEF Planificar, TipoInv, Tipos
<1>. HIDE DEF ls, n
<1>5. ASSUME NEW i \in 1..n
      PROVE  P[i] \in Lista /\ P[i].nodo = ls[i].nodo /\ P[i].bloques = ls[i].bloques
  <2>1. ls[i] \in Lista /\ Peso(j, ls[i]) \in Int
    BY <1>3, PesoEs
  <2>2. P[i] = [ls[i] EXCEPT !.peso = Peso(j, ls[i])]
    BY <1>3
  <2>. QED
    BY <2>1, <2>2 DEF Lista
<1>6. DOMAIN P = 1..n
  BY <1>3
<1>. HIDE DEF P
<1>7. P \in Seq(Lista) /\ Len(P) = n
  <2>1. \A i \in DOMAIN P : P[i] \in Lista
    BY <1>5, <1>6
  <2>2. \E m \in Nat : DOMAIN P = 1..m
    BY <1>3, <1>6
  <2>3. P = [i \in 1..n |-> P[i]]
    BY <1>4, <1>6 DEF P
  <2>. QED
    BY <1>3, <1>5, <2>3
<1>8. PICK r \in [1..n -> 1..n] :
        /\ Ordena(P) = [i \in 1..n |-> P[r[i]]]
        /\ \A i \in 1..n : \E k \in 1..n : r[k] = i
        /\ \A k, l \in 1..n : r[k] = r[l] => k = l
  <2>1. \E r \in [1..Len(P) -> 1..Len(P)] :
          /\ Ordena(P) = [i \in 1..Len(P) |-> P[r[i]]]
          /\ \A i \in 1..Len(P) : \E k \in 1..Len(P) : r[k] = i
          /\ \A k, l \in 1..Len(P) : r[k] = r[l] => k = l
    BY <1>7, OrdenaEs
  <2>. QED
    BY <1>7, <2>1, ZenonT(60)
<1>. DEFINE Q == Ordena(P)
<1>9. Q \in Seq(Lista) /\ Len(Q) = n /\ \A i \in 1..n : Q[i] = P[r[i]] /\ r[i] \in 1..n
  <2>1. \A i \in 1..n : r[i] \in 1..n
    BY <1>8
  <2>2. \A i \in 1..n : P[r[i]] \in Lista
    BY <1>5, <2>1
  <2>3. Q = [i \in 1..n |-> P[r[i]]]
    BY <1>8
  <2>. HIDE DEF Q
  <2>. QED
    BY <1>3, <2>1, <2>2, <2>3
<1>. HIDE DEF Q
<1>10. MismasListas(Q, ls)
  <2>1. \A i \in 1..n : Q[i].nodo = ls[r[i]].nodo /\ Q[i].bloques = ls[r[i]].bloques
    BY <1>5, <1>9
  <2>2. \A k \in 1..n : \E i \in 1..n : Q[i].nodo = ls[k].nodo /\ Q[i].bloques = ls[k].bloques
    BY <1>8, <2>1
  <2>. QED
    BY <1>9, <2>1, <2>2 DEF MismasListas, n
<1>. QED
  BY <1>4, <1>10 DEF Q, ls

LEMMA PlanificarTipo ==
  ASSUME TipoInv, NEW j \in Job, Planificar(j)
  PROVE  TipoInv'
<1>1. /\ hilo' = [hilo EXCEPT ![j] = "reparte"]
      /\ DOMAIN listas' = Job /\ \A k \in Job : k # j => listas'[k] = listas[k]
      /\ DOMAIN listas'[j] = DOMAIN listas[j]
      /\ UNCHANGED <<mdfs, lectura, tareas, lista_nodos, socket_fs, bloques, cursor, caida>>
  BY DEF Planificar, Pasa, TipoInv, Tipos
<1>2. listas[j] \in Seq(Seq(Lista))
  BY DEF TipoInv, Tipos
<1>3. DOMAIN listas[j] = 1..Len(listas[j]) /\ Len(listas[j]) \in Nat
  BY <1>2
<1>4. listas'[j] \in Seq(Seq(Lista)) /\ Len(listas'[j]) = Len(listas[j])
  <2>1. \A f \in 1..Len(listas[j]) : listas'[j][f] \in Seq(Lista)
    BY PlanificadaEs DEF MismasListas
  <2>2. listas'[j] = [f \in 1..Len(listas[j]) |-> listas'[j][f]]
    BY <1>1, <1>3 DEF Planificar, TipoInv, Tipos
  <2>. QED
    BY <1>3, <2>1, <2>2
<1>5. listas' \in [Job -> Seq(Seq(Lista))]
  <2>1. \A k \in Job : listas'[k] \in Seq(Seq(Lista))
    BY <1>1, <1>4 DEF TipoInv, Tipos
  <2>2. listas' = [k \in Job |-> listas'[k]]
    BY <1>1 DEF Planificar, TipoInv, Tipos
  <2>. QED
    BY <2>1, <2>2
<1>6. Tipos'
  BY <1>1, <1>5 DEF TipoInv, Tipos, Reparto, mdfs, lectura, tareas
<1>7. \A n : BuscarNodo(n) # 0 => BuscarNodo(n)' # 0
  BY <1>1, <1>6, ConocidosSiguen DEF TipoInv
<1>8. Alcanza'
  <2>1. \A k \in Job : Len(listas'[k]) = Len(bloques'[k])
    BY <1>1, <1>4 DEF TipoInv, Alcanza
  <2>. QED
    BY <1>1, <1>7, <2>1 DEF TipoInv, Tipos, Alcanza, lectura, tareas
<1>. QED
  BY <1>6, <1>8 DEF TipoInv
(* The task that is handed out, and what becomes of its node's entry.      *)
TareaNueva(j) ==
  LET d == ListaEn(j).bloques[Tomable(j)]
  IN [nodo |-> ListaEn(j).nodo, enNodo |-> d.enNodo,
      archivo |-> cursor[j].archivo, bloque |-> d.bloque, estado |-> 0]
ConBloques(i, bs) == [lista_nodos[i] EXCEPT !.bloques = bs]
ConCarga(i, p) == [lista_nodos[i] EXCEPT !.pendientes = p]

LEMMA ConBloquesEs ==
  ASSUME Tipos, NEW i \in 1..Len(lista_nodos), NEW bs \in Seq(Nat)
  PROVE  /\ ConBloques(i, bs) \in Entrada
         /\ ConBloques(i, bs).nombre = lista_nodos[i].nombre
         /\ ConBloques(i, bs).ip = lista_nodos[i].ip
         /\ ConBloques(i, bs).puerto = lista_nodos[i].puerto
         /\ ConBloques(i, bs).pendientes = lista_nodos[i].pendientes
         /\ ConBloques(i, bs).bloques = bs
         /\ lista_nodos[i].bloques \in Seq(Nat)
<1>1. lista_nodos[i] \in Entrada
  BY DEF Tipos
<1>. QED
  BY <1>1 DEF ConBloques, Entrada

LEMMA ConCargaEs ==
  ASSUME Tipos, NEW i \in 1..Len(lista_nodos), NEW p \in Int
  PROVE  /\ ConCarga(i, p) \in Entrada
         /\ ConCarga(i, p).nombre = lista_nodos[i].nombre
         /\ ConCarga(i, p).ip = lista_nodos[i].ip
         /\ ConCarga(i, p).puerto = lista_nodos[i].puerto
         /\ ConCarga(i, p).pendientes = p
         /\ lista_nodos[i].pendientes \in Int
<1>1. lista_nodos[i] \in Entrada
  BY DEF Tipos
<1>. QED
  BY <1>1 DEF ConCarga, Entrada

LEMMA TomaBloqueHace ==
  ASSUME TipoInv, NEW j \in Job, TomaBloque(j)
  PROVE  LET i == BuscarNodo(ListaEn(j).nodo) IN
         /\ hilo[j] = "reparte" /\ Tomable(j) # 0
         /\ UNCHANGED <<mdfs, lectura, reparto, socket_fs, total>>
         /\ i = 0 => caida' = "nodo" /\ UNCHANGED <<hilo, lista_nodos, enviados, leida, solapo>>
         /\ i # 0 =>
              /\ i \in 1..Len(lista_nodos)
              /\ hilo' = [hilo EXCEPT ![j] = "suma"]
              /\ lista_nodos' = [lista_nodos EXCEPT ![i] =
                   ConBloques(i, Append(lista_nodos[i].bloques, TareaNueva(j).enNodo))]
              /\ TareaNueva(j) \in Tarea
              /\ enviados' = [enviados EXCEPT ![j] = Append(enviados[j], TareaNueva(j))]
              /\ leida' = [leida EXCEPT ![j] = [nodo |-> i, carga |-> lista_nodos[i].pendientes]]
              /\ solapo' = (solapo \/ Cambian(i) # {})
              /\ UNCHANGED caida
<1>. DEFINE l == ListaEn(j)
            d == l.bloques[Tomable(j)]
            i == BuscarNodo(l.nodo)
<1>1. hilo[j] = "reparte" /\ Tomable(j) # 0 /\ UNCHANGED <<mdfs, lectura, reparto, socket_fs, total>>
  BY DEF TomaBloque
<1>2. CASE i = 0
  BY <1>1, <1>2 DEF TomaBloque, Muere
<1>3. CASE i # 0
  <2>1. i \in 1..Len(lista_nodos)
    BY <1>3, BuscarEs DEF TipoInv
  <2>2. /\ l \in Lista /\ d \in EnLista /\ cursor[j].archivo \in 1..Len(bloques[j])
    BY <1>1, TomableEs
  <2>3. TareaNueva(j) \in Tarea /\ TareaNueva(j).enNodo = d.enNodo
    <3>1. cursor[j].archivo \in Nat
      BY DEF TipoInv, Tipos
    <3>. HIDE DEF d, l
    <3>2. TareaNueva(j) = [nodo |-> l.nodo, enNodo |-> d.enNodo,
                           archivo |-> cursor[j].archivo, bloque |-> d.bloque, estado |-> 0]
      BY DEF TareaNueva, d, l
    <3>. QED
      BY <2>2, <3>1, <3>2 DEF Tarea, Lista, EnLista
  <2>4. /\ hilo' = [hilo EXCEPT ![j] = "suma"]
        /\ lista_nodos' = [lista_nodos EXCEPT ![i].bloques = Append(@, d.enNodo)]
        /\ enviados' = [enviados EXCEPT ![j] = Append(@, TareaNueva(j))]
        /\ leida' = [leida EXCEPT ![j] = [nodo |-> i, carga |-> lista_nodos[i].pendientes]]
        /\ solapo' = (solapo \/ Cambian(i) # {})
        /\ UNCHANGED caida
    BY <1>3 DEF TomaBloque, Pasa, TareaNueva
  <2>. HIDE DEF d, i
  <2>5. lista_nodos' = [lista_nodos EXCEPT ![i] =
                          ConBloques(i, Append(lista_nodos[i].bloques, TareaNueva(j).enNodo))]
    BY <2>1, <2>3, <2>4 DEF ConBloques
  <2>6. enviados' = [enviados EXCEPT ![j] = Append(enviados[j], TareaNueva(j))]
    BY <2>4 DEF TipoInv, Tipos
  <2>. QED
    BY <1>1, <1>3, <2>1, <2>3, <2>4, <2>5, <2>6 DEF i
<1>. QED
  BY <1>2, <1>3

LEMMA TomaBloqueTipo ==
  ASSUME TipoInv, NEW j \in Job, TomaBloque(j)
  PROVE  TipoInv' /\ Crece
<1>. DEFINE i == BuscarNodo(ListaEn(j).nodo)
            e == ConBloques(i, Append(lista_nodos[i].bloques, TareaNueva(j).enNodo))
<1>1. CASE i = 0
  <2>1. UNCHANGED <<mdfs, lectura, reparto, socket_fs, total, hilo, lista_nodos, enviados, leida, solapo>>
        /\ caida' = "nodo"
    BY <1>1, TomaBloqueHace
  <2>2. Tipos'
    BY <2>1 DEF TipoInv, Tipos, mdfs, lectura, reparto
  <2>3. \A n : BuscarNodo(n) # 0 => BuscarNodo(n)' # 0
    BY <2>1, <2>2, ConocidosSiguen DEF TipoInv
  <2>4. Alcanza'
    BY <2>1, <2>3 DEF TipoInv, Alcanza, lectura, reparto
  <2>5. Crece
    <3>1. lista_nodos \in Seq(Entrada)
      BY DEF TipoInv, Tipos
    <3>. QED
      BY <2>1, <3>1 DEF Crece
  <2>. QED
    BY <2>2, <2>4, <2>5 DEF TipoInv
<1>2. CASE i # 0
  <2>1. /\ i \in 1..Len(lista_nodos) /\ TareaNueva(j) \in Tarea
        /\ hilo' = [hilo EXCEPT ![j] = "suma"] /\ lista_nodos' = [lista_nodos EXCEPT ![i] = e]
        /\ enviados' = [enviados EXCEPT ![j] = Append(enviados[j], TareaNueva(j))]
        /\ leida' = [leida EXCEPT ![j] = [nodo |-> i, carga |-> lista_nodos[i].pendientes]]
        /\ solapo' = (solapo \/ Cambian(i) # {})
        /\ UNCHANGED <<mdfs, lectura, reparto, socket_fs, total, caida>>
    BY <1>2, TomaBloqueHace
  <2>2. TareaNueva(j).enNodo \in Nat
    BY <2>1 DEF Tarea
  <2>3. lista_nodos[i].bloques \in Seq(Nat) /\ lista_nodos[i].pendientes \in Int
    <3>1. lista_nodos[i] \in Entrada
      BY <2>1 DEF TipoInv, Tipos
    <3>. QED
      BY <3>1 DEF Entrada
  <2>4. Append(lista_nodos[i].bloques, TareaNueva(j).enNodo) \in Seq(Nat)
    BY <2>2, <2>3
  <2>5. e \in Entrada /\ e.nombre = lista_nodos[i].nombre
    BY <2>1, <2>4, ConBloquesEs DEF TipoInv
  <2>. HIDE DEF e
  <2>6. lista_nodos' \in Seq(Entrada) /\ Len(lista_nodos') = Len(lista_nodos) /\ Crece
    BY <2>1, <2>5, CambiaEntrada DEF TipoInv
  <2>7. /\ enviados' \in [Job -> Seq(Tarea)] /\ Len(enviados'[j]) = Len(enviados[j]) + 1
        /\ enviados'[j][Len(enviados[j]) + 1] = TareaNueva(j)
        /\ Len(enviados[j]) \in Nat
        /\ \A p \in 1..Len(enviados[j]) : enviados'[j][p] = enviados[j][p]
        /\ \A k \in Job : k # j => enviados'[k] = enviados[k]
    <3>1. enviados \in [Job -> Seq(Tarea)]
      BY DEF TipoInv, Tipos
    <3>. QED
      BY <2>1, <3>1
  <2>8. leida' \in [Job -> [nodo : Nat, carga : Int]] /\ hilo' \in [Job -> Antes \cup Reparto \cup Despues \cup {"perdido"}]
        /\ solapo' \in BOOLEAN
    <3>. HIDE DEF i
    <3>1. i \in Nat
      BY <2>1
    <3>2. leida' \in [Job -> [nodo : Nat, carga : Int]]
      BY <2>1, <2>3, <3>1 DEF TipoInv, Tipos
    <3>3. hilo' \in [Job -> Antes \cup Reparto \cup Despues \cup {"perdido"}]
      BY <2>1 DEF TipoInv, Tipos, Reparto
    <3>4. solapo' \in BOOLEAN
      BY <2>1 DEF TipoInv, Tipos
    <3>. QED
      BY <3>2, <3>3, <3>4
  <2>9. Tipos'
    BY <2>1, <2>6, <2>7, <2>8 DEF TipoInv, Tipos, mdfs, lectura, reparto
  <2>10. \A n : BuscarNodo(n) # 0 => BuscarNodo(n)' # 0
    BY <2>6, <2>9, ConocidosSiguen DEF TipoInv
  <2>11. \A k \in Job : \A p \in 1..Len(enviados'[k]) : BuscarNodo(enviados[k][p].nodo)' # 0
    <3>1. \A n : BuscarNodo(n) # 0 => Primero(lista_nodos', n) # 0
      BY <2>10, BuscarPrimero
    <3>2. TareaNueva(j).nodo = ListaEn(j).nodo
      BY DEF TareaNueva
    <3>3. \A k \in Job : \A p \in 1..Len(enviados'[k]) :
            BuscarNodo(enviados'[k][p].nodo) # 0
      <4>1. ASSUME NEW p \in 1..Len(enviados'[j])
            PROVE  BuscarNodo(enviados'[j][p].nodo) # 0
        <5>1. CASE p = Len(enviados[j]) + 1
          BY <1>2, <2>7, <3>2, <5>1
        <5>2. CASE p \in 1..Len(enviados[j])
          BY <2>7, <5>2 DEF TipoInv, Alcanza
        <5>. QED
          BY <2>7, <5>1, <5>2
      <4>. QED
        BY <2>7, <4>1 DEF TipoInv, Alcanza
    <3>4. \A k \in Job : \A p \in 1..Len(enviados'[k]) : Primero(lista_nodos', enviados'[k][p].nodo) # 0
      BY <3>1, <3>3
    <3>. QED
      BY <3>4, BuscarPrimero
  <2>12. Alcanza'
    <3>1. \A k \in Job : hilo'[k] \in {"suma", "resta"} => leida'[k].nodo \in 1..Len(lista_nodos')
      BY <2>1, <2>6 DEF TipoInv, Tipos, Alcanza
    <3>. QED
      BY <2>1, <2>11, <3>1 DEF TipoInv, Tipos, Alcanza, lectura, reparto
  <2>. QED
    BY <2>6, <2>9, <2>12 DEF TipoInv
<1>. QED
  BY <1>1, <1>2
LEMMA SumaCargaHace ==
  ASSUME TipoInv, NEW j \in Job, SumaCarga(j)
  PROVE  LET i == leida[j].nodo IN
         /\ hilo[j] = "suma" /\ i \in 1..Len(lista_nodos)
         /\ hilo' = [hilo EXCEPT ![j] = IF pedido[j].combiner THEN "sigue" ELSE "reparte"]
         /\ leida[j].carga + 1 \in Int
         /\ lista_nodos' = [lista_nodos EXCEPT ![i] = ConCarga(i, leida[j].carga + 1)]
         /\ UNCHANGED <<mdfs, lectura, reparto, tareas, socket_fs, caida>>
BY DEF SumaCarga, Pasa, ConCarga, TipoInv, Tipos, Alcanza

LEMMA RestaCargaHace ==
  ASSUME TipoInv, NEW j \in Job, RestaCarga(j)
  PROVE  LET i == leida[j].nodo IN
         /\ hilo[j] = "resta" /\ i \in 1..Len(lista_nodos)
         /\ hilo' = [hilo EXCEPT ![j] = "envia"]
         /\ leida[j].carga - 1 \in Int
         /\ lista_nodos' = [lista_nodos EXCEPT ![i] = ConCarga(i, leida[j].carga - 1)]
         /\ UNCHANGED <<mdfs, lectura, reparto, tareas, socket_fs, caida>>
BY DEF RestaCarga, Restada, Pasa, ConCarga, TipoInv, Tipos, Alcanza

(* Both of them only change the load of an entry.                          *)
LEMMA CargaTipo ==
  ASSUME TipoInv, NEW j \in Job, NEW i \in 1..Len(lista_nodos), NEW p \in Int,
         NEW a \in {"sigue", "reparte", "envia"},
         hilo' = [hilo EXCEPT ![j] = a],
         lista_nodos' = [lista_nodos EXCEPT ![i] = ConCarga(i, p)],
         UNCHANGED <<mdfs, lectura, reparto, tareas, socket_fs, caida>>
  PROVE  TipoInv' /\ Crece
<1>1. ConCarga(i, p) \in Entrada /\ ConCarga(i, p).nombre = lista_nodos[i].nombre
  BY ConCargaEs DEF TipoInv
<1>2. lista_nodos' \in Seq(Entrada) /\ Len(lista_nodos') = Len(lista_nodos) /\ Crece
  BY <1>1, CambiaEntrada DEF TipoInv
<1>3. Tipos'
  BY <1>2 DEF TipoInv, Tipos, Reparto, Despues, mdfs, lectura, reparto, tareas
<1>4. \A n : BuscarNodo(n) # 0 => BuscarNodo(n)' # 0
  BY <1>2, <1>3, ConocidosSiguen DEF TipoInv
<1>5. Alcanza'
  BY <1>2, <1>4 DEF TipoInv, Tipos, Alcanza, lectura, reparto, tareas
<1>. QED
  BY <1>2, <1>3, <1>5 DEF TipoInv

LEMMA SumaCargaTipo ==
  ASSUME TipoInv, NEW j \in Job, SumaCarga(j)
  PROVE  TipoInv' /\ Crece
BY SumaCargaHace, CargaTipo

LEMMA RestaCargaTipo ==
  ASSUME TipoInv, NEW j \in Job, RestaCarga(j)
  PROVE  TipoInv' /\ Crece
BY RestaCargaHace, CargaTipo

LEMMA SiguienteListaTipo ==
  ASSUME TipoInv, NEW j \in Job, SiguienteLista(j)
  PROVE  TipoInv'
<1>1. /\ hilo' = [hilo EXCEPT ![j] = "reparte"]
      /\ cursor' = [cursor EXCEPT ![j] = Siguiente(j)]
      /\ UNCHANGED <<mdfs, lectura, tareas, lista_nodos, socket_fs, bloques, listas, caida>>
  BY DEF SiguienteLista, Pasa
<1>2. Siguiente(j) \in [archivo : Nat \ {0}, lista : Nat \ {0}]
  <2>1. cursor[j] \in [archivo : Nat \ {0}, lista : Nat \ {0}]
    BY DEF TipoInv, Tipos
  <2>2. cursor[j].lista + 1 \in Nat \ {0} /\ cursor[j].archivo + 1 \in Nat \ {0} /\ 1 \in Nat \ {0}
    BY <2>1
  <2>. QED
    BY <2>1, <2>2 DEF Siguiente
<1>3. Tipos'
  BY <1>1, <1>2 DEF TipoInv, Tipos, Reparto, mdfs, lectura, tareas
<1>4. \A n : BuscarNodo(n) # 0 => BuscarNodo(n)' # 0
  BY <1>1, <1>3, ConocidosSiguen DEF TipoInv
<1>5. Alcanza'
  BY <1>1, <1>4 DEF TipoInv, Tipos, Alcanza, lectura, tareas
<1>. QED
  BY <1>3, <1>5 DEF TipoInv

LEMMA TerminaRepartoTipo ==
  ASSUME TipoInv, NEW j \in Job, TerminaReparto(j) \/ PrimerMas(j)
  PROVE  TipoInv'
<1>1. /\ \E a \in {"envia", "trabaja"} : hilo' = [hilo EXCEPT ![j] = a]
      /\ UNCHANGED <<mdfs, lectura, reparto, tareas, lista_nodos, socket_fs, caida>>
  BY DEF TerminaReparto, PrimerMas, Pasa
<1>2. Tipos'
  BY <1>1 DEF TipoInv, Tipos, Despues, mdfs, lectura, reparto, tareas
<1>3. \A n : BuscarNodo(n) # 0 => BuscarNodo(n)' # 0
  BY <1>1, <1>2, ConocidosSiguen DEF TipoInv
<1>4. Alcanza'
  BY <1>1, <1>3 DEF TipoInv, Tipos, Alcanza, lectura, reparto, tareas
<1>. QED
  BY <1>2, <1>4 DEF TipoInv

LEMMA PideTotalTipo ==
  ASSUME TipoInv, NEW j \in Job, PideTotal(j)
  PROVE  TipoInv'
<1>1. /\ hilo' = [hilo EXCEPT ![j] = "fin"] /\ DOMAIN total' = DOMAIN total
      /\ UNCHANGED <<mdfs, lectura, reparto, lista_nodos, socket_fs, leida, enviados, solapo, caida>>
  BY DEF PideTotal, Pasa
<1>2. Tipos'
  BY <1>1 DEF TipoInv, Tipos, Despues, mdfs, lectura, reparto
<1>3. \A n : BuscarNodo(n) # 0 => BuscarNodo(n)' # 0
  BY <1>1, <1>2, ConocidosSiguen DEF TipoInv
<1>4. Alcanza'
  BY <1>1, <1>3 DEF TipoInv, Tipos, Alcanza, lectura, reparto
<1>. QED
  BY <1>2, <1>4 DEF TipoInv

(* A task changes its state, and nothing else of it.                       *)
ConEstado(j, p, x) == [enviados[j][p] EXCEPT !.estado = x]

(* What the tasks keep when one of them changes its state.                 *)
EstadoCambia(j, p, x) ==
  /\ enviados' \in [Job -> Seq(Tarea)]
  /\ \A k \in Job : Len(enviados'[k]) = Len(enviados[k])
  /\ \A k \in Job : k # j => enviados'[k] = enviados[k]
  /\ \A q \in 1..Len(enviados[j]) : q # p => enviados'[j][q] = enviados[j][q]
  /\ enviados'[j][p] = ConEstado(j, p, x) /\ ConEstado(j, p, x).estado = x
  /\ \A k \in Job : \A q \in 1..Len(enviados[k]) :
       /\ enviados'[k][q].nodo = enviados[k][q].nodo
       /\ enviados'[k][q].enNodo = enviados[k][q].enNodo
       /\ enviados'[k][q].archivo = enviados[k][q].archivo
       /\ enviados'[k][q].bloque = enviados[k][q].bloque

LEMMA EstadoCambiado ==
  ASSUME Tipos, NEW j \in Job, NEW p \in 1..Len(enviados[j]), NEW x \in 0..3,
         enviados' = [enviados EXCEPT ![j][p].estado = x]
  PROVE  EstadoCambia(j, p, x)
<1>. DEFINE e == ConEstado(j, p, x)
<1>1. enviados \in [Job -> Seq(Tarea)] /\ enviados[j] \in Seq(Tarea)
  BY DEF Tipos
<1>2. enviados[j][p] \in Tarea
  BY <1>1
<1>3. /\ e \in Tarea /\ e.estado = x
      /\ e.nodo = enviados[j][p].nodo /\ e.enNodo = enviados[j][p].enNodo
      /\ e.archivo = enviados[j][p].archivo /\ e.bloque = enviados[j][p].bloque
  BY <1>2 DEF ConEstado, Tarea
<1>4. enviados' = [enviados EXCEPT ![j] = [enviados[j] EXCEPT ![p] = e]]
  BY DEF ConEstado
<1>. HIDE DEF e
<1>. DEFINE s == [enviados[j] EXCEPT ![p] = e]
<1>5. /\ s \in Seq(Tarea) /\ Len(s) = Len(enviados[j]) /\ s[p] = e
      /\ \A q \in 1..Len(enviados[j]) : q # p => s[q] = enviados[j][q]
  BY <1>1, <1>3
<1>. HIDE DEF s
<1>6. /\ enviados' \in [Job -> Seq(Tarea)] /\ enviados'[j] = s
      /\ \A k \in Job : k # j => enviados'[k] = enviados[k]
  BY <1>1, <1>4, <1>5 DEF s
<1>7. /\ \A k \in Job : Len(enviados'[k]) = Len(enviados[k])
      /\ \A q \in 1..Len(enviados[j]) : q # p => enviados'[j][q] = enviados[j][q]
      /\ enviados'[j][p] = e
  BY <1>5, <1>6
<1>8. \A k \in Job : \A q \in 1..Len(enviados[k]) :
              /\ enviados'[k][q].nodo = enviados[k][q].nodo
              /\ enviados'[k][q].enNodo = enviados[k][q].enNodo
              /\ enviados'[k][q].archivo = enviados[k][q].archivo
              /\ enviados'[k][q].bloque = enviados[k][q].bloque
  BY <1>3, <1>6, <1>7
<1>. QED
  BY <1>3, <1>6, <1>7, <1>8 DEF e, EstadoCambia

LEMMA ConEstadoEs ==
  ASSUME Tipos, NEW j \in Job, NEW p \in 1..Len(enviados[j]), NEW x \in 0..3,
         enviados' = [enviados EXCEPT ![j][p].estado = x]
  PROVE  /\ enviados' \in [Job -> Seq(Tarea)]
         /\ enviados' = [enviados EXCEPT ![j] = [enviados[j] EXCEPT ![p] = ConEstado(j, p, x)]]
         /\ \A k \in Job : Len(enviados'[k]) = Len(enviados[k])
         /\ \A k \in Job : k # j => enviados'[k] = enviados[k]
         /\ \A q \in 1..Len(enviados[j]) : q # p => enviados'[j][q] = enviados[j][q]
         /\ enviados'[j][p] = ConEstado(j, p, x) /\ ConEstado(j, p, x).estado = x
         /\ \A k \in Job : \A q \in 1..Len(enviados[k]) :
              /\ enviados'[k][q].nodo = enviados[k][q].nodo
              /\ enviados'[k][q].enNodo = enviados[k][q].enNodo
              /\ enviados'[k][q].archivo = enviados[k][q].archivo
              /\ enviados'[k][q].bloque = enviados[k][q].bloque
<1>1. EstadoCambia(j, p, x)
  BY EstadoCambiado
<1>2. enviados' = [enviados EXCEPT ![j] = [enviados[j] EXCEPT ![p] = ConEstado(j, p, x)]]
  BY DEF ConEstado
<1>. QED
  BY <1>1, <1>2 DEF EstadoCambia

(* A task changes its state and entries of lista_nodos keep their names.   *)
LEMMA EstadoTipo ==
  ASSUME TipoInv, NEW j \in Job, NEW p \in 1..Len(enviados[j]), NEW x \in 0..3,
         NEW a \in {"resta", "trabaja"},
         hilo' = [hilo EXCEPT ![j] = a],
         enviados' = [enviados EXCEPT ![j][p].estado = x],
         lista_nodos' \in Seq(Entrada), Crece,
         leida' \in [Job -> [nodo : Nat, carga : Int]],
         \A k \in Job : k # j => leida'[k] = leida[k],
         a = "resta" => leida'[j].nodo \in 1..Len(lista_nodos'),
         solapo' \in BOOLEAN,
         UNCHANGED <<mdfs, lectura, reparto, socket_fs, total, caida>>
  PROVE  TipoInv'
<1>1. /\ enviados' \in [Job -> Seq(Tarea)]
      /\ \A k \in Job : Len(enviados'[k]) = Len(enviados[k])
      /\ \A k \in Job : \A q \in 1..Len(enviados[k]) : enviados'[k][q].nodo = enviados[k][q].nodo
  BY ConEstadoEs, ZenonT(60) DEF TipoInv
<1>2. hilo' \in [Job -> Antes \cup Reparto \cup Despues \cup {"perdido"}]
  BY DEF TipoInv, Tipos, Despues
<1>3. Tipos'
  BY <1>1, <1>2 DEF TipoInv, Tipos, mdfs, lectura, reparto
<1>4. \A n : BuscarNodo(n) # 0 => Primero(lista_nodos', n) # 0
  <2>1. \A n : BuscarNodo(n) # 0 => BuscarNodo(n)' # 0
    BY <1>3, ConocidosSiguen DEF TipoInv
  <2>. QED
    BY <2>1, BuscarPrimero
<1>5. \A k \in Job : \A q \in 1..Len(enviados'[k]) : BuscarNodo(enviados[k][q].nodo)' # 0
  <2>1. \A k \in Job : \A q \in 1..Len(enviados'[k]) : BuscarNodo(enviados'[k][q].nodo) # 0
    BY <1>1 DEF TipoInv, Alcanza
  <2>2. \A k \in Job : \A q \in 1..Len(enviados'[k]) : Primero(lista_nodos', enviados'[k][q].nodo) # 0
    BY <1>4, <2>1
  <2>. QED
    BY <2>2, BuscarPrimero
<1>6. \A k \in Job : hilo'[k] \in {"suma", "resta"} => leida'[k].nodo \in 1..Len(lista_nodos')
  <2>1. /\ \A k \in Job : k # j => hilo'[k] = hilo[k] /\ leida'[k] = leida[k]
        /\ hilo'[j] = a
    BY DEF TipoInv, Tipos
  <2>2. Len(lista_nodos) \in Nat /\ Len(lista_nodos') \in Nat /\ Len(lista_nodos) <= Len(lista_nodos')
    <3>1. lista_nodos \in Seq(Entrada)
      BY DEF TipoInv, Tipos
    <3>. QED
      BY <3>1 DEF Crece
  <2>3. \A k \in Job : hilo[k] \in {"suma", "resta"} => leida[k].nodo \in 1..Len(lista_nodos)
    BY DEF TipoInv, Alcanza
  <2>. QED
    BY <2>1, <2>2, <2>3
<1>7. Alcanza'
  BY <1>5, <1>6 DEF TipoInv, Tipos, Alcanza, lectura, reparto
<1>. QED
  BY <1>3, <1>7 DEF TipoInv

LEMMA EnviaTareaHace ==
  ASSUME TipoInv, NEW j \in Job, EnviaTarea(j)
  PROVE  LET p == PorEnviar(j)
             i == BuscarNodo(enviados[j][p].nodo)
         IN
         /\ hilo[j] = "envia" /\ p \in 1..Len(enviados[j]) /\ enviados[j][p].estado = 0
         /\ i \in 1..Len(lista_nodos)
         /\ UNCHANGED <<mdfs, lectura, reparto, lista_nodos, socket_fs, total>>
         /\ \/ caida' = "entrada" /\ UNCHANGED <<hilo, enviados, leida, solapo>>
               /\ ~Contains(lista_nodos[i].bloques, enviados[j][p].enNodo)
            \/ /\ hilo' = [hilo EXCEPT ![j] = "resta"]
               /\ enviados' = [enviados EXCEPT ![j][p].estado = 1]
               /\ leida' = [leida EXCEPT ![j] = [nodo |-> i, carga |-> lista_nodos[i].pendientes]]
               /\ solapo' = (solapo \/ Cambian(i) # {})
               /\ UNCHANGED caida
<1>1. PorEnviar(j) # 0
  BY DEF EnviaTarea
<1>2. /\ PorEnviar(j) \in 1..Len(enviados[j]) /\ enviados[j][PorEnviar(j)].estado = 0
      /\ BuscarNodo(enviados[j][PorEnviar(j)].nodo) \in 1..Len(lista_nodos)
  BY <1>1, PorEnviarEs
<1>. QED
  BY <1>2 DEF EnviaTarea, Pasa, Muere

LEMMA EnviaTareaTipo ==
  ASSUME TipoInv, NEW j \in Job, EnviaTarea(j)
  PROVE  TipoInv'
<1>. DEFINE p == PorEnviar(j)
            i == BuscarNodo(enviados[j][p].nodo)
<1>1. /\ p \in 1..Len(enviados[j]) /\ i \in 1..Len(lista_nodos)
      /\ UNCHANGED <<mdfs, lectura, reparto, lista_nodos, socket_fs, total>>
  BY EnviaTareaHace
<1>2. CASE caida' = "entrada" /\ UNCHANGED <<hilo, enviados, leida, solapo>>
  <2>1. Tipos'
    BY <1>1, <1>2 DEF TipoInv, Tipos, mdfs, lectura, reparto
  <2>2. \A n : BuscarNodo(n) # 0 => BuscarNodo(n)' # 0
    BY <1>1, <2>1, ConocidosSiguen DEF TipoInv
  <2>3. Alcanza'
    BY <1>1, <1>2, <2>2 DEF TipoInv, Alcanza, lectura, reparto
  <2>. QED
    BY <2>1, <2>3 DEF TipoInv
<1>3. CASE /\ hilo' = [hilo EXCEPT ![j] = "resta"]
           /\ enviados' = [enviados EXCEPT ![j][p].estado = 1]
           /\ leida' = [leida EXCEPT ![j] = [nodo |-> i, carga |-> lista_nodos[i].pendientes]]
           /\ solapo' = (solapo \/ Cambian(i) # {})
           /\ UNCHANGED caida
  <2>1. lista_nodos \in Seq(Entrada) /\ lista_nodos' \in Seq(Entrada) /\ Crece
    <3>1. lista_nodos \in Seq(Entrada)
      BY DEF TipoInv, Tipos
    <3>. QED
      BY <1>1, <3>1 DEF Crece
  <2>2. lista_nodos[i].pendientes \in Int
    <3>1. lista_nodos[i] \in Entrada
      BY <1>1, <2>1
    <3>. QED
      BY <3>1 DEF Entrada
  <2>3. /\ leida' \in [Job -> [nodo : Nat, carga : Int]]
        /\ \A k \in Job : k # j => leida'[k] = leida[k]
        /\ leida'[j].nodo \in 1..Len(lista_nodos')
    <3>. HIDE DEF i, p
    <3>1. i \in Nat
      BY <1>1
    <3>. QED
      BY <1>1, <1>3, <2>2, <3>1 DEF TipoInv, Tipos
  <2>4. solapo' \in BOOLEAN
    BY <1>3 DEF TipoInv, Tipos
  <2>. HIDE DEF i, p
  <2>5. \A a \in {"resta"}, x \in 1..1 :
          hilo' = [hilo EXCEPT ![j] = a] /\ enviados' = [enviados EXCEPT ![j][p].estado = x]
    BY <1>3
  <2>6. ASSUME NEW a \in {"resta"}, NEW x \in 1..1
        PROVE  TipoInv'
    <3>1. hilo' = [hilo EXCEPT ![j] = a] /\ enviados' = [enviados EXCEPT ![j][p].estado = x]
      BY <2>5
    <3>2. a = "resta" => leida'[j].nodo \in 1..Len(lista_nodos')
      BY <2>3
    <3>3. a \in {"resta", "trabaja"} /\ x \in 0..3 /\ p \in 1..Len(enviados[j])
      BY <1>1
    <3>4. UNCHANGED <<mdfs, lectura, reparto, socket_fs, total, caida>>
      BY <1>1, <1>3
    <3>. QED
      BY <2>1, <2>3, <2>4, <3>1, <3>2, <3>3, <3>4, EstadoTipo, Zenon
  <2>. QED
    BY <2>6
<1>. QED
  BY <1>2, <1>3, EnviaTareaHace

(* The OK of a map, or of a local reduce.                                  *)
Recibido(j, p, x, bs) ==
  LET e == enviados[j][p]
      i == BuscarNodo(e.nodo)
      quedan == SinBloque(lista_nodos[i].bloques, e.enNodo)
  IN /\ hilo[j] = "trabaja" /\ hilo' = [hilo EXCEPT ![j] = "trabaja"] /\ hilo' = hilo
     /\ e.estado \in 1..2
     /\ enviados' = [enviados EXCEPT ![j][p].estado = x]
     /\ i \in 1..Len(lista_nodos)
     /\ lista_nodos' = [lista_nodos EXCEPT ![i] = ConBloques(i, bs)]
     /\ \/ bs = quedan /\ x = 3
        \/ bs = Append(quedan, e.enNodo) /\ x = 2 /\ e.estado = 1
     /\ UNCHANGED <<mdfs, lectura, reparto, socket_fs, leida, total, solapo, caida>>

LEMMA ReciboOkHace ==
  ASSUME TipoInv, NEW j \in Job, ReciboOkMap(j) \/ ReciboOkReduce(j)
  PROVE  \E p \in 1..Len(enviados[j]), x \in 2..3, bs \in Seq(Nat) : Recibido(j, p, x, bs)
<1>1. enviados[j] \in Seq(Tarea) /\ lista_nodos \in Seq(Entrada) /\ hilo = [hilo EXCEPT ![j] = hilo[j]]
  BY DEF TipoInv, Tipos
<1>2. DOMAIN enviados[j] = 1..Len(enviados[j])
  BY <1>1
<1>3. \A p \in 1..Len(enviados[j]) :
        /\ BuscarNodo(enviados[j][p].nodo) \in 1..Len(lista_nodos)
        /\ enviados[j][p] \in Tarea
  <2>. TAKE p \in 1..Len(enviados[j])
  <2>1. BuscarNodo(enviados[j][p].nodo) # 0
    BY DEF TipoInv, Alcanza
  <2>. QED
    BY <1>1, <2>1, BuscarEs DEF TipoInv
<1>4. CASE ReciboOkMap(j)
  <2>1. PICK p \in DOMAIN enviados[j] :
          LET e == enviados[j][p]
              i == BuscarNodo(e.nodo)
              quedan == SinBloque(lista_nodos[i].bloques, e.enNodo)
          IN
          /\ e.estado = 1
          /\ Pasa(j, "trabaja", "trabaja")
          /\ enviados' = [enviados EXCEPT ![j][p].estado = IF pedido[j].combiner THEN 2 ELSE 3]
          /\ lista_nodos' = [lista_nodos EXCEPT ![i].bloques =
               IF pedido[j].combiner THEN Append(quedan, e.enNodo) ELSE quedan]
          /\ UNCHANGED <<mdfs, lectura, reparto, socket_fs, leida, total, solapo>>
    BY <1>4 DEF ReciboOkMap
  <2>. DEFINE e == enviados[j][p]
              i == BuscarNodo(e.nodo)
              q == SinBloque(lista_nodos[i].bloques, e.enNodo)
              bs == IF pedido[j].combiner THEN Append(q, e.enNodo) ELSE q
              x == IF pedido[j].combiner THEN 2 ELSE 3
  <2>2. p \in 1..Len(enviados[j]) /\ i \in 1..Len(lista_nodos) /\ e \in Tarea
    BY <1>2, <1>3
  <2>3. lista_nodos[i] \in Entrada
    BY <1>1, <2>2
  <2>4. q \in Seq(Nat) /\ e.enNodo \in Nat
    BY <2>2, <2>3, SinBloqueEs DEF Entrada, Tarea
  <2>. HIDE DEF q
  <2>5. bs \in Seq(Nat)
    BY <2>4
  <2>6. lista_nodos' = [lista_nodos EXCEPT ![i] = ConBloques(i, bs)]
    BY <2>1 DEF ConBloques, q
  <2>7. /\ hilo[j] = "trabaja" /\ hilo' = [hilo EXCEPT ![j] = "trabaja"] /\ hilo' = hilo
        /\ enviados' = [enviados EXCEPT ![j][p].estado = x]
        /\ e.estado = 1 /\ x \in 2..3
        /\ UNCHANGED <<mdfs, lectura, reparto, socket_fs, leida, total, solapo, caida>>
    BY <1>1, <2>1 DEF Pasa
  <2>8. \/ bs = q /\ x = 3
        \/ bs = Append(q, e.enNodo) /\ x = 2
    OBVIOUS
  <2>. HIDE DEF bs, x
  <2>9. Recibido(j, p, x, bs)
    <3>1. e.estado \in 1..2
      BY <2>7
    <3>2. \/ bs = q /\ x = 3
          \/ bs = Append(q, e.enNodo) /\ x = 2 /\ e.estado = 1
      BY <2>7, <2>8
    <3>. QED
      BY <2>2, <2>6, <2>7, <3>1, <3>2, Zenon DEF q, Recibido
  <2>. QED
    BY <2>2, <2>5, <2>7, <2>9
<1>5. CASE ReciboOkReduce(j)
  <2>1. PICK p \in DOMAIN enviados[j] :
          LET e == enviados[j][p]
              i == BuscarNodo(e.nodo)
          IN
          /\ e.estado = 2
          /\ Pasa(j, "trabaja", "trabaja")
          /\ enviados' = [enviados EXCEPT ![j][p].estado = 3]
          /\ lista_nodos' = [lista_nodos EXCEPT ![i].bloques = SinBloque(@, e.enNodo)]
          /\ UNCHANGED <<mdfs, lectura, reparto, socket_fs, leida, total, solapo>>
    BY <1>5 DEF ReciboOkReduce
  <2>. DEFINE e == enviados[j][p]
              i == BuscarNodo(e.nodo)
              q == SinBloque(lista_nodos[i].bloques, e.enNodo)
  <2>2. p \in 1..Len(enviados[j]) /\ i \in 1..Len(lista_nodos) /\ e \in Tarea
    BY <1>2, <1>3
  <2>3. lista_nodos[i] \in Entrada
    BY <1>1, <2>2
  <2>4. q \in Seq(Nat)
    BY <2>3, SinBloqueEs DEF Entrada
  <2>6. lista_nodos' = [lista_nodos EXCEPT ![i] = ConBloques(i, q)]
    BY <2>1, <2>2 DEF ConBloques
  <2>7. /\ hilo[j] = "trabaja" /\ hilo' = [hilo EXCEPT ![j] = "trabaja"] /\ hilo' = hilo
        /\ enviados' = [enviados EXCEPT ![j][p].estado = 3]
        /\ e.estado = 2
        /\ UNCHANGED <<mdfs, lectura, reparto, socket_fs, leida, total, solapo, caida>>
    BY <1>1, <2>1 DEF Pasa
  <2>8. Recibido(j, p, 3, q)
    BY <2>2, <2>6, <2>7 DEF Recibido
  <2>. QED
    BY <2>2, <2>4, <2>8
<1>. QED
  BY <1>4, <1>5

LEMMA ReciboOkTipo ==
  ASSUME TipoInv, NEW j \in Job, ReciboOkMap(j) \/ ReciboOkReduce(j)
  PROVE  TipoInv' /\ Crece
<1>1. PICK p \in 1..Len(enviados[j]), x \in 2..3, bs \in Seq(Nat) : Recibido(j, p, x, bs)
  BY ReciboOkHace
<1>. DEFINE i == BuscarNodo(enviados[j][p].nodo)
<1>2. /\ hilo' = [hilo EXCEPT ![j] = "trabaja"]
      /\ enviados' = [enviados EXCEPT ![j][p].estado = x]
      /\ i \in 1..Len(lista_nodos)
      /\ lista_nodos' = [lista_nodos EXCEPT ![i] = ConBloques(i, bs)]
      /\ UNCHANGED <<mdfs, lectura, reparto, socket_fs, leida, total, solapo, caida>>
  BY <1>1 DEF Recibido
<1>. HIDE DEF i
<1>4. ConBloques(i, bs) \in Entrada /\ ConBloques(i, bs).nombre = lista_nodos[i].nombre
  BY <1>2, ConBloquesEs DEF TipoInv
<1>5. lista_nodos' \in Seq(Entrada) /\ Crece
  BY <1>2, <1>4, CambiaEntrada DEF TipoInv
<1>6. leida' \in [Job -> [nodo : Nat, carga : Int]] /\ leida' = leida /\ solapo' \in BOOLEAN
  BY <1>2 DEF TipoInv, Tipos
<1>7. x \in 0..3
  OBVIOUS
<1>. QED
  BY <1>2, <1>5, <1>6, <1>7, EstadoTipo

LEMMA TipoStep == TipoInv /\ [Next]_vars => TipoInv'
<1>. SUFFICES ASSUME TipoInv, [Next]_vars
              PROVE  TipoInv'
  OBVIOUS
<1>1. CASE UNCHANGED vars
  <2>1. Tipos'
    BY <1>1 DEF TipoInv, Tipos, vars
  <2>2. \A n : BuscarNodo(n) # 0 => BuscarNodo(n)' # 0
    BY <1>1, <2>1, ConocidosSiguen DEF TipoInv, vars
  <2>3. Alcanza'
    BY <1>1, <2>2 DEF TipoInv, Alcanza, vars
  <2>. QED
    BY <2>1, <2>3 DEF TipoInv
<1>2. ASSUME NEW j \in Job, Hilo(j) \/ ReciboOkMap(j) \/ ReciboOkReduce(j) \/ PideTotal(j)
      PROVE  TipoInv'
  <2>1. CASE Pregunta(j)
    BY <2>1, ConectaFsTipo, RespondeTipo, SePierdeTipo DEF Pregunta
  <2>2. CASE LeeNodos(j)
    BY <2>2, NodoConocidoTipo, NodoDesconocidoTipo, AgregaNodoTipo, CierraFsTipo DEF LeeNodos
  <2>3. CASE Reparte(j)
    BY <2>3, PlanificarTipo, TomaBloqueTipo, SumaCargaTipo, SiguienteListaTipo,
       TerminaRepartoTipo DEF Reparte
  <2>4. CASE Envia(j)
    BY <2>4, EnviaTareaTipo, RestaCargaTipo, TerminaRepartoTipo DEF Envia
  <2>5. CASE ReciboOkMap(j) \/ ReciboOkReduce(j)
    BY <2>5, ReciboOkTipo
  <2>6. CASE PideTotal(j)
    BY <2>6, PideTotalTipo
  <2>. QED
    BY <1>2, <2>1, <2>2, <2>3, <2>4, <2>5, <2>6 DEF Hilo
<1>. QED
  BY <1>1, <1>2 DEF Next

LEMMA TipoEsTypeOK == TipoInv => TypeOK
<1>. SUFFICES ASSUME TipoInv
              PROVE  TypeOK
  OBVIOUS
<1>1. lista_nodos \in Seq(Entrada) /\ DOMAIN lista_nodos = 1..Len(lista_nodos)
  BY DEF TipoInv, Tipos
<1>2. \A i \in DOMAIN lista_nodos :
       /\ {lista_nodos[i].nombre, lista_nodos[i].ip, lista_nodos[i].puerto} \subseteq Nombres
       /\ lista_nodos[i].pendientes \in Int
       /\ ToSet(lista_nodos[i].bloques) \subseteq Nat
  <2>. TAKE i \in DOMAIN lista_nodos
  <2>1. lista_nodos[i] \in Entrada
    BY <1>1
  <2>2. lista_nodos[i].bloques \in Seq(Nat)
    BY <2>1 DEF Entrada
  <2>3. ToSet(lista_nodos[i].bloques) \subseteq Nat
    BY <2>2 DEF ToSet
  <2>. QED
    BY <2>1, <2>3 DEF Entrada
<1>3. \A j \in Job : ToSet(enviados[j]) \subseteq Tarea
  <2>. TAKE j \in Job
  <2>1. enviados[j] \in Seq(Tarea)
    BY DEF TipoInv, Tipos
  <2>. QED
    BY <2>1 DEF ToSet
<1>4. hilo \in [Job -> {"inicio", "pregunta", "busca", "agrega", "ordena", "reparte", "suma",
                       "sigue", "envia", "resta", "trabaja", "fin", "perdido"}]
  BY DEF TipoInv, Tipos, Antes, Reparto, Despues
<1>5. /\ socket_fs \in Job \cup {Nadie} /\ solapo \in BOOLEAN
      /\ caida \in {"no", "prof", "nodo", "entrada", "lectura"}
      /\ \A j \in Job : faltan[j] \in Nat /\ Len(resto[j]) >= 3 * faltan[j]
  BY DEF TipoInv, Tipos, Alcanza
<1>. QED
  BY <1>2, <1>3, <1>4, <1>5 DEF TypeOK

(* The planner's state always has its type, and what is left to read of an *)
(* answer is never less than what a thread still expects there: three      *)
(* names for each node it has not read.                                    *)
THEOREM TiposDelPlan == Spec => []TypeOK
BY TipoInit, TipoStep, TipoEsTypeOK, PTL DEF Spec
-----------------------------------------------------------------------------
(* The address and port of each node.                                      *)

Paso(j) == Hilo(j) \/ ReciboOkMap(j) \/ ReciboOkReduce(j) \/ PideTotal(j)

(* Only AgregaNodo changes names, addresses or ports.                      *)
MismasEntradas ==
  /\ Len(lista_nodos') = Len(lista_nodos)
  /\ \A i \in 1..Len(lista_nodos) : /\ lista_nodos'[i].nombre = lista_nodos[i].nombre
                                    /\ lista_nodos'[i].ip = lista_nodos[i].ip
                                    /\ lista_nodos'[i].puerto = lista_nodos[i].puerto

LEMMA UnaEntrada ==
  ASSUME TipoInv, NEW i \in 1..Len(lista_nodos), NEW e \in Entrada,
         e.nombre = lista_nodos[i].nombre, e.ip = lista_nodos[i].ip, e.puerto = lista_nodos[i].puerto,
         lista_nodos' = [lista_nodos EXCEPT ![i] = e]
  PROVE  MismasEntradas
BY CambiaEntrada DEF TipoInv, MismasEntradas

LEMMA PasoEntradas ==
  ASSUME TipoInv, NEW j \in Job, Paso(j), ~AgregaNodo(j)
  PROVE  MismasEntradas
<1>0. lista_nodos \in Seq(Entrada) /\ (lista_nodos' = lista_nodos => MismasEntradas)
  BY DEF TipoInv, Tipos, MismasEntradas
<1>1. CASE TomaBloque(j)
  <2>. DEFINE i == BuscarNodo(ListaEn(j).nodo)
  <2>1. CASE i = 0
    BY <1>0, <1>1, <2>1, TomaBloqueHace
  <2>2. CASE i # 0
    <3>1. /\ i \in 1..Len(lista_nodos) /\ TareaNueva(j) \in Tarea
          /\ lista_nodos' = [lista_nodos EXCEPT ![i] =
               ConBloques(i, Append(lista_nodos[i].bloques, TareaNueva(j).enNodo))]
      BY <1>1, <2>2, TomaBloqueHace
    <3>. HIDE DEF i
    <3>2. lista_nodos[i].bloques \in Seq(Nat) /\ TareaNueva(j).enNodo \in Nat
      <4>1. lista_nodos[i] \in Entrada
        BY <1>0, <3>1
      <4>. QED
        BY <3>1, <4>1 DEF Entrada, Tarea
    <3>3. Append(lista_nodos[i].bloques, TareaNueva(j).enNodo) \in Seq(Nat)
      BY <3>2
    <3>. QED
      BY <3>1, <3>3, ConBloquesEs, UnaEntrada DEF TipoInv
  <2>. QED
    BY <2>1, <2>2
<1>2. CASE SumaCarga(j)
  BY <1>2, SumaCargaHace, ConCargaEs, UnaEntrada DEF TipoInv
<1>3. CASE RestaCarga(j)
  BY <1>3, RestaCargaHace, ConCargaEs, UnaEntrada, SMTT(30) DEF TipoInv
<1>4. CASE EnviaTarea(j)
  BY <1>0, <1>4, EnviaTareaHace
<1>5. CASE ReciboOkMap(j) \/ ReciboOkReduce(j)
  <2>1. PICK p \in 1..Len(enviados[j]), x \in 2..3, bs \in Seq(Nat) : Recibido(j, p, x, bs)
    BY <1>5, ReciboOkHace
  <2>. DEFINE i == BuscarNodo(enviados[j][p].nodo)
  <2>2. i \in 1..Len(lista_nodos) /\ lista_nodos' = [lista_nodos EXCEPT ![i] = ConBloques(i, bs)]
    BY <2>1 DEF Recibido
  <2>. HIDE DEF i
  <2>. QED
    BY <2>2, ConBloquesEs, UnaEntrada DEF TipoInv
<1>6. CASE Pregunta(j)
  BY <1>0, <1>6 DEF Pregunta, ConectaFs, Responde, SePierde
<1>7. CASE NodoConocido(j) \/ NodoDesconocido(j) \/ CierraFs(j)
  BY <1>0, <1>7 DEF NodoConocido, NodoDesconocido, CierraFs
<1>8. CASE Planificar(j) \/ SiguienteLista(j) \/ TerminaReparto(j) \/ PrimerMas(j) \/ PideTotal(j)
  BY <1>0, <1>8 DEF Planificar, SiguienteLista, TerminaReparto, PrimerMas, PideTotal
<1>. QED
  BY <1>1, <1>2, <1>3, <1>4, <1>5, <1>6, <1>7, <1>8 DEF Paso, Hilo, LeeNodos, Reparte, Envia

(* What is left of an answer changes only as it is read.                   *)
LEMMA PasoResto ==
  ASSUME TipoInv, NEW j \in Job, Paso(j), ~AgregaNodo(j), ~NodoConocido(j), ~Responde(j)
  PROVE  resto' = resto
<1>1. CASE TomaBloque(j)
  BY <1>1, TomaBloqueHace DEF lectura
<1>2. CASE SumaCarga(j)
  BY <1>2 DEF SumaCarga, lectura
<1>3. CASE RestaCarga(j)
  BY <1>3 DEF RestaCarga, lectura
<1>4. CASE EnviaTarea(j)
  BY <1>4, EnviaTareaHace DEF lectura
<1>5. CASE ReciboOkMap(j) \/ ReciboOkReduce(j)
  BY <1>5 DEF ReciboOkMap, ReciboOkReduce, lectura
<1>6. CASE ConectaFs(j) \/ SePierde(j) \/ NodoDesconocido(j) \/ CierraFs(j)
  BY <1>6 DEF ConectaFs, SePierde, NodoDesconocido, CierraFs, lectura
<1>8. CASE Planificar(j) \/ SiguienteLista(j) \/ TerminaReparto(j) \/ PrimerMas(j) \/ PideTotal(j)
  BY <1>8 DEF Planificar, SiguienteLista, TerminaReparto, PrimerMas, PideTotal, lectura
<1>. QED
  BY <1>1, <1>2, <1>3, <1>4, <1>5, <1>6, <1>8 DEF Paso, Hilo, Pregunta, LeeNodos, Reparte, Envia

Restos == \A j \in Job : Alineado(resto[j])

LEMMA RestosStep == TipoInv /\ Restos /\ [Next]_vars => Restos'
<1>. SUFFICES ASSUME TipoInv, Restos, [Next]_vars
              PROVE  Restos'
  OBVIOUS
<1>0. resto \in [Job -> Seq(Nombres)]
  BY DEF TipoInv, Tipos
<1>1. resto' = resto => Restos'
  BY DEF Restos, Alineado
<1>2. ASSUME NEW j \in Job, NEW r, Alineado(r), resto' = [resto EXCEPT ![j] = r]
      PROVE  Restos'
  <2>1. \A k \in Job : resto'[k] = IF k = j THEN r ELSE resto[k]
    BY <1>0, <1>2
  <2>. QED
    BY <1>2, <2>1 DEF Restos, Alineado
<1>3. ASSUME NEW j \in Job, Responde(j)
      PROVE  Restos'
  <2>1. resto' = [resto EXCEPT ![j] = IF DiceNo(Pedidos(j)) THEN <<>> ELSE Texto(NodosDe(Pedidos(j)))]
    BY <1>3, RespondeDice
  <2>2. DiceNo(Pedidos(j)) \/ SeLee(Pedidos(j))
    BY <1>3 DEF Responde
  <2>3. CASE DiceNo(Pedidos(j))
    <3>1. Alineado(<<>>)
      BY DEF Alineado
    <3>. QED
      BY <1>2, <2>1, <2>3, <3>1
  <2>4. CASE ~DiceNo(Pedidos(j))
    <3>1. Pedidos(j) \in Seq(Seq(Seq(CopiaDe)))
      BY <2>2, <2>4, PedidosSon DEF DeRespuesta
    <3>2. Alineado(Texto(NodosDe(Pedidos(j))))
      BY <3>1, NodosDeEs, TextoEs
    <3>. QED
      BY <1>2, <2>1, <2>4, <3>2
  <2>. QED
    BY <2>3, <2>4
<1>4. ASSUME NEW j \in Job, NEW k \in {1, 3}, faltan[j] > 0,
             resto' = [resto EXCEPT ![j] = SubSeq(resto[j], k + 1, Len(resto[j]))]
      PROVE  Restos'
  <2>1. resto[j] \in Seq(Nombres) /\ Alineado(resto[j]) /\ faltan[j] \in Nat
        /\ Len(resto[j]) >= 3 * faltan[j]
    BY DEF TipoInv, Tipos, Alcanza, Restos
  <2>2. k \in 0..Len(resto[j])
    BY <1>4, <2>1
  <2>3. Alineado(SubSeq(resto[j], k + 1, Len(resto[j])))
    BY <2>1, <2>2, RestoAlineado
  <2>. QED
    BY <1>2, <1>4, <2>3
<1>5. ASSUME NEW j \in Job, NodoConocido(j)
      PROVE  Restos'
  BY <1>4, <1>5 DEF NodoConocido, Avanza
<1>6. ASSUME NEW j \in Job, AgregaNodo(j)
      PROVE  Restos'
  <2>1. faltan[j] > 0
    BY <1>6 DEF AgregaNodo, Pasa, TipoInv, Alcanza
  <2>. QED
    BY <1>4, <1>6, <2>1 DEF AgregaNodo, Avanza
<1>7. CASE UNCHANGED vars
  BY <1>1, <1>7 DEF vars
<1>8. ASSUME NEW j \in Job, Paso(j)
      PROVE  Restos'
  BY <1>1, <1>3, <1>5, <1>6, <1>8, PasoResto
<1>. QED
  BY <1>7, <1>8 DEF Next, Paso

LEMMA DireccionStep == TipoInv /\ Restos /\ DireccionReal /\ [Next]_vars => DireccionReal'
<1>. SUFFICES ASSUME TipoInv, Restos, DireccionReal, [Next]_vars
              PROVE  DireccionReal'
  OBVIOUS
<1>0. lista_nodos \in Seq(Entrada) /\ lista_nodos' \in Seq(Entrada)
  BY TipoStep DEF TipoInv, Tipos
<1>1. MismasEntradas => DireccionReal'
  BY <1>0 DEF MismasEntradas, DireccionReal
<1>2. CASE UNCHANGED vars
  BY <1>0, <1>1, <1>2 DEF vars, MismasEntradas
<1>3. ASSUME NEW j \in Job, AgregaNodo(j)
      PROVE  DireccionReal'
  <2>. DEFINE e == NodoLeido(resto[j])
              r == resto[j]
  <2>1. /\ r \in Seq(Nombres) /\ Alineado(r) /\ Len(r) >= 3
    <3>1. faltan[j] > 0 /\ faltan[j] \in Nat /\ Len(r) >= 3 * faltan[j] /\ r \in Seq(Nombres)
      BY <1>3 DEF AgregaNodo, Pasa, TipoInv, Tipos, Alcanza
    <3>2. Len(r) >= 3
      BY <3>1
    <3>. QED
      BY <3>1, <3>2 DEF Restos
  <2>2. e.nombre = r[1] /\ e.ip = r[2] /\ e.puerto = r[3]
    BY DEF NodoLeido, NodoNuevo
  <2>3. lista_nodos' = Append(lista_nodos, e)
    BY <1>3 DEF AgregaNodo
  <2>. HIDE DEF e, r
  <2>4. r[1] \in Nodo => r[1 + 1] = Ip[r[1]] /\ r[1 + 2] = Puerto[r[1]]
    <3>1. 1 \in 1..Len(r)
      BY <2>1
    <3>. QED
      BY <2>1, <3>1 DEF Alineado
  <2>5. e.nombre \in Nodo => e.ip = Ip[e.nombre] /\ e.puerto = Puerto[e.nombre]
    BY <2>2, <2>4
  <2>6. \A i \in DOMAIN lista_nodos' :
          (i \in DOMAIN lista_nodos /\ lista_nodos'[i] = lista_nodos[i]) \/ lista_nodos'[i] = e
    BY <1>0, <2>3
  <2>. QED
    BY <2>5, <2>6 DEF DireccionReal
<1>4. ASSUME NEW j \in Job, Paso(j)
      PROVE  DireccionReal'
  BY <1>1, <1>3, <1>4, PasoEntradas
<1>. QED
  BY <1>2, <1>4 DEF Next, Paso

LEMMA DireccionInit == Init => Restos /\ DireccionReal
<1>. SUFFICES ASSUME Init
              PROVE  Restos /\ DireccionReal
  OBVIOUS
<1>1. PICK c \in Casos :
        lista_nodos = [i \in DOMAIN c.nodos |->
                         NodoNuevo(c.nodos[i], Ip[c.nodos[i]], Puerto[c.nodos[i]])]
  BY DEF Init
<1>2. DireccionReal
  BY <1>1 DEF DireccionReal, NodoNuevo
<1>3. Restos
  BY DEF Init, Restos, Alineado
<1>. QED
  BY <1>2, <1>3

(* An entry that bears the name of a node has that node's address and port,*)
(* although a known node puts the reading of the answer out of step: a     *)
(* name that is read is followed by its own address and port wherever the  *)
(* reading starts.                                                         *)
THEOREM DireccionSiempreReal == Spec => []DireccionReal
BY TipoInit, TipoStep, DireccionInit, RestosStep, DireccionStep, PTL DEF Spec
-----------------------------------------------------------------------------
(* The load of each node.                                                  *)

(* The tasks of a Job that were chosen for a node and not sent, and the    *)
(* threads that are changing the load of an entry.                         *)
Pen(env, n) == {p \in 1..Len(env) : env[p].nodo = n /\ env[p].estado = 0}
En(h, le, paso, i) == {j \in Job : h[j] = paso /\ le[j].nodo = i}
PorEnviarDe(env, n) == [j \in Job |-> Cardinality(Pen(env[j], n))]
Carga(env, h, le, n, i) ==
  SumFunctionOnSet(PorEnviarDe(env, n), Job)
    - Cardinality(En(h, le, "suma", i)) + Cardinality(En(h, le, "resta", i))
Cambia == {"suma", "resta"}

(* While no two threads changed one load together: no two are at one entry,*)
(* the load a thread read is still there, and each load is what the tasks  *)
(* say.  The entry a thread changes is the first of its name.              *)
Sola ==
  ~solapo =>
    /\ \A j, k \in Job : j # k /\ hilo[j] \in Cambia /\ hilo[k] \in Cambia =>
         leida[j].nodo # leida[k].nodo
    /\ \A j \in Job : hilo[j] \in Cambia => leida[j].carga = lista_nodos[leida[j].nodo].pendientes
Suya ==
  \A j \in Job : hilo[j] \in Cambia =>
    Primero(lista_nodos, lista_nodos[leida[j].nodo].nombre) = leida[j].nodo
Exacta ==
  ~solapo => \A i \in 1..Len(lista_nodos) : Primero(lista_nodos, lista_nodos[i].nombre) = i =>
    lista_nodos[i].pendientes = Carga(enviados, hilo, leida, lista_nodos[i].nombre, i)
CargaInv == Sola /\ Suya /\ Exacta

LEMMA PenFinito ==
  ASSUME NEW env \in Seq(Tarea), NEW n
  PROVE  IsFiniteSet(Pen(env, n)) /\ Cardinality(Pen(env, n)) \in Nat
<1>1. Len(env) \in Nat /\ Pen(env, n) \subseteq 1..Len(env)
  BY DEF Pen
<1>2. IsFiniteSet(1..Len(env))
  BY <1>1, FS_Interval
<1>. QED
  BY <1>1, <1>2, FS_Subset, FS_CardinalityType

LEMMA EnFinito ==
  ASSUME NEW h, NEW le, NEW paso, NEW i
  PROVE  IsFiniteSet(En(h, le, paso, i)) /\ Cardinality(En(h, le, paso, i)) \in Nat
<1>1. En(h, le, paso, i) \subseteq Job /\ IsFiniteSet(Job)
  BY PlanificadorAssumption DEF En
<1>. QED
  BY <1>1, FS_Subset, FS_CardinalityType

(* A task more, and a task that is sent.                                   *)
LEMMA PenAgrega ==
  ASSUME NEW env \in Seq(Tarea), NEW e \in Tarea, e.estado = 0, NEW n
  PROVE  Cardinality(Pen(Append(env, e), n)) =
           Cardinality(Pen(env, n)) + (IF n = e.nodo THEN 1 ELSE 0)
<1>. DEFINE A == Append(env, e)
            L == Len(env)
<1>1. /\ L \in Nat /\ Len(A) = L + 1 /\ A[L + 1] = e
      /\ \A p \in 1..L : A[p] = env[p]
  OBVIOUS
<1>. HIDE DEF A
<1>2. n = e.nodo => Pen(A, n) = Pen(env, n) \cup {L + 1} /\ L + 1 \notin Pen(env, n)
  BY <1>1 DEF Pen
<1>3. n # e.nodo => Pen(A, n) = Pen(env, n)
  BY <1>1 DEF Pen
<1>4. IsFiniteSet(Pen(env, n)) /\ Cardinality(Pen(env, n)) \in Nat
  BY PenFinito
<1>5. n = e.nodo => Cardinality(Pen(A, n)) = Cardinality(Pen(env, n)) + 1
  BY <1>2, <1>4, FS_AddElement
<1>. QED
  BY <1>3, <1>4, <1>5 DEF A

LEMMA PenCambia ==
  ASSUME NEW env \in Seq(Tarea), NEW otro \in Seq(Tarea), NEW p \in 1..Len(env),
         Len(otro) = Len(env),
         \A q \in 1..Len(env) : otro[q].nodo = env[q].nodo,
         \A q \in 1..Len(env) : q # p => otro[q].estado = env[q].estado,
         otro[p].estado # 0, NEW n
  PROVE  Cardinality(Pen(otro, n)) =
           Cardinality(Pen(env, n)) - (IF env[p].estado = 0 /\ n = env[p].nodo THEN 1 ELSE 0)
<1>1. IsFiniteSet(Pen(env, n)) /\ Cardinality(Pen(env, n)) \in Nat
  BY PenFinito
<1>2. CASE env[p].estado = 0 /\ n = env[p].nodo
  <2>1. Pen(otro, n) = Pen(env, n) \ {p} /\ p \in Pen(env, n)
    BY <1>2 DEF Pen
  <2>2. Cardinality(Pen(otro, n)) = Cardinality(Pen(env, n)) - 1
    BY <1>1, <2>1, FS_RemoveElement
  <2>. QED
    BY <1>2, <2>2
<1>3. CASE ~(env[p].estado = 0 /\ n = env[p].nodo)
  <2>1. Pen(otro, n) = Pen(env, n)
    BY <1>3 DEF Pen
  <2>. QED
    BY <1>1, <1>3, <2>1
<1>. QED
  BY <1>2, <1>3

(* A thread more at an entry, and a thread less.                           *)
LEMMA EnEntra ==
  ASSUME NEW j \in Job, NEW s \in Cambia, hilo[j] \notin Cambia, hilo'[j] = s,
         \A k \in Job : k # j => hilo'[k] = hilo[k] /\ leida'[k] = leida[k]
  PROVE  \A t \in Cambia : \A i : Cardinality(En(hilo', leida', t, i)) =
           Cardinality(En(hilo, leida, t, i)) + (IF t = s /\ i = leida'[j].nodo THEN 1 ELSE 0)
<1>. SUFFICES ASSUME NEW t \in Cambia, NEW i
              PROVE  Cardinality(En(hilo', leida', t, i)) =
                       Cardinality(En(hilo, leida, t, i)) + (IF t = s /\ i = leida'[j].nodo THEN 1 ELSE 0)
  OBVIOUS
<1>1. j \notin En(hilo, leida, t, i)
  BY DEF En
<1>2. IsFiniteSet(En(hilo, leida, t, i)) /\ Cardinality(En(hilo, leida, t, i)) \in Nat
  BY EnFinito
<1>3. CASE t = s /\ i = leida'[j].nodo
  <2>1. En(hilo', leida', t, i) = En(hilo, leida, t, i) \cup {j}
    BY <1>3 DEF En
  <2>2. Cardinality(En(hilo', leida', t, i)) = Cardinality(En(hilo, leida, t, i)) + 1
    BY <1>1, <1>2, <2>1, FS_AddElement
  <2>. QED
    BY <1>3, <2>2
<1>4. CASE ~(t = s /\ i = leida'[j].nodo)
  <2>1. En(hilo', leida', t, i) = En(hilo, leida, t, i)
    BY <1>1, <1>4 DEF En
  <2>. QED
    BY <1>2, <1>4, <2>1
<1>. QED
  BY <1>3, <1>4

LEMMA EnSale ==
  ASSUME NEW j \in Job, NEW s \in Cambia, hilo[j] = s, hilo'[j] \notin Cambia,
         \A k \in Job : k # j => hilo'[k] = hilo[k]
  PROVE  \A t \in Cambia : \A i : Cardinality(En(hilo', leida, t, i)) =
           Cardinality(En(hilo, leida, t, i)) - (IF t = s /\ i = leida[j].nodo THEN 1 ELSE 0)
<1>. SUFFICES ASSUME NEW t \in Cambia, NEW i
              PROVE  Cardinality(En(hilo', leida, t, i)) =
                       Cardinality(En(hilo, leida, t, i)) - (IF t = s /\ i = leida[j].nodo THEN 1 ELSE 0)
  OBVIOUS
<1>2. IsFiniteSet(En(hilo, leida, t, i)) /\ Cardinality(En(hilo, leida, t, i)) \in Nat
  BY EnFinito
<1>3. CASE t = s /\ i = leida[j].nodo
  <2>1. En(hilo', leida, t, i) = En(hilo, leida, t, i) \ {j} /\ j \in En(hilo, leida, t, i)
    BY <1>3 DEF En
  <2>2. Cardinality(En(hilo', leida, t, i)) = Cardinality(En(hilo, leida, t, i)) - 1
    BY <1>2, <2>1, FS_RemoveElement
  <2>. QED
    BY <1>3, <2>2
<1>4. CASE ~(t = s /\ i = leida[j].nodo)
  <2>1. En(hilo', leida, t, i) = En(hilo, leida, t, i)
    BY <1>4 DEF En
  <2>. QED
    BY <1>2, <1>4, <2>1
<1>. QED
  BY <1>3, <1>4

(* The sum over the Jobs when the tasks of one of them change.             *)
LEMMA SumaDeUno ==
  ASSUME NEW env \in [Job -> Seq(Tarea)], NEW otro \in [Job -> Seq(Tarea)], NEW j \in Job,
         \A k \in Job : k # j => otro[k] = env[k]
  PROVE  \A n :
           /\ SumFunctionOnSet(PorEnviarDe(env, n), Job) \in Int
           /\ SumFunctionOnSet(PorEnviarDe(otro, n), Job) =
                SumFunctionOnSet(PorEnviarDe(env, n), Job)
                  + Cardinality(Pen(otro[j], n)) - Cardinality(Pen(env[j], n))
<1>. SUFFICES ASSUME NEW n
              PROVE  /\ SumFunctionOnSet(PorEnviarDe(env, n), Job) \in Int
                     /\ SumFunctionOnSet(PorEnviarDe(otro, n), Job) =
                          SumFunctionOnSet(PorEnviarDe(env, n), Job)
                            + Cardinality(Pen(otro[j], n)) - Cardinality(Pen(env[j], n))
  OBVIOUS
<1>. DEFINE f == PorEnviarDe(env, n)
            g == PorEnviarDe(otro, n)
<1>1. \A k \in Job : f[k] = Cardinality(Pen(env[k], n)) /\ g[k] = Cardinality(Pen(otro[k], n))
  BY DEF PorEnviarDe
<1>. HIDE DEF f, g
<1>2. \A k \in Job : f[k] \in Int /\ g[k] \in Int
  <2>1. \A k \in Job : env[k] \in Seq(Tarea) /\ otro[k] \in Seq(Tarea)
    OBVIOUS
  <2>. QED
    BY <1>1, <2>1, PenFinito
<1>3. \A k \in Job : k # j => g[k] = f[k]
  BY <1>1
<1>4. /\ SumFunctionOnSet(f, Job) \in Int
      /\ SumFunctionOnSet(g, Job) = SumFunctionOnSet(f, Job) + g[j] - f[j]
  BY <1>2, <1>3, SumaCambia, PlanificadorAssumption
<1>. QED
  BY <1>1, <1>4 DEF f, g

(* The same of a step.                                                     *)
LEMMA SumaAhora ==
  ASSUME NEW j \in Job,
         enviados \in [Job -> Seq(Tarea)], enviados' \in [Job -> Seq(Tarea)],
         \A k \in Job : k # j => enviados'[k] = enviados[k]
  PROVE  \A n :
           /\ SumFunctionOnSet(PorEnviarDe(enviados, n), Job) \in Int
           /\ SumFunctionOnSet(PorEnviarDe(enviados', n), Job) =
                SumFunctionOnSet(PorEnviarDe(enviados, n), Job)
                  + Cardinality(Pen(enviados'[j], n)) - Cardinality(Pen(enviados[j], n))
BY SumaDeUno

(* What the load of a node is counted from does not change.                *)
LEMMA CargaIgual ==
  ASSUME NEW env, NEW h, NEW le, NEW env1, NEW h1, NEW le1, NEW n, NEW i,
         \A k \in Job : Pen(env1[k], n) = Pen(env[k], n),
         \A k \in Job : h[k] \in Cambia \/ h1[k] \in Cambia => h1[k] = h[k] /\ le1[k] = le[k]
  PROVE  Carga(env1, h1, le1, n, i) = Carga(env, h, le, n, i)
<1>1. PorEnviarDe(env1, n) = PorEnviarDe(env, n)
  BY DEF PorEnviarDe
<1>2. En(h1, le1, "suma", i) = En(h, le, "suma", i) /\ En(h1, le1, "resta", i) = En(h, le, "resta", i)
  BY DEF En, Cambia
<1>. QED
  BY <1>1, <1>2 DEF Carga

LEMMA PrimeroIgual ==
  ASSUME MismasEntradas
  PROVE  \A n : Primero(lista_nodos', n) = Primero(lista_nodos, n)
<1>1. ASSUME NEW n
      PROVE  {k \in 1..Len(lista_nodos') : lista_nodos'[k].nombre = n}
               = {k \in 1..Len(lista_nodos) : lista_nodos[k].nombre = n}
  BY DEF MismasEntradas
<1>. QED
  BY <1>1 DEF Primero

(* A step that changes no load and no task that is to be sent.             *)
LEMMA CargaQuieta ==
  ASSUME TipoInv, CargaInv, MismasEntradas,
         \A i \in 1..Len(lista_nodos) : lista_nodos'[i].pendientes = lista_nodos[i].pendientes,
         \A k \in Job : \A n : Pen(enviados'[k], n) = Pen(enviados[k], n),
         \A k \in Job : hilo[k] \in Cambia \/ hilo'[k] \in Cambia => hilo'[k] = hilo[k],
         leida' = leida, solapo' = solapo
  PROVE  CargaInv'
<1>1. \A n : Primero(lista_nodos', n) = Primero(lista_nodos, n)
  BY PrimeroIgual
<1>2. \A n, i : Carga(enviados', hilo', leida', n, i) = Carga(enviados, hilo, leida, n, i)
  <2>1. \A k \in Job : hilo[k] \in Cambia \/ hilo'[k] \in Cambia =>
          hilo'[k] = hilo[k] /\ leida'[k] = leida[k]
    OBVIOUS
  <2>2. \A k \in Job : \A n : Pen(enviados'[k], n) = Pen(enviados[k], n)
    OBVIOUS
  <2>. QED
    BY <2>1, <2>2, CargaIgual
<1>3. \A k \in Job : hilo[k] \in Cambia => leida[k].nodo \in 1..Len(lista_nodos)
  BY DEF TipoInv, Alcanza, Cambia
<1>4. \A i \in 1..Len(lista_nodos) : lista_nodos'[i].nombre = lista_nodos[i].nombre
  BY DEF MismasEntradas
<1>5. Sola'
  BY <1>3 DEF CargaInv, Sola
<1>6. Suya'
  BY <1>1, <1>3, <1>4 DEF CargaInv, Suya
<1>7. Exacta'
  <2>. SUFFICES ASSUME ~solapo, NEW i \in 1..Len(lista_nodos'),
                       Primero(lista_nodos', lista_nodos'[i].nombre) = i
                PROVE  lista_nodos'[i].pendientes
                         = Carga(enviados', hilo', leida', lista_nodos'[i].nombre, i)
    BY DEF Exacta
  <2>1. i \in 1..Len(lista_nodos)
    BY DEF MismasEntradas
  <2>. QED
    BY <1>1, <1>2, <1>4, <2>1 DEF CargaInv, Exacta
<1>. QED
  BY <1>5, <1>6, <1>7 DEF CargaInv

(* The first entry of the name of an entry.                                *)
LEMMA SuPrimero ==
  ASSUME Tipos, NEW i \in 1..Len(lista_nodos), NEW n, Primero(lista_nodos, n) = i
  PROVE  lista_nodos[i].nombre = n
<1>1. lista_nodos \in Seq(Entrada) /\ i # 0
  BY DEF Tipos
<1>. QED
  BY <1>1, PrimeroEs

LEMMA CargaEntera ==
  ASSUME Tipos
  PROVE  \A n, i : Carga(enviados, hilo, leida, n, i) \in Int
<1>. SUFFICES ASSUME NEW n, NEW i
              PROVE  Carga(enviados, hilo, leida, n, i) \in Int
  OBVIOUS
<1>1. CASE Job = {}
  <2>1. \A x \in Job : PorEnviarDe(enviados, n)[x] = 0
    BY <1>1
  <2>2. SumFunctionOnSet(PorEnviarDe(enviados, n), Job) = 0
    BY <2>1, SumaNula, PlanificadorAssumption
  <2>. QED
    BY <2>2, EnFinito DEF Carga
<1>2. CASE Job # {}
  <2>1. PICK j \in Job : TRUE
    BY <1>2
  <2>2. enviados \in [Job -> Seq(Tarea)]
    BY DEF Tipos
  <2>3. SumFunctionOnSet(PorEnviarDe(enviados, n), Job) \in Int
    BY <2>1, <2>2, SumaDeUno
  <2>. QED
    BY <2>3, EnFinito DEF Carga
<1>. QED
  BY <1>1, <1>2

(* The thread of j, which has a task more or a task less to send at n,     *)
(* reads the load of n's entry to change it.                               *)
Entra(j, s, n, i) ==
  /\ \A k \in 1..Len(lista_nodos) : lista_nodos'[k].pendientes = lista_nodos[k].pendientes
  /\ Primero(lista_nodos, n) = i
  /\ hilo[j] \notin Cambia /\ hilo' = [hilo EXCEPT ![j] = s]
  /\ leida' = [leida EXCEPT ![j] = [nodo |-> i, carga |-> lista_nodos[i].pendientes]]
  /\ solapo' = (solapo \/ Cambian(i) # {})
  /\ \A k \in Job : k # j => enviados'[k] = enviados[k]
  /\ \A m : Cardinality(Pen(enviados'[j], m)) = Cardinality(Pen(enviados[j], m))
              + (IF m = n THEN (IF s = "suma" THEN 1 ELSE -1) ELSE 0)

LEMMA CargaEntra ==
  ASSUME TipoInv, TipoInv', CargaInv, MismasEntradas,
         NEW j \in Job, NEW s \in Cambia, NEW n, NEW i \in 1..Len(lista_nodos), Entra(j, s, n, i)
  PROVE  CargaInv'
<1>0. /\ \A k \in 1..Len(lista_nodos) : lista_nodos'[k].pendientes = lista_nodos[k].pendientes
      /\ Primero(lista_nodos, n) = i
      /\ hilo[j] \notin Cambia /\ hilo' = [hilo EXCEPT ![j] = s]
      /\ leida' = [leida EXCEPT ![j] = [nodo |-> i, carga |-> lista_nodos[i].pendientes]]
      /\ solapo' = (solapo \/ Cambian(i) # {})
      /\ \A k \in Job : k # j => enviados'[k] = enviados[k]
      /\ \A m : Cardinality(Pen(enviados'[j], m)) = Cardinality(Pen(enviados[j], m))
                  + (IF m = n THEN (IF s = "suma" THEN 1 ELSE -1) ELSE 0)
  BY DEF Entra
<1>1. \A m : Primero(lista_nodos', m) = Primero(lista_nodos, m)
  BY PrimeroIgual
<1>2. \A k \in Job : hilo[k] \in Cambia => leida[k].nodo \in 1..Len(lista_nodos)
  BY DEF TipoInv, Alcanza, Cambia
<1>3. \A k \in 1..Len(lista_nodos) : lista_nodos'[k].nombre = lista_nodos[k].nombre
  BY DEF MismasEntradas
<1>4. lista_nodos[i].nombre = n
  BY <1>0, SuPrimero DEF TipoInv
<1>5. /\ hilo \in [Job -> Antes \cup Reparto \cup Despues \cup {"perdido"}]
      /\ leida \in [Job -> [nodo : Nat, carga : Int]]
  BY DEF TipoInv, Tipos
<1>6. /\ leida'[j].nodo = i /\ leida'[j].carga = lista_nodos[i].pendientes /\ hilo'[j] = s
      /\ \A k \in Job : k # j => hilo'[k] = hilo[k] /\ leida'[k] = leida[k]
  BY <1>0, <1>5
<1>7. ~solapo' => ~solapo /\ \A k \in Job : hilo[k] \in Cambia => leida[k].nodo # i
  BY <1>0 DEF Cambian, Cambia
<1>8. Sola'
  <2>. SUFFICES ASSUME ~solapo'
                PROVE  /\ \A k, l \in Job : k # l /\ hilo'[k] \in Cambia /\ hilo'[l] \in Cambia =>
                            leida'[k].nodo # leida'[l].nodo
                       /\ \A k \in Job : hilo'[k] \in Cambia =>
                            leida'[k].carga = lista_nodos'[leida'[k].nodo].pendientes
    BY DEF Sola
  <2>1. ASSUME NEW k \in Job, hilo'[k] \in Cambia
        PROVE  leida'[k].carga = lista_nodos'[leida'[k].nodo].pendientes
    <3>1. CASE k = j
      BY <1>0, <1>6, <3>1
    <3>2. CASE k # j
      <4>1. leida[k].carga = lista_nodos[leida[k].nodo].pendientes /\ leida[k].nodo \in 1..Len(lista_nodos)
        BY <1>2, <1>6, <1>7, <2>1, <3>2 DEF CargaInv, Sola
      <4>. QED
        BY <1>0, <1>6, <3>2, <4>1
    <3>. QED
      BY <3>1, <3>2
  <2>2. ASSUME NEW k \in Job, NEW l \in Job, k # l, hilo'[k] \in Cambia, hilo'[l] \in Cambia
        PROVE  leida'[k].nodo # leida'[l].nodo
    BY <1>6, <1>7, <2>2 DEF CargaInv, Sola
  <2>. QED
    BY <2>1, <2>2
<1>9. Suya'
  <2>. SUFFICES ASSUME NEW k \in Job, hilo'[k] \in Cambia
                PROVE  Primero(lista_nodos', lista_nodos'[leida'[k].nodo].nombre) = leida'[k].nodo
    BY DEF Suya
  <2>1. CASE k = j
    BY <1>0, <1>1, <1>3, <1>4, <1>6, <2>1
  <2>2. CASE k # j
    <3>1. /\ Primero(lista_nodos, lista_nodos[leida[k].nodo].nombre) = leida[k].nodo
          /\ leida[k].nodo \in 1..Len(lista_nodos)
      BY <1>2, <1>6, <2>2 DEF CargaInv, Suya
    <3>. QED
      BY <1>1, <1>3, <1>6, <2>2, <3>1
  <2>. QED
    BY <2>1, <2>2
<1>10. Exacta'
  <2>. SUFFICES ASSUME ~solapo', NEW k \in 1..Len(lista_nodos'),
                       Primero(lista_nodos', lista_nodos'[k].nombre) = k
                PROVE  lista_nodos'[k].pendientes
                         = Carga(enviados', hilo', leida', lista_nodos'[k].nombre, k)
    BY DEF Exacta
  <2>. DEFINE m == lista_nodos[k].nombre
  <2>1. k \in 1..Len(lista_nodos)
    BY DEF MismasEntradas
  <2>2. lista_nodos'[k].nombre = m /\ lista_nodos'[k].pendientes = lista_nodos[k].pendientes
    BY <1>0, <1>3, <2>1
  <2>3. lista_nodos[k].pendientes = Carga(enviados, hilo, leida, m, k)
    BY <1>1, <1>7, <2>1, <2>2 DEF CargaInv, Exacta
  <2>4. m = n <=> k = i
    BY <1>0, <1>1, <1>4, <2>2
  <2>. HIDE DEF m
  <2>5. /\ SumFunctionOnSet(PorEnviarDe(enviados, m), Job) \in Int
        /\ SumFunctionOnSet(PorEnviarDe(enviados', m), Job) =
             SumFunctionOnSet(PorEnviarDe(enviados, m), Job)
               + Cardinality(Pen(enviados'[j], m)) - Cardinality(Pen(enviados[j], m))
    <3>1. /\ enviados \in [Job -> Seq(Tarea)] /\ enviados' \in [Job -> Seq(Tarea)]
          /\ \A q \in Job : q # j => enviados'[q] = enviados[q]
      BY <1>0 DEF TipoInv, Tipos
    <3>. QED
      BY <3>1, SumaAhora
  <2>6. Cardinality(Pen(enviados[j], m)) \in Nat
    <3>1. enviados[j] \in Seq(Tarea)
      BY DEF TipoInv, Tipos
    <3>. QED
      BY <3>1, PenFinito
  <2>7. /\ Cardinality(En(hilo', leida', "suma", k)) =
             Cardinality(En(hilo, leida, "suma", k)) + (IF "suma" = s /\ k = i THEN 1 ELSE 0)
        /\ Cardinality(En(hilo', leida', "resta", k)) =
             Cardinality(En(hilo, leida, "resta", k)) + (IF "resta" = s /\ k = i THEN 1 ELSE 0)
    <3>1. "suma" \in Cambia /\ "resta" \in Cambia
      BY DEF Cambia
    <3>2. \A t \in Cambia : \A q : Cardinality(En(hilo', leida', t, q)) =
            Cardinality(En(hilo, leida, t, q)) + (IF t = s /\ q = leida'[j].nodo THEN 1 ELSE 0)
      <4>1. /\ hilo[j] \notin Cambia /\ hilo'[j] = s
            /\ \A q \in Job : q # j => hilo'[q] = hilo[q] /\ leida'[q] = leida[q]
        BY <1>0, <1>6
      <4>. QED
        BY <4>1, EnEntra
    <3>3. leida'[j].nodo = i
      BY <1>6
    <3>4. \A t \in Cambia : Cardinality(En(hilo', leida', t, k)) =
            Cardinality(En(hilo, leida, t, k)) + (IF t = s /\ k = i THEN 1 ELSE 0)
      BY <3>2, <3>3
    <3>. QED
      BY <3>1, <3>4
  <2>8. /\ Cardinality(En(hilo, leida, "suma", k)) \in Nat
        /\ Cardinality(En(hilo, leida, "resta", k)) \in Nat
    BY EnFinito
  <2>9. s = "suma" \/ s = "resta"
    BY DEF Cambia
  <2>10. Carga(enviados', hilo', leida', m, k) = Carga(enviados, hilo, leida, m, k)
    <3>1. Cardinality(Pen(enviados'[j], m)) = Cardinality(Pen(enviados[j], m))
            + (IF k = i THEN (IF s = "suma" THEN 1 ELSE -1) ELSE 0)
      BY <1>0, <2>4
    <3>. DEFINE a == SumFunctionOnSet(PorEnviarDe(enviados, m), Job)
                a1 == SumFunctionOnSet(PorEnviarDe(enviados', m), Job)
                b == Cardinality(En(hilo, leida, "suma", k))
                b1 == Cardinality(En(hilo', leida', "suma", k))
                c == Cardinality(En(hilo, leida, "resta", k))
                c1 == Cardinality(En(hilo', leida', "resta", k))
    <3>2. a1 - b1 + c1 = a - b + c
      <4>. DEFINE x == Cardinality(Pen(enviados[j], m))
                  x1 == Cardinality(Pen(enviados'[j], m))
      <4>1. a1 = a + x1 - x /\ a \in Int /\ x \in Nat /\ b \in Nat /\ c \in Nat
        BY <2>5, <2>6, <2>8
      <4>2. x1 = x + (IF k = i THEN (IF s = "suma" THEN 1 ELSE -1) ELSE 0)
        BY <3>1
      <4>3. b1 = b + (IF "suma" = s /\ k = i THEN 1 ELSE 0)
        BY <2>7
      <4>4. c1 = c + (IF "resta" = s /\ k = i THEN 1 ELSE 0)
        BY <2>7
      <4>. HIDE DEF a, a1, b, b1, c, c1, x, x1
      <4>5. CASE k = i /\ s = "suma"
        BY <4>1, <4>2, <4>3, <4>4, <4>5
      <4>6. CASE k = i /\ s = "resta"
        BY <4>1, <4>2, <4>3, <4>4, <4>6
      <4>7. CASE k # i
        BY <4>1, <4>2, <4>3, <4>4, <4>7
      <4>. QED
        BY <2>9, <4>5, <4>6, <4>7
    <3>. QED
      BY <3>2 DEF Carga
  <2>. QED
    BY <2>2, <2>3, <2>10
<1>. QED
  BY <1>8, <1>9, <1>10 DEF CargaInv

(* A thread writes the load it read, and one.                              *)
LEMMA CargaSale ==
  ASSUME TipoInv, TipoInv', CargaInv, NEW j \in Job, NEW s \in Cambia,
         hilo[j] = s, NEW a, a \notin Cambia, hilo' = [hilo EXCEPT ![j] = a],
         NEW p \in Int, p = leida[j].carga + (IF s = "suma" THEN 1 ELSE -1),
         lista_nodos' = [lista_nodos EXCEPT ![leida[j].nodo] = ConCarga(leida[j].nodo, p)],
         leida' = leida, solapo' = solapo, enviados' = enviados
  PROVE  CargaInv'
<1>. DEFINE i == leida[j].nodo
<1>0. Tipos /\ Tipos'
  BY DEF TipoInv
<1>1. i \in 1..Len(lista_nodos)
  BY DEF TipoInv, Alcanza, Cambia
<1>2. /\ ConCarga(i, p) \in Entrada /\ ConCarga(i, p).nombre = lista_nodos[i].nombre
      /\ ConCarga(i, p).ip = lista_nodos[i].ip /\ ConCarga(i, p).puerto = lista_nodos[i].puerto
      /\ ConCarga(i, p).pendientes = p
  BY <1>0, <1>1, ConCargaEs
<1>. HIDE DEF i
<1>3. lista_nodos' = [lista_nodos EXCEPT ![i] = ConCarga(i, p)]
  BY DEF i
<1>4. /\ lista_nodos'[i].pendientes = p /\ Len(lista_nodos') = Len(lista_nodos)
      /\ \A k \in 1..Len(lista_nodos) : k # i => lista_nodos'[k] = lista_nodos[k]
      /\ \A k \in 1..Len(lista_nodos) : lista_nodos'[k].nombre = lista_nodos[k].nombre
  BY <1>0, <1>1, <1>2, <1>3, CambiaEntrada
<1>5. MismasEntradas
  BY <1>1, <1>2, <1>3, UnaEntrada
<1>6. \A m : Primero(lista_nodos', m) = Primero(lista_nodos, m)
  BY <1>5, PrimeroIgual
<1>7. \A k \in Job : hilo[k] \in Cambia => leida[k].nodo \in 1..Len(lista_nodos)
  BY DEF TipoInv, Alcanza, Cambia
<1>8. hilo'[j] = a /\ \A k \in Job : k # j => hilo'[k] = hilo[k]
  BY <1>0 DEF Tipos
<1>9. \A k \in Job : hilo'[k] \in Cambia => hilo[k] \in Cambia /\ k # j
  BY <1>8
<1>10. Sola'
  <2>. SUFFICES ASSUME ~solapo
                PROVE  /\ \A k, l \in Job : k # l /\ hilo'[k] \in Cambia /\ hilo'[l] \in Cambia =>
                            leida[k].nodo # leida[l].nodo
                       /\ \A k \in Job : hilo'[k] \in Cambia =>
                            leida[k].carga = lista_nodos'[leida[k].nodo].pendientes
    BY DEF Sola
  <2>1. ASSUME NEW k \in Job, hilo'[k] \in Cambia
        PROVE  leida[k].carga = lista_nodos'[leida[k].nodo].pendientes
    <3>1. hilo[k] \in Cambia /\ k # j /\ leida[k].nodo # i
      BY <1>9, <2>1 DEF CargaInv, Sola, i
    <3>2. leida[k].carga = lista_nodos[leida[k].nodo].pendientes
      BY <3>1 DEF CargaInv, Sola
    <3>. QED
      BY <1>4, <1>7, <3>1, <3>2
  <2>. QED
    BY <1>9, <2>1 DEF CargaInv, Sola
<1>11. Suya'
  <2>. SUFFICES ASSUME NEW k \in Job, hilo'[k] \in Cambia
                PROVE  Primero(lista_nodos', lista_nodos'[leida[k].nodo].nombre) = leida[k].nodo
    BY DEF Suya
  <2>1. Primero(lista_nodos, lista_nodos[leida[k].nodo].nombre) = leida[k].nodo
    BY <1>9 DEF CargaInv, Suya
  <2>. QED
    BY <1>4, <1>6, <1>7, <1>9, <2>1
<1>12. Exacta'
  <2>. SUFFICES ASSUME ~solapo, NEW k \in 1..Len(lista_nodos'),
                       Primero(lista_nodos', lista_nodos'[k].nombre) = k
                PROVE  lista_nodos'[k].pendientes
                         = Carga(enviados', hilo', leida', lista_nodos'[k].nombre, k)
    BY DEF Exacta
  <2>. DEFINE m == lista_nodos[k].nombre
  <2>1. k \in 1..Len(lista_nodos) /\ lista_nodos'[k].nombre = m
    BY <1>4
  <2>2. lista_nodos[k].pendientes = Carga(enviados, hilo, leida, m, k)
    BY <1>6, <2>1 DEF CargaInv, Exacta
  <2>. HIDE DEF m
  <2>3. lista_nodos'[k].pendientes =
          lista_nodos[k].pendientes + (IF k = i THEN (IF s = "suma" THEN 1 ELSE -1) ELSE 0)
    <3>1. leida[j].carga = lista_nodos[i].pendientes
      BY DEF CargaInv, Sola, i
    <3>2. lista_nodos[k].pendientes \in Int
      BY <1>0, <2>1, ConCargaEs
    <3>. QED
      BY <1>4, <2>1, <3>1, <3>2
  <2>4. /\ Cardinality(En(hilo', leida, "suma", k)) =
             Cardinality(En(hilo, leida, "suma", k)) - (IF "suma" = s /\ k = i THEN 1 ELSE 0)
        /\ Cardinality(En(hilo', leida, "resta", k)) =
             Cardinality(En(hilo, leida, "resta", k)) - (IF "resta" = s /\ k = i THEN 1 ELSE 0)
    <3>1. "suma" \in Cambia /\ "resta" \in Cambia
      BY DEF Cambia
    <3>2. \A t \in Cambia : \A q : Cardinality(En(hilo', leida, t, q)) =
            Cardinality(En(hilo, leida, t, q)) - (IF t = s /\ q = leida[j].nodo THEN 1 ELSE 0)
      <4>1. /\ hilo[j] = s /\ hilo'[j] \notin Cambia
            /\ \A q \in Job : q # j => hilo'[q] = hilo[q]
        BY <1>8
      <4>. QED
        BY <4>1, EnSale
    <3>. QED
      BY <3>1, <3>2 DEF i
  <2>5. /\ Cardinality(En(hilo, leida, "suma", k)) \in Nat
        /\ Cardinality(En(hilo, leida, "resta", k)) \in Nat
        /\ Carga(enviados, hilo, leida, m, k) \in Int
    BY <1>0, EnFinito, CargaEntera
  <2>6. s = "suma" \/ s = "resta"
    BY DEF Cambia
  <2>7. SumFunctionOnSet(PorEnviarDe(enviados, m), Job) \in Int
    <3>1. enviados \in [Job -> Seq(Tarea)]
      BY <1>0 DEF Tipos
    <3>. QED
      BY <3>1, SumaDeUno
  <2>8. Carga(enviados', hilo', leida', m, k) =
          Carga(enviados, hilo, leida, m, k) + (IF k = i THEN (IF s = "suma" THEN 1 ELSE -1) ELSE 0)
    <3>. DEFINE x == SumFunctionOnSet(PorEnviarDe(enviados, m), Job)
                b == Cardinality(En(hilo, leida, "suma", k))
                b1 == Cardinality(En(hilo', leida, "suma", k))
                c == Cardinality(En(hilo, leida, "resta", k))
                c1 == Cardinality(En(hilo', leida, "resta", k))
    <3>1. x \in Int /\ b \in Nat /\ c \in Nat
      BY <2>5, <2>7
    <3>2. b1 = b - (IF "suma" = s /\ k = i THEN 1 ELSE 0)
      BY <2>4
    <3>3. c1 = c - (IF "resta" = s /\ k = i THEN 1 ELSE 0)
      BY <2>4
    <3>. HIDE DEF x, b, b1, c, c1
    <3>4. x - b1 + c1 = (x - b + c) + (IF k = i THEN (IF s = "suma" THEN 1 ELSE -1) ELSE 0)
      <4>1. CASE s = "suma"
        BY <3>1, <3>2, <3>3, <4>1
      <4>2. CASE s = "resta"
        BY <3>1, <3>2, <3>3, <4>2
      <4>. QED
        BY <2>6, <4>1, <4>2
    <3>. QED
      BY <3>4 DEF Carga, x, b, b1, c, c1
  <2>. QED
    BY <2>1, <2>2, <2>3, <2>8
<1>. QED
  BY <1>10, <1>11, <1>12 DEF CargaInv

LEMMA CargaInitInv == Init => CargaInv
<1>. SUFFICES ASSUME Init
              PROVE  CargaInv
  OBVIOUS
<1>1. \A j \in Job : hilo[j] \notin Cambia
  BY DEF Init, Cambia
<1>2. Sola /\ Suya
  BY <1>1 DEF Sola, Suya
<1>3. Exacta
  <2>1. PICK c \in Casos :
          lista_nodos = [i \in DOMAIN c.nodos |->
                           NodoNuevo(c.nodos[i], Ip[c.nodos[i]], Puerto[c.nodos[i]])]
    BY DEF Init
  <2>2. c.nodos \in Seq(Nodo)
    BY PlanificadorAssumption
  <2>3. \A i \in 1..Len(lista_nodos) : lista_nodos[i].pendientes = 0
    BY <2>1, <2>2 DEF NodoNuevo
  <2>4. \A j \in Job : \A n : PorEnviarDe(enviados, n)[j] = 0
    <3>1. \A j \in Job : \A n : Pen(enviados[j], n) = {}
      BY DEF Init, Pen
    <3>. QED
      BY <3>1, FS_EmptySet DEF PorEnviarDe
  <2>5. \A n : SumFunctionOnSet(PorEnviarDe(enviados, n), Job) = 0
    BY <2>4, SumaNula, PlanificadorAssumption
  <2>6. \A i : En(hilo, leida, "suma", i) = {} /\ En(hilo, leida, "resta", i) = {}
    BY <1>1 DEF En, Cambia
  <2>7. \A n, i : Carga(enviados, hilo, leida, n, i) = 0
    BY <2>5, <2>6, FS_EmptySet DEF Carga
  <2>. QED
    BY <2>3, <2>7 DEF Exacta
<1>. QED
  BY <1>2, <1>3 DEF CargaInv

LEMMA TomaBloqueCarga ==
  ASSUME TipoInv, TipoInv', CargaInv, NEW j \in Job, TomaBloque(j)
  PROVE  CargaInv'
<1>. DEFINE i == BuscarNodo(ListaEn(j).nodo)
            e == TareaNueva(j)
<1>0. Tipos /\ lista_nodos \in Seq(Entrada) /\ enviados \in [Job -> Seq(Tarea)]
  BY DEF TipoInv, Tipos
<1>1. CASE i = 0
  <2>1. UNCHANGED <<hilo, lista_nodos, enviados, leida, solapo>>
    BY <1>1, TomaBloqueHace
  <2>2. MismasEntradas
    BY <1>0, <2>1 DEF MismasEntradas
  <2>. QED
    BY <2>1, <2>2, CargaQuieta
<1>2. CASE i # 0
  <2>1. /\ hilo[j] = "reparte" /\ i \in 1..Len(lista_nodos)
        /\ hilo' = [hilo EXCEPT ![j] = "suma"]
        /\ lista_nodos' = [lista_nodos EXCEPT ![i] =
             ConBloques(i, Append(lista_nodos[i].bloques, e.enNodo))]
        /\ e \in Tarea
        /\ enviados' = [enviados EXCEPT ![j] = Append(enviados[j], e)]
        /\ leida' = [leida EXCEPT ![j] = [nodo |-> i, carga |-> lista_nodos[i].pendientes]]
        /\ solapo' = (solapo \/ Cambian(i) # {})
    BY <1>2, TomaBloqueHace
  <2>2. e.nodo = ListaEn(j).nodo /\ e.estado = 0
    BY DEF TareaNueva
  <2>3. Primero(lista_nodos, e.nodo) = i
    BY <2>2, BuscarPrimero
  <2>. HIDE DEF i, e
  <2>4. Append(lista_nodos[i].bloques, e.enNodo) \in Seq(Nat)
    <3>1. lista_nodos[i].bloques \in Seq(Nat) /\ e.enNodo \in Nat
      <4>1. lista_nodos[i] \in Entrada
        BY <1>0, <2>1
      <4>. QED
        BY <2>1, <4>1 DEF Entrada, Tarea
    <3>. QED
      BY <3>1
  <2>. DEFINE c == ConBloques(i, Append(lista_nodos[i].bloques, e.enNodo))
  <2>5. /\ c \in Entrada /\ c.nombre = lista_nodos[i].nombre /\ c.ip = lista_nodos[i].ip
        /\ c.puerto = lista_nodos[i].puerto /\ c.pendientes = lista_nodos[i].pendientes
    BY <1>0, <2>1, <2>4, ConBloquesEs
  <2>6. lista_nodos' = [lista_nodos EXCEPT ![i] = c]
    BY <2>1
  <2>. HIDE DEF c
  <2>7. MismasEntradas
    BY <2>1, <2>5, <2>6, UnaEntrada
  <2>8. \A k \in 1..Len(lista_nodos) : lista_nodos'[k].pendientes = lista_nodos[k].pendientes
    BY <1>0, <2>1, <2>5, <2>6, CambiaEntrada
  <2>9. \A m : Cardinality(Pen(enviados'[j], m)) = Cardinality(Pen(enviados[j], m))
                 + (IF m = e.nodo THEN (IF "suma" = "suma" THEN 1 ELSE -1) ELSE 0)
    <3>1. enviados[j] \in Seq(Tarea) /\ enviados'[j] = Append(enviados[j], e)
      BY <1>0, <2>1
    <3>2. \A m : Cardinality(Pen(Append(enviados[j], e), m)) =
                   Cardinality(Pen(enviados[j], m)) + (IF m = e.nodo THEN 1 ELSE 0)
      BY <2>1, <2>2, <3>1, PenAgrega
    <3>. QED
      BY <3>1, <3>2
  <2>10. \A k \in Job : k # j => enviados'[k] = enviados[k]
    BY <1>0, <2>1
  <2>11. hilo[j] \notin Cambia /\ "suma" \in Cambia
    BY <2>1 DEF Cambia
  <2>12. Entra(j, "suma", e.nodo, i)
    BY <2>1, <2>3, <2>8, <2>9, <2>10, <2>11 DEF Entra
  <2>. QED
    BY <2>1, <2>7, <2>11, <2>12, CargaEntra
<1>. QED
  BY <1>1, <1>2

LEMMA EnviaTareaCarga ==
  ASSUME TipoInv, TipoInv', CargaInv, NEW j \in Job, EnviaTarea(j)
  PROVE  CargaInv'
<1>. DEFINE p == PorEnviar(j)
            n == enviados[j][p].nodo
            i == BuscarNodo(n)
<1>0. Tipos /\ lista_nodos \in Seq(Entrada) /\ enviados \in [Job -> Seq(Tarea)]
      /\ enviados' \in [Job -> Seq(Tarea)]
  BY DEF TipoInv, Tipos
<1>1. /\ hilo[j] = "envia" /\ p \in 1..Len(enviados[j]) /\ enviados[j][p].estado = 0
      /\ i \in 1..Len(lista_nodos) /\ lista_nodos' = lista_nodos
      /\ \/ UNCHANGED <<hilo, enviados, leida, solapo>>
         \/ /\ hilo' = [hilo EXCEPT ![j] = "resta"]
            /\ enviados' = [enviados EXCEPT ![j][p].estado = 1]
            /\ leida' = [leida EXCEPT ![j] = [nodo |-> i, carga |-> lista_nodos[i].pendientes]]
            /\ solapo' = (solapo \/ Cambian(i) # {})
  BY EnviaTareaHace
<1>2. Primero(lista_nodos, n) = i
  BY BuscarPrimero
<1>. HIDE DEF p, i
<1>3. MismasEntradas
  BY <1>0, <1>1 DEF MismasEntradas
<1>4. CASE UNCHANGED <<hilo, enviados, leida, solapo>>
  BY <1>1, <1>3, <1>4, CargaQuieta
<1>5. CASE /\ hilo' = [hilo EXCEPT ![j] = "resta"]
           /\ enviados' = [enviados EXCEPT ![j][p].estado = 1]
           /\ leida' = [leida EXCEPT ![j] = [nodo |-> i, carga |-> lista_nodos[i].pendientes]]
           /\ solapo' = (solapo \/ Cambian(i) # {})
  <2>1. /\ \A k \in Job : Len(enviados'[k]) = Len(enviados[k])
        /\ \A k \in Job : k # j => enviados'[k] = enviados[k]
        /\ \A q \in 1..Len(enviados[j]) : q # p => enviados'[j][q] = enviados[j][q]
        /\ enviados'[j][p].estado = 1
        /\ \A q \in 1..Len(enviados[j]) : enviados'[j][q].nodo = enviados[j][q].nodo
    <3>1. 1 \in 0..3 /\ enviados' = [enviados EXCEPT ![j][p].estado = 1]
      BY <1>5
    <3>2. EstadoCambia(j, p, 1)
      BY <1>0, <1>1, <3>1, EstadoCambiado
    <3>. QED
      BY <3>2 DEF EstadoCambia
  <2>2. \A m : Cardinality(Pen(enviados'[j], m)) = Cardinality(Pen(enviados[j], m))
                 - (IF enviados[j][p].estado = 0 /\ m = enviados[j][p].nodo THEN 1 ELSE 0)
    <3>1. /\ enviados[j] \in Seq(Tarea) /\ enviados'[j] \in Seq(Tarea)
          /\ enviados'[j][p].estado # 0 /\ Len(enviados'[j]) = Len(enviados[j])
          /\ \A q \in 1..Len(enviados[j]) : q # p => enviados'[j][q].estado = enviados[j][q].estado
      BY <1>0, <2>1
    <3>. QED
      BY <1>1, <2>1, <3>1, PenCambia
  <2>3. \A m : Cardinality(Pen(enviados[j], m)) \in Nat
    <3>1. enviados[j] \in Seq(Tarea)
      BY <1>0
    <3>. QED
      BY <3>1, PenFinito
  <2>4. \A m : Cardinality(Pen(enviados'[j], m)) = Cardinality(Pen(enviados[j], m))
                 + (IF m = n THEN (IF "resta" = "suma" THEN 1 ELSE -1) ELSE 0)
    BY <1>1, <2>2, <2>3
  <2>5. hilo[j] \notin Cambia /\ "resta" \in Cambia
    BY <1>1 DEF Cambia
  <2>6. \A k \in 1..Len(lista_nodos) : lista_nodos'[k].pendientes = lista_nodos[k].pendientes
    BY <1>1
  <2>. HIDE DEF n
  <2>7. Entra(j, "resta", n, i)
    BY <1>1, <1>2, <1>5, <2>1, <2>4, <2>5, <2>6 DEF Entra
  <2>. QED
    BY <1>1, <1>3, <2>5, <2>7, CargaEntra
<1>. QED
  BY <1>1, <1>4, <1>5

LEMMA ReciboOkCarga ==
  ASSUME TipoInv, TipoInv', CargaInv, NEW j \in Job, ReciboOkMap(j) \/ ReciboOkReduce(j)
  PROVE  CargaInv'
<1>1. PICK p \in 1..Len(enviados[j]), x \in 2..3, bs \in Seq(Nat) : Recibido(j, p, x, bs)
  BY ReciboOkHace
<1>. DEFINE i == BuscarNodo(enviados[j][p].nodo)
<1>0. Tipos /\ lista_nodos \in Seq(Entrada) /\ enviados \in [Job -> Seq(Tarea)]
      /\ enviados' \in [Job -> Seq(Tarea)]
  BY DEF TipoInv, Tipos
<1>2. /\ hilo' = hilo /\ leida' = leida /\ solapo' = solapo
      /\ enviados[j][p].estado \in 1..2
      /\ enviados' = [enviados EXCEPT ![j][p].estado = x]
      /\ i \in 1..Len(lista_nodos) /\ lista_nodos' = [lista_nodos EXCEPT ![i] = ConBloques(i, bs)]
  BY <1>1 DEF Recibido
<1>. HIDE DEF i
<1>3. /\ ConBloques(i, bs) \in Entrada
      /\ ConBloques(i, bs).nombre = lista_nodos[i].nombre
      /\ ConBloques(i, bs).ip = lista_nodos[i].ip /\ ConBloques(i, bs).puerto = lista_nodos[i].puerto
      /\ ConBloques(i, bs).pendientes = lista_nodos[i].pendientes
  BY <1>0, <1>2, ConBloquesEs
<1>4. MismasEntradas
  BY <1>2, <1>3, UnaEntrada
<1>5. \A k \in 1..Len(lista_nodos) : lista_nodos'[k].pendientes = lista_nodos[k].pendientes
  <2>1. /\ lista_nodos'[i] = ConBloques(i, bs)
        /\ \A k \in 1..Len(lista_nodos) : k # i => lista_nodos'[k] = lista_nodos[k]
    BY <1>0, <1>2, <1>3, CambiaEntrada
  <2>. QED
    BY <1>3, <2>1
<1>6. /\ \A k \in Job : Len(enviados'[k]) = Len(enviados[k])
      /\ \A k \in Job : k # j => enviados'[k] = enviados[k]
      /\ \A q \in 1..Len(enviados[j]) : q # p => enviados'[j][q] = enviados[j][q]
      /\ enviados'[j][p].estado = x
      /\ \A k \in Job : \A q \in 1..Len(enviados[k]) : enviados'[k][q].nodo = enviados[k][q].nodo
  <2>1. enviados[j] \in Seq(Tarea) /\ \A k \in Job : enviados[k] \in Seq(Tarea)
    BY <1>0
  <2>2. enviados[j][p] \in Tarea
    BY <2>1
  <2>. DEFINE e == [enviados[j][p] EXCEPT !.estado = x]
              s == [enviados[j] EXCEPT ![p] = e]
  <2>3. e.estado = x /\ e.nodo = enviados[j][p].nodo
    BY <2>2 DEF Tarea
  <2>4. enviados' = [enviados EXCEPT ![j] = s]
    BY <1>2
  <2>. HIDE DEF e
  <2>5. /\ Len(s) = Len(enviados[j]) /\ s[p] = e
        /\ \A q \in 1..Len(enviados[j]) : q # p => s[q] = enviados[j][q]
    BY <2>1
  <2>. HIDE DEF s
  <2>6. enviados'[j] = s /\ \A k \in Job : k # j => enviados'[k] = enviados[k]
    BY <1>0, <2>4
  <2>. QED
    BY <2>3, <2>5, <2>6
<1>7. \A k \in Job : \A n : Pen(enviados'[k], n) = Pen(enviados[k], n)
  <2>1. \A k \in Job : \A q \in 1..Len(enviados[k]) :
          enviados'[k][q].estado = 0 <=> enviados[k][q].estado = 0
    <3>1. x # 0 /\ enviados[j][p].estado # 0
      BY <1>2
    <3>. QED
      BY <1>6, <3>1
  <2>. QED
    BY <1>6, <2>1 DEF Pen
<1>. QED
  BY <1>2, <1>4, <1>5, <1>7, CargaQuieta

LEMMA AgregaNodoCarga ==
  ASSUME TipoInv, TipoInv', CargaInv, NEW j \in Job, AgregaNodo(j)
  PROVE  CargaInv'
<1>. DEFINE e == NodoLeido(resto[j])
            L == Len(lista_nodos)
<1>0. /\ lista_nodos \in Seq(Entrada) /\ enviados \in [Job -> Seq(Tarea)]
      /\ hilo \in [Job -> Antes \cup Reparto \cup Despues \cup {"perdido"}]
  BY DEF TipoInv, Tipos
<1>. L \in Nat
  BY <1>0
<1>1. /\ lista_nodos' = Append(lista_nodos, e) /\ leida' = leida /\ solapo' = solapo
      /\ enviados' = enviados /\ hilo[j] = "agrega" /\ hilo' = [hilo EXCEPT ![j] = "busca"]
  BY DEF AgregaNodo, Pasa, tareas
<1>2. e.pendientes = 0
  BY DEF NodoLeido, NodoNuevo
<1>. HIDE DEF e
<1>3. /\ Len(lista_nodos') = L + 1 /\ lista_nodos'[L + 1] = e
      /\ \A k \in 1..L : lista_nodos'[k] = lista_nodos[k]
  BY <1>0, <1>1
<1>4. lista_nodos' \in Seq(Entrada)
  BY DEF TipoInv, Tipos
<1>5. \A k \in Job : hilo[k] \in Cambia \/ hilo'[k] \in Cambia => hilo'[k] = hilo[k] /\ hilo[k] \in Cambia
  BY <1>0, <1>1 DEF Cambia
<1>6. \A k \in Job : hilo[k] \in Cambia => leida[k].nodo \in 1..L
  BY DEF TipoInv, Alcanza, Cambia
<1>7. \A n : Primero(lista_nodos, n) # 0 => Primero(lista_nodos', n) = Primero(lista_nodos, n)
  <2>1. Crece
    BY AgregaNodoTipo
  <2>2. \A n : BuscarNodo(n) # 0 => BuscarNodo(n)' = BuscarNodo(n)
    BY <2>1, BuscarQueda DEF TipoInv
  <2>. QED
    BY <2>2, BuscarPrimero
<1>8. \A n : \A k \in 1..L : Primero(lista_nodos', n) = k => Primero(lista_nodos, n) = k
  <2>. SUFFICES ASSUME NEW n, NEW k \in 1..L, Primero(lista_nodos', n) = k
                PROVE  Primero(lista_nodos, n) = k
    OBVIOUS
  <2>1. lista_nodos'[k].nombre = n
    BY <1>4, PrimeroEs
  <2>2. Primero(lista_nodos, n) # 0
    BY <1>0, <1>3, <2>1, PrimeroEs
  <2>. QED
    BY <1>7, <2>2
<1>9. \A n, i : Carga(enviados', hilo', leida', n, i) = Carga(enviados, hilo, leida, n, i)
  <2>1. \A k \in Job : hilo[k] \in Cambia \/ hilo'[k] \in Cambia =>
          hilo'[k] = hilo[k] /\ leida'[k] = leida[k]
    BY <1>1, <1>5
  <2>2. \A k \in Job : \A n : Pen(enviados'[k], n) = Pen(enviados[k], n)
    BY <1>1
  <2>. QED
    BY <2>1, <2>2, CargaIgual
<1>10. Sola'
  BY <1>1, <1>3, <1>5, <1>6 DEF CargaInv, Sola
<1>11. Suya'
  <2>. SUFFICES ASSUME NEW k \in Job, hilo'[k] \in Cambia
                PROVE  Primero(lista_nodos', lista_nodos'[leida'[k].nodo].nombre) = leida'[k].nodo
    BY DEF Suya
  <2>1. /\ Primero(lista_nodos, lista_nodos[leida[k].nodo].nombre) = leida[k].nodo
        /\ leida[k].nodo \in 1..L
    BY <1>5, <1>6 DEF CargaInv, Suya
  <2>. QED
    BY <1>1, <1>3, <1>7, <2>1
<1>12. Exacta'
  <2>. SUFFICES ASSUME ~solapo, NEW i \in 1..Len(lista_nodos'),
                       Primero(lista_nodos', lista_nodos'[i].nombre) = i
                PROVE  lista_nodos'[i].pendientes
                         = Carga(enviados', hilo', leida', lista_nodos'[i].nombre, i)
    BY <1>1 DEF Exacta
  <2>1. CASE i \in 1..L
    BY <1>3, <1>8, <1>9, <2>1 DEF CargaInv, Exacta
  <2>2. CASE i = L + 1
    <3>. DEFINE n == e.nombre
    <3>1. Primero(lista_nodos, n) = 0
      <4>1. Primero(lista_nodos, n) \in 0..L
        BY <1>0, PrimeroEs
      <4>2. Primero(lista_nodos', n) = L + 1
        BY <1>3, <2>2
      <4>. QED
        BY <1>7, <4>1, <4>2
    <3>. HIDE DEF n
    <3>2. \A k \in Job : Pen(enviados[k], n) = {}
      <4>1. \A k \in Job : \A p \in 1..Len(enviados[k]) : Primero(lista_nodos, enviados[k][p].nodo) # 0
        BY BuscarPrimero DEF TipoInv, Alcanza
      <4>. QED
        BY <3>1, <4>1 DEF Pen
    <3>3. \A k \in Job : PorEnviarDe(enviados, n)[k] = 0
      BY <3>2, FS_EmptySet DEF PorEnviarDe
    <3>4. SumFunctionOnSet(PorEnviarDe(enviados, n), Job) = 0
      BY <3>3, SumaNula, PlanificadorAssumption
    <3>5. En(hilo, leida, "suma", i) = {} /\ En(hilo, leida, "resta", i) = {}
      BY <1>0, <1>6, <2>2 DEF En, Cambia
    <3>6. Carga(enviados, hilo, leida, n, i) = 0
      <4>1. Cardinality(En(hilo, leida, "suma", i)) = 0 /\ Cardinality(En(hilo, leida, "resta", i)) = 0
        BY <3>5, FS_EmptySet
      <4>. QED
        BY <3>4, <4>1 DEF Carga
    <3>. QED
      BY <1>2, <1>3, <1>9, <2>2, <3>6 DEF n
  <2>. QED
    BY <1>0, <1>3, <2>1, <2>2
<1>. QED
  BY <1>10, <1>11, <1>12 DEF CargaInv

LEMMA CargaStep == TipoInv /\ CargaInv /\ [Next]_vars => CargaInv'
<1>. SUFFICES ASSUME TipoInv, CargaInv, [Next]_vars
              PROVE  CargaInv'
  OBVIOUS
<1>0. TipoInv'
  BY TipoStep
<1>1. /\ lista_nodos \in Seq(Entrada)
      /\ hilo \in [Job -> Antes \cup Reparto \cup Despues \cup {"perdido"}]
  BY DEF TipoInv, Tipos
<1>2. CASE UNCHANGED vars
  <2>1. UNCHANGED <<hilo, lista_nodos, enviados, leida, solapo>>
    BY <1>2 DEF vars
  <2>2. MismasEntradas
    BY <1>1, <2>1 DEF MismasEntradas
  <2>. QED
    BY <2>1, <2>2, CargaQuieta
<1>3. ASSUME NEW j \in Job, Paso(j)
      PROVE  CargaInv'
  <2>1. CASE TomaBloque(j)
    BY <1>0, <2>1, TomaBloqueCarga
  <2>2. CASE SumaCarga(j)
    <3>. DEFINE a == IF pedido[j].combiner THEN "sigue" ELSE "reparte"
                p == leida[j].carga + 1
    <3>1. /\ hilo[j] = "suma" /\ hilo' = [hilo EXCEPT ![j] = a] /\ p \in Int
          /\ lista_nodos' = [lista_nodos EXCEPT ![leida[j].nodo] = ConCarga(leida[j].nodo, p)]
          /\ leida' = leida /\ solapo' = solapo /\ enviados' = enviados
      BY <2>2, SumaCargaHace DEF tareas
    <3>2. a \notin Cambia /\ "suma" \in Cambia
      BY DEF Cambia
    <3>3. p = leida[j].carga + (IF "suma" = "suma" THEN 1 ELSE -1)
      OBVIOUS
    <3>. HIDE DEF a, p
    <3>. QED
      BY <1>0, <3>1, <3>2, <3>3, CargaSale
  <2>3. CASE RestaCarga(j)
    <3>. DEFINE p == leida[j].carga - 1
    <3>1. /\ hilo[j] = "resta" /\ hilo' = [hilo EXCEPT ![j] = "envia"] /\ p \in Int
          /\ lista_nodos' = [lista_nodos EXCEPT ![leida[j].nodo] = ConCarga(leida[j].nodo, p)]
          /\ leida' = leida /\ solapo' = solapo /\ enviados' = enviados
      BY <2>3, RestaCargaHace DEF tareas
    <3>2. "envia" \notin Cambia /\ "resta" \in Cambia
      BY DEF Cambia
    <3>3. p = leida[j].carga + (IF "resta" = "suma" THEN 1 ELSE -1)
      <4>1. leida[j].carga \in Int
        BY DEF TipoInv, Tipos
      <4>. QED
        BY <4>1
    <3>. HIDE DEF p
    <3>. QED
      BY <1>0, <3>1, <3>2, <3>3, CargaSale
  <2>4. CASE EnviaTarea(j)
    BY <1>0, <2>4, EnviaTareaCarga
  <2>5. CASE ReciboOkMap(j) \/ ReciboOkReduce(j)
    BY <1>0, <2>5, ReciboOkCarga
  <2>6. CASE AgregaNodo(j)
    BY <1>0, <2>6, AgregaNodoCarga
  <2>7. CASE \/ Pregunta(j) \/ NodoConocido(j) \/ NodoDesconocido(j) \/ CierraFs(j)
             \/ Planificar(j) \/ SiguienteLista(j) \/ TerminaReparto(j) \/ PrimerMas(j) \/ PideTotal(j)
    <3>1. /\ UNCHANGED <<lista_nodos, enviados, leida, solapo>>
          /\ \/ hilo' = hilo
             \/ hilo[j] \notin Cambia /\ \E a : a \notin Cambia /\ hilo' = [hilo EXCEPT ![j] = a]
      <4>1. CASE Pregunta(j)
        BY <4>1 DEF Pregunta, ConectaFs, Responde, SePierde, Muere, Pasa, tareas, Cambia
      <4>2. CASE NodoConocido(j) \/ NodoDesconocido(j) \/ CierraFs(j)
        BY <4>2 DEF NodoConocido, NodoDesconocido, CierraFs, Pasa, tareas, Cambia
      <4>3. CASE Planificar(j) \/ SiguienteLista(j)
        BY <4>3 DEF Planificar, SiguienteLista, Pasa, tareas, Cambia
      <4>4. CASE TerminaReparto(j) \/ PrimerMas(j) \/ PideTotal(j)
        BY <4>4 DEF TerminaReparto, PrimerMas, PideTotal, Pasa, tareas, Cambia
      <4>. QED
        BY <2>7, <4>1, <4>2, <4>3, <4>4
    <3>2. \A k \in Job : hilo[k] \in Cambia \/ hilo'[k] \in Cambia => hilo'[k] = hilo[k]
      BY <1>1, <3>1
    <3>3. MismasEntradas
      BY <1>1, <3>1 DEF MismasEntradas
    <3>. QED
      BY <3>1, <3>2, <3>3, CargaQuieta
  <2>. QED
    BY <1>3, <2>1, <2>2, <2>3, <2>4, <2>5, <2>6, <2>7 DEF Paso, Hilo, LeeNodos, Reparte, Envia
<1>. QED
  BY <1>2, <1>3 DEF Next, Paso

LEMMA CargaDice == TipoInv /\ CargaInv => CargaExacta
<1>. SUFFICES ASSUME TipoInv, CargaInv, ~solapo, NEW i \in DOMAIN lista_nodos,
                     BuscarNodo(lista_nodos[i].nombre) = i
              PROVE  LET n == lista_nodos[i].nombre
                         porEnviar(j) == Cardinality({p \in DOMAIN enviados[j] :
                                           enviados[j][p].nodo = n /\ enviados[j][p].estado = 0})
                     IN lista_nodos[i].pendientes
                          = SumFunction([j \in Job |-> porEnviar(j)])
                              - Cardinality({j \in Job : hilo[j] = "suma" /\ leida[j].nodo = i})
                              + Cardinality({j \in Job : hilo[j] = "resta" /\ leida[j].nodo = i})
  BY DEF CargaExacta
<1>. DEFINE n == lista_nodos[i].nombre
<1>1. i \in 1..Len(lista_nodos)
  BY DEF TipoInv, Tipos
<1>2. lista_nodos[i].pendientes = Carga(enviados, hilo, leida, n, i)
  BY <1>1, BuscarPrimero DEF CargaInv, Exacta
<1>. DEFINE f == [j \in Job |-> Cardinality({p \in DOMAIN enviados[j] :
                                  enviados[j][p].nodo = n /\ enviados[j][p].estado = 0})]
<1>3. f = PorEnviarDe(enviados, n)
  <2>1. \A j \in Job : DOMAIN enviados[j] = 1..Len(enviados[j])
    BY DEF TipoInv, Tipos
  <2>2. \A j \in Job : {p \in DOMAIN enviados[j] : enviados[j][p].nodo = n /\ enviados[j][p].estado = 0}
                         = Pen(enviados[j], n)
    BY <2>1 DEF Pen
  <2>. QED
    BY <2>2 DEF PorEnviarDe
<1>4. SumFunction(f) = SumFunctionOnSet(PorEnviarDe(enviados, n), Job)
  <2>1. DOMAIN f = Job
    OBVIOUS
  <2>. HIDE DEF f
  <2>. QED
    BY <1>3, <2>1 DEF SumFunction
<1>. QED
  BY <1>2, <1>4 DEF Carga, En

(* A load is wrong only once two threads changed one at the same time: the *)
(* increment without the semaphore (marta.c:683) is the only way the count *)
(* of pending tasks goes off.                                              *)
THEOREM CargaSiempreExacta == Spec => []CargaExacta
BY TipoInit, TipoStep, CargaInitInv, CargaStep, CargaDice, PTL DEF Spec
-----------------------------------------------------------------------------
(* One task per block.                                                     *)

Puesto(env, f, k) == \E p \in 1..Len(env) : env[p].archivo = f /\ env[p].bloque = k
Una(env) ==
  \A p, q \in 1..Len(env) :
    env[p].archivo = env[q].archivo /\ env[p].bloque = env[q].bloque => p = q
(* Each task is a copy of a block of its file.                             *)
DeSuBloque(e, bs) ==
  /\ e.archivo \in 1..Len(bs)
  /\ \E b \in 1..Len(bs[e.archivo]), k \in 1..3 :
       LET c == bs[e.archivo][b].copias[k]
       IN e.bloque = bs[e.archivo][b].bloque /\ e.nodo = c.nodo /\ e.enNodo = c.bloque
SonDe(env, bs) == \A p \in 1..Len(env) : DeSuBloque(env[p], bs)
(* The lists hold the copies of the blocks, three for each.                *)
Enlistados(ls, bs) ==
  /\ Len(ls) <= 3 * Len(bs)
  /\ \A i \in 1..Len(ls) : \A p \in 1..Len(ls[i].bloques) :
       /\ ls[i].bloques[p].nodo = ls[i].nodo
       /\ \E b \in 1..Len(bs), k \in 1..3 : ls[i].bloques[p] = Tres(bs[b], k)
  /\ \A b \in 1..Len(bs), k \in 1..3 :
       \E i \in 1..Len(ls) : \E p \in 1..Len(ls[i].bloques) : ls[i].bloques[p] = Tres(bs[b], k)
(* A file that was left behind has a task for each block, or with combiner *)
(* more nodes are known than copies.                                       *)
Pasado(env, bs, f, combiner, n) ==
  \A b \in 1..Len(bs) : Puesto(env, f, bs[b].bloque) \/ (combiner /\ n > 3 * Len(bs))
(* Without combiner the lists before the one at hand give nothing more.    *)
Vistas(env, ls, f, hasta) ==
  \A l \in 1..Len(ls) : l < hasta =>
    \A d \in 1..Len(ls[l].bloques) : Puesto(env, f, ls[l].bloques[d].bloque)

Propios(j) ==
  HojasDistintas(j) => \A f \in 1..Len(bloques[j]) : \A i \in 1..Len(bloques[j][f]) :
    LET b == bloques[j][f][i]
    IN b.copias = disco[pedido[j].archivos[f]][b.bloque]
         /\ b.bloque \in 1..Len(disco[pedido[j].archivos[f]])

Lleva(j) ==
  /\ hilo[j] \in Antes => enviados[j] = <<>> /\ cursor[j].archivo = 1 /\ cursor[j].lista = 1
  /\ Una(enviados[j]) /\ SonDe(enviados[j], bloques[j])
  /\ \A f \in 1..Len(bloques[j]) : Enlistados(listas[j][f], bloques[j][f])
  /\ Propios(j)
  /\ \A f \in 1..Len(bloques[j]) : f < cursor[j].archivo =>
       Pasado(enviados[j], bloques[j][f], f, pedido[j].combiner, Len(lista_nodos))
  /\ ~pedido[j].combiner =>
       /\ hilo[j] # "sigue"
       /\ cursor[j].archivo <= Len(bloques[j]) =>
            Vistas(enviados[j], listas[j][cursor[j].archivo], cursor[j].archivo, cursor[j].lista)
  /\ hilo[j] \in Despues => cursor[j].archivo > Len(bloques[j])
PlanInv == \A j \in Job : Lleva(j)

LEMMA MarcadoEs ==
  ASSUME TipoInv, NEW j \in Job
  PROVE  \A f, n, k : Marcado(j, f, n, k) <=> Puesto(enviados[j], f, k)
<1>1. enviados[j] \in Seq(Tarea)
  BY DEF TipoInv, Tipos
<1>2. DOMAIN enviados[j] = 1..Len(enviados[j])
  BY <1>1
<1>. QED
  BY <1>2 DEF Marcado, Puesto, ToSet

(* The same tasks, whatever became of them.                                *)
MismasTareas(j) ==
  /\ Len(enviados'[j]) = Len(enviados[j])
  /\ \A p \in 1..Len(enviados[j]) :
       /\ enviados'[j][p].nodo = enviados[j][p].nodo
       /\ enviados'[j][p].enNodo = enviados[j][p].enNodo
       /\ enviados'[j][p].archivo = enviados[j][p].archivo
       /\ enviados'[j][p].bloque = enviados[j][p].bloque

(* A step that chooses no task, for the Job or for another one.            *)
LEMMA PlanQueda ==
  ASSUME TipoInv, NEW j \in Job, Lleva(j), MismasTareas(j),
         disco' = disco, pedido' = pedido,
         bloques'[j] = bloques[j], listas'[j] = listas[j], cursor'[j] = cursor[j],
         Len(lista_nodos') \in Nat, Len(lista_nodos) \in Nat, Len(lista_nodos) <= Len(lista_nodos'),
         hilo'[j] \in Antes => hilo[j] \in Antes,
         hilo'[j] = "sigue" => hilo[j] = "sigue" \/ pedido[j].combiner,
         hilo'[j] \in Despues => hilo[j] \in Despues \/ cursor[j].archivo > Len(bloques[j])
  PROVE  Lleva(j)'
<1>0. /\ enviados[j] \in Seq(Tarea) /\ bloques[j] \in Seq(Seq(Leido))
  BY DEF TipoInv, Tipos
<1>1. hilo'[j] \in Antes => enviados'[j] = <<>> /\ cursor'[j].archivo = 1 /\ cursor'[j].lista = 1
  <2>. SUFFICES ASSUME hilo'[j] \in Antes
                PROVE  enviados'[j] = <<>> /\ cursor'[j].archivo = 1 /\ cursor'[j].lista = 1
    OBVIOUS
  <2>. QED
    BY DEF Lleva, MismasTareas
<1>2. \A f, k : Puesto(enviados'[j], f, k) <=> Puesto(enviados[j], f, k)
  BY DEF MismasTareas, Puesto
<1>3. Una(enviados'[j])
  BY DEF Lleva, MismasTareas, Una
<1>4. SonDe(enviados'[j], bloques'[j])
  <2>. SUFFICES ASSUME NEW p \in 1..Len(enviados'[j])
                PROVE  DeSuBloque(enviados'[j][p], bloques[j])
    BY DEF SonDe
  <2>1. p \in 1..Len(enviados[j])
    BY DEF MismasTareas
  <2>2. DeSuBloque(enviados[j][p], bloques[j])
    BY <2>1 DEF Lleva, SonDe
  <2>. DEFINE e == enviados[j][p]
              g == enviados'[j][p]
  <2>3. g.nodo = e.nodo /\ g.enNodo = e.enNodo /\ g.archivo = e.archivo /\ g.bloque = e.bloque
    BY <2>1 DEF MismasTareas
  <2>4. DeSuBloque(e, bloques[j])
    BY <2>2
  <2>. HIDE DEF e, g
  <2>5. DeSuBloque(g, bloques[j])
    <3>1. PICK b \in 1..Len(bloques[j][e.archivo]), k \in 1..3 :
            /\ e.bloque = bloques[j][e.archivo][b].bloque
            /\ e.nodo = bloques[j][e.archivo][b].copias[k].nodo
            /\ e.enNodo = bloques[j][e.archivo][b].copias[k].bloque
      BY <2>4 DEF DeSuBloque
    <3>2. e.archivo \in 1..Len(bloques[j])
      BY <2>4 DEF DeSuBloque
    <3>. QED
      BY <2>3, <3>1, <3>2, ZenonT(60) DEF DeSuBloque
  <2>. QED
    BY <2>5 DEF g
<1>5. Propios(j)'
  <2>1. HojasDistintas(j)' <=> HojasDistintas(j)
    BY DEF HojasDistintas
  <2>2. Propios(j)
    BY DEF Lleva
  <2>3. ASSUME HojasDistintas(j)
        PROVE  \A f \in 1..Len(bloques'[j]) : \A i \in 1..Len(bloques'[j][f]) :
                 /\ bloques'[j][f][i].copias = disco'[pedido'[j].archivos[f]][bloques'[j][f][i].bloque]
                 /\ bloques'[j][f][i].bloque \in 1..Len(disco'[pedido'[j].archivos[f]])
    <3>. DEFINE Suyos(bs, d, ar) ==
                  \A f \in 1..Len(bs) : \A i \in 1..Len(bs[f]) :
                    bs[f][i].copias = d[ar[f]][bs[f][i].bloque] /\ bs[f][i].bloque \in 1..Len(d[ar[f]])
    <3>1. Suyos(bloques[j], disco, pedido[j].archivos)
      BY <2>2, <2>3, ZenonT(60) DEF Propios
    <3>2. Suyos(bloques'[j], disco', pedido'[j].archivos)
      <4>. HIDE DEF Suyos
      <4>. QED
        BY <3>1
    <3>. QED
      BY <3>2, ZenonT(60)
  <2>. QED
    BY <2>1, <2>3, Zenon DEF Propios
<1>6. \A f \in 1..Len(bloques'[j]) : Enlistados(listas'[j][f], bloques'[j][f])
  BY DEF Lleva
<1>7. \A f \in 1..Len(bloques'[j]) : f < cursor'[j].archivo =>
        Pasado(enviados'[j], bloques'[j][f], f, pedido'[j].combiner, Len(lista_nodos'))
  <2>. SUFFICES ASSUME NEW f \in 1..Len(bloques[j]), f < cursor[j].archivo,
                       NEW b \in 1..Len(bloques[j][f])
                PROVE  \/ Puesto(enviados[j], f, bloques[j][f][b].bloque)
                       \/ pedido[j].combiner /\ Len(lista_nodos') > 3 * Len(bloques[j][f])
    BY <1>2 DEF Pasado
  <2>1. Len(bloques[j][f]) \in Nat
    BY <1>0
  <2>2. Pasado(enviados[j], bloques[j][f], f, pedido[j].combiner, Len(lista_nodos))
    BY DEF Lleva
  <2>3. \/ Puesto(enviados[j], f, bloques[j][f][b].bloque)
        \/ pedido[j].combiner /\ Len(lista_nodos) > 3 * Len(bloques[j][f])
    BY <2>2 DEF Pasado
  <2>4. Len(lista_nodos) > 3 * Len(bloques[j][f]) => Len(lista_nodos') > 3 * Len(bloques[j][f])
    BY <2>1
  <2>. QED
    BY <2>3, <2>4
<1>8. ~pedido'[j].combiner =>
        /\ hilo'[j] # "sigue"
        /\ cursor'[j].archivo <= Len(bloques'[j]) =>
             Vistas(enviados'[j], listas'[j][cursor'[j].archivo], cursor'[j].archivo, cursor'[j].lista)
  BY <1>2 DEF Lleva, Vistas
<1>9. hilo'[j] \in Despues => cursor'[j].archivo > Len(bloques'[j])
  BY DEF Lleva
<1>. QED
  BY <1>1, <1>3, <1>4, <1>5, <1>6, <1>7, <1>8, <1>9 DEF Lleva

(* The step of another Job's thread.                                       *)
LEMMA OtroHilo ==
  ASSUME TipoInv, TipoInv', NEW j \in Job, NEW k \in Job, k # j, Paso(k), Lleva(j)
  PROVE  Lleva(j)'
<1>0. /\ hilo \in [Job -> Antes \cup Reparto \cup Despues \cup {"perdido"}]
      /\ lista_nodos \in Seq(Entrada) /\ lista_nodos' \in Seq(Entrada)
      /\ enviados \in [Job -> Seq(Tarea)] /\ bloques \in [Job -> Seq(Seq(Leido))]
      /\ listas \in [Job -> Seq(Seq(Lista))]
      /\ cursor \in [Job -> [archivo : Nat \ {0}, lista : Nat \ {0}]]
  BY DEF TipoInv, Tipos
<1>1. Len(lista_nodos) \in Nat /\ Len(lista_nodos') \in Nat /\ Len(lista_nodos) <= Len(lista_nodos')
  <2>1. CASE AgregaNodo(k)
    BY <1>0, <2>1, AgregaNodoTipo DEF Crece
  <2>2. CASE ~AgregaNodo(k)
    BY <1>0, <2>2, PasoEntradas DEF MismasEntradas
  <2>. QED
    BY <2>1, <2>2
<1>. DEFINE Igual == /\ disco' = disco /\ pedido' = pedido
                     /\ hilo'[j] = hilo[j] /\ enviados'[j] = enviados[j]
                     /\ bloques'[j] = bloques[j] /\ listas'[j] = listas[j] /\ cursor'[j] = cursor[j]
<1>2. Igual
  <2>1. CASE TomaBloque(k)
    <3>1. /\ UNCHANGED <<mdfs, reparto>>
          /\ \/ UNCHANGED <<hilo, enviados>>
             \/ /\ hilo' = [hilo EXCEPT ![k] = "suma"]
                /\ enviados' = [enviados EXCEPT ![k] = Append(enviados[k], TareaNueva(k))]
      BY <2>1, TomaBloqueHace
    <3>. QED
      BY <1>0, <3>1 DEF mdfs, reparto
  <2>2. CASE SumaCarga(k) \/ RestaCarga(k)
    BY <1>0, <2>2 DEF SumaCarga, RestaCarga, Pasa, mdfs, reparto, tareas
  <2>3. CASE EnviaTarea(k)
    <3>1. /\ UNCHANGED <<mdfs, reparto>>
          /\ \/ UNCHANGED <<hilo, enviados>>
             \/ /\ hilo' = [hilo EXCEPT ![k] = "resta"]
                /\ enviados' = [enviados EXCEPT ![k][PorEnviar(k)].estado = 1]
      BY <2>3, EnviaTareaHace
    <3>. QED
      BY <1>0, <3>1 DEF mdfs, reparto
  <2>4. CASE ReciboOkMap(k) \/ ReciboOkReduce(k)
    <3>1. /\ UNCHANGED <<mdfs, reparto>> /\ hilo' = [hilo EXCEPT ![k] = "trabaja"]
          /\ \E p, x : enviados' = [enviados EXCEPT ![k][p].estado = x]
      BY <2>4, ZenonT(60) DEF ReciboOkMap, ReciboOkReduce, Pasa
    <3>. QED
      BY <1>0, <3>1 DEF mdfs, reparto
  <2>5. CASE ConectaFs(k) \/ SePierde(k) \/ NodoConocido(k) \/ NodoDesconocido(k)
    BY <1>0, <2>5 DEF ConectaFs, SePierde, NodoConocido, NodoDesconocido, Pasa, Muere, mdfs, reparto, tareas
  <2>6. CASE AgregaNodo(k) \/ CierraFs(k) \/ TerminaReparto(k) \/ PrimerMas(k)
    BY <1>0, <2>6 DEF AgregaNodo, CierraFs, TerminaReparto, PrimerMas, Pasa, mdfs, reparto, tareas
  <2>7. CASE PideTotal(k)
    BY <1>0, <2>7 DEF PideTotal, Pasa, mdfs, reparto
  <2>8. CASE Responde(k)
    BY <1>0, <2>8 DEF Responde, Pasa, mdfs, tareas
  <2>9. CASE Planificar(k) \/ SiguienteLista(k)
    BY <1>0, <2>9 DEF Planificar, SiguienteLista, Pasa, mdfs, tareas
  <2>. QED
    BY <2>1, <2>2, <2>3, <2>4, <2>5, <2>6, <2>7, <2>8, <2>9
       DEF Paso, Hilo, Pregunta, LeeNodos, Reparte, Envia
<1>3. MismasTareas(j)
  BY <1>2 DEF MismasTareas
<1>. QED
  BY <1>1, <1>2, <1>3, PlanQueda

(* FuncionMagica and Planificar.                                           *)
LEMMA MagicaEnlista ==
  ASSUME NEW bs \in Seq(Leido)
  PROVE  Enlistados(FuncionMagica(bs), bs)
BY FuncionMagicaEs DEF Enlistados

LEMMA OrdenEnlista ==
  ASSUME NEW bs, NEW viejas, Enlistados(viejas, bs), NEW ls, MismasListas(ls, viejas),
         Len(viejas) \in Nat
  PROVE  Enlistados(ls, bs)
<1>1. Len(ls) = Len(viejas)
  BY DEF MismasListas
<1>2. ASSUME NEW i \in 1..Len(ls), NEW p \in 1..Len(ls[i].bloques)
      PROVE  /\ ls[i].bloques[p].nodo = ls[i].nodo
             /\ \E b \in 1..Len(bs), k \in 1..3 : ls[i].bloques[p] = Tres(bs[b], k)
  <2>1. PICK q \in 1..Len(viejas) : ls[i].nodo = viejas[q].nodo /\ ls[i].bloques = viejas[q].bloques
    BY <1>1, <1>2 DEF MismasListas
  <2>2. p \in 1..Len(viejas[q].bloques)
    BY <1>2, <2>1
  <2>3. /\ viejas[q].bloques[p].nodo = viejas[q].nodo
        /\ \E b \in 1..Len(bs), k \in 1..3 : viejas[q].bloques[p] = Tres(bs[b], k)
    BY <2>1, <2>2 DEF Enlistados
  <2>. QED
    BY <2>1, <2>3
<1>3. ASSUME NEW b \in 1..Len(bs), NEW k \in 1..3
      PROVE  \E i \in 1..Len(ls) : \E p \in 1..Len(ls[i].bloques) : ls[i].bloques[p] = Tres(bs[b], k)
  <2>1. PICK q \in 1..Len(viejas) :
          \E p \in 1..Len(viejas[q].bloques) : viejas[q].bloques[p] = Tres(bs[b], k)
    BY DEF Enlistados
  <2>2. PICK i \in 1..Len(viejas) : ls[i].nodo = viejas[q].nodo /\ ls[i].bloques = viejas[q].bloques
    BY <2>1 DEF MismasListas
  <2>. QED
    BY <1>1, <2>1, <2>2
<1>. QED
  BY <1>1, <1>2, <1>3 DEF Enlistados

(* With different last names each file is found by its own.                *)
LEMMA SuHoja ==
  ASSUME TipoInv, NEW j \in Job, HojasDistintas(j), NEW x \in 1..Len(pedido[j].archivos)
  PROVE  DeLaHoja(pedido[j].archivos, x) = x
<1>. DEFINE ar == pedido[j].archivos
            I == {y \in 1..Len(ar) : Hoja[ar[y]] = Hoja[ar[x]]}
<1>1. ar \in Seq(Archivo)
  BY DEF TipoInv, Tipos
<1>2. DOMAIN ar = 1..Len(ar) /\ Len(ar) \in Nat
  BY <1>1
<1>3. DeLaHoja(ar, x) = IF I # {} THEN Min(I) ELSE 0
  BY <1>2 DEF DeLaHoja, SelectInSeq
<1>4. I = {x}
  BY <1>2 DEF HojasDistintas
<1>. HIDE DEF I
<1>5. Min(I) \in I
  BY <1>2, <1>4, MinEs, SMTT(30)
<1>. QED
  BY <1>3, <1>4, <1>5

LEMMA RespondeLleva ==
  ASSUME TipoInv, TipoInv', NEW j \in Job, Responde(j), Lleva(j)
  PROVE  Lleva(j)'
<1>. DEFINE ar == pedido[j].archivos
            ps == Pedidos(j)
            bs == bloques'[j]
<1>1. /\ hilo[j] = "pregunta" /\ hilo'[j] = "busca"
      /\ UNCHANGED <<disco, pedido, enviados, cursor>>
      /\ DiceNo(ps) \/ SeLee(ps)
      /\ bs = IF DiceNo(ps) THEN [f \in DOMAIN ar |-> <<>>] ELSE Leidos(ar, ps)
      /\ listas'[j] = [f \in DOMAIN ar |-> FuncionMagica(bs[f])]
  BY DEF Responde, Pasa, mdfs, tareas, TipoInv, Tipos
<1>2. enviados[j] = <<>> /\ cursor[j].archivo = 1 /\ cursor[j].lista = 1
  BY <1>1 DEF Lleva, Antes
<1>3. /\ ar \in Seq(Archivo) /\ bs \in Seq(Seq(Leido)) /\ Len(listas'[j]) = Len(bs)
      /\ listas'[j] \in Seq(Seq(Lista))
  BY DEF TipoInv, Tipos, Alcanza
<1>4. Len(bs) = Len(ar) /\ DOMAIN ar = 1..Len(ar) /\ Len(ar) \in Nat
  <2>1. DOMAIN listas'[j] = DOMAIN ar
    BY <1>1
  <2>2. DOMAIN listas'[j] = 1..Len(listas'[j]) /\ DOMAIN ar = 1..Len(ar)
        /\ Len(ar) \in Nat /\ Len(listas'[j]) \in Nat
    BY <1>3
  <2>3. \A m, n \in Nat : 1..m = 1..n => m = n
    <3>. SUFFICES ASSUME NEW m \in Nat, NEW n \in Nat, 1..m = 1..n
                  PROVE  m = n
      OBVIOUS
    <3>1. m > 0 => m \in 1..n
      OBVIOUS
    <3>2. n > 0 => n \in 1..m
      OBVIOUS
    <3>. QED
      BY <3>1, <3>2
  <2>4. Len(listas'[j]) = Len(ar)
    BY <2>1, <2>2, <2>3
  <2>. QED
    BY <1>3, <2>2, <2>4
<1>. HIDE DEF bs
<1>5. \A f \in 1..Len(bs) : Enlistados(listas'[j][f], bs[f])
  <2>1. ASSUME NEW f \in 1..Len(bs)
        PROVE  Enlistados(FuncionMagica(bs[f]), bs[f])
    <3>1. bs[f] \in Seq(Leido)
      BY <1>3
    <3>. QED
      BY <3>1, MagicaEnlista
  <2>. QED
    BY <1>1, <1>4, <2>1
<1>6. Una(enviados'[j]) /\ SonDe(enviados'[j], bs)
  BY <1>1, <1>2 DEF Una, SonDe
<1>7. ASSUME HojasDistintas(j), NEW f \in 1..Len(bs), NEW i \in 1..Len(bs[f])
      PROVE  /\ bs[f][i].copias = disco[ar[f]][bs[f][i].bloque]
             /\ bs[f][i].bloque \in 1..Len(disco[ar[f]])
  <2>1. CASE DiceNo(ps)
    <3>1. bs[f] = <<>>
      BY <1>1, <1>4, <1>7, <2>1
    <3>. QED
      BY <1>7, <3>1
  <2>2. CASE ~DiceNo(ps)
    <3>1. DeRespuesta(ar, ps) /\ bs = Leidos(ar, ps)
      BY <1>1, <2>2, PedidosSon
    <3>0. Vienen(ar, bs, ps)
      BY <3>1, LeidosEs
    <3>2. PICK x \in 1..Len(ar) : DeLaHoja(ar, x) = f /\
            \E k \in 1..Len(ps[x]) : bs[f][i] = [bloque |-> k, copias |-> ps[x][k]]
      <4>1. f \in 1..Len(ar)
        BY <1>4, <1>7
      <4>. HIDE DEF ar, ps
      <4>. QED
        BY <1>7, <3>0, <4>1, ZenonT(60) DEF Vienen
    <3>3. x = f
      BY <1>7, <3>2, SuHoja
    <3>4. ps[f] = disco[ar[f]]
      BY <1>4, <1>7 DEF Pedidos
    <3>. QED
      BY <3>2, <3>3, <3>4
  <2>. QED
    BY <2>1, <2>2
<1>8. Propios(j)'
  <2>1. HojasDistintas(j)' <=> HojasDistintas(j)
    BY <1>1 DEF HojasDistintas
  <2>2. pedido'[j].archivos = ar /\ disco' = disco
    BY <1>1
  <2>3. bloques'[j] = bs
    BY DEF bs
  <2>. HIDE DEF ar
  <2>. QED
    BY <1>7, <2>1, <2>2, <2>3 DEF Propios
<1>9. \A f \in 1..Len(bs) : ~(f < cursor'[j].archivo)
  BY <1>1, <1>2
<1>10. Vistas(enviados'[j], listas'[j][1], 1, 1)
  BY DEF Vistas
<1>11. hilo'[j] \notin Despues /\ hilo'[j] # "sigue"
  BY <1>1 DEF Despues
<1>12. enviados'[j] = <<>> /\ cursor'[j].archivo = 1 /\ cursor'[j].lista = 1
  BY <1>1, <1>2
<1>. QED
  BY <1>5, <1>6, <1>8, <1>9, <1>10, <1>11, <1>12 DEF Lleva, bs

LEMMA PlanificarLleva ==
  ASSUME TipoInv, TipoInv', NEW j \in Job, Planificar(j), Lleva(j)
  PROVE  Lleva(j)'
<1>1. /\ hilo[j] = "ordena" /\ hilo'[j] = "reparte"
      /\ UNCHANGED <<disco, pedido, enviados, cursor, bloques>>
  BY DEF Planificar, Pasa, mdfs, tareas, TipoInv, Tipos
<1>2. enviados[j] = <<>> /\ cursor[j].archivo = 1 /\ cursor[j].lista = 1
  BY <1>1 DEF Lleva, Antes
<1>3. listas[j] \in Seq(Seq(Lista)) /\ Len(listas[j]) = Len(bloques[j])
  BY DEF TipoInv, Tipos, Alcanza
<1>4. \A f \in 1..Len(bloques[j]) : Enlistados(listas'[j][f], bloques[j][f])
  <2>. SUFFICES ASSUME NEW f \in 1..Len(bloques[j])
                PROVE  Enlistados(listas'[j][f], bloques[j][f])
    OBVIOUS
  <2>1. f \in 1..Len(listas[j])
    BY <1>3
  <2>2. listas[j][f] \in Seq(Lista)
    BY <1>3, <2>1
  <2>3. Len(listas[j][f]) \in Nat
    BY <2>2
  <2>4. MismasListas(listas'[j][f], listas[j][f])
    BY <2>1, PlanificadaEs
  <2>5. Enlistados(listas[j][f], bloques[j][f])
    BY DEF Lleva
  <2>. QED
    BY <2>3, <2>4, <2>5, OrdenEnlista
<1>5. Propios(j)'
  <2>1. HojasDistintas(j)' <=> HojasDistintas(j)
    BY <1>1 DEF HojasDistintas
  <2>2. Propios(j)
    BY DEF Lleva
  <2>3. ASSUME HojasDistintas(j)
        PROVE  \A f \in 1..Len(bloques'[j]) : \A i \in 1..Len(bloques'[j][f]) :
                 /\ bloques'[j][f][i].copias = disco'[pedido'[j].archivos[f]][bloques'[j][f][i].bloque]
                 /\ bloques'[j][f][i].bloque \in 1..Len(disco'[pedido'[j].archivos[f]])
    BY <1>1, <2>2, <2>3 DEF Propios
  <2>. QED
    BY <2>1, <2>3, Zenon DEF Propios
<1>6. \A f \in 1..Len(bloques'[j]) : ~(f < cursor'[j].archivo)
  BY <1>1, <1>2
<1>7. Vistas(enviados'[j], listas'[j][1], 1, 1)
  BY DEF Vistas
<1>8. hilo'[j] \notin Despues /\ hilo'[j] \notin Antes /\ hilo'[j] # "sigue"
  BY <1>1 DEF Despues, Antes
<1>9. Una(enviados'[j]) /\ SonDe(enviados'[j], bloques'[j])
  BY <1>1 DEF Lleva
<1>. QED
  BY <1>1, <1>2, <1>4, <1>5, <1>6, <1>7, <1>8, <1>9 DEF Lleva

(* A task more for the file at hand.                                       *)
LEMMA TomaBloqueLleva ==
  ASSUME TipoInv, TipoInv', NEW j \in Job, TomaBloque(j), Lleva(j)
  PROVE  Lleva(j)'
<1>. DEFINE i == BuscarNodo(ListaEn(j).nodo)
            e == TareaNueva(j)
            en == enviados[j]
            a == cursor[j].archivo
<1>0. /\ lista_nodos \in Seq(Entrada) /\ lista_nodos' \in Seq(Entrada) /\ en \in Seq(Tarea)
      /\ enviados \in [Job -> Seq(Tarea)] /\ bloques[j] \in Seq(Seq(Leido))
      /\ hilo \in [Job -> Antes \cup Reparto \cup Despues \cup {"perdido"}]
  BY DEF TipoInv, Tipos
<1>1. /\ hilo[j] = "reparte" /\ Tomable(j) # 0 /\ UNCHANGED <<disco, pedido, bloques, listas, cursor>>
  BY TomaBloqueHace DEF mdfs, reparto
<1>2. Len(lista_nodos) \in Nat /\ Len(lista_nodos') \in Nat /\ Len(lista_nodos) <= Len(lista_nodos')
  BY <1>0, TomaBloqueTipo DEF Crece
<1>3. CASE i = 0
  <2>1. UNCHANGED <<hilo, enviados>>
    BY <1>3, TomaBloqueHace
  <2>2. MismasTareas(j)
    BY <2>1 DEF MismasTareas
  <2>. QED
    BY <1>1, <1>2, <2>1, <2>2, PlanQueda
<1>4. CASE i # 0
  <2>1. /\ hilo' = [hilo EXCEPT ![j] = "suma"] /\ e \in Tarea
        /\ enviados' = [enviados EXCEPT ![j] = Append(en, e)]
    BY <1>4, TomaBloqueHace
  <2>. DEFINE l == listas[j][a][cursor[j].lista]
              d == ListaEn(j).bloques[Tomable(j)]
  <2>2. /\ a \in 1..Len(bloques[j]) /\ cursor[j].lista \in 1..Len(listas[j][a]) /\ ListaEn(j) = l
        /\ Tomable(j) \in 1..Len(l.bloques) /\ ~Puesto(en, a, d.bloque)
    BY <1>1, TomableEs, MarcadoEs
  <2>3. e.nodo = l.nodo /\ e.enNodo = d.enNodo /\ e.archivo = a /\ e.bloque = d.bloque
    BY <2>2 DEF TareaNueva
  <2>4. /\ d = l.bloques[Tomable(j)] /\ d.nodo = l.nodo
        /\ \E b \in 1..Len(bloques[j][a]), k \in 1..3 : d = Tres(bloques[j][a][b], k)
    <3>1. Enlistados(listas[j][a], bloques[j][a])
      BY <2>2 DEF Lleva
    <3>. QED
      BY <2>2, <3>1 DEF Enlistados
  <2>. HIDE DEF e, d, l, i
  <2>5. DeSuBloque(e, bloques[j])
    <3>1. PICK b \in 1..Len(bloques[j][a]), k \in 1..3 : d = Tres(bloques[j][a][b], k)
      BY <2>4
    <3>2. /\ d.bloque = bloques[j][a][b].bloque /\ d.nodo = bloques[j][a][b].copias[k].nodo
          /\ d.enNodo = bloques[j][a][b].copias[k].bloque
      BY <3>1 DEF Tres, Copia
    <3>. QED
      BY <2>2, <2>3, <2>4, <3>2 DEF DeSuBloque
  <2>. DEFINE g == enviados'[j]
  <2>6. /\ g = Append(en, e) /\ Len(g) = Len(en) + 1 /\ g[Len(en) + 1] = e /\ Len(en) \in Nat
        /\ \A p \in 1..Len(en) : g[p] = en[p]
    BY <1>0, <2>1
  <2>. HIDE DEF g
  <2>7. Una(g)
    <3>1. \A p \in 1..Len(en) : ~(en[p].archivo = a /\ en[p].bloque = d.bloque)
      BY <2>2 DEF Puesto
    <3>. SUFFICES ASSUME NEW p \in 1..Len(g), NEW q \in 1..Len(g), p # q,
                         g[p].archivo = g[q].archivo, g[p].bloque = g[q].bloque
                  PROVE  FALSE
      BY DEF Una
    <3>2. p \in 1..Len(en) /\ q \in 1..Len(en)
      BY <2>3, <2>6, <3>1
    <3>. QED
      BY <2>6, <3>2 DEF Lleva, Una
  <2>8. SonDe(g, bloques[j])
    <3>. SUFFICES ASSUME NEW p \in 1..Len(g)
                  PROVE  DeSuBloque(g[p], bloques[j])
      BY DEF SonDe
    <3>1. CASE p \in 1..Len(en)
      BY <2>6, <3>1 DEF Lleva, SonDe
    <3>2. CASE p = Len(en) + 1
      BY <2>5, <2>6, <3>2
    <3>. QED
      BY <2>6, <3>1, <3>2
  <2>9. \A f, k : Puesto(en, f, k) => Puesto(g, f, k)
    BY <2>6 DEF Puesto
  <2>10. \A f \in 1..Len(bloques[j]) : f < a =>
           Pasado(g, bloques[j][f], f, pedido[j].combiner, Len(lista_nodos'))
    <3>. SUFFICES ASSUME NEW f \in 1..Len(bloques[j]), f < a, NEW b \in 1..Len(bloques[j][f])
                  PROVE  \/ Puesto(g, f, bloques[j][f][b].bloque)
                         \/ pedido[j].combiner /\ Len(lista_nodos') > 3 * Len(bloques[j][f])
      BY DEF Pasado
    <3>1. Pasado(en, bloques[j][f], f, pedido[j].combiner, Len(lista_nodos))
      BY DEF Lleva
    <3>2. \/ Puesto(en, f, bloques[j][f][b].bloque)
          \/ pedido[j].combiner /\ Len(lista_nodos) > 3 * Len(bloques[j][f])
      BY <3>1 DEF Pasado
    <3>3. Len(bloques[j][f]) \in Nat
      BY <1>0
    <3>4. Len(lista_nodos) > 3 * Len(bloques[j][f]) => Len(lista_nodos') > 3 * Len(bloques[j][f])
      BY <1>2, <3>3
    <3>. QED
      BY <2>9, <3>2, <3>4
  <2>11. ~pedido[j].combiner => Vistas(g, listas[j][a], a, cursor[j].lista)
    <3>1. ~pedido[j].combiner => Vistas(en, listas[j][a], a, cursor[j].lista)
      BY <2>2 DEF Lleva
    <3>. QED
      BY <2>9, <3>1 DEF Vistas
  <2>12. hilo'[j] = "suma" /\ "suma" \notin Antes /\ "suma" \notin Despues
    BY <1>0, <2>1 DEF Antes, Despues
  <2>13. Propios(j)'
    <3>1. HojasDistintas(j)' <=> HojasDistintas(j)
      BY <1>1 DEF HojasDistintas
    <3>2. Propios(j)
      BY DEF Lleva
    <3>3. ASSUME HojasDistintas(j)
          PROVE  \A f \in 1..Len(bloques'[j]) : \A q \in 1..Len(bloques'[j][f]) :
                   /\ bloques'[j][f][q].copias = disco'[pedido'[j].archivos[f]][bloques'[j][f][q].bloque]
                   /\ bloques'[j][f][q].bloque \in 1..Len(disco'[pedido'[j].archivos[f]])
      BY <1>1, <3>2, <3>3 DEF Propios
    <3>. QED
      BY <3>1, <3>3, Zenon DEF Propios
  <2>14. \A f \in 1..Len(bloques[j]) : Enlistados(listas[j][f], bloques[j][f])
    BY DEF Lleva
  <2>. QED
    BY <1>1, <2>7, <2>8, <2>10, <2>11, <2>12, <2>13, <2>14 DEF Lleva, g
<1>. QED
  BY <1>3, <1>4


(* SiguienteLista.                                                         *)
LEMMA PropiosQueda ==
  ASSUME NEW j \in Job, Propios(j), disco' = disco, pedido' = pedido, bloques'[j] = bloques[j]
  PROVE  Propios(j)'
<1>1. HojasDistintas(j)' <=> HojasDistintas(j)
  BY DEF HojasDistintas
<1>2. ASSUME HojasDistintas(j)
      PROVE  \A f \in 1..Len(bloques'[j]) : \A i \in 1..Len(bloques'[j][f]) :
               /\ bloques'[j][f][i].copias = disco'[pedido'[j].archivos[f]][bloques'[j][f][i].bloque]
               /\ bloques'[j][f][i].bloque \in 1..Len(disco'[pedido'[j].archivos[f]])
  BY <1>2, SMTT(30) DEF Propios
<1>. QED
  BY <1>1, <1>2, Zenon DEF Propios

SinNada(j) ==
  /\ hilo[j] \in {"reparte", "sigue"}
  /\ hilo[j] = "reparte" => Tomable(j) = 0
  /\ cursor[j].archivo <= Len(bloques[j])

LEMMA SinNadaTipo ==
  ASSUME TipoInv, NEW j \in Job, SinNada(j)
  PROVE  /\ cursor[j].archivo \in 1..Len(bloques[j]) /\ cursor[j].archivo \in Nat
         /\ cursor[j].lista \in Nat \ {0}
<1>1. cursor[j] \in [archivo : Nat \ {0}, lista : Nat \ {0}] /\ bloques[j] \in Seq(Seq(Leido))
  BY DEF TipoInv, Tipos
<1>2. Len(bloques[j]) \in Nat /\ cursor[j].archivo <= Len(bloques[j])
  BY <1>1 DEF SinNada
<1>. QED
  BY <1>1, <1>2

(* Without combiner the list at hand gives nothing more.                   *)
LEMMA VistaMas ==
  ASSUME TipoInv, NEW j \in Job, Lleva(j), SinNada(j), ~pedido[j].combiner
  PROVE  Vistas(enviados[j], listas[j][cursor[j].archivo], cursor[j].archivo, cursor[j].lista + 1)
<1>. DEFINE c == cursor[j]
            ls == listas[j][c.archivo]
<1>1. c.archivo \in 1..Len(bloques[j]) /\ c.lista \in Nat \ {0} /\ c.archivo \in Nat
      /\ c.archivo <= Len(bloques[j])
  BY SinNadaTipo DEF SinNada
<1>2. Vistas(enviados[j], ls, c.archivo, c.lista) /\ hilo[j] # "sigue"
  BY <1>1 DEF Lleva
<1>3. Tomable(j) = 0
  BY <1>2 DEF SinNada
<1>4. \A d \in 1..Len(ListaEn(j).bloques) :
        Marcado(j, c.archivo, ListaEn(j).nodo, ListaEn(j).bloques[d].bloque)
  BY <1>3, TomableEs
<1>5. ASSUME NEW l \in 1..Len(ls), l < c.lista + 1, NEW d \in 1..Len(ls[l].bloques)
      PROVE  Puesto(enviados[j], c.archivo, ls[l].bloques[d].bloque)
  <2>1. CASE l < c.lista
    BY <1>2, <1>5, <2>1 DEF Vistas
  <2>2. CASE l = c.lista
    <3>0. listas[j] \in Seq(Seq(Lista)) /\ Len(listas[j]) = Len(bloques[j])
      BY DEF TipoInv, Tipos, Alcanza
    <3>1. ls \in Seq(Lista)
      BY <1>1, <3>0
    <3>2. c.lista <= Len(ls)
      BY <1>5, <2>2, <3>1
    <3>3. ListaEn(j) = ls[l]
      BY <1>1, <2>2, <3>2 DEF ListaEn
    <3>. QED
      BY <1>4, <1>5, <3>3, MarcadoEs
  <2>. HIDE DEF c, ls
  <2>. QED
    BY <1>1, <1>5, <2>1, <2>2
<1>. QED
  BY <1>5 DEF Vistas

(* All lists seen, all blocks put.                                         *)
LEMMA TodoVisto ==
  ASSUME NEW env, NEW bs \in Seq(Leido), NEW ls \in Seq(Lista), NEW f, NEW l \in Nat,
         Enlistados(ls, bs), Vistas(env, ls, f, l + 1), l >= 3 * Len(bs)
  PROVE  \A b \in 1..Len(bs) : Puesto(env, f, bs[b].bloque)
<1>. TAKE b \in 1..Len(bs)
<1>1. PICK i \in 1..Len(ls) : \E p \in 1..Len(ls[i].bloques) : ls[i].bloques[p] = Tres(bs[b], 1)
  <2>1. 1 \in 1..3
    OBVIOUS
  <2>. QED
    BY <2>1 DEF Enlistados
<1>2. PICK p \in 1..Len(ls[i].bloques) : ls[i].bloques[p] = Tres(bs[b], 1)
  BY <1>1
<1>3. i < l + 1
  <2>1. Len(ls) <= 3 * Len(bs) /\ Len(ls) \in Nat /\ Len(bs) \in Nat
    BY DEF Enlistados
  <2>. QED
    BY <1>1, <2>1
<1>4. Puesto(env, f, ls[i].bloques[p].bloque)
  BY <1>1, <1>2, <1>3 DEF Vistas
<1>. QED
  BY <1>2, <1>4 DEF Tres

(* As many different blocks with a task as the file has: all of them.      *)
ConTarea(env, f) == {e.bloque : e \in {x \in ToSet(env) : x.archivo = f}}

LEMMA TodosConTarea ==
  ASSUME NEW env \in Seq(Tarea), NEW bs \in Seq(Seq(Leido)), NEW f \in 1..Len(bs), SonDe(env, bs)
  PROVE  /\ Cardinality(ConTarea(env, f)) \in Nat
         /\ Cardinality(ConTarea(env, f)) >= Len(bs[f]) =>
              \A b \in 1..Len(bs[f]) : Puesto(env, f, bs[f][b].bloque)
<1>. DEFINE n == Len(bs[f])
            M == ConTarea(env, f)
            g == [b \in 1..n |-> bs[f][b].bloque]
            B == {g[b] : b \in 1..n}
<1>1. n \in Nat
  OBVIOUS
<1>2. IsFiniteSet(1..n) /\ Cardinality(1..n) = n
  <2>. HIDE DEF n
  <2>1. 1 \in Int /\ n \in Int
    BY <1>1
  <2>2. IsFiniteSet(1..n) /\ Cardinality(1..n) = IF 1 > n THEN 0 ELSE n - 1 + 1
    BY <2>1, FS_Interval
  <2>. QED
    BY <1>1, <2>2
<1>3. g \in Surjection(1..n, B)
  <2>. HIDE DEF n
  <2>. QED
    BY DEF Surjection
<1>4. DOMAIN env = 1..Len(env)
  OBVIOUS
<1>5. M \in SUBSET B
  <2>. SUFFICES ASSUME NEW p \in 1..Len(env), env[p].archivo = f
                PROVE  env[p].bloque \in B
    BY <1>4, ZenonT(60) DEF ConTarea, ToSet
  <2>1. PICK b \in 1..Len(bs[env[p].archivo]) : env[p].bloque = bs[env[p].archivo][b].bloque
    BY DEF SonDe, DeSuBloque
  <2>. QED
    BY <2>1
<1>6. \A x \in M : Puesto(env, f, x)
  BY <1>4 DEF ConTarea, ToSet, Puesto
<1>. HIDE DEF M, B, g, n
<1>7. IsFiniteSet(B) /\ Cardinality(B) <= n
  BY <1>2, <1>3, FS_Surjection
<1>8. Cardinality(B) \in Nat
  BY <1>7, FS_CardinalityType
<1>9. IsFiniteSet(M) /\ Cardinality(M) <= Cardinality(B) /\ (Cardinality(B) = Cardinality(M) => B = M)
  BY <1>5, <1>7, FS_Subset
<1>10. Cardinality(M) \in Nat
  BY <1>9, FS_CardinalityType
<1>11. ASSUME Cardinality(M) >= n, NEW b \in 1..n
       PROVE  Puesto(env, f, bs[f][b].bloque)
  <2>1. Cardinality(B) = Cardinality(M)
    BY <1>1, <1>7, <1>8, <1>9, <1>10, <1>11
  <2>2. bs[f][b].bloque \in M
    <3>1. g[b] \in B /\ g[b] = bs[f][b].bloque
      BY <1>11 DEF B, g
    <3>. QED
      BY <1>9, <2>1, <3>1
  <2>. QED
    BY <1>6, <2>2
<1>. QED
  BY <1>10, <1>11 DEF M, n

(* When a file is left behind.                                             *)
LEMMA SeDeja ==
  ASSUME TipoInv, NEW j \in Job, Lleva(j), SinNada(j), ~DaLaVuelta(j, Len(lista_nodos)),
         ~(cursor[j].lista < 3 * Len(bloques[j][cursor[j].archivo]))
  PROVE  Pasado(enviados[j], bloques[j][cursor[j].archivo], cursor[j].archivo,
                pedido[j].combiner, Len(lista_nodos))
<1>. DEFINE a == cursor[j].archivo
            l == cursor[j].lista
            bs == bloques[j][a]
            en == enviados[j]
<1>0. /\ a \in 1..Len(bloques[j]) /\ l \in Nat /\ bloques[j] \in Seq(Seq(Leido)) /\ en \in Seq(Tarea)
      /\ listas[j] \in Seq(Seq(Lista)) /\ Len(listas[j]) = Len(bloques[j])
      /\ lista_nodos \in Seq(Entrada) /\ pedido[j].combiner \in BOOLEAN
  BY SinNadaTipo DEF TipoInv, Tipos, Alcanza
<1>1. bs \in Seq(Leido) /\ listas[j][a] \in Seq(Lista)
  BY <1>0
<1>2. Len(bs) \in Nat /\ Len(lista_nodos) \in Nat
  BY <1>0, <1>1, SMTT(30)
<1>3. l >= 3 * Len(bs)
  BY <1>0, <1>2, SMTT(30)
<1>4. CASE ~pedido[j].combiner
  <2>1. Vistas(en, listas[j][a], a, l + 1)
    BY <1>4, VistaMas
  <2>2. Enlistados(listas[j][a], bs)
    BY <1>0 DEF Lleva
  <2>3. \A b \in 1..Len(bs) : Puesto(en, a, bs[b].bloque)
    <3>. HIDE DEF a, l, bs, en
    <3>. QED
      BY <1>0, <1>1, <1>3, <2>1, <2>2, TodoVisto
  <2>. QED
    BY <2>3 DEF Pasado
<1>5. CASE pedido[j].combiner
  <2>1. /\ Cardinality(ConTarea(en, a)) \in Nat
        /\ Cardinality(ConTarea(en, a)) >= Len(bs) =>
             \A b \in 1..Len(bs) : Puesto(en, a, bs[b].bloque)
    <3>1. SonDe(en, bloques[j])
      BY DEF Lleva
    <3>. HIDE DEF a, en
    <3>. QED
      BY <1>0, <3>1, TodosConTarea
  <2>2. ~(Cardinality(ConTarea(en, a)) < Len(bs) /\ l >= Len(lista_nodos))
    BY <1>5 DEF DaLaVuelta, ConTarea
  <2>3. CASE Cardinality(ConTarea(en, a)) >= Len(bs)
    BY <2>1, <2>3 DEF Pasado
  <2>4. CASE Len(lista_nodos) > l
    <3>1. Len(lista_nodos) > 3 * Len(bs)
      <4>. HIDE DEF l, bs
      <4>. QED
        BY <1>0, <1>2, <1>3, <2>4
    <3>. QED
      BY <1>5, <3>1 DEF Pasado
  <2>. HIDE DEF a, l, bs, en
  <2>. QED
    BY <1>0, <1>2, <2>1, <2>2, <2>3, <2>4
<1>. QED
  BY <1>4, <1>5

LEMMA SiguienteListaLleva ==
  ASSUME TipoInv, TipoInv', NEW j \in Job, SiguienteLista(j), Lleva(j)
  PROVE  Lleva(j)'
<1>. DEFINE a == cursor[j].archivo
            l == cursor[j].lista
            n == Len(lista_nodos)
            en == enviados[j]
            ar == cursor'[j].archivo
            li == cursor'[j].lista
<1>00. /\ bloques[j] \in Seq(Seq(Leido))
       /\ cursor \in [Job -> [archivo : Nat \ {0}, lista : Nat \ {0}]]
       /\ hilo \in [Job -> Antes \cup Reparto \cup Despues \cup {"perdido"}]
  BY DEF TipoInv, Tipos
<1>1. /\ SinNada(j) /\ hilo'[j] = "reparte" /\ cursor'[j] = Siguiente(j)
      /\ UNCHANGED <<disco, pedido, enviados, bloques, listas, lista_nodos>>
  BY <1>00 DEF SiguienteLista, Pasa, SinNada, mdfs, tareas
<1>0. /\ a \in 1..Len(bloques[j]) /\ a \in Nat /\ l \in Nat
      /\ cursor[j] \in [archivo : Nat \ {0}, lista : Nat \ {0}]
  BY <1>00, <1>1, SinNadaTipo
<1>2. \/ ar = a /\ li = 1
      \/ ar = a /\ li = l + 1
      \/ /\ ar = a + 1 /\ li = 1
         /\ ~DaLaVuelta(j, n) /\ ~(l < 3 * Len(bloques[j][a]))
  BY <1>0, <1>1 DEF Siguiente
<1>3. Propios(j)'
  <2>1. Propios(j)
    BY DEF Lleva
  <2>. QED
    BY <1>1, <2>1, PropiosQueda
<1>4. ASSUME NEW f \in 1..Len(bloques[j]), f < ar
      PROVE  Pasado(en, bloques[j][f], f, pedido[j].combiner, n)
  <2>1. CASE f < a
    BY <2>1 DEF Lleva
  <2>2. CASE f = a
    <3>1. ~DaLaVuelta(j, n) /\ ~(l < 3 * Len(bloques[j][a]))
      BY <1>0, <1>2, <1>4, <2>2
    <3>. QED
      BY <1>1, <2>2, <3>1, SeDeja
  <2>. QED
    BY <1>0, <1>2, <1>4, <2>1, <2>2
<1>5. ASSUME ~pedido[j].combiner
      PROVE  Vistas(en, listas[j][ar], ar, li)
  <2>1. CASE li = 1
    BY <2>1 DEF Vistas
  <2>2. CASE ar = a /\ li = l + 1
    BY <1>1, <1>5, <2>2, VistaMas
  <2>. QED
    BY <1>2, <2>1, <2>2
<1>6. "reparte" \notin Antes /\ "reparte" \notin Despues
  BY DEF Antes, Despues
<1>. QED
  BY <1>1, <1>3, <1>4, <1>5, <1>6 DEF Lleva

(* The steps of the Job's own thread that choose no task.                  *)
LEMMA PasoPropio ==
  ASSUME TipoInv, TipoInv', NEW j \in Job, Paso(j), Lleva(j),
         ~Responde(j), ~Planificar(j), ~TomaBloque(j), ~SiguienteLista(j)
  PROVE  Lleva(j)'
<1>0. /\ hilo \in [Job -> Antes \cup Reparto \cup Despues \cup {"perdido"}]
      /\ lista_nodos \in Seq(Entrada) /\ lista_nodos' \in Seq(Entrada)
      /\ enviados \in [Job -> Seq(Tarea)] /\ pedido[j].combiner \in BOOLEAN
  BY DEF TipoInv, Tipos
<1>1. Len(lista_nodos) \in Nat /\ Len(lista_nodos') \in Nat /\ Len(lista_nodos) <= Len(lista_nodos')
  <2>1. CASE AgregaNodo(j)
    BY <1>0, <2>1, AgregaNodoTipo DEF Crece
  <2>2. CASE ~AgregaNodo(j)
    BY <1>0, <2>2, PasoEntradas DEF MismasEntradas
  <2>. QED
    BY <2>1, <2>2
<1>. DEFINE Reglas == /\ hilo'[j] \in Antes => hilo[j] \in Antes
                      /\ hilo'[j] = "sigue" => hilo[j] = "sigue" \/ pedido[j].combiner
                      /\ hilo'[j] \in Despues =>
                           hilo[j] \in Despues \/ cursor[j].archivo > Len(bloques[j])
            Quieto == /\ disco' = disco /\ pedido' = pedido
                      /\ bloques'[j] = bloques[j] /\ listas'[j] = listas[j] /\ cursor'[j] = cursor[j]
<1>2. MismasTareas(j) /\ Quieto /\ Reglas
  <2>0. enviados' = enviados => MismasTareas(j)
    BY DEF MismasTareas
  <2>1. CASE ConectaFs(j) \/ SePierde(j)
    BY <1>0, <2>0, <2>1 DEF ConectaFs, SePierde, Pasa, Muere, mdfs, reparto, tareas, Antes, Despues
  <2>2. CASE LeeNodos(j)
    BY <1>0, <2>0, <2>2
       DEF LeeNodos, NodoConocido, NodoDesconocido, AgregaNodo, CierraFs, Pasa, mdfs, reparto, tareas,
           Antes, Despues
  <2>3. CASE SumaCarga(j)
    BY <1>0, <2>0, <2>3 DEF SumaCarga, Pasa, mdfs, reparto, tareas, Antes, Despues
  <2>4. CASE TerminaReparto(j)
    BY <1>0, <2>0, <2>4 DEF TerminaReparto, Pasa, mdfs, reparto, tareas, Antes, Despues
  <2>5. CASE RestaCarga(j) \/ PrimerMas(j)
    BY <1>0, <2>0, <2>5 DEF RestaCarga, PrimerMas, Pasa, mdfs, reparto, tareas, Antes, Despues
  <2>6. CASE PideTotal(j)
    BY <1>0, <2>0, <2>6 DEF PideTotal, Pasa, mdfs, reparto, Antes, Despues
  <2>7. CASE EnviaTarea(j)
    <3>. DEFINE p == PorEnviar(j)
    <3>1. /\ hilo[j] = "envia" /\ p \in 1..Len(enviados[j]) /\ UNCHANGED <<mdfs, reparto>>
          /\ \/ UNCHANGED <<hilo, enviados>>
             \/ hilo' = [hilo EXCEPT ![j] = "resta"] /\ enviados' = [enviados EXCEPT ![j][p].estado = 1]
      BY <2>7, EnviaTareaHace
    <3>2. MismasTareas(j)
      <4>1. CASE UNCHANGED <<hilo, enviados>>
        BY <2>0, <4>1
      <4>2. CASE enviados' = [enviados EXCEPT ![j][p].estado = 1]
        <5>1. 1 \in 0..3 /\ Tipos
          BY DEF TipoInv
        <5>. HIDE DEF p
        <5>. QED
          BY <3>1, <4>2, <5>1, ConEstadoEs DEF MismasTareas
      <4>. QED
        BY <3>1, <4>1, <4>2
    <3>. HIDE DEF p
    <3>. QED
      BY <1>0, <3>1, <3>2 DEF mdfs, reparto, Antes, Despues
  <2>8. CASE ReciboOkMap(j) \/ ReciboOkReduce(j)
    <3>1. PICK p \in 1..Len(enviados[j]), x \in 2..3, bs \in Seq(Nat) : Recibido(j, p, x, bs)
      BY <2>8, ReciboOkHace
    <3>2. /\ hilo' = hilo /\ UNCHANGED <<mdfs, reparto>>
          /\ enviados' = [enviados EXCEPT ![j][p].estado = x]
      BY <3>1 DEF Recibido
    <3>3. MismasTareas(j)
      <4>1. x \in 0..3 /\ Tipos
        BY <3>1 DEF TipoInv
      <4>. QED
        BY <3>1, <3>2, <4>1, ConEstadoEs DEF MismasTareas
    <3>. QED
      BY <3>2, <3>3 DEF mdfs, reparto
  <2>. QED
    BY <2>1, <2>2, <2>3, <2>4, <2>5, <2>6, <2>7, <2>8 DEF Paso, Hilo, Pregunta, Reparte, Envia
<1>. QED
  BY <1>1, <1>2, PlanQueda

LEMMA PlanStep == TipoInv /\ PlanInv /\ [Next]_vars => PlanInv'
<1>. SUFFICES ASSUME TipoInv, PlanInv, [Next]_vars, NEW j \in Job
              PROVE  Lleva(j)'
  BY DEF PlanInv
<1>0. TipoInv' /\ Lleva(j)
  BY TipoStep DEF PlanInv
<1>1. CASE UNCHANGED vars
  <2>1. /\ MismasTareas(j) /\ disco' = disco /\ pedido' = pedido /\ hilo' = hilo
        /\ bloques' = bloques /\ listas' = listas /\ cursor' = cursor /\ lista_nodos' = lista_nodos
    BY <1>1 DEF vars, MismasTareas
  <2>2. Len(lista_nodos) \in Nat
    BY DEF TipoInv, Tipos
  <2>. QED
    BY <1>0, <2>1, <2>2, PlanQueda
<1>2. ASSUME NEW k \in Job, Paso(k)
      PROVE  Lleva(j)'
  <2>1. CASE k # j
    BY <1>0, <1>2, <2>1, OtroHilo
  <2>2. CASE k = j
    BY <1>0, <1>2, <2>2, RespondeLleva, PlanificarLleva, TomaBloqueLleva, SiguienteListaLleva, PasoPropio
  <2>. QED
    BY <2>1, <2>2
<1>. QED
  BY <1>1, <1>2 DEF Next, Paso

LEMMA PlanInit == Init => PlanInv
<1>. SUFFICES ASSUME Init, NEW j \in Job
              PROVE  Lleva(j)
  BY DEF PlanInv
<1>1. /\ enviados[j] = <<>> /\ bloques[j] = <<>> /\ cursor[j].archivo = 1 /\ cursor[j].lista = 1
      /\ hilo[j] = "inicio"
  BY DEF Init
<1>2. Una(enviados[j]) /\ SonDe(enviados[j], bloques[j]) /\ Propios(j)
  BY <1>1 DEF Una, SonDe, Propios
<1>. QED
  BY <1>1, <1>2 DEF Lleva, Despues

(* A task found is the one task of its block.                              *)
LEMMA SoloUna ==
  ASSUME NEW env \in Seq(Tarea), Una(env), NEW f, NEW k, Puesto(env, f, k)
  PROVE  Cardinality({p \in DOMAIN env : env[p].archivo = f /\ env[p].bloque = k}) = 1
<1>1. DOMAIN env = 1..Len(env)
  OBVIOUS
<1>2. PICK p \in 1..Len(env) : env[p].archivo = f /\ env[p].bloque = k
  BY DEF Puesto
<1>3. {q \in DOMAIN env : env[q].archivo = f /\ env[q].bloque = k} = {p}
  BY <1>1, <1>2 DEF Una
<1>. QED
  BY <1>3, FS_Singleton

(* A copy that was chosen is a copy of that block.                         *)
LEMMA CopiaBuena ==
  ASSUME TipoInv, NEW j \in Job, Lleva(j), HojasDistintas(j),
         NEW p \in 1..Len(enviados[j])
  PROVE  LET e == enviados[j][p]
         IN [nodo |-> e.nodo, bloque |-> e.enNodo] \in ToSet(disco[pedido[j].archivos[e.archivo]][e.bloque])
<1>. DEFINE e == enviados[j][p]
            bs == bloques[j]
<1>1. e.archivo \in 1..Len(bs)
  BY DEF Lleva, SonDe, DeSuBloque
<1>2. PICK b \in 1..Len(bs[e.archivo]), k \in 1..3 :
        /\ e.bloque = bs[e.archivo][b].bloque
        /\ e.nodo = bs[e.archivo][b].copias[k].nodo
        /\ e.enNodo = bs[e.archivo][b].copias[k].bloque
  BY DEF Lleva, SonDe, DeSuBloque
<1>3. bs \in Seq(Seq(Leido))
  BY DEF TipoInv, Tipos
<1>. DEFINE c == bs[e.archivo][b].copias
<1>4. c = disco[pedido[j].archivos[e.archivo]][e.bloque]
  BY <1>1, <1>2 DEF Lleva, Propios
<1>5. c \in Seq(CopiaDe) /\ Len(c) = 3
  <2>. HIDE DEF e
  <2>1. bs[e.archivo] \in Seq(Leido)
    BY <1>1, <1>3
  <2>2. bs[e.archivo][b] \in Leido
    BY <1>2, <2>1
  <2>. QED
    BY <2>2 DEF Leido
<1>. HIDE DEF c, e
<1>6. c[k] \in CopiaDe /\ k \in DOMAIN c
  <2>1. DOMAIN c = 1..Len(c) /\ \A x \in 1..Len(c) : c[x] \in CopiaDe
    <3>1. \A s \in Seq(CopiaDe) : DOMAIN s = 1..Len(s) /\ \A x \in 1..Len(s) : s[x] \in CopiaDe
      OBVIOUS
    <3>. QED
      BY <1>5, <3>1
  <2>2. k \in 1..Len(c)
    BY <1>2, <1>5
  <2>. QED
    BY <2>1, <2>2
<1>7. [nodo |-> e.nodo, bloque |-> e.enNodo] = c[k]
  BY <1>2, <1>6 DEF CopiaDe, c
<1>8. c[k] \in ToSet(c)
  BY <1>6 DEF ToSet
<1>. QED
  BY <1>4, <1>7, <1>8 DEF e

LEMMA PlanDice == TipoInv /\ PlanInv => PlanCompleto
<1>. SUFFICES ASSUME TipoInv, PlanInv, NEW j \in Job, hilo[j] \in {"envia", "resta", "trabaja", "fin"},
                     NEW f \in DOMAIN bloques[j], NEW b \in ToSet(bloques[j][f])
              PROVE  LET suyas == {e \in ToSet(enviados[j]) : e.archivo = f /\ e.bloque = b.bloque}
                         buena(e) == [nodo |-> e.nodo, bloque |-> e.enNodo]
                                       \in ToSet(disco[pedido[j].archivos[f]][b.bloque])
                     IN \/ /\ Quantify(DOMAIN enviados[j], LAMBDA p : enviados[j][p] \in suyas) = 1
                           /\ HojasDistintas(j) => \A e \in suyas : buena(e)
                        \/ /\ pedido[j].combiner
                           /\ Len(lista_nodos) > 3 * Len(bloques[j][f])
                           /\ suyas = {}
  BY DEF PlanCompleto
<1>. DEFINE en == enviados[j]
            suyas == {e \in ToSet(en) : e.archivo = f /\ e.bloque = b.bloque}
<1>0. Lleva(j)
  BY DEF PlanInv
<1>1. en \in Seq(Tarea) /\ bloques[j] \in Seq(Seq(Leido))
  BY DEF TipoInv, Tipos
<1>2. DOMAIN en = 1..Len(en) /\ f \in 1..Len(bloques[j])
  BY <1>1
<1>3. PICK i \in 1..Len(bloques[j][f]) : b = bloques[j][f][i]
  <2>1. bloques[j][f] \in Seq(Leido)
    BY <1>1, <1>2
  <2>. QED
    BY <2>1 DEF ToSet
<1>4. cursor[j].archivo > Len(bloques[j]) /\ cursor[j].archivo \in Nat
  BY <1>0 DEF Lleva, Despues, TipoInv, Tipos
<1>5. Pasado(en, bloques[j][f], f, pedido[j].combiner, Len(lista_nodos))
  <2>1. f < cursor[j].archivo
    BY <1>1, <1>2, <1>4
  <2>. QED
    BY <1>0, <1>2, <2>1 DEF Lleva
<1>6. CASE Puesto(en, f, b.bloque)
  <2>1. {p \in DOMAIN en : en[p] \in suyas} = {p \in DOMAIN en : en[p].archivo = f /\ en[p].bloque = b.bloque}
    BY <1>2 DEF ToSet
  <2>2. Una(en)
    BY <1>0 DEF Lleva
  <2>3. Cardinality({p \in DOMAIN en : en[p].archivo = f /\ en[p].bloque = b.bloque}) = 1
    <3>. HIDE DEF en
    <3>. QED
      BY <1>1, <1>6, <2>2, SoloUna
  <2>4. Quantify(DOMAIN en, LAMBDA p : en[p] \in suyas) = 1
    BY <2>1, <2>3 DEF Quantify
  <2>5. ASSUME HojasDistintas(j), NEW e \in suyas
        PROVE  [nodo |-> e.nodo, bloque |-> e.enNodo] \in ToSet(disco[pedido[j].archivos[f]][b.bloque])
    <3>1. PICK p \in 1..Len(en) : en[p] = e
      BY <1>2, <2>5 DEF ToSet
    <3>2. e.archivo = f /\ e.bloque = b.bloque
      BY <2>5
    <3>. QED
      BY <1>0, <2>5, <3>1, <3>2, CopiaBuena
  <2>. QED
    BY <2>4, <2>5
<1>7. CASE ~Puesto(en, f, b.bloque)
  <2>1. suyas = {}
    BY <1>2, <1>7 DEF ToSet, Puesto
  <2>2. pedido[j].combiner /\ Len(lista_nodos) > 3 * Len(bloques[j][f])
    BY <1>3, <1>5, <1>7 DEF Pasado
  <2>. QED
    BY <2>1, <2>2
<1>. QED
  BY <1>6, <1>7

(* When the tasks go out every block of every file has exactly one task,   *)
(* on a node that holds a copy of it unless two files share their last     *)
(* name, or, with combiner, more nodes are known than the file has copies: *)
(* the rounds over the lists (marta.c:960-1050) skip and repeat nothing.    *)
THEOREM PlanSiempreCompleto == Spec => []PlanCompleto
BY TipoInit, TipoStep, PlanInit, PlanStep, PlanDice, PTL DEF Spec

-----------------------------------------------------------------------------
(* The message of the total reduce.                                        *)

SinRepetir(s) == \A p, q \in 1..Len(s) : s[p] = s[q] => p = q

(* A stable sort by a number puts each element in one place.               *)
PorNumero(n, clave, antes) ==
  \A i, b \in 1..n : b \in antes[i] <=> clave[b] < clave[i] \/ (clave[b] = clave[i] /\ b < i)

LEMMA OrdenEs ==
  ASSUME NEW n \in Nat, NEW clave \in [1..n -> Int], NEW antes \in [1..n -> SUBSET (1..n)],
         PorNumero(n, clave, antes)
  PROVE  \E r \in [1..n -> 1..n] : Puestos(n, antes, r)
<1>0. /\ \A i \in 1..n : clave[i] \in Int /\ i \in Int
      /\ \A i, b \in 1..n : b \in antes[i] <=> clave[b] < clave[i] \/ (clave[b] = clave[i] /\ b < i)
  BY DEF PorNumero
<1>1. \A i \in 1..n : i \notin antes[i]
  BY <1>0
<1>2. \A i, j \in 1..n : i # j => i \in antes[j] \/ j \in antes[i]
  BY <1>0, SMTT(30)
<1>3. ASSUME NEW i \in 1..n, NEW j \in 1..n, j \in antes[i], NEW b \in antes[j]
      PROVE  b \in antes[i]
  <2>1. b \in 1..n
    OBVIOUS
  <2>. QED
    BY <1>0, <1>3, <2>1
<1>4. \A i, j \in 1..n : j \in antes[i] => antes[j] \subseteq antes[i]
  BY <1>3
<1>5. EsOrden(n, antes)
  BY <1>1, <1>2, <1>4 DEF EsOrden
<1>. QED
  BY <1>5, PuestosEs

LEMMA EscogidosSinRepetir ==
  ASSUME NEW S, NEW s \in Seq(S), NEW I, SinRepetir(s)
  PROVE  SinRepetir(Escogidos(s, I))
<1>. DEFINE D == Escogidos(s, I)
<1>. HIDE DEF D
<1>0. D \in Seq(S) /\ EnSuOrden(D, s, I)
  BY EscogidosEs DEF D
<1>1. PICK c \in [1..Len(D) -> 1..Len(s)] :
        /\ \A p \in DOMAIN c : c[p] \in I /\ D[p] = s[c[p]]
        /\ \A p, q \in DOMAIN c : p < q => c[p] < c[q]
  BY <1>0 DEF EnSuOrden
<1>2. DOMAIN c = 1..Len(D) /\ Len(D) \in Nat /\ Len(s) \in Nat /\ \A p \in 1..Len(D) : c[p] \in 1..Len(s)
  BY <1>0, <1>1
<1>3. ASSUME NEW p \in 1..Len(D), NEW q \in 1..Len(D), D[p] = D[q]
      PROVE  p = q
  <2>1. s[c[p]] = s[c[q]]
    BY <1>1, <1>2, <1>3
  <2>2. c[p] = c[q]
    BY <1>2, <2>1 DEF SinRepetir
  <2>3. ~(p < q) /\ ~(q < p)
    BY <1>1, <1>2, <2>2
  <2>. QED
    BY <1>2, <2>3
<1>. QED
  BY <1>3 DEF SinRepetir, D

LEMMA FlattenSinRepetir ==
  ASSUME NEW S, NEW s \in Seq(Seq(S)), \A i \in 1..Len(s) : SinRepetir(s[i]),
         \A i, j \in 1..Len(s) : \A k \in 1..Len(s[i]), l \in 1..Len(s[j]) : s[i][k] = s[j][l] => i = j
  PROVE  SinRepetir(FlattenSeq(s))
<1>. DEFINE F == FlattenSeq(s)
            n == Len(s)
<1>. HIDE DEF F, n
<1>1. PICK o \in [0..n -> Nat] :
        /\ F \in Seq(S)
        /\ \A i \in 1..n : \A k \in 1..Len(s[i]) : F[o[i - 1] + k] = s[i][k]
        /\ \A p \in 1..Len(F) : \E i \in 1..n : p - o[i - 1] \in 1..Len(s[i])
  BY FlattenEs DEF F, n
<1>2. Len(F) \in Nat /\ n \in Nat
  BY <1>1 DEF n
<1>3. \A i \in 1..n : o[i - 1] \in Nat
  BY <1>2
<1>4. ASSUME NEW p \in 1..Len(F)
      PROVE  \E i \in 1..n : \E k \in 1..Len(s[i]) : p = o[i - 1] + k /\ F[p] = s[i][k]
  <2>1. PICK i \in 1..n : p - o[i - 1] \in 1..Len(s[i])
    BY <1>1
  <2>. DEFINE k == p - o[i - 1]
  <2>2. p = o[i - 1] + k /\ k \in 1..Len(s[i])
    BY <1>2, <1>3, <2>1
  <2>. HIDE DEF k
  <2>3. F[o[i - 1] + k] = s[i][k]
    BY <1>1, <2>1, <2>2
  <2>. QED
    BY <2>1, <2>2, <2>3
<1>5. ASSUME NEW p \in 1..Len(F), NEW q \in 1..Len(F), F[p] = F[q]
      PROVE  p = q
  <2>1. PICK i \in 1..n : \E k \in 1..Len(s[i]) : p = o[i - 1] + k /\ F[p] = s[i][k]
    BY <1>4
  <2>2. PICK k \in 1..Len(s[i]) : p = o[i - 1] + k /\ F[p] = s[i][k]
    BY <2>1
  <2>3. PICK j \in 1..n : \E l \in 1..Len(s[j]) : q = o[j - 1] + l /\ F[q] = s[j][l]
    BY <1>4
  <2>4. PICK l \in 1..Len(s[j]) : q = o[j - 1] + l /\ F[q] = s[j][l]
    BY <2>3
  <2>5. i = j
    BY <1>5, <2>2, <2>4 DEF n
  <2>6. k = l
    BY <1>5, <2>2, <2>4, <2>5 DEF SinRepetir, n
  <2>. QED
    BY <2>2, <2>4, <2>5, <2>6
<1>. QED
  BY <1>5 DEF SinRepetir, F

(* What is in a sequence of sequences is in one of them.                   *)
LEMMA FlattenTiene ==
  ASSUME NEW S, NEW s \in Seq(Seq(S))
  PROVE  /\ FlattenSeq(s) \in Seq(S)
         /\ \A p \in 1..Len(FlattenSeq(s)) :
              \E i \in 1..Len(s) : \E k \in 1..Len(s[i]) : FlattenSeq(s)[p] = s[i][k]
         /\ \A i \in 1..Len(s) : \A k \in 1..Len(s[i]) :
              \E p \in 1..Len(FlattenSeq(s)) : FlattenSeq(s)[p] = s[i][k]
<1>. DEFINE F == FlattenSeq(s)
            n == Len(s)
<1>. HIDE DEF F, n
<1>1. PICK o \in [0..n -> Nat] :
        /\ o[n] = Len(F)
        /\ F \in Seq(S)
        /\ \A i \in 1..n : o[i] = o[i - 1] + Len(s[i])
        /\ \A i \in 1..n : \A k \in 1..Len(s[i]) : F[o[i - 1] + k] = s[i][k]
        /\ \A p \in 1..Len(F) : \E i \in 1..n : p - o[i - 1] \in 1..Len(s[i])
        /\ \A i, j \in 0..n : i <= j => o[i] <= o[j]
  BY FlattenEs DEF F, n
<1>2. Len(F) \in Nat /\ n \in Nat
  BY <1>1 DEF n
<1>3. \A i \in 1..n : o[i - 1] \in Nat /\ o[i] \in Nat
  BY <1>2
<1>4. \A i \in 1..n : Len(s[i]) \in Nat
  BY DEF n
<1>5. ASSUME NEW p \in 1..Len(F)
      PROVE  \E i \in 1..n : \E k \in 1..Len(s[i]) : F[p] = s[i][k]
  <2>1. PICK i \in 1..n : p - o[i - 1] \in 1..Len(s[i])
    BY <1>1
  <2>. DEFINE k == p - o[i - 1]
  <2>2. p = o[i - 1] + k /\ k \in 1..Len(s[i])
    BY <1>2, <1>3, <2>1
  <2>. HIDE DEF k
  <2>3. F[o[i - 1] + k] = s[i][k]
    BY <1>1, <2>2
  <2>. QED
    BY <2>2, <2>3
<1>6. ASSUME NEW i \in 1..n, NEW k \in 1..Len(s[i])
      PROVE  \E p \in 1..Len(F) : F[p] = s[i][k]
  <2>. DEFINE p == o[i - 1] + k
  <2>1. F[p] = s[i][k]
    BY <1>1
  <2>2. i \in 0..n /\ n \in 0..n /\ i <= n
    BY <1>2
  <2>3. o[i] <= Len(F)
    BY <1>1, <2>2
  <2>4. p \in 1..Len(F)
    <3>1. o[i] = o[i - 1] + Len(s[i]) /\ Len(s[i]) \in Nat /\ k \in 1..Len(s[i])
      BY <1>1, <1>4
    <3>2. \A x, l, m, t \in Nat : k \in 1..l /\ t = x + l /\ t <= m => x + k \in 1..m
      OBVIOUS
    <3>3. o[i - 1] \in Nat /\ o[i] \in Nat
      BY <1>3
    <3>. QED
      BY <1>2, <2>3, <3>1, <3>2, <3>3
  <2>. QED
    BY <2>1, <2>4
<1>. QED
  BY <1>1, <1>5, <1>6 DEF F, n

(* Without repetitions a sequence is the bag of its elements.              *)
LEMMA BolsaDeUnos ==
  ASSUME NEW n \in Nat, NEW s \in Seq(1..n), SinRepetir(s), \A p \in 1..n : \E i \in 1..Len(s) : s[i] = p
  PROVE  ToBag(s) = SetToBag(1..n)
<1>1. DOMAIN s = 1..Len(s) /\ \A i \in 1..Len(s) : s[i] \in 1..n
  <2>. DEFINE S == 1..n
  <2>1. s \in Seq(S)
    OBVIOUS
  <2>. HIDE DEF S
  <2>2. DOMAIN s = 1..Len(s) /\ \A i \in 1..Len(s) : s[i] \in S
    BY <2>1
  <2>. QED
    BY <2>2 DEF S
<1>2. Range(s) = 1..n
  BY <1>1 DEF Range
<1>3. ASSUME NEW x \in 1..n
      PROVE  Cardinality({i \in DOMAIN s : s[i] = x}) = 1
  <2>1. PICK i \in 1..Len(s) : s[i] = x
    OBVIOUS
  <2>2. {k \in DOMAIN s : s[k] = x} = {i}
    BY <1>1, <2>1 DEF SinRepetir
  <2>. QED
    BY <2>2, FS_Singleton
<1>. QED
  BY <1>2, <1>3 DEF ToBag, SetToBag

(* The steps of Grupos: the tasks by file, by node, and the groups.        *)
DeNodo(j, p) == enviados[j][p].nodo
DeArchivo(j, f) ==
  FlattenSeq([p \in DOMAIN [q \in DOMAIN enviados[j] |-> q] |->
    IF pedido[j].archivos[enviados[j][p].archivo] = pedido[j].archivos[f]
    THEN <<[q \in DOMAIN enviados[j] |-> q][p]>> ELSE <<>>])
Juntas(j) == FlattenSeq([f \in DOMAIN pedido[j].archivos |-> DeArchivo(j, f)])
AntesPorNodo(j, s, a) ==
  {b \in DOMAIN s : \/ Lugar[DeNodo(j, s[b])] < Lugar[DeNodo(j, s[a])]
                    \/ ~(Lugar[DeNodo(j, s[a])] < Lugar[DeNodo(j, s[b])]) /\ b < a}
PorNodo(j) ==
  [i \in DOMAIN Juntas(j) |->
    Juntas(j)[CHOOSE a \in DOMAIN Juntas(j) : Cardinality(AntesPorNodo(j, Juntas(j), a)) = i - 1]]
NodosDelTotal(j) == Distintos([i \in DOMAIN PorNodo(j) |-> DeNodo(j, PorNodo(j)[i])])
PartesEn(j, n) ==
  FlattenSeq([i \in DOMAIN PorNodo(j) |->
    IF DeNodo(j, PorNodo(j)[i]) = n THEN <<PorNodo(j)[i]>> ELSE <<>>])
Grupo(j) == [n \in Nodo |-> [nodo |-> n, partes |-> PartesEn(j, n)]]
SinOrden(j) == [i \in DOMAIN NodosDelTotal(j) |-> Grupo(j)[NodosDelTotal(j)[i]]]
AntesPorLargo(s, a) ==
  {b \in DOMAIN s : \/ Len(s[b].partes) > Len(s[a].partes)
                    \/ ~(Len(s[a].partes) > Len(s[b].partes)) /\ b < a}

LEMMA GruposSon ==
  ASSUME NEW j \in Job
  PROVE  Grupos(j) = [i \in DOMAIN SinOrden(j) |->
           SinOrden(j)[CHOOSE a \in DOMAIN SinOrden(j) :
             Cardinality(AntesPorLargo(SinOrden(j), a)) = i - 1]]
BY DEF Grupos, PorOrden, Algunos, Partes, SinOrden, Grupo, PartesEn, NodosDelTotal, PorNodo,
       AntesPorNodo, Juntas, DeArchivo, DeNodo, AntesPorLargo

Repartidas(j) ==
  /\ HojasDistintas(j)
  /\ \A p \in 1..Len(enviados[j]) : enviados[j][p].archivo \in 1..Len(pedido[j].archivos)
(* A sequence of 1..n with each number once.                               *)
Completa(s, n) == SinRepetir(s) /\ \A p \in 1..n : \E i \in 1..Len(s) : s[i] = p

LEMMA DeArchivoEs ==
  ASSUME TipoInv, NEW j \in Job, NEW f
  PROVE  LET D == DeArchivo(j, f)
             ar == pedido[j].archivos
             mismo(p) == ar[enviados[j][p].archivo] = ar[f]
         IN /\ D \in Seq(1..Len(enviados[j])) /\ SinRepetir(D)
            /\ \A k \in 1..Len(D) : mismo(D[k])
            /\ \A p \in 1..Len(enviados[j]) : mismo(p) => \E k \in 1..Len(D) : D[k] = p
<1>. DEFINE n == Len(enviados[j])
            S == 1..n
            s == [q \in DOMAIN enviados[j] |-> q]
            ar == pedido[j].archivos
            I == {p \in S : ar[enviados[j][p].archivo] = ar[f]}
            D == Escogidos(s, I)
<1>1. DOMAIN enviados[j] = 1..n /\ n \in Nat
  BY DEF TipoInv, Tipos
<1>2. s = [q \in 1..n |-> q]
  BY <1>1
<1>3. s \in Seq(S) /\ Len(s) = n /\ \A p \in S : s[p] = p
  BY <1>1, <1>2
<1>4. DeArchivo(j, f) = D
  <2>1. [p \in DOMAIN s |-> IF ar[enviados[j][p].archivo] = ar[f] THEN <<s[p]>> ELSE <<>>]
          = [p \in DOMAIN s |-> IF p \in I THEN <<s[p]>> ELSE <<>>]
    BY <1>1
  <2>. QED
    BY <2>1 DEF DeArchivo, Escogidos
<1>5. \A p \in S : p \in I <=> ar[enviados[j][p].archivo] = ar[f]
  OBVIOUS
<1>6. SinRepetir(s)
  BY <1>3 DEF SinRepetir
<1>7. S = 1..n
  OBVIOUS
<1>. HIDE DEF n, S, s, I, D
<1>8. /\ D \in Seq(S)
      /\ \A p \in 1..Len(D) : \E i \in 1..Len(s) : i \in I /\ D[p] = s[i]
      /\ \A i \in 1..Len(s) : i \in I => \E p \in 1..Len(D) : D[p] = s[i]
  BY <1>3, EscogidosSon DEF D
<1>9. SinRepetir(D)
  BY <1>3, <1>6, EscogidosSinRepetir DEF D
<1>10. ASSUME NEW k \in 1..Len(D)
       PROVE  ar[enviados[j][D[k]].archivo] = ar[f]
  <2>1. PICK i \in 1..Len(s) : i \in I /\ D[k] = s[i]
    BY <1>8
  <2>2. i \in S /\ s[i] = i
    BY <1>3, <1>7
  <2>. QED
    BY <1>5, <2>1, <2>2
<1>11. ASSUME NEW p \in S, ar[enviados[j][p].archivo] = ar[f]
       PROVE  \E k \in 1..Len(D) : D[k] = p
  <2>1. p \in I /\ s[p] = p /\ p \in 1..Len(s)
    BY <1>3, <1>5, <1>7, <1>11
  <2>. QED
    BY <1>8, <2>1
<1>. QED
  BY <1>4, <1>7, <1>8, <1>9, <1>10, <1>11 DEF n

LEMMA JuntasEs ==
  ASSUME TipoInv, NEW j \in Job
  PROVE  /\ Juntas(j) \in Seq(1..Len(enviados[j]))
         /\ Repartidas(j) => Completa(Juntas(j), Len(enviados[j]))
<1>. DEFINE n == Len(enviados[j])
            S == 1..n
            ar == pedido[j].archivos
            m == Len(ar)
            s == [f \in DOMAIN ar |-> DeArchivo(j, f)]
            J == Juntas(j)
<1>0. J = FlattenSeq(s)
  BY DEF Juntas
<1>1. DOMAIN ar = 1..m /\ m \in Nat /\ n \in Nat
  <2>1. pedido[j].archivos \in Seq(Archivo) /\ enviados[j] \in Seq(Tarea)
    BY DEF TipoInv, Tipos
  <2>. QED
    BY <2>1
<1>. HIDE DEF m
<1>2. \A f \in 1..m : /\ s[f] = DeArchivo(j, f) /\ s[f] \in Seq(S) /\ SinRepetir(s[f])
                      /\ \A k \in 1..Len(s[f]) : ar[enviados[j][s[f][k]].archivo] = ar[f]
                      /\ \A p \in S : ar[enviados[j][p].archivo] = ar[f] =>
                           \E k \in 1..Len(s[f]) : s[f][k] = p
  <2>. TAKE f \in 1..m
  <2>1. s[f] = DeArchivo(j, f)
    BY <1>1
  <2>. DEFINE D == DeArchivo(j, f)
  <2>2. /\ D \in Seq(S) /\ SinRepetir(D)
        /\ \A k \in 1..Len(D) : ar[enviados[j][D[k]].archivo] = ar[f]
        /\ \A p \in S : ar[enviados[j][p].archivo] = ar[f] => \E k \in 1..Len(D) : D[k] = p
    BY DeArchivoEs
  <2>. HIDE DEF s, D, S, ar, n
  <2>3. s[f] = D
    BY <2>1 DEF D
  <2>. QED
    BY <2>1, <2>2, <2>3
<1>3. s = [f \in 1..m |-> DeArchivo(j, f)]
  BY <1>1
<1>. HIDE DEF S, n, J
<1>4. s \in Seq(Seq(S)) /\ Len(s) = m
  <2>1. s \in [1..m -> Seq(S)]
    BY <1>2, <1>3
  <2>. HIDE DEF s
  <2>. QED
    BY <1>1, <2>1
<1>. HIDE DEF s
<1>5. /\ J \in Seq(S)
      /\ \A i \in 1..m : \A k \in 1..Len(s[i]) : \E p \in 1..Len(J) : J[p] = s[i][k]
  <2>1. /\ J \in Seq(S)
        /\ \A i \in 1..Len(s) : \A k \in 1..Len(s[i]) : \E p \in 1..Len(J) : J[p] = s[i][k]
    <3>1. /\ FlattenSeq(s) \in Seq(S)
          /\ \A p \in 1..Len(FlattenSeq(s)) :
               \E i \in 1..Len(s) : \E k \in 1..Len(s[i]) : FlattenSeq(s)[p] = s[i][k]
          /\ \A i \in 1..Len(s) : \A k \in 1..Len(s[i]) :
               \E p \in 1..Len(FlattenSeq(s)) : FlattenSeq(s)[p] = s[i][k]
      BY <1>4, FlattenTiene
    <3>. QED
      BY <1>0, <3>1
  <2>. QED
    BY <1>4, <2>1
<1>6. ASSUME Repartidas(j)
      PROVE  Completa(J, n)
  <2>1. \A f, g \in 1..m : ar[f] = ar[g] => f = g
    BY <1>1, <1>6 DEF Repartidas, HojasDistintas
  <2>2. ASSUME NEW f \in 1..m, NEW g \in 1..m, NEW k \in 1..Len(s[f]), NEW l \in 1..Len(s[g]),
               s[f][k] = s[g][l]
        PROVE  f = g
    <3>1. ar[enviados[j][s[f][k]].archivo] = ar[f] /\ ar[enviados[j][s[g][l]].archivo] = ar[g]
      BY <1>2, <2>2
    <3>. QED
      BY <2>1, <2>2, <3>1
  <2>3. SinRepetir(J)
    BY <1>0, <1>2, <1>4, <2>2, FlattenSinRepetir
  <2>4. ASSUME NEW p \in 1..n
        PROVE  \E i \in 1..Len(J) : J[i] = p
    <3>. DEFINE f == enviados[j][p].archivo
    <3>1. f \in 1..m
      BY <1>6, <2>4 DEF Repartidas, n, m
    <3>. HIDE DEF f
    <3>2. ar[enviados[j][p].archivo] = ar[f]
      BY DEF f
    <3>3. PICK k \in 1..Len(s[f]) : s[f][k] = p
      BY <1>2, <2>4, <3>1, <3>2 DEF S
    <3>. QED
      BY <1>5, <3>1, <3>3
  <2>. QED
    BY <2>3, <2>4 DEF Completa
<1>. QED
  BY <1>5, <1>6 DEF J, S, n

(* Another order, the same elements.                                       *)
Permuta(s, t, r) ==
  /\ Len(s) \in Nat /\ Len(t) = Len(s) /\ r \in [1..Len(s) -> 1..Len(s)]
  /\ \A i \in 1..Len(s) : t[i] = s[r[i]]
  /\ \A i \in 1..Len(s) : \E k \in 1..Len(s) : r[k] = i
  /\ \A k, l \in 1..Len(s) : r[k] = r[l] => k = l

LEMMA CompletaQueda ==
  ASSUME NEW s, NEW t, NEW r, Permuta(s, t, r), NEW n, Completa(s, n)
  PROVE  Completa(t, n)
<1>. DEFINE m == Len(s)
<1>0. /\ Len(t) = m /\ \A i \in 1..m : r[i] \in 1..m
      /\ \A i \in 1..m : t[i] = s[r[i]]
      /\ \A i \in 1..m : \E k \in 1..m : r[k] = i
      /\ \A k, l \in 1..m : r[k] = r[l] => k = l
  BY DEF Permuta
<1>1. /\ \A p, q \in 1..m : s[p] = s[q] => p = q
      /\ \A p \in 1..n : \E i \in 1..m : s[i] = p
  BY DEF Completa, SinRepetir
<1>. HIDE DEF m
<1>2. SinRepetir(t)
  <2>. SUFFICES ASSUME NEW p \in 1..m, NEW q \in 1..m, t[p] = t[q]
                PROVE  p = q
    BY <1>0 DEF SinRepetir
  <2>1. s[r[p]] = s[r[q]] /\ r[p] \in 1..m /\ r[q] \in 1..m
    BY <1>0
  <2>2. r[p] = r[q]
    BY <1>1, <2>1
  <2>. QED
    BY <1>0, <2>2
<1>3. \A p \in 1..n : \E i \in 1..m : t[i] = p
  <2>. TAKE p \in 1..n
  <2>1. PICK i \in 1..m : s[i] = p
    BY <1>1
  <2>2. PICK k \in 1..m : r[k] = i
    BY <1>0, <2>1
  <2>. QED
    BY <1>0, <2>1, <2>2
<1>. QED
  BY <1>0, <1>2, <1>3 DEF Completa

LEMMA PorNodoEs ==
  ASSUME TipoInv, NEW j \in Job
  PROVE  /\ PorNodo(j) \in Seq(1..Len(enviados[j]))
         /\ Repartidas(j) => Completa(PorNodo(j), Len(enviados[j]))
<1>. DEFINE n == Len(enviados[j])
            S == 1..n
            J == Juntas(j)
            N == Len(J)
            clave == [i \in 1..N |-> Lugar[DeNodo(j, J[i])]]
            A(i) == AntesPorNodo(j, J, i)
            antes == [i \in 1..N |-> A(i)]
            P == PorNodo(j)
<1>. HIDE DEF J, P, N
<1>1. /\ J \in Seq(S)
      /\ Repartidas(j) => Completa(J, n)
  BY JuntasEs DEF J
<1>. HIDE DEF S
<1>2. N \in Nat /\ DOMAIN J = 1..N /\ \A i \in 1..N : J[i] \in S
  BY <1>1 DEF N
<1>3. \A i \in 1..N : clave[i] \in Nat /\ clave[i] = Lugar[DeNodo(j, J[i])]
  <2>. TAKE i \in 1..N
  <2>1. enviados[j] \in Seq(Tarea) /\ J[i] \in S
    BY <1>2 DEF TipoInv, Tipos
  <2>2. enviados[j][J[i]] \in Tarea
    BY <2>1 DEF S
  <2>. QED
    BY <2>2, PlanificadorAssumption DEF Tarea, DeNodo
<1>. HIDE DEF clave
<1>4. clave \in [1..N -> Int]
  BY <1>3 DEF clave
<1>5. /\ antes \in [1..N -> SUBSET (1..N)]
      /\ \A a \in 1..N : antes[a] = A(a)
  BY <1>2 DEF AntesPorNodo
<1>6. PorNumero(N, clave, antes)
  <2>. SUFFICES ASSUME NEW i \in 1..N, NEW b \in 1..N
                PROVE  b \in antes[i] <=> clave[b] < clave[i] \/ (clave[b] = clave[i] /\ b < i)
    BY DEF PorNumero
  <2>1. b \in antes[i] <=> \/ clave[b] < clave[i]
                           \/ ~(clave[i] < clave[b]) /\ b < i
    BY <1>2, <1>3, <1>5 DEF AntesPorNodo
  <2>2. clave[b] \in Nat /\ clave[i] \in Nat
    BY <1>3
  <2>. QED
    BY <2>1, <2>2
<1>. HIDE DEF antes
<1>7. PICK r \in [1..N -> 1..N] : Puestos(N, antes, r)
  BY <1>2, <1>4, <1>5, <1>6, OrdenEs
<1>8. \A k \in 1..N : (CHOOSE a \in 1..N : Cardinality(A(a)) = k - 1) = r[k]
  <2>. TAKE k \in 1..N
  <2>1. \A a : (a \in 1..N /\ Cardinality(antes[a]) = k - 1) <=> (a \in 1..N /\ Cardinality(A(a)) = k - 1)
    BY <1>5
  <2>. HIDE DEF A
  <2>2. (CHOOSE a \in 1..N : Cardinality(antes[a]) = k - 1)
          = (CHOOSE a \in 1..N : Cardinality(A(a)) = k - 1)
    BY <2>1
  <2>. QED
    BY <1>7, <2>2 DEF Puestos
<1>. DEFINE elegido == [i \in 1..N |-> CHOOSE a \in 1..N : Cardinality(A(a)) = i - 1]
<1>9. P = [i \in 1..N |-> J[elegido[i]]] /\ \A i \in 1..N : elegido[i] = r[i]
  <2>1. P = [i \in 1..N |-> J[CHOOSE a \in 1..N : Cardinality(A(a)) = i - 1]]
    BY <1>2 DEF P, PorNodo, J
  <2>. HIDE DEF A
  <2>2. \A i \in 1..N : elegido[i] = CHOOSE a \in 1..N : Cardinality(A(a)) = i - 1
    OBVIOUS
  <2>. QED
    BY <1>8, <2>1, <2>2
<1>. HIDE DEF A, elegido
<1>10. P = [i \in 1..N |-> J[r[i]]]
  BY <1>9
<1>11. P \in Seq(S) /\ Len(P) = N /\ \A i \in 1..N : P[i] = J[r[i]]
  <2>1. \A i \in 1..N : r[i] \in 1..N
    BY <1>7
  <2>. QED
    BY <1>2, <1>10, <2>1
<1>12. ASSUME Repartidas(j)
       PROVE  Completa(P, n)
  <2>1. Completa(J, n) /\ Len(J) = N
    BY <1>1, <1>12 DEF N
  <2>2. /\ \A i \in 1..N : \E k \in 1..N : r[k] = i
        /\ \A k, l \in 1..N : r[k] = r[l] => k = l
    BY <1>7 DEF Puestos
  <2>3. Permuta(J, P, r)
    BY <1>2, <1>7, <1>11, <2>1, <2>2 DEF Permuta
  <2>. HIDE DEF n
  <2>. QED
    BY <2>1, <2>3, CompletaQueda
<1>. QED
  BY <1>11, <1>12 DEF P, S

(* The nodes of the tasks, each once.                                      *)
LEMMA NodosDelTotalEs ==
  ASSUME TipoInv, NEW j \in Job
  PROVE  LET G == NodosDelTotal(j)
             P == PorNodo(j)
         IN /\ G \in Seq(Nodo) /\ SinRepetir(G)
            /\ \A i \in 1..Len(P) : \E g \in 1..Len(G) : G[g] = DeNodo(j, P[i])
<1>. DEFINE n == Len(enviados[j])
            S == 1..n
            P == PorNodo(j)
            s == [i \in DOMAIN P |-> DeNodo(j, P[i])]
            G == Distintos(s)
<1>1. P \in Seq(S)
  BY PorNodoEs
<1>2. \A p \in S : DeNodo(j, p) \in Nodo
  <2>. TAKE p \in S
  <2>1. enviados[j][p] \in Tarea
    BY DEF TipoInv, Tipos
  <2>. QED
    BY <2>1 DEF Tarea, DeNodo
<1>. HIDE DEF n, S, P
<1>3. s \in Seq(Nodo) /\ Len(s) = Len(P) /\ \A i \in 1..Len(P) : s[i] = DeNodo(j, P[i])
  <2>1. DOMAIN P = 1..Len(P) /\ Len(P) \in Nat /\ \A i \in 1..Len(P) : P[i] \in S
    BY <1>1
  <2>2. \A i \in 1..Len(P) : DeNodo(j, P[i]) \in Nodo
    BY <1>2, <2>1
  <2>3. s = [i \in 1..Len(P) |-> DeNodo(j, P[i])]
    BY <2>1
  <2>4. s \in [1..Len(P) -> Nodo]
    BY <2>2, <2>3
  <2>. QED
    BY <2>1, <2>3, <2>4
<1>4. NodosDelTotal(j) = G
  BY DEF NodosDelTotal, P
<1>. HIDE DEF s, G
<1>5. /\ G \in Seq(Nodo)
      /\ \A p, q \in 1..Len(G) : G[p] = G[q] => p = q
      /\ \A i \in 1..Len(s) : \E p \in 1..Len(G) : G[p] = s[i]
  BY <1>3, DistintosEs DEF G
<1>. QED
  BY <1>3, <1>4, <1>5 DEF SinRepetir, P

(* The partial results of a node.                                          *)
LEMMA PartesEnEs ==
  ASSUME TipoInv, NEW j \in Job, NEW m \in Nodo
  PROVE  LET D == PartesEn(j, m)
             P == PorNodo(j)
         IN /\ D \in Seq(1..Len(enviados[j]))
            /\ \A k \in 1..Len(D) : DeNodo(j, D[k]) = m
            /\ \A i \in 1..Len(P) : DeNodo(j, P[i]) = m => \E k \in 1..Len(D) : D[k] = P[i]
            /\ SinRepetir(P) => SinRepetir(D)
<1>. DEFINE n == Len(enviados[j])
            S == 1..n
            P == PorNodo(j)
            I == {i \in DOMAIN P : DeNodo(j, P[i]) = m}
            D == Escogidos(P, I)
<1>1. P \in Seq(S)
  BY PorNodoEs
<1>2. PartesEn(j, m) = D
  <2>1. [i \in DOMAIN P |-> IF DeNodo(j, P[i]) = m THEN <<P[i]>> ELSE <<>>]
          = [i \in DOMAIN P |-> IF i \in I THEN <<P[i]>> ELSE <<>>]
    OBVIOUS
  <2>. QED
    BY <2>1 DEF PartesEn, Escogidos
<1>3. S = 1..Len(enviados[j])
  OBVIOUS
<1>. HIDE DEF n, S, P
<1>4. \A i \in 1..Len(P) : i \in I <=> DeNodo(j, P[i]) = m
  <2>1. DOMAIN P = 1..Len(P)
    BY <1>1
  <2>. QED
    BY <2>1
<1>. HIDE DEF I, D
<1>5. /\ D \in Seq(S)
      /\ \A k \in 1..Len(D) : \E i \in 1..Len(P) : i \in I /\ D[k] = P[i]
      /\ \A i \in 1..Len(P) : i \in I => \E k \in 1..Len(D) : D[k] = P[i]
  BY <1>1, EscogidosSon DEF D
<1>6. SinRepetir(P) => SinRepetir(D)
  BY <1>1, EscogidosSinRepetir DEF D
<1>7. \A k \in 1..Len(D) : DeNodo(j, D[k]) = m
  BY <1>4, <1>5
<1>8. \A i \in 1..Len(P) : DeNodo(j, P[i]) = m => \E k \in 1..Len(D) : D[k] = P[i]
  BY <1>4, <1>5
<1>. QED
  BY <1>2, <1>3, <1>5, <1>6, <1>7, <1>8 DEF P

(* What the message of the total reduce is to hold: no node twice, results *)
(* under the node that made them, and each of the tasks once.              *)
Buenos(env, hojas, gs) ==
  /\ gs \in Seq([nodo : Nodo, partes : Seq(1..Len(env))])
  /\ \A a, b \in 1..Len(gs) : gs[a].nodo = gs[b].nodo => a = b
  /\ \A a \in 1..Len(gs) : \A k \in 1..Len(gs[a].partes) : env[gs[a].partes[k]].nodo = gs[a].nodo
  /\ hojas => /\ \A a \in 1..Len(gs) : SinRepetir(gs[a].partes)
              /\ \A p \in 1..Len(env) :
                   \E a \in 1..Len(gs) : \E k \in 1..Len(gs[a].partes) : gs[a].partes[k] = p

LEMMA SinOrdenBuenos ==
  ASSUME TipoInv, NEW j \in Job
  PROVE  Buenos(enviados[j], Repartidas(j), SinOrden(j))
<1>. DEFINE n == Len(enviados[j])
            S == 1..n
            G == NodosDelTotal(j)
            P == PorNodo(j)
            gs == SinOrden(j)
<1>1. G \in Seq(Nodo) /\ SinRepetir(G)
  BY NodosDelTotalEs
<1>2. \A i \in 1..Len(P) : \E g \in 1..Len(G) : G[g] = DeNodo(j, P[i])
  BY NodosDelTotalEs
<1>3. Repartidas(j) => SinRepetir(P) /\ \A p \in S : \E i \in 1..Len(P) : P[i] = p
  BY PorNodoEs DEF Completa
<1>4. \A m \in Nodo :
        /\ PartesEn(j, m) \in Seq(S)
        /\ \A k \in 1..Len(PartesEn(j, m)) : DeNodo(j, PartesEn(j, m)[k]) = m
        /\ \A i \in 1..Len(P) : DeNodo(j, P[i]) = m =>
             \E k \in 1..Len(PartesEn(j, m)) : PartesEn(j, m)[k] = P[i]
        /\ SinRepetir(P) => SinRepetir(PartesEn(j, m))
  BY PartesEnEs
<1>. HIDE DEF n, S, G, P
<1>5. DOMAIN G = 1..Len(G) /\ Len(G) \in Nat /\ \A i \in 1..Len(G) : G[i] \in Nodo
  BY <1>1
<1>6. gs = [i \in 1..Len(G) |-> [nodo |-> G[i], partes |-> PartesEn(j, G[i])]]
  BY <1>5 DEF SinOrden, Grupo, G
<1>. HIDE DEF gs
<1>7. /\ gs \in Seq([nodo : Nodo, partes : Seq(S)]) /\ Len(gs) = Len(G)
      /\ \A i \in 1..Len(G) : gs[i].nodo = G[i] /\ gs[i].partes = PartesEn(j, G[i])
  <2>1. \A i \in 1..Len(G) : [nodo |-> G[i], partes |-> PartesEn(j, G[i])] \in [nodo : Nodo, partes : Seq(S)]
    BY <1>4, <1>5
  <2>2. gs \in [1..Len(G) -> [nodo : Nodo, partes : Seq(S)]]
    BY <1>6, <2>1
  <2>. QED
    BY <1>5, <1>6, <2>2
<1>8. \A a, b \in 1..Len(gs) : gs[a].nodo = gs[b].nodo => a = b
  BY <1>1, <1>7 DEF SinRepetir
<1>9. ASSUME NEW a \in 1..Len(gs), NEW k \in 1..Len(gs[a].partes)
      PROVE  enviados[j][gs[a].partes[k]].nodo = gs[a].nodo
  <2>1. G[a] \in Nodo /\ gs[a].nodo = G[a] /\ gs[a].partes = PartesEn(j, G[a])
    BY <1>5, <1>7
  <2>. QED
    BY <1>4, <2>1 DEF DeNodo
<1>10. ASSUME Repartidas(j)
       PROVE  \A a \in 1..Len(gs) : SinRepetir(gs[a].partes)
  BY <1>3, <1>4, <1>5, <1>7, <1>10
<1>11. ASSUME Repartidas(j), NEW p \in S
       PROVE  \E a \in 1..Len(gs) : \E k \in 1..Len(gs[a].partes) : gs[a].partes[k] = p
  <2>1. PICK i \in 1..Len(P) : P[i] = p
    BY <1>3, <1>11
  <2>2. PICK g \in 1..Len(G) : G[g] = DeNodo(j, P[i])
    BY <1>2
  <2>3. PICK k \in 1..Len(PartesEn(j, G[g])) : PartesEn(j, G[g])[k] = P[i]
    BY <1>4, <1>5, <2>2
  <2>. QED
    BY <1>7, <2>1, <2>3
<1>. QED
  BY <1>7, <1>8, <1>9, <1>10, <1>11 DEF Buenos, gs, S, n

LEMMA GruposBuenos ==
  ASSUME TipoInv, NEW j \in Job
  PROVE  Buenos(enviados[j], Repartidas(j), Grupos(j))
<1>. DEFINE E == [nodo : Nodo, partes : Seq(1..Len(enviados[j]))]
            s == SinOrden(j)
            N == Len(s)
            clave == [i \in 1..N |-> -Len(s[i].partes)]
            A(i) == AntesPorLargo(s, i)
            antes == [i \in 1..N |-> A(i)]
            gs == Grupos(j)
<1>. HIDE DEF s, N, gs
<1>0. Buenos(enviados[j], Repartidas(j), s)
  BY SinOrdenBuenos DEF s
<1>1. s \in Seq(E)
  BY <1>0 DEF Buenos
<1>. HIDE DEF E
<1>2. \A i \in DOMAIN s : Len(s[i].partes) \in Nat
  <2>. TAKE i \in DOMAIN s
  <2>. DEFINE S == 1..Len(enviados[j])
  <2>1. s[i] \in E
    BY <1>1
  <2>2. s[i].partes \in Seq(S)
    BY <2>1 DEF E
  <2>. HIDE DEF S
  <2>. QED
    BY <2>2
<1>3. N \in Nat /\ DOMAIN s = 1..N /\ \A i \in 1..N : s[i] \in E
  BY <1>1 DEF N
<1>4. \A i \in 1..N : clave[i] = -Len(s[i].partes) /\ Len(s[i].partes) \in Nat
  BY <1>2, <1>3
<1>. HIDE DEF clave
<1>5. clave \in [1..N -> Int]
  BY <1>2, <1>3 DEF clave
<1>6. /\ antes \in [1..N -> SUBSET (1..N)]
      /\ \A a \in 1..N : antes[a] = A(a)
  BY <1>3 DEF AntesPorLargo
<1>7. PorNumero(N, clave, antes)
  <2>. SUFFICES ASSUME NEW i \in 1..N, NEW b \in 1..N
                PROVE  b \in antes[i] <=> clave[b] < clave[i] \/ (clave[b] = clave[i] /\ b < i)
    BY DEF PorNumero
  <2>. DEFINE x == Len(s[i].partes)
              y == Len(s[b].partes)
  <2>1. b \in antes[i] <=> y > x \/ (~(x > y) /\ b < i)
    BY <1>3, <1>6 DEF AntesPorLargo
  <2>2. x \in Nat /\ y \in Nat /\ clave[b] = -y /\ clave[i] = -x
    BY <1>4
  <2>. HIDE DEF x, y
  <2>. QED
    BY <2>1, <2>2
<1>. HIDE DEF antes
<1>8. PICK r \in [1..N -> 1..N] : Puestos(N, antes, r)
  BY <1>3, <1>5, <1>6, <1>7, OrdenEs
<1>9. \A k \in 1..N : (CHOOSE a \in 1..N : Cardinality(A(a)) = k - 1) = r[k]
  <2>. TAKE k \in 1..N
  <2>1. \A a : (a \in 1..N /\ Cardinality(antes[a]) = k - 1) <=> (a \in 1..N /\ Cardinality(A(a)) = k - 1)
    BY <1>6
  <2>. HIDE DEF A
  <2>2. (CHOOSE a \in 1..N : Cardinality(antes[a]) = k - 1)
          = (CHOOSE a \in 1..N : Cardinality(A(a)) = k - 1)
    BY <2>1
  <2>. QED
    BY <1>8, <2>2 DEF Puestos
<1>. DEFINE elegido == [i \in 1..N |-> CHOOSE a \in 1..N : Cardinality(A(a)) = i - 1]
<1>10. gs = [i \in 1..N |-> s[elegido[i]]] /\ \A i \in 1..N : elegido[i] = r[i]
  <2>1. gs = [i \in 1..N |-> s[CHOOSE a \in 1..N : Cardinality(A(a)) = i - 1]]
    <3>1. gs = [i \in DOMAIN s |-> s[CHOOSE a \in DOMAIN s : Cardinality(A(a)) = i - 1]]
      BY GruposSon DEF gs, s
    <3>. HIDE DEF A
    <3>. QED
      BY <1>3, <3>1
  <2>. HIDE DEF A
  <2>2. \A i \in 1..N : elegido[i] = CHOOSE a \in 1..N : Cardinality(A(a)) = i - 1
    OBVIOUS
  <2>. QED
    BY <1>9, <2>1, <2>2
<1>. HIDE DEF A, elegido
<1>11. gs = [i \in 1..N |-> s[r[i]]]
  BY <1>10
<1>12. \A i \in 1..N : r[i] \in 1..N
  BY <1>8
<1>13. gs \in Seq(E) /\ Len(gs) = N /\ \A i \in 1..N : gs[i] = s[r[i]]
  BY <1>3, <1>11, <1>12
<1>14. /\ \A i \in 1..N : \E k \in 1..N : r[k] = i
       /\ \A k, l \in 1..N : r[k] = r[l] => k = l
  BY <1>8 DEF Puestos
<1>15. /\ \A a, b \in 1..N : s[a].nodo = s[b].nodo => a = b
       /\ \A a \in 1..N : \A k \in 1..Len(s[a].partes) : enviados[j][s[a].partes[k]].nodo = s[a].nodo
       /\ Repartidas(j) => \A a \in 1..N : SinRepetir(s[a].partes)
  BY <1>0 DEF Buenos, N
<1>16. \A a, b \in 1..N : gs[a].nodo = gs[b].nodo => a = b
  <2>. TAKE a, b \in 1..N
  <2>1. gs[a].nodo = gs[b].nodo => r[a] = r[b]
    BY <1>12, <1>13, <1>15
  <2>. QED
    BY <1>14, <2>1
<1>17. ASSUME NEW a \in 1..N, NEW k \in 1..Len(gs[a].partes)
       PROVE  enviados[j][gs[a].partes[k]].nodo = gs[a].nodo
  BY <1>12, <1>13, <1>15
<1>18. Repartidas(j) => \A a \in 1..N : SinRepetir(gs[a].partes)
  BY <1>12, <1>13, <1>15
<1>19. ASSUME Repartidas(j), NEW p \in 1..Len(enviados[j])
       PROVE  \E a \in 1..N : \E k \in 1..Len(gs[a].partes) : gs[a].partes[k] = p
  <2>1. PICK b \in 1..N : \E k \in 1..Len(s[b].partes) : s[b].partes[k] = p
    BY <1>0, <1>19 DEF Buenos, N
  <2>2. PICK a \in 1..N : r[a] = b
    BY <1>14
  <2>3. gs[a] = s[b]
    BY <1>13, <2>2
  <2>. QED
    BY <2>1, <2>3
<1>. QED
  BY <1>13, <1>16, <1>17, <1>18, <1>19 DEF Buenos, gs, E

(* The invariant: the message of a Job whose total reduce was asked for    *)
(* holds its tasks; an answer has as many files as were asked for.         *)
TotalDe(j) ==
  /\ Len(bloques[j]) <= Len(pedido[j].archivos)
  /\ hilo[j] = "fin" => Buenos(enviados[j], HojasDistintas(j), total[j])
TotalInv == \A j \in Job : TotalDe(j)

LEMMA TotalInit == Init => TotalInv
<1>. SUFFICES ASSUME Init, NEW j \in Job
              PROVE  TotalDe(j)
  BY DEF TotalInv
<1>1. bloques[j] = <<>> /\ hilo[j] # "fin"
  BY DEF Init
<1>2. Len(pedido[j].archivos) \in Nat
  BY TipoInit DEF TipoInv, Tipos
<1>. QED
  BY <1>1, <1>2 DEF TotalDe

LEMMA PideTotalDe ==
  ASSUME TipoInv, PlanInv, NEW j \in Job, TotalDe(j), PideTotal(j)
  PROVE  TotalDe(j)'
<1>1. /\ total'[j] = Grupos(j) /\ enviados' = enviados /\ pedido' = pedido /\ bloques' = bloques
  BY DEF PideTotal, TipoInv, Tipos, mdfs, reparto
<1>2. HojasDistintas(j) => Repartidas(j)
  <2>1. \A p \in 1..Len(enviados[j]) : enviados[j][p].archivo \in 1..Len(bloques[j])
    BY DEF PlanInv, Lleva, SonDe, DeSuBloque
  <2>2. /\ Len(bloques[j]) \in Nat /\ Len(pedido[j].archivos) \in Nat
        /\ Len(bloques[j]) <= Len(pedido[j].archivos)
    <3>1. bloques[j] \in Seq(Seq(Leido)) /\ pedido[j].archivos \in Seq(Archivo)
      BY DEF TipoInv, Tipos
    <3>. QED
      BY <3>1 DEF TotalDe
  <2>3. 1..Len(bloques[j]) \subseteq 1..Len(pedido[j].archivos)
    BY <2>2
  <2>. QED
    BY <2>1, <2>3 DEF Repartidas
<1>3. Buenos(enviados[j], Repartidas(j), Grupos(j))
  BY GruposBuenos
<1>4. Buenos(enviados[j], HojasDistintas(j), Grupos(j))
  BY <1>2, <1>3 DEF Buenos
<1>5. HojasDistintas(j)' <=> HojasDistintas(j)
  BY <1>1 DEF HojasDistintas
<1>6. Buenos(enviados[j], HojasDistintas(j)', Grupos(j))
  BY <1>4, <1>5 DEF Buenos
<1>. QED
  BY <1>1, <1>6 DEF TotalDe

(* Any other step leaves a message that was sent as it is.                 *)
Manda(j) ==
  /\ pedido' = pedido
  /\ Len(bloques'[j]) <= Len(pedido[j].archivos)
  /\ hilo'[j] = "fin" => hilo[j] = "fin" /\ enviados'[j] = enviados[j] /\ total'[j] = total[j]

LEMMA MandaQueda ==
  ASSUME NEW j \in Job, TotalDe(j), Manda(j)
  PROVE  TotalDe(j)'
<1>1. HojasDistintas(j)' <=> HojasDistintas(j)
  BY DEF Manda, HojasDistintas
<1>2. ASSUME hilo'[j] = "fin"
      PROVE  Buenos(enviados'[j], HojasDistintas(j)', total'[j])
  <2>1. Buenos(enviados[j], HojasDistintas(j), total[j]) /\ enviados'[j] = enviados[j] /\ total'[j] = total[j]
    BY <1>2 DEF Manda, TotalDe
  <2>2. Buenos(enviados[j], HojasDistintas(j)', total[j])
    BY <1>1, <2>1 DEF Buenos
  <2>. QED
    BY <2>1, <2>2
<1>. QED
  BY <1>2 DEF Manda, TotalDe

LEMMA RespondeManda ==
  ASSUME TipoInv, NEW j \in Job, Responde(j)
  PROVE  Manda(j)
<1>. DEFINE ar == pedido[j].archivos
            bs == bloques'[j]
<1>1. /\ ar \in Seq(Archivo) /\ bloques \in [Job -> Seq(Seq(Leido))]
      /\ hilo \in [Job -> Antes \cup Reparto \cup Despues \cup {"perdido"}]
  BY DEF TipoInv, Tipos
<1>2. pedido' = pedido /\ hilo'[j] # "fin"
  BY <1>1 DEF Responde, Pasa, mdfs
<1>3. bs = [f \in DOMAIN ar |-> <<>>] \/ bs = Leidos(ar, Pedidos(j))
  BY <1>1 DEF Responde
<1>4. DOMAIN bs = DOMAIN ar
  BY <1>3 DEF Leidos
<1>5. bs \in Seq(Seq(Leido))
  BY RespondeTipo DEF TipoInv, Tipos
<1>. HIDE DEF ar, bs
<1>6. Len(bs) = Len(ar) /\ Len(ar) \in Nat
  <2>1. DOMAIN bs = 1..Len(bs) /\ DOMAIN ar = 1..Len(ar) /\ Len(bs) \in Nat /\ Len(ar) \in Nat
    BY <1>1, <1>5
  <2>2. 1..Len(bs) = 1..Len(ar)
    BY <1>4, <2>1
  <2>3. \A x, y \in Nat : 1..x = 1..y => x = y
    <3>. TAKE x, y \in Nat
    <3>1. IsFiniteSet(1..x) /\ Cardinality(1..x) = x /\ Cardinality(1..y) = y
      BY FS_Interval
    <3>. QED
      BY <3>1
  <2>. QED
    BY <2>1, <2>2, <2>3
<1>. QED
  BY <1>2, <1>6 DEF Manda, ar, bs

LEMMA TotalStep == TipoInv /\ PlanInv /\ TotalInv /\ [Next]_vars => TotalInv'
<1>. SUFFICES ASSUME TipoInv, PlanInv, TotalInv, [Next]_vars, NEW j \in Job
              PROVE  TotalDe(j)'
  BY DEF TotalInv
<1>0. /\ TotalDe(j) /\ Len(bloques[j]) <= Len(pedido[j].archivos)
      /\ hilo \in [Job -> Antes \cup Reparto \cup Despues \cup {"perdido"}]
      /\ total[j] = total[j] /\ DOMAIN total = Job
      /\ bloques \in [Job -> Seq(Seq(Leido))] /\ enviados \in [Job -> Seq(Tarea)]
  BY DEF TotalInv, TotalDe, TipoInv, Tipos
<1>1. CASE UNCHANGED vars
  <2>1. Manda(j)
    BY <1>0, <1>1 DEF Manda, vars
  <2>. QED
    BY <1>0, <2>1, MandaQueda
<1>2. ASSUME NEW k \in Job, Paso(k)
      PROVE  TotalDe(j)'
  <2>1. CASE PideTotal(k) /\ k = j
    BY <1>0, <2>1, PideTotalDe
  <2>2. CASE Responde(k) /\ k = j
    BY <1>0, <2>2, RespondeManda, MandaQueda
  <2>3. CASE k # j \/ ~(PideTotal(k) \/ Responde(k))
    <3>1. Manda(j)
      <4>1. CASE Pregunta(k)
        BY <1>0, <2>3, <4>1
           DEF Pregunta, ConectaFs, Responde, SePierde, Pasa, Muere, mdfs, reparto, tareas, lectura, Manda
      <4>2. CASE LeeNodos(k)
        BY <1>0, <4>2 DEF LeeNodos, NodoConocido, NodoDesconocido, AgregaNodo, CierraFs, Pasa, mdfs,
                          reparto, tareas, Manda
      <4>3. CASE Planificar(k) \/ SumaCarga(k) \/ SiguienteLista(k) \/ TerminaReparto(k)
        BY <1>0, <4>3 DEF Planificar, SumaCarga, SiguienteLista, TerminaReparto, Pasa, mdfs,
                          reparto, tareas, Manda
      <4>4. CASE TomaBloque(k)
        BY <1>0, <4>4 DEF TomaBloque, Pasa, Muere, mdfs, reparto, Manda
      <4>5. CASE EnviaTarea(k)
        BY <1>0, <4>5 DEF EnviaTarea, Pasa, Muere, mdfs, reparto, Manda
      <4>6. CASE RestaCarga(k) \/ PrimerMas(k)
        BY <1>0, <4>6 DEF RestaCarga, PrimerMas, Pasa, mdfs, reparto, tareas, Manda
      <4>7. CASE ReciboOkMap(k) \/ ReciboOkReduce(k)
        BY <1>0, <4>7 DEF ReciboOkMap, ReciboOkReduce, Pasa, mdfs, reparto, Manda
      <4>8. CASE PideTotal(k)
        BY <1>0, <2>3, <4>8 DEF PideTotal, Pasa, mdfs, reparto, Manda
      <4>. QED
        BY <1>2, <4>1, <4>2, <4>3, <4>4, <4>5, <4>6, <4>7, <4>8 DEF Paso, Hilo, Reparte, Envia
    <3>. QED
      BY <1>0, <3>1, MandaQueda
  <2>. QED
    BY <2>1, <2>2, <2>3
<1>. QED
  BY <1>1, <1>2 DEF Next, Paso

LEMMA BuenosEnBolsa ==
  ASSUME NEW env \in Seq(Tarea), NEW gs, Buenos(env, TRUE, gs)
  PROVE  ToBag(FlattenSeq([a \in DOMAIN gs |-> gs[a].partes])) = SetToBag(DOMAIN env)
<1>. DEFINE n == Len(env)
            S == 1..n
            s == [a \in DOMAIN gs |-> gs[a].partes]
            m == Len(gs)
            F == FlattenSeq(s)
<1>1. n \in Nat /\ DOMAIN env = 1..n
  OBVIOUS
<1>2. /\ gs \in Seq([nodo : Nodo, partes : Seq(S)])
      /\ \A a, b \in 1..m : gs[a].nodo = gs[b].nodo => a = b
      /\ \A a \in 1..m : \A k \in 1..Len(gs[a].partes) : env[gs[a].partes[k]].nodo = gs[a].nodo
      /\ \A a \in 1..m : SinRepetir(gs[a].partes)
      /\ \A p \in S : \E a \in 1..m : \E k \in 1..Len(gs[a].partes) : gs[a].partes[k] = p
  BY DEF Buenos
<1>. HIDE DEF S, n
<1>3. DOMAIN gs = 1..m /\ m \in Nat /\ \A a \in 1..m : gs[a].partes \in Seq(S)
  <2>. DEFINE E == [nodo : Nodo, partes : Seq(S)]
  <2>1. gs \in Seq(E)
    BY <1>2
  <2>. HIDE DEF E
  <2>2. DOMAIN gs = 1..m /\ m \in Nat /\ \A a \in 1..m : gs[a] \in E
    BY <2>1
  <2>. QED
    BY <2>2 DEF E
<1>. HIDE DEF m
<1>4. s = [a \in 1..m |-> gs[a].partes] /\ \A a \in 1..m : s[a] = gs[a].partes
  BY <1>3
<1>. HIDE DEF s
<1>5. s \in Seq(Seq(S)) /\ Len(s) = m
  <2>1. s \in [1..m -> Seq(S)]
    BY <1>3, <1>4
  <2>. QED
    BY <1>3, <1>4, <2>1
<1>6. ASSUME NEW a \in 1..m, NEW b \in 1..m, NEW k \in 1..Len(s[a]), NEW l \in 1..Len(s[b]),
             s[a][k] = s[b][l]
      PROVE  a = b
  <2>1. gs[a].nodo = env[s[a][k]].nodo /\ gs[b].nodo = env[s[b][l]].nodo
    BY <1>2, <1>4
  <2>. QED
    BY <1>2, <1>6, <2>1
<1>7. SinRepetir(F)
  <2>1. \A a \in 1..m : SinRepetir(s[a])
    BY <1>2, <1>4
  <2>. QED
    BY <1>5, <1>6, <2>1, FlattenSinRepetir
<1>8. /\ F \in Seq(S)
      /\ \A a \in 1..Len(s) : \A k \in 1..Len(s[a]) : \E p \in 1..Len(F) : F[p] = s[a][k]
  <2>1. /\ FlattenSeq(s) \in Seq(S)
        /\ \A p \in 1..Len(FlattenSeq(s)) :
             \E i \in 1..Len(s) : \E k \in 1..Len(s[i]) : FlattenSeq(s)[p] = s[i][k]
        /\ \A i \in 1..Len(s) : \A k \in 1..Len(s[i]) :
             \E p \in 1..Len(FlattenSeq(s)) : FlattenSeq(s)[p] = s[i][k]
    BY <1>5, FlattenTiene
  <2>. QED
    BY <2>1
<1>. HIDE DEF F
<1>9. \A p \in S : \E i \in 1..Len(F) : F[i] = p
  <2>. TAKE p \in S
  <2>1. PICK a \in 1..m : \E k \in 1..Len(s[a]) : s[a][k] = p
    BY <1>2, <1>4
  <2>. QED
    BY <1>5, <1>8, <2>1
<1>10. ToBag(F) = SetToBag(1..n)
  BY <1>1, <1>7, <1>8, <1>9, BolsaDeUnos DEF S
<1>. QED
  BY <1>1, <1>10 DEF F, s

LEMMA TotalDice == TipoInv /\ TotalInv => TotalCompleto
<1>. SUFFICES ASSUME TipoInv, TotalInv, NEW j \in Job, hilo[j] = "fin"
              PROVE  LET gs == total[j] IN
                     /\ \A a, b \in DOMAIN gs : gs[a].nodo = gs[b].nodo => a = b
                     /\ \A a \in DOMAIN gs : \A p \in ToSet(gs[a].partes) : enviados[j][p].nodo = gs[a].nodo
                     /\ HojasDistintas(j) =>
                          ToBag(FlattenSeq([a \in DOMAIN gs |-> gs[a].partes])) = SetToBag(DOMAIN enviados[j])
  BY DEF TotalCompleto
<1>. DEFINE gs == total[j]
            S == 1..Len(enviados[j])
            E == [nodo : Nodo, partes : Seq(S)]
<1>1. Buenos(enviados[j], HojasDistintas(j), gs) /\ enviados[j] \in Seq(Tarea)
  BY DEF TotalInv, TotalDe, TipoInv, Tipos
<1>. HIDE DEF gs
<1>2. /\ gs \in Seq(E)
      /\ \A a, b \in 1..Len(gs) : gs[a].nodo = gs[b].nodo => a = b
      /\ \A a \in 1..Len(gs) : \A k \in 1..Len(gs[a].partes) :
           enviados[j][gs[a].partes[k]].nodo = gs[a].nodo
  BY <1>1 DEF Buenos
<1>. HIDE DEF S
<1>3. DOMAIN gs = 1..Len(gs) /\ \A a \in 1..Len(gs) : gs[a].partes \in Seq(S)
  <2>. HIDE DEF E
  <2>1. DOMAIN gs = 1..Len(gs) /\ \A a \in 1..Len(gs) : gs[a] \in E
    BY <1>2
  <2>. QED
    BY <2>1 DEF E
<1>4. ASSUME NEW a \in DOMAIN gs, NEW p \in ToSet(gs[a].partes)
      PROVE  enviados[j][p].nodo = gs[a].nodo
  <2>1. gs[a].partes \in Seq(S) /\ a \in 1..Len(gs)
    BY <1>3
  <2>2. PICK k \in 1..Len(gs[a].partes) : gs[a].partes[k] = p
    BY <2>1 DEF ToSet
  <2>. QED
    BY <1>2, <2>1, <2>2
<1>5. ASSUME HojasDistintas(j)
      PROVE  ToBag(FlattenSeq([a \in DOMAIN gs |-> gs[a].partes])) = SetToBag(DOMAIN enviados[j])
  <2>1. Buenos(enviados[j], TRUE, gs)
    BY <1>1, <1>5 DEF Buenos
  <2>. QED
    BY <1>1, <2>1, BuenosEnBolsa
<1>. QED
  BY <1>2, <1>3, <1>4, <1>5 DEF gs

(* The message of the total reduce (marta.c:1448-1606) names every task of *)
(* the Job once, under the node that made its partial result, and no node  *)
(* twice, whatever the order in which files, nodes and sizes are sorted.   *)
THEOREM TotalSiempreCompleto == Spec => []TotalCompleto
BY TipoInit, TipoStep, PlanInit, PlanStep, TotalInit, TotalStep, TotalDice, PTL DEF Spec

=============================================================================
