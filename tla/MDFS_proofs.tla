----------------------------- MODULE MDFS_proofs -----------------------------
(***************************************************************************)
(* Proofs about MDFS for any nodes, capacity, files, uploads and bounds:   *)
(* the types of its state and of the local variables of its two threads,   *)
(* which include that whatever a thread dereferences is there.  And, while *)
(* the console and a node's thread do not work at the same time, that the  *)
(* copies of a block are on different nodes and a file lists its own       *)
(* blocks, whatever is removed, enabled twice, formatted, renamed or       *)
(* restarted in between.                                                   *)
(***************************************************************************)
EXTENDS MDFS, Secuencias_proofs

(* What the variables hold, the local variables of the threads included.   *)
Sitio == [nombre : Nombre \cup {Nadie}, tiene : Seq(Ruta \X Nat)]
Mano ==
  [arch : Nat, cual : Nat \X Nat, datos : Seq(Seq(Nat)), bloque : UnBloque, lugar : Nat,
   nodo : Nat, dir : Nodo \cup {Nadie}, copia : [nodo : Nombre \cup {Nadie}, bloque : Bloque0],
   luego : {"libre", "libera", "creaArchivo"}]

MemoriaOK ==
  /\ nodos \in Seq(UnNodo) /\ mongoNodos \in Seq(UnNodo)
  /\ letra \in Nat /\ nombre \in Nombre \cup {Nadie} /\ llega \subseteq Nodo
  /\ llega # {} => nombre \in Nombre
  /\ archivos \in Seq(UnArchivo) /\ mongoArchivos \in Seq(UnArchivo)
  /\ archivo \in 0..Len(archivos) /\ nroBloque \in Nat
  /\ arrayNodos \in Seq(Sitio)
  /\ discos \in [Nodo -> [Bloque0 -> Seq(Nat)]]
  /\ vivo \in BOOLEAN /\ subidas \in Nat

DeSubir == {"libre", "bloque", "busca", "toma", "manda"}
DeArchivo == {"creaArchivo", "libera", "quita"}

(* What each thread has in its hands at each of its steps.                 *)
HilosOK ==
  /\ en \in [Hilo -> DeSubir \cup DeArchivo \cup {"creaNodo", "formatea"}]
  /\ en["servidor"] \in DeSubir
  /\ mano \in [Hilo -> Mano]
  /\ \A h \in Hilo :
       /\ en[h] = "toma" => mano[h].lugar # 0 /\ mano[h].nodo \in 0..Len(nodos)
       /\ en[h] = "manda" => mano[h].dir \in Nodo /\ mano[h].copia.nodo \in Nombre

(* The entry the console works on exists.                                  *)
ConsolaOK ==
  LET m == mano["consola"]
      e == en["consola"]
  IN /\ e = "creaNodo" => m.nodo \in 1..Len(nodos)
     /\ e \in DeArchivo \/ (e = "creaNodo" /\ m.luego # "libre") => m.arch \in 1..Len(archivos)
     /\ e = "quita" => /\ m.cual[1] \in DOMAIN archivos[m.arch].bloques
                       /\ m.cual[2] \in DOMAIN archivos[m.arch].bloques[m.cual[1]].copias

TipoInv == MemoriaOK /\ HilosOK /\ ConsolaOK

-----------------------------------------------------------------------------
(* The searches.                                                           *)

(* buscarNodo and buscarNodoPorNombre give a node of the list that has     *)
(* what was looked for, or 0.                                              *)
LEMMA NodoBuscado ==
  ASSUME nodos \in Seq(UnNodo), NEW x
  PROVE  /\ PorNombre(x) \in 0..Len(nodos) /\ NodoDe(x) \in 0..Len(nodos)
         /\ PorNombre(x) # 0 => nodos[PorNombre(x)].nombre = x
<1>. DEFINE I == {i \in 1..Len(nodos) : nodos[i].nombre = x}
            J == {i \in 1..Len(nodos) : nodos[i].dir = x}
<1>1. PorNombre(x) = IF I # {} THEN Min(I) ELSE 0
  BY DEF PorNombre, SelectInSeq
<1>2. NodoDe(x) = IF J # {} THEN Min(J) ELSE 0
  BY DEF NodoDe, SelectInSeq
<1>3. I \in SUBSET Nat /\ J \in SUBSET Nat
  OBVIOUS
<1>4. (I # {} => Min(I) \in I) /\ (J # {} => Min(J) \in J)
  BY <1>3, MinEs
<1>. QED
  BY <1>1, <1>2, <1>4

(* The search of a file.                                                   *)
LEMMA ArchivoBuscado ==
  ASSUME archivos \in Seq(UnArchivo), NEW r
  PROVE  ArchivoEn(r) \in 0..Len(archivos)
<1>. DEFINE I == {i \in 1..Len(archivos) : ~archivos[i].colgado /\ archivos[i].ruta = r}
<1>1. ArchivoEn(r) = IF I # {} THEN Min(I) ELSE 0
  BY DEF ArchivoEn, SelectInSeq
<1>2. I # {} => Min(I) \in I
  <2>1. I \in SUBSET Nat
    OBVIOUS
  <2>. QED
    BY <2>1, MinEs
<1>. QED
  BY <1>1, <1>2

(* A block that has copies left.                                           *)
LEMMA BloqueBuscado ==
  ASSUME archivos \in Seq(UnArchivo), NEW a \in 1..Len(archivos), ConCopias(a) # 0
  PROVE  /\ ConCopias(a) \in DOMAIN archivos[a].bloques
         /\ 1 \in DOMAIN archivos[a].bloques[ConCopias(a)].copias
<1>. DEFINE s == archivos[a].bloques
            I == {i \in 1..Len(s) : s[i].copias # <<>>}
<1>1. s \in Seq(UnBloque)
  <2>1. archivos[a] \in UnArchivo
    OBVIOUS
  <2>. QED
    BY <2>1 DEF UnArchivo
<1>2. ConCopias(a) = IF I # {} THEN Min(I) ELSE 0
  BY DEF ConCopias, SelectInSeq
<1>3. ConCopias(a) \in I
  <2>1. I \in SUBSET Nat
    BY <1>1
  <2>. QED
    BY <1>2, <2>1, MinEs
<1>. HIDE DEF s
<1>4. ConCopias(a) \in 1..Len(s) /\ s[ConCopias(a)].copias # <<>>
  BY <1>3
<1>5. s[ConCopias(a)] \in UnBloque
  BY <1>1, <1>4
<1>6. s[ConCopias(a)].copias \in Seq(UnaCopia)
  BY <1>5 DEF UnBloque
<1>7. ConCopias(a) \in DOMAIN s /\ 1 \in DOMAIN s[ConCopias(a)].copias
  BY <1>1, <1>4, <1>6
<1>. QED
  BY <1>7 DEF s

(* A slot with a name that was not sent the block, or 0.                   *)
LEMMA SitioBuscado ==
  ASSUME NEW s \in Seq(Sitio), NEW m \in 0..Len(s), NEW a, NEW nro
  PROVE  /\ NodoEnArray(s, m, a, nro) \in 0..m
         /\ NodoEnArray(s, m, a, nro) # 0 =>
              /\ s[NodoEnArray(s, m, a, nro)].nombre # Nadie
              /\ <<a.ruta, nro>> \notin ToSet(s[NodoEnArray(s, m, a, nro)].tiene)
<1>. DEFINE I == {i \in 1..m : s[i].nombre # Nadie /\ <<a.ruta, nro>> \notin ToSet(s[i].tiene)}
<1>. DEFINE k == NodoEnArray(s, m, a, nro)
<1>1. k = IF I # {} THEN Min(I) ELSE 0
  BY DEF NodoEnArray, SelectInSubSeq
<1>2. I # {} => Min(I) \in I
  <2>1. I \in SUBSET Nat
    OBVIOUS
  <2>. QED
    BY <2>1, MinEs
<1>. HIDE DEF k
<1>3. k # 0 => k \in I
  BY <1>1, <1>2
<1>4. /\ k \in 0..m
      /\ k # 0 => s[k].nombre # Nadie /\ <<a.ruta, nro>> \notin ToSet(s[k].tiene)
  BY <1>3
<1>. QED
  BY <1>4 DEF k

(* The documents that are left when one was erased.                        *)
LEMMA SinNodoEs ==
  ASSUME NEW S, mongoNodos \in Seq(S), NEW x
  PROVE  SinNodo(x) \in Seq(S)
<1>. DEFINE I == {i \in 1..Len(mongoNodos) : [mongoNodos[i] EXCEPT !.libres = x.libres] = x}
            k == SelectInSeq(mongoNodos, LAMBDA d : [d EXCEPT !.libres = x.libres] = x)
<1>1. SinNodo(x) = IF I # {} THEN RemoveAt(mongoNodos, k) ELSE mongoNodos
  BY DEF SinNodo, RemoveFirstMatch
<1>2. k = IF I # {} THEN Min(I) ELSE 0
  BY DEF SelectInSeq
<1>. HIDE DEF k
<1>3. I # {} => Min(I) \in I
  <2>1. I \in SUBSET Nat
    OBVIOUS
  <2>. QED
    BY <2>1, MinEs
<1>4. I # {} => k \in 1..Len(mongoNodos)
  BY <1>2, <1>3
<1>. QED
  BY <1>1, <1>4, RemoveAtEs

(* The same for files.                                                     *)
LEMMA SinArchivoEs ==
  ASSUME NEW S, mongoArchivos \in Seq(S), NEW a
  PROVE  SinArchivo(a) \in Seq(S)
<1>. DEFINE I == {i \in 1..Len(mongoArchivos) : Documento(mongoArchivos[i]) = Documento(a)}
            k == SelectInSeq(mongoArchivos, LAMBDA d : Documento(d) = Documento(a))
<1>1. SinArchivo(a) = IF I # {} THEN RemoveAt(mongoArchivos, k) ELSE mongoArchivos
  BY DEF SinArchivo, RemoveFirstMatch
<1>2. k = IF I # {} THEN Min(I) ELSE 0
  BY DEF SelectInSeq
<1>. HIDE DEF k
<1>3. I # {} => Min(I) \in I
  <2>1. I \in SUBSET Nat
    OBVIOUS
  <2>. QED
    BY <2>1, MinEs
<1>4. I # {} => k \in 1..Len(mongoArchivos)
  BY <1>2, <1>3
<1>. QED
  BY <1>1, <1>4, RemoveAtEs

-----------------------------------------------------------------------------
(* arrayNodos: llenarArrayDeNodos and ordenarArrayNodos.                   *)

(* No two slots get the same node.                                         *)
LEMMA ArrayLlenoEs ==
  ASSUME nodos \in Seq(UnNodo)
  PROVE  /\ ArrayLleno \in Seq(Sitio)
         /\ \A p, q \in DOMAIN ArrayLleno :
              ArrayLleno[p].nombre = ArrayLleno[q].nombre /\ ArrayLleno[p].nombre # Nadie
                => p = q
<1>. DEFINE P == {i \in DOMAIN nodos : PorNombre(nodos[i].nombre) = i}
            cuantos(i) == Cardinality({j \in P : j <= i})
            suyo(p) == CHOOSE i \in P : cuantos(i) = p
            t == ArrayLleno
<1>1. /\ DOMAIN t = 1..Len(nodos)
      /\ t = [p \in 1..Len(nodos) |->
                IF \E i \in P : cuantos(i) = p
                THEN [Hueco EXCEPT !.nombre = nodos[suyo(p)].nombre] ELSE Hueco]
  BY DEF ArrayLleno
<1>. HIDE DEF t
<1>2. ASSUME NEW p \in 1..Len(nodos)
      PROVE  \/ t[p] = Hueco
             \/ /\ suyo(p) \in P /\ cuantos(suyo(p)) = p
                /\ t[p] = [nombre |-> nodos[suyo(p)].nombre, tiene |-> <<>>]
  BY <1>1 DEF Hueco
<1>. HIDE DEF suyo, cuantos
<1>3. ASSUME NEW i \in P
      PROVE  nodos[i].nombre \in Nombre /\ nodos[i].nombre # Nadie
  <2>1. nodos[i] \in UnNodo
    OBVIOUS
  <2>2. nodos[i].nombre \in Nombre
    BY <2>1 DEF UnNodo
  <2>. QED
    BY <2>2, MDFSAssumption DEF Nombre
<1>4. Hueco \in Sitio /\ \A i \in P : [nombre |-> nodos[i].nombre, tiene |-> <<>>] \in Sitio
  BY <1>3 DEF Hueco, Sitio
<1>5. \A p \in 1..Len(nodos) : t[p] \in Sitio
  BY <1>2, <1>4
<1>6. t \in Seq(Sitio)
  <2>1. Len(nodos) \in Nat /\ t = [p \in 1..Len(nodos) |-> t[p]]
    BY <1>1
  <2>. HIDE DEF P
  <2>. QED
    BY ONLY <1>5, <2>1
<1>7. ASSUME NEW p \in 1..Len(nodos), NEW q \in 1..Len(nodos),
             t[p].nombre = t[q].nombre, t[p].nombre # Nadie
      PROVE  p = q
  <2>. HIDE DEF P
  <2>0. Hueco.nombre = Nadie
    BY DEF Hueco
  <2>4. t[p] # Hueco /\ t[q] # Hueco
    BY <1>7, <2>0
  <2>5. /\ suyo(p) \in P /\ cuantos(suyo(p)) = p
        /\ t[p] = [nombre |-> nodos[suyo(p)].nombre, tiene |-> <<>>]
    BY <1>2, <2>4
  <2>6. /\ suyo(q) \in P /\ cuantos(suyo(q)) = q
        /\ t[q] = [nombre |-> nodos[suyo(q)].nombre, tiene |-> <<>>]
    BY <1>2, <2>4
  <2>1. /\ suyo(p) \in P /\ cuantos(suyo(p)) = p /\ t[p].nombre = nodos[suyo(p)].nombre
        /\ suyo(q) \in P /\ cuantos(suyo(q)) = q /\ t[q].nombre = nodos[suyo(q)].nombre
    BY <2>5, <2>6
  <2>2. suyo(p) = suyo(q)
    BY <1>7, <2>1 DEF P
  <2>. QED
    BY <2>1, <2>2
<1>. QED
  BY <1>1, <1>6, <1>7 DEF t

(* Sorting the first slots puts each in a place of its own.                *)
LEMMA OrdenadoEs ==
  ASSUME NEW s \in Seq(Sitio), NEW m \in 0..Len(s)
  PROVE  /\ Ordenado(s, m) \in Seq(Sitio) /\ Len(Ordenado(s, m)) = Len(s)
         /\ \E f \in [1..Len(s) -> 1..Len(s)] :
              /\ \A p, q \in 1..Len(s) : f[p] = f[q] => p = q
              /\ \A p \in 1..Len(s) : Ordenado(s, m)[p] = s[f[p]]
<1>. DEFINE antes(i, j) == Peso(s[i]) < Peso(s[j]) \/ (Peso(s[i]) = Peso(s[j]) /\ i < j)
            A(i) == {j \in 1..m : antes(j, i)}
            puesto == [i \in 1..m |-> 1 + Cardinality(A(i))]
            f == [p \in 1..Len(s) |-> IF p <= m THEN CHOOSE i \in 1..m : puesto[i] = p ELSE p]
            t == Ordenado(s, m)
<1>1. t = [p \in 1..Len(s) |->
             IF p <= m THEN s[CHOOSE i \in 1..m : 1 + Cardinality(A(i)) = p] ELSE s[p]]
  BY DEF Ordenado
<1>2. \A p : (CHOOSE i \in 1..m : 1 + Cardinality(A(i)) = p) = CHOOSE i \in 1..m : puesto[i] = p
  OBVIOUS
<1>3. t = [p \in 1..Len(s) |-> s[f[p]]]
  BY <1>1, <1>2
<1>. HIDE DEF t
<1>4. \A i \in 1..m : Peso(s[i]) \in Nat
  BY DEF Peso, Sitio
<1>5. m \in Nat /\ IsFiniteSet(1..m) /\ Cardinality(1..m) = m
  BY FS_Interval
<1>6. ASSUME NEW i \in 1..m
      PROVE  IsFiniteSet(A(i)) /\ Cardinality(A(i)) \in Nat /\ Cardinality(A(i)) < m
  <2>1. A(i) \in SUBSET ((1..m) \ {i})
    BY <1>4
  <2>2. IsFiniteSet((1..m) \ {i}) /\ Cardinality((1..m) \ {i}) = m - 1
    BY <1>5, FS_RemoveElement
  <2>3. IsFiniteSet(A(i)) /\ Cardinality(A(i)) <= m - 1
    BY <2>1, <2>2, FS_Subset
  <2>. QED
    BY <1>5, <2>3, FS_CardinalityType
<1>7. ASSUME NEW i \in 1..m, NEW j \in 1..m, antes(i, j)
      PROVE  puesto[i] < puesto[j]
  <2>1. A(i) \in SUBSET A(j) /\ i \in A(j) /\ i \notin A(i)
    BY <1>4, <1>7
  <2>2. Cardinality(A(i)) <= Cardinality(A(j)) /\ Cardinality(A(i)) # Cardinality(A(j))
    BY <1>6, <2>1, FS_Subset
  <2>3. puesto[i] = 1 + Cardinality(A(i)) /\ puesto[j] = 1 + Cardinality(A(j))
    OBVIOUS
  <2>. HIDE DEF puesto, A
  <2>. QED
    BY <1>6, <2>2, <2>3
<1>8. puesto \in Injection(1..m, 1..m)
  <2>1. puesto \in [1..m -> 1..m]
    <3>1. \A i \in 1..m : puesto[i] = 1 + Cardinality(A(i))
      OBVIOUS
    <3>2. puesto = [i \in 1..m |-> puesto[i]]
      OBVIOUS
    <3>. HIDE DEF puesto, A
    <3>3. \A i \in 1..m : puesto[i] \in 1..m
      BY <1>5, <1>6, <3>1
    <3>. QED
      BY <3>2, <3>3
  <2>2. ASSUME NEW i \in 1..m, NEW j \in 1..m, i # j
        PROVE  puesto[i] # puesto[j]
    <3>1. antes(i, j) \/ antes(j, i)
      BY <1>4, <2>2
    <3>2. puesto[i] \in 1..m /\ puesto[j] \in 1..m
      BY <2>1
    <3>. HIDE DEF puesto, antes
    <3>. QED
      BY <1>5, <1>7, <3>1, <3>2
  <2>. HIDE DEF puesto
  <2>. QED
    BY <2>1, <2>2 DEF Injection, IsInjective
<1>9. ASSUME NEW p \in 1..m
      PROVE  \E i \in 1..m : puesto[i] = p
  <2>. HIDE DEF puesto
  <2>1. puesto \in Surjection(1..m, 1..m)
    BY <1>5, <1>8, FS_Injection
  <2>. QED
    BY <2>1 DEF Surjection
<1>. HIDE DEF puesto
<1>10. ASSUME NEW p \in 1..Len(s)
       PROVE  /\ f[p] \in 1..Len(s)
              /\ p <= m => f[p] \in 1..m /\ puesto[f[p]] = p
              /\ ~(p <= m) => f[p] = p
  <2>1. f[p] = IF p <= m THEN CHOOSE i \in 1..m : puesto[i] = p ELSE p
    OBVIOUS
  <2>2. p <= m => p \in 1..m
    BY <1>5
  <2>. HIDE DEF f
  <2>3. p <= m => f[p] \in 1..m /\ puesto[f[p]] = p
    BY <1>9, <2>1, <2>2
  <2>. QED
    BY <1>5, <2>1, <2>3
<1>11. f \in [1..Len(s) -> 1..Len(s)]
  BY <1>10
<1>12. ASSUME NEW p \in 1..Len(s), NEW q \in 1..Len(s), f[p] = f[q]
       PROVE  p = q
  BY <1>10, <1>12
<1>. HIDE DEF f
<1>13. t \in Seq(Sitio) /\ Len(t) = Len(s)
  BY <1>3, <1>11
<1>14. \A p \in 1..Len(s) : t[p] = s[f[p]]
  BY <1>3
<1>15. /\ t \in Seq(Sitio) /\ Len(t) = Len(s)
       /\ \E g \in [1..Len(s) -> 1..Len(s)] :
            /\ \A p, q \in 1..Len(s) : g[p] = g[q] => p = q
            /\ \A p \in 1..Len(s) : t[p] = s[g[p]]
  BY <1>11, <1>12, <1>13, <1>14
<1>. QED
  BY <1>15 DEF t

-----------------------------------------------------------------------------
(* Types.  What a process that starts has in its hands is well typed.      *)
LEMMA ManoVaciaEs == ManoVacia \in Mano
<1>1. SinBloque \in UnBloque
  BY DEF SinBloque, UnBloque
<1>2. SinCopia \in [nodo : Nombre \cup {Nadie}, bloque : Bloque0]
  BY MDFSAssumption DEF SinCopia, Bloque0
<1>. QED
  BY <1>1, <1>2 DEF ManoVacia, Mano

(* The process dies: what is left is as in the beginning.                  *)
LEMMA TipoMuere ==
  ASSUME Muere, mongoNodos' \in Seq(UnNodo), mongoArchivos' \in Seq(UnArchivo),
         discos' \in [Nodo -> [Bloque0 -> Seq(Nat)]], subidas' \in Nat
  PROVE  TipoInv'
<1>1. MemoriaOK'
  <2>1. nodos' \in Seq(UnNodo) /\ arrayNodos' \in Seq(Sitio) /\ archivos' \in Seq(UnArchivo)
    BY DEF Muere
  <2>2. archivo' \in 0..Len(archivos') /\ llega' = {} /\ nombre' = Nadie
    BY DEF Muere
  <2>3. vivo' \in BOOLEAN
    BY DEF Muere
  <2>. QED
    BY <2>1, <2>2, <2>3 DEF Muere, MemoriaOK
<1>2. HilosOK'
  BY ManoVaciaEs DEF Muere, HilosOK, Hilo, DeSubir, DeArchivo
<1>3. ConsolaOK'
  BY DEF Muere, ConsolaOK, Hilo, DeArchivo
<1>. QED
  BY <1>1, <1>2, <1>3 DEF TipoInv

(* The first state, which is a process that starts beside an empty MongoDB.*)
LEMMA TipoInit == Init => TipoInv
<1>. SUFFICES ASSUME Init
              PROVE  TipoInv
  OBVIOUS
<1>1. MemoriaOK
  <2>1. discos \in [Nodo -> [Bloque0 -> Seq(Nat)]]
    BY DEF Init
  <2>2. nodos \in Seq(UnNodo) /\ mongoNodos \in Seq(UnNodo) /\ arrayNodos \in Seq(Sitio)
    BY DEF Init
  <2>3. archivos \in Seq(UnArchivo) /\ mongoArchivos \in Seq(UnArchivo)
    BY DEF Init
  <2>4. archivo \in 0..Len(archivos) /\ llega = {} /\ nombre = Nadie /\ vivo \in BOOLEAN
    BY DEF Init
  <2>. QED
    BY <2>1, <2>2, <2>3, <2>4 DEF Init, MemoriaOK
<1>2. HilosOK
  BY ManoVaciaEs DEF Init, HilosOK, Hilo, DeSubir, DeArchivo
<1>3. ConsolaOK
  BY DEF Init, ConsolaOK, Hilo, DeArchivo
<1>. QED
  BY <1>1, <1>2, <1>3 DEF TipoInv

(* Connections of nodes.                                                   *)
LEMMA TipoNodo ==
  ASSUME TipoInv, NEW n \in Nodo, NodoSePresenta(n) \/ NodoAgregado(n)
  PROVE  TipoInv'
<1>1. CASE NodoSePresenta(n)
  <2>1. MemoriaOK'
    BY <1>1, MDFSAssumption DEF TipoInv, MemoriaOK, NodoSePresenta, Nombre, mongo, contador
  <2>2. HilosOK' /\ ConsolaOK'
    BY <1>1 DEF TipoInv, HilosOK, ConsolaOK, NodoSePresenta
  <2>. QED
    BY <2>1, <2>2 DEF TipoInv
<1>2. CASE NodoAgregado(n)
  <2>1. /\ nombre \in Nombre
        /\ nodos' = Append(nodos, [dir |-> n, nombre |-> nombre, estado |-> 0, libres |-> <<>>])
    BY <1>2 DEF TipoInv, MemoriaOK, NodoAgregado
  <2>2. nodos' \in Seq(UnNodo) /\ Len(nodos') = Len(nodos) + 1
    BY <2>1 DEF TipoInv, MemoriaOK, UnNodo
  <2>3. MemoriaOK'
    BY <1>2, <2>2 DEF TipoInv, MemoriaOK, NodoAgregado, mongo, contador
  <2>4. HilosOK'
    BY <1>2, <2>2 DEF TipoInv, MemoriaOK, HilosOK, NodoAgregado
  <2>5. ConsolaOK'
    BY <1>2, <2>2 DEF TipoInv, MemoriaOK, ConsolaOK, NodoAgregado
  <2>. QED
    BY <2>3, <2>4, <2>5 DEF TipoInv
<1>. QED
  BY <1>1, <1>2

(* Enabling and removing nodes.                                            *)
LEMMA TipoConsolaNodo ==
  ASSUME TipoInv,
         \/ \E n \in Nodo : AgregarNodo(n)
         \/ \E i \in DOMAIN nodos : EliminarNodo(i)
  PROVE  TipoInv'
<1>1. en["consola"] = "libre" /\ UNCHANGED <<letra, nombre, llega, archivos, archivo, nroBloque,
                                             arrayNodos, discos, mongoArchivos, vivo, subidas>>
  BY DEF AgregarNodo, EliminarNodo, Puede
<1>2. ASSUME NEW i \in 1..Len(nodos), mongoNodos' = SinNodo(nodos[i]),
             NEW x \in UnNodo, nodos' = [nodos EXCEPT ![i] = x],
             en' = [en EXCEPT !["consola"] = "creaNodo"],
             mano' = [mano EXCEPT !["consola"].nodo = i, !["consola"].luego = "libre"]
      PROVE  TipoInv'
  <2>1. nodos' \in Seq(UnNodo) /\ Len(nodos') = Len(nodos)
    BY <1>2 DEF TipoInv, MemoriaOK
  <2>2. mongoNodos' \in Seq(UnNodo)
    BY <1>2, SinNodoEs DEF TipoInv, MemoriaOK
  <2>3. MemoriaOK'
    BY <1>1, <2>1, <2>2, SMTT(30) DEF TipoInv, MemoriaOK
  <2>4. mano' \in [Hilo -> Mano] /\ mano'["servidor"] = mano["servidor"]
        /\ mano'["consola"].nodo = i /\ mano'["consola"].luego = "libre"
    <3>. DEFINE x0 == mano["consola"]
                x1 == [x0 EXCEPT !.nodo = i, !.luego = "libre"]
    <3>1. x0 \in Mano /\ mano \in [Hilo -> Mano] /\ "consola" \in Hilo /\ i \in Nat
      BY DEF TipoInv, HilosOK, MemoriaOK, Hilo
    <3>2. x1 \in Mano /\ x1.nodo = i /\ x1.luego = "libre"
      BY <3>1 DEF Mano
    <3>3. mano' = [mano EXCEPT !["consola"] = x1]
      BY <1>2, <3>1
    <3>. HIDE DEF x1
    <3>. QED
      BY <3>1, <3>2, <3>3
  <2>5. HilosOK'
    BY <1>2, <2>1, <2>4 DEF TipoInv, HilosOK, Hilo, DeSubir
  <2>6. ConsolaOK'
    BY <1>2, <2>1, <2>4 DEF TipoInv, HilosOK, ConsolaOK, Hilo, DeArchivo
  <2>. QED
    BY <2>3, <2>5, <2>6 DEF TipoInv
<1>3. ASSUME NEW i \in 1..Len(nodos)
      PROVE  /\ Vuelve(nodos[i]) \in UnNodo /\ Habilita(nodos[i]) \in UnNodo
             /\ [nodos[i] EXCEPT !.estado = -1] \in UnNodo
  <2>1. nodos[i] \in UnNodo
    BY DEF TipoInv, MemoriaOK
  <2>2. TodosLosBloques \in Seq(Bloque0)
    BY MDFSAssumption DEF TodosLosBloques, Bloque0
  <2>3. Vuelve(nodos[i]) \in UnNodo
    BY <2>1, SMTT(20) DEF Vuelve, UnNodo
  <2>4. Vuelve(nodos[i]).libres \o TodosLosBloques \in Seq(Bloque0)
    BY <2>2, <2>3 DEF UnNodo
  <2>5. Habilita(nodos[i]) \in UnNodo
    BY <2>3, <2>4 DEF Habilita, UnNodo
  <2>. QED
    BY <2>1, <2>3, <2>5, SMTT(20) DEF UnNodo
<1>4. ASSUME NEW i \in DOMAIN nodos, EliminarNodo(i)
      PROVE  TipoInv'
  <2>1. i \in 1..Len(nodos) /\ nodos' = [nodos EXCEPT ![i] = [nodos[i] EXCEPT !.estado = -1]]
    BY <1>4 DEF EliminarNodo, TipoInv, MemoriaOK
  <2>. QED
    BY <1>2, <1>3, <1>4, <2>1 DEF EliminarNodo
<1>5. ASSUME NEW n \in Nodo, AgregarNodo(n)
      PROVE  TipoInv'
  <2>. DEFINE i == NodoDe(n)
  <2>1. i \in 1..Len(nodos)
    BY <1>5, NodoBuscado DEF AgregarNodo, TipoInv, MemoriaOK
  <2>2. CASE nodos[i].estado = -1
    <3>1. nodos' = [nodos EXCEPT ![i] = Vuelve(nodos[i])]
      BY <1>5, <2>1, <2>2 DEF AgregarNodo
    <3>. QED
      BY <1>2, <1>3, <1>5, <2>1, <2>2, <3>1 DEF AgregarNodo
  <2>3. CASE nodos[i].estado # -1
    <3>1. /\ nodos' = [nodos EXCEPT ![i] = Habilita(nodos[i])]
          /\ mongoNodos' = Append(mongoNodos, Habilita(nodos[i]))
          /\ UNCHANGED <<en, mano>>
      BY <1>5, <2>1, <2>3 DEF AgregarNodo
    <3>2. nodos' \in Seq(UnNodo) /\ Len(nodos') = Len(nodos) /\ mongoNodos' \in Seq(UnNodo)
      <4>1. nodos \in Seq(UnNodo) /\ mongoNodos \in Seq(UnNodo) /\ Habilita(nodos[i]) \in UnNodo
        BY <1>3, <2>1 DEF TipoInv, MemoriaOK
      <4>. HIDE DEF i
      <4>. QED
        BY <2>1, <3>1, <4>1
    <3>3. MemoriaOK'
      BY <1>1, <3>2 DEF TipoInv, MemoriaOK
    <3>. QED
      BY <1>1, <3>1, <3>2, <3>3 DEF TipoInv, HilosOK, ConsolaOK
  <2>. QED
    BY <2>2, <2>3
<1>. QED
  BY <1>4, <1>5

(* The copies that were listed are where they were.                        *)
SiguenLasCopias(viejos, nuevos) ==
  /\ Len(nuevos) >= Len(viejos)
  /\ \A a \in 1..Len(viejos) :
       /\ DOMAIN viejos[a].bloques \subseteq DOMAIN nuevos[a].bloques
       /\ \A b \in DOMAIN viejos[a].bloques :
            nuevos[a].bloques[b].copias = viejos[a].bloques[b].copias

(* Steps of one thread h that leave the number of nodes, the copies listed *)
(* so far and the other thread as they are: h is well typed at its new step. *)
LEMMA TipoDeHilo ==
  ASSUME TipoInv, MemoriaOK', Len(nodos') = Len(nodos),
         NEW h \in Hilo, NEW e \in DeSubir, NEW m \in Mano,
         en' = [en EXCEPT ![h] = e], mano' = [mano EXCEPT ![h] = m],
         e = "toma" => m.lugar # 0 /\ m.nodo \in 0..Len(nodos),
         e = "manda" => m.dir \in Nodo /\ m.copia.nodo \in Nombre,
         SiguenLasCopias(archivos, archivos')
  PROVE  TipoInv'
<1>1. /\ en'[h] = e /\ mano'[h] = m
      /\ \A g \in Hilo \ {h} : en'[g] = en[g] /\ mano'[g] = mano[g]
  BY DEF TipoInv, HilosOK
<1>2. HilosOK'
  BY <1>1 DEF TipoInv, HilosOK
<1>3. ConsolaOK'
  <2>1. Len(archivos) \in Nat /\ Len(archivos') \in Nat
    BY DEF TipoInv, MemoriaOK
  <2>2. CASE h = "consola"
    BY <1>1, <2>2 DEF ConsolaOK, DeSubir, DeArchivo
  <2>3. CASE h = "servidor"
    <3>1. en'["consola"] = en["consola"] /\ mano'["consola"] = mano["consola"]
      BY <1>1, <2>3 DEF Hilo
    <3>2. en["consola"] \in DeArchivo \/ (en["consola"] = "creaNodo" /\ mano["consola"].luego # "libre")
            => mano["consola"].arch \in 1..Len(archivos)
      BY DEF TipoInv, ConsolaOK
    <3>3. \A a \in 1..Len(archivos) : a \in 1..Len(archivos')
      BY <2>1 DEF SiguenLasCopias
    <3>4. en["consola"] = "creaNodo" => mano["consola"].nodo \in 1..Len(nodos')
      BY DEF TipoInv, ConsolaOK
    <3>5. ASSUME en["consola"] = "quita"
          PROVE  LET k == mano["consola"] IN
                 /\ k.cual[1] \in DOMAIN archivos'[k.arch].bloques
                 /\ k.cual[2] \in DOMAIN archivos'[k.arch].bloques[k.cual[1]].copias
      <4>1. mano["consola"].arch \in 1..Len(archivos)
        BY <3>2, <3>5 DEF DeArchivo
      <4>2. LET k == mano["consola"] IN
            /\ k.cual[1] \in DOMAIN archivos[k.arch].bloques
            /\ k.cual[2] \in DOMAIN archivos[k.arch].bloques[k.cual[1]].copias
        BY <3>5 DEF TipoInv, ConsolaOK
      <4>. QED
        BY <4>1, <4>2 DEF SiguenLasCopias
    <3>. QED
      BY <3>1, <3>2, <3>3, <3>4, <3>5 DEF ConsolaOK
  <2>. QED
    BY <2>2, <2>3 DEF Hilo
<1>. QED
  BY <1>2, <1>3 DEF TipoInv

(* A file that is listed anew.                                             *)
LEMMA TipoEmpieza ==
  ASSUME TipoInv, \/ \E r \in Ruta, e \in Envio : SubirArchivo(r, e)
                  \/ \E r \in Ruta : SubirResultado(r)
  PROVE  TipoInv'
<1>1. ASSUME NEW r \in Ruta, NEW e, e \in [mb : Nat, bloques : Nat]
      PROVE  /\ ArchivoNuevo(r, e) \in UnArchivo
             /\ archivos' = Append(archivos, ArchivoNuevo(r, e)) =>
                  /\ archivos' \in Seq(UnArchivo) /\ Len(archivos') = Len(archivos) + 1
                  /\ \A a \in 1..Len(archivos) : archivos'[a] = archivos[a]
                  /\ ElNuevo \in 0..Len(archivos')
             /\ Datos(e.bloques) \in Seq(Seq(Nat))
  <2>1. ArchivoNuevo(r, e) \in UnArchivo
    BY <1>1 DEF ArchivoNuevo, UnArchivo, TipoInv, MemoriaOK
  <2>2. \A i \in 1..e.bloques : <<subidas + 1, i>> \in Seq(Nat)
    BY DEF TipoInv, MemoriaOK
  <2>3. Datos(e.bloques) \in Seq(Seq(Nat))
    <3>. DEFINE S == Seq(Nat)
    <3>1. e.bloques \in Nat /\ \A i \in 1..e.bloques : <<subidas + 1, i>> \in S
      BY <1>1, <2>2
    <3>. HIDE DEF S
    <3>2. Datos(e.bloques) \in Seq(S)
      BY <3>1 DEF Datos
    <3>. QED
      BY <3>2 DEF S
  <2>4. archivos \in Seq(UnArchivo)
    BY DEF TipoInv, MemoriaOK
  <2>5. ASSUME archivos' = Append(archivos, ArchivoNuevo(r, e))
        PROVE  /\ archivos' \in Seq(UnArchivo) /\ Len(archivos') = Len(archivos) + 1
               /\ \A a \in 1..Len(archivos) : archivos'[a] = archivos[a]
               /\ ElNuevo \in 0..Len(archivos')
    BY <2>1, <2>4, <2>5 DEF ElNuevo
  <2>. QED
    BY <2>1, <2>3, <2>5
<1>2. ASSUME NEW h \in Hilo, NEW d \in Seq(Seq(Nat)), mano' = [mano EXCEPT ![h].datos = d]
      PROVE  /\ mano' = [mano EXCEPT ![h] = [mano[h] EXCEPT !.datos = d]]
             /\ [mano[h] EXCEPT !.datos = d] \in Mano
  <2>1. mano[h] \in Mano /\ mano \in [Hilo -> Mano]
    BY DEF TipoInv, HilosOK
  <2>2. [mano[h] EXCEPT !.datos = d] \in Mano
    BY <2>1 DEF Mano
  <2>. QED
    BY <1>2, <2>1, <2>2
<1>3. ASSUME NEW r \in Ruta, NEW e \in Envio, SubirArchivo(r, e)
      PROVE  TipoInv'
  <2>1. e \in [mb : Nat, bloques : Nat]
    BY MDFSAssumption
  <2>2. /\ UNCHANGED <<nodos, letra, nombre, llega, discos, mongoNodos, mongoArchivos, vivo>>
        /\ archivos' = Append(archivos, ArchivoNuevo(r, e))
        /\ archivo' = ElNuevo /\ arrayNodos' = ArrayLleno /\ nroBloque' = 0
        /\ subidas' = subidas + 1
        /\ en' = [en EXCEPT !["consola"] = "bloque"]
        /\ mano' = [mano EXCEPT !["consola"].datos = Datos(e.bloques)]
    BY <1>3 DEF SubirArchivo, mongo
  <2>3. MemoriaOK'
    BY <1>1, <2>1, <2>2, ArrayLlenoEs, SMTT(30) DEF TipoInv, MemoriaOK
  <2>. DEFINE m == [mano["consola"] EXCEPT !.datos = Datos(e.bloques)]
  <2>4. "consola" \in Hilo /\ "bloque" \in DeSubir /\ "bloque" # "toma" /\ "bloque" # "manda"
    BY DEF Hilo, DeSubir
  <2>5. mano' = [mano EXCEPT !["consola"] = m] /\ m \in Mano
    BY <1>1, <1>2, <2>1, <2>2, <2>4
  <2>6. SiguenLasCopias(archivos, archivos')
    BY <1>1, <2>1, <2>2 DEF SiguenLasCopias, TipoInv, MemoriaOK
  <2>. HIDE DEF m
  <2>. QED
    BY <2>2, <2>3, <2>4, <2>5, <2>6, TipoDeHilo
<1>4. ASSUME NEW r \in Ruta, SubirResultado(r)
      PROVE  TipoInv'
  <2>. DEFINE e == [mb |-> 0, bloques |-> 1]
  <2>1. e \in [mb : Nat, bloques : Nat] /\ e.bloques = 1
    OBVIOUS
  <2>2. /\ UNCHANGED <<nodos, letra, nombre, llega, discos, mongoNodos, vivo, arrayNodos, nroBloque>>
        /\ archivos' = Append(archivos, ArchivoNuevo(r, e))
        /\ mongoArchivos' = Append(mongoArchivos, ArchivoNuevo(r, e))
        /\ archivo' = ElNuevo
        /\ subidas' = subidas + 1
        /\ en' = [en EXCEPT !["servidor"] = "bloque"]
        /\ mano' = [mano EXCEPT !["servidor"].datos = Datos(1)]
    BY <1>4 DEF SubirResultado
  <2>. HIDE DEF e
  <2>3. MemoriaOK'
    BY <1>1, <2>1, <2>2, SMTT(30) DEF TipoInv, MemoriaOK
  <2>. DEFINE m == [mano["servidor"] EXCEPT !.datos = Datos(e.bloques)]
  <2>4. "servidor" \in Hilo /\ "bloque" \in DeSubir /\ "bloque" # "toma" /\ "bloque" # "manda"
    BY DEF Hilo, DeSubir
  <2>5. mano' = [mano EXCEPT !["servidor"] = m] /\ m \in Mano
    BY <1>1, <1>2, <2>1, <2>2, <2>4
  <2>6. SiguenLasCopias(archivos, archivos')
    BY <1>1, <2>1, <2>2 DEF SiguenLasCopias, TipoInv, MemoriaOK
  <2>. HIDE DEF m
  <2>. QED
    BY <2>2, <2>3, <2>4, <2>5, <2>6, TipoDeHilo
<1>. QED
  BY <1>3, <1>4

(* enviarBloque, and the end of an upload.                                 *)
LEMMA TipoBloque ==
  ASSUME TipoInv, NEW h \in Hilo, EmpiezaBloque(h) \/ TerminaSubida(h)
  PROVE  TipoInv'
<1>1. mano[h] \in Mano
  BY DEF TipoInv, HilosOK
<1>2. CASE EmpiezaBloque(h)
  <2>. DEFINE d == mano[h].datos
              b == [nro |-> nroBloque, dato |-> Head(d), copias |-> <<>>]
              m == [mano[h] EXCEPT !.bloque = b, !.datos = Tail(d)]
  <2>1. Head(d) \in Seq(Nat) /\ Tail(d) \in Seq(Seq(Nat))
    BY <1>1, <1>2 DEF EmpiezaBloque, Mano
  <2>2. b \in UnBloque
    BY <2>1 DEF UnBloque, TipoInv, MemoriaOK
  <2>3. m \in Mano
    <3>. HIDE DEF b
    <3>. QED
      BY <1>1, <2>1, <2>2 DEF Mano
  <2>4. mano' = [mano EXCEPT ![h] = m]
    BY <1>2 DEF EmpiezaBloque, TipoInv, HilosOK, Mano
  <2>. HIDE DEF m
  <2>5. MemoriaOK'
    BY <1>2 DEF TipoInv, MemoriaOK, EmpiezaBloque, mongo, contador
  <2>6. /\ UNCHANGED <<nodos, archivos>> /\ en' = [en EXCEPT ![h] = "busca"]
    BY <1>2 DEF EmpiezaBloque
  <2>7. SiguenLasCopias(archivos, archivos')
    BY <2>6 DEF SiguenLasCopias, TipoInv, MemoriaOK
  <2>8. "busca" \in DeSubir /\ "busca" # "toma" /\ "busca" # "manda"
    BY DEF DeSubir
  <2>. QED
    BY <2>3, <2>4, <2>5, <2>6, <2>7, <2>8, TipoDeHilo
<1>3. CASE TerminaSubida(h)
  <2>1. CASE Muere
    BY <1>3, <2>1, TipoMuere DEF TerminaSubida, TipoInv, MemoriaOK, contador, Muere
  <2>2. CASE ~Muere
    <3>1. ~(h = "consola" /\ ArchivoPerdido)
      BY <1>3, <2>2 DEF TerminaSubida
    <3>2. /\ mongoArchivos' = IF h = "consola" THEN Append(mongoArchivos, archivos[archivo])
                                               ELSE mongoArchivos
          /\ en' = [en EXCEPT ![h] = "libre"]
          /\ mano' = [mano EXCEPT ![h] = ManoVacia]
          /\ UNCHANGED <<nodos, letra, nombre, llega, archivos, archivo, nroBloque,
                         arrayNodos, vivo, discos, mongoNodos, subidas>>
      BY <1>3, <3>1 DEF TerminaSubida, contador
    <3>3. h = "consola" => archivo \in 1..Len(archivos)
      BY <3>1 DEF ArchivoPerdido, TipoInv, MemoriaOK
    <3>4. MemoriaOK'
      BY <3>2, <3>3 DEF TipoInv, MemoriaOK
    <3>5. SiguenLasCopias(archivos, archivos')
      BY <3>2 DEF SiguenLasCopias, TipoInv, MemoriaOK
    <3>6. "libre" \in DeSubir /\ "libre" # "toma" /\ "libre" # "manda"
      BY DEF DeSubir
    <3>. QED
      BY <3>2, <3>4, <3>5, <3>6, ManoVaciaEs, TipoDeHilo
  <2>. QED
    BY <2>1, <2>2
<1>. QED
  BY <1>2, <1>3

(* funcionLoca up to borrar_nodo_mongo.                                    *)
LEMMA TipoBusca ==
  ASSUME TipoInv, NEW h \in Hilo, BuscaNodo(h)
  PROVE  TipoInv'
<1>. DEFINE mm == IF Len(nodos) < Len(arrayNodos) THEN Len(nodos) ELSE Len(arrayNodos)
            s == Ordenado(arrayNodos, mm)
            k == NodoEnArray(s, mm, archivos[archivo], mano[h].bloque.nro)
            i == PorNombre(s[k].nombre)
            m == [mano[h] EXCEPT !.lugar = k, !.nodo = i]
<1>1. /\ discos' = discos /\ mongoArchivos' = mongoArchivos /\ subidas' = subidas
      /\ \/ Muere /\ mongoNodos' = mongoNodos
         \/ /\ UNCHANGED <<nodos, letra, nombre, llega, archivos, archivo, nroBloque, vivo>>
            /\ arrayNodos' = s
            /\ \/ en' = [en EXCEPT ![h] = "bloque"] /\ UNCHANGED <<mano, mongoNodos>>
               \/ /\ k # 0 /\ i # 0
                  /\ en' = [en EXCEPT ![h] = "toma"]
                  /\ mano' = [mano EXCEPT ![h].lugar = k, ![h].nodo = i]
                  /\ mongoNodos' = SinNodo(nodos[i])
  BY DEF BuscaNodo, contador
<1>2. arrayNodos \in Seq(Sitio) /\ mm \in 0..Len(arrayNodos) /\ nodos \in Seq(UnNodo)
      /\ mongoNodos \in Seq(UnNodo)
  BY DEF TipoInv, MemoriaOK
<1>3. s \in Seq(Sitio) /\ Len(s) = Len(arrayNodos)
  BY <1>2, OrdenadoEs
<1>. HIDE DEF s, mm
<1>4. k \in Nat /\ i \in 0..Len(nodos)
  <2>1. k \in 0..mm
    BY <1>2, <1>3, SitioBuscado
  <2>2. i \in 0..Len(nodos)
    BY <1>2, NodoBuscado
  <2>. HIDE DEF k, i
  <2>. QED
    BY <1>2, <2>1, <2>2
<1>. HIDE DEF k, i
<1>5. mano[h] \in Mano /\ mano \in [Hilo -> Mano] /\ i \in Nat
  BY <1>2, <1>4 DEF TipoInv, HilosOK
<1>6. CASE Muere /\ mongoNodos' = mongoNodos
  BY <1>1, <1>6, TipoMuere DEF TipoInv, MemoriaOK
<1>7. ASSUME UNCHANGED <<nodos, letra, nombre, llega, archivos, archivo, nroBloque, vivo>>,
             arrayNodos' = s, mongoNodos' \in Seq(UnNodo)
      PROVE  MemoriaOK' /\ SiguenLasCopias(archivos, archivos') /\ Len(nodos') = Len(nodos)
  BY <1>1, <1>3, <1>7 DEF TipoInv, MemoriaOK, SiguenLasCopias
<1>8. CASE /\ UNCHANGED <<nodos, letra, nombre, llega, archivos, archivo, nroBloque, vivo>>
           /\ arrayNodos' = s
           /\ en' = [en EXCEPT ![h] = "bloque"] /\ UNCHANGED <<mano, mongoNodos>>
  <2>1. mano' = [mano EXCEPT ![h] = mano[h]]
    BY <1>5, <1>8
  <2>2. "bloque" \in DeSubir /\ "bloque" # "toma" /\ "bloque" # "manda"
    BY DEF DeSubir
  <2>3. MemoriaOK' /\ SiguenLasCopias(archivos, archivos') /\ Len(nodos') = Len(nodos)
    BY <1>2, <1>7, <1>8
  <2>. QED
    BY <1>5, <1>8, <2>1, <2>2, <2>3, TipoDeHilo
<1>9. CASE /\ UNCHANGED <<nodos, letra, nombre, llega, archivos, archivo, nroBloque, vivo>>
           /\ arrayNodos' = s
           /\ k # 0 /\ i # 0
           /\ en' = [en EXCEPT ![h] = "toma"]
           /\ mano' = [mano EXCEPT ![h].lugar = k, ![h].nodo = i]
           /\ mongoNodos' = SinNodo(nodos[i])
  <2>1. mano' = [mano EXCEPT ![h] = m]
    BY <1>5, <1>9
  <2>2. m \in Mano /\ m.lugar = k /\ m.nodo = i
    BY <1>4, <1>5 DEF Mano
  <2>3. "toma" \in DeSubir /\ "toma" # "manda"
    BY DEF DeSubir
  <2>4. mongoNodos' \in Seq(UnNodo)
    BY <1>2, <1>9, SinNodoEs
  <2>5. MemoriaOK' /\ SiguenLasCopias(archivos, archivos') /\ Len(nodos') = Len(nodos)
    BY <1>7, <1>9, <2>4
  <2>. HIDE DEF m
  <2>. QED
    BY <1>4, <1>9, <2>1, <2>2, <2>3, <2>5, TipoDeHilo
<1>. QED
  BY <1>1, <1>6, <1>8, <1>9

(* The head of the free blocks is a block, and so is block 0.              *)
LEMMA TomaEs ==
  ASSUME NEW x \in UnNodo
  PROVE  Toma(x) \in UnNodo /\ BloqueLibre(x) \in Bloque0
<1>1. x.libres \in Seq(Bloque0) /\ 0 \in Bloque0
  BY MDFSAssumption DEF UnNodo, Bloque0
<1>. HIDE DEF Bloque0
<1>2. BloqueLibre(x) \in Bloque0
  BY <1>1 DEF BloqueLibre
<1>3. (IF x.libres = <<>> THEN x.libres ELSE Tail(x.libres)) \in Seq(Bloque0)
  BY <1>1
<1>4. Toma(x) \in UnNodo
  BY <1>3 DEF Toma, UnNodo
<1>. QED
  BY <1>2, <1>4

(* funcionLoca from buscarBloqueDisponible to agregarBloqueEnArrayNodos.   *)
LEMMA TipoToma ==
  ASSUME TipoInv, NEW h \in Hilo, TomaBloque(h)
  PROVE  TipoInv'
<1>. DEFINE i == mano[h].nodo
            k == mano[h].lugar
            x == nodos[i]
            c == [nodo |-> x.nombre, bloque |-> BloqueLibre(x)]
            m == [mano[h] EXCEPT !.dir = x.dir, !.copia = c]
<1>0. discos' = discos /\ mongoArchivos' = mongoArchivos /\ subidas' = subidas
  BY DEF TomaBloque, contador
<1>1. CASE Muere /\ mongoNodos' = mongoNodos
  BY <1>0, <1>1, TipoMuere DEF TipoInv, MemoriaOK
<1>2. CASE ~(Muere /\ mongoNodos' = mongoNodos)
  <2>1. /\ i # 0 /\ archivo # 0 /\ ~(k > Len(arrayNodos))
        /\ en[h] = "toma"
        /\ UNCHANGED <<letra, nombre, llega, archivos, archivo, nroBloque, vivo>>
        /\ nodos' = [nodos EXCEPT ![i] = Toma(@)]
        /\ mongoNodos' = Append(mongoNodos, Toma(x))
        /\ arrayNodos' = Anota(arrayNodos, k, archivos[archivo], mano[h].bloque.nro)
        /\ mano' = [mano EXCEPT ![h].dir = x.dir, ![h].copia = c]
        /\ en' = [en EXCEPT ![h] = "manda"]
    BY <1>2 DEF TomaBloque
  <2>2. mano[h] \in Mano /\ mano \in [Hilo -> Mano] /\ k \in Nat /\ k # 0 /\ i \in 0..Len(nodos)
        /\ mano[h].bloque.nro \in Nat
    BY <2>1 DEF TipoInv, HilosOK, Mano, UnBloque
  <2>3. /\ nodos \in Seq(UnNodo) /\ mongoNodos \in Seq(UnNodo) /\ arrayNodos \in Seq(Sitio)
        /\ archivos \in Seq(UnArchivo) /\ archivo \in 1..Len(archivos)
    BY <2>1 DEF TipoInv, MemoriaOK
  <2>4. i \in 1..Len(nodos) /\ k \in 1..Len(arrayNodos)
    BY <2>1, <2>2, <2>3
  <2>5. x \in UnNodo
    BY <2>3, <2>4
  <2>6. x.dir \in Nodo /\ x.nombre \in Nombre
    BY <2>5 DEF UnNodo
  <2>7. Toma(x) \in UnNodo /\ BloqueLibre(x) \in Bloque0
    BY <2>5, TomaEs
  <2>. HIDE DEF i, k
  <2>8. nodos' \in Seq(UnNodo) /\ Len(nodos') = Len(nodos) /\ mongoNodos' \in Seq(UnNodo)
    BY <2>1, <2>3, <2>4, <2>7
  <2>9. arrayNodos' \in Seq(Sitio)
    <3>. DEFINE y == arrayNodos[k]
                e == <<archivos[archivo].ruta, mano[h].bloque.nro>>
                z == [y EXCEPT !.tiene = Append(y.tiene, e)]
    <3>1. y \in Sitio
      BY <2>3, <2>4
    <3>2. archivos[archivo] \in UnArchivo
      BY <2>3
    <3>3. e \in Ruta \X Nat
      BY <2>2, <3>2 DEF UnArchivo
    <3>. HIDE DEF e
    <3>4. y.tiene \in Seq(Ruta \X Nat)
      BY <3>1 DEF Sitio
    <3>5. Append(y.tiene, e) \in Seq(Ruta \X Nat)
      BY <3>3, <3>4
    <3>6. z \in Sitio
      BY <3>1, <3>5 DEF Sitio
    <3>7. arrayNodos' = [arrayNodos EXCEPT ![k] = z]
      BY <2>1, <2>3, <2>4 DEF Anota, e
    <3>. HIDE DEF z
    <3>. QED
      BY <2>3, <2>4, <3>6, <3>7
  <2>10. MemoriaOK'
    BY <1>0, <2>1, <2>8, <2>9 DEF TipoInv, MemoriaOK
  <2>11. SiguenLasCopias(archivos, archivos')
    BY <2>1, <2>3 DEF SiguenLasCopias
  <2>12. c \in [nodo : Nombre \cup {Nadie}, bloque : Bloque0] /\ c.nodo = x.nombre
    BY <2>6, <2>7
  <2>. HIDE DEF c, x
  <2>13. m \in Mano /\ m.dir = x.dir /\ m.copia = c
    BY <2>2, <2>6, <2>12 DEF Mano
  <2>14. mano' = [mano EXCEPT ![h] = m]
    BY <2>1, <2>2
  <2>. HIDE DEF m
  <2>15. "manda" \in DeSubir /\ "manda" # "toma"
    BY DEF DeSubir
  <2>. QED
    BY <2>1, <2>6, <2>8, <2>10, <2>11, <2>12, <2>13, <2>14, <2>15, TipoDeHilo
<1>. QED
  BY <1>1, <1>2

(* A copy is sent, and the third one puts the block in its file.           *)
LEMMA TipoManda ==
  ASSUME TipoInv, NEW h \in Hilo, MandaCopia(h)
  PROVE  TipoInv'
<1>. DEFINE c == mano[h].copia
            b == [mano[h].bloque EXCEPT !.copias = Append(@, c)]
            m(x) == [mano[h] EXCEPT !.bloque = x, !.copia = SinCopia]
<1>1. /\ UNCHANGED <<mongoNodos, mongoArchivos, subidas>>
      /\ discos' = [discos EXCEPT ![mano[h].dir][c.bloque] = b.dato]
      /\ en[h] = "manda"
  BY DEF MandaCopia, mongo, contador
<1>2. mano[h] \in Mano /\ mano \in [Hilo -> Mano] /\ mano[h].dir \in Nodo
      /\ c.nodo \in Nombre
  BY <1>1 DEF TipoInv, HilosOK
<1>3. c \in UnaCopia /\ mano[h].bloque \in UnBloque
  BY <1>2 DEF Mano, UnaCopia
<1>. HIDE DEF c
<1>4. b \in UnBloque /\ b.dato \in Seq(Nat)
  <2>1. Append(mano[h].bloque.copias, c) \in Seq(UnaCopia)
    BY <1>3 DEF UnBloque
  <2>. QED
    BY <1>3, <2>1 DEF UnBloque
<1>5. discos' \in [Nodo -> [Bloque0 -> Seq(Nat)]]
  <2>1. c.bloque \in Bloque0 /\ discos \in [Nodo -> [Bloque0 -> Seq(Nat)]]
    BY <1>3 DEF UnaCopia, TipoInv, MemoriaOK
  <2>. HIDE DEF b
  <2>. QED
    BY <1>1, <1>2, <1>4, <2>1
<1>. HIDE DEF b
<1>6. CASE Muere
  BY <1>1, <1>5, <1>6, TipoMuere DEF TipoInv, MemoriaOK
<1>7. \A x \in UnBloque : m(x) \in Mano
  <2>1. SinCopia \in [nodo : Nombre \cup {Nadie}, bloque : Bloque0]
    BY MDFSAssumption DEF SinCopia, Bloque0
  <2>. QED
    BY <1>2, <2>1 DEF Mano
<1>8. CASE ~Muere /\ Len(b.copias) < 3
  <2>1. /\ UNCHANGED <<nodos, letra, nombre, llega, archivos, archivo, nroBloque, arrayNodos, vivo>>
        /\ en' = [en EXCEPT ![h] = "busca"]
        /\ mano' = [mano EXCEPT ![h].bloque = b, ![h].copia = SinCopia]
    BY <1>8 DEF MandaCopia, b, c
  <2>2. mano' = [mano EXCEPT ![h] = m(b)]
    BY <1>2, <2>1
  <2>3. MemoriaOK' /\ SiguenLasCopias(archivos, archivos')
    BY <1>1, <1>5, <2>1 DEF TipoInv, MemoriaOK, SiguenLasCopias
  <2>4. "busca" \in DeSubir /\ "busca" # "toma" /\ "busca" # "manda"
    BY DEF DeSubir
  <2>5. m(b) \in Mano
    BY <1>4, <1>7
  <2>. HIDE DEF m
  <2>. QED
    BY <2>1, <2>2, <2>3, <2>4, <2>5, TipoDeHilo
<1>9. CASE ~Muere /\ ~(Len(b.copias) < 3)
  <2>1. /\ ~ArchivoPerdido
        /\ UNCHANGED <<nodos, letra, nombre, llega, archivo, nroBloque, arrayNodos, vivo>>
        /\ archivos' = [archivos EXCEPT ![archivo].bloques = Append(@, b)]
        /\ en' = [en EXCEPT ![h] = "bloque"]
        /\ mano' = [mano EXCEPT ![h].bloque = SinBloque, ![h].copia = SinCopia]
    BY <1>9 DEF MandaCopia, b, c
  <2>2. mano' = [mano EXCEPT ![h] = m(SinBloque)]
    BY <1>2, <2>1
  <2>3. archivos \in Seq(UnArchivo) /\ archivo \in 1..Len(archivos)
    BY <2>1 DEF ArchivoPerdido, TipoInv, MemoriaOK
  <2>. DEFINE v == archivos[archivo]
              n == [v EXCEPT !.bloques = Append(v.bloques, b)]
  <2>4. v \in UnArchivo
    BY <2>3
  <2>5. v.bloques \in Seq(UnBloque)
    BY <2>4 DEF UnArchivo
  <2>6. Append(v.bloques, b) \in Seq(UnBloque)
    BY <1>4, <2>5
  <2>7. n \in UnArchivo /\ n.bloques = Append(v.bloques, b)
    BY <2>4, <2>6 DEF UnArchivo
  <2>8. archivos' = [archivos EXCEPT ![archivo] = n]
    BY <2>1, <2>3
  <2>. HIDE DEF n
  <2>9. archivos' \in Seq(UnArchivo) /\ Len(archivos') = Len(archivos)
    BY <2>3, <2>7, <2>8
  <2>10. MemoriaOK'
    BY <1>1, <1>5, <2>1, <2>9 DEF TipoInv, MemoriaOK
  <2>11. SiguenLasCopias(archivos, archivos')
    <3>1. /\ DOMAIN v.bloques \subseteq DOMAIN n.bloques
          /\ \A d \in DOMAIN v.bloques : n.bloques[d] = v.bloques[d]
      BY <1>4, <2>5, <2>7
    <3>2. ASSUME NEW a \in 1..Len(archivos)
          PROVE  /\ DOMAIN archivos[a].bloques \subseteq DOMAIN archivos'[a].bloques
                 /\ \A d \in DOMAIN archivos[a].bloques :
                      archivos'[a].bloques[d].copias = archivos[a].bloques[d].copias
      <4>1. CASE a = archivo
        <5>1. archivos[a] = v /\ archivos'[a] = n
          BY <2>3, <2>8, <4>1
        <5>. QED
          BY <3>1, <5>1
      <4>2. CASE a # archivo
        <5>1. archivos'[a] = archivos[a]
          BY <2>3, <2>8, <4>2
        <5>. QED
          BY <5>1
      <4>. QED
        BY <4>1, <4>2
    <3>. QED
      BY <2>3, <2>9, <3>2 DEF SiguenLasCopias
  <2>12. "bloque" \in DeSubir /\ "bloque" # "toma" /\ "bloque" # "manda"
    BY DEF DeSubir
  <2>13. m(SinBloque) \in Mano
    <3>1. SinBloque \in UnBloque
      BY DEF SinBloque, UnBloque
    <3>. QED
      BY <1>7, <3>1
  <2>. HIDE DEF m
  <2>. QED
    BY <2>1, <2>2, <2>10, <2>11, <2>12, <2>13, TipoDeHilo
<1>. QED
  BY <1>6, <1>8, <1>9

(* Steps of the console that leave the number of nodes and the other       *)
(* thread as they are: what the console needs at its new step is there.    *)
LEMMA TipoDeConsola ==
  ASSUME TipoInv, MemoriaOK', Len(nodos') = Len(nodos),
         NEW e \in {"libre", "creaNodo", "creaArchivo", "libera", "quita", "formatea"},
         NEW m \in Mano,
         en' = [en EXCEPT !["consola"] = e], mano' = [mano EXCEPT !["consola"] = m],
         e = "creaNodo" => m.nodo \in 1..Len(nodos),
         e \in DeArchivo \/ (e = "creaNodo" /\ m.luego # "libre") => m.arch \in 1..Len(archivos'),
         e = "quita" => /\ m.cual[1] \in DOMAIN archivos'[m.arch].bloques
                        /\ m.cual[2] \in DOMAIN archivos'[m.arch].bloques[m.cual[1]].copias
  PROVE  TipoInv'
<1>1. /\ en'["consola"] = e /\ mano'["consola"] = m
      /\ en'["servidor"] = en["servidor"] /\ mano'["servidor"] = mano["servidor"]
      /\ en' \in [Hilo -> DeSubir \cup DeArchivo \cup {"creaNodo", "formatea"}]
      /\ mano' \in [Hilo -> Mano]
  BY DEF TipoInv, HilosOK, Hilo, DeSubir, DeArchivo
<1>2. HilosOK'
  BY <1>1 DEF TipoInv, HilosOK, Hilo
<1>3. ConsolaOK'
  BY <1>1 DEF ConsolaOK
<1>. QED
  BY <1>2, <1>3 DEF TipoInv

(* What the console has in its hands.                                      *)
LEMMA TieneLaConsola ==
  ASSUME TipoInv
  PROVE  /\ mano["consola"] \in Mano /\ mano \in [Hilo -> Mano] /\ "consola" \in Hilo
         /\ archivos \in Seq(UnArchivo) /\ nodos \in Seq(UnNodo)
         /\ mongoNodos \in Seq(UnNodo) /\ mongoArchivos \in Seq(UnArchivo)
  BY DEF TipoInv, HilosOK, MemoriaOK, Hilo

(* The writes that end a change of a node or of a file.                    *)
LEMMA TipoCrea ==
  ASSUME TipoInv, CreaNodo \/ CreaArchivo
  PROVE  TipoInv'
<1>1. CASE CreaNodo
  <2>. DEFINE m == mano["consola"]
  <2>1. /\ UNCHANGED <<nodos, letra, nombre, llega, archivos, archivo, nroBloque, arrayNodos,
                       mano, discos, mongoArchivos, vivo, subidas>>
        /\ mongoNodos' = Append(mongoNodos, nodos[m.nodo])
        /\ en["consola"] = "creaNodo" /\ en' = [en EXCEPT !["consola"] = m.luego]
    BY <1>1 DEF CreaNodo, contador
  <2>2. m \in Mano /\ m.luego \in {"libre", "libera", "creaArchivo"} /\ m.nodo \in 1..Len(nodos)
    BY <2>1, TieneLaConsola DEF Mano, TipoInv, ConsolaOK
  <2>3. m.luego # "libre" => m.arch \in 1..Len(archivos)
    BY <2>1 DEF TipoInv, ConsolaOK
  <2>4. mano' = [mano EXCEPT !["consola"] = m]
    BY <2>1, TieneLaConsola
  <2>. HIDE DEF m
  <2>5. MemoriaOK'
    BY <2>1, <2>2 DEF TipoInv, MemoriaOK
  <2>6. /\ m.luego \in DeArchivo \/ (m.luego = "creaNodo" /\ m.luego # "libre")
             => m.arch \in 1..Len(archivos')
        /\ m.luego # "creaNodo" /\ m.luego # "quita"
        /\ m.luego \in {"libre", "creaNodo", "creaArchivo", "libera", "quita", "formatea"}
        /\ Len(nodos') = Len(nodos) /\ en' = [en EXCEPT !["consola"] = m.luego]
    BY <2>1, <2>2, <2>3 DEF DeArchivo
  <2>. QED
    BY <2>2, <2>4, <2>5, <2>6, TipoDeConsola
<1>2. CASE CreaArchivo
  <2>1. /\ UNCHANGED <<nodos, letra, nombre, llega, archivos, archivo, nroBloque, arrayNodos,
                       discos, mongoNodos, vivo, subidas>>
        /\ mongoArchivos' = Append(mongoArchivos, archivos[mano["consola"].arch])
        /\ en["consola"] = "creaArchivo" /\ en' = [en EXCEPT !["consola"] = "libre"]
        /\ mano' = [mano EXCEPT !["consola"] = ManoVacia]
    BY <1>2 DEF CreaArchivo, contador
  <2>2. mano["consola"].arch \in 1..Len(archivos)
    BY <2>1 DEF TipoInv, ConsolaOK, DeArchivo
  <2>3. MemoriaOK'
    BY <2>1, <2>2 DEF TipoInv, MemoriaOK
  <2>4. "libre" \notin DeArchivo /\ "libre" # "creaNodo" /\ "libre" # "quita"
    BY DEF DeArchivo
  <2>. QED
    BY <2>1, <2>3, <2>4, ManoVaciaEs, TipoDeConsola
<1>. QED
  BY <1>1, <1>2

(* Renaming, and the first steps of a deletion.                            *)
LEMMA TipoOrdena ==
  ASSUME TipoInv, \/ \E r, nueva \in Ruta : Renombrar(r, nueva)
                  \/ \E r \in Ruta : EliminarArchivo(r)
                  \/ \E r \in Ruta, b, c \in Respuesta : BorrarBloque(r, b, c)
  PROVE  TipoInv'
<1>. DEFINE m(a) == [mano["consola"] EXCEPT !.arch = a]
<1>1. \A r : ArchivoEn(r) \in 0..Len(archivos)
  BY TieneLaConsola, ArchivoBuscado
<1>2. ASSUME NEW a \in 1..Len(archivos), mano' = [mano EXCEPT !["consola"].arch = a]
      PROVE  m(a) \in Mano /\ m(a).arch = a /\ mano' = [mano EXCEPT !["consola"] = m(a)]
  <2>1. a \in Nat
    BY TieneLaConsola
  <2>2. m(a) \in Mano
    BY <2>1, TieneLaConsola DEF Mano
  <2>3. m(a).arch = a
    BY TieneLaConsola DEF Mano
  <2>4. mano' = [mano EXCEPT !["consola"] = m(a)]
    BY <1>2, TieneLaConsola
  <2>. QED
    BY <2>2, <2>3, <2>4
<1>. HIDE DEF m
<1>3. ASSUME NEW r \in Ruta, NEW nueva \in Ruta, Renombrar(r, nueva)
      PROVE  TipoInv'
  <2>. DEFINE a == ArchivoEn(r)
              v == [archivos[a] EXCEPT !.ruta = nueva]
  <2>1. /\ a # 0
        /\ mongoArchivos' = SinArchivo(archivos[a])
        /\ archivos' = [archivos EXCEPT ![a].ruta = nueva]
        /\ en' = [en EXCEPT !["consola"] = "creaArchivo"]
        /\ mano' = [mano EXCEPT !["consola"].arch = a]
        /\ UNCHANGED <<nodos, letra, nombre, llega, archivo, nroBloque, arrayNodos, discos,
                       mongoNodos, vivo, subidas>>
    BY <1>3 DEF Renombrar
  <2>2. a \in 1..Len(archivos)
    BY <1>1, <2>1
  <2>3. archivos[a] \in UnArchivo
    BY <2>2, TieneLaConsola
  <2>. HIDE DEF a
  <2>4. v \in UnArchivo /\ archivos' = [archivos EXCEPT ![a] = v]
    BY <2>1, <2>2, <2>3, TieneLaConsola DEF UnArchivo
  <2>. HIDE DEF v
  <2>5. archivos' \in Seq(UnArchivo) /\ Len(archivos') = Len(archivos)
    BY <2>2, <2>4, TieneLaConsola
  <2>6. mongoArchivos' \in Seq(UnArchivo)
    BY <2>1, TieneLaConsola, SinArchivoEs
  <2>7. MemoriaOK'
    BY <2>1, <2>5, <2>6 DEF TipoInv, MemoriaOK
  <2>8. m(a) \in Mano /\ m(a).arch = a /\ mano' = [mano EXCEPT !["consola"] = m(a)]
    BY <1>2, <2>1, <2>2
  <2>9. m(a).arch \in 1..Len(archivos') /\ Len(nodos') = Len(nodos)
    BY <2>1, <2>2, <2>5, <2>8
  <2>. QED
    BY <2>1, <2>7, <2>8, <2>9, TipoDeConsola
<1>4. ASSUME NEW r \in Ruta, EliminarArchivo(r)
      PROVE  TipoInv'
  <2>. DEFINE a == ArchivoEn(r)
  <2>1. /\ a # 0
        /\ mongoArchivos' = SinArchivo(archivos[a])
        /\ en' = [en EXCEPT !["consola"] = "libera"]
        /\ mano' = [mano EXCEPT !["consola"].arch = a]
        /\ UNCHANGED <<nodos, letra, nombre, llega, archivos, archivo, nroBloque, arrayNodos,
                       discos, mongoNodos, vivo, subidas>>
    BY <1>4 DEF EliminarArchivo
  <2>2. a \in 1..Len(archivos)
    BY <1>1, <2>1
  <2>. HIDE DEF a
  <2>3. mongoArchivos' \in Seq(UnArchivo)
    BY <2>1, TieneLaConsola, SinArchivoEs
  <2>4. MemoriaOK'
    BY <2>1, <2>3 DEF TipoInv, MemoriaOK
  <2>5. m(a) \in Mano /\ m(a).arch = a /\ mano' = [mano EXCEPT !["consola"] = m(a)]
    BY <1>2, <2>1, <2>2
  <2>. QED
    BY <2>1, <2>2, <2>4, <2>5, TipoDeConsola
<1>5. ASSUME NEW r \in Ruta, NEW b \in Respuesta, NEW c \in Respuesta, BorrarBloque(r, b, c)
      PROVE  TipoInv'
  <2>. DEFINE a == ArchivoEn(r)
              y == [mano["consola"] EXCEPT !.arch = a, !.cual = <<b, c>>]
  <2>1. a # 0 /\ discos' = discos /\ mongoNodos' = mongoNodos /\ subidas' = subidas
    BY <1>5 DEF BorrarBloque
  <2>2. a \in 1..Len(archivos)
    BY <1>1, <2>1
  <2>3. mongoArchivos' = mongoArchivos \/ mongoArchivos' = SinArchivo(archivos[a])
    BY <1>5 DEF BorrarBloque
  <2>4. mongoArchivos' \in Seq(UnArchivo)
    BY <2>3, TieneLaConsola, SinArchivoEs
  <2>5. CASE Muere
    BY <2>1, <2>4, <2>5, TipoMuere DEF TipoInv, MemoriaOK
  <2>6. CASE ~Muere
    <3>1. /\ b <= Len(archivos[a].bloques) /\ c <= Len(archivos[a].bloques[b].copias)
          /\ en' = [en EXCEPT !["consola"] = "quita"]
          /\ mano' = [mano EXCEPT !["consola"].arch = a, !["consola"].cual = <<b, c>>]
          /\ UNCHANGED <<nodos, letra, nombre, llega, archivos, archivo, nroBloque,
                         arrayNodos, vivo>>
      <4>1. archivos[a] \in UnArchivo
        BY <2>2, TieneLaConsola
      <4>2. archivos[a].bloques \in Seq(UnBloque) /\ b \in Nat \ {0} /\ c \in Nat \ {0}
        BY <4>1 DEF UnArchivo, Respuesta
      <4>3. ~(b > Len(archivos[a].bloques))
        BY <1>5, <2>6 DEF BorrarBloque
      <4>4. b \in 1..Len(archivos[a].bloques)
        BY <4>2, <4>3
      <4>5. archivos[a].bloques[b] \in UnBloque
        BY <4>2, <4>4
      <4>6. Len(archivos[a].bloques[b].copias) \in Nat
        BY <4>5 DEF UnBloque
      <4>7. ~(c > Len(archivos[a].bloques[b].copias))
        BY <1>5, <2>6, <4>3 DEF BorrarBloque
      <4>8. b <= Len(archivos[a].bloques) /\ c <= Len(archivos[a].bloques[b].copias)
        BY <4>2, <4>4, <4>6, <4>7
      <4>9. /\ en' = [en EXCEPT !["consola"] = "quita"]
            /\ mano' = [mano EXCEPT !["consola"].arch = a, !["consola"].cual = <<b, c>>]
            /\ UNCHANGED <<nodos, letra, nombre, llega, archivos, archivo, nroBloque,
                           arrayNodos, vivo>>
        BY <1>5, <2>6, <4>3, <4>7 DEF BorrarBloque
      <4>. QED
        BY <4>8, <4>9
    <3>2. b \in DOMAIN archivos[a].bloques /\ c \in DOMAIN archivos[a].bloques[b].copias
      <4>1. archivos[a] \in UnArchivo
        BY <2>2, TieneLaConsola
      <4>2. archivos[a].bloques \in Seq(UnBloque) /\ b \in Nat \ {0} /\ c \in Nat \ {0}
        BY <4>1 DEF UnArchivo, Respuesta
      <4>3. b \in DOMAIN archivos[a].bloques
        BY <3>1, <4>2
      <4>4. archivos[a].bloques[b] \in UnBloque
        BY <4>2, <4>3
      <4>5. archivos[a].bloques[b].copias \in Seq(UnaCopia)
        BY <4>4 DEF UnBloque
      <4>. QED
        BY <3>1, <4>2, <4>3, <4>5
    <3>. HIDE DEF a
    <3>3. y \in Mano /\ y.arch = a /\ y.cual = <<b, c>>
      <4>1. a \in Nat /\ <<b, c>> \in Nat \X Nat
        BY <2>2, TieneLaConsola DEF Respuesta
      <4>. QED
        BY <4>1, TieneLaConsola DEF Mano
    <3>4. mano' = [mano EXCEPT !["consola"] = y]
      BY <3>1, TieneLaConsola
    <3>. HIDE DEF y
    <3>5. MemoriaOK'
      BY <2>1, <2>4, <3>1 DEF TipoInv, MemoriaOK
    <3>6. y.cual[1] = b /\ y.cual[2] = c
      BY <3>3
    <3>. QED
      BY <2>2, <3>1, <3>2, <3>3, <3>4, <3>5, <3>6, TipoDeConsola
  <2>. QED
    BY <2>5, <2>6
<1>. QED
  BY <1>3, <1>4, <1>5

(* A copy that leaves its block: list_remove, and list_add to its node.    *)
LEMMA TipoQuitaCopia ==
  ASSUME TipoInv, NEW a \in 1..Len(archivos), NEW b \in DOMAIN archivos[a].bloques,
         NEW c \in DOMAIN archivos[a].bloques[b].copias, NEW luego \in {"libera", "creaArchivo"},
         mano["consola"].arch = a, QuitaCopia(a, b, c, luego),
         discos' = discos, mongoArchivos' = mongoArchivos, subidas' = subidas
  PROVE  TipoInv'
<1>. DEFINE copia == archivos[a].bloques[b].copias[c]
            i == PorNombre(copia.nodo)
            resto == RemoveAt(archivos[a].bloques[b].copias, c)
            w == [archivos[a].bloques[b] EXCEPT !.copias = resto]
            v == [archivos[a] EXCEPT !.bloques = [archivos[a].bloques EXCEPT ![b] = w]]
            m == [mano["consola"] EXCEPT !.nodo = i, !.luego = luego]
<1>1. CASE Muere /\ mongoNodos' = mongoNodos
  BY <1>1, TipoMuere DEF TipoInv, MemoriaOK
<1>2. CASE ~(Muere /\ mongoNodos' = mongoNodos)
  <2>1. /\ i # 0
        /\ archivos' = [archivos EXCEPT ![a].bloques[b].copias = resto]
        /\ mongoNodos' = SinNodo(nodos[i])
        /\ nodos' = [nodos EXCEPT ![i] = Devuelve(nodos[i], copia.bloque)]
        /\ en' = [en EXCEPT !["consola"] = "creaNodo"]
        /\ mano' = [mano EXCEPT !["consola"].nodo = i, !["consola"].luego = luego]
        /\ UNCHANGED <<letra, nombre, llega, archivo, nroBloque, arrayNodos, vivo>>
    BY <1>2 DEF QuitaCopia
  <2>2. archivos[a] \in UnArchivo
    BY TieneLaConsola
  <2>3. archivos[a].bloques \in Seq(UnBloque) /\ b \in 1..Len(archivos[a].bloques)
    BY <2>2 DEF UnArchivo
  <2>4. archivos[a].bloques[b] \in UnBloque
    BY <2>3
  <2>5. archivos[a].bloques[b].copias \in Seq(UnaCopia)
        /\ c \in 1..Len(archivos[a].bloques[b].copias)
    BY <2>4 DEF UnBloque
  <2>6. copia \in UnaCopia /\ resto \in Seq(UnaCopia)
    BY <2>5, RemoveAtEs
  <2>. HIDE DEF resto
  <2>7. w \in UnBloque
    BY <2>4, <2>6 DEF UnBloque
  <2>8. [archivos[a].bloques EXCEPT ![b] = w] \in Seq(UnBloque)
    <3>. HIDE DEF w
    <3>. QED
      BY <2>3, <2>7
  <2>9. v \in UnArchivo
    <3>. HIDE DEF w
    <3>. QED
      BY <2>2, <2>8 DEF UnArchivo
  <2>10. archivos' = [archivos EXCEPT ![a] = v]
    BY <2>1, <2>2, <2>3, <2>4, TieneLaConsola
  <2>. HIDE DEF v, w
  <2>11. archivos' \in Seq(UnArchivo) /\ Len(archivos') = Len(archivos)
    BY <2>9, <2>10, TieneLaConsola
  <2>. HIDE DEF copia
  <2>12. i \in 1..Len(nodos) /\ i \in Nat
    <3>1. i \in 0..Len(nodos) /\ Len(nodos) \in Nat
      BY TieneLaConsola, NodoBuscado
    <3>. HIDE DEF i
    <3>. QED
      BY <2>1, <3>1
  <2>13. copia.bloque \in Bloque0
    BY <2>6 DEF UnaCopia
  <2>. HIDE DEF i
  <2>14. nodos[i] \in UnNodo
    BY <2>12, TieneLaConsola
  <2>15. Devuelve(nodos[i], copia.bloque) \in UnNodo
    <3>1. Append(nodos[i].libres, copia.bloque) \in Seq(Bloque0)
      BY <2>13, <2>14 DEF UnNodo
    <3>. QED
      BY <2>14, <3>1 DEF Devuelve, UnNodo
  <2>16. nodos' \in Seq(UnNodo) /\ Len(nodos') = Len(nodos)
    BY <2>1, <2>12, <2>15, TieneLaConsola
  <2>17. mongoNodos' \in Seq(UnNodo)
    BY <2>1, TieneLaConsola, SinNodoEs
  <2>18. MemoriaOK'
    BY <2>1, <2>11, <2>16, <2>17 DEF TipoInv, MemoriaOK
  <2>19. m \in Mano /\ m.nodo = i /\ m.arch = a
    BY <2>12, TieneLaConsola DEF Mano
  <2>20. mano' = [mano EXCEPT !["consola"] = m]
    BY <2>1, TieneLaConsola
  <2>. HIDE DEF m
  <2>21. /\ m.nodo \in 1..Len(nodos) /\ m.arch \in 1..Len(archivos')
         /\ "creaNodo" # "quita" /\ "creaNodo" \notin DeArchivo
    BY <2>11, <2>12, <2>19 DEF DeArchivo
  <2>. QED
    BY <2>1, <2>16, <2>18, <2>19, <2>20, <2>21, TipoDeConsola
<1>. QED
  BY <1>1, <1>2

(* liberarBloquesArchivo, and the copy the operator chose.                 *)
LEMMA TipoLibera ==
  ASSUME TipoInv, Libera \/ Quita
  PROVE  TipoInv'
<1>. DEFINE a == mano["consola"].arch
<1>1. discos' = discos /\ mongoArchivos' = mongoArchivos /\ subidas' = subidas
  BY DEF Libera, Quita, contador
<1>2. a \in 1..Len(archivos)
  BY DEF Libera, Quita, TipoInv, ConsolaOK, DeArchivo
<1>3. CASE Libera /\ ConCopias(a) # 0
  <2>1. QuitaCopia(a, ConCopias(a), 1, "libera")
    BY <1>3 DEF Libera
  <2>2. /\ ConCopias(a) \in DOMAIN archivos[a].bloques
        /\ 1 \in DOMAIN archivos[a].bloques[ConCopias(a)].copias
    BY <1>2, <1>3, BloqueBuscado, TieneLaConsola
  <2>. HIDE DEF a
  <2>3. a = mano["consola"].arch
    BY DEF a
  <2>. QED
    BY <1>1, <1>2, <2>1, <2>2, <2>3, TipoQuitaCopia
<1>4. CASE Libera /\ ConCopias(a) = 0
  <2>. DEFINE v == [archivos[a] EXCEPT !.colgado = TRUE, !.bloques = <<>>]
  <2>1. /\ archivos' = [archivos EXCEPT ![a].colgado = TRUE, ![a].bloques = <<>>]
        /\ en' = [en EXCEPT !["consola"] = "libre"]
        /\ mano' = [mano EXCEPT !["consola"] = ManoVacia]
        /\ UNCHANGED <<nodos, letra, nombre, llega, archivo, nroBloque, arrayNodos,
                       mongoNodos, vivo>>
    BY <1>4 DEF Libera
  <2>. HIDE DEF a
  <2>2. archivos[a] \in UnArchivo
    BY <1>2, TieneLaConsola
  <2>3. v \in UnArchivo
    <3>. DEFINE u == [archivos[a] EXCEPT !.colgado = TRUE]
    <3>1. u \in UnArchivo
      BY <2>2 DEF UnArchivo
    <3>2. <<>> \in Seq(UnBloque)
      OBVIOUS
    <3>3. v = [u EXCEPT !.bloques = <<>>]
      OBVIOUS
    <3>. HIDE DEF u, v
    <3>. QED
      BY <3>1, <3>2, <3>3 DEF UnArchivo
  <2>4. archivos' = [archivos EXCEPT ![a] = v]
    BY <1>2, <2>1, <2>2, TieneLaConsola
  <2>. HIDE DEF v
  <2>5. archivos' \in Seq(UnArchivo) /\ Len(archivos') = Len(archivos)
    BY <1>2, <2>3, <2>4, TieneLaConsola
  <2>6. MemoriaOK'
    BY <1>1, <2>1, <2>5 DEF TipoInv, MemoriaOK
  <2>7. "libre" \notin DeArchivo /\ "libre" # "creaNodo" /\ "libre" # "quita"
    BY DEF DeArchivo
  <2>. QED
    BY <2>1, <2>6, <2>7, ManoVaciaEs, TipoDeConsola
<1>5. CASE Quita
  <2>. DEFINE b == mano["consola"].cual[1]
              c == mano["consola"].cual[2]
  <2>1. QuitaCopia(a, b, c, "creaArchivo")
    BY <1>5 DEF Quita
  <2>2. b \in DOMAIN archivos[a].bloques /\ c \in DOMAIN archivos[a].bloques[b].copias
    BY <1>5 DEF Quita, TipoInv, ConsolaOK
  <2>3. a = mano["consola"].arch
    BY DEF a
  <2>. HIDE DEF a, b, c
  <2>. QED
    BY <1>1, <1>2, <2>1, <2>2, <2>3, TipoQuitaCopia
<1>. QED
  BY <1>3, <1>4, <1>5

(* Formatting: the files first, and then every other node.                 *)
LEMMA TipoFormatea ==
  ASSUME TipoInv, Formatear \/ FormateaNodos
  PROVE  TipoInv'
<1>1. CASE Formatear
  <2>1. /\ archivos' = <<>> /\ archivo' = 0 /\ mongoArchivos' = <<>>
        /\ en' = [en EXCEPT !["consola"] = "formatea"]
        /\ UNCHANGED <<nodos, letra, nombre, llega, nroBloque, arrayNodos, mano, discos,
                       mongoNodos, vivo, subidas>>
    BY <1>1 DEF Formatear
  <2>2. archivos' \in Seq(UnArchivo) /\ mongoArchivos' \in Seq(UnArchivo)
        /\ archivo' \in 0..Len(archivos')
    BY <2>1
  <2>3. MemoriaOK'
    BY <2>1, <2>2 DEF TipoInv, MemoriaOK
  <2>4. "formatea" \notin DeArchivo /\ "formatea" # "creaNodo" /\ "formatea" # "quita"
    BY DEF DeArchivo
  <2>5. mano["consola"] \in Mano /\ mano' = [mano EXCEPT !["consola"] = mano["consola"]]
    BY <2>1, TieneLaConsola
  <2>. QED
    BY <2>1, <2>3, <2>4, <2>5, TipoDeConsola
<1>2. CASE FormateaNodos
  <2>. DEFINE x == mano["servidor"]
              k == IF x.nodo % 2 = 0 THEN x.nodo \div 2 ELSE 0
              m == [x EXCEPT !.nodo = k]
  <2>1. /\ nodos' = Alternos(nodos) /\ mongoNodos' = <<>>
        /\ en["consola"] = "formatea" /\ en' = [en EXCEPT !["consola"] = "libre"]
        /\ mano' = [mano EXCEPT !["servidor"].nodo = k]
        /\ UNCHANGED <<letra, nombre, llega, archivos, archivo, nroBloque, arrayNodos, discos,
                       mongoArchivos, vivo, subidas>>
    BY <1>2 DEF FormateaNodos, contador
  <2>2. x \in Mano /\ mano \in [Hilo -> Mano] /\ x.nodo \in Nat /\ "servidor" \in Hilo
    BY DEF TipoInv, HilosOK, Hilo, Mano
  <2>3. k \in Nat /\ (x.nodo \in 0..Len(nodos) => k \in 0..(Len(nodos) \div 2))
    BY <2>2, TieneLaConsola
  <2>4. nodos' \in Seq(UnNodo) /\ Len(nodos') = Len(nodos) \div 2
    <3>1. Len(nodos) \div 2 \in Nat /\ \A i \in 1..(Len(nodos) \div 2) : 2 * i \in 1..Len(nodos)
      BY TieneLaConsola
    <3>2. \A i \in 1..(Len(nodos) \div 2) : nodos[2 * i] \in UnNodo
      BY <3>1, TieneLaConsola
    <3>. QED
      BY <2>1, <3>1, <3>2 DEF Alternos
  <2>. HIDE DEF k
  <2>5. m \in Mano /\ m.nodo = k /\ m.lugar = x.lugar /\ m.dir = x.dir /\ m.copia = x.copia
    BY <2>2, <2>3 DEF Mano
  <2>6. mano' = [mano EXCEPT !["servidor"] = m]
    BY <2>1, <2>2
  <2>. HIDE DEF m
  <2>7. mano'["servidor"] = m /\ mano' \in [Hilo -> Mano] /\ mano'["consola"] = mano["consola"]
    BY <2>2, <2>5, <2>6
  <2>8. MemoriaOK'
    <3>1. mongoNodos' \in Seq(UnNodo)
      BY <2>1
    <3>. QED
      BY <2>1, <2>4, <3>1 DEF TipoInv, MemoriaOK
  <2>9. /\ en'["servidor"] = en["servidor"] /\ en'["consola"] = "libre"
        /\ en' \in [Hilo -> DeSubir \cup DeArchivo \cup {"creaNodo", "formatea"}]
    BY <2>1 DEF TipoInv, HilosOK, Hilo, DeSubir
  <2>10. HilosOK'
    <3>1. en["servidor"] = "toma" => x.lugar # 0 /\ x.nodo \in 0..Len(nodos)
      BY <2>2 DEF TipoInv, HilosOK
    <3>2. en["servidor"] = "manda" => x.dir \in Nodo /\ x.copia.nodo \in Nombre
      BY <2>2 DEF TipoInv, HilosOK
    <3>3. en["servidor"] \in DeSubir
      BY DEF TipoInv, HilosOK
    <3>. HIDE DEF x
    <3>. QED
      BY <2>3, <2>4, <2>5, <2>7, <2>9, <3>1, <3>2, <3>3 DEF HilosOK, Hilo
  <2>11. ConsolaOK'
    BY <2>9 DEF ConsolaOK, DeArchivo
  <2>. QED
    BY <2>8, <2>10, <2>11 DEF TipoInv
<1>. QED
  BY <1>1, <1>2

(* A process that died holds nothing.                                      *)
Muerto ==
  ~vivo => /\ nodos = <<>> /\ archivos = <<>> /\ archivo = 0
           /\ \A h \in Hilo : en[h] = "libre"

(* The ways of dying, and the restart.                                     *)
LEMMA TipoCaida ==
  ASSUME TipoInv, Muerto,
         LeeLiberado \/ Caida \/ (\E h \in Hilo : NodoNoAtiende(h)) \/ Arranca
  PROVE  TipoInv'
<1>1. CASE LeeLiberado \/ Caida \/ (\E h \in Hilo : NodoNoAtiende(h))
  <2>1. Muere /\ UNCHANGED <<discos, mongoNodos, mongoArchivos, subidas>>
    BY <1>1 DEF LeeLiberado, Caida, NodoNoAtiende, mongo
  <2>. QED
    BY <2>1, TipoMuere DEF TipoInv, MemoriaOK
<1>2. CASE Arranca
  <2>1. /\ ~vivo /\ vivo' = TRUE /\ nodos' = mongoNodos /\ archivos' = mongoArchivos
        /\ letra' = 1 + Len(mongoNodos)
        /\ UNCHANGED <<nombre, llega, archivo, nroBloque, arrayNodos, en, mano, discos,
                       mongoNodos, mongoArchivos, subidas>>
    BY <1>2 DEF Arranca, mongo, contador
  <2>2. archivo' \in 0..Len(archivos') /\ letra' \in Nat /\ vivo' \in BOOLEAN
    BY <2>1, TieneLaConsola DEF Muerto
  <2>3. MemoriaOK'
    BY <2>1, <2>2 DEF TipoInv, MemoriaOK
  <2>4. \A h \in Hilo : en'[h] = "libre"
    BY <2>1 DEF Muerto
  <2>5. HilosOK'
    BY <2>1, <2>4 DEF TipoInv, HilosOK
  <2>6. ConsolaOK'
    BY <2>4 DEF ConsolaOK, Hilo, DeArchivo
  <2>. QED
    BY <2>3, <2>5, <2>6 DEF TipoInv
<1>. QED
  BY <1>1, <1>2

(* Every step is taken by a process that runs, and it goes on or dies,     *)
(* except the restart.                                                     *)
LEMMA MuertoPaso ==
  ASSUME Muerto, [Next]_vars
  PROVE  Muerto'
<1>1. CASE Muere
  BY <1>1 DEF Muere, Muerto
<1>2. CASE vivo'
  BY <1>2 DEF Muerto
<1>3. CASE UNCHANGED vars
  BY <1>3 DEF vars, memoria, Muerto
<1>4. CASE ~Muere /\ ~vivo' /\ Next
  <2>1. CASE ServidorPaso
    <3>1. CASE \E n \in Nodo : NodoSePresenta(n) \/ NodoAgregado(n)
      <4>1. vivo /\ UNCHANGED vivo
        BY <3>1 DEF NodoSePresenta, NodoAgregado
      <4>. QED
        BY <1>4, <4>1
    <3>2. CASE \E r \in Ruta : SubirResultado(r)
      <4>1. vivo /\ UNCHANGED vivo
        BY <3>2 DEF SubirResultado, Puede
      <4>. QED
        BY <1>4, <4>1
    <3>. QED
      BY <2>1, <3>1, <3>2 DEF ServidorPaso
  <2>2. CASE \E h \in Hilo : SubidaPaso(h) \/ NodoNoAtiende(h)
    <3>. SUFFICES ASSUME NEW h \in Hilo, SubidaPaso(h) \/ NodoNoAtiende(h)
                  PROVE  FALSE
      BY <1>4, <2>2
    <3>1. CASE EmpiezaBloque(h)
      BY <1>4, <3>1 DEF EmpiezaBloque
    <3>2. CASE TerminaSubida(h)
      BY <1>4, <3>2 DEF TerminaSubida
    <3>3. CASE BuscaNodo(h)
      BY <1>4, <3>3 DEF BuscaNodo
    <3>4. CASE TomaBloque(h)
      BY <1>4, <3>4 DEF TomaBloque
    <3>5. CASE MandaCopia(h)
      BY <1>4, <3>5 DEF MandaCopia
    <3>6. CASE NodoNoAtiende(h)
      BY <1>4, <3>6 DEF NodoNoAtiende
    <3>. QED
      BY <3>1, <3>2, <3>3, <3>4, <3>5, <3>6 DEF SubidaPaso
  <2>3. CASE Caida \/ Arranca
    BY <1>4, <2>3 DEF Caida, Arranca
  <2>4. CASE ConsolaPaso
    <3>1. CASE \/ \E n \in Nodo : AgregarNodo(n)
               \/ \E i \in DOMAIN nodos : EliminarNodo(i)
               \/ CreaNodo
               \/ \E r \in Ruta, e \in Envio : SubirArchivo(r, e)
      <4>1. vivo /\ UNCHANGED vivo
        BY <3>1 DEF AgregarNodo, EliminarNodo, CreaNodo, SubirArchivo, Puede
      <4>. QED
        BY <1>4, <4>1
    <3>2. CASE \/ \E r, nueva \in Ruta : Renombrar(r, nueva)
               \/ CreaArchivo
               \/ \E r \in Ruta : EliminarArchivo(r)
      BY <1>4, <3>2 DEF Renombrar, CreaArchivo, EliminarArchivo, Ordena, Puede
    <3>3. CASE Libera \/ Quita
      <4>1. CASE Libera /\ ~(ConCopias(mano["consola"].arch) # 0)
        BY <1>4, <4>1 DEF Libera
      <4>2. ASSUME NEW a, NEW b, NEW c, NEW e, QuitaCopia(a, b, c, e)
            PROVE  vivo' = vivo
        BY <1>4, <4>2 DEF QuitaCopia
      <4>3. vivo
        BY <3>3 DEF Libera, Quita
      <4>. HIDE DEF QuitaCopia
      <4>. QED
        BY <1>4, <3>3, <4>1, <4>2, <4>3 DEF Libera, Quita
    <3>4. CASE \E r \in Ruta, b, c \in Respuesta : BorrarBloque(r, b, c)
      BY <1>4, <3>4 DEF BorrarBloque, Ordena, Puede
    <3>5. CASE LeeLiberado \/ Formatear \/ FormateaNodos
      BY <1>4, <3>5 DEF LeeLiberado, Formatear, FormateaNodos, Ordena, Puede
    <3>. QED
      BY <2>4, <3>1, <3>2, <3>3, <3>4, <3>5 DEF ConsolaPaso
  <2>. QED
    BY <1>4, <2>1, <2>2, <2>3, <2>4 DEF Next
<1>. QED
  BY <1>1, <1>2, <1>3, <1>4

(* Every step.                                                             *)
LEMMA TipoPaso ==
  ASSUME TipoInv, Muerto, [Next]_vars
  PROVE  TipoInv'
<1>1. CASE ConsolaPaso
  BY <1>1, TipoConsolaNodo, TipoCrea, TipoEmpieza, TipoOrdena, TipoLibera, TipoFormatea, TipoCaida
  DEF ConsolaPaso
<1>2. CASE ServidorPaso
  BY <1>2, TipoNodo, TipoEmpieza DEF ServidorPaso
<1>3. CASE \E h \in Hilo : SubidaPaso(h) \/ NodoNoAtiende(h)
  BY <1>3, TipoBloque, TipoBusca, TipoToma, TipoManda, TipoCaida DEF SubidaPaso
<1>4. CASE Caida \/ Arranca
  BY <1>4, TipoCaida
<1>5. CASE UNCHANGED vars
  BY <1>5 DEF vars, memoria, mongo, contador, TipoInv, MemoriaOK, HilosOK, ConsolaOK
<1>. QED
  BY <1>1, <1>2, <1>3, <1>4, <1>5 DEF Next

(* The types, and that a process that died holds nothing, in every state.  *)
LEMMA TipoSiempre == Spec => [](TipoInv /\ Muerto)
<1>1. Init => TipoInv /\ Muerto
  BY TipoInit DEF Init, Muerto
<1>2. TipoInv /\ Muerto /\ [Next]_vars => (TipoInv /\ Muerto)'
  BY TipoPaso, MuertoPaso
<1>. QED
  BY <1>1, <1>2, PTL DEF Spec

(* The types of the state of the Filesystem hold in every run, whatever    *)
(* the two threads and the operator do.                                    *)
THEOREM TipoMDFSSiempre == Spec => []TypeOK
<1>1. TipoInv => TypeOK
  <2>. SUFFICES ASSUME TipoInv
                PROVE  TypeOK
    OBVIOUS
  <2>1. \A i \in DOMAIN arrayNodos : arrayNodos[i].nombre \in Nombre \cup {Nadie}
    <3>1. arrayNodos \in Seq(Sitio)
      BY DEF TipoInv, MemoriaOK
    <3>2. \A i \in DOMAIN arrayNodos : arrayNodos[i] \in Sitio
      BY <3>1
    <3>. QED
      BY <3>2 DEF Sitio
  <2>2. en \in [Hilo -> {"libre", "bloque", "busca", "toma", "manda", "creaNodo",
                         "creaArchivo", "libera", "quita", "formatea"}]
    BY DEF TipoInv, HilosOK, DeSubir, DeArchivo
  <2>. QED
    BY <2>1, <2>2 DEF TipoInv, MemoriaOK, TypeOK
<1>. QED
  BY <1>1, TipoSiempre, PTL

-----------------------------------------------------------------------------
(* The copies of a block and the blocks of a file.                         *)

Subiendo == {"bloque", "busca", "toma", "manda"}

(* At most one thread works.                                               *)
Solos == \A g, h \in Hilo : en[g] # "libre" /\ en[h] # "libre" => g = h

(* A file whose blocks are its own, each with its copies apart.            *)
CopiasDistintas(b) ==
  \A c, d \in DOMAIN b.copias : b.copias[c].nodo = b.copias[d].nodo => c = d
ArchivoSano(a) ==
  \A i \in DOMAIN a.bloques : CopiasDistintas(a.bloques[i]) /\ a.bloques[i].dato[1] = a.subida
Sano == {a \in UnArchivo : ArchivoSano(a)}

ArchivosSanos == archivos \in Seq(Sano) /\ mongoArchivos \in Seq(Sano)

(* No two slots of arrayNodos have the same node.                          *)
SitiosUnicos(s) ==
  \A p, q \in DOMAIN s : s[p].nombre = s[q].nombre /\ s[p].nombre # Nadie => p = q

(* Every slot of node x notes that it was sent this block.                 *)
Anotado(s, x, r, nro) ==
  \A p \in DOMAIN s : s[p].nombre = x => <<r, nro>> \in ToSet(s[p].tiene)

(* An upload: what is left to send is of the file that archivo points to,  *)
(* and the copies sent of a block are on different nodes and noted, so the *)
(* next one goes to another node.                                          *)
DatosSuyos(h) ==
  /\ archivo # 0
  /\ \A i \in DOMAIN mano[h].datos : mano[h].datos[i][1] = archivos[archivo].subida

Ya(h, x) == Anotado(arrayNodos, x, archivos[archivo].ruta, mano[h].bloque.nro)

BloqueSano(h) ==
  LET b == mano[h].bloque
  IN  /\ b.dato[1] = archivos[archivo].subida
      /\ CopiasDistintas(b)
      /\ \A c \in DOMAIN b.copias : Ya(h, b.copias[c].nodo)

Elegido(h) ==
  LET k == mano[h].lugar
      i == mano[h].nodo
  IN  /\ k \in DOMAIN arrayNodos
      /\ i \in DOMAIN nodos
      /\ nodos[i].nombre = arrayNodos[k].nombre
      /\ <<archivos[archivo].ruta, mano[h].bloque.nro>> \notin ToSet(arrayNodos[k].tiene)

Tomado(h) ==
  LET b == mano[h].bloque
      x == mano[h].copia.nodo
  IN  Ya(h, x) /\ \A c \in DOMAIN b.copias : b.copias[c].nodo # x

SubidaSana(h) ==
  /\ en[h] \in Subiendo => DatosSuyos(h)
  /\ en[h] \in {"busca", "toma", "manda"} => BloqueSano(h)
  /\ en[h] = "toma" => Elegido(h)
  /\ en[h] = "manda" => Tomado(h)

ReplicasInv ==
  /\ Solos
  /\ SitiosUnicos(arrayNodos)
  /\ ArchivosSanos
  /\ \A h \in Hilo : SubidaSana(h)

-----------------------------------------------------------------------------
(* One thread at a time.                                                   *)

(* The thread that works, or that starts when none does, works alone.      *)
LEMMA SoloUno ==
  ASSUME TipoInv, Solos, NEW h \in Hilo, en[h] # "libre" \/ \A g \in Hilo : en[g] = "libre",
         NEW e, en' = [en EXCEPT ![h] = e]
  PROVE  Solos' /\ en'[h] = e /\ \A g \in Hilo \ {h} : en'[g] = "libre"
<1>1. en'[h] = e /\ \A g \in Hilo \ {h} : en'[g] = en[g]
  BY DEF TipoInv, HilosOK
<1>2. \A g \in Hilo \ {h} : en[g] = "libre"
  BY DEF Solos
<1>. QED
  BY <1>1, <1>2 DEF Solos

(* A thread starts only when none works.                                   *)
LEMMA EmpiezaSolo ==
  ASSUME "juntos" \notin Eventos, NEW h \in Hilo, Puede(h)
  PROVE  \A g \in Hilo : en[g] = "libre"
BY DEF Puede

(* The process dies.                                                       *)
LEMMA ReplicasMuere ==
  ASSUME Muere, mongoArchivos' \in Seq(Sano)
  PROVE  ReplicasInv'
<1>1. \A h \in Hilo : en'[h] = "libre"
  BY DEF Muere
<1>2. Solos' /\ \A h \in Hilo : SubidaSana(h)'
  BY <1>1 DEF Solos, SubidaSana, Subiendo
<1>3. SitiosUnicos(arrayNodos)' /\ ArchivosSanos'
  BY DEF Muere, SitiosUnicos, ArchivosSanos
<1>. QED
  BY <1>2, <1>3 DEF ReplicasInv

(* A step after which h is the only one that may be uploading.             *)
LEMMA PasoDe ==
  ASSUME TipoInv, ReplicasInv, NEW h \in Hilo,
         en[h] # "libre" \/ \A g \in Hilo : en[g] = "libre",
         NEW e, en' = [en EXCEPT ![h] = e],
         SitiosUnicos(arrayNodos)', ArchivosSanos', SubidaSana(h)'
  PROVE  ReplicasInv'
<1>1. Solos' /\ \A g \in Hilo \ {h} : en'[g] = "libre"
  BY SoloUno DEF ReplicasInv
<1>2. \A g \in Hilo : SubidaSana(g)'
  BY <1>1 DEF SubidaSana, Subiendo
<1>. QED
  BY <1>1, <1>2 DEF ReplicasInv

(* The other steps of the console: what matters are the files.             *)
LEMMA PasoDeConsola ==
  ASSUME TipoInv, ReplicasInv, en["consola"] # "libre" \/ \A g \in Hilo : en[g] = "libre",
         NEW e, e \notin Subiendo, en' = [en EXCEPT !["consola"] = e],
         arrayNodos' = arrayNodos, archivos' \in Seq(Sano), mongoArchivos' \in Seq(Sano)
  PROVE  ReplicasInv'
<1>1. "consola" \in Hilo /\ ArchivosSanos'
  BY DEF Hilo, ArchivosSanos
<1>2. en'["consola"] = e
  BY <1>1, SoloUno DEF ReplicasInv
<1>3. SubidaSana("consola")'
  BY <1>2 DEF SubidaSana, Subiendo
<1>4. SitiosUnicos(arrayNodos)'
  BY DEF ReplicasInv, SitiosUnicos
<1>. QED
  BY <1>1, <1>3, <1>4, PasoDe

(* The files of a run.                                                     *)
LEMMA Sanos ==
  ASSUME ReplicasInv
  PROVE  /\ archivos \in Seq(Sano) /\ mongoArchivos \in Seq(Sano)
         /\ \A a \in 1..Len(archivos) : archivos[a] \in UnArchivo /\ ArchivoSano(archivos[a])
         /\ \A a : SinArchivo(a) \in Seq(Sano)
<1>1. archivos \in Seq(Sano) /\ mongoArchivos \in Seq(Sano)
  BY DEF ReplicasInv, ArchivosSanos
<1>2. \A a \in 1..Len(archivos) : archivos[a] \in Sano
  BY <1>1
<1>. QED
  BY <1>1, <1>2, SinArchivoEs DEF Sano

-----------------------------------------------------------------------------
(* The console, outside uploads.                                           *)

(* Changes of nodes.                                                       *)
LEMMA ReplicasNodos ==
  ASSUME TipoInv, ReplicasInv, "juntos" \notin Eventos,
         \/ \E n \in Nodo : AgregarNodo(n)
         \/ \E i \in DOMAIN nodos : EliminarNodo(i)
         \/ CreaNodo \/ FormateaNodos
  PROVE  ReplicasInv'
<1>1. UNCHANGED <<archivos, mongoArchivos, arrayNodos>>
  BY DEF AgregarNodo, EliminarNodo, CreaNodo, FormateaNodos
<1>2. "consola" \in Hilo
  BY DEF Hilo
<1>3. CASE (\E n \in Nodo : AgregarNodo(n)) \/ (\E i \in DOMAIN nodos : EliminarNodo(i))
  <2>1. Puede("consola") /\ en["consola"] = "libre"
    BY <1>3 DEF AgregarNodo, EliminarNodo, Puede
  <2>2. \A g \in Hilo : en[g] = "libre"
    BY <1>2, <2>1, EmpiezaSolo
  <2>3. \/ en' = [en EXCEPT !["consola"] = "creaNodo"]
        \/ en' = en
    BY <1>3 DEF AgregarNodo, EliminarNodo
  <2>4. en = [en EXCEPT !["consola"] = "libre"]
    BY <2>1 DEF TipoInv, HilosOK
  <2>5. "creaNodo" \notin Subiendo /\ "libre" \notin Subiendo
    BY DEF Subiendo
  <2>6. en' = [en EXCEPT !["consola"] = "creaNodo"] \/ en' = [en EXCEPT !["consola"] = "libre"]
    BY <2>3, <2>4
  <2>. QED
    BY <1>1, <2>2, <2>5, <2>6, Sanos, PasoDeConsola
<1>4. CASE CreaNodo
  <2>. DEFINE e == mano["consola"].luego
  <2>1. en["consola"] # "libre" /\ en' = [en EXCEPT !["consola"] = e]
    BY <1>4 DEF CreaNodo
  <2>2. e \notin Subiendo
    BY TieneLaConsola DEF Mano, Subiendo
  <2>. HIDE DEF e
  <2>. QED
    BY <1>1, <2>1, <2>2, Sanos, PasoDeConsola
<1>5. CASE FormateaNodos
  <2>1. en["consola"] # "libre" /\ en' = [en EXCEPT !["consola"] = "libre"]
    BY <1>5 DEF FormateaNodos
  <2>2. "libre" \notin Subiendo
    BY DEF Subiendo
  <2>. QED
    BY <1>1, <2>1, <2>2, Sanos, PasoDeConsola
<1>. QED
  BY <1>3, <1>4, <1>5

(* Renaming, deleting and formatting.                                      *)
LEMMA ReplicasOrdena ==
  ASSUME TipoInv, ReplicasInv, "juntos" \notin Eventos,
         \/ \E r, nueva \in Ruta : Renombrar(r, nueva)
         \/ \E r \in Ruta : EliminarArchivo(r)
         \/ \E r \in Ruta, b, c \in Respuesta : BorrarBloque(r, b, c)
         \/ LeeLiberado \/ Formatear
  PROVE  ReplicasInv'
<1>1. \A g \in Hilo : en[g] = "libre"
  <2>1. Puede("consola")
    BY DEF Renombrar, EliminarArchivo, BorrarBloque, LeeLiberado, Formatear, Ordena
  <2>. QED
    BY <2>1, EmpiezaSolo DEF Hilo
<1>2. \A e \in {"creaArchivo", "libera", "quita", "formatea"} : e \notin Subiendo
  BY DEF Subiendo
<1>3. ASSUME NEW r \in Ruta, NEW nueva \in Ruta, Renombrar(r, nueva)
      PROVE  ReplicasInv'
  <2>. DEFINE a == ArchivoEn(r)
              v == [archivos[a] EXCEPT !.ruta = nueva]
  <2>1. /\ a # 0
        /\ mongoArchivos' = SinArchivo(archivos[a])
        /\ archivos' = [archivos EXCEPT ![a].ruta = nueva]
        /\ en' = [en EXCEPT !["consola"] = "creaArchivo"]
        /\ arrayNodos' = arrayNodos
    BY <1>3 DEF Renombrar
  <2>2. a \in 1..Len(archivos)
    <3>1. a \in 0..Len(archivos) /\ Len(archivos) \in Nat
      BY TieneLaConsola, ArchivoBuscado
    <3>. HIDE DEF a
    <3>. QED
      BY <2>1, <3>1
  <2>. HIDE DEF a
  <2>3. archivos[a] \in UnArchivo /\ ArchivoSano(archivos[a])
    BY <2>2, Sanos
  <2>4. v \in UnArchivo /\ v.bloques = archivos[a].bloques /\ v.subida = archivos[a].subida
    BY <2>3 DEF UnArchivo
  <2>5. archivos' = [archivos EXCEPT ![a] = v]
    BY <2>1, <2>2, TieneLaConsola
  <2>. HIDE DEF v
  <2>6. v \in Sano
    BY <2>3, <2>4 DEF Sano, ArchivoSano
  <2>7. archivos' \in Seq(Sano)
    BY <2>2, <2>5, <2>6, Sanos
  <2>. QED
    BY <1>1, <1>2, <2>1, <2>7, Sanos, PasoDeConsola
<1>4. ASSUME NEW r \in Ruta, EliminarArchivo(r)
      PROVE  ReplicasInv'
  <2>1. /\ mongoArchivos' = SinArchivo(archivos[ArchivoEn(r)])
        /\ en' = [en EXCEPT !["consola"] = "libera"]
        /\ UNCHANGED <<archivos, arrayNodos>>
    BY <1>4 DEF EliminarArchivo
  <2>. QED
    BY <1>1, <1>2, <2>1, Sanos, PasoDeConsola
<1>5. ASSUME NEW r \in Ruta, NEW b \in Respuesta, NEW c \in Respuesta, BorrarBloque(r, b, c)
      PROVE  ReplicasInv'
  <2>1. mongoArchivos' = mongoArchivos \/ mongoArchivos' = SinArchivo(archivos[ArchivoEn(r)])
    BY <1>5 DEF BorrarBloque
  <2>2. mongoArchivos' \in Seq(Sano)
    BY <2>1, Sanos
  <2>3. CASE Muere
    BY <2>2, <2>3, ReplicasMuere
  <2>4. CASE ~Muere
    <3>1. en' = [en EXCEPT !["consola"] = "quita"] /\ UNCHANGED <<archivos, arrayNodos>>
      BY <1>5, <2>4 DEF BorrarBloque
    <3>. QED
      BY <1>1, <1>2, <2>2, <3>1, Sanos, PasoDeConsola
  <2>. QED
    BY <2>3, <2>4
<1>6. CASE LeeLiberado
  BY <1>6, Sanos, ReplicasMuere DEF LeeLiberado, mongo
<1>7. CASE Formatear
  <2>1. /\ archivos' = <<>> /\ mongoArchivos' = <<>> /\ arrayNodos' = arrayNodos
        /\ en' = [en EXCEPT !["consola"] = "formatea"]
    BY <1>7 DEF Formatear
  <2>2. archivos' \in Seq(Sano) /\ mongoArchivos' \in Seq(Sano)
    BY <2>1
  <2>. QED
    BY <1>1, <1>2, <2>1, <2>2, PasoDeConsola
<1>. QED
  BY <1>3, <1>4, <1>5, <1>6, <1>7

(* A copy that leaves its block leaves the others apart.                   *)
LEMMA QuitaSano ==
  ASSUME NEW v \in UnArchivo, ArchivoSano(v), NEW b \in DOMAIN v.bloques,
         NEW c \in DOMAIN v.bloques[b].copias
  PROVE  [v EXCEPT !.bloques[b].copias = RemoveAt(@, c)] \in Sano
<1>. DEFINE x == v.bloques[b]
            r == RemoveAt(x.copias, c)
            y == [x EXCEPT !.copias = r]
            s == [v.bloques EXCEPT ![b] = y]
            w == [v EXCEPT !.bloques = s]
<1>1. v.bloques \in Seq(UnBloque) /\ b \in 1..Len(v.bloques)
  BY DEF UnArchivo
<1>2. x \in UnBloque
  BY <1>1
<1>3. x.copias \in Seq(UnaCopia) /\ c \in 1..Len(x.copias)
  BY <1>2 DEF UnBloque
<1>4. CopiasDistintas(x) /\ x.dato[1] = v.subida
  BY <1>1 DEF ArchivoSano
<1>5. [v EXCEPT !.bloques[b].copias = RemoveAt(@, c)] = w
  BY <1>1, <1>2 DEF UnArchivo
<1>6. /\ r \in Seq(UnaCopia) /\ Len(r) = Len(x.copias) - 1
      /\ \A d \in 1..(Len(x.copias) - 1) : r[d] = x.copias[IF d < c THEN d ELSE d + 1]
  BY <1>3, RemoveAtEs
<1>. HIDE DEF r
<1>7. y \in UnBloque /\ y.copias = r /\ y.dato = x.dato
  BY <1>2, <1>6 DEF UnBloque
<1>8. CopiasDistintas(y)
  <2>. DEFINE k(d) == IF d < c THEN d ELSE d + 1
  <2>1. ASSUME NEW d \in 1..(Len(x.copias) - 1)
        PROVE  k(d) \in 1..Len(x.copias) /\ r[d] = x.copias[k(d)]
    BY <1>3, <1>6
  <2>2. \A d, e \in 1..(Len(x.copias) - 1) : k(d) = k(e) => d = e
    BY <1>3
  <2>3. DOMAIN x.copias = 1..Len(x.copias) /\ DOMAIN r = 1..(Len(x.copias) - 1)
    BY <1>3, <1>6
  <2>. HIDE DEF k, x, y
  <2>. QED
    BY <1>4, <1>7, <2>1, <2>2, <2>3, SMTT(30) DEF CopiasDistintas
<1>. HIDE DEF y, x
<1>9. s \in Seq(UnBloque) /\ DOMAIN s = DOMAIN v.bloques /\ s[b] = y
      /\ \A i \in DOMAIN s : i # b => s[i] = v.bloques[i]
  BY <1>1, <1>7
<1>. HIDE DEF s
<1>10. w \in UnArchivo /\ w.bloques = s /\ w.subida = v.subida
  BY <1>9 DEF UnArchivo
<1>. HIDE DEF w
<1>11. ArchivoSano(w)
  BY <1>4, <1>7, <1>8, <1>9, <1>10 DEF ArchivoSano
<1>. QED
  BY <1>5, <1>10, <1>11 DEF Sano

(* Deleting blocks, and the writes that end a change of a file.            *)
LEMMA ReplicasArchivos ==
  ASSUME TipoInv, ReplicasInv, CreaArchivo \/ Libera \/ Quita
  PROVE  ReplicasInv'
<1>. DEFINE a == mano["consola"].arch
<1>1. en["consola"] # "libre" /\ a \in 1..Len(archivos)
  BY DEF CreaArchivo, Libera, Quita, TipoInv, ConsolaOK, DeArchivo
<1>2. \A e \in {"libre", "creaNodo"} : e \notin Subiendo
  BY DEF Subiendo
<1>3. archivos[a] \in UnArchivo /\ ArchivoSano(archivos[a])
  BY <1>1, Sanos
<1>4. CASE CreaArchivo
  <2>1. /\ mongoArchivos' = Append(mongoArchivos, archivos[a])
        /\ en' = [en EXCEPT !["consola"] = "libre"]
        /\ UNCHANGED <<archivos, arrayNodos>>
    BY <1>4 DEF CreaArchivo
  <2>2. archivos[a] \in Sano
    BY <1>3 DEF Sano
  <2>. HIDE DEF a
  <2>3. mongoArchivos' \in Seq(Sano)
    BY <2>1, <2>2, Sanos
  <2>. QED
    BY <1>1, <1>2, <2>1, <2>3, Sanos, PasoDeConsola
<1>5. ASSUME NEW b \in DOMAIN archivos[a].bloques, NEW c \in DOMAIN archivos[a].bloques[b].copias,
             NEW luego, QuitaCopia(a, b, c, luego), mongoArchivos' = mongoArchivos
      PROVE  ReplicasInv'
  <2>1. CASE Muere
    BY <1>5, <2>1, Sanos, ReplicasMuere
  <2>2. CASE ~Muere
    <3>. DEFINE v == [archivos[a] EXCEPT !.bloques[b].copias = RemoveAt(@, c)]
    <3>1. /\ archivos' = [archivos EXCEPT ![a].bloques[b].copias = RemoveAt(@, c)]
          /\ en' = [en EXCEPT !["consola"] = "creaNodo"]
          /\ arrayNodos' = arrayNodos
      BY <1>5, <2>2 DEF QuitaCopia
    <3>2. v \in Sano
      BY <1>3, <1>5, QuitaSano
    <3>3. archivos' = [archivos EXCEPT ![a] = v]
      BY <1>1, <3>1, TieneLaConsola
    <3>. HIDE DEF v, a
    <3>4. archivos' \in Seq(Sano)
      BY <1>1, <3>2, <3>3, Sanos
    <3>. QED
      BY <1>1, <1>2, <1>5, <3>1, <3>4, Sanos, PasoDeConsola
  <2>. QED
    BY <2>1, <2>2
<1>6. CASE Libera /\ ConCopias(a) # 0
  <2>1. QuitaCopia(a, ConCopias(a), 1, "libera") /\ mongoArchivos' = mongoArchivos
    BY <1>6 DEF Libera
  <2>2. /\ ConCopias(a) \in DOMAIN archivos[a].bloques
        /\ 1 \in DOMAIN archivos[a].bloques[ConCopias(a)].copias
    BY <1>1, <1>6, BloqueBuscado, TieneLaConsola
  <2>. HIDE DEF a
  <2>. QED
    BY <1>5, <2>1, <2>2
<1>7. CASE Libera /\ ConCopias(a) = 0
  <2>. DEFINE v == [archivos[a] EXCEPT !.colgado = TRUE, !.bloques = <<>>]
  <2>1. /\ archivos' = [archivos EXCEPT ![a].colgado = TRUE, ![a].bloques = <<>>]
        /\ en' = [en EXCEPT !["consola"] = "libre"]
        /\ UNCHANGED <<mongoArchivos, arrayNodos>>
    BY <1>7 DEF Libera
  <2>. HIDE DEF a
  <2>2. v \in UnArchivo
    <3>. DEFINE u == [archivos[a] EXCEPT !.colgado = TRUE]
    <3>1. u \in UnArchivo
      BY <1>3 DEF UnArchivo
    <3>2. <<>> \in Seq(UnBloque)
      OBVIOUS
    <3>3. v = [u EXCEPT !.bloques = <<>>]
      OBVIOUS
    <3>. HIDE DEF u, v
    <3>. QED
      BY <3>1, <3>2, <3>3 DEF UnArchivo
  <2>3. v.bloques = <<>>
    BY <1>3 DEF UnArchivo
  <2>4. archivos' = [archivos EXCEPT ![a] = v]
    BY <1>1, <1>3, <2>1, TieneLaConsola
  <2>. HIDE DEF v
  <2>5. v \in Sano
    BY <2>2, <2>3 DEF Sano, ArchivoSano
  <2>6. archivos' \in Seq(Sano)
    BY <1>1, <2>4, <2>5, Sanos
  <2>. QED
    BY <1>1, <1>2, <2>1, <2>6, Sanos, PasoDeConsola
<1>8. CASE Quita
  <2>. DEFINE b == mano["consola"].cual[1]
              c == mano["consola"].cual[2]
  <2>1. QuitaCopia(a, b, c, "creaArchivo") /\ mongoArchivos' = mongoArchivos
    BY <1>8 DEF Quita
  <2>2. b \in DOMAIN archivos[a].bloques /\ c \in DOMAIN archivos[a].bloques[b].copias
    BY <1>8 DEF Quita, TipoInv, ConsolaOK
  <2>. HIDE DEF a, b, c
  <2>. QED
    BY <1>5, <2>1, <2>2
<1>. QED
  BY <1>4, <1>6, <1>7, <1>8

-----------------------------------------------------------------------------
(* Uploads.                                                                *)

(* A file that is listed anew, with what is to be sent of it.              *)
LEMMA ReplicasEmpieza ==
  ASSUME TipoInv, TipoInv', ReplicasInv, "juntos" \notin Eventos,
         \/ \E r \in Ruta, e \in Envio : SubirArchivo(r, e)
         \/ \E r \in Ruta : SubirResultado(r)
  PROVE  ReplicasInv'
<1>1. ASSUME NEW h \in Hilo, NEW r \in Ruta, NEW e \in [mb : Nat, bloques : Nat], NEW nb \in Nat,
             archivos' = Append(archivos, ArchivoNuevo(r, e)), archivo' = ElNuevo,
             en' = [en EXCEPT ![h] = "bloque"], mano' = [mano EXCEPT ![h].datos = Datos(nb)]
      PROVE  /\ ArchivoNuevo(r, e) \in Sano /\ archivos' \in Seq(Sano)
             /\ SubidaSana(h)'
  <2>1. subidas \in Nat /\ archivos \in Seq(Sano) /\ mano[h] \in Mano /\ mano \in [Hilo -> Mano]
    BY Sanos DEF TipoInv, MemoriaOK, HilosOK
  <2>2. ArchivoNuevo(r, e) \in UnArchivo
    BY <2>1 DEF ArchivoNuevo, UnArchivo
  <2>3. ArchivoNuevo(r, e).bloques = <<>> /\ ArchivoNuevo(r, e).subida = subidas + 1
    BY DEF ArchivoNuevo
  <2>4. ArchivoNuevo(r, e) \in Sano
    BY <2>2, <2>3 DEF Sano, ArchivoSano
  <2>5. /\ archivos' \in Seq(Sano) /\ archivo' = Len(archivos) + 1 /\ archivo' # 0
        /\ archivos'[archivo'] = ArchivoNuevo(r, e)
    BY <1>1, <2>1, <2>4 DEF ElNuevo
  <2>6. mano'[h].datos = Datos(nb)
    BY <1>1, <2>1 DEF Mano
  <2>7. \A i \in DOMAIN Datos(nb) : Datos(nb)[i][1] = subidas + 1
    BY DEF Datos
  <2>8. DatosSuyos(h)'
    BY <2>3, <2>5, <2>6, <2>7 DEF DatosSuyos
  <2>9. en'[h] = "bloque"
    BY <1>1 DEF TipoInv, HilosOK
  <2>10. SubidaSana(h)'
    BY <2>8, <2>9 DEF SubidaSana
  <2>. QED
    BY <2>4, <2>5, <2>10
<1>2. ASSUME NEW r \in Ruta, NEW e \in Envio, SubirArchivo(r, e)
      PROVE  ReplicasInv'
  <2>1. /\ archivos' = Append(archivos, ArchivoNuevo(r, e)) /\ archivo' = ElNuevo
        /\ arrayNodos' = ArrayLleno /\ mongoArchivos' = mongoArchivos
        /\ en' = [en EXCEPT !["consola"] = "bloque"]
        /\ mano' = [mano EXCEPT !["consola"].datos = Datos(e.bloques)]
        /\ Puede("consola")
    BY <1>2 DEF SubirArchivo, mongo
  <2>2. e \in [mb : Nat, bloques : Nat] /\ e.bloques \in Nat /\ "consola" \in Hilo
    BY MDFSAssumption DEF Hilo
  <2>3. archivos' \in Seq(Sano) /\ SubidaSana("consola")'
    BY <1>1, <2>1, <2>2
  <2>4. \A g \in Hilo : en[g] = "libre"
    BY <2>1, <2>2, EmpiezaSolo
  <2>5. ArchivosSanos'
    BY <2>1, <2>3, Sanos DEF ArchivosSanos
  <2>6. SitiosUnicos(arrayNodos)'
    BY <2>1, ArrayLlenoEs, TieneLaConsola DEF SitiosUnicos
  <2>. QED
    BY <2>1, <2>2, <2>3, <2>4, <2>5, <2>6, PasoDe
<1>3. ASSUME NEW r \in Ruta, SubirResultado(r)
      PROVE  ReplicasInv'
  <2>. DEFINE e == [mb |-> 0, bloques |-> 1]
  <2>1. /\ archivos' = Append(archivos, ArchivoNuevo(r, e)) /\ archivo' = ElNuevo
        /\ arrayNodos' = arrayNodos
        /\ mongoArchivos' = Append(mongoArchivos, ArchivoNuevo(r, e))
        /\ en' = [en EXCEPT !["servidor"] = "bloque"]
        /\ mano' = [mano EXCEPT !["servidor"].datos = Datos(1)]
        /\ Puede("servidor")
    BY <1>3 DEF SubirResultado
  <2>2. e \in [mb : Nat, bloques : Nat] /\ "servidor" \in Hilo
    BY DEF Hilo
  <2>. HIDE DEF e
  <2>3. /\ archivos' \in Seq(Sano) /\ SubidaSana("servidor")'
        /\ ArchivoNuevo(r, e) \in Sano
    BY <1>1, <2>1, <2>2
  <2>4. \A g \in Hilo : en[g] = "libre"
    BY <2>1, <2>2, EmpiezaSolo
  <2>5. ArchivosSanos'
    BY <2>1, <2>3, Sanos DEF ArchivosSanos
  <2>6. SitiosUnicos(arrayNodos)'
    BY <2>1 DEF SitiosUnicos, ReplicasInv
  <2>. QED
    BY <2>1, <2>2, <2>3, <2>4, <2>5, <2>6, PasoDe
<1>. QED
  BY <1>2, <1>3

(* enviarBloque takes the next block, and the end saves the document.      *)
LEMMA ReplicasBloque ==
  ASSUME TipoInv, ReplicasInv, NEW h \in Hilo, EmpiezaBloque(h) \/ TerminaSubida(h)
  PROVE  ReplicasInv'
<1>1. en[h] = "bloque" /\ mano[h] \in Mano /\ mano \in [Hilo -> Mano] /\ nroBloque \in Nat
  BY DEF EmpiezaBloque, TerminaSubida, TipoInv, HilosOK, MemoriaOK
<1>2. DatosSuyos(h)
  BY <1>1 DEF ReplicasInv, SubidaSana, Subiendo
<1>3. CASE EmpiezaBloque(h)
  <2>. DEFINE d == mano[h].datos
              b == [nro |-> nroBloque, dato |-> Head(d), copias |-> <<>>]
              m == [mano[h] EXCEPT !.bloque = b, !.datos = Tail(d)]
  <2>1. /\ d # <<>>
        /\ mano' = [mano EXCEPT ![h].bloque = b, ![h].datos = Tail(d)]
        /\ en' = [en EXCEPT ![h] = "busca"]
        /\ UNCHANGED <<archivos, archivo, arrayNodos, mongoArchivos>>
    BY <1>3, <1>1 DEF EmpiezaBloque, mongo, Mano
  <2>2. d \in Seq(Seq(Nat))
    BY <1>1 DEF Mano
  <2>3. mano' = [mano EXCEPT ![h] = m]
    BY <1>1, <2>1
  <2>4. m.bloque = b /\ m.datos = Tail(d)
    <3>. HIDE DEF b, d
    <3>. QED
      BY <1>1 DEF Mano
  <2>5. b.dato = Head(d) /\ b.copias = <<>>
    OBVIOUS
  <2>. HIDE DEF m, b
  <2>6. mano'[h] = m /\ en'[h] = "busca"
    BY <1>1, <2>1, <2>3 DEF TipoInv, HilosOK
  <2>7. DatosSuyos(h)'
    <3>1. \A i \in DOMAIN Tail(d) : i + 1 \in DOMAIN d /\ Tail(d)[i] = d[i + 1]
      BY <2>1, <2>2
    <3>2. \A i \in DOMAIN d : d[i][1] = archivos[archivo].subida
      BY <1>2 DEF DatosSuyos
    <3>. HIDE DEF d
    <3>3. \A i \in DOMAIN Tail(d) : Tail(d)[i][1] = archivos[archivo].subida
      BY <3>1, <3>2
    <3>. QED
      BY <1>2, <2>1, <2>4, <2>6, <3>3 DEF DatosSuyos
  <2>8. BloqueSano(h)'
    <3>1. Head(d) = d[1] /\ 1 \in DOMAIN d
      BY <2>1, <2>2
    <3>2. b.dato[1] = archivos[archivo].subida
      BY <1>2, <2>5, <3>1 DEF DatosSuyos
    <3>3. mano'[h].bloque = b
      BY <2>4, <2>6
    <3>4. DOMAIN b.copias = {} /\ CopiasDistintas(b)
      BY <2>5 DEF CopiasDistintas
    <3>5. b.dato[1] = archivos'[archivo'].subida
      BY <2>1, <3>2
    <3>. QED
      BY <3>3, <3>4, <3>5 DEF BloqueSano
  <2>9. SubidaSana(h)'
    BY <2>6, <2>7, <2>8 DEF SubidaSana
  <2>10. ArchivosSanos' /\ SitiosUnicos(arrayNodos)'
    BY <2>1, Sanos DEF ArchivosSanos, SitiosUnicos, ReplicasInv
  <2>. QED
    BY <1>1, <2>1, <2>9, <2>10, PasoDe
<1>4. CASE TerminaSubida(h)
  <2>1. CASE Muere
    BY <1>4, <2>1, Sanos, ReplicasMuere DEF TerminaSubida, Muere
  <2>2. CASE ~Muere
    <3>1. /\ mongoArchivos' = mongoArchivos
               \/ mongoArchivos' = Append(mongoArchivos, archivos[archivo])
          /\ en' = [en EXCEPT ![h] = "libre"]
          /\ UNCHANGED <<archivos, arrayNodos>>
      BY <1>4, <2>2 DEF TerminaSubida
    <3>2. archivo \in 1..Len(archivos)
      BY <1>2 DEF DatosSuyos, TipoInv, MemoriaOK
    <3>3. ArchivosSanos'
      BY <3>1, <3>2, Sanos DEF ArchivosSanos
    <3>4. SitiosUnicos(arrayNodos)'
      BY <3>1 DEF SitiosUnicos, ReplicasInv
    <3>5. en'[h] = "libre"
      BY <3>1 DEF TipoInv, HilosOK
    <3>6. SubidaSana(h)'
      BY <3>5 DEF SubidaSana, Subiendo
    <3>. QED
      BY <1>1, <3>1, <3>3, <3>4, <3>6, PasoDe
  <2>. QED
    BY <2>1, <2>2
<1>. QED
  BY <1>3, <1>4

(* funcionLoca chooses a node that was not sent the block.                 *)
LEMMA ReplicasBusca ==
  ASSUME TipoInv, ReplicasInv, NEW h \in Hilo, BuscaNodo(h)
  PROVE  ReplicasInv'
<1>. DEFINE mm == IF Len(nodos) < Len(arrayNodos) THEN Len(nodos) ELSE Len(arrayNodos)
            s == Ordenado(arrayNodos, mm)
            k == NodoEnArray(s, mm, archivos[archivo], mano[h].bloque.nro)
            i == PorNombre(s[k].nombre)
            m == [mano[h] EXCEPT !.lugar = k, !.nodo = i]
<1>1. /\ en[h] = "busca" /\ mongoArchivos' = mongoArchivos
      /\ \/ Muere
         \/ /\ UNCHANGED <<nodos, archivos, archivo>>
            /\ arrayNodos' = s
            /\ \/ en' = [en EXCEPT ![h] = "bloque"] /\ UNCHANGED mano
               \/ /\ k # 0 /\ i # 0
                  /\ en' = [en EXCEPT ![h] = "toma"]
                  /\ mano' = [mano EXCEPT ![h].lugar = k, ![h].nodo = i]
  BY DEF BuscaNodo
<1>2. arrayNodos \in Seq(Sitio) /\ mm \in 0..Len(arrayNodos) /\ nodos \in Seq(UnNodo)
      /\ mano[h] \in Mano /\ mano \in [Hilo -> Mano]
  BY DEF TipoInv, MemoriaOK, HilosOK
<1>3. s \in Seq(Sitio) /\ Len(s) = Len(arrayNodos)
  BY <1>2, OrdenadoEs
<1>4. PICK f \in [1..Len(arrayNodos) -> 1..Len(arrayNodos)] :
        /\ \A p, q \in 1..Len(arrayNodos) : f[p] = f[q] => p = q
        /\ \A p \in 1..Len(arrayNodos) : s[p] = arrayNodos[f[p]]
  BY <1>2, OrdenadoEs
<1>. HIDE DEF s, mm
<1>5. /\ k \in 0..mm
      /\ k # 0 => /\ s[k].nombre # Nadie
                  /\ <<archivos[archivo].ruta, mano[h].bloque.nro>> \notin ToSet(s[k].tiene)
  BY <1>2, <1>3, SitioBuscado
<1>6. i \in 0..Len(nodos) /\ (i # 0 => nodos[i].nombre = s[k].nombre)
  BY <1>2, NodoBuscado
<1>. HIDE DEF k, i
<1>7. DatosSuyos(h) /\ BloqueSano(h)
  BY <1>1 DEF ReplicasInv, SubidaSana, Subiendo
<1>. DEFINE D == 1..Len(arrayNodos)
<1>7a. DOMAIN arrayNodos = D /\ DOMAIN s = D /\ \A p \in D : f[p] \in D
  BY <1>2, <1>3
<1>. HIDE DEF D
<1>8. SitiosUnicos(s)
  <2>1. \A p, q \in D : arrayNodos[p].nombre = arrayNodos[q].nombre
                          /\ arrayNodos[p].nombre # Nadie => p = q
    BY <1>7a DEF SitiosUnicos, ReplicasInv
  <2>2. \A p, q \in D : s[p].nombre = s[q].nombre /\ s[p].nombre # Nadie => p = q
    BY <1>4, <1>7a, <2>1 DEF D
  <2>. QED
    BY <1>7a, <2>2 DEF SitiosUnicos
<1>9. ASSUME NEW x, NEW r, NEW nro, Anotado(arrayNodos, x, r, nro)
      PROVE  Anotado(s, x, r, nro)
  BY <1>4, <1>9, <1>7a DEF Anotado, D
<1>10. CASE Muere
  BY <1>1, <1>10, Sanos, ReplicasMuere
<1>11. ASSUME UNCHANGED <<nodos, archivos, archivo>>, arrayNodos' = s,
              mano'[h].bloque = mano[h].bloque, mano'[h].datos = mano[h].datos
       PROVE  DatosSuyos(h)' /\ BloqueSano(h)' /\ ArchivosSanos' /\ SitiosUnicos(arrayNodos)'
  <2>1. DatosSuyos(h)'
    BY <1>7, <1>11 DEF DatosSuyos
  <2>2. \A c \in DOMAIN mano[h].bloque.copias :
          Anotado(s, mano[h].bloque.copias[c].nodo, archivos[archivo].ruta, mano[h].bloque.nro)
    BY <1>7, <1>9 DEF BloqueSano, Ya
  <2>3. BloqueSano(h)'
    BY <1>7, <1>11, <2>2 DEF BloqueSano, Ya
  <2>4. ArchivosSanos' /\ SitiosUnicos(arrayNodos)'
    BY <1>1, <1>8, <1>11, Sanos DEF ArchivosSanos
  <2>. QED
    BY <2>1, <2>3, <2>4
<1>12. CASE /\ UNCHANGED <<nodos, archivos, archivo>> /\ arrayNodos' = s
            /\ en' = [en EXCEPT ![h] = "bloque"] /\ UNCHANGED mano
  <2>1. DatosSuyos(h)' /\ ArchivosSanos' /\ SitiosUnicos(arrayNodos)'
    BY <1>11, <1>12
  <2>2. en'[h] = "bloque"
    BY <1>12 DEF TipoInv, HilosOK
  <2>3. SubidaSana(h)'
    BY <2>1, <2>2 DEF SubidaSana
  <2>. QED
    BY <1>1, <1>12, <2>1, <2>3, PasoDe
<1>13. CASE /\ UNCHANGED <<nodos, archivos, archivo>> /\ arrayNodos' = s
            /\ k # 0 /\ i # 0
            /\ en' = [en EXCEPT ![h] = "toma"]
            /\ mano' = [mano EXCEPT ![h].lugar = k, ![h].nodo = i]
  <2>1. mano' = [mano EXCEPT ![h] = m]
    BY <1>2, <1>13
  <2>2. m.lugar = k /\ m.nodo = i /\ m.bloque = mano[h].bloque /\ m.datos = mano[h].datos
    BY <1>2 DEF Mano
  <2>. HIDE DEF m
  <2>3. mano'[h] = m /\ en'[h] = "toma"
    BY <1>2, <1>13, <2>1 DEF TipoInv, HilosOK
  <2>4. DatosSuyos(h)' /\ BloqueSano(h)' /\ ArchivosSanos' /\ SitiosUnicos(arrayNodos)'
    BY <1>11, <1>13, <2>2, <2>3
  <2>5. k \in DOMAIN s /\ i \in DOMAIN nodos
    BY <1>2, <1>3, <1>5, <1>6, <1>13
  <2>6. Elegido(h)'
    BY <1>5, <1>6, <1>13, <2>2, <2>3, <2>5 DEF Elegido
  <2>7. SubidaSana(h)'
    BY <2>3, <2>4, <2>6 DEF SubidaSana
  <2>. QED
    BY <1>1, <1>13, <2>4, <2>7, PasoDe
<1>. QED
  BY <1>1, <1>10, <1>12, <1>13

(* What was sent is noted in its slot, and the other notes stay.           *)
LEMMA AnotaEs ==
  ASSUME NEW s \in Seq(Sitio), NEW k \in DOMAIN s, NEW a, NEW nro,
         <<a.ruta, nro>> \in Ruta \X Nat
  PROVE  /\ SitiosUnicos(s) => SitiosUnicos(Anota(s, k, a, nro))
         /\ \A x, r, z : Anotado(s, x, r, z) => Anotado(Anota(s, k, a, nro), x, r, z)
         /\ SitiosUnicos(s) /\ s[k].nombre # Nadie
              => Anotado(Anota(s, k, a, nro), s[k].nombre, a.ruta, nro)
<1>. DEFINE e == <<a.ruta, nro>>
            y == [s[k] EXCEPT !.tiene = Append(@, e)]
            t == Anota(s, k, a, nro)
            D == 1..Len(s)
<1>1. DOMAIN s = D /\ k \in D
  OBVIOUS
<1>2. s[k] \in Sitio
  BY <1>1
<1>3. s[k].tiene \in Seq(Ruta \X Nat)
  BY <1>2 DEF Sitio
<1>4. t = [s EXCEPT ![k] = y]
  BY DEF Anota
<1>. HIDE DEF e, t, D
<1>5. y.nombre = s[k].nombre /\ y.tiene = Append(s[k].tiene, e)
  BY <1>2 DEF Sitio
<1>. HIDE DEF y
<1>6. DOMAIN t = D /\ t[k] = y /\ \A p \in D : p # k => t[p] = s[p]
  BY <1>1, <1>4
<1>7. e \in ToSet(y.tiene) /\ \A v \in ToSet(s[k].tiene) : v \in ToSet(y.tiene)
  <2>. DEFINE S == Ruta \X Nat
              u == s[k].tiene
              w == Append(u, e)
  <2>1. e \in S /\ u \in Seq(S)
    BY <1>3 DEF e
  <2>. HIDE DEF S, u
  <2>2. w[Len(u) + 1] = e /\ Len(u) + 1 \in DOMAIN w
        /\ \A j \in DOMAIN u : w[j] = u[j] /\ j \in DOMAIN w
    BY <2>1
  <2>. HIDE DEF w
  <2>3. y.tiene = w
    BY <1>5 DEF w, u
  <2>. QED
    BY <2>2, <2>3 DEF ToSet, u
<1>8. \A p \in D : t[p].nombre = s[p].nombre
  BY <1>5, <1>6
<1>9. SitiosUnicos(s) => SitiosUnicos(t)
  BY <1>1, <1>6, <1>8 DEF SitiosUnicos
<1>10. ASSUME NEW x, NEW r, NEW z, Anotado(s, x, r, z)
       PROVE  Anotado(t, x, r, z)
  BY <1>1, <1>5, <1>6, <1>7, <1>10 DEF Anotado
<1>11. ASSUME SitiosUnicos(s), s[k].nombre # Nadie
       PROVE  Anotado(t, s[k].nombre, a.ruta, nro)
  <2>1. ASSUME NEW p \in D, t[p].nombre = s[k].nombre
        PROVE  p = k
    BY <1>1, <1>8, <1>11, <2>1 DEF SitiosUnicos
  <2>2. ASSUME NEW p \in D, t[p].nombre = s[k].nombre
        PROVE  e \in ToSet(t[p].tiene)
    BY <1>6, <1>7, <2>1, <2>2
  <2>. QED
    BY <1>6, <2>2 DEF Anotado, e
<1>. QED
  BY <1>9, <1>10, <1>11 DEF t

(* The node that was chosen gets its copy, another one than before.        *)
LEMMA ReplicasToma ==
  ASSUME TipoInv, ReplicasInv, NEW h \in Hilo, TomaBloque(h)
  PROVE  ReplicasInv'
<1>. DEFINE i == mano[h].nodo
            k == mano[h].lugar
            x == nodos[i].nombre
            c == [nodo |-> x, bloque |-> BloqueLibre(nodos[i])]
            m == [mano[h] EXCEPT !.dir = nodos[i].dir, !.copia = c]
            a == archivos[archivo]
            b == mano[h].bloque
<1>1. en[h] = "toma" /\ mongoArchivos' = mongoArchivos
  BY DEF TomaBloque
<1>2. DatosSuyos(h) /\ BloqueSano(h) /\ Elegido(h)
  BY <1>1 DEF ReplicasInv, SubidaSana, Subiendo
<1>3. CASE Muere
  BY <1>1, <1>3, Sanos, ReplicasMuere
<1>4. CASE ~Muere
  <2>1. /\ UNCHANGED <<archivos, archivo>>
        /\ arrayNodos' = Anota(arrayNodos, k, a, b.nro)
        /\ mano' = [mano EXCEPT ![h].dir = nodos[i].dir, ![h].copia = c]
        /\ en' = [en EXCEPT ![h] = "manda"]
    BY <1>4 DEF TomaBloque
  <2>2. /\ mano[h] \in Mano /\ mano \in [Hilo -> Mano] /\ b \in UnBloque
        /\ arrayNodos \in Seq(Sitio) /\ nodos \in Seq(UnNodo) /\ archivo \in 1..Len(archivos)
        /\ archivos \in Seq(UnArchivo)
    <3>1. mano[h] \in Mano /\ mano \in [Hilo -> Mano]
      BY DEF TipoInv, HilosOK
    <3>2. b \in UnBloque
      BY <3>1 DEF Mano
    <3>. QED
      BY <1>2, <3>1, <3>2 DEF TipoInv, MemoriaOK, DatosSuyos
  <2>3. /\ k \in DOMAIN arrayNodos /\ i \in DOMAIN nodos
        /\ x = arrayNodos[k].nombre
        /\ <<a.ruta, b.nro>> \notin ToSet(arrayNodos[k].tiene)
    BY <1>2 DEF Elegido
  <2>4. x \in Nombre /\ x # Nadie
    <3>1. nodos[i] \in UnNodo
      BY <2>2, <2>3
    <3>2. x \in Nombre
      BY <3>1 DEF UnNodo
    <3>. QED
      BY <3>2, MDFSAssumption DEF Nombre
  <2>5. a \in UnArchivo
    BY <2>2
  <2>6. <<a.ruta, b.nro>> \in Ruta \X Nat
    BY <2>2, <2>5 DEF UnArchivo, UnBloque
  <2>. HIDE DEF k, x, a
  <2>7. SitiosUnicos(arrayNodos)
    BY DEF ReplicasInv
  <2>8. /\ SitiosUnicos(arrayNodos')
        /\ \A n, r, z : Anotado(arrayNodos, n, r, z) => Anotado(arrayNodos', n, r, z)
        /\ Anotado(arrayNodos', x, a.ruta, b.nro)
    BY <2>1, <2>2, <2>3, <2>4, <2>6, <2>7, AnotaEs
  <2>9. mano' = [mano EXCEPT ![h] = m]
    BY <2>1, <2>2 DEF x
  <2>10. m.copia = c /\ m.bloque = b /\ m.datos = mano[h].datos
    <3>. HIDE DEF c
    <3>. QED
      BY <2>2 DEF Mano
  <2>11. c.nodo = x
    OBVIOUS
  <2>. HIDE DEF m, c
  <2>12. mano'[h] = m /\ en'[h] = "manda"
    BY <2>1, <2>2, <2>9 DEF TipoInv, HilosOK
  <2>13. DatosSuyos(h)'
    BY <1>2, <2>1, <2>10, <2>12 DEF DatosSuyos
  <2>. HIDE DEF b
  <2>14. /\ b.dato[1] = a.subida /\ CopiasDistintas(b)
         /\ \A d \in DOMAIN b.copias : Anotado(arrayNodos, b.copias[d].nodo, a.ruta, b.nro)
    BY <1>2 DEF BloqueSano, Ya, a, b
  <2>15. \A d \in DOMAIN b.copias : b.copias[d].nodo # x
    BY <2>3, <2>14 DEF Anotado
  <2>16. a = archivos'[archivo'] /\ mano'[h].bloque = b /\ mano'[h].copia = c
    BY <2>1, <2>10, <2>12 DEF a
  <2>17. BloqueSano(h)'
    BY <2>8, <2>14, <2>16 DEF BloqueSano, Ya
  <2>18. Tomado(h)'
    BY <2>8, <2>11, <2>15, <2>16 DEF Tomado, Ya
  <2>19. SubidaSana(h)'
    BY <2>12, <2>13, <2>17, <2>18 DEF SubidaSana
  <2>20. ArchivosSanos' /\ SitiosUnicos(arrayNodos)'
    BY <1>1, <2>1, <2>8, Sanos DEF ArchivosSanos
  <2>. QED
    BY <1>1, <2>1, <2>19, <2>20, PasoDe
<1>. QED
  BY <1>3, <1>4

(* The copy that was sent joins its block, and the third one ends it.      *)
LEMMA ReplicasManda ==
  ASSUME TipoInv, ReplicasInv, NEW h \in Hilo, MandaCopia(h)
  PROVE  ReplicasInv'
<1>. DEFINE c == mano[h].copia
            v == mano[h].bloque
            b == [v EXCEPT !.copias = Append(@, c)]
            m(x) == [mano[h] EXCEPT !.bloque = x, !.copia = SinCopia]
            a == archivos[archivo]
<1>1. en[h] = "manda" /\ mongoArchivos' = mongoArchivos
  BY DEF MandaCopia, mongo
<1>2. DatosSuyos(h) /\ BloqueSano(h) /\ Tomado(h)
  BY <1>1 DEF ReplicasInv, SubidaSana, Subiendo
<1>3. /\ mano[h] \in Mano /\ mano \in [Hilo -> Mano] /\ c \in UnaCopia /\ v \in UnBloque
      /\ archivo \in 1..Len(archivos)
  <2>1. mano[h] \in Mano /\ mano \in [Hilo -> Mano] /\ c.nodo \in Nombre
    BY <1>1 DEF TipoInv, HilosOK
  <2>2. c \in UnaCopia /\ v \in UnBloque
    BY <2>1 DEF Mano, UnaCopia
  <2>. QED
    BY <1>2, <2>1, <2>2 DEF DatosSuyos, TipoInv, MemoriaOK
<1>. HIDE DEF c, v
<1>4. v.copias \in Seq(UnaCopia)
  BY <1>3 DEF UnBloque
<1>5. b \in UnBloque /\ b.copias = Append(v.copias, c) /\ b.dato = v.dato /\ b.nro = v.nro
  <2>1. Append(v.copias, c) \in Seq(UnaCopia)
    BY <1>3, <1>4
  <2>. QED
    BY <1>3, <2>1 DEF UnBloque
<1>. HIDE DEF b
<1>6. /\ DOMAIN b.copias = 1..(Len(v.copias) + 1) /\ DOMAIN v.copias = 1..Len(v.copias)
      /\ Len(v.copias) \in Nat
      /\ b.copias[Len(v.copias) + 1] = c
      /\ \A d \in 1..Len(v.copias) : b.copias[d] = v.copias[d]
  BY <1>3, <1>4, <1>5
<1>7. /\ v.dato[1] = a.subida /\ CopiasDistintas(v)
      /\ \A d \in DOMAIN v.copias : Anotado(arrayNodos, v.copias[d].nodo, a.ruta, v.nro)
      /\ Anotado(arrayNodos, c.nodo, a.ruta, v.nro)
      /\ \A d \in DOMAIN v.copias : v.copias[d].nodo # c.nodo
  BY <1>2 DEF BloqueSano, Tomado, Ya, v, c
<1>8. CopiasDistintas(b)
  <2>1. \A d, e \in 1..Len(v.copias) : v.copias[d].nodo = v.copias[e].nodo => d = e
    BY <1>6, <1>7 DEF CopiasDistintas
  <2>2. \A d \in 1..Len(v.copias) : v.copias[d].nodo # c.nodo
    BY <1>6, <1>7
  <2>3. \A d \in 1..(Len(v.copias) + 1) : d \in 1..Len(v.copias) \/ d = Len(v.copias) + 1
    BY <1>6
  <2>4. \A d, e \in 1..(Len(v.copias) + 1) : b.copias[d].nodo = b.copias[e].nodo => d = e
    BY <1>6, <2>1, <2>2, <2>3
  <2>. QED
    BY <1>6, <2>4 DEF CopiasDistintas
<1>9. \A d \in DOMAIN b.copias : Anotado(arrayNodos, b.copias[d].nodo, a.ruta, b.nro)
  <2>1. \A d \in 1..(Len(v.copias) + 1) : d \in 1..Len(v.copias) \/ d = Len(v.copias) + 1
    BY <1>6
  <2>. QED
    BY <1>5, <1>6, <1>7, <2>1
<1>10. \A x : m(x).bloque = x /\ m(x).datos = mano[h].datos
  BY <1>3 DEF Mano
<1>11. CASE Muere
  BY <1>1, <1>11, Sanos, ReplicasMuere
<1>12. CASE ~Muere /\ Len(b.copias) < 3
  <2>1. /\ UNCHANGED <<archivos, archivo, arrayNodos>>
        /\ en' = [en EXCEPT ![h] = "busca"]
        /\ mano' = [mano EXCEPT ![h].bloque = b, ![h].copia = SinCopia]
    BY <1>12 DEF MandaCopia, b, c, v
  <2>2. mano' = [mano EXCEPT ![h] = m(b)]
    BY <1>3, <2>1
  <2>. HIDE DEF m
  <2>3. mano'[h] = m(b) /\ en'[h] = "busca"
    BY <1>3, <2>1, <2>2 DEF TipoInv, HilosOK
  <2>4. DatosSuyos(h)'
    BY <1>2, <1>10, <2>1, <2>3 DEF DatosSuyos
  <2>5. mano'[h].bloque = b /\ a = archivos'[archivo'] /\ arrayNodos' = arrayNodos
    BY <1>10, <2>1, <2>3
  <2>. HIDE DEF a
  <2>6. BloqueSano(h)'
    BY <1>5, <1>7, <1>8, <1>9, <2>5 DEF BloqueSano, Ya
  <2>7. SubidaSana(h)'
    BY <2>3, <2>4, <2>6 DEF SubidaSana
  <2>8. ArchivosSanos' /\ SitiosUnicos(arrayNodos)'
    BY <1>1, <2>1, Sanos DEF ArchivosSanos, SitiosUnicos, ReplicasInv
  <2>. QED
    BY <1>1, <2>1, <2>7, <2>8, PasoDe
<1>13. CASE ~Muere /\ ~(Len(b.copias) < 3)
  <2>. DEFINE n == [a EXCEPT !.bloques = Append(a.bloques, b)]
  <2>1. /\ UNCHANGED <<archivo, arrayNodos>>
        /\ archivos' = [archivos EXCEPT ![archivo].bloques = Append(@, b)]
        /\ en' = [en EXCEPT ![h] = "bloque"]
        /\ mano' = [mano EXCEPT ![h].bloque = SinBloque, ![h].copia = SinCopia]
    BY <1>13 DEF MandaCopia, b, c, v
  <2>2. mano' = [mano EXCEPT ![h] = m(SinBloque)]
    BY <1>3, <2>1
  <2>. HIDE DEF m
  <2>3. mano'[h] = m(SinBloque) /\ en'[h] = "bloque"
    BY <1>3, <2>1, <2>2 DEF TipoInv, HilosOK
  <2>4. a \in UnArchivo /\ ArchivoSano(a)
    BY <1>3, Sanos
  <2>5. archivos' = [archivos EXCEPT ![archivo] = n]
    BY <1>3, <2>1, TieneLaConsola
  <2>. HIDE DEF a
  <2>6. a.bloques \in Seq(UnBloque)
    BY <2>4 DEF UnArchivo
  <2>7. Append(a.bloques, b) \in Seq(UnBloque)
    BY <1>5, <2>6
  <2>8. n \in UnArchivo /\ n.bloques = Append(a.bloques, b) /\ n.subida = a.subida
    BY <2>4, <2>7 DEF UnArchivo
  <2>. HIDE DEF n
  <2>9. ArchivoSano(n)
    <3>1. \A d \in DOMAIN a.bloques :
            CopiasDistintas(a.bloques[d]) /\ a.bloques[d].dato[1] = a.subida
      BY <2>4 DEF ArchivoSano
    <3>2. \A d \in DOMAIN n.bloques : n.bloques[d] = b \/ (d \in DOMAIN a.bloques
                                                          /\ n.bloques[d] = a.bloques[d])
      BY <1>5, <2>6, <2>8
    <3>3. CopiasDistintas(b) /\ b.dato[1] = a.subida
      BY <1>5, <1>7, <1>8
    <3>. QED
      BY <2>8, <3>1, <3>2, <3>3 DEF ArchivoSano
  <2>10. n \in Sano
    BY <2>8, <2>9 DEF Sano
  <2>11. archivos' \in Seq(Sano) /\ archivos'[archivo'] = n
    <3>1. archivos \in Seq(Sano) /\ archivo' = archivo
      BY <2>1, Sanos
    <3>. QED
      BY <1>3, <2>5, <2>10, <3>1
  <2>12. DatosSuyos(h)'
    <3>1. \A j \in DOMAIN mano[h].datos : mano[h].datos[j][1] = a.subida
      BY <1>2 DEF DatosSuyos, a
    <3>2. archivo' # 0 /\ mano'[h].datos = mano[h].datos
      BY <1>2, <1>10, <2>1, <2>3 DEF DatosSuyos
    <3>. QED
      BY <2>8, <2>11, <3>1, <3>2 DEF DatosSuyos
  <2>13. SubidaSana(h)'
    BY <2>3, <2>12 DEF SubidaSana
  <2>14. ArchivosSanos' /\ SitiosUnicos(arrayNodos)'
    BY <1>1, <2>1, <2>11, Sanos DEF ArchivosSanos, SitiosUnicos, ReplicasInv
  <2>. QED
    BY <1>1, <2>1, <2>13, <2>14, PasoDe
<1>. QED
  BY <1>11, <1>12, <1>13

-----------------------------------------------------------------------------
(* Connections, crashes and restarts.                                      *)

(* A node that connects in the middle of an upload leaves it as it was.    *)
LEMMA ReplicasConexion ==
  ASSUME TipoInv, ReplicasInv, NEW n \in Nodo, NodoSePresenta(n) \/ NodoAgregado(n)
  PROVE  ReplicasInv'
<1>1. UNCHANGED <<archivos, archivo, arrayNodos, en, mano, mongoArchivos>>
  BY DEF NodoSePresenta, NodoAgregado, mongo
<1>2. \A i \in DOMAIN nodos : i \in DOMAIN nodos' /\ nodos'[i] = nodos[i]
  <2>1. nodos \in Seq(UnNodo)
    BY TieneLaConsola
  <2>2. nodos' = nodos \/ \E x : nodos' = Append(nodos, x)
    BY DEF NodoSePresenta, NodoAgregado
  <2>. QED
    BY <2>1, <2>2
<1>3. ASSUME NEW h \in Hilo
      PROVE  SubidaSana(h)'
  <2>1. SubidaSana(h)
    BY DEF ReplicasInv
  <2>2. /\ DatosSuyos(h) => DatosSuyos(h)'
        /\ BloqueSano(h) => BloqueSano(h)'
        /\ Tomado(h) => Tomado(h)'
    BY <1>1 DEF DatosSuyos, BloqueSano, Tomado, Ya
  <2>3. Elegido(h) => Elegido(h)'
    BY <1>1, <1>2 DEF Elegido
  <2>. QED
    BY <1>1, <2>1, <2>2, <2>3 DEF SubidaSana
<1>4. Solos' /\ SitiosUnicos(arrayNodos)' /\ ArchivosSanos'
  BY <1>1 DEF ReplicasInv, Solos, SitiosUnicos, ArchivosSanos
<1>. QED
  BY <1>3, <1>4 DEF ReplicasInv

(* A process that starts again finds sound files in MongoDB.               *)
LEMMA ReplicasCaida ==
  ASSUME TipoInv, Muerto, ReplicasInv,
         Caida \/ (\E h \in Hilo : NodoNoAtiende(h)) \/ Arranca
  PROVE  ReplicasInv'
<1>1. CASE Caida \/ \E h \in Hilo : NodoNoAtiende(h)
  <2>1. Muere /\ mongoArchivos' = mongoArchivos
    BY <1>1 DEF Caida, NodoNoAtiende, mongo
  <2>. QED
    BY <2>1, Sanos, ReplicasMuere
<1>2. CASE Arranca
  <2>1. archivos' = mongoArchivos /\ UNCHANGED <<mongoArchivos, arrayNodos, en>> /\ ~vivo
    BY <1>2 DEF Arranca, mongo
  <2>2. \A h \in Hilo : en'[h] = "libre"
    BY <2>1 DEF Muerto
  <2>3. Solos' /\ \A h \in Hilo : SubidaSana(h)'
    BY <2>2 DEF Solos, SubidaSana, Subiendo
  <2>4. ArchivosSanos' /\ SitiosUnicos(arrayNodos)'
    BY <2>1, Sanos DEF ArchivosSanos, SitiosUnicos, ReplicasInv
  <2>. QED
    BY <2>3, <2>4 DEF ReplicasInv
<1>. QED
  BY <1>1, <1>2

-----------------------------------------------------------------------------
(* Every step.                                                             *)
LEMMA ReplicasPaso ==
  ASSUME TipoInv, TipoInv', Muerto, ReplicasInv, "juntos" \notin Eventos, [Next]_vars
  PROVE  ReplicasInv'
<1>1. CASE ConsolaPaso
  BY <1>1, ReplicasNodos, ReplicasOrdena, ReplicasArchivos, ReplicasEmpieza DEF ConsolaPaso
<1>2. CASE ServidorPaso
  BY <1>2, ReplicasConexion, ReplicasEmpieza DEF ServidorPaso
<1>3. CASE \E h \in Hilo : SubidaPaso(h) \/ NodoNoAtiende(h)
  BY <1>3, ReplicasBloque, ReplicasBusca, ReplicasToma, ReplicasManda, ReplicasCaida DEF SubidaPaso
<1>4. CASE Caida \/ Arranca
  BY <1>4, ReplicasCaida
<1>5. CASE UNCHANGED vars
  <2>1. UNCHANGED <<nodos, archivos, archivo, arrayNodos, en, mano, mongoArchivos>>
    BY <1>5 DEF vars, memoria, mongo
  <2>2. \A h \in Hilo : SubidaSana(h)'
    BY <2>1 DEF ReplicasInv, SubidaSana, DatosSuyos, BloqueSano, Elegido, Tomado, Ya
  <2>. QED
    BY <2>1, <2>2 DEF ReplicasInv, Solos, SitiosUnicos, ArchivosSanos
<1>. QED
  BY <1>1, <1>2, <1>3, <1>4, <1>5 DEF Next

(* Nothing is listed at the start.                                         *)
LEMMA ReplicasInit == Init => ReplicasInv
<1>. SUFFICES ASSUME Init
              PROVE  ReplicasInv
  OBVIOUS
<1>1. \A h \in Hilo : en[h] = "libre"
  BY DEF Init
<1>2. Solos /\ \A h \in Hilo : SubidaSana(h)
  BY <1>1 DEF Solos, SubidaSana, Subiendo
<1>3. SitiosUnicos(arrayNodos) /\ ArchivosSanos
  BY DEF Init, SitiosUnicos, ArchivosSanos
<1>. QED
  BY <1>2, <1>3 DEF ReplicasInv

(* The invariant holds in every state.                                     *)
LEMMA ReplicasInvSiempre ==
  ASSUME "juntos" \notin Eventos
  PROVE  Spec => []ReplicasInv
<1>1. TipoInv /\ TipoInv' /\ Muerto /\ ReplicasInv /\ [Next]_vars => ReplicasInv'
  BY ReplicasPaso
<1>. QED
  BY <1>1, ReplicasInit, TipoSiempre, PTL DEF Spec

(* The copies of a block are on different nodes: buscarNodoEnArray never   *)
(* chooses twice the same node for a block, however the list of nodes, the *)
(* names, the free blocks and the files change before and in between, and  *)
(* no crash or restart loses it.                                           *)
THEOREM ReplicasDistintasSiempre ==
  ASSUME "juntos" \notin Eventos
  PROVE  Spec => []ReplicasDistintas
<1>1. ReplicasInv => ReplicasDistintas
  <2>. SUFFICES ASSUME ReplicasInv,
                       NEW x \in Copias(archivos, Listados), NEW y \in Copias(archivos, Listados),
                       x[1] = y[1], x[2] = y[2],
                       CopiaEn(archivos, x).nodo = CopiaEn(archivos, y).nodo
                PROVE  x = y
    BY DEF ReplicasDistintas
  <2>1. ASSUME NEW z \in Copias(archivos, Listados)
        PROVE  \E a \in 1..Len(archivos) : \E b \in DOMAIN archivos[a].bloques :
                 \E c \in DOMAIN archivos[a].bloques[b].copias : z = <<a, b, c>>
    <3>1. Listados \in SUBSET (1..Len(archivos))
      BY Sanos DEF Listados
    <3>. QED
      BY <3>1 DEF Copias
  <2>2. PICK a \in 1..Len(archivos) :
          \E b \in DOMAIN archivos[a].bloques :
            \E c \in DOMAIN archivos[a].bloques[b].copias : x = <<a, b, c>>
    BY <2>1
  <2>3. PICK b \in DOMAIN archivos[a].bloques :
          \E c \in DOMAIN archivos[a].bloques[b].copias : x = <<a, b, c>>
    BY <2>2
  <2>4. PICK c \in DOMAIN archivos[a].bloques[b].copias : x = <<a, b, c>>
    BY <2>3
  <2>5. PICK d \in DOMAIN archivos[a].bloques[b].copias : y = <<a, b, d>>
    BY <2>1, <2>4
  <2>6. CopiasDistintas(archivos[a].bloques[b])
    BY Sanos DEF ArchivoSano
  <2>7. archivos[a].bloques[b].copias[c].nodo = archivos[a].bloques[b].copias[d].nodo
    BY <2>4, <2>5 DEF CopiaEn
  <2>8. c = d
    BY <2>6, <2>7 DEF CopiasDistintas
  <2>. QED
    BY <2>4, <2>5, <2>8
<1>. QED
  BY <1>1, ReplicasInvSiempre, PTL

(* A file lists only blocks that were cut from it: funcionLoca puts the    *)
(* block in the file the global archivo points to, and that is the file of *)
(* the upload in course while the two threads take turns.                  *)
THEOREM BloquesEnSuArchivoSiempre ==
  ASSUME "juntos" \notin Eventos
  PROVE  Spec => []BloquesEnSuArchivo
<1>1. ReplicasInv => BloquesEnSuArchivo
  BY Sanos DEF BloquesEnSuArchivo, Listados, ArchivoSano
<1>. QED
  BY <1>1, ReplicasInvSiempre, PTL
=============================================================================
