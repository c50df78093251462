------------------------- MODULE Directorios_proofs -------------------------
(***************************************************************************)
(* Proofs about Directorios for any names, paths, bounds and restarts: the *)
(* documents of MongoDB are the entries of the lists, each as many times.  *)
(***************************************************************************)
EXTENDS Directorios, Secuencias_proofs

-----------------------------------------------------------------------------
(* How many times a list has an element.                                   *)

EsLista(s) == s \in Seq(Range(s))
Sitios(s, x) == {i \in 1..Len(s) : s[i] = x}
Uno(p) == IF p THEN 1 ELSE 0

(* A sequence over any set is a list.                                      *)
LEMMA Listas ==
  ASSUME NEW S, NEW s \in Seq(S)
  PROVE  EsLista(s)
BY SeqOfRange DEF EsLista

(* The times are the number of places, and there are none in a list that   *)
(* has no such element.                                                    *)
LEMMA VecesEs ==
  ASSUME NEW s, EsLista(s), NEW x
  PROVE  /\ Veces(s, x) = Cardinality(Sitios(s, x))
         /\ IsFiniteSet(Sitios(s, x))
         /\ Veces(s, x) \in Nat
         /\ Veces(s, x) = 0 <=> \A i \in 1..Len(s) : s[i] # x
<1>1. Len(s) \in Nat /\ DOMAIN s = 1..Len(s)
  BY DEF EsLista
<1>2. Veces(s, x) = Cardinality(Sitios(s, x))
  BY <1>1 DEF Veces, Sitios
<1>3. IsFiniteSet(Sitios(s, x))
  <2>1. Sitios(s, x) \in SUBSET (1..Len(s)) /\ IsFiniteSet(1..Len(s))
    BY <1>1, FS_Interval DEF Sitios
  <2>. QED
    BY <2>1, FS_Subset
<1>4. Sitios(s, x) = {} <=> \A i \in 1..Len(s) : s[i] # x
  BY DEF Sitios
<1>. QED
  BY <1>2, <1>3, <1>4, FS_CardinalityType, FS_EmptySet

(* One more element at the end.                                            *)
LEMMA VecesAppend ==
  ASSUME NEW s, EsLista(s), NEW e
  PROVE  /\ EsLista(Append(s, e))
         /\ Len(Append(s, e)) = Len(s) + 1
         /\ \A i \in 1..Len(s) : Append(s, e)[i] = s[i]
         /\ \A x : Veces(Append(s, e), x) = Veces(s, x) + Uno(e = x)
<1>. DEFINE S == Range(s) \cup {e}
            t == Append(s, e)
<1>1. s \in Seq(S)
  BY SeqMonotonic DEF EsLista
<1>2. /\ t \in Seq(S) /\ Len(t) = Len(s) + 1
      /\ \A i \in 1..Len(s) : t[i] = s[i]
      /\ t[Len(s) + 1] = e
  BY <1>1, AppendProperties
<1>3. EsLista(t)
  BY <1>2, Listas
<1>. HIDE DEF t
<1>4. ASSUME NEW x
      PROVE  Veces(t, x) = Veces(s, x) + Uno(e = x)
  <2>1. Len(s) \in Nat /\ Len(s) + 1 \notin Sitios(s, x)
    BY <1>1 DEF Sitios
  <2>2. CASE e = x
    <3>1. Sitios(t, x) = Sitios(s, x) \cup {Len(s) + 1}
      BY <1>2, <2>1, <2>2 DEF Sitios
    <3>. QED
      BY <1>3, <2>1, <2>2, <3>1, VecesEs, FS_AddElement DEF Uno
  <2>3. CASE e # x
    <3>1. Sitios(t, x) = Sitios(s, x)
      BY <1>2, <2>1, <2>3 DEF Sitios
    <3>. QED
      BY <1>3, <2>3, <3>1, VecesEs DEF Uno
  <2>. QED
    BY <2>2, <2>3
<1>. QED
  BY <1>2, <1>3, <1>4 DEF t

(* The element at p less.                                                  *)
LEMMA VecesRemoveAt ==
  ASSUME NEW s, EsLista(s), NEW p \in 1..Len(s)
  PROVE  /\ EsLista(RemoveAt(s, p))
         /\ \A x : Veces(RemoveAt(s, p), x) = Veces(s, x) - Uno(s[p] = x)
<1>. DEFINE t == RemoveAt(s, p)
            sitio(i) == IF i < p THEN i ELSE i + 1
<1>1. /\ t \in Seq(Range(s)) /\ Len(t) = Len(s) - 1
      /\ \A i \in 1..(Len(s) - 1) : t[i] = s[sitio(i)]
  BY RemoveAtEs DEF EsLista
<1>2. EsLista(t)
  BY <1>1, Listas
<1>3. Len(s) \in Nat
  BY DEF EsLista
<1>. HIDE DEF t
<1>4. ASSUME NEW x
      PROVE  Veces(t, x) = Veces(s, x) - Uno(s[p] = x)
  <2>. DEFINE A == Sitios(t, x)
              B == Sitios(s, x) \ {p}
              f == [i \in A |-> sitio(i)]
  <2>1. f \in [A -> B]
    BY <1>1, <1>3 DEF Sitios
  <2>2. \A i, j \in A : f[i] = f[j] => i = j
    BY <1>1, <1>3 DEF Sitios
  <2>3. \A k \in B : \E i \in A : f[i] = k
    <3>1. ASSUME NEW k \in B
          PROVE  \E i \in A : f[i] = k
      <4>1. CASE k < p
        <5>1. k \in A /\ f[k] = k
          BY <1>1, <1>3, <4>1 DEF Sitios
        <5>. QED
          BY <5>1
      <4>2. CASE k > p
        <5>1. k - 1 \in A /\ f[k - 1] = k
          BY <1>1, <1>3, <4>2 DEF Sitios
        <5>. QED
          BY <5>1
      <4>. QED
        BY <4>1, <4>2, <1>3 DEF Sitios
    <3>. QED
      BY <3>1
  <2>4. ExistsBijection(A, B)
    <3>. HIDE DEF A, B, f
    <3>1. f \in Bijection(A, B)
      BY <2>1, <2>2, <2>3 DEF Bijection, Injection, Surjection, IsInjective
    <3>. QED
      BY <3>1 DEF ExistsBijection
  <2>5. IsFiniteSet(A) /\ Cardinality(A) = Veces(t, x)
    BY <1>2, VecesEs
  <2>6. Cardinality(B) = Cardinality(A)
    BY <2>4, <2>5, FS_Bijection
  <2>7. /\ IsFiniteSet(Sitios(s, x)) /\ Cardinality(Sitios(s, x)) = Veces(s, x)
        /\ Veces(s, x) \in Nat
    BY VecesEs
  <2>8. Cardinality(B) = IF p \in Sitios(s, x) THEN Veces(s, x) - 1 ELSE Veces(s, x)
    BY <2>7, FS_RemoveElement
  <2>9. p \in Sitios(s, x) <=> s[p] = x
    BY DEF Sitios
  <2>. HIDE DEF A, B
  <2>. QED
    BY <2>5, <2>6, <2>7, <2>8, <2>9 DEF Uno
<1>. QED
  BY <1>2, <1>4 DEF t

(* Another element at p.                                                   *)
Cambiada(s, p, e) == [s EXCEPT ![p] = e]
LEMMA VecesCambia ==
  ASSUME NEW s, EsLista(s), NEW p \in 1..Len(s), NEW e
  PROVE  /\ EsLista(Cambiada(s, p, e))
         /\ \A x : Veces(Cambiada(s, p, e), x) = Veces(s, x) - Uno(s[p] = x) + Uno(e = x)
<1>. DEFINE S == Range(s) \cup {e}
            t == Cambiada(s, p, e)
            r == RemoveAt(s, p)
            q == RemoveAt(t, p)
<1>1. s \in Seq(S) /\ Len(s) \in Nat
  BY SeqMonotonic DEF EsLista
<1>2. t \in Seq(S) /\ Len(t) = Len(s) /\ t[p] = e /\ \A i \in 1..Len(s) : i # p => t[i] = s[i]
  BY <1>1 DEF Cambiada
<1>3. EsLista(t)
  BY <1>2, Listas
<1>. HIDE DEF t
<1>4. q = r
  <2>1. /\ q \in Seq(S) /\ Len(q) = Len(s) - 1
        /\ \A i \in 1..(Len(s) - 1) : q[i] = t[IF i < p THEN i ELSE i + 1]
    BY <1>2, RemoveAtEs
  <2>2. /\ r \in Seq(S) /\ Len(r) = Len(s) - 1
        /\ \A i \in 1..(Len(s) - 1) : r[i] = s[IF i < p THEN i ELSE i + 1]
    BY <1>1, RemoveAtEs
  <2>. HIDE DEF q, r
  <2>3. \A i \in 1..(Len(s) - 1) : q[i] = r[i]
    BY <1>1, <1>2, <2>1, <2>2, SMTT(30)
  <2>. QED
    BY <2>1, <2>2, <2>3, SeqEqual
<1>5. \A x : Veces(r, x) = Veces(s, x) - Uno(s[p] = x)
  BY VecesRemoveAt
<1>6. \A x : Veces(q, x) = Veces(t, x) - Uno(e = x)
  BY <1>2, <1>3, VecesRemoveAt
<1>7. \A x : Veces(t, x) \in Nat /\ Veces(s, x) \in Nat
  BY <1>3, VecesEs
<1>8. \A x : Veces(t, x) = Veces(s, x) - Uno(s[p] = x) + Uno(e = x)
  <2>. HIDE DEF q, r
  <2>. QED
    BY <1>4, <1>5, <1>6, <1>7 DEF Uno
<1>. QED
  BY <1>3, <1>8 DEF t

(* The first that is e less, if there is one.                              *)
LEMMA VecesBorra ==
  ASSUME NEW s, EsLista(s), NEW e, Veces(s, e) # 0
  PROVE  /\ EsLista(Borra(s, e))
         /\ \A x : Veces(Borra(s, e), x) = Veces(s, x) - Uno(e = x)
<1>1. PICK p \in 1..Len(s) : s[p] = e /\ Borra(s, e) = RemoveAt(s, p)
  BY RemoveFirstEs, VecesEs DEF EsLista, Borra
<1>. QED
  BY <1>1, VecesRemoveAt
-----------------------------------------------------------------------------
(* A collection m that is up to date with list l, but for the entry at d,  *)
(* whose document was deleted; 0: with every entry.                        *)

AlDia(m, l, d) ==
  /\ EsLista(m) /\ EsLista(l)
  /\ d \in 0..Len(l)
  /\ \A x : Veces(m, x) = Veces(l, x) - Uno(d # 0 /\ l[d] = x)

(* Two equal lists, as after a restart.                                    *)
LEMMA AlDiaIguales ==
  ASSUME NEW m, EsLista(m)
  PROVE  AlDia(m, m, 0)
<1>1. Len(m) \in Nat
  BY DEF EsLista
<1>. QED
  BY <1>1, VecesEs DEF AlDia, Uno

(* An entry and its document are added, whatever the console is doing.     *)
LEMMA AlDiaAgrega ==
  ASSUME NEW m, NEW l, NEW d, AlDia(m, l, d), NEW e
  PROVE  AlDia(Append(m, e), Append(l, e), d)
<1>. DEFINE n == Append(m, e)
            k == Append(l, e)
<1>1. EsLista(n) /\ \A x : Veces(n, x) = Veces(m, x) + Uno(e = x)
  BY VecesAppend DEF AlDia
<1>2. /\ EsLista(k) /\ Len(k) = Len(l) + 1
      /\ \A i \in 1..Len(l) : k[i] = l[i]
      /\ \A x : Veces(k, x) = Veces(l, x) + Uno(e = x)
  BY VecesAppend DEF AlDia
<1>. HIDE DEF n, k
<1>3. Len(l) \in Nat /\ \A x : Veces(m, x) \in Nat /\ Veces(l, x) \in Nat
  BY VecesEs DEF AlDia, EsLista
<1>4. d \in 0..Len(k)
  BY <1>2, <1>3 DEF AlDia
<1>5. ASSUME NEW x
      PROVE  Veces(n, x) = Veces(k, x) - Uno(d # 0 /\ k[d] = x)
  <2>1. d # 0 => k[d] = l[d]
    BY <1>2, <1>3 DEF AlDia
  <2>2. Veces(m, x) = Veces(l, x) - Uno(d # 0 /\ k[d] = x)
    BY <2>1 DEF AlDia
  <2>. QED
    BY <1>1, <1>2, <1>3, <2>2 DEF Uno
<1>6. AlDia(n, k, d)
  BY <1>1, <1>2, <1>4, <1>5 DEF AlDia
<1>. QED
  BY <1>6 DEF n, k

(* The first half of an order deletes the document of entry p.             *)
LEMMA AlDiaBorra ==
  ASSUME NEW m, NEW l, AlDia(m, l, 0), NEW p \in 1..Len(l)
  PROVE  AlDia(Borra(m, l[p]), l, p)
<1>1. Len(l) \in Nat /\ \A x : Veces(m, x) = Veces(l, x)
  BY VecesEs DEF AlDia, EsLista, Uno
<1>2. Veces(m, l[p]) # 0
  BY <1>1, VecesEs DEF AlDia
<1>3. EsLista(Borra(m, l[p])) /\ \A x : Veces(Borra(m, l[p]), x) = Veces(m, x) - Uno(l[p] = x)
  BY <1>2, VecesBorra DEF AlDia
<1>4. p # 0 /\ p \in 0..Len(l)
  BY <1>1
<1>. QED
  BY <1>1, <1>3, <1>4 DEF AlDia

(* The second half removes the entry; or changes it and adds its document. *)
LEMMA AlDiaQuita ==
  ASSUME NEW m, NEW l, NEW d, d # 0, AlDia(m, l, d)
  PROVE  AlDia(m, RemoveAt(l, d), 0)
<1>1. d \in 1..Len(l) /\ EsLista(l)
  BY DEF AlDia, EsLista
<1>2. EsLista(RemoveAt(l, d)) /\ \A x : Veces(RemoveAt(l, d), x) = Veces(l, x) - Uno(l[d] = x)
  BY <1>1, VecesRemoveAt
<1>3. Len(RemoveAt(l, d)) \in Nat /\ \A x : Veces(RemoveAt(l, d), x) \in Nat
  BY <1>2, VecesEs DEF EsLista
<1>. QED
  BY <1>2, <1>3 DEF AlDia, Uno

(* The same for the change.                                                *)
LEMMA AlDiaCambia ==
  ASSUME NEW m, NEW l, NEW d, d # 0, AlDia(m, l, d), NEW e
  PROVE  AlDia(Append(m, e), [l EXCEPT ![d] = e], 0)
<1>. DEFINE n == Append(m, e)
            k == Cambiada(l, d, e)
<1>1. d \in 1..Len(l) /\ EsLista(l)
  BY DEF AlDia, EsLista
<1>2. EsLista(k) /\ \A x : Veces(k, x) = Veces(l, x) - Uno(l[d] = x) + Uno(e = x)
  BY <1>1, VecesCambia
<1>3. EsLista(n) /\ \A x : Veces(n, x) = Veces(m, x) + Uno(e = x)
  BY VecesAppend DEF AlDia
<1>. HIDE DEF n, k
<1>4. Len(k) \in Nat /\ \A x : Veces(k, x) \in Nat /\ Veces(l, x) \in Nat /\ Veces(m, x) \in Nat
  BY <1>2, VecesEs DEF EsLista, AlDia
<1>5. AlDia(n, k, 0)
  BY <1>2, <1>3, <1>4 DEF AlDia, Uno
<1>. QED
  BY <1>5 DEF n, k, Cambiada

(* What MongoAlDia asks of a collection.                                   *)
LEMMA AlDiaEs ==
  ASSUME NEW m, NEW l, NEW d, AlDia(m, l, d)
  PROVE  MismosElementos(m, IF d # 0 THEN RemoveAt(l, d) ELSE l)
<1>. DEFINE k == IF d # 0 THEN RemoveAt(l, d) ELSE l
<1>1. AlDia(m, k, 0)
  BY AlDiaQuita
<1>2. \A x : Veces(m, x) = Veces(k, x)
  BY <1>1, VecesEs DEF AlDia, Uno
<1>. QED
  BY <1>2 DEF MismosElementos

-----------------------------------------------------------------------------
(* The invariant, and each action.                                         *)

EnCurso(nombre) == IF consola.lista = nombre THEN consola.donde ELSE 0

IInv ==
  /\ AlDia(mongoFs, fs, EnCurso("fs"))
  /\ AlDia(mongoArch, archivos, EnCurso("archivos"))
  /\ consola.lista \in {"ninguna", "fs", "archivos"}
  /\ consola.lista # "ninguna" => consola.donde # 0

(* Before any order the four are empty.                                    *)
LEMMA IInit == Init => IInv
<1>. SUFFICES ASSUME Init
              PROVE  IInv
  OBVIOUS
<1>1. EsLista(<<>>)
  BY EmptySeq, Listas
<1>. QED
  BY <1>1, AlDiaIguales DEF Init, IInv, EnCurso, SinOrden

(* The entry an order works on exists.                                     *)
LEMMA ElegidaEsta ==
  ASSUME IInv, NEW padre, NEW n, validarDirectorio(n, padre) # 0
  PROVE  Elegida(padre, n) \in 1..Len(fs)
<1>. DEFINE v == validarDirectorio(n, padre)
            J == {i \in 1..Len(fs) : fs[i].padre = padre /\ fs[i].directorio = n}
            I == {i \in 1..Len(fs) : fs[i].index = v /\ fs[i].directorio = n}
            q == SelectInSeq(fs, LAMBDA d : d.padre = padre /\ d.directorio = n)
<1>1. q = IF J # {} THEN Min(J) ELSE 0
  BY DEF SelectInSeq
<1>2. v = IF q = 0 THEN 0 ELSE fs[q].index
  BY DEF validarDirectorio, Primera
<1>3. Elegida(padre, n) = IF I # {} THEN Min(I) ELSE 0
  BY DEF Elegida, Primera, SelectInSeq
<1>. HIDE DEF q, v
<1>4. J # {} /\ q = Min(J)
  BY <1>1, <1>2 DEF v
<1>5. q \in J
  <2>1. J \in SUBSET Nat
    OBVIOUS
  <2>. QED
    BY <1>4, <2>1, MinEs
<1>6. I # {} /\ I \in SUBSET Nat
  BY <1>2, <1>5
<1>7. Min(I) \in I
  BY <1>6, MinEs
<1>. QED
  BY <1>3, <1>6, <1>7

(* The first half of an order on a directory.                              *)
LEMMA PasoBorraDocumento ==
  ASSUME IInv, Libre, NEW p \in 1..Len(fs), NEW nuevo, BorraDocumento(p, nuevo)
  PROVE  IInv'
<1>1. AlDia(mongoFs, fs, 0) /\ AlDia(mongoArch, archivos, 0)
  BY DEF IInv, EnCurso, Libre, SinOrden
<1>2. AlDia(Borra(mongoFs, fs[p]), fs, p)
  BY <1>1, AlDiaBorra
<1>3. p # 0
  OBVIOUS
<1>. QED
  BY <1>1, <1>2, <1>3 DEF BorraDocumento, IInv, EnCurso, listas

(* The orders of the console, up to their second half.                     *)
LEMMA PasoOrden == IInv /\ Ordena /\ Orden => IInv'
<1>. SUFFICES ASSUME IInv, Ordena, Orden
              PROVE  IInv'
  OBVIOUS
<1>1. Libre /\ AlDia(mongoFs, fs, 0) /\ AlDia(mongoArch, archivos, 0)
  BY DEF IInv, EnCurso, Ordena, Libre, SinOrden
<1>2. ASSUME NEW padre, NEW n, crearDirectorio(padre, n)
      PROVE  IInv'
  <2>. DEFINE nuevo == [index |-> indexGlobal, directorio |-> n, padre |-> padre]
  <2>1. UNCHANGED <<archivos, mongoArch, consola>>
    BY <1>2 DEF crearDirectorio
  <2>2. \/ UNCHANGED <<fs, mongoFs>>
        \/ mongoFs' = Append(mongoFs, nuevo) /\ fs' = Append(fs, nuevo)
    BY <1>2 DEF crearDirectorio
  <2>. HIDE DEF nuevo
  <2>3. AlDia(mongoFs', fs', 0)
    BY <1>1, <2>2, AlDiaAgrega
  <2>. QED
    BY <1>1, <2>1, <2>3 DEF IInv, EnCurso, Libre, SinOrden
<1>3. ASSUME NEW padre, NEW n, eliminarDirectorio(padre, n)
      PROVE  IInv'
  BY <1>1, <1>3, ElegidaEsta, PasoBorraDocumento DEF eliminarDirectorio
<1>4. ASSUME NEW padre, NEW n, moverDirectorio(padre, n)
      PROVE  IInv'
  <2>1. validarDirectorio(n, padre) # 0
    BY <1>4 DEF moverDirectorio
  <2>2. \E nuevo : BorraDocumento(Elegida(padre, n), nuevo)
    BY <1>4 DEF moverDirectorio
  <2>. QED
    BY <1>1, <2>1, <2>2, ElegidaEsta, PasoBorraDocumento
<1>5. ASSUME NEW padre, NEW n, NEW otro, renombrarDirectorio(padre, n, otro)
      PROVE  IInv'
  <2>1. validarDirectorio(n, padre) # 0
    BY <1>5 DEF renombrarDirectorio
  <2>2. \E nuevo : BorraDocumento(Elegida(padre, n), nuevo)
    BY <1>5 DEF renombrarDirectorio
  <2>. QED
    BY <1>1, <2>1, <2>2, ElegidaEsta, PasoBorraDocumento
<1>6. ASSUME NEW padre, SubirArchivo(padre)
      PROVE  IInv'
  <2>. DEFINE nuevo == [nombre |-> Archivo, padre |-> padre]
  <2>1. /\ archivos' = Append(archivos, nuevo) /\ mongoArch' = Append(mongoArch, nuevo)
        /\ UNCHANGED <<fs, mongoFs, consola>>
    BY <1>6 DEF SubirArchivo
  <2>. HIDE DEF nuevo
  <2>2. AlDia(mongoArch', archivos', 0)
    BY <1>1, <2>1, AlDiaAgrega
  <2>. QED
    BY <1>1, <2>1, <2>2 DEF IInv, EnCurso, Libre, SinOrden
<1>7. ASSUME NEW padre, NEW n, NEW c, moverArchivo(n, c, padre)
      PROVE  IInv'
  <2>. DEFINE destino == validarDirectorios(c)
              I == {i \in 1..Len(archivos) : archivos[i].nombre = n /\ archivos[i].padre = destino}
              p == SelectInSeq(archivos, LAMBDA a : a.nombre = n /\ a.padre = destino)
  <2>1. /\ p # 0
        /\ mongoArch' = Borra(mongoArch, archivos[p])
        /\ consola'.lista = "archivos" /\ consola'.donde = p
        /\ UNCHANGED <<fs, archivos, mongoFs>>
    BY <1>7 DEF moverArchivo, Primera, listas
  <2>2. p = IF I # {} THEN Min(I) ELSE 0
    BY DEF SelectInSeq
  <2>. HIDE DEF p
  <2>3. p \in 1..Len(archivos)
    <3>1. I \in SUBSET Nat /\ I # {}
      BY <2>1, <2>2
    <3>. QED
      BY <2>1, <2>2, <3>1, MinEs
  <2>4. AlDia(Borra(mongoArch, archivos[p]), archivos, p)
    BY <1>1, <2>3, AlDiaBorra
  <2>. QED
    BY <1>1, <2>1, <2>4 DEF IInv, EnCurso
<1>. QED
  BY <1>2, <1>3, <1>4, <1>5, <1>6, <1>7 DEF Orden

(* Every step keeps the invariant.                                         *)
LEMMA IStep == IInv /\ [Next]_vars => IInv'
<1>. SUFFICES ASSUME IInv, [Next]_vars
              PROVE  IInv'
  OBVIOUS
<1>1. ASSUME UNCHANGED <<listas, mongo, consola>>
      PROVE  IInv'
  BY <1>1 DEF IInv, EnCurso, listas, mongo
<1>2. CASE Ordena /\ Orden
  BY <1>2, PasoOrden
<1>3. CASE MuestraSinFin \/ \E c \in Caminos : HiloValida(c)
  BY <1>1, <1>3 DEF MuestraSinFin, HiloValida
<1>4. CASE TerminaOrden
  <2>. DEFINE d == consola.donde
  <2>1. /\ d # 0 /\ AlDia(mongoFs, fs, d) /\ AlDia(mongoArch, archivos, 0)
    BY <1>4 DEF IInv, EnCurso, TerminaOrden
  <2>2. /\ consola' = SinOrden /\ UNCHANGED <<archivos, mongoArch>>
        /\ \/ fs' = RemoveAt(fs, d) /\ mongoFs' = mongoFs
           \/ \E e : fs' = [fs EXCEPT ![d] = e] /\ mongoFs' = Append(mongoFs, e)
    BY <1>4 DEF TerminaOrden
  <2>3. AlDia(mongoFs', fs', 0)
    <3>1. CASE fs' = RemoveAt(fs, d) /\ mongoFs' = mongoFs
      BY <2>1, <3>1, AlDiaQuita
    <3>2. ASSUME NEW e, fs' = [fs EXCEPT ![d] = e], mongoFs' = Append(mongoFs, e)
          PROVE  AlDia(mongoFs', fs', 0)
      BY <2>1, <3>2, AlDiaCambia, Zenon
    <3>. QED
      BY <2>2, <3>1, <3>2
  <2>. QED
    BY <2>1, <2>2, <2>3 DEF IInv, EnCurso, SinOrden
<1>5. CASE TerminaMoverArchivo
  <2>. DEFINE d == consola.donde
  <2>1. /\ d # 0 /\ AlDia(mongoFs, fs, 0) /\ AlDia(mongoArch, archivos, d)
    BY <1>5 DEF IInv, EnCurso, TerminaMoverArchivo
  <2>2. /\ consola' = SinOrden /\ UNCHANGED <<fs, mongoFs>>
        /\ archivos' = [archivos EXCEPT ![d] = consola.nuevo]
        /\ mongoArch' = Append(mongoArch, consola.nuevo)
    BY <1>5 DEF TerminaMoverArchivo
  <2>3. AlDia(mongoArch', archivos', 0)
    BY <2>1, <2>2, AlDiaCambia
  <2>. QED
    BY <2>1, <2>2, <2>3 DEF IInv, EnCurso, SinOrden
<1>6. CASE formatearFs
  <2>1. EsLista(<<>>)
    BY EmptySeq, Listas
  <2>. QED
    BY <1>6, <2>1, AlDiaIguales DEF formatearFs, IInv, EnCurso, Libre, SinOrden
<1>7. CASE HiloAgrega
  <2>. DEFINE nuevo == [nombre |-> Resultado, padre |-> hilo]
  <2>1. /\ archivos' = Append(archivos, nuevo) /\ mongoArch' = Append(mongoArch, nuevo)
        /\ UNCHANGED <<fs, mongoFs, consola>>
    BY <1>7 DEF HiloAgrega
  <2>. HIDE DEF nuevo
  <2>2. AlDia(mongoArch', archivos', EnCurso("archivos"))
    BY <2>1, AlDiaAgrega DEF IInv
  <2>. QED
    BY <2>1, <2>2 DEF IInv, EnCurso
<1>8. CASE Reinicio
  <2>1. AlDia(mongoFs, mongoFs, 0) /\ AlDia(mongoArch, mongoArch, 0)
    BY AlDiaIguales DEF IInv, AlDia
  <2>. QED
    BY <1>8, <2>1 DEF Reinicio, IInv, EnCurso, SinOrden, mongo
<1>9. CASE UNCHANGED vars
  BY <1>1, <1>9 DEF vars, listas, mongo
<1>. QED
  BY <1>2, <1>3, <1>4, <1>5, <1>6, <1>7, <1>8, <1>9 DEF Next

(* borrar_filesystem_mongo deletes a document by the value of its entry and *)
(* the order inserts another after changing it: whatever the orders, the   *)
(* results of nodes in between and the restarts, a collection holds the    *)
(* entries of its list, each as many times, but for the one in between.    *)
THEOREM MongoSiempreAlDia == Spec => []MongoAlDia
<1>1. IInv => MongoAlDia
  <2>. SUFFICES ASSUME IInv
                PROVE  MongoAlDia
    OBVIOUS
  <2>1. MismosElementos(mongoFs, IF EnCurso("fs") # 0 THEN RemoveAt(fs, EnCurso("fs")) ELSE fs)
    BY AlDiaEs DEF IInv
  <2>2. MismosElementos(mongoArch, IF EnCurso("archivos") # 0
                                   THEN RemoveAt(archivos, EnCurso("archivos")) ELSE archivos)
    BY AlDiaEs DEF IInv
  <2>. QED
    BY <2>1, <2>2 DEF MongoAlDia, EnCurso, IInv
<1>. QED
  BY <1>1, IInit, IStep, PTL DEF Spec
=============================================================================
